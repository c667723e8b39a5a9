CONSTANTS
    Topics = {t1}
    BufferSize = 1
    HandlersMay = {"throw", "subscribe"}
    MaxReceived <- MaxReceivedFew
    MaxEnables = 2
SPECIFICATION Spec
CHECK_DEADLOCK FALSE
INVARIANT TypeOK
INVARIANT CallbacksAreGuarded
INVARIANT DeliveredInOrder
INVARIANT NothingStranded
INVARIANT EventQueueBounded
INVARIANT DisabledIsQuiet
PROPERTY EnableAndDisableEnd
PROPERTY EverythingIsDelivered
