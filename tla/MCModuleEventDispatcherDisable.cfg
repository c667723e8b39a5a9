CONSTANTS
    Topics = {t1}
    BufferSize = 0
    HandlersMay = {}
    MaxReceived <- MaxReceivedFew
    MaxEnables = 2
SPECIFICATION Spec
CHECK_DEADLOCK FALSE
PROPERTY DisableStopsThread
