SPECIFICATION FairSpec
CONSTANTS
    listener = listener
    peer1 = peer1
    peer2 = peer2
    listenerId = listenerId
    id1 = id1
    listenerType = listenerType
    peerType = peerType
    Instances = {listener, peer1, peer2}
    Ids = {listenerId, id1}
    Types = {listenerType, peerType}
    UniqueId <- SameId
    TypeId <- SameIdType
    DisableEqualModuleInterconnect = {}
    Ending = {peer1}
    Listeners = {listener}
    PEER_TIMEOUT_FACTOR = 1
    MaxInFlight = 1
PROPERTY DeadPeerIsForgotten
PROPERTY LivePeerIsKnown
PROPERTY ViewSpec
