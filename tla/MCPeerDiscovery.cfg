SPECIFICATION Spec
CONSTANTS
    listener = listener
    peer1 = peer1
    peer2 = peer2
    listenerId = listenerId
    id1 = id1
    listenerType = listenerType
    peerType = peerType
    Instances = {listener, peer1, peer2}
    Ids = {listenerId, id1}
    Types = {listenerType, peerType}
    UniqueId <- SameId
    TypeId <- SameIdType
    DisableEqualModuleInterconnect = {}
    Ending = {listener, peer1, peer2}
    Listeners = {listener}
    PEER_TIMEOUT_FACTOR = 1
    MaxInFlight = 2
SYMMETRY PeerSymmetry
INVARIANT TypeOK
INVARIANT CoreIsTold
PROPERTY StoppedIsSilent
