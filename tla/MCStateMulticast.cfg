SPECIFICATION Spec
CONSTANTS
    self = self
    twin = twin
    peer = peer
    restarted = restarted
    other = other
    third = third
    verbose = verbose
    ownId = ownId
    peerId = peerId
    otherId = otherId
    thirdId = thirdId
    verboseId = verboseId
    ownType = ownType
    peerType = peerType
    x = x
    y = y
    Instances = {self, twin, peer, restarted, other, third, verbose}
    Ids = {ownId, peerId, otherId, thirdId, verboseId}
    Types = {ownType, peerType}
    UniqueId <- Id
    TypeId <- Type
    Self = self
    Name <- Names
    Version <- Versions
    Announced <- Announcements
    DisableEqualModuleInterconnect = FALSE
    BufferSize = 12
    MaxDatagram = 14
INVARIANT TypeOK
INVARIANT ReadAsWritten
INVARIANT RecognizesItself
INVARIANT StatesBelongTogether
INVARIANT RegistryAgrees
INVARIANT QueriesAnswerFromStates
