--------------------------- MODULE MCPeerDiscovery ---------------------------
(***************************************************************************)
(* Instances for TLC: one listener and two peers of one type, which have   *)
(* the same id: a restart, or a second instance.                           *)
(***************************************************************************)
EXTENDS PeerDiscovery

CONSTANTS listener, peer1, peer2, listenerId, id1, listenerType, peerType

SameId == (listener :> listenerId) @@ (peer1 :> id1) @@ (peer2 :> id1)
SameIdType == (listenerId :> listenerType) @@ (id1 :> peerType)

PeerSymmetry == Permutations({peer1, peer2})
=============================================================================
