-------------------------- MODULE MCStateMulticast --------------------------
(***************************************************************************)
(* One receiver, a twin with its id, a peer and its restart with another   *)
(* version, two more peers of that type, and one whose name is too long.   *)
(* A multicast with a name of one unit has 11 units and those of its       *)
(* additional state, so an additional state of one unit just fits, after   *)
(* one of two the identifier is cut, one of three is cut itself, and one   *)
(* of four is too large to be sent.                                        *)
(***************************************************************************)
EXTENDS StateMulticast

CONSTANTS self, twin, peer, restarted, other, third, verbose,
          ownId, peerId, otherId, thirdId, verboseId, ownType, peerType, x, y

Id == (self :> ownId) @@ (twin :> ownId) @@ (peer :> peerId) @@ (restarted :> peerId)
          @@ (other :> otherId) @@ (third :> thirdId) @@ (verbose :> verboseId)
Type == (ownId :> ownType) @@ [i \in {peerId, otherId, thirdId, verboseId} |-> peerType]
Names == [p \in Instances |-> IF p = verbose THEN <<x, x, x, x, x, x>> ELSE <<x>>]
Versions == [p \in Instances |-> IF p = restarted THEN 2 ELSE 1]

Announcements ==
    (self :> {<<"Inactive", <<>>>>, <<"Active", <<x, y, x>>>>})
    @@ (twin :> {<<"Inactive", <<>>>>, <<"Dead", <<>>>>})
    @@ (peer :> {<<"Inactive", <<>>>>, <<"Active", <<x>>>>, <<"Dead", <<x>>>>})
    @@ (restarted :> {<<"Inactive", <<y>>>>, <<"Active", <<x, y>>>>, <<"Dead", <<y>>>>})
    @@ (other :> {<<"Active", <<>>>>, <<"Inactive", <<y>>>>, <<"Active", <<y, y, y, y>>>>})
    @@ (third :> {<<"Active", <<>>>>, <<"Dead", <<>>>>})
    @@ (verbose :> {<<"Active", <<>>>>})
=============================================================================
