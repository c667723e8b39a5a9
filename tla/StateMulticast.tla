--------------------------- MODULE StateMulticast ---------------------------
(***************************************************************************)
(* What an instance makes of the multicasts it receives, its own included: *)
(* from the bytes of a datagram to the peer registry                       *)
(* (PeerDiscoveryService, FrameworkProto, PeerRegistryInternal).           *)
(*                                                                         *)
(* PeerDiscovery models when multicasts are sent, lost and timed out, and  *)
(* takes their contents for granted; here they have contents, and arrive   *)
(* in any order.  The network delays without limit, so every multicast an  *)
(* instance sends in its life may be the next one to arrive.               *)
(*                                                                         *)
(* The receiver is started and not asked to stop.  A step is one critical  *)
(* section of the registry; multicastThread_ alone changes it.             *)
(***************************************************************************)
EXTENDS PeerRegistry, FrameworkProto

CONSTANTS
    Self,         \* the instance that receives
    Name,         \* of the module of an instance, a sequence
    Version,      \* of the module of an instance
    Announced,    \* the pairs of state and additional state an instance announces
                  \* in its life; an additional state is a sequence
    DisableEqualModuleInterconnect,
    BufferSize,   \* the part of a datagram that is received
    MaxDatagram   \* the largest datagram UDP takes

Bytes == UNION {ToSet(pair[2]) : pair \in UNION {Announced[p] : p \in Instances}}
         \cup UNION {ToSet(Name[p]) : p \in Instances}

ASSUME SelfAssumption == Self \in Instances /\ DisableEqualModuleInterconnect \in BOOLEAN
ASSUME ContentsAssumption ==
    /\ Version \in [Instances -> Nat] /\ Name \in [Instances -> Seq(Bytes)]
    /\ Announced \in [Instances -> SUBSET (ModuleStates \X Seq(Bytes))]
\* Ports and id always fit.
ASSUME SizesAssumption == BufferSize \in Nat /\ MaxDatagram \in Nat /\ BufferSize >= 5
\* No port is 0, the default of the generated code, nor is multicastIdentifier_ (but for
\* one start in 2^32).
ASSUME IdentifierAssumption == 0 \notin Instances

VARIABLES
    thread,      \* multicastThread_: "loop", "process" a message, "update" a state
    incoming,    \* what was sent in the datagram at hand (history)
    broadcast,   \* stateBroadcast, what was read of it
    registry,    \* peerRegistry_
    additional   \* peerAdditionalStates

vars == <<thread, incoming, broadcast, registry, additional>>

Nothing == [from |-> "none"]

Init ==
    /\ thread = "loop"
    /\ incoming = Nothing
    /\ broadcast = EmptyMessage
    /\ registry = EmptyRegistry
    /\ additional = <<>>

-----------------------------------------------------------------------------
\* The sender.

\* enum ModuleState.
Code(state) == CASE state = "Dead" -> 0 [] state = "Inactive" -> 1 [] state = "Active" -> 2
StateOfCode(code) == CHOOSE state \in ModuleStates : Code(state) = code

\* A port stands for the run that bound it, and so does multicastIdentifier_, a random number.
Message(p, state, additionalState) ==
    [zmqPubPort |-> p, zmqRepPort |-> p,
     senderId |-> [typeId |-> TypeId[UniqueId[p]], instanceId |-> UniqueId[p]],
     senderName |-> Name[p], version |-> Version[p], lifecycleState |-> Code(state),
     additionalStateInfos |-> additionalState, multicastIdentifier |-> p]

Sent(m) == ByteSize(m) <= MaxDatagram
Datagram(m) == LET bytes == Serialize(m) IN SubSeq(bytes, 1, Min({BufferSize, Len(bytes)}))
Fits(m) == ByteSize(m) <= BufferSize

-----------------------------------------------------------------------------
\* The receiver.

\* receiveMulticasts(): the result of ParseFromArray() is ignored, and what
\* could be read is passed on, by value.
Receive(p, state, additionalState) ==
    LET m == Message(p, state, additionalState) IN
    /\ thread = "loop"
    /\ <<state, additionalState>> \in Announced[p]
    /\ Sent(m)
    /\ incoming' = [from |-> p, state |-> state, additional |-> additionalState]
    /\ broadcast' = Copy(ParsePartial(Datagram(m)))
    /\ thread' = "process"
    /\ UNCHANGED <<registry, additional>>

PeerId == Field(Field(broadcast, "senderId"), "instanceId")
PeerState == StateOfCode(Field(broadcast, "lifecycleState"))
AdditionalState == Field(broadcast, "additionalStateInfos")
Handle == Field(broadcast, "zmqPubPort")
Known == HasId(registry.all, PeerId)

\* Seeded fault: only the id is compared.
OwnById == PeerId = UniqueId[Self]

\* Is it this instance's own multicast?
Own == Field(broadcast, "multicastIdentifier") = Self /\ PeerId = UniqueId[Self]

\* With the option, those of its own type are ignored as well.
Ignored ==
    \/ Own
    \/ DisableEqualModuleInterconnect /\ TypeId[PeerId] = TypeId[UniqueId[Self]]

Done == thread' = "loop" /\ incoming' = Nothing /\ broadcast' = EmptyMessage

Ignore ==
    /\ thread = "process"
    /\ Ignored \/ (PeerState = "Dead" /\ ~Known)
    /\ Done
    /\ UNCHANGED <<registry, additional>>

\* The additional state of a removed peer stays in the map.
OnPeerDead ==
    /\ thread = "process"
    /\ ~Ignored /\ PeerState = "Dead" /\ Known
    /\ registry' = RemoveModule(registry, PeerId)
    /\ Done
    /\ UNCHANGED additional

\* Seeded fault: addModule() leaves the additional state to the next multicast.
OnPeerNewWithoutAdditionalState ==
    /\ thread = "process"
    /\ ~Ignored /\ PeerState # "Dead" /\ ~Known
    /\ registry' = AddModule(registry, Handle, PeerState)
    /\ Done
    /\ UNCHANGED additional

OnPeerNew ==
    /\ thread = "process"
    /\ ~Ignored /\ PeerState # "Dead" /\ ~Known
    /\ registry' = AddModule(registry, Handle, PeerState)
    /\ additional' = Put(additional, PeerId, AdditionalState)
    /\ Done

\* Seeded fault: the additional state is taken from the first multicast only.
UpdateAdditionalStateOnce ==
    /\ thread = "process"
    /\ ~Ignored /\ PeerState # "Dead" /\ Known
    /\ thread' = "update"
    /\ UNCHANGED <<incoming, broadcast, registry, additional>>

\* INTERNAL_updatePeerAdditionalState().  The handle stays as it is.
UpdateAdditionalState ==
    /\ thread = "process"
    /\ ~Ignored /\ PeerState # "Dead" /\ Known
    /\ additional' = IF PeerId \in DOMAIN additional THEN [additional EXCEPT ![PeerId] = AdditionalState] ELSE additional
    /\ thread' = "update"
    /\ UNCHANGED <<incoming, broadcast, registry>>

\* INTERNAL_updatePeerState(), if the state is another.
UpdateState ==
    /\ thread = "update"
    /\ registry' = IF GetPeerState(registry, HandleOf(registry.all, PeerId)) = PeerState
                   THEN registry ELSE UpdatePeerState(registry, PeerId, PeerState)
    /\ Done
    /\ UNCHANGED additional

\* updatePeerTimeouts() finds a peer not heard of for long enough.
Timeout(h) ==
    /\ thread = "loop"
    /\ h \in registry.all.peers
    /\ registry' = RemoveModule(registry, UniqueId[h])
    /\ UNCHANGED <<thread, incoming, broadcast, additional>>

Next ==
    \/ \E p \in Instances : \E pair \in Announced[p] : Receive(p, pair[1], pair[2])
    \/ Ignore \/ OnPeerDead \/ OnPeerNew \/ UpdateAdditionalState \/ UpdateState
    \/ \E h \in Instances : Timeout(h)

Spec == Init /\ [][Next]_vars

-----------------------------------------------------------------------------
\* Queries, with versions and additional states.

\* As a set; the code keeps the order.
GetPeersWithTypeVersion(type, version, onlyActivePeers) ==
    {h \in ToSet(GetPeersWithType(registry, type, onlyActivePeers)) : Version[h] = version}

ContainsPeerWithTypeVersion(type, version, onlyActivePeers) ==
    \E h \in ToSet(GetPeersWithType(registry, type, onlyActivePeers)) : Version[h] = version

GetPeerAdditionalState(h) ==
    IF HasId(registry.all, UniqueId[h]) THEN additional[UniqueId[h]] ELSE <<>>

-----------------------------------------------------------------------------
\* Properties.

TypeOK ==
    /\ thread \in {"loop", "process", "update"}
    /\ incoming \in [from : Instances, state : ModuleStates, additional : Seq(Bytes)] \cup {Nothing}
    /\ DOMAIN broadcast \subseteq ToSet(Fields)
    /\ \A f \in DOMAIN broadcast \cap Strings : broadcast[f] \in Seq(Bytes)
    /\ IsRegistry(registry)
    /\ IsMap(additional, Ids, Seq(Bytes))
    /\ DOMAIN additional = DOMAIN registry.states

Original == Message(incoming.from, incoming.state, incoming.additional)

\* What comes out of the generated code went into it: the size counted is the size
\* written, a message that fits the buffer is read back, and one that does not is
\* reported (though nobody asks), with the fields before the end of the buffer as they
\* were, the last as far as it is there, and the later ones not set.
ReadAsWritten == thread = "process" =>
    LET bytes == Datagram(Original) IN
    /\ Len(Serialize(Original)) = ByteSize(Original)
    /\ Parses(bytes) <=> Fits(Original)
    /\ Fits(Original) => broadcast = Original
    /\ \A i \in DOMAIN Fields : Has(broadcast, Fields[i]) =>
           /\ \A f \in ToSet(SubSeq(Fields, 1, i - 1)) :
                  Field(broadcast, f) = Field(Original, f)
           /\ IF Fields[i] \in Strings
              THEN IsPrefix(broadcast[Fields[i]], Original[Fields[i]])
              ELSE broadcast[Fields[i]] = Original[Fields[i]]

\* multicastIdentifier "helps this instance to recognize its own broadcasts coming in"
\* (PeerDiscoveryService.hpp:145), and it does not take those of another instance with its
\* id for its own.  But one that does not fit has lost its identifier, and the instance
\* registers itself as a peer with its own id.
RecognizesItself ==
    thread = "process" => (Own <=> incoming.from = Self /\ Fits(Original))

\* The state and the additional state of a peer were announced together, by an instance
\* with its id, although they arrive in any order and are stored one after the other; of
\* the additional state of a multicast that does not fit there may be a beginning only.
StatesBelongTogether == thread # "update" => \A h \in registry.all.peers :
    \E q \in {r \in Instances : UniqueId[r] = UniqueId[h]} : \E pair \in Announced[q] :
        /\ pair[1] = StateOf(registry, UniqueId[h])
        /\ IF Fits(Message(q, pair[1], pair[2]))
           THEN GetPeerAdditionalState(h) = pair[2]
           ELSE IsPrefix(GetPeerAdditionalState(h), pair[2])

\* PeerRegistryInternal.cpp keeps four maps and the states in step by hand: after every
\* operation, from any history of multicasts and timeouts, they describe the same peers.
RegistryAgrees == IndexesAgree(registry)

\* The queries the core and the module make in between answer accordingly, so the
\* dependency check (containsPeerWithType) sees an active peer exactly if there is one.
\* getPeerState() does so for registered peers only.
QueriesAnswerFromStates ==
    /\ QueriesAnswer(registry)
    /\ \A type \in Types, version \in {Version[p] : p \in Instances}, onlyActivePeers \in BOOLEAN :
           LET peers == {h \in registry.all.peers :
                            /\ TypeId[UniqueId[h]] = type /\ Version[h] = version
                            /\ onlyActivePeers => StateOf(registry, UniqueId[h]) = "Active"}
           IN  /\ ContainsPeerWithTypeVersion(type, version, onlyActivePeers) <=> peers # {}
               /\ GetPeersWithTypeVersion(type, version, onlyActivePeers) = peers
    /\ \A h \in Instances : ~HasId(registry.all, UniqueId[h]) => GetPeerAdditionalState(h) = <<>>

=============================================================================
