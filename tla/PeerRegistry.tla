---------------------------- MODULE PeerRegistry ----------------------------
(***************************************************************************)
(* The peer registry of one instance (zmf::discovery::PeerRegistry and     *)
(* PeerRegistryInternal) as operators on its value: a record of two        *)
(* indexes, of all peers and of the active ones, and the map of states.    *)
(* An index holds a set of handles and, by type, the list of its handles   *)
(* in order of registration.  Each operation runs under peerRegistryLock,  *)
(* so it is one operator and takes effect in one step.                     *)
(*                                                                         *)
(* A handle is what the multicast of an instance leaves behind: a unique   *)
(* id, and the addresses, version and name of that very instance.  So it   *)
(* is named here by the instance; two that share an id are two handles.    *)
(***************************************************************************)
EXTENDS Naturals, FiniteSets, SequencesExt

CONSTANTS
    Instances,    \* the runs of instances, and the handles of them
    Ids,          \* the unique ids
    Types,        \* the module types
    UniqueId,     \* unique id of an instance
    TypeId        \* module type of an id

ASSUME IdsAssumption == UniqueId \in [Instances -> Ids] /\ TypeId \in [Ids -> Types]

ModuleStates == {"Dead", "Inactive", "Active"}

\* A map of the code is a function whose domain is the set of its keys.
IsMap(f, keys, values) == DOMAIN f \subseteq keys /\ f \in [DOMAIN f -> values]

Put(f, key, value) == [k \in DOMAIN f \cup {key} |-> IF k = key THEN value ELSE f[k]]

IsIndex(i) ==
    /\ i = [peers |-> i.peers, byType |-> i.byType]
    /\ i.peers \subseteq Instances
    /\ IsMap(i.byType, Types, Seq(Instances))

IsRegistry(r) ==
    /\ r = [all |-> r.all, active |-> r.active, states |-> r.states]
    /\ IsIndex(r.all)
    /\ IsIndex(r.active)
    /\ IsMap(r.states, Ids, ModuleStates)

NoPeers == [peers |-> {}, byType |-> <<>>]
EmptyRegistry == [all |-> NoPeers, active |-> NoPeers, states |-> <<>>]

-----------------------------------------------------------------------------
\* Both indexes are changed by the same two functions.

HasId(index, id) == \E h \in index.peers : UniqueId[h] = id
HandleOf(index, id) == CHOOSE h \in index.peers : UniqueId[h] = id

\* The list of a type, empty if there is no such key.
ListOf(index, type) ==
    IF type \in DOMAIN index.byType THEN index.byType[type] ELSE <<>>

AddModuleInternal(index, h) ==
    LET type == TypeId[UniqueId[h]]
    IN  [peers  |-> IF HasId(index, UniqueId[h]) THEN index.peers ELSE index.peers \cup {h},
         byType |-> Put(index.byType, type, Append(ListOf(index, type), h))]

\* Seeded fault: the key of an emptied list stays.
RemoveModuleInternalKeepingKey(index, id) ==
    IF ~HasId(index, id)
    THEN index
    ELSE [peers  |-> {h \in index.peers : UniqueId[h] # id},
          byType |-> Put(index.byType, TypeId[id],
                         RemoveFirstMatch(ListOf(index, TypeId[id]),
                                          LAMBDA h : UniqueId[h] = id))]

\* The list of the last handle is dropped with its key, a longer one loses the
\* first handle with that id.
RemoveModuleInternal(index, id) ==
    LET type == TypeId[id]
        list == ListOf(index, type)
    IN  IF ~HasId(index, id)
        THEN index
        ELSE [peers  |-> {h \in index.peers : UniqueId[h] # id},
              byType |-> IF Len(list) = 1
                         THEN Restrict(index.byType, DOMAIN index.byType \ {type})
                         ELSE Put(index.byType, type,
                                  RemoveFirstMatch(list, LAMBDA h : UniqueId[h] = id))]

-----------------------------------------------------------------------------
\* Operations.  The additional states, bytes kept beside the states, are in StateMulticast.

\* Seeded fault: a state that is still there is not overwritten (insert() for []).
AddModuleKeepingState(r, h, state) ==
    IF HasId(r.all, UniqueId[h])
    THEN r
    ELSE [all    |-> AddModuleInternal(r.all, h),
          active |-> IF state = "Active" THEN AddModuleInternal(r.active, h) ELSE r.active,
          states |-> IF UniqueId[h] \in DOMAIN r.states THEN r.states
                     ELSE Put(r.states, UniqueId[h], state)]

AddModule(r, h, state) ==
    IF HasId(r.all, UniqueId[h])
    THEN r
    ELSE [all    |-> AddModuleInternal(r.all, h),
          active |-> IF state = "Active" THEN AddModuleInternal(r.active, h) ELSE r.active,
          states |-> Put(r.states, UniqueId[h], state)]

\* The state of a removed peer stays in peerStates.
RemoveModule(r, id) ==
    IF HasId(r.all, id)
    THEN [r EXCEPT !.all = RemoveModuleInternal(@, id), !.active = RemoveModuleInternal(@, id)]
    ELSE r

\* Seeded fault: peers become active, but never cease to be.
UpdatePeerStateAddingOnly(r, id, state) ==
    IF id \notin DOMAIN r.states \/ r.states[id] = state
    THEN r
    ELSE [r EXCEPT !.states[id] = state,
                   !.active = IF state # "Active" \/ HasId(@, id)
                              THEN @
                              ELSE AddModuleInternal(@, HandleOf(r.all, id))]

UpdatePeerState(r, id, state) ==
    IF id \notin DOMAIN r.states \/ r.states[id] = state
    THEN r
    ELSE [r EXCEPT !.states[id] = state,
                   !.active = IF state # "Active" THEN RemoveModuleInternal(@, id)
                              ELSE IF HasId(@, id) THEN @
                              ELSE AddModuleInternal(@, HandleOf(r.all, id))]

-----------------------------------------------------------------------------
\* Queries, made by any thread.

Index(r, onlyActivePeers) == IF onlyActivePeers THEN r.active ELSE r.all

ContainsPeerWithId(r, id, onlyActivePeers) ==
    /\ HasId(Index(r, onlyActivePeers), id)
    /\ onlyActivePeers => r.states[id] = "Active"

ContainsPeerWithType(r, type, onlyActivePeers) ==
    type \in DOMAIN Index(r, onlyActivePeers).byType

GetPeersWithType(r, type, onlyActivePeers) ==
    ListOf(Index(r, onlyActivePeers), type)

\* A sequence of at most one handle.
GetAnyPeerWithType(r, type, onlyActivePeers) ==
    LET list == GetPeersWithType(r, type, onlyActivePeers)
    IN  IF list = <<>> THEN <<>> ELSE <<Head(list)>>

GetPeerState(r, h) ==
    IF UniqueId[h] \in DOMAIN r.states THEN r.states[UniqueId[h]] ELSE "Dead"

-----------------------------------------------------------------------------
\* What the registry stands for: the state of every id, "Dead" if not registered.
StateOf(r, id) == IF HasId(r.all, id) THEN r.states[id] ELSE "Dead"

\* One index agrees with a set of handles: it holds at most one per id, and the
\* lists hold the same handles, once each, under the keys of their types only.
IndexHolds(index, handles) ==
    /\ index.peers = handles
    /\ \A g, h \in handles : UniqueId[g] = UniqueId[h] => g = h
    /\ DOMAIN index.byType = {TypeId[UniqueId[h]] : h \in handles}
    /\ \A type \in DOMAIN index.byType :
           /\ IsInjective(index.byType[type])
           /\ ToSet(index.byType[type]) = {h \in handles : TypeId[UniqueId[h]] = type}

\* The four maps and the states agree with each other.
IndexesAgree(r) ==
    /\ IndexHolds(r.all, r.all.peers)
    /\ IndexHolds(r.active, {h \in r.all.peers : StateOf(r, UniqueId[h]) = "Active"})
    /\ \A h \in r.all.peers : StateOf(r, UniqueId[h]) # "Dead"

\* Each query answers from that state, but for getPeerState() of a peer that was
\* removed: it returns the last state, where PeerRegistry.hpp:203 promises Dead.
QueriesAnswer(r) ==
    /\ \A id \in Ids :
           /\ ContainsPeerWithId(r, id, FALSE) <=> StateOf(r, id) # "Dead"
           /\ ContainsPeerWithId(r, id, TRUE) <=> StateOf(r, id) = "Active"
    /\ \A h \in Instances : HasId(r.all, UniqueId[h]) => GetPeerState(r, h) = StateOf(r, UniqueId[h])
    /\ \A type \in Types :
           /\ ContainsPeerWithType(r, type, TRUE)
                  <=> \E id \in Ids : TypeId[id] = type /\ StateOf(r, id) = "Active"
           /\ Len(GetPeersWithType(r, type, FALSE))
                  = Cardinality({id \in Ids : TypeId[id] = type /\ StateOf(r, id) # "Dead"})
           /\ \A h \in ToSet(GetAnyPeerWithType(r, type, TRUE)) :
                  TypeId[UniqueId[h]] = type /\ StateOf(r, UniqueId[h]) = "Active"
=============================================================================
