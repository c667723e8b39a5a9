------------------------ MODULE PeerDiscovery_proofs ------------------------
(***************************************************************************)
(* Proofs about PeerDiscovery, for every set of instances, ids and types,  *)
(* however ids are shared, every timeout and any network: the core is told *)
(* of every change, nobody registers itself, and a stopped service is      *)
(* silent.  The lists by type matter for the types alone, which are proved *)
(* last, with the lemmas of PeerRegistry_proofs.                           *)
(***************************************************************************)
EXTENDS PeerDiscovery, PeerRegistry_proofs, TLAPS

\* One handle per id, which has a state that is not Dead.
RegistryInv(r) ==
    /\ r = [all |-> r.all, active |-> r.active, states |-> r.states]
    /\ r.all.peers \subseteq Instances
    /\ IsMap(r.states, Ids, ModuleStates)
    /\ \A g, h \in r.all.peers : UniqueId[g] = UniqueId[h] => g = h
    /\ \A h \in r.all.peers : /\ UniqueId[h] \in DOMAIN r.states
                              /\ r.states[UniqueId[h]] # "Dead"

\* Where the two threads of an instance are, and what the flags are then.
PhaseInv(p) ==
    /\ core[p] \in {"off", "crashed"} => thread[p] = "none"
    /\ core[p] = "stopped" => thread[p] = "ended"
    /\ isStarted[p] => core[p] \in {"running", "stopping", "joining"}

\* Timed out handles are registered, and handled before the loop goes on.
TimedOutInv(p) ==
    /\ timedOut[p] \subseteq registry[p].all.peers
    /\ thread[p] \notin {"timeouts", "notify"} => timedOut[p] = {}

\* The core knows the states of the registry, but for the change it is told of next.
ToldInv(p) ==
    LET n == notification[p]
    IN  IF thread[p] = "notify"
        THEN /\ n \in Notifications
             /\ n.old = told[p][UniqueId[n.peer]]
             /\ n.old # n.new
             /\ \A id \in Ids : StateOf(registry[p], id) =
                    IF id = UniqueId[n.peer] THEN n.new ELSE told[p][id]
        ELSE \A id \in Ids : StateOf(registry[p], id) = told[p][id]

TypesInv ==
    /\ core \in [Instances -> CoreLabels]
    /\ thread \in [Instances -> ThreadLabels]
    /\ isStarted \in [Instances -> BOOLEAN]
    /\ stopRequested \in [Instances -> BOOLEAN]
    /\ selfState \in [Instances -> ModuleStates]
    /\ registry = [p \in Instances |-> registry[p]]
    /\ timedOut \in [Instances -> SUBSET Instances]
    /\ notification = [p \in Instances |-> notification[p]]
    /\ told \in [Instances -> [Ids -> ModuleStates]]
    /\ network \subseteq Multicasts

InstanceInv(p) ==
    /\ RegistryInv(registry[p])
    /\ PhaseInv(p)
    /\ TimedOutInv(p)
    /\ ToldInv(p)

IInv == TypesInv /\ \A p \in Instances : InstanceInv(p)

USE IdsAssumption, InstancesAssumption DEF ModuleStates

(***************************************************************************)
(* What the operations of the registry do to the states.                   *)
(***************************************************************************)
\* A peer whose id is not registered is registered with its state.
LEMMA AddModuleStates ==
  ASSUME NEW r, RegistryInv(r), NEW h \in Instances, ~HasId(r.all, UniqueId[h]),
         NEW state \in ModuleStates, state # "Dead"
  PROVE  LET n == AddModule(r, h, state)
         IN  /\ RegistryInv(n)
             /\ n.all.peers = r.all.peers \cup {h}
             /\ \A id \in Ids : StateOf(n, id) = IF id = UniqueId[h] THEN state
                                                 ELSE StateOf(r, id)
  <1> DEFINE n == AddModule(r, h, state)
  <1>1. /\ n = [all |-> n.all, active |-> n.active, states |-> n.states]
        /\ n.all.peers = r.all.peers \cup {h}
        /\ n.states = Put(r.states, UniqueId[h], state)
    BY DEF AddModule, AddModuleInternal
  <1>2. /\ IsMap(n.states, Ids, ModuleStates)
        /\ DOMAIN n.states = DOMAIN r.states \cup {UniqueId[h]}
        /\ \A id \in DOMAIN n.states :
               n.states[id] = IF id = UniqueId[h] THEN state ELSE r.states[id]
    <2>1. UniqueId[h] \in Ids /\ IsMap(r.states, Ids, ModuleStates)
      BY DEF RegistryInv, IdsAssumption
    <2>2. n.states = [id \in DOMAIN r.states \cup {UniqueId[h]} |->
                         IF id = UniqueId[h] THEN state ELSE r.states[id]]
      BY <1>1 DEF Put
    <2>3. QED
      BY <2>1, <2>2 DEF IsMap
  <1>3. RegistryInv(n)
    BY <1>1, <1>2 DEF RegistryInv, HasId
  <1>4. ASSUME NEW id \in Ids
        PROVE  StateOf(n, id) = IF id = UniqueId[h] THEN state ELSE StateOf(r, id)
    BY <1>1, <1>2 DEF RegistryInv, HasId, StateOf
  <1>5. QED
    BY <1>1, <1>3, <1>4

\* A removed peer is Dead, the others keep their states.
LEMMA RemoveModuleStates ==
  ASSUME NEW r, RegistryInv(r), NEW id \in Ids
  PROVE  LET n == RemoveModule(r, id)
         IN  /\ RegistryInv(n)
             /\ n.all.peers = {h \in r.all.peers : UniqueId[h] # id}
             /\ \A i \in Ids : StateOf(n, i) = IF i = id THEN "Dead" ELSE StateOf(r, i)
  <1> DEFINE n == RemoveModule(r, id)
  <1>1. /\ n = [all |-> n.all, active |-> n.active, states |-> r.states]
        /\ n.all.peers = {h \in r.all.peers : UniqueId[h] # id}
    <2>1. CASE HasId(r.all, id)
      BY <2>1 DEF RemoveModule, RemoveModuleInternal, RegistryInv
    <2>2. CASE ~HasId(r.all, id)
      BY <2>2 DEF RemoveModule, HasId, RegistryInv
    <2>3. QED
      BY <2>1, <2>2
  <1>2. RegistryInv(n)
    BY <1>1 DEF RegistryInv
  <1>3. ASSUME NEW i \in Ids
        PROVE  StateOf(n, i) = IF i = id THEN "Dead" ELSE StateOf(r, i)
    BY <1>1 DEF RegistryInv, HasId, StateOf
  <1>4. QED
    BY <1>1, <1>2, <1>3

\* A registered peer takes the new state.
LEMMA UpdatePeerStateStates ==
  ASSUME NEW r, RegistryInv(r), NEW id \in Ids, HasId(r.all, id),
         NEW state \in ModuleStates, state # "Dead"
  PROVE  LET n == UpdatePeerState(r, id, state)
         IN  /\ RegistryInv(n)
             /\ n.all.peers = r.all.peers
             /\ \A i \in Ids : StateOf(n, i) = IF i = id THEN state ELSE StateOf(r, i)
  <1> DEFINE n == UpdatePeerState(r, id, state)
  <1>1. id \in DOMAIN r.states
    BY DEF RegistryInv, HasId
  <1>2. /\ n = [all |-> n.all, active |-> n.active, states |-> n.states]
        /\ n.all = r.all
        /\ n.states = [r.states EXCEPT ![id] = state]
    <2>1. CASE r.states[id] = state
      BY <2>1, <1>1 DEF UpdatePeerState, RegistryInv, IsMap
    <2>2. CASE r.states[id] # state
      BY <2>2, <1>1 DEF UpdatePeerState, RegistryInv
    <2>3. QED
      BY <2>1, <2>2
  <1>3. /\ IsMap(n.states, Ids, ModuleStates)
        /\ DOMAIN n.states = DOMAIN r.states
        /\ \A i \in DOMAIN n.states : n.states[i] = IF i = id THEN state ELSE r.states[i]
    BY <1>1, <1>2 DEF RegistryInv, IsMap
  <1>4. RegistryInv(n)
    BY <1>2, <1>3 DEF RegistryInv
  <1>5. ASSUME NEW i \in Ids
        PROVE  StateOf(n, i) = IF i = id THEN state ELSE StateOf(r, i)
    BY <1>2, <1>3 DEF RegistryInv, HasId, StateOf
  <1>6. QED
    BY <1>2, <1>4, <1>5

(***************************************************************************)
(* Each step concerns one instance.                                        *)
(***************************************************************************)
Same(q) ==
    /\ core'[q] = core[q] /\ thread'[q] = thread[q] /\ isStarted'[q] = isStarted[q]
    /\ registry'[q] = registry[q] /\ timedOut'[q] = timedOut[q]
    /\ notification'[q] = notification[q] /\ told'[q] = told[q]

\* An instance whose state does not change keeps its part of the invariant.
LEMMA SameInv ==
  ASSUME NEW q \in Instances, InstanceInv(q), Same(q)
  PROVE  InstanceInv(q)'
  BY DEF InstanceInv, PhaseInv, TimedOutInv, ToldInv, Same

\* So a step of one instance keeps the invariant if it keeps the types and its part.
LEMMA StepInv ==
  ASSUME IInv, NEW p \in Instances, TypesInv', InstanceInv(p)',
         \A q \in Instances \ {p} : Same(q)
  PROVE  IInv'
  BY SameInv DEF IInv

\* Sending puts well-formed multicasts of the sender, if it works, on their way.
LEMMA SendType ==
  ASSUME NEW p \in Instances, NEW state \in ModuleStates, network \subseteq Multicasts,
         SendStateMulticast(p, state)
  PROVE  /\ network' \subseteq Multicasts
         /\ \A m \in network' \ network : m.from = p /\ Works(p)
  BY DEF SendStateMulticast, Copies, Multicasts, Reachable

(***************************************************************************)
(* The core's thread.                                                      *)
(***************************************************************************)
LEMMA CoreInv ==
  ASSUME IInv, NEW p \in Instances, CoreStep(p)
  PROVE  IInv'
  <1> USE DEF IInv, TypesInv, InstanceInv, peerVars, CoreLabels, ThreadLabels
  <1>1. CASE Start(p)
    <2>1. TypesInv'
      BY <1>1 DEF Start
    <2>2. InstanceInv(p)'
      BY <1>1 DEF Start, PhaseInv, TimedOutInv, ToldInv
    <2>3. \A q \in Instances \ {p} : Same(q)
      BY <1>1 DEF Start, Same
    <2>4. QED
      BY <2>1, <2>2, <2>3, StepInv
  <1>2. CASE MarkStarted(p)
    <2>1. TypesInv'
      BY <1>2 DEF MarkStarted
    <2>2. InstanceInv(p)'
      BY <1>2 DEF MarkStarted, PhaseInv, TimedOutInv, ToldInv
    <2>3. \A q \in Instances \ {p} : Same(q)
      BY <1>2 DEF MarkStarted, Same
    <2>4. QED
      BY <2>1, <2>2, <2>3, StepInv
  <1>3. CASE Announce(p)
    <2>1. PICK state \in SuccessorStates(selfState[p]) :
            /\ selfState' = [selfState EXCEPT ![p] = state]
            /\ core' = [core EXCEPT ![p] = IF state = "Dead" THEN "stopping" ELSE "running"]
            /\ SendStateMulticast(p, state)
      BY <1>3 DEF Announce
    <2>2. state \in ModuleStates
      BY <2>1 DEF SuccessorStates
    <2>3. TypesInv'
      <3>1. network' \subseteq Multicasts
        BY <2>1, <2>2, SendType
      <3>2. core' \in [Instances -> CoreLabels] /\ selfState' \in [Instances -> ModuleStates]
        BY <2>1, <2>2
      <3>3. QED
        BY <1>3, <3>1, <3>2 DEF Announce
    <2>4. InstanceInv(p)'
      BY <1>3, <2>1 DEF Announce, PhaseInv, TimedOutInv, ToldInv
    <2>5. \A q \in Instances \ {p} : Same(q)
      BY <1>3, <2>1 DEF Announce, Same
    <2>6. QED
      BY <2>3, <2>4, <2>5, StepInv
  <1>4. CASE ForceStateBroadcast(p)
    <2>1. TypesInv'
      BY <1>4, SendType DEF ForceStateBroadcast, coreVars
    <2>2. \A q \in Instances : Same(q)
      BY <1>4 DEF ForceStateBroadcast, coreVars, Same
    <2>3. QED
      BY <2>1, <2>2, SameInv
  <1>5. CASE RequestStop(p)
    <2>1. TypesInv'
      BY <1>5 DEF RequestStop
    <2>2. InstanceInv(p)'
      BY <1>5 DEF RequestStop, PhaseInv, TimedOutInv, ToldInv
    <2>3. \A q \in Instances \ {p} : Same(q)
      BY <1>5 DEF RequestStop, Same
    <2>4. QED
      BY <2>1, <2>2, <2>3, StepInv
  <1>6. CASE FinishStop(p)
    <2>1. TypesInv'
      BY <1>6 DEF FinishStop, Undelivered
    <2>2. InstanceInv(p)'
      BY <1>6 DEF FinishStop, PhaseInv, TimedOutInv, ToldInv
    <2>3. \A q \in Instances \ {p} : Same(q)
      BY <1>6 DEF FinishStop, Same
    <2>4. QED
      BY <2>1, <2>2, <2>3, StepInv
  <1>7. QED
    BY <1>1, <1>2, <1>3, <1>4, <1>5, <1>6 DEF CoreStep

\* A registry without peers knows every id as Dead.
LEMMA EmptyStates ==
  /\ RegistryInv(EmptyRegistry)
  /\ \A id \in Ids : StateOf(EmptyRegistry, id) = "Dead"
  BY DEF RegistryInv, EmptyRegistry, NoPeers, IsMap, StateOf, HasId

\* It holds initially.
LEMMA InitInv ==
  ASSUME Init
  PROVE  IInv
  <1>1. TypesInv
    BY DEF Init, TypesInv, CoreLabels, ThreadLabels, ToldNothing
  <1>2. ASSUME NEW p \in Instances
        PROVE  InstanceInv(p)
    <2>1. registry[p] = EmptyRegistry /\ EmptyRegistry.all.peers = {}
      BY DEF Init, EmptyRegistry, NoPeers
    <2>2. PhaseInv(p) /\ TimedOutInv(p)
      BY <2>1 DEF Init, PhaseInv, TimedOutInv
    <2>3. ToldInv(p)
      BY <2>1, EmptyStates DEF Init, ToldInv, ToldNothing
    <2>4. QED
      BY <2>1, <2>2, <2>3, EmptyStates DEF InstanceInv
  <1>3. QED
    BY <1>1, <1>2 DEF IInv

\* A crash clears all that is said of an instance.
LEMMA CrashInv ==
  ASSUME IInv, NEW p \in Instances, Crash(p)
  PROVE  IInv'
  <1> USE DEF IInv, TypesInv, CoreLabels, ThreadLabels
  <1>1. TypesInv'
    BY DEF Crash, Undelivered, ToldNothing
  <1>2. registry'[p] = EmptyRegistry /\ EmptyRegistry.all.peers = {}
    BY DEF Crash, EmptyRegistry, NoPeers
  <1>3. PhaseInv(p)' /\ TimedOutInv(p)'
    BY <1>2 DEF Crash, PhaseInv, TimedOutInv
  <1>4. ToldInv(p)'
    BY <1>2, EmptyStates DEF Crash, ToldInv, ToldNothing
  <1>5. InstanceInv(p)'
    BY <1>2, <1>3, <1>4, EmptyStates DEF InstanceInv
  <1>6. \A q \in Instances \ {p} : Same(q)
    BY DEF Crash, Same
  <1>7. QED
    BY <1>1, <1>5, <1>6, StepInv

(***************************************************************************)
(* multicastThread_.                                                       *)
(***************************************************************************)
\* A change of one state, of which the core is told next.
LEMMA ChangeInv ==
  ASSUME IInv, NEW p \in Instances, NEW r, NEW h \in Instances,
         NEW new \in ModuleStates, NEW old \in ModuleStates,
         Change(p, r, h, new, old),
         thread[p] \in {"loop", "timeouts"}, isStarted[p],
         RegistryInv(r), timedOut'[p] \subseteq r.all.peers,
         old = StateOf(registry[p], UniqueId[h]), old # new,
         \A id \in Ids : StateOf(r, id) = IF id = UniqueId[h] THEN new
                                          ELSE StateOf(registry[p], id),
         UNCHANGED <<coreVars, told>>, network' \subseteq Multicasts,
         timedOut' \in [Instances -> SUBSET Instances],
         \A q \in Instances \ {p} : timedOut'[q] = timedOut[q]
  PROVE  IInv'
  <1> USE DEF IInv, TypesInv, CoreLabels, ThreadLabels, coreVars
  <1>1. TypesInv'
    BY DEF Change
  <1>2. /\ registry'[p] = r /\ thread'[p] = "notify" /\ told'[p] = told[p]
        /\ notification'[p] = [peer |-> h, new |-> new, old |-> old]
    BY DEF Change
  <1>3. PhaseInv(p)' /\ TimedOutInv(p)'
    BY <1>2 DEF InstanceInv, PhaseInv, TimedOutInv
  <1>4. \A id \in Ids : StateOf(registry[p], id) = told[p][id]
    BY DEF InstanceInv, ToldInv
  <1>5. ToldInv(p)'
    BY <1>2, <1>4, IdsAssumption DEF ToldInv, Notifications
  <1>6. InstanceInv(p)'
    BY <1>2, <1>3, <1>5 DEF InstanceInv
  <1>7. \A q \in Instances \ {p} : Same(q)
    BY DEF Change, Same
  <1>8. QED
    BY <1>1, <1>6, <1>7, StepInv

\* No change, and the thread goes on.
LEMMA NoChangeInv ==
  ASSUME IInv, NEW p \in Instances, NoChange(p, timedOut'[p]),
         thread[p] \in {"loop", "timeouts"},
         UNCHANGED <<coreVars, told>>, network' \subseteq Multicasts,
         timedOut' \in [Instances -> SUBSET Instances],
         timedOut'[p] \subseteq registry[p].all.peers,
         \A q \in Instances \ {p} : timedOut'[q] = timedOut[q]
  PROVE  IInv'
  <1> USE DEF IInv, TypesInv, CoreLabels, ThreadLabels, coreVars
  <1>1. TypesInv'
    BY DEF NoChange, LoopLabel
  <1>2. /\ registry'[p] = registry[p] /\ told'[p] = told[p]
        /\ thread'[p] = LoopLabel(timedOut'[p])
    BY DEF NoChange
  <1>3. PhaseInv(p)' /\ TimedOutInv(p)'
    BY <1>2 DEF InstanceInv, PhaseInv, TimedOutInv, LoopLabel
  <1>4. ToldInv(p)'
    BY <1>2 DEF InstanceInv, ToldInv, LoopLabel
  <1>5. InstanceInv(p)'
    BY <1>2, <1>3, <1>4 DEF InstanceInv
  <1>6. \A q \in Instances \ {p} : Same(q)
    BY DEF NoChange, Same
  <1>7. QED
    BY <1>1, <1>5, <1>6, StepInv

\* onPeerDead() of a registered handle that is on the list no longer.
LEMMA OnPeerDeadInv ==
  ASSUME IInv, NEW p \in Instances, NEW h \in registry[p].all.peers,
         OnPeerDead(p, h, timedOut'[p]),
         thread[p] \in {"loop", "timeouts"},
         UNCHANGED <<coreVars, told>>, network' \subseteq Multicasts,
         timedOut' \in [Instances -> SUBSET Instances],
         timedOut'[p] \subseteq registry[p].all.peers \ {h},
         \A q \in Instances \ {p} : timedOut'[q] = timedOut[q]
  PROVE  IInv'
  <1> DEFINE id == UniqueId[h]
             r == RemoveModule(registry[p], id)
             old == GetPeerState(registry[p], h)
  <1>1. RegistryInv(registry[p])
    BY DEF IInv, InstanceInv
  <1>2. h \in Instances /\ id \in Ids
    BY <1>1, IdsAssumption DEF RegistryInv
  <1>3. CASE ~Works(p)
    BY <1>3, NoChangeInv DEF OnPeerDead
  <1>4. CASE Works(p)
    <2>1. /\ RegistryInv(r)
          /\ r.all.peers = {g \in registry[p].all.peers : UniqueId[g] # id}
          /\ \A i \in Ids : StateOf(r, i) = IF i = id THEN "Dead"
                                            ELSE StateOf(registry[p], i)
      BY <1>1, <1>2, RemoveModuleStates
    <2>2. timedOut'[p] \subseteq r.all.peers
      BY <1>1, <2>1 DEF RegistryInv
    <2>3. old = StateOf(registry[p], id) /\ old \in ModuleStates /\ old # "Dead"
      BY <1>1 DEF RegistryInv, IsMap, GetPeerState, StateOf, HasId
    <2>4. Change(p, r, h, "Dead", old) /\ isStarted[p]
      BY <1>4 DEF OnPeerDead, Works
    <2>5. QED
      BY <1>2, <2>1, <2>2, <2>3, <2>4, ChangeInv
  <1>5. QED
    BY <1>3, <1>4

\* Receiving a multicast keeps it.
LEMMA ReceiveInv ==
  ASSUME IInv, NEW p \in Instances, NEW m \in Multicasts, Receive(p, m)
  PROVE  IInv'
  <1> DEFINE r == registry[p]
             id == UniqueId[m.from]
             known == HasId(r.all, id)
             h == HandleOf(r.all, id)
  <1>1. /\ RegistryInv(r)
        /\ m.from \in Instances /\ m.state \in ModuleStates /\ id \in Ids
    BY IdsAssumption DEF IInv, InstanceInv, Multicasts
  <1>2. /\ thread[p] = "loop" /\ UNCHANGED <<coreVars, timedOut, told>>
        /\ network' \subseteq Multicasts
        /\ timedOut' \in [Instances -> SUBSET Instances] /\ timedOut'[p] = {}
        /\ ProcessIncomingMulticast(p, m)
    BY DEF Receive, IInv, TypesInv, InstanceInv, TimedOutInv
  <1>3. known => h \in r.all.peers /\ UniqueId[h] = id /\ h \in Instances
    BY <1>1 DEF HasId, HandleOf, RegistryInv
  <1>4. CASE NoChange(p, {})
    BY <1>2, <1>4, NoChangeInv
  <1>5. CASE known /\ OnPeerDead(p, h, {})
    BY <1>2, <1>3, <1>5, OnPeerDeadInv
  <1>6. CASE ~Drops(p, m) /\ m.state # "Dead" /\ ~known /\ OnPeerNew(p, m.from, m.state)
    <2> DEFINE n == AddModule(r, m.from, m.state)
    <2>1. /\ RegistryInv(n)
          /\ n.all.peers = r.all.peers \cup {m.from}
          /\ \A i \in Ids : StateOf(n, i) = IF i = id THEN m.state ELSE StateOf(r, i)
      BY <1>1, <1>6, AddModuleStates
    <2>2. m.from # p /\ isStarted[p]
      BY <1>6 DEF Drops, Works
    <2>3. StateOf(r, id) = "Dead"
      BY <1>6 DEF StateOf
    <2>4. Change(p, n, m.from, m.state, "Dead")
      BY <1>6 DEF OnPeerNew
    <2>5. QED
      BY <1>1, <1>2, <1>6, <2>1, <2>2, <2>3, <2>4, ChangeInv
  <1>7. CASE ~Drops(p, m) /\ m.state # "Dead" /\ known /\ OnPeerKnown(p, h, m.state)
    <2> DEFINE n == UpdatePeerState(r, UniqueId[h], m.state)
               old == GetPeerState(r, h)
    <2>1. /\ RegistryInv(n)
          /\ n.all.peers = r.all.peers
          /\ \A i \in Ids : StateOf(n, i) = IF i = id THEN m.state ELSE StateOf(r, i)
      BY <1>1, <1>3, <1>7, UpdatePeerStateStates
    <2>2. old = StateOf(r, id) /\ old \in ModuleStates
      BY <1>1, <1>3, <1>7 DEF RegistryInv, IsMap, GetPeerState, StateOf
    <2>3. CASE old = m.state
      BY <1>2, <1>7, <2>3, NoChangeInv DEF OnPeerKnown
    <2>4. CASE old # m.state
      <3>1. Change(p, n, h, m.state, old) /\ isStarted[p]
        BY <1>7, <2>4 DEF OnPeerKnown, Drops, Works
      <3>2. QED
        <4>1. RegistryInv(n) /\ timedOut'[p] \subseteq n.all.peers
          BY <1>1, <1>2, <1>3, <1>7, <2>1
        <4>2. /\ old = StateOf(registry[p], UniqueId[h]) /\ old \in ModuleStates /\ old # m.state
              /\ \A i \in Ids : StateOf(n, i) = IF i = UniqueId[h] THEN m.state ELSE StateOf(registry[p], i)
          BY <1>3, <1>7, <2>1, <2>2, <2>4
        <4>3. h \in Instances /\ m.state \in ModuleStates
          BY <1>1, <1>3, <1>7
        <4>. HIDE DEF n, old
        <4>4. QED
          BY <1>2, <3>1, <4>1, <4>2, <4>3, ChangeInv
    <2>5. QED
      BY <2>3, <2>4
  <1>8. QED
    BY <1>2, <1>4, <1>5, <1>6, <1>7 DEF ProcessIncomingMulticast

\* So does handling one of the timed out handles,
LEMMA HandleTimeoutInv ==
  ASSUME IInv, NEW p \in Instances, HandleTimeout(p)
  PROVE  IInv'
  <1>1. PICK h \in timedOut[p] :
          /\ timedOut' = [timedOut EXCEPT ![p] = @ \ {h}]
          /\ OnPeerDead(p, h, timedOut[p] \ {h})
    BY DEF HandleTimeout
  <1>2. /\ h \in registry[p].all.peers
        /\ timedOut'[p] = timedOut[p] \ {h}
        /\ timedOut' \in [Instances -> SUBSET Instances]
        /\ timedOut'[p] \subseteq registry[p].all.peers \ {h}
        /\ \A q \in Instances \ {p} : timedOut'[q] = timedOut[q]
    BY <1>1 DEF IInv, TypesInv, InstanceInv, TimedOutInv
  <1>3. /\ thread[p] = "timeouts" /\ UNCHANGED <<coreVars, told>>
        /\ network' \subseteq Multicasts
    BY DEF HandleTimeout, IInv, TypesInv
  <1>4. QED
    BY <1>1, <1>2, <1>3, OnPeerDeadInv, ZenonT(60)

\* ageing the peers and collecting the late ones,
LEMMA UpdatePeerTimeoutsInv ==
  ASSUME IInv, NEW p \in Instances, UpdatePeerTimeouts(p)
  PROVE  IInv'
  <1>1. Late(p) \subseteq registry[p].all.peers
    BY BoundsAssumption DEF Late, Aged, IInv, InstanceInv, RegistryInv
  <1>2. /\ thread[p] = "loop"
        /\ NoChange(p, Late(p))
        /\ UNCHANGED <<coreVars, told>>
    BY DEF UpdatePeerTimeouts, NoChange
  <1>3. network' \subseteq Multicasts
    BY SendType DEF UpdatePeerTimeouts, IInv, TypesInv
  <1>4. /\ timedOut' \in [Instances -> SUBSET Instances]
        /\ timedOut'[p] = Late(p)
        /\ \A q \in Instances \ {p} : timedOut'[q] = timedOut[q]
    BY DEF UpdatePeerTimeouts, IInv, TypesInv, Late
  <1>5. QED
    BY <1>1, <1>2, <1>3, <1>4, NoChangeInv

\* telling the core of a change,
LEMMA PeerStateChangeInv ==
  ASSUME IInv, NEW p \in Instances, PeerStateChange(p)
  PROVE  IInv'
  <1> USE DEF IInv, TypesInv, CoreLabels, ThreadLabels, coreVars
  <1>1. /\ notification[p] \in Notifications
        /\ UniqueId[notification[p].peer] \in Ids
    BY IdsAssumption DEF PeerStateChange, InstanceInv, ToldInv, Notifications
  <1>2. TypesInv'
    BY <1>1 DEF PeerStateChange, LoopLabel, Notifications
  <1>3. PhaseInv(p)' /\ TimedOutInv(p)'
    BY DEF PeerStateChange, InstanceInv, PhaseInv, TimedOutInv, LoopLabel
  <1>4. ToldInv(p)'
    BY <1>1 DEF PeerStateChange, InstanceInv, ToldInv, LoopLabel
  <1>5. InstanceInv(p)'
    BY <1>3, <1>4 DEF PeerStateChange, InstanceInv
  <1>6. \A q \in Instances \ {p} : Same(q)
    BY DEF PeerStateChange, Same
  <1>7. QED
    BY <1>2, <1>5, <1>6, StepInv

\* the multicast before the loop,
LEMMA SendInitialInv ==
  ASSUME IInv, NEW p \in Instances, SendInitial(p)
  PROVE  IInv'
  <1> USE DEF IInv, TypesInv, ThreadLabels, coreVars, peerVars
  <1>1. network' \subseteq Multicasts
    <2>1. selfState[p] \in ModuleStates /\ SendStateMulticast(p, selfState[p])
      BY DEF SendInitial
    <2>2. QED
      BY <2>1, SendType
  <1>2. TypesInv'
    BY <1>1 DEF SendInitial
  <1>3. thread[p] = "initial" /\ thread'[p] = "loop"
    BY DEF SendInitial
  <1>4. InstanceInv(p)'
    BY <1>3 DEF SendInitial, InstanceInv, PhaseInv, TimedOutInv, ToldInv
  <1>5. \A q \in Instances \ {p} : Same(q)
    BY DEF SendInitial, Same
  <1>6. QED
    BY <1>2, <1>4, <1>5, StepInv

\* and the end of the loop.
LEMMA EndLoopInv ==
  ASSUME IInv, NEW p \in Instances, EndLoop(p)
  PROVE  IInv'
  <1> USE DEF IInv, TypesInv, ThreadLabels, coreVars, peerVars
  <1>1. TypesInv'
    BY DEF EndLoop
  <1>2. thread[p] = "loop" /\ thread'[p] = "ended"
    BY DEF EndLoop
  <1>3. InstanceInv(p)'
    BY <1>2 DEF EndLoop, InstanceInv, PhaseInv, TimedOutInv, ToldInv
  <1>4. \A q \in Instances \ {p} : Same(q)
    BY DEF EndLoop, Same
  <1>5. QED
    BY <1>1, <1>3, <1>4, StepInv

\* Every step keeps the invariant.
LEMMA NextInv ==
  ASSUME IInv, [Next]_vars
  PROVE  IInv'
  <1>1. CASE UNCHANGED vars
    BY <1>1 DEF vars, coreVars, peerVars, IInv, TypesInv, InstanceInv, PhaseInv,
                TimedOutInv, ToldInv
  <1>2. ASSUME NEW p \in Instances, ThreadStep(p)
        PROVE  IInv'
    BY <1>2, SendInitialInv, EndLoopInv, UpdatePeerTimeoutsInv, HandleTimeoutInv, ReceiveInv,
       PeerStateChangeInv DEF ThreadStep
  <1>3. QED
    BY <1>1, <1>2, CoreInv, CrashInv DEF Next, Terminated

\* The inductive invariant holds in every reachable state.
THEOREM Invariance == Spec => []IInv
  <1>1. Init => IInv
    BY InitInv
  <1>2. IInv /\ [Next]_vars => IInv'
    BY NextInv
  <1>3. QED
    BY <1>1, <1>2, PTL DEF Spec

(***************************************************************************)
(* The theorems.                                                           *)
(***************************************************************************)
\* The core hears of every change of the registry, with the old state it was told
\* last, whatever order multicasts, timeouts, restarts and stop come in.
THEOREM CoreAlwaysTold == Spec => []CoreIsTold
  <1>1. IInv => CoreIsTold
    <2>1. SUFFICES ASSUME IInv, NEW p \in Instances
                   PROVE  LET n    == notification[p]
                              view == [id \in Ids |-> StateOf(registry[p], id)]
                          IN  IF thread[p] = "notify"
                              THEN /\ n.old = told[p][UniqueId[n.peer]]
                                   /\ n.old # n.new
                                   /\ view = [told[p] EXCEPT ![UniqueId[n.peer]] = n.new]
                              ELSE view = told[p]
      BY DEF CoreIsTold
    <2>2. ToldInv(p) /\ told[p] \in [Ids -> ModuleStates]
      BY <2>1 DEF IInv, TypesInv, InstanceInv
    <2>3. CASE thread[p] = "notify"
      BY <2>2, <2>3 DEF ToldInv
    <2>4. CASE thread[p] # "notify"
      BY <2>2, <2>4 DEF ToldInv
    <2>5. QED
      BY <2>3, <2>4
  <1>2. QED
    BY <1>1, Invariance, PTL

\* After stop() the registry, the core and the network hear nothing more.
THEOREM SilentWhenStopped == Spec => StoppedIsSilent
  <1> DEFINE Silent(p) == /\ UNCHANGED <<registry[p], told[p], thread[p]>>
                          /\ \A m \in network' \ network : m.from # p
  <1>1. ASSUME IInv, [Next]_vars, NEW p \in Instances, core[p] = "stopped"
        PROVE  Silent(p)
    <2>1. thread[p] = "ended" /\ ~isStarted[p] /\ network \subseteq Multicasts
      BY <1>1 DEF IInv, TypesInv, InstanceInv, PhaseInv
    <2>2. CASE UNCHANGED vars
      BY <2>2 DEF vars, peerVars
    <2>3. ASSUME NEW q \in Instances, NEW state \in ModuleStates,
                 SendStateMulticast(q, state)
          PROVE  \A m \in network' \ network : m.from # p
      BY <2>1, <2>3, SendType DEF Works
    <2>4. ASSUME NEW q \in Instances, CoreStep(q) \/ Crash(q)
          PROVE  Silent(p)
      <3>1. UNCHANGED <<registry[p], told[p], thread[p]>>
        BY <1>1, <2>1, <2>4 DEF CoreStep, Crash, Start, MarkStarted, Announce,
           ForceStateBroadcast, RequestStop, FinishStop, coreVars, peerVars, IInv, TypesInv
      <3>2. \A m \in network' \ network : m.from # p
        <4>1. CASE Announce(q)
          <5>1. PICK state \in SuccessorStates(selfState[q]) : SendStateMulticast(q, state)
            BY <4>1 DEF Announce
          <5>2. state \in ModuleStates
            BY <5>1 DEF SuccessorStates
          <5>3. QED
            BY <2>3, <5>1, <5>2
        <4>2. CASE ForceStateBroadcast(q)
          BY <1>1, <2>3, <4>2 DEF ForceStateBroadcast, IInv, TypesInv
        <4>3. CASE ~Announce(q) /\ ~ForceStateBroadcast(q)
          BY <2>4, <4>3 DEF CoreStep, Crash, Start, MarkStarted, RequestStop, FinishStop,
             Undelivered
        <4>4. QED
          BY <4>1, <4>2, <4>3
      <3>3. QED
        BY <3>1, <3>2
    <2>5. ASSUME NEW q \in Instances, ThreadStep(q)
          PROVE  Silent(p)
      <3>1. q # p
        BY <2>1, <2>5 DEF ThreadStep, SendInitial, EndLoop, UpdatePeerTimeouts,
           HandleTimeout, Receive, PeerStateChange
      <3>2. UNCHANGED <<registry[p], told[p], thread[p]>>
        <4> USE DEF IInv, TypesInv
        <4>1. CASE SendInitial(q) \/ EndLoop(q)
          BY <1>1, <3>1, <4>1 DEF SendInitial, EndLoop, peerVars
        <4>2. CASE UpdatePeerTimeouts(q) \/ PeerStateChange(q)
          BY <1>1, <3>1, <4>2 DEF UpdatePeerTimeouts, PeerStateChange
        <4>3. CASE HandleTimeout(q)
          BY <1>1, <3>1, <4>3 DEF HandleTimeout, OnPeerDead, Change, NoChange
        <4>4. ASSUME NEW m \in Multicasts, Receive(q, m)
              PROVE  UNCHANGED <<registry[p], told[p], thread[p]>>
          BY <1>1, <3>1, <4>4 DEF Receive, ProcessIncomingMulticast, OnPeerDead, OnPeerNew,
             OnPeerKnown, Change, NoChange
        <4>5. QED
          BY <2>5, <4>1, <4>2, <4>3, <4>4 DEF ThreadStep
      <3>3. \A m \in network' \ network : m.from # p
        <4>1. CASE SendInitial(q) \/ UpdatePeerTimeouts(q)
          BY <1>1, <2>3, <4>1 DEF SendInitial, UpdatePeerTimeouts, IInv, TypesInv
        <4>2. CASE ~SendInitial(q) /\ ~UpdatePeerTimeouts(q)
          BY <2>5, <4>2 DEF ThreadStep, EndLoop, HandleTimeout, Receive, PeerStateChange
        <4>3. QED
          BY <4>1, <4>2
      <3>4. QED
        BY <3>2, <3>3
    <2>6. QED
      BY <1>1, <2>2, <2>4, <2>5 DEF Next, Terminated
  <1>2. IInv /\ [Next]_vars =>
            [\A p \in Instances : core[p] = "stopped" => Silent(p)]_vars
    BY <1>1
  <1>3. QED
    BY <1>2, Invariance, PTL DEF Spec, StoppedIsSilent

(***************************************************************************)
(* Implementation of PeerView.                                             *)
(***************************************************************************)
ViewOf(p) == [id \in Ids |-> StateOf(registry[p], id)]

\* What a step of an instance does to what it knows and has told.
Kept(p) == registry'[p] = registry[p] /\ told'[p] = told[p]
Learns(p) == thread[p] # "notify" /\ told'[p] = told[p]
Tells(p) == thread[p] = "notify" /\ thread'[p] # "notify" /\ registry'[p] = registry[p]
Forgets(p) == registry'[p] = EmptyRegistry /\ told'[p] = ToldNothing

\* A step of the discovery thread learns something, tells it, or leaves it.
LEMMA ThreadStepKinds ==
  ASSUME IInv, NEW p \in Instances, ThreadStep(p)
  PROVE  /\ \A q \in Instances \ {p} : Kept(q)
         /\ Kept(p) \/ Learns(p) \/ Tells(p)
  <1> USE DEF IInv, TypesInv, Kept, Learns, Tells
  <1>1. CASE SendInitial(p) \/ EndLoop(p) \/ UpdatePeerTimeouts(p)
    BY <1>1 DEF SendInitial, EndLoop, UpdatePeerTimeouts, peerVars
  <1>2. CASE HandleTimeout(p)
    BY <1>2 DEF HandleTimeout, OnPeerDead, Change, NoChange
  <1>3. CASE PeerStateChange(p)
    BY <1>3 DEF PeerStateChange, LoopLabel
  <1>4. ASSUME NEW m \in Multicasts, Receive(p, m)
        PROVE  /\ \A q \in Instances \ {p} : Kept(q)
               /\ Learns(p)
    BY <1>4, ZenonT(60) DEF Receive, ProcessIncomingMulticast, OnPeerDead, OnPeerNew, OnPeerKnown,
       Change, NoChange
  <1>5. QED
    BY <1>1, <1>2, <1>3, <1>4 DEF ThreadStep

\* The core's thread changes neither registry nor what was told, a crash both.
LEMMA CoreStepKinds ==
  ASSUME NEW p \in Instances, CoreStep(p), NEW q \in Instances
  PROVE  Kept(q)
  BY DEF CoreStep, Start, MarkStarted, Announce, ForceStateBroadcast, RequestStop,
         FinishStop, peerVars, Kept

\* A crash forgets what was known and told.
LEMMA CrashKind ==
  ASSUME IInv, NEW p \in Instances, Crash(p)
  PROVE  /\ \A q \in Instances \ {p} : Kept(q)
         /\ Forgets(p)
  BY DEF Crash, IInv, TypesInv, Kept, Forgets

\* An instance whose registry and told states stay keeps its view.
LEMMA KeptView ==
  ASSUME NEW q \in Instances, Kept(q)
  PROVE  ViewOf(q)' = ViewOf(q) /\ told'[q] = told[q]
  BY DEF Kept, ViewOf

\* A step by which one instance learns, tells or forgets is one of PeerView.
LEMMA ViewStep ==
  ASSUME IInv, IInv', NEW p \in Instances, \A q \in Instances \ {p} : Kept(q),
         Learns(p) \/ Tells(p) \/ Forgets(p)
  PROVE  [View!Next]_(View!vars)
  <1> DEFINE view == [q \in Instances |-> ViewOf(q)]
  <1>1. /\ told \in [Instances -> [Ids -> ModuleStates]]
        /\ told' \in [Instances -> [Ids -> ModuleStates]]
        /\ ToldInv(p) /\ ToldInv(p)'
    BY DEF IInv, TypesInv, InstanceInv
  <1>2. /\ view' = [view EXCEPT ![p] = ViewOf(p)']
        /\ told' = [told EXCEPT ![p] = told'[p]]
    BY <1>1, KeptView
  <1>3. CASE Learns(p)
    <2>1. view[p] = told[p]
      BY <1>1, <1>3 DEF ToldInv, Learns, ViewOf
    <2>2. told' = told
      BY <1>1, <1>2, <1>3 DEF Learns
    <2>3. CASE thread'[p] = "notify"
      <3> DEFINE n == notification'[p]
                 id == UniqueId[n.peer]
      <3>1. /\ id \in Ids /\ n.new \in ModuleStates /\ n.new # told[p][id]
            /\ \A i \in Ids : StateOf(registry'[p], i) = IF i = id THEN n.new
                                                         ELSE told[p][i]
        BY <1>1, <2>2, <2>3, IdsAssumption DEF ToldInv, Notifications
      <3>2. view' = [view EXCEPT ![p][id] = n.new]
        <4>1. ViewOf(p)' = [i \in Ids |-> IF i = id THEN n.new ELSE view[p][i]]
          BY <2>1, <3>1 DEF ViewOf
        <4>2. view[p] = [i \in Ids |-> view[p][i]]
          BY DEF ViewOf
        <4>3. ViewOf(p)' = [view[p] EXCEPT ![id] = n.new]
          BY <4>1, <4>2
        <4>4. QED
          BY <1>2, <4>3
      <3>3. View!Learn(p, id, n.new)
        BY <2>1, <2>2, <3>1, <3>2 DEF View!Learn, ViewOf
      <3>4. QED
        BY <3>1, <3>3 DEF View!Next
    <2>4. CASE thread'[p] # "notify"
      <3>1. ViewOf(p)' = ViewOf(p)
        BY <1>1, <2>1, <2>2, <2>4 DEF ToldInv, ViewOf
      <3>2. view' = view
        BY <1>2, <3>1
      <3>3. QED
        BY <2>2, <3>2 DEF View!vars, ViewOf
    <2>5. QED
      BY <2>3, <2>4
  <1>4. CASE Tells(p)
    <2>1. ViewOf(p)' = ViewOf(p) /\ told'[p] = ViewOf(p)
      BY <1>1, <1>4 DEF ToldInv, Tells, ViewOf
    <2>2. view' = view /\ told' = [told EXCEPT ![p] = view[p]]
      BY <1>2, <2>1
    <2>3. view[p] # told[p]
      <3> DEFINE id == UniqueId[notification[p].peer]
      <3>1. id \in Ids /\ StateOf(registry[p], id) # told[p][id]
        BY <1>1, <1>4, IdsAssumption DEF ToldInv, Tells, Notifications
      <3>2. QED
        BY <3>1 DEF ViewOf
    <2>4. View!Tell(p)
      BY <2>2, <2>3 DEF View!Tell, ViewOf
    <2>5. QED
      BY <2>4 DEF View!Next
  <1>5. CASE Forgets(p)
    <2>1. ViewOf(p)' = View!Unknown /\ told'[p] = View!Unknown
      BY <1>5, EmptyStates DEF Forgets, ViewOf, ToldNothing, View!Unknown
    <2>2. View!Forget(p)
      BY <1>2, <2>1 DEF View!Forget, ViewOf
    <2>3. QED
      BY <2>2 DEF View!Next
  <1>6. QED
    BY <1>3, <1>4, <1>5

\* Discovery implements the abstract view: every change is told, by itself, before
\* the next one is made.
THEOREM ImplementsPeerView == Spec => View!Init /\ [][View!Next]_(View!vars)
  <1>1. Init => View!Init
    BY EmptyStates DEF Init, View!Init, View!Unknown, ToldNothing
  <1>2. ASSUME IInv, IInv', [Next]_vars
        PROVE  [View!Next]_(View!vars)
    <2>1. CASE \A q \in Instances : Kept(q)
      <3>1. [q \in Instances |-> ViewOf(q)]' = [q \in Instances |-> ViewOf(q)]
        BY <2>1, KeptView
      <3>2. told' = told
        BY <1>2, <2>1, KeptView DEF IInv, TypesInv
      <3>3. QED
        BY <3>1, <3>2 DEF View!vars, ViewOf
    <2>2. CASE UNCHANGED vars \/ Terminated
      BY <2>1, <2>2 DEF vars, peerVars, Kept, Terminated
    <2>3. ASSUME NEW p \in Instances, CoreStep(p)
          PROVE  [View!Next]_(View!vars)
      BY <2>1, <2>3, CoreStepKinds
    <2>4. ASSUME NEW p \in Instances, Crash(p)
          PROVE  [View!Next]_(View!vars)
      BY <1>2, <2>4, CrashKind, ViewStep
    <2>5. ASSUME NEW p \in Instances, ThreadStep(p)
          PROVE  [View!Next]_(View!vars)
      <3>1. CASE Kept(p)
        <4>1. \A q \in Instances : Kept(q)
          BY <1>2, <2>5, <3>1, ThreadStepKinds
        <4>2. QED
          BY <2>1, <4>1
      <3>2. CASE ~Kept(p)
        BY <1>2, <2>5, <3>2, ThreadStepKinds, ViewStep
      <3>3. QED
        BY <3>1, <3>2
    <2>6. QED
      BY <1>2, <2>2, <2>3, <2>4, <2>5 DEF Next
  <1>3. QED
    BY <1>1, <1>2, Invariance, PTL DEF Spec

(***************************************************************************)
(* Types.  The indexes of every registry agree, and a timeout is counted   *)
(* at most one past the limit: a handle that got there is on the list of   *)
(* timed out ones, or the service stops and nothing is counted any more.   *)
(***************************************************************************)
Started(p) ==
    /\ core[p] \in {"off", "starting"} => registry[p].all.peers = {}
    /\ core[p] \in {"running", "stopping", "joining"} => isStarted[p]

Counted(p) == \A h \in registry[p].all.peers \ timedOut[p] :
                  timeouts[p][h] > PEER_TIMEOUT_FACTOR => stopRequested[p]

WellTyped(p) == /\ RegistryOK(registry[p]) /\ Started(p) /\ Counted(p)
                /\ notification[p] \in Notifications \cup {Quiet}

Timeouts == [Instances -> [Instances -> 0..PEER_TIMEOUT_FACTOR + 1]]

TInv == timeouts \in Timeouts /\ \A p \in Instances : WellTyped(p)

Alike(q) ==
    /\ core'[q] = core[q] /\ isStarted'[q] = isStarted[q] /\ stopRequested'[q] = stopRequested[q]
    /\ registry'[q] = registry[q] /\ timedOut'[q] = timedOut[q]
    /\ notification'[q] = notification[q] /\ timeouts'[q] = timeouts[q]

\* An instance whose state does not change keeps its part.
LEMMA AlikeTyped ==
  ASSUME NEW q \in Instances, WellTyped(q), Alike(q)
  PROVE  WellTyped(q)'
  BY DEF WellTyped, Started, Counted, Alike

\* A step that keeps the types of its own instance and touches no other keeps all.
LEMMA StepTyped ==
  ASSUME TInv, NEW p \in Instances, timeouts' \in Timeouts, WellTyped(p)',
         \A q \in Instances \ {p} : Alike(q)
  PROVE  TInv'
  BY AlikeTyped DEF TInv

\* Initially everything has its type.
LEMMA InitTyped ==
  ASSUME Init
  PROVE  TInv
  <1>1. timeouts \in Timeouts
    BY BoundsAssumption DEF Init, Timeouts
  <1>2. ASSUME NEW p \in Instances
        PROVE  WellTyped(p)
    <2>1. registry[p] = EmptyRegistry /\ EmptyRegistry.all.peers = {}
      BY DEF Init, EmptyRegistry, NoPeers
    <2>2. Started(p) /\ Counted(p) /\ notification[p] = Quiet
      BY <2>1 DEF Init, Started, Counted
    <2>3. QED
      BY <2>1, <2>2, EmptyOK DEF WellTyped
  <1>3. QED
    BY <1>1, <1>2 DEF TInv

\* Steps of the core keep the types,
LEMMA CoreTyped ==
  ASSUME IInv, TInv, NEW p \in Instances, CoreStep(p)
  PROVE  TInv'
  <1>1. UNCHANGED peerVars
    BY DEF CoreStep, Start, MarkStarted, Announce, ForceStateBroadcast, RequestStop,
           FinishStop, peerVars
  <1>2. /\ core \in [Instances -> CoreLabels] /\ isStarted \in [Instances -> BOOLEAN]
        /\ stopRequested \in [Instances -> BOOLEAN] /\ thread \in [Instances -> ThreadLabels]
        /\ WellTyped(p)
    BY DEF IInv, TypesInv, TInv
  <1>3. \A q \in Instances \ {p} : Alike(q)
    BY <1>1, <1>2 DEF CoreStep, Start, MarkStarted, Announce, ForceStateBroadcast, RequestStop,
           FinishStop, peerVars, coreVars, Alike
  <1>4. Started(p)'
    BY <1>1, <1>2 DEF CoreStep, Start, MarkStarted, Announce, ForceStateBroadcast, RequestStop,
           FinishStop, peerVars, coreVars, WellTyped, Started, SuccessorStates
  <1>5. Counted(p)'
    <2>1. CASE Start(p)
      BY <1>1, <1>2, <2>1 DEF Start, peerVars, WellTyped, Started, Counted
    <2>2. CASE ~Start(p)
      <3>1. stopRequested[p] => stopRequested'[p]
        BY <1>2, <2>2 DEF CoreStep, MarkStarted, Announce, ForceStateBroadcast, RequestStop,
           FinishStop, coreVars
      <3>2. QED
        BY <1>1, <1>2, <3>1 DEF peerVars, WellTyped, Counted
    <2>3. QED
      BY <2>1, <2>2
  <1>6. WellTyped(p)'
    BY <1>1, <1>2, <1>4, <1>5 DEF WellTyped, peerVars
  <1>7. QED
    BY <1>1, <1>3, <1>6, StepTyped DEF TInv, peerVars

\* and so do a crash,
LEMMA CrashTyped ==
  ASSUME IInv, TInv, NEW p \in Instances, Crash(p)
  PROVE  TInv'
  <1>1. registry'[p] = EmptyRegistry /\ EmptyRegistry.all.peers = {}
    BY DEF IInv, TypesInv, Crash, EmptyRegistry, NoPeers
  <1>2. timeouts' \in Timeouts
    BY BoundsAssumption DEF Crash, TInv, Timeouts
  <1>3. core'[p] = "crashed" /\ notification'[p] = Quiet
    BY DEF Crash, IInv, TypesInv
  <1>4. WellTyped(p)'
    BY <1>1, <1>3, EmptyOK DEF WellTyped, Started, Counted
  <1>5. \A q \in Instances \ {p} : Alike(q)
    BY DEF Crash, Alike, IInv, TypesInv, TInv, Timeouts
  <1>6. QED
    BY <1>2, <1>4, <1>5, StepTyped

\* A change of the registry, by which at most the handle at hand is new.
LEMMA ChangeTyped ==
  ASSUME IInv, TInv, NEW p \in Instances, NEW r, NEW h \in Instances,
         NEW new \in ModuleStates, NEW old \in ModuleStates,
         Change(p, r, h, new, old), SetTimeout(p, h, 0), UNCHANGED coreVars,
         RegistryOK(r), isStarted[p],
         r.all.peers \subseteq registry[p].all.peers \cup {h},
         timedOut[p] \subseteq timedOut'[p] \cup {h},
         \A q \in Instances \ {p} : timedOut'[q] = timedOut[q]
  PROVE  TInv'
  <1>1. /\ registry'[p] = r
        /\ notification'[p] = [peer |-> h, new |-> new, old |-> old]
    BY DEF Change, IInv, TypesInv
  <1>2. timeouts' = [timeouts EXCEPT ![p][h] = 0]
    BY DEF SetTimeout
  <1>3. timeouts' \in Timeouts
    BY <1>2, BoundsAssumption DEF TInv, Timeouts
  <1>4. timeouts'[p][h] = 0 /\ \A g \in Instances \ {h} : timeouts'[p][g] = timeouts[p][g]
    BY <1>2 DEF TInv, Timeouts
  <1>5. core[p] \in {"running", "stopping", "joining"}
    BY DEF IInv, InstanceInv, PhaseInv
  <1>6. Started(p)'
    BY <1>5 DEF Started, coreVars
  <1>7. Counted(p)'
    <2>1. SUFFICES ASSUME NEW g \in r.all.peers \ timedOut'[p],
                          timeouts'[p][g] > PEER_TIMEOUT_FACTOR
                   PROVE  stopRequested[p]
      BY <1>1 DEF Counted, coreVars
    <2>2. g # h
      BY <1>4, <2>1, BoundsAssumption
    <2>3. g \in registry[p].all.peers \ timedOut[p] /\ g \in Instances
      BY <2>1, <2>2 DEF IInv, InstanceInv, RegistryInv
    <2>4. QED
      BY <1>4, <2>1, <2>2, <2>3 DEF TInv, WellTyped, Counted
  <1>8. notification'[p] \in Notifications
    BY <1>1 DEF Notifications
  <1>9. WellTyped(p)'
    BY <1>1, <1>6, <1>7, <1>8 DEF WellTyped
  <1>10. \A q \in Instances \ {p} : Alike(q)
    BY <1>2 DEF Change, coreVars, Alike, IInv, TypesInv, TInv, Timeouts
  <1>11. QED
    BY <1>3, <1>9, <1>10, StepTyped

\* No change of the registry, with timeouts counted as they should.
LEMMA NoChangeTyped ==
  ASSUME IInv, TInv, NEW p \in Instances, UNCHANGED <<coreVars, registry>>,
         timeouts' \in Timeouts, Counted(p)', notification'[p] \in Notifications \cup {Quiet},
         \A q \in Instances \ {p} : /\ timedOut'[q] = timedOut[q]
                                    /\ timeouts'[q] = timeouts[q]
                                    /\ notification'[q] = notification[q]
  PROVE  TInv'
  <1>1. WellTyped(p)'
    BY DEF TInv, WellTyped, Started, coreVars
  <1>2. \A q \in Instances \ {p} : Alike(q)
    BY DEF Alike, coreVars
  <1>3. QED
    BY <1>1, <1>2, StepTyped

\* onPeerDead() of a registered handle.
LEMMA OnPeerDeadTyped ==
  ASSUME IInv, TInv, NEW p \in Instances, NEW h \in registry[p].all.peers, NEW remaining,
         OnPeerDead(p, h, remaining), thread[p] \in {"loop", "timeouts"},
         UNCHANGED coreVars, timedOut[p] \subseteq timedOut'[p] \cup {h},
         \A q \in Instances \ {p} : timedOut'[q] = timedOut[q]
  PROVE  TInv'
  <1>1. /\ RegistryInv(registry[p]) /\ RegistryOK(registry[p]) /\ h \in Instances
        /\ UniqueId[h] \in Ids
    BY IdsAssumption DEF IInv, InstanceInv, RegistryInv, TInv, WellTyped
  <1>2. CASE Works(p)
    <2> DEFINE r == RemoveModule(registry[p], UniqueId[h])
               old == GetPeerState(registry[p], h)
    <2>1. RegistryOK(r)
      BY <1>1, RemoveModuleOK
    <2>2. r.all.peers = {g \in registry[p].all.peers : UniqueId[g] # UniqueId[h]}
      BY <1>1, RemoveModuleStates
    <2>3. old \in ModuleStates
      BY <1>1 DEF RegistryInv, IsMap, GetPeerState
    <2>4. Change(p, r, h, "Dead", old) /\ SetTimeout(p, h, 0) /\ isStarted[p]
      BY <1>2 DEF OnPeerDead, Works
    <2>5. r.all.peers \subseteq registry[p].all.peers \cup {h} /\ "Dead" \in ModuleStates
      BY <2>2
    <2>. HIDE DEF r, old
    <2>6. QED
      BY <1>1, <2>1, <2>3, <2>4, <2>5, ChangeTyped
  <1>3. CASE ~Works(p)
    <2>1. UNCHANGED <<registry, notification, timeouts>>
      BY <1>3 DEF OnPeerDead, NoChange
    <2>2. core[p] \in CoreLabels /\ core[p] \notin {"off", "crashed", "stopped", "starting"}
      BY DEF IInv, TypesInv, InstanceInv, PhaseInv, TInv, WellTyped, Started
    <2>3. isStarted[p]
      BY <2>2 DEF TInv, WellTyped, Started, CoreLabels
    <2>4. stopRequested[p]
      BY <1>3, <2>3 DEF Works
    <2>5. Counted(p)'
      BY <2>4 DEF Counted, coreVars
    <2>6. timeouts' \in Timeouts /\ notification'[p] \in Notifications \cup {Quiet}
      BY <2>1 DEF TInv, WellTyped
    <2>7. QED
      BY <2>1, <2>5, <2>6, NoChangeTyped
  <1>4. QED
    BY <1>2, <1>3

\* the handling of a multicast,
LEMMA ReceiveTyped ==
  ASSUME IInv, TInv, NEW p \in Instances, NEW m \in Multicasts, Receive(p, m)
  PROVE  TInv'
  <1> DEFINE r == registry[p]
             id == UniqueId[m.from]
             known == HasId(r.all, id)
             h == HandleOf(r.all, id)
  <1>1. /\ RegistryInv(r) /\ RegistryOK(r)
        /\ m.from \in Instances /\ m.state \in ModuleStates /\ id \in Ids
    BY IdsAssumption DEF IInv, InstanceInv, Multicasts, TInv, WellTyped
  <1>2. /\ thread[p] = "loop" /\ UNCHANGED coreVars /\ UNCHANGED timedOut
        /\ ProcessIncomingMulticast(p, m)
    BY DEF Receive
  <1>3. known => h \in r.all.peers /\ UniqueId[h] = id /\ h \in Instances
    BY <1>1 DEF HasId, HandleOf, RegistryInv
  <1>4. CASE NoChange(p, {}) /\ UNCHANGED timeouts
    <2>1. UNCHANGED <<registry, notification, timeouts>>
      BY <1>4 DEF NoChange
    <2>2. Counted(p)' /\ timeouts' \in Timeouts /\ notification'[p] \in Notifications \cup {Quiet}
      BY <1>2, <2>1 DEF TInv, WellTyped, Counted, coreVars
    <2>3. QED
      BY <1>2, <2>1, <2>2, NoChangeTyped
  <1>5. CASE known /\ OnPeerDead(p, h, {})
    <2>1. h \in registry[p].all.peers /\ OnPeerDead(p, h, {})
      BY <1>3, <1>5
    <2>. HIDE DEF h
    <2>2. QED
      BY <1>2, <2>1, OnPeerDeadTyped
  <1>6. CASE ~Drops(p, m) /\ m.state # "Dead" /\ ~known /\ OnPeerNew(p, m.from, m.state)
    <2> DEFINE n == AddModule(r, m.from, m.state)
    <2>1. RegistryOK(n)
      BY <1>1, <1>6, AddModuleOK
    <2>2. n.all.peers = r.all.peers \cup {m.from}
      BY <1>1, <1>6, AddModuleStates
    <2>3. isStarted[p] /\ Change(p, n, m.from, m.state, "Dead") /\ SetTimeout(p, m.from, 0)
      BY <1>6 DEF Drops, Works, OnPeerNew
    <2>4. "Dead" \in ModuleStates /\ n.all.peers \subseteq registry[p].all.peers \cup {m.from}
      BY <2>2
    <2>. HIDE DEF n
    <2>5. QED
      BY <1>1, <1>2, <2>1, <2>3, <2>4, ChangeTyped
  <1>7. CASE ~Drops(p, m) /\ m.state # "Dead" /\ known /\ OnPeerKnown(p, h, m.state)
    <2> DEFINE n == UpdatePeerState(r, UniqueId[h], m.state)
               old == GetPeerState(r, h)
    <2>1. RegistryOK(n)
      BY <1>1, <1>3, <1>7, UpdatePeerStateOK
    <2>2. n.all.peers = r.all.peers
      BY <1>1, <1>3, <1>7, UpdatePeerStateStates
    <2>3. old \in ModuleStates /\ h \in Instances /\ isStarted[p] /\ SetTimeout(p, h, 0)
      BY <1>1, <1>3, <1>7 DEF RegistryInv, IsMap, GetPeerState, Drops, Works, OnPeerKnown
    <2>4. CASE old = m.state
      <3>1. UNCHANGED <<registry, notification>>
        BY <1>7, <2>4 DEF OnPeerKnown, NoChange
      <3>2. timeouts' = [timeouts EXCEPT ![p][h] = 0]
        BY <2>3 DEF SetTimeout
      <3>. HIDE DEF h
      <3>3. /\ timeouts' \in Timeouts /\ timeouts'[p][h] = 0
            /\ \A g \in Instances \ {h} : timeouts'[p][g] = timeouts[p][g]
            /\ \A q \in Instances \ {p} : timeouts'[q] = timeouts[q]
        BY <2>3, <3>2, BoundsAssumption DEF TInv, Timeouts
      <3>4. Counted(p)'
        <4>1. SUFFICES ASSUME NEW g \in r.all.peers \ timedOut[p],
                              timeouts'[p][g] > PEER_TIMEOUT_FACTOR
                       PROVE  stopRequested[p]
          BY <1>2, <3>1 DEF Counted, coreVars
        <4>2. g # h /\ g \in Instances
          BY <1>1, <3>3, <4>1, BoundsAssumption DEF RegistryInv
        <4>3. QED
          BY <3>3, <4>1, <4>2 DEF TInv, WellTyped, Counted
      <3>5. notification'[p] \in Notifications \cup {Quiet}
        BY <3>1 DEF TInv, WellTyped
      <3>6. QED
        BY <1>2, <3>1, <3>3, <3>4, <3>5, NoChangeTyped
    <2>5. CASE old # m.state
      <3>1. Change(p, n, h, m.state, old)
        BY <1>7, <2>5 DEF OnPeerKnown
      <3>2. n.all.peers \subseteq registry[p].all.peers \cup {h}
        BY <2>2
      <3>. HIDE DEF n, h, old
      <3>3. QED
        BY <1>1, <1>2, <2>1, <2>3, <3>1, <3>2, ChangeTyped
    <2>6. QED
      BY <2>4, <2>5
  <1>8. QED
    BY <1>2, <1>4, <1>5, <1>6, <1>7 DEF ProcessIncomingMulticast

\* that of a timed out handle,
LEMMA HandleTimeoutTyped ==
  ASSUME IInv, TInv, NEW p \in Instances, HandleTimeout(p)
  PROVE  TInv'
  <1>1. PICK h \in timedOut[p] :
          /\ timedOut' = [timedOut EXCEPT ![p] = @ \ {h}]
          /\ OnPeerDead(p, h, timedOut[p] \ {h})
    BY DEF HandleTimeout
  <1>2. /\ h \in registry[p].all.peers
        /\ timedOut[p] \subseteq timedOut'[p] \cup {h}
        /\ \A q \in Instances \ {p} : timedOut'[q] = timedOut[q]
    BY <1>1 DEF IInv, TypesInv, InstanceInv, TimedOutInv
  <1>3. thread[p] = "timeouts" /\ UNCHANGED coreVars
    BY DEF HandleTimeout
  <1>4. QED
    BY <1>1, <1>2, <1>3, OnPeerDeadTyped

\* Where handles are counted, none is beyond the limit yet.
LEMMA UpdatePeerTimeoutsTyped ==
  ASSUME IInv, TInv, NEW p \in Instances, UpdatePeerTimeouts(p)
  PROVE  TInv'
  <1>1. /\ timedOut[p] = {} /\ ~stopRequested[p] /\ registry[p].all.peers \subseteq Instances
        /\ UNCHANGED <<coreVars, registry, notification>>
    BY DEF UpdatePeerTimeouts, IInv, InstanceInv, TimedOutInv, RegistryInv
  <1>2. \A h \in registry[p].all.peers : timeouts[p][h] \in 0..PEER_TIMEOUT_FACTOR
    BY <1>1, BoundsAssumption DEF TInv, WellTyped, Counted, Timeouts
  <1>3. Aged(p) \in [Instances -> 0..PEER_TIMEOUT_FACTOR + 1]
    BY <1>2, BoundsAssumption DEF Aged
  <1>4. timeouts' = [timeouts EXCEPT ![p] = Aged(p)] /\ timedOut' = [timedOut EXCEPT ![p] = Late(p)]
    BY DEF UpdatePeerTimeouts
  <1>5. timeouts' \in Timeouts
    BY <1>3, <1>4 DEF TInv, Timeouts
  <1>6. /\ timeouts'[p] = Aged(p) /\ timedOut'[p] = Late(p)
        /\ \A q \in Instances \ {p} : timeouts'[q] = timeouts[q] /\ timedOut'[q] = timedOut[q]
    BY <1>4 DEF TInv, Timeouts, IInv, TypesInv
  <1>7. Counted(p)'
    BY <1>1, <1>6 DEF Counted, Late
  <1>8. notification'[p] \in Notifications \cup {Quiet}
    BY <1>1 DEF TInv, WellTyped
  <1>9. QED
    BY <1>1, <1>5, <1>6, <1>7, <1>8, NoChangeTyped

\* and hence every step.
LEMMA NextTyped ==
  ASSUME IInv, TInv, [Next]_vars
  PROVE  TInv'
  <1>1. CASE UNCHANGED vars
    BY <1>1 DEF vars, coreVars, peerVars, TInv, WellTyped, Started, Counted
  <1>2. ASSUME NEW p \in Instances, ThreadStep(p)
        PROVE  TInv'
    <2>1. CASE SendInitial(p) \/ EndLoop(p)
      <3>1. UNCHANGED <<coreVars, peerVars>>
        BY <2>1 DEF SendInitial, EndLoop
      <3>2. QED
        BY <3>1 DEF coreVars, peerVars, TInv, WellTyped, Started, Counted
    <2>2. CASE PeerStateChange(p)
      <3>1. /\ UNCHANGED <<coreVars, registry, timeouts, timedOut>>
            /\ notification' = [notification EXCEPT ![p] = Quiet]
        BY <2>2 DEF PeerStateChange
      <3>2. notification'[p] = Quiet /\ \A q \in Instances \ {p} : notification'[q] = notification[q]
        BY <3>1 DEF IInv, TypesInv
      <3>3. Counted(p)' /\ timeouts' \in Timeouts
        BY <3>1 DEF TInv, WellTyped, Counted, coreVars
      <3>4. QED
        BY <3>1, <3>2, <3>3, NoChangeTyped
    <2>3. QED
      BY <1>2, <2>1, <2>2, UpdatePeerTimeoutsTyped, HandleTimeoutTyped, ReceiveTyped DEF ThreadStep
  <1>3. QED
    BY <1>1, <1>2, CoreTyped, CrashTyped DEF Next, Terminated

\* The indexes of every registry agree, and timeouts are bounded, in every reachable state.
THEOREM RegistriesAgree == Spec => [](\A p \in Instances : IndexesAgree(registry[p]))
  <1>1. Init => IInv /\ TInv
    BY InitInv, InitTyped
  <1>2. IInv /\ TInv /\ [Next]_vars => IInv' /\ TInv'
    BY NextInv, NextTyped
  <1>3. TInv => \A p \in Instances : IndexesAgree(registry[p])
    BY DEF TInv, WellTyped, RegistryOK
  <1>4. QED
    BY <1>1, <1>2, <1>3, PTL DEF Spec

\* Every variable has its type in every reachable state; no timeout is counted further
\* than one past the limit, whatever is received while the timed out ones are handled.
THEOREM TypeCorrect == Spec => []TypeOK
  <1>1. Init => IInv /\ TInv
    BY InitInv, InitTyped
  <1>2. IInv /\ TInv /\ [Next]_vars => IInv' /\ TInv'
    BY NextInv, NextTyped
  <1>3. IInv /\ TInv => TypeOK
    <2>1. SUFFICES ASSUME IInv, TInv
                   PROVE  TypeOK
      OBVIOUS
    <2>2. \A p \in Instances : IsRegistry(registry[p])
      BY <2>1 DEF TInv, WellTyped, RegistryOK
    <2>3. notification \in [Instances -> Notifications \cup {Quiet}]
      BY <2>1 DEF IInv, TypesInv, TInv, WellTyped
    <2>4. QED
      BY <2>1, <2>2, <2>3 DEF IInv, TypesInv, TInv, Timeouts, TypeOK
  <1>4. QED
    BY <1>1, <1>2, <1>3, PTL DEF Spec
=============================================================================
