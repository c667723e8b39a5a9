---------------------------- MODULE PeerDiscovery ----------------------------
(***************************************************************************)
(* PeerDiscoveryService: instances that multicast their state, register    *)
(* the peers they hear of, drop those they no longer hear of, and tell     *)
(* their core of every change.                                             *)
(*                                                                         *)
(* An element of Instances is one run of an instance, from start() to      *)
(* stop() or a crash; a restarted instance, or a second one started with   *)
(* the same id, is another element with that id.  In a run the core's      *)
(* thread calls start(), announces states and calls stop();                *)
(* multicastThread_ runs multicastLoop().  The network loses, delays and   *)
(* reorders multicasts.                                                    *)
(*                                                                         *)
(* sendStateMulticast() and processIncomingMulticast() look at isStarted_  *)
(* and stopRequested_ and then act.  Both are one step here: these flags   *)
(* are changed by the core's thread alone, and once stop() has set one it  *)
(* waits for multicastThread_ before it does anything else.                *)
(***************************************************************************)
EXTENDS PeerRegistry

CONSTANTS
    DisableEqualModuleInterconnect,  \* the instances started with that option
    Listeners,                       \* the instances that multicasts reach
    PEER_TIMEOUT_FACTOR,             \* periods without news until a peer counts as dead
    Ending,                          \* the instances that may stop or crash
    MaxInFlight                      \* bound: multicasts on their way at a time

ASSUME InstancesAssumption == /\ DisableEqualModuleInterconnect \subseteq Instances
                              /\ Listeners \subseteq Instances /\ Ending \subseteq Instances
ASSUME BoundsAssumption == PEER_TIMEOUT_FACTOR \in Nat /\ MaxInFlight \in Nat

VARIABLES
    core,           \* where the core's thread is between start() and stop()
    thread,         \* where multicastThread_ is
    isStarted,      \* isStarted_
    stopRequested,  \* stopRequested_
    selfState,      \* selfState_
    registry,       \* peerRegistry_
    timeouts,       \* PeerTimeout of each handle, in periods
    timedOut,       \* timedOutModules still to handle
    notification,   \* arguments of the peerStateChange() call about to be made
    told,           \* last state of each id the core was told of (history)
    network         \* multicasts on their way

coreVars == <<core, isStarted, stopRequested, selfState>>
peerVars == <<registry, timeouts, timedOut, notification, told>>
vars == <<coreVars, thread, peerVars, network>>

CoreLabels == {"off", "starting", "running", "stopping", "joining", "stopped", "crashed"}
ThreadLabels == {"none", "initial", "loop", "timeouts", "notify", "ended"}
Multicasts == [from : Instances, to : Listeners, state : ModuleStates]
Notifications == [peer : Instances, new : ModuleStates, old : ModuleStates]
Quiet == [peer |-> "none"]

TypeOK ==
    /\ core \in [Instances -> CoreLabels]
    /\ thread \in [Instances -> ThreadLabels]
    /\ isStarted \in [Instances -> BOOLEAN]
    /\ stopRequested \in [Instances -> BOOLEAN]
    /\ selfState \in [Instances -> ModuleStates]
    /\ registry = [p \in Instances |-> registry[p]]
    /\ \A p \in Instances : IsRegistry(registry[p])
    /\ timeouts \in [Instances -> [Instances -> 0..PEER_TIMEOUT_FACTOR + 1]]
    /\ timedOut \in [Instances -> SUBSET Instances]
    /\ notification \in [Instances -> Notifications \cup {Quiet}]
    /\ told \in [Instances -> [Ids -> ModuleStates]]
    /\ network \subseteq Multicasts

ToldNothing == [id \in Ids |-> "Dead"]

Init ==
    /\ core = [p \in Instances |-> "off"]
    /\ thread = [p \in Instances |-> "none"]
    /\ isStarted = [p \in Instances |-> FALSE]
    /\ stopRequested = [p \in Instances |-> FALSE]
    /\ selfState = [p \in Instances |-> "Dead"]
    /\ registry = [p \in Instances |-> EmptyRegistry]
    /\ timeouts = [p \in Instances |-> [h \in Instances |-> 0]]
    /\ timedOut = [p \in Instances |-> {}]
    /\ notification = [p \in Instances |-> Quiet]
    /\ told = [p \in Instances |-> ToldNothing]
    /\ network = {}

-----------------------------------------------------------------------------
\* Multicasts.

\* The socket of q is bound: in start(), until stop() closes it.
Reachable(q) == q \in Listeners /\ core[q] \in {"starting", "running", "stopping", "joining"}

Works(p) == isStarted[p] /\ ~stopRequested[p]

\* The multicasts of p that arrive, if reached is who receives them.
Copies(p, state, reached) == {[from |-> p, to |-> q, state |-> state] : q \in reached}

\* sendStateMulticast() with selfState_ = state.  The sender hears itself.
SendStateMulticast(p, state) ==
    IF Works(p)
    THEN \E reached \in SUBSET {q \in Instances : Reachable(q)} :
             /\ network' = network \cup Copies(p, state, reached)
             /\ Cardinality(network') =< MaxInFlight
    ELSE UNCHANGED network

\* What has not been received when the socket is closed is lost.
Undelivered(p) == {m \in network : m.to # p}

-----------------------------------------------------------------------------
\* The core's thread.

\* start(): the thread is created before isStarted_ is set.
Start(p) ==
    /\ core[p] = "off"
    /\ core' = [core EXCEPT ![p] = "starting"]
    /\ stopRequested' = [stopRequested EXCEPT ![p] = FALSE]
    /\ thread' = [thread EXCEPT ![p] = "initial"]
    /\ UNCHANGED <<isStarted, selfState, peerVars, network>>

MarkStarted(p) ==
    /\ core[p] = "starting"
    /\ core' = [core EXCEPT ![p] = "running"]
    /\ isStarted' = [isStarted EXCEPT ![p] = TRUE]
    /\ UNCHANGED <<stopRequested, selfState, thread, peerVars, network>>

\* The states the core announces: Inactive when discovery has started, Active and
\* Inactive as the module is enabled and disabled, Dead when the instance ends.
SuccessorStates(state) == IF state = "Inactive" THEN {"Active", "Dead"} ELSE {"Inactive"}

\* updateSelfState() and sendStateMulticast().
Announce(p) ==
    /\ core[p] = "running"
    /\ \E state \in SuccessorStates(selfState[p]) :
           /\ state = "Dead" => p \in Ending
           /\ selfState' = [selfState EXCEPT ![p] = state]
           /\ core' = [core EXCEPT ![p] = IF state = "Dead" THEN "stopping" ELSE "running"]
           /\ SendStateMulticast(p, state)
    /\ UNCHANGED <<isStarted, stopRequested, thread, peerVars>>

ForceStateBroadcast(p) ==
    /\ core[p] = "running"
    /\ SendStateMulticast(p, selfState[p])
    /\ UNCHANGED <<coreVars, thread, peerVars>>

RequestStop(p) ==
    /\ core[p] = "stopping"
    /\ core' = [core EXCEPT ![p] = "joining"]
    /\ stopRequested' = [stopRequested EXCEPT ![p] = TRUE]
    /\ UNCHANGED <<isStarted, selfState, thread, peerVars, network>>

\* Seeded fault: stop() does not wait for the thread.
FinishStopWithoutJoin(p) ==
    /\ core[p] = "joining"
    /\ core' = [core EXCEPT ![p] = "stopped"]
    /\ isStarted' = [isStarted EXCEPT ![p] = FALSE]
    /\ network' = Undelivered(p)
    /\ UNCHANGED <<stopRequested, selfState, thread, peerVars>>

\* joinThread() returns, the socket is closed.
FinishStop(p) ==
    /\ core[p] = "joining"
    /\ thread[p] = "ended"
    /\ core' = [core EXCEPT ![p] = "stopped"]
    /\ isStarted' = [isStarted EXCEPT ![p] = FALSE]
    /\ network' = Undelivered(p)
    /\ UNCHANGED <<stopRequested, selfState, thread, peerVars>>

\* The process dies without a word.
Crash(p) ==
    /\ p \in Ending
    /\ core[p] \notin {"off", "stopped", "crashed"}
    /\ core' = [core EXCEPT ![p] = "crashed"]
    /\ thread' = [thread EXCEPT ![p] = "none"]
    /\ isStarted' = [isStarted EXCEPT ![p] = FALSE]
    /\ stopRequested' = [stopRequested EXCEPT ![p] = FALSE]
    /\ selfState' = [selfState EXCEPT ![p] = "Dead"]
    /\ registry' = [registry EXCEPT ![p] = EmptyRegistry]
    /\ timeouts' = [timeouts EXCEPT ![p] = [h \in Instances |-> 0]]
    /\ timedOut' = [timedOut EXCEPT ![p] = {}]
    /\ notification' = [notification EXCEPT ![p] = Quiet]
    /\ told' = [told EXCEPT ![p] = ToldNothing]
    /\ network' = Undelivered(p)

-----------------------------------------------------------------------------
\* multicastThread_.

\* Where the thread goes on: it handles the timed out peers one by one.
LoopLabel(remaining) == IF remaining = {} THEN "loop" ELSE "timeouts"

\* The registry of p becomes r, and the core is to hear of it.
Change(p, r, h, new, old) ==
    /\ registry' = [registry EXCEPT ![p] = r]
    /\ notification' = [notification EXCEPT ![p] = [peer |-> h, new |-> new, old |-> old]]
    /\ thread' = [thread EXCEPT ![p] = "notify"]

NoChange(p, remaining) ==
    /\ thread' = [thread EXCEPT ![p] = LoopLabel(remaining)]
    /\ UNCHANGED <<registry, notification>>

SetTimeout(p, h, periods) == timeouts' = [timeouts EXCEPT ![p][h] = periods]

\* Seeded fault: the peer is removed, the core not told.
OnPeerDeadSilently(p, h, remaining) ==
    IF Works(p)
    THEN /\ registry' = [registry EXCEPT ![p] = RemoveModule(@, UniqueId[h])]
         /\ thread' = [thread EXCEPT ![p] = LoopLabel(remaining)]
         /\ SetTimeout(p, h, 0)
         /\ UNCHANGED notification
    ELSE NoChange(p, remaining) /\ UNCHANGED timeouts

\* The timeout of a handle goes with it.
OnPeerDead(p, h, remaining) ==
    IF Works(p)
    THEN /\ Change(p, RemoveModule(registry[p], UniqueId[h]), h, "Dead",
                   GetPeerState(registry[p], h))
         /\ SetTimeout(p, h, 0)
    ELSE NoChange(p, remaining) /\ UNCHANGED timeouts

OnPeerNew(p, h, state) ==
    /\ Change(p, AddModule(registry[p], h, state), h, state, "Dead")
    /\ SetTimeout(p, h, 0)

\* A multicast of a registered peer.
OnPeerKnown(p, h, state) ==
    LET old == GetPeerState(registry[p], h)
    IN  /\ SetTimeout(p, h, 0)
        /\ IF old = state
           THEN NoChange(p, {})
           ELSE Change(p, UpdatePeerState(registry[p], UniqueId[h], state), h, state, old)

\* Seeded fault: once a peer is registered, only the run it was registered from is heard.
DropsOtherRuns(p, m) ==
    \/ ~Works(p)
    \/ m.from = p
    \/ /\ HasId(registry[p].all, UniqueId[m.from])
       /\ m.from # HandleOf(registry[p].all, UniqueId[m.from])
    \/ /\ p \in DisableEqualModuleInterconnect
       /\ TypeId[UniqueId[m.from]] = TypeId[UniqueId[p]]

\* The multicasts processIncomingMulticast() drops: what arrives before isStarted_ is
\* set, its own, and with the option those of its own type.  multicastIdentifier_, a
\* random number, tells its own from those of another instance with its id.
Drops(p, m) ==
    \/ ~Works(p)
    \/ m.from = p
    \/ /\ p \in DisableEqualModuleInterconnect
       /\ TypeId[UniqueId[m.from]] = TypeId[UniqueId[p]]

ProcessIncomingMulticast(p, m) ==
    LET id    == UniqueId[m.from]
        known == HasId(registry[p].all, id)
        h     == HandleOf(registry[p].all, id)
    IN  CASE Drops(p, m) \/ (m.state = "Dead" /\ ~known) -> NoChange(p, {}) /\ UNCHANGED timeouts
          [] m.state = "Dead" /\ known /\ ~Drops(p, m)   -> OnPeerDead(p, h, {})
          [] m.state # "Dead" /\ ~known /\ ~Drops(p, m)  -> OnPeerNew(p, m.from, m.state)
          [] m.state # "Dead" /\ known /\ ~Drops(p, m)   -> OnPeerKnown(p, h, m.state)

\* The sendStateMulticast() before the loop.
SendInitial(p) ==
    /\ thread[p] = "initial"
    /\ SendStateMulticast(p, selfState[p])
    /\ thread' = [thread EXCEPT ![p] = "loop"]
    /\ UNCHANGED <<coreVars, peerVars>>

EndLoop(p) ==
    /\ thread[p] = "loop"
    /\ stopRequested[p]
    /\ thread' = [thread EXCEPT ![p] = "ended"]
    /\ UNCHANGED <<coreVars, peerVars, network>>

\* The timeouts after one more period, and the handles timed out then.
\* Seeded fault: those of active peers (the default of INTERNAL_getAllPeers) are counted.
AgedActive(p) == [h \in Instances |-> IF h \in registry[p].active.peers
                                      THEN timeouts[p][h] + 1 ELSE 0]
Aged(p) == [h \in Instances |-> IF h \in registry[p].all.peers
                                THEN timeouts[p][h] + 1 ELSE 0]
\* Seeded fault: a timeout is tested before it is counted.
LateUncounted(p) == {h \in Instances : timeouts[p][h] > PEER_TIMEOUT_FACTOR}
Late(p) == {h \in Instances : Aged(p)[h] > PEER_TIMEOUT_FACTOR}

\* A period is over: sendStateMulticast() and updatePeerTimeouts() up to the list of
\* those who timed out.
UpdatePeerTimeouts(p) ==
    /\ thread[p] = "loop"
    /\ ~stopRequested[p]
    /\ SendStateMulticast(p, selfState[p])
    /\ timeouts' = [timeouts EXCEPT ![p] = Aged(p)]
    /\ timedOut' = [timedOut EXCEPT ![p] = Late(p)]
    /\ thread' = [thread EXCEPT ![p] = LoopLabel(Late(p))]
    /\ UNCHANGED <<coreVars, registry, notification, told>>

HandleTimeout(p) ==
    /\ thread[p] = "timeouts"
    /\ \E h \in timedOut[p] :
           /\ timedOut' = [timedOut EXCEPT ![p] = @ \ {h}]
           /\ OnPeerDead(p, h, timedOut[p] \ {h})
    /\ UNCHANGED <<coreVars, told, network>>

\* receiveMulticasts() when there is one; the loop condition was true.
Receive(p, m) ==
    /\ thread[p] = "loop"
    /\ ~stopRequested[p]
    /\ m \in network
    /\ m.to = p
    /\ network' = network \ {m}
    /\ ProcessIncomingMulticast(p, m)
    /\ UNCHANGED <<coreVars, timedOut, told>>

\* core_->peerStateChange()
PeerStateChange(p) ==
    /\ thread[p] = "notify"
    /\ told' = [told EXCEPT ![p][UniqueId[notification[p].peer]] = notification[p].new]
    /\ notification' = [notification EXCEPT ![p] = Quiet]
    /\ thread' = [thread EXCEPT ![p] = LoopLabel(timedOut[p])]
    /\ UNCHANGED <<coreVars, registry, timeouts, timedOut, network>>

-----------------------------------------------------------------------------
CoreStep(p) == \/ Start(p) \/ MarkStarted(p) \/ Announce(p) \/ ForceStateBroadcast(p)
               \/ RequestStop(p) \/ FinishStop(p)

ThreadStep(p) == \/ SendInitial(p) \/ EndLoop(p) \/ UpdatePeerTimeouts(p)
                 \/ HandleTimeout(p) \/ PeerStateChange(p)
                 \/ \E m \in Multicasts : Receive(p, m)

\* Every run is over.
Terminated ==
    /\ \A p \in Instances : core[p] \in {"stopped", "crashed"}
    /\ UNCHANGED vars

Next == \/ \E p \in Instances : CoreStep(p) \/ ThreadStep(p) \/ Crash(p)
        \/ Terminated

Spec == Init /\ [][Next]_vars

\* A period in which no copy of the multicast is lost.
NoneLost(p) ==
    /\ UpdatePeerTimeouts(p)
    /\ Copies(p, selfState[p], {q \in Instances : Reachable(q)}) \subseteq network'

ReceiveFrom(p, q) == \E m \in Multicasts : m.from = q /\ Receive(p, m)

\* The scheduler runs both threads; the clock makes every period end (SF, because the
\* loop also receives), and the network does not lose the multicasts of all periods;
\* what reaches a socket again and again is received at last, whoever else sends.
Fairness ==
    /\ \A p \in Instances :
           /\ WF_vars(MarkStarted(p) \/ RequestStop(p) \/ FinishStop(p))
           /\ WF_vars(SendInitial(p) \/ EndLoop(p) \/ HandleTimeout(p) \/ PeerStateChange(p))
           /\ SF_vars(NoneLost(p))
    /\ \A p \in Listeners, q \in Instances : SF_vars(ReceiveFrom(p, q))

FairSpec == Spec /\ Fairness

-----------------------------------------------------------------------------
\* The core is told of every change, with the old state it knew and the new one of the
\* registry.  The dispatcher depends on it: old = Dead makes it connect, new = Dead
\* disconnect (ModuleEventDispatcher.cpp:323).
CoreIsTold ==
    \A p \in Instances :
        LET n    == notification[p]
            view == [id \in Ids |-> StateOf(registry[p], id)]
        IN  IF thread[p] = "notify"
            THEN /\ n.old = told[p][UniqueId[n.peer]]
                 /\ n.old # n.new
                 /\ view = [told[p] EXCEPT ![UniqueId[n.peer]] = n.new]
            ELSE view = told[p]

\* After stop() nothing more happens to the registry, the core hears nothing and the
\* network nothing: messaging is stopped next, and peerStateChange() would throw.
StoppedIsSilent ==
    [][\A p \in Instances :
           core[p] = "stopped" => /\ UNCHANGED <<registry[p], told[p], thread[p]>>
                                  /\ \A m \in network' \ network : m.from # p]_vars

\* Listens for good, and cannot be confused with p by its id.
Listens(p) == Reachable(p) /\ Works(p)
Gone(id, p) == \A q \in Instances \ {p} :
                   UniqueId[q] = id => core[q] \in {"off", "stopped", "crashed"}

\* When the last instance with an id has gone, announced or not, a listening instance
\* forgets the id for good: late multicasts can only revive it for a while.
DeadPeerIsForgotten ==
    \A p \in Listeners, id \in Ids :
        <>[](Listens(p) /\ Gone(id, p)) => <>[](~HasId(registry[p].all, id) /\ told[p][id] = "Dead")

\* A peer that stays in a state is known in it again and again, whatever was lost, timed
\* out, or announced by another instance with its id, whose Dead removes it and whose
\* states replace its own.
LivePeerIsKnown ==
    \A p \in Listeners, q \in Instances, state \in {"Inactive", "Active"} :
        LET ignored == p = q \/ /\ p \in DisableEqualModuleInterconnect
                                /\ TypeId[UniqueId[q]] = TypeId[UniqueId[p]]
        IN  ~ignored /\ <>[](Listens(p) /\ Works(q) /\ selfState[q] = state)
                => []<>(StateOf(registry[p], UniqueId[q]) = state)

\* Every core is told of every change, one after the other.
View == INSTANCE PeerView WITH
            Observers <- Instances,
            States <- ModuleStates,
            view <- [p \in Instances |-> [id \in Ids |-> StateOf(registry[p], id)]]
ViewSpec == View!Spec
=============================================================================
