--------------------------- MODULE ZmfCore_proofs ---------------------------
(***************************************************************************)
(* Proofs about ZmfCore, for every set of dependencies, start options,     *)
(* enable() outcomes and callers.  The safety properties follow from one   *)
(* inductive invariant that says, for each position of the main and the    *)
(* instance thread, what the flags, the services, the module and the       *)
(* announced state are there.                                              *)
(***************************************************************************)
EXTENDS ZmfCore, TLAPS

BootLabels == StartLabels \ {"markStarted"}
ServicesUp == {"announceInactive", "multicast", "setAutoEnable", "checkUnique",
               "clearStop", "spawn"}
DeadLabels == {"stopDiscovery", "stopDispatcher", "joinPoller", "setStopped"}

\* Until the instance thread is spawned.
BootInv ==
    /\ pc["main"] \in BootLabels
    /\ ~services.dispatcher /\ moduleState = "DISABLED"
    /\ ~flags.moduleActive /\ ~flags.isStarted /\ after = "head"
    /\ pc["main"] # "start" => ~flags.isStopped
    /\ services.messaging <=>
         pc["main"] \in ServicesUp \cup {"startDiscovery", "stopDispatcher"}
    /\ services.discovery <=> pc["main"] \in ServicesUp
    /\ pc["main"] \in ServicesUp \ {"announceInactive"} => selfState = "Inactive"
    /\ pc["main"] \in ServicesUp \ {"announceInactive", "multicast"} =>
         announced = "Inactive"
    /\ pc["main"] \notin ServicesUp => announced = "none"
    /\ ~services.messaging => pc["poller"] = "idle" \/ pc["main"] = "joinPoller"

\* Which services run at a position of the instance thread.
ServicesInv(l) ==
    /\ l \notin {"stopDispatcher", "joinPoller", "setStopped", "exited"} =>
         services.messaging /\ services.discovery
    /\ l = "stopDispatcher" => services.messaging /\ ~services.discovery
    /\ l \in {"joinPoller", "setStopped"} => ~services.messaging /\ ~services.discovery
    /\ l = "exited" => /\ services.messaging <=> services.discovery
                       /\ services.messaging <=> ~flags.isStopped
    /\ services.dispatcher <=>
         \/ flags.moduleActive
         \/ l \in {"internalEnable", "moduleEnable", "setActive", "enableFailed",
                   "internalDisable", "moduleDisable", "onDisable"}

\* Where the module is active, and in which state its own automaton is.
ModuleInv(l) ==
    /\ l \in {"active", "clearDisable", "announceActive", "setInactive"} => flags.moduleActive
    /\ l \in ({"inactive", "claimEnable", "reenable", "clearStarted", "announceDead"}
              \cup DeadLabels \cup EnableLabels \cup DisableLabels)
             \ {"announceActive", "setInactive"} => ~flags.moduleActive
    /\ l = "multicast" /\ after # "head" => ~flags.moduleActive
    /\ l = "exited" /\ flags.isStopped => ~flags.moduleActive
    /\ moduleState = IF l = "moduleEnable" THEN "ENABLING"
                     ELSE IF l \in {"setActive", "internalDisable"} THEN "ENABLED"
                     ELSE IF l = "moduleDisable" THEN "DISABLING"
                     ELSE IF flags.moduleActive THEN "ENABLED" ELSE "DISABLED"

\* Which state discovery holds and has multicast.
BroadcastInv(l) ==
    /\ selfState = IF \/ l \in DeadLabels
                      \/ l = "multicast" /\ after = "stopDiscovery"
                      \/ l = "exited" /\ flags.isStopped
                   THEN "Dead"
                   ELSE IF \/ l \in {"internalDisable", "moduleDisable", "onDisable",
                                     "announceInactive"}
                           \/ flags.moduleActive /\ l # "announceActive"
                   THEN "Active" ELSE "Inactive"
    /\ l # "multicast" => announced = selfState

\* How far the shutdown is, and that it starts only when the start is over.
ShuttingDown(l) ==
    \/ l \in {"disableIfActive", "clearStarted", "announceDead"} \cup DeadLabels
    \/ l \in DisableLabels \cup {"multicast"} /\ after \in {"clearStarted", "stopDiscovery"}
    \/ l = "exited" /\ flags.isStopped

StartedCleared(l) ==
    \/ l \in {"announceDead"} \cup DeadLabels
    \/ l = "multicast" /\ after = "stopDiscovery"
    \/ l = "exited" /\ flags.isStopped

ShutdownInv(l) ==
    /\ flags.isStopped => l = "exited"
    /\ pc["main"] = "markStarted" => ~flags.isStarted
    /\ ShuttingDown(l) => pc["main"] # "markStarted"
    /\ StartedCleared(l) => ~flags.isStarted
    /\ l \in DisableLabels => after # "stopDiscovery"

RunInv ==
    /\ pc["main"] \notin BootLabels
    /\ ServicesInv(pc["instance"])
    /\ ModuleInv(pc["instance"])
    /\ BroadcastInv(pc["instance"])
    /\ ShutdownInv(pc["instance"])

IInv ==
    /\ TypeOK
    /\ IF pc["instance"] = "none" THEN BootInv ELSE RunInv

USE DEF Threads, Flags, Services, ModuleStates

(***************************************************************************)
(* Every elementary step keeps the types.                                  *)
(***************************************************************************)
\* A move leaves the thread at `to` and every other thread where it was.
LEMMA MoveType ==
  ASSUME TypeOK, NEW t \in Threads, NEW from, NEW to \in Labels(t), Move(t, from, to)
  PROVE  /\ pc' \in [Threads -> UNION {Labels(u) : u \in Threads}]
         /\ \A u \in Threads : pc'[u] \in Labels(u)
         /\ pc'[t] = to
         /\ \A u \in Threads \ {t} : pc'[u] = pc[u]
  BY DEF TypeOK, Move, Goto

\* Skipping keeps every type.
LEMMA SkipType ==
  ASSUME TypeOK, NEW t \in Threads, NEW from, NEW to \in Labels(t), Skip(t, from, to)
  PROVE  TypeOK'
  BY MoveType DEF TypeOK, Skip, locals, module, broadcast

\* Writing a flag keeps every type.
LEMMA SetFlagType ==
  ASSUME TypeOK, NEW t \in Threads, NEW from, NEW to \in Labels(t),
         NEW flag \in Flags, NEW value \in BOOLEAN, SetFlag(t, from, flag, value, to)
  PROVE  TypeOK'
  BY MoveType DEF TypeOK, SetFlag, locals, module, broadcast

\* Starting or stopping a service keeps every type.
LEMMA SetServiceType ==
  ASSUME TypeOK, NEW t \in Threads, NEW from, NEW to \in Labels(t),
         NEW service \in Services, NEW running \in BOOLEAN,
         SetService(t, from, service, running, to)
  PROVE  TypeOK'
  BY MoveType DEF TypeOK, SetService, locals, broadcast

\* Stopping the dispatcher keeps every type.
LEMMA StopDispatcherType ==
  ASSUME TypeOK, NEW t \in {"main", "instance"}, NEW from, StopDispatcher(t, from)
  PROVE  TypeOK'
  <1>1. "joinPoller" \in Labels(t)
    BY DEF Labels, StartLabels, InstanceLabels, ShutdownLabels
  <1>2. /\ pc' \in [Threads -> UNION {Labels(u) : u \in Threads}]
        /\ \A u \in Threads : pc'[u] \in Labels(u)
    BY <1>1, MoveType DEF StopDispatcher
  <1>3. services' \in [Services -> BOOLEAN]
    BY DEF TypeOK, StopDispatcher
  <1>4. UNCHANGED <<flags, exitOnFail, after, toCheck, moduleState, selfState, announced, peers>>
    BY DEF StopDispatcher, locals, broadcast
  <1>5. QED
    BY <1>2, <1>3, <1>4 DEF TypeOK

\* Changing the broadcast state keeps every type.
LEMMA UpdateSelfStateType ==
  ASSUME TypeOK, NEW t \in {"main", "instance"}, NEW from, NEW state \in ModuleStates,
         NEW next \in {"head", "reenable", "clearStarted", "stopDiscovery"},
         UpdateSelfState(t, from, state, next)
  PROVE  TypeOK'
  <1>1. "multicast" \in Labels(t)
    BY DEF Labels, StartLabels, InstanceLabels
  <1>2. /\ pc' \in [Threads -> UNION {Labels(u) : u \in Threads}]
        /\ \A u \in Threads : pc'[u] \in Labels(u)
    BY <1>1, MoveType DEF UpdateSelfState
  <1>3. UNCHANGED <<flags, exitOnFail, toCheck, moduleState, services, announced, peers>>
    BY DEF UpdateSelfState, module
  <1>4. /\ selfState' \in ModuleStates
        /\ after' \in {"head", "reenable", "clearStarted", "stopDiscovery"}
    BY DEF UpdateSelfState
  <1>5. QED
    BY <1>2, <1>3, <1>4 DEF TypeOK

\* Sending a multicast keeps every type.
LEMMA MulticastType ==
  ASSUME TypeOK, NEW t \in Threads, NEW to \in Labels(t), Multicast(t, to)
  PROVE  TypeOK'
  BY MoveType DEF TypeOK, Multicast, SendStateMulticast, locals, module

\* A step of the module automaton keeps every type.
LEMMA ModuleStepType ==
  ASSUME TypeOK, NEW from, NEW to \in Labels("instance"),
         NEW state \in {"DISABLED", "ENABLING", "ENABLED", "DISABLING"},
         ModuleStep(from, state, to)
  PROVE  TypeOK'
  BY MoveType DEF TypeOK, ModuleStep, locals, broadcast

(***************************************************************************)
(* Every action keeps the types: one step per disjunct of the action.      *)
(***************************************************************************)
\* The part of InstanceStep that is one pass of zmfInstanceLoop().
LoopStep ==
    \/ LoopHead \/ ReadRequest \/ ClearDisable
    \/ DependencyFound \/ DependencyMissing \/ DependenciesSatisfied \/ CheckUnique
    \/ Multicast("instance", after)

\* startInstance() keeps every type.
LEMMA StartStepType ==
  ASSUME TypeOK, StartStep
  PROVE  TypeOK'
  <1> USE DEF Labels, StartLabels
  <1>1. CASE ~flags.isStarted /\ SetFlag("main", "start", "isStopped", FALSE, "startMessaging")
    BY <1>1, SetFlagType DEF TypeOK
  <1>2. CASE SetService("main", "startMessaging", "messaging", TRUE, "startDiscovery")
    BY <1>2, SetServiceType
  <1>3. CASE Skip("main", "startMessaging", "failed")
    BY <1>3, SkipType
  <1>4. CASE SetService("main", "startDiscovery", "discovery", TRUE, "announceInactive")
    BY <1>4, SetServiceType
  <1>5. CASE Skip("main", "startDiscovery", "stopDispatcher")
    BY <1>5, SkipType
  <1>6. CASE StopDispatcher("main", "stopDispatcher")
    BY <1>6, StopDispatcherType
  <1>7. CASE JoinPoller("main", "failed")
    BY <1>7, SkipType DEF JoinPoller
  <1>8. CASE UpdateSelfState("main", "announceInactive", "Inactive", after)
    <2>1. after \in {"head", "reenable", "clearStarted", "stopDiscovery"} /\ "Inactive" \in ModuleStates
      BY DEF TypeOK
    <2>2. QED
      BY <1>8, <2>1, UpdateSelfStateType
  <1>9. CASE Multicast("main", "setAutoEnable")
    BY <1>9, MulticastType DEF TypeOK
  <1>10. CASE \E autoEnable \in AutoEnable :
               SetFlag("main", "setAutoEnable", "enableRequested", autoEnable, "checkUnique")
    <2>1. PICK autoEnable \in AutoEnable :
               SetFlag("main", "setAutoEnable", "enableRequested", autoEnable, "checkUnique")
      BY <1>10
    <2>2. autoEnable \in BOOLEAN
      BY OptionsAssumption
    <2>3. QED
      BY <2>1, <2>2, SetFlagType
  <1>11. CASE CheckUniqueAtStart
    BY <1>11, SetFlagType DEF CheckUniqueAtStart, IsUnique, TypeOK
  <1>12. CASE SetFlag("main", "clearStop", "stopRequested", FALSE, "spawn")
    BY <1>12, SetFlagType DEF TypeOK
  <1>13. CASE SpawnInstanceThread
    BY <1>13, MoveType DEF SpawnInstanceThread, TypeOK, locals, module, broadcast, InstanceLabels, At
  <1>14. CASE SetFlag("main", "markStarted", "isStarted", TRUE, "idle")
    BY <1>14, SetFlagType DEF TypeOK
  <1>15. QED
    BY <1>1, <1>2, <1>3, <1>4, <1>5, <1>6, <1>7, <1>8, <1>9, <1>10, <1>11, <1>12, <1>13, <1>14 DEF StartStep

\* The request*() calls keep every type.
LEMMA ContinueRequestType ==
  ASSUME TypeOK, NEW c \in {"main", "poller"}, ContinueRequest(c)
  PROVE  TypeOK'
  <1>0. /\ c \in Threads
        /\ {"enableSet", "disableClear", "disableSet", "stopClearEnable", "stopSet", "idle"}
             \subseteq Labels(c)
    <2>1. CASE c = "main"
      BY <2>1 DEF Labels, RequestLabels
    <2>2. CASE c = "poller"
      BY <2>2 DEF Labels, RequestLabels
    <2>3. QED
      BY <2>1, <2>2
  <1>1. CASE SetFlag(c, "enableClear", "disableRequested", FALSE, "enableSet")
    BY <1>0, <1>1, SetFlagType DEF TypeOK
  <1>2. CASE SetFlag(c, "enableSet", "enableRequested", TRUE, "idle")
    BY <1>0, <1>2, SetFlagType DEF TypeOK
  <1>3. CASE CheckEnablePending(c, "disableCheck", "disableClear")
    BY <1>0, <1>3, SkipType DEF CheckEnablePending
  <1>4. CASE SetFlag(c, "disableClear", "enableRequested", FALSE, "disableSet")
    BY <1>0, <1>4, SetFlagType DEF TypeOK
  <1>5. CASE SetFlag(c, "disableSet", "disableRequested", TRUE, "idle")
    BY <1>0, <1>5, SetFlagType DEF TypeOK
  <1>6. CASE CheckEnablePending(c, "stopCheckEnable", "stopClearEnable")
    BY <1>0, <1>6, SkipType DEF CheckEnablePending
  <1>7. CASE SetFlag(c, "stopClearEnable", "enableRequested", FALSE, "stopSet")
    BY <1>0, <1>7, SetFlagType DEF TypeOK
  <1>8. CASE SetFlag(c, "stopSet", "stopRequested", TRUE, "idle")
    BY <1>0, <1>8, SetFlagType DEF TypeOK
  <1>9. QED
    BY <1>1, <1>2, <1>3, <1>4, <1>5, <1>6, <1>7, <1>8 DEF ContinueRequest

\* stopInstance() and joinExecution() keep every type.
LEMMA StopStepType ==
  ASSUME TypeOK, StopStep
  PROVE  TypeOK'
  <1> USE DEF Labels, StopInstanceLabels
  <1>1. CASE SetFlag("main", "cancelEnable", "enableRequested", FALSE,
              IF flags.enableRequested THEN "idle" ELSE "stopInstanceCheck")
    BY <1>1, SetFlagType DEF TypeOK
  <1>2. CASE Skip("main", "stopInstanceCheck",
              IF flags.isStarted THEN "stopInstanceSet" ELSE "idle")
    BY <1>2, SkipType
  <1>3. CASE SetFlag("main", "stopInstanceSet", "stopRequested", TRUE, "join")
    BY <1>3, SetFlagType DEF TypeOK
  <1>4. CASE At("instance", "exited") /\ Skip("main", "join", "idle")
    BY <1>4, SkipType
  <1>5. QED
    BY <1>1, <1>2, <1>3, <1>4 DEF StopStep

\* Making a call keeps every type.
LEMMA NewCallType ==
  ASSUME TypeOK, NewCall
  PROVE  TypeOK'
  <1> USE DEF Labels, RequestLabels, StopInstanceLabels
  <1>1. CASE \E c \in Callers : RequestEnable(c) \/ RequestDisable(c) \/ RequestStop(c)
    BY <1>1, SkipType, CallersAssumption DEF RequestEnable, RequestDisable, RequestStop, Call
  <1>2. CASE StopInstance
    BY <1>2, SkipType DEF StopInstance
  <1>3. CASE JoinExecution
    BY <1>3, SkipType DEF JoinExecution
  <1>4. QED
    BY <1>1, <1>2, <1>3 DEF NewCall

\* A pass of the instance loop keeps every type.
LEMMA LoopStepType ==
  ASSUME TypeOK, LoopStep
  PROVE  TypeOK'
  <1> USE DEF Labels, InstanceLabels, DisableLabels, ShutdownLabels
  <1>1. CASE LoopHead
    BY <1>1, SkipType DEF LoopHead
  <1>2. CASE ReadRequest
    BY <1>2, MoveType DEF ReadRequest, ReadFlag, TypeOK, locals, module, broadcast
  <1>3. CASE ClearDisable
    BY <1>3, MoveType, ZenonT(60) DEF ClearDisable, TypeOK, locals, module, broadcast
  <1>4. CASE DependencyFound
    BY <1>4, MoveType DEF DependencyFound, TypeOK, locals, module, broadcast
  <1>5. CASE DependencyMissing
    BY <1>5, MoveType DEF DependencyMissing, TypeOK, locals, module, broadcast
  <1>6. CASE DependenciesSatisfied
    BY <1>6, SkipType DEF DependenciesSatisfied
  <1>7. CASE CheckUnique
    BY <1>7, SetFlagType DEF CheckUnique, IsUnique, TypeOK
  <1>8. CASE Multicast("instance", after)
    BY <1>8, MulticastType DEF TypeOK
  <1>9. QED
    BY <1>1, <1>2, <1>3, <1>4, <1>5, <1>6, <1>7, <1>8 DEF LoopStep

\* enableModule() keeps every type.
LEMMA EnableStepType ==
  ASSUME TypeOK, EnableStep
  PROVE  TypeOK'
  <1> USE DEF Labels, InstanceLabels, EnableLabels
  <1>1. CASE SetFlag("instance", "claimEnable", "enableRequested", FALSE, "onEnable")
    BY <1>1, SetFlagType DEF TypeOK
  <1>2. CASE SetService("instance", "onEnable", "dispatcher", TRUE, "internalEnable")
    BY <1>2, SetServiceType
  <1>3. CASE InternalEnable
    BY <1>3, ModuleStepType DEF InternalEnable, TypeOK
  <1>4. CASE ModuleEnable
    BY <1>4, ModuleStepType, EnableOutcomesAssumption DEF ModuleEnable, TypeOK
  <1>5. CASE EnableFailed
    <2>1. /\ pc' \in [Threads -> UNION {Labels(u) : u \in Threads}]
          /\ \A u \in Threads : pc'[u] \in Labels(u)
      BY <1>5, MoveType DEF EnableFailed
    <2>2. services' \in [Services -> BOOLEAN] /\ flags' \in [Flags -> BOOLEAN]
      BY <1>5 DEF EnableFailed, TypeOK
    <2>3. UNCHANGED <<exitOnFail, after, toCheck, moduleState, selfState, announced, peers>>
      BY <1>5 DEF EnableFailed, locals, broadcast
    <2>4. QED
      BY <2>1, <2>2, <2>3 DEF TypeOK
  <1>6. CASE SetFlag("instance", "setActive", "moduleActive", TRUE, "announceActive")
    BY <1>6, SetFlagType DEF TypeOK
  <1>7. CASE UpdateSelfState("instance", "announceActive", "Active", "head")
    BY <1>7, UpdateSelfStateType DEF TypeOK
  <1>8. QED
    BY <1>1, <1>2, <1>3, <1>4, <1>5, <1>6, <1>7 DEF EnableStep

\* disableModule() keeps every type.
LEMMA DisableStepType ==
  ASSUME TypeOK, DisableStep
  PROVE  TypeOK'
  <1> USE DEF Labels, InstanceLabels, DisableLabels
  <1>1. CASE SetFlag("instance", "setInactive", "moduleActive", FALSE, "internalDisable")
    BY <1>1, SetFlagType DEF TypeOK
  <1>2. CASE InternalDisable
    BY <1>2, ModuleStepType DEF InternalDisable, TypeOK
  <1>3. CASE ModuleStep("moduleDisable", "DISABLED", "onDisable")
    BY <1>3, ModuleStepType DEF TypeOK
  <1>4. CASE SetService("instance", "onDisable", "dispatcher", FALSE, "announceInactive")
    BY <1>4, SetServiceType
  <1>5. CASE UpdateSelfState("instance", "announceInactive", "Inactive", after)
    <2>1. after \in {"head", "reenable", "clearStarted", "stopDiscovery"} /\ "Inactive" \in ModuleStates
      BY DEF TypeOK
    <2>2. QED
      BY <1>5, <2>1, UpdateSelfStateType
  <1>6. CASE SetFlag("instance", "reenable", "enableRequested", TRUE, "head")
    BY <1>6, SetFlagType DEF TypeOK
  <1>7. QED
    BY <1>1, <1>2, <1>3, <1>4, <1>5, <1>6 DEF DisableStep

\* onInstanceStopped() keeps every type.
LEMMA ShutdownStepType ==
  ASSUME TypeOK, ShutdownStep
  PROVE  TypeOK'
  <1> USE DEF Labels, InstanceLabels, DisableLabels, ShutdownLabels
  <1>1. CASE OnInstanceStopped
    BY <1>1, SkipType DEF OnInstanceStopped
  <1>2. CASE DisableIfActive
    BY <1>2, MoveType DEF DisableIfActive, TypeOK, locals, module, broadcast
  <1>3. CASE SetFlag("instance", "clearStarted", "isStarted", FALSE, "announceDead")
    BY <1>3, SetFlagType DEF TypeOK
  <1>4. CASE UpdateSelfState("instance", "announceDead", "Dead", "stopDiscovery")
    BY <1>4, UpdateSelfStateType DEF TypeOK
  <1>5. CASE StopDiscovery
    BY <1>5, SetServiceType DEF StopDiscovery
  <1>6. CASE StopDispatcher("instance", "stopDispatcher")
    BY <1>6, StopDispatcherType
  <1>7. CASE JoinPoller("instance", "setStopped")
    BY <1>7, SkipType DEF JoinPoller
  <1>8. CASE SetFlag("instance", "setStopped", "isStopped", TRUE, "exited")
    BY <1>8, SetFlagType DEF TypeOK
  <1>9. QED
    BY <1>1, <1>2, <1>3, <1>4, <1>5, <1>6, <1>7, <1>8 DEF ShutdownStep

(***************************************************************************)
(* Every action keeps the inductive invariant.                             *)
(***************************************************************************)
\* startInstance() keeps the invariant.
LEMMA StartStepInv ==
  ASSUME IInv, TypeOK', StartStep
  PROVE  IInv'
  <1> USE DEF IInv, TypeOK, BootInv, RunInv, ServicesInv, ModuleInv, BroadcastInv,
              ShutdownInv, ShuttingDown, StartedCleared,
              BootLabels, ServicesUp, DeadLabels, StartLabels, EnableLabels, DisableLabels,
              Move, At, Goto, locals, module, broadcast
  <1>1. CASE ~flags.isStarted /\ SetFlag("main", "start", "isStopped", FALSE, "startMessaging")
    BY <1>1 DEF SetFlag
  <1>2. CASE SetService("main", "startMessaging", "messaging", TRUE, "startDiscovery")
    BY <1>2 DEF SetService
  <1>3. CASE Skip("main", "startMessaging", "failed")
    BY <1>3 DEF Skip
  <1>4. CASE SetService("main", "startDiscovery", "discovery", TRUE, "announceInactive")
    BY <1>4 DEF SetService
  <1>5. CASE Skip("main", "startDiscovery", "stopDispatcher")
    BY <1>5 DEF Skip
  <1>6. CASE StopDispatcher("main", "stopDispatcher")
    BY <1>6 DEF StopDispatcher
  <1>7. CASE JoinPoller("main", "failed")
    BY <1>7 DEF JoinPoller, Skip
  <1>8. CASE UpdateSelfState("main", "announceInactive", "Inactive", after)
    BY <1>8 DEF UpdateSelfState
  <1>9. CASE Multicast("main", "setAutoEnable")
    BY <1>9 DEF Multicast, SendStateMulticast
  <1>10. CASE \E autoEnable \in AutoEnable :
               SetFlag("main", "setAutoEnable", "enableRequested", autoEnable, "checkUnique")
    BY <1>10 DEF SetFlag
  <1>11. CASE CheckUniqueAtStart
    BY <1>11 DEF CheckUniqueAtStart, IsUnique, SetFlag
  <1>12. CASE SetFlag("main", "clearStop", "stopRequested", FALSE, "spawn")
    BY <1>12 DEF SetFlag
  <1>13. CASE SpawnInstanceThread
    BY <1>13 DEF SpawnInstanceThread
  <1>14. CASE SetFlag("main", "markStarted", "isStarted", TRUE, "idle")
    BY <1>14 DEF SetFlag
  <1>15. QED
    BY <1>1, <1>2, <1>3, <1>4, <1>5, <1>6, <1>7, <1>8, <1>9, <1>10, <1>11, <1>12, <1>13, <1>14 DEF StartStep

\* The request*() calls keep the invariant: it mentions no flag they write.
LEMMA ContinueRequestInv ==
  ASSUME IInv, TypeOK', NEW c \in {"main", "poller"}, ContinueRequest(c)
  PROVE  IInv'
  <1> USE DEF IInv, TypeOK, BootInv, RunInv, ServicesInv, ModuleInv, BroadcastInv,
              ShutdownInv, ShuttingDown, StartedCleared,
              BootLabels, ServicesUp, DeadLabels, StartLabels, EnableLabels, DisableLabels,
              Move, At, Goto, locals, module, broadcast
  <1>1. CASE SetFlag(c, "enableClear", "disableRequested", FALSE, "enableSet")
    BY <1>1 DEF SetFlag
  <1>2. CASE SetFlag(c, "enableSet", "enableRequested", TRUE, "idle")
    BY <1>2 DEF SetFlag
  <1>3. CASE CheckEnablePending(c, "disableCheck", "disableClear")
    BY <1>3 DEF CheckEnablePending, Skip
  <1>4. CASE SetFlag(c, "disableClear", "enableRequested", FALSE, "disableSet")
    BY <1>4 DEF SetFlag
  <1>5. CASE SetFlag(c, "disableSet", "disableRequested", TRUE, "idle")
    BY <1>5 DEF SetFlag
  <1>6. CASE CheckEnablePending(c, "stopCheckEnable", "stopClearEnable")
    BY <1>6 DEF CheckEnablePending, Skip
  <1>7. CASE SetFlag(c, "stopClearEnable", "enableRequested", FALSE, "stopSet")
    BY <1>7 DEF SetFlag
  <1>8. CASE SetFlag(c, "stopSet", "stopRequested", TRUE, "idle")
    BY <1>8 DEF SetFlag
  <1>9. QED
    BY <1>1, <1>2, <1>3, <1>4, <1>5, <1>6, <1>7, <1>8 DEF ContinueRequest

\* stopInstance() and joinExecution() keep the invariant.
LEMMA StopStepInv ==
  ASSUME IInv, TypeOK', StopStep
  PROVE  IInv'
  <1> USE DEF IInv, TypeOK, BootInv, RunInv, ServicesInv, ModuleInv, BroadcastInv,
              ShutdownInv, ShuttingDown, StartedCleared,
              BootLabels, ServicesUp, DeadLabels, StartLabels, EnableLabels, DisableLabels,
              Move, At, Goto, locals, module, broadcast
  <1>1. CASE SetFlag("main", "cancelEnable", "enableRequested", FALSE,
              IF flags.enableRequested THEN "idle" ELSE "stopInstanceCheck")
    BY <1>1 DEF SetFlag
  <1>2. CASE Skip("main", "stopInstanceCheck",
              IF flags.isStarted THEN "stopInstanceSet" ELSE "idle")
    BY <1>2 DEF Skip
  <1>3. CASE SetFlag("main", "stopInstanceSet", "stopRequested", TRUE, "join")
    BY <1>3 DEF SetFlag
  <1>4. CASE At("instance", "exited") /\ Skip("main", "join", "idle")
    BY <1>4 DEF Skip
  <1>5. QED
    BY <1>1, <1>2, <1>3, <1>4 DEF StopStep

\* Making a call keeps the invariant.
LEMMA NewCallInv ==
  ASSUME IInv, TypeOK', NewCall
  PROVE  IInv'
  <1> USE DEF IInv, TypeOK, BootInv, RunInv, ServicesInv, ModuleInv, BroadcastInv,
              ShutdownInv, ShuttingDown, StartedCleared,
              BootLabels, ServicesUp, DeadLabels, StartLabels, EnableLabels, DisableLabels,
              Move, At, Goto, locals, module, broadcast
  <1>1. CASE \E c \in Callers : RequestEnable(c) \/ RequestDisable(c) \/ RequestStop(c)
    BY <1>1, CallersAssumption DEF RequestEnable, RequestDisable, RequestStop, Call, Skip
  <1>2. CASE StopInstance
    BY <1>2 DEF StopInstance, Skip
  <1>3. CASE JoinExecution
    BY <1>3 DEF JoinExecution, Skip
  <1>4. QED
    BY <1>1, <1>2, <1>3 DEF NewCall

\* A pass of the instance loop keeps the invariant.
LEMMA LoopStepInv ==
  ASSUME IInv, TypeOK', LoopStep
  PROVE  IInv'
  <1> USE DEF IInv, TypeOK, BootInv, RunInv, ServicesInv, ModuleInv, BroadcastInv,
              ShutdownInv, ShuttingDown, StartedCleared,
              BootLabels, ServicesUp, DeadLabels, StartLabels, EnableLabels, DisableLabels,
              Move, At, Goto, locals, module, broadcast
  <1>1. CASE LoopHead
    BY <1>1 DEF LoopHead, Skip
  <1>2. CASE ReadRequest
    BY <1>2 DEF ReadRequest, ReadFlag
  <1>3. CASE ClearDisable
    BY <1>3 DEF ClearDisable
  <1>4. CASE DependencyFound
    BY <1>4 DEF DependencyFound
  <1>5. CASE DependencyMissing
    BY <1>5 DEF DependencyMissing
  <1>6. CASE DependenciesSatisfied
    BY <1>6 DEF DependenciesSatisfied, Skip
  <1>7. CASE CheckUnique
    BY <1>7 DEF CheckUnique, IsUnique, SetFlag
  <1>8. CASE Multicast("instance", after)
    BY <1>8 DEF Multicast, SendStateMulticast
  <1>9. QED
    BY <1>1, <1>2, <1>3, <1>4, <1>5, <1>6, <1>7, <1>8 DEF LoopStep

\* enableModule() keeps the invariant.
LEMMA EnableStepInv ==
  ASSUME IInv, TypeOK', EnableStep
  PROVE  IInv'
  <1> USE DEF IInv, TypeOK, BootInv, RunInv, ServicesInv, ModuleInv, BroadcastInv,
              ShutdownInv, ShuttingDown, StartedCleared,
              BootLabels, ServicesUp, DeadLabels, StartLabels, EnableLabels, DisableLabels,
              Move, At, Goto, locals, module, broadcast
  <1>1. CASE SetFlag("instance", "claimEnable", "enableRequested", FALSE, "onEnable")
    BY <1>1 DEF SetFlag
  <1>2. CASE SetService("instance", "onEnable", "dispatcher", TRUE, "internalEnable")
    BY <1>2 DEF SetService
  <1>3. CASE InternalEnable
    BY <1>3 DEF InternalEnable, ModuleStep
  <1>4. CASE ModuleEnable
    BY <1>4 DEF ModuleEnable, ModuleStep
  <1>5. CASE EnableFailed
    BY <1>5 DEF EnableFailed
  <1>6. CASE SetFlag("instance", "setActive", "moduleActive", TRUE, "announceActive")
    BY <1>6 DEF SetFlag
  <1>7. CASE UpdateSelfState("instance", "announceActive", "Active", "head")
    BY <1>7 DEF UpdateSelfState
  <1>8. QED
    BY <1>1, <1>2, <1>3, <1>4, <1>5, <1>6, <1>7 DEF EnableStep

\* disableModule() keeps the invariant.
LEMMA DisableStepInv ==
  ASSUME IInv, TypeOK', DisableStep
  PROVE  IInv'
  <1> USE DEF IInv, TypeOK, BootInv, RunInv, ServicesInv, ModuleInv, BroadcastInv,
              ShutdownInv, ShuttingDown, StartedCleared,
              BootLabels, ServicesUp, DeadLabels, StartLabels, EnableLabels, DisableLabels,
              Move, At, Goto, locals, module, broadcast
  <1>1. CASE SetFlag("instance", "setInactive", "moduleActive", FALSE, "internalDisable")
    BY <1>1 DEF SetFlag
  <1>2. CASE InternalDisable
    BY <1>2 DEF InternalDisable, ModuleStep
  <1>3. CASE ModuleStep("moduleDisable", "DISABLED", "onDisable")
    BY <1>3 DEF ModuleStep
  <1>4. CASE SetService("instance", "onDisable", "dispatcher", FALSE, "announceInactive")
    BY <1>4 DEF SetService
  <1>5. CASE UpdateSelfState("instance", "announceInactive", "Inactive", after)
    BY <1>5 DEF UpdateSelfState
  <1>6. CASE SetFlag("instance", "reenable", "enableRequested", TRUE, "head")
    BY <1>6 DEF SetFlag
  <1>7. QED
    BY <1>1, <1>2, <1>3, <1>4, <1>5, <1>6 DEF DisableStep

\* onInstanceStopped() keeps the invariant.
LEMMA ShutdownStepInv ==
  ASSUME IInv, TypeOK', ShutdownStep
  PROVE  IInv'
  <1> USE DEF IInv, TypeOK, BootInv, RunInv, ServicesInv, ModuleInv, BroadcastInv,
              ShutdownInv, ShuttingDown, StartedCleared,
              BootLabels, ServicesUp, DeadLabels, StartLabels, EnableLabels, DisableLabels,
              Move, At, Goto, locals, module, broadcast
  <1>1. CASE OnInstanceStopped
    BY <1>1 DEF OnInstanceStopped, Skip
  <1>2. CASE DisableIfActive
    BY <1>2 DEF DisableIfActive
  <1>3. CASE SetFlag("instance", "clearStarted", "isStarted", FALSE, "announceDead")
    BY <1>3 DEF SetFlag
  <1>4. CASE UpdateSelfState("instance", "announceDead", "Dead", "stopDiscovery")
    BY <1>4 DEF UpdateSelfState
  <1>5. CASE StopDiscovery
    BY <1>5 DEF StopDiscovery, SetService
  <1>6. CASE StopDispatcher("instance", "stopDispatcher")
    BY <1>6 DEF StopDispatcher
  <1>7. CASE JoinPoller("instance", "setStopped")
    BY <1>7 DEF JoinPoller, Skip
  <1>8. CASE SetFlag("instance", "setStopped", "isStopped", TRUE, "exited")
    BY <1>8 DEF SetFlag
  <1>9. QED
    BY <1>1, <1>2, <1>3, <1>4, <1>5, <1>6, <1>7, <1>8 DEF ShutdownStep

(***************************************************************************)
(* The specification keeps the inductive invariant.                        *)
(***************************************************************************)
\* The constructors establish the invariant.
LEMMA InitInv ==
  ASSUME Init
  PROVE  IInv
  <1>1. TypeOK
    <2>1. /\ pc \in [Threads -> UNION {Labels(t) : t \in Threads}]
          /\ \A t \in Threads : pc[t] \in Labels(t)
      BY DEF Init, Labels, StartLabels, InstanceLabels
    <2>2. exitOnFail \in BOOLEAN
      BY OptionsAssumption DEF Init
    <2>3. flags \in [Flags -> BOOLEAN] /\ services \in [Services -> BOOLEAN]
      BY DEF Init
    <2>4. QED
      BY <2>1, <2>2, <2>3 DEF Init, TypeOK
  <1>2. BootInv /\ pc["instance"] = "none"
    BY DEF Init, BootInv, BootLabels, StartLabels, ServicesUp
  <1>3. QED
    BY <1>1, <1>2 DEF IInv

\* Every disjunct of Next, regrouped as the lemmas above have them.
LEMMA NextCases ==
  ASSUME [Next]_vars
  PROVE  \/ StartStep \/ StopStep \/ NewCall
         \/ \E c \in {"main", "poller"} : ContinueRequest(c)
         \/ LoopStep \/ EnableStep \/ DisableStep \/ ShutdownStep
         \/ PeriodicMulticast \/ RegistryChange \/ UNCHANGED vars
  BY DEF Next, MainStep, InstanceStep, LoopStep, Terminated

\* Every step keeps every type.
LEMMA NextType ==
  ASSUME TypeOK, [Next]_vars
  PROVE  TypeOK'
  <1>1. CASE PeriodicMulticast
    BY <1>1 DEF PeriodicMulticast, SendStateMulticast, TypeOK, locals, module
  <1>2. CASE RegistryChange
    BY <1>2 DEF RegistryChange, TypeOK, locals, module, broadcast
  <1>3. CASE UNCHANGED vars
    BY <1>3 DEF vars, TypeOK
  <1>4. QED
    BY <1>1, <1>2, <1>3, NextCases, StartStepType, StopStepType, NewCallType,
       ContinueRequestType, LoopStepType, EnableStepType, DisableStepType, ShutdownStepType

\* Every step keeps the invariant.
LEMMA NextInv ==
  ASSUME IInv, [Next]_vars
  PROVE  IInv'
  <1>1. TypeOK'
    BY NextType DEF IInv
  <1>2. CASE PeriodicMulticast
    BY <1>1, <1>2 DEF PeriodicMulticast, SendStateMulticast, IInv, TypeOK, BootInv, RunInv,
       ServicesInv, ModuleInv, BroadcastInv, ShutdownInv, ShuttingDown,
       StartedCleared, BootLabels, ServicesUp, DeadLabels,
       StartLabels, EnableLabels, DisableLabels, locals, module
  <1>3. CASE RegistryChange
    BY <1>1, <1>3 DEF RegistryChange, IInv, BootInv, RunInv, ServicesInv, ModuleInv,
       BroadcastInv, ShutdownInv, ShuttingDown, StartedCleared, locals, module, broadcast
  <1>4. CASE UNCHANGED vars
    BY <1>1, <1>4 DEF vars, IInv, BootInv, RunInv, ServicesInv, ModuleInv, BroadcastInv,
       ShutdownInv, ShuttingDown, StartedCleared
  <1>5. QED
    BY <1>1, <1>2, <1>3, <1>4, NextCases, StartStepInv, StopStepInv, NewCallInv,
       ContinueRequestInv, LoopStepInv, EnableStepInv, DisableStepInv, ShutdownStepInv

\* The inductive invariant holds in every reachable state.
THEOREM Invariance == Spec => []IInv
  <1>1. Init => IInv
    BY InitInv
  <1>2. IInv /\ [Next]_vars => IInv'
    BY NextInv
  <1>3. QED
    BY <1>1, <1>2, PTL DEF Spec

(***************************************************************************)
(* The theorems.                                                           *)
(***************************************************************************)
\* Every variable of the core keeps its type, whatever the exitOnFail, outcomes
\* and callers are.
THEOREM TypeCorrect == Spec => []TypeOK
  <1>1. IInv => TypeOK
    BY DEF IInv
  <1>2. QED
    BY <1>1, Invariance, PTL

\* Whichever service fails to start, and whatever requests the poller was
\* making in the meantime, startInstance() leaves nothing running behind.
THEOREM FailedStartLeavesNothing == Spec => []FailedStartIsClean
  <1>1. IInv => FailedStartIsClean
    BY DEF IInv, BootInv, RunInv, BootLabels, StartLabels, ServicesUp, FailedStartIsClean, At
  <1>2. QED
    BY <1>1, Invariance, PTL

\* Discovery never runs without messaging, at any point of a start (failed
\* starts included) or of a shutdown.
THEOREM DiscoveryHasMessaging == Spec => []DiscoveryNeedsMessaging
  <1>1. IInv => DiscoveryNeedsMessaging
    BY DEF IInv, TypeOK, BootInv, RunInv, ServicesInv, DiscoveryNeedsMessaging, ServicesUp
  <1>2. QED
    BY <1>1, Invariance, PTL

\* enable(), disable() and everything between them find all services running,
\* however requests, stops and registry changes interleave.
THEOREM ModuleHasServices == Spec => []EnabledModuleHasServices
  <1>1. IInv => EnabledModuleHasServices
    BY DEF IInv, TypeOK, BootInv, RunInv, ServicesInv, ModuleInv, EnabledModuleHasServices,
       DeadLabels, EnableLabels, DisableLabels
  <1>2. QED
    BY <1>1, Invariance, PTL

\* The flag, the module, the dispatcher and the broadcast state agree between
\* two passes of the instance loop.
THEOREM LoopHeadAgrees == Spec => []AgreementAtLoopHead
  <1>1. IInv => AgreementAtLoopHead
    BY DEF IInv, TypeOK, RunInv, ServicesInv, ModuleInv, BroadcastInv, AgreementAtLoopHead,
       DeadLabels, EnableLabels, DisableLabels, At
  <1>2. QED
    BY <1>1, Invariance, PTL

\* An instance that reports isStopped() after it ran is down in every respect.
THEOREM StoppedIsDown == Spec => []StoppedMeansDown
  <1>1. IInv => StoppedMeansDown
    BY DEF IInv, TypeOK, RunInv, ServicesInv, ModuleInv, BroadcastInv, ShutdownInv,
       ShuttingDown, StartedCleared, StoppedMeansDown, DeadLabels
  <1>2. QED
    BY <1>1, Invariance, PTL

\* Once an instance that ran has declared itself Dead it stays Dead, and nothing
\* but Dead is multicast from then on.
THEOREM DeadStaysDead == Spec => DeathIsFinal
  <1> DEFINE Final == selfState = "Dead" /\ pc["instance"] # "none" =>
                        selfState' = "Dead" /\ announced' \in {announced, "Dead"}
  <1>1. IInv /\ [Next]_vars => [Final]_vars
    <2> SUFFICES ASSUME IInv, [Next]_vars, selfState = "Dead", pc["instance"] # "none"
                 PROVE  selfState' = "Dead" /\ announced' \in {announced, "Dead"}
      OBVIOUS
    <2>1. /\ pc["main"] \notin BootLabels
          /\ \/ pc["instance"] \in DeadLabels \cup {"exited"}
             \/ pc["instance"] = "multicast" /\ after = "stopDiscovery"
      BY DEF IInv, RunInv, BroadcastInv
    <2>2. CASE StartStep
      BY <2>1, <2>2 DEF StartStep, CheckUniqueAtStart, SpawnInstanceThread, SetFlag, SetService,
         Skip, StopDispatcher, JoinPoller, UpdateSelfState, Multicast, Move, At, BootLabels,
         StartLabels, broadcast
    <2>3. CASE StopStep \/ NewCall \/ \E c \in {"main", "poller"} : ContinueRequest(c)
      BY <2>3 DEF StopStep, NewCall, RequestEnable, RequestDisable, RequestStop, Call, StopInstance,
         JoinExecution, ContinueRequest, CheckEnablePending, SetFlag, Skip, broadcast
    <2>4. CASE LoopStep
      BY <2>1, <2>4 DEF LoopStep, LoopHead, ReadRequest, ReadFlag, ClearDisable, DependencyFound,
         DependencyMissing, DependenciesSatisfied, CheckUnique, Skip, SetFlag, Multicast,
         SendStateMulticast, Move, At, DeadLabels, broadcast
    <2>5. CASE EnableStep \/ DisableStep
      BY <2>1, <2>5 DEF EnableStep, DisableStep, InternalEnable, ModuleEnable, EnableFailed,
         InternalDisable, ModuleStep, SetFlag, SetService, UpdateSelfState, Move, At, DeadLabels,
         broadcast
    <2>6. CASE ShutdownStep
      BY <2>6 DEF ShutdownStep, OnInstanceStopped, DisableIfActive, StopDiscovery, JoinPoller,
         StopDispatcher, Skip, SetFlag, SetService, UpdateSelfState, broadcast
    <2>7. CASE PeriodicMulticast \/ RegistryChange \/ UNCHANGED vars
      BY <2>7 DEF PeriodicMulticast, RegistryChange, SendStateMulticast, module, broadcast, vars
    <2>8. QED
      BY <2>2, <2>3, <2>4, <2>5, <2>6, <2>7, NextCases
  <1>2. QED
    BY <1>1, Invariance, PTL DEF Spec, DeathIsFinal
=============================================================================
