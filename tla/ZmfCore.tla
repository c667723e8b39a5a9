------------------------------ MODULE ZmfCore ------------------------------
(***************************************************************************)
(* The lifecycle of one ZMF instance: zmf::core::ZmfCore together with the *)
(* ENABLED / DISABLED automaton of zmf::AbstractModule.                    *)
(*                                                                         *)
(* Three threads touch the six atomic flags of a ZmfCore:                  *)
(*   "main"      the application thread: it runs startInstance() and later *)
(*               calls the IZmfInstanceController operations;              *)
(*   "instance"  zmfInstanceThread_, which runs zmfInstanceLoop();         *)
(*   "poller"    the messaging thread, which turns the SYSTEM requests of  *)
(*               remote modules into request*() calls.                     *)
(* A step holds at most one access to state another thread writes, so the  *)
(* check-then-act sequences that the source marks "TODO Atomic compare/    *)
(* exchange" interleave as they do in the program.                         *)
(*                                                                         *)
(* The dispatcher, messaging and discovery services appear only as         *)
(* running / not running; the peer registry only as the two facts that the *)
(* core asks of it.  They have modules of their own.                       *)
(***************************************************************************)
CONSTANTS
    Dependencies,     \* types this module depends on (AbstractModule::getDependencies)
    AutoEnable,       \* possible values of the start option moduleAutoEnable
    ExitOnFail,       \* possible values of the start option exitWhenEnableFail
    EnableOutcomes,   \* what the module's enable() may return
    Callers           \* which threads make request* calls: "main", "poller"

ASSUME OptionsAssumption == AutoEnable \subseteq BOOLEAN /\ ExitOnFail \subseteq BOOLEAN
ASSUME EnableOutcomesAssumption == EnableOutcomes \subseteq BOOLEAN
ASSUME CallersAssumption == Callers \subseteq {"main", "poller"}

VARIABLES
    flags,        \* the atomic_bool members of ZmfCore
    exitOnFail,   \* exitWhenEnableFail_
    pc,           \* where each thread is
    after,        \* where the instance thread goes after a state multicast
    toCheck,      \* dependencies checkDependenciesSatisfied() has still to look up
    moduleState,  \* AbstractModule::moduleState_
    services,     \* which services run: dispatcher (alive_), messaging, discovery
    selfState,    \* PeerDiscoveryService::selfState_
    announced,    \* state in the last multicast sent, "none" before the first
    peers         \* registry content the core asks for

vars == <<flags, exitOnFail, pc, after, toCheck, moduleState, services, selfState,
          announced, peers>>

Threads == {"main", "poller", "instance"}
Flags == {"isStarted", "isStopped", "moduleActive", "stopRequested",
          "disableRequested", "enableRequested"}
Services == {"dispatcher", "messaging", "discovery"}
ModuleStates == {"Dead", "Inactive", "Active"}

RequestLabels == {"enableClear", "enableSet", "disableCheck", "disableClear",
                  "disableSet", "stopCheckEnable", "stopClearEnable", "stopSet"}
StartLabels == {"start", "startMessaging", "startDiscovery", "stopDispatcher",
                "joinPoller", "failed", "announceInactive", "multicast",
                "setAutoEnable", "checkUnique", "clearStop", "spawn", "markStarted"}
StopInstanceLabels == {"cancelEnable", "stopInstanceCheck", "stopInstanceSet", "join"}
EnableLabels == {"onEnable", "internalEnable", "moduleEnable", "setActive",
                 "announceActive", "enableFailed"}
DisableLabels == {"setInactive", "internalDisable", "moduleDisable", "onDisable",
                  "announceInactive"}
ShutdownLabels == {"onInstanceStopped", "disableIfActive", "clearStarted",
                   "announceDead", "stopDiscovery", "stopDispatcher", "joinPoller",
                   "setStopped", "exited"}
InstanceLabels == {"none", "head", "active", "clearDisable", "inactive",
                   "dependencies", "unique", "claimEnable", "multicast", "reenable"}
                  \cup EnableLabels \cup DisableLabels \cup ShutdownLabels

Labels(t) == CASE t = "main" -> StartLabels \cup StopInstanceLabels
                                \cup RequestLabels \cup {"idle"}
               [] t = "poller" -> RequestLabels \cup {"idle"}
               [] t = "instance" -> InstanceLabels

At(t, label) == pc[t] = label
Goto(t, label) == pc' = [pc EXCEPT ![t] = label]
Move(t, from, to) == At(t, from) /\ Goto(t, to)

locals == <<exitOnFail, after, toCheck>>
module == <<moduleState, services>>
broadcast == <<selfState, announced>>

\* ZmfCore::ZmfCore, PeerDiscoveryService::PeerDiscoveryService
Init ==
    /\ flags = [f \in Flags |-> f = "isStopped"]
    /\ exitOnFail \in ExitOnFail
    /\ pc = [t \in Threads |-> CASE t = "main" -> "start"
                                 [] t = "poller" -> "idle"
                                 [] OTHER -> "none"]
    /\ after = "head"
    /\ toCheck = {}
    /\ moduleState = "DISABLED"
    /\ services = [s \in Services |-> FALSE]
    /\ selfState = "Dead"
    /\ announced = "none"
    /\ peers = [activeTypes |-> {}, duplicate |-> FALSE]

(***************************************************************************)
(* Steps that only move on, or write one flag or start or stop a service.  *)
(***************************************************************************)
Skip(t, from, to) ==
    Move(t, from, to) /\ UNCHANGED <<flags, locals, module, broadcast, peers>>

SetFlag(t, from, flag, value, to) ==
    /\ Move(t, from, to)
    /\ flags' = [flags EXCEPT ![flag] = value]
    /\ UNCHANGED <<locals, module, broadcast, peers>>

SetService(t, from, service, running, to) ==
    /\ Move(t, from, to)
    /\ services' = [services EXCEPT ![service] = running]
    /\ UNCHANGED <<flags, locals, moduleState, broadcast, peers>>

\* Seeded fault: stop() ends the delivery only.
StopDispatcherKeepsMessaging(t, from) ==
    /\ Move(t, from, "joinPoller")
    /\ services' = [services EXCEPT !.dispatcher = FALSE]
    /\ UNCHANGED <<flags, locals, moduleState, broadcast, peers>>

\* ModuleEventDispatcher::stop: onDisable() has no effect on a dispatcher that
\* is not alive; the messaging service goes down and its poller is joined.
StopDispatcher(t, from) ==
    /\ Move(t, from, "joinPoller")
    /\ services' = [services EXCEPT !.dispatcher = FALSE, !.messaging = FALSE]
    /\ UNCHANGED <<flags, locals, moduleState, broadcast, peers>>

JoinPoller(t, to) == At("poller", "idle") /\ Skip(t, "joinPoller", to)

\* PeerDiscoveryService::updateSelfState.  The instance thread then sends the
\* state and continues at `next`.
UpdateSelfState(t, from, state, next) ==
    /\ Move(t, from, "multicast")
    /\ selfState' = state
    /\ after' = next
    /\ UNCHANGED <<flags, exitOnFail, toCheck, module, announced, peers>>

\* PeerDiscoveryService::sendStateMulticast: nothing is sent unless started.
SendStateMulticast ==
    announced' = IF services.discovery THEN selfState ELSE announced

Multicast(t, to) ==
    /\ Move(t, "multicast", to)
    /\ SendStateMulticast
    /\ UNCHANGED <<flags, locals, module, selfState, peers>>

\* The discovery thread repeats the current state once per period.
PeriodicMulticast ==
    /\ services.discovery
    /\ announced # selfState
    /\ SendStateMulticast
    /\ UNCHANGED <<flags, locals, pc, module, selfState, peers>>

\* Multicasts of other modules, or their timeouts, change the registry.
RegistryChange ==
    /\ services.discovery
    /\ peers' \in [activeTypes : SUBSET Dependencies, duplicate : BOOLEAN] \ {peers}
    /\ UNCHANGED <<flags, locals, pc, module, broadcast>>

DependenciesActive == Dependencies \subseteq peers.activeTypes
IsUnique == ~peers.duplicate

(***************************************************************************)
(* startInstance(), on the main thread, in program order.  The messaging   *)
(* service may find no port to bind, discovery no network interface.       *)
(***************************************************************************)
CheckUniqueAtStart ==
    SetFlag("main", "checkUnique", "stopRequested",
            flags.stopRequested \/ ~IsUnique, "clearStop")

SpawnInstanceThread ==
    /\ At("main", "spawn")
    /\ pc' = [pc EXCEPT !["main"] = "markStarted", !["instance"] = "head"]
    /\ UNCHANGED <<flags, locals, module, broadcast, peers>>

StartStep ==
    \/ ~flags.isStarted /\ SetFlag("main", "start", "isStopped", FALSE, "startMessaging")
    \/ SetService("main", "startMessaging", "messaging", TRUE, "startDiscovery")
    \/ Skip("main", "startMessaging", "failed")
    \/ SetService("main", "startDiscovery", "discovery", TRUE, "announceInactive")
    \/ Skip("main", "startDiscovery", "stopDispatcher")
    \/ StopDispatcher("main", "stopDispatcher")
    \/ JoinPoller("main", "failed")
    \/ UpdateSelfState("main", "announceInactive", "Inactive", after)
    \/ Multicast("main", "setAutoEnable")
    \/ \E autoEnable \in AutoEnable :
          SetFlag("main", "setAutoEnable", "enableRequested", autoEnable, "checkUnique")
    \/ CheckUniqueAtStart
    \/ SetFlag("main", "clearStop", "stopRequested", FALSE, "spawn")
    \/ SpawnInstanceThread
    \/ SetFlag("main", "markStarted", "isStarted", TRUE, "idle")

(***************************************************************************)
(* requestEnableModule(), requestDisableModule(), requestStopInstance(),   *)
(* by the application or, in the poller, for a remote module.              *)
(***************************************************************************)
Call(c, label) ==
    /\ c = "poller" => services.messaging
    /\ Skip(c, "idle", label)

RequestEnable(c) == Call(c, IF flags.moduleActive THEN "idle" ELSE "enableClear")
RequestDisable(c) == Call(c, IF flags.moduleActive THEN "disableClear" ELSE "disableCheck")
RequestStop(c) == Call(c, IF flags.isStarted THEN "stopClearEnable" ELSE "stopCheckEnable")

\* The second operand of `!moduleActive_ && !enableRequested_` (or isStarted_).
CheckEnablePending(c, from, accepted) ==
    Skip(c, from, IF flags.enableRequested THEN accepted ELSE "idle")

ContinueRequest(c) ==
    \/ SetFlag(c, "enableClear", "disableRequested", FALSE, "enableSet")
    \/ SetFlag(c, "enableSet", "enableRequested", TRUE, "idle")
    \/ CheckEnablePending(c, "disableCheck", "disableClear")
    \/ SetFlag(c, "disableClear", "enableRequested", FALSE, "disableSet")
    \/ SetFlag(c, "disableSet", "disableRequested", TRUE, "idle")
    \/ CheckEnablePending(c, "stopCheckEnable", "stopClearEnable")
    \/ SetFlag(c, "stopClearEnable", "enableRequested", FALSE, "stopSet")
    \/ SetFlag(c, "stopSet", "stopRequested", TRUE, "idle")

(***************************************************************************)
(* stopInstance() and joinExecution(), on the main thread.                 *)
(***************************************************************************)
StopInstance ==
    Skip("main", "idle", IF flags.isStarted THEN "stopInstanceCheck" ELSE "cancelEnable")

JoinExecution == Skip("main", "idle", "join")

StopStep ==
    \/ SetFlag("main", "cancelEnable", "enableRequested", FALSE,
               IF flags.enableRequested THEN "idle" ELSE "stopInstanceCheck")
    \/ Skip("main", "stopInstanceCheck",
            IF flags.isStarted THEN "stopInstanceSet" ELSE "idle")
    \/ SetFlag("main", "stopInstanceSet", "stopRequested", TRUE, "join")
    \/ At("instance", "exited") /\ Skip("main", "join", "idle")

(***************************************************************************)
(* zmfInstanceLoop(): one pass reads the requests, then the registry.      *)
(***************************************************************************)
LoopHead ==
    Skip("instance", "head",
         IF flags.stopRequested THEN "onInstanceStopped"
         ELSE IF flags.moduleActive THEN "active" ELSE "inactive")

ReadFlag(from, to) ==
    /\ Move("instance", from, to)
    /\ toCheck' = Dependencies
    /\ UNCHANGED <<flags, exitOnFail, after, module, broadcast, peers>>

\* Seeded fault: an enable waits for a disable request nobody will clear.
ReadRequestDisableFirst ==
    \/ ReadFlag("active", IF flags.disableRequested THEN "clearDisable" ELSE "dependencies")
    \/ ReadFlag("inactive", IF flags.enableRequested /\ ~flags.disableRequested
                            THEN "dependencies" ELSE "head")

ReadRequest ==
    \/ ReadFlag("active", IF flags.disableRequested THEN "clearDisable" ELSE "dependencies")
    \/ ReadFlag("inactive", IF flags.enableRequested THEN "dependencies" ELSE "head")

\* Seeded fault: the request is cleared but not carried out.
ClearDisableOnly == SetFlag("instance", "clearDisable", "disableRequested", FALSE, "head")

ClearDisable ==
    /\ Move("instance", "clearDisable", "setInactive")
    /\ flags' = [flags EXCEPT !.disableRequested = FALSE]
    /\ after' = "head"
    /\ UNCHANGED <<exitOnFail, toCheck, module, broadcast, peers>>

\* checkDependenciesSatisfied(): one registry lookup per dependency; the
\* version a dependency asks for is not looked at.
DependencyFound ==
    /\ At("instance", "dependencies")
    /\ \E d \in toCheck \cap peers.activeTypes : toCheck' = toCheck \ {d}
    /\ UNCHANGED <<flags, exitOnFail, pc, after, module, broadcast, peers>>

\* Seeded fault: dependencies are looked at before enabling only.
DependencyMissingWhenInactive ==
    /\ toCheck \ peers.activeTypes # {}
    /\ Skip("instance", "dependencies", IF flags.moduleActive THEN "unique" ELSE "head")

DependencyMissing ==
    /\ toCheck \ peers.activeTypes # {}
    /\ Move("instance", "dependencies", IF flags.moduleActive THEN "setInactive" ELSE "head")
    /\ after' = IF flags.moduleActive THEN "reenable" ELSE after
    /\ UNCHANGED <<flags, exitOnFail, toCheck, module, broadcast, peers>>

DependenciesSatisfied == toCheck = {} /\ Skip("instance", "dependencies", "unique")

\* Seeded fault: uniqueness is looked at before enabling only.
CheckUniqueWhenInactive ==
    Skip("instance", "unique", IF IsUnique /\ ~flags.moduleActive THEN "claimEnable" ELSE "head")

CheckUnique ==
    SetFlag("instance", "unique", "stopRequested",
            flags.stopRequested \/ (flags.moduleActive /\ ~IsUnique),
            IF IsUnique /\ ~flags.moduleActive THEN "claimEnable" ELSE "head")

(***************************************************************************)
(* enableModule(), disableModule(), and the compare-and-swap automaton of  *)
(* AbstractModule::INTERNAL_internalEnable() and INTERNAL_internalDisable.*)
(***************************************************************************)
ModuleStep(from, state, to) ==
    /\ Move("instance", from, to)
    /\ moduleState' = state
    /\ UNCHANGED <<flags, locals, services, broadcast, peers>>

InternalEnable ==
    IF moduleState = "DISABLED" THEN ModuleStep("internalEnable", "ENABLING", "moduleEnable")
                                ELSE ModuleStep("internalEnable", moduleState, "setActive")

\* The module's own enable() returns.
ModuleEnable ==
    \E success \in EnableOutcomes :
       IF success THEN ModuleStep("moduleEnable", "ENABLED", "setActive")
                  ELSE ModuleStep("moduleEnable", "DISABLED", "enableFailed")

\* Seeded fault: the delivery thread outlives a failed enable.
EnableFailedKeepsDispatcher ==
    SetFlag("instance", "enableFailed", "stopRequested",
            flags.stopRequested \/ exitOnFail, "head")

\* enableModule() stops the dispatcher again; the loop may ask for a stop.
EnableFailed ==
    /\ Move("instance", "enableFailed", "head")
    /\ services' = [services EXCEPT !.dispatcher = FALSE]
    /\ flags' = [flags EXCEPT !.stopRequested = @ \/ exitOnFail]
    /\ UNCHANGED <<locals, moduleState, broadcast, peers>>

InternalDisable ==
    IF moduleState = "ENABLED" THEN ModuleStep("internalDisable", "DISABLING", "moduleDisable")
                               ELSE ModuleStep("internalDisable", moduleState, "onDisable")

EnableStep ==
    \/ SetFlag("instance", "claimEnable", "enableRequested", FALSE, "onEnable")
    \/ SetService("instance", "onEnable", "dispatcher", TRUE, "internalEnable")
    \/ InternalEnable \/ ModuleEnable \/ EnableFailed
    \/ SetFlag("instance", "setActive", "moduleActive", TRUE, "announceActive")
    \/ UpdateSelfState("instance", "announceActive", "Active", "head")

DisableStep ==
    \/ SetFlag("instance", "setInactive", "moduleActive", FALSE, "internalDisable")
    \/ InternalDisable
    \/ ModuleStep("moduleDisable", "DISABLED", "onDisable")
    \/ SetService("instance", "onDisable", "dispatcher", FALSE, "announceInactive")
    \/ UpdateSelfState("instance", "announceInactive", "Inactive", after)
    \/ SetFlag("instance", "reenable", "enableRequested", TRUE, "head")

(***************************************************************************)
(* onInstanceStopped().                                                    *)
(***************************************************************************)
\* Seeded fault: the instance declares itself dead before it disables the module.
OnInstanceStoppedDeadFirst ==
    /\ Move("instance", "onInstanceStopped",
            IF flags.isStarted THEN "disableIfActive" ELSE "exited")
    /\ selfState' = IF flags.isStarted THEN "Dead" ELSE selfState
    /\ UNCHANGED <<flags, locals, module, announced, peers>>

OnInstanceStopped ==
    Skip("instance", "onInstanceStopped",
         IF flags.isStarted THEN "disableIfActive" ELSE "exited")

\* Seeded fault: the services are stopped under an active module.
DisableIfActiveSkipped == Skip("instance", "disableIfActive", "clearStarted")

\* Seeded fault: the disable at shutdown ends the thread.
DisableIfActiveThenExit ==
    /\ Move("instance", "disableIfActive",
            IF flags.moduleActive THEN "setInactive" ELSE "clearStarted")
    /\ after' = "exited"
    /\ UNCHANGED <<flags, exitOnFail, toCheck, module, broadcast, peers>>

DisableIfActive ==
    /\ Move("instance", "disableIfActive",
            IF flags.moduleActive THEN "setInactive" ELSE "clearStarted")
    /\ after' = "clearStarted"
    /\ UNCHANGED <<flags, exitOnFail, toCheck, module, broadcast, peers>>

\* Seeded fault: messaging goes first, under the running discovery thread.
StopDiscoveryAfterMessaging ==
    SetService("instance", "stopDiscovery", "messaging", FALSE, "stopDispatcher")

StopDiscovery ==
    SetService("instance", "stopDiscovery", "discovery", FALSE, "stopDispatcher")

ShutdownStep ==
    \/ OnInstanceStopped \/ DisableIfActive
    \/ SetFlag("instance", "clearStarted", "isStarted", FALSE, "announceDead")
    \/ UpdateSelfState("instance", "announceDead", "Dead", "stopDiscovery")
    \/ StopDiscovery
    \/ StopDispatcher("instance", "stopDispatcher")
    \/ JoinPoller("instance", "setStopped")
    \/ SetFlag("instance", "setStopped", "isStopped", TRUE, "exited")

InstanceStep ==
    \/ LoopHead \/ ReadRequest \/ ClearDisable
    \/ DependencyFound \/ DependencyMissing \/ DependenciesSatisfied \/ CheckUnique
    \/ EnableStep \/ DisableStep \/ ShutdownStep
    \/ Multicast("instance", after)

(***************************************************************************)
(* The specification.                                                      *)
(***************************************************************************)
MainStep == StartStep \/ StopStep \/ ContinueRequest("main")

NewCall ==
    \/ \E c \in Callers : RequestEnable(c) \/ RequestDisable(c) \/ RequestStop(c)
    \/ StopInstance \/ JoinExecution

\* The start failed, or the instance thread is gone: nothing is left to run.
Terminated ==
    /\ At("main", "failed") \/ At("instance", "exited")
    /\ UNCHANGED vars

Next ==
    \/ MainStep \/ ContinueRequest("poller") \/ InstanceStep
    \/ NewCall \/ PeriodicMulticast \/ RegistryChange \/ Terminated

\* The instance thread waits for another thread of the services: for the module
\* mutex, for the end of the delivery thread, in stop() of the messaging service.
\* It may wait for ever (ModuleEventDispatcher!Hung, phase "blocked" of Messaging).
InBlockingCall == pc["instance"] \in
    {"internalEnable", "moduleEnable", "enableFailed", "internalDisable",
     "moduleDisable", "onDisable", "stopDispatcher", "joinPoller"}

\* Every thread that is inside a call keeps running, unless the call blocks;
\* nobody has to make a call.
Fairness ==
    /\ WF_vars(MainStep)
    /\ WF_vars(ContinueRequest("poller"))
    /\ WF_vars(~InBlockingCall /\ InstanceStep)

Spec == Init /\ [][Next]_vars /\ Fairness

(***************************************************************************)
(* Invariants.                                                             *)
(***************************************************************************)
\* Every variable has its type: the thread positions, flags and states are
\* among those the program can have.
TypeOK ==
    /\ flags \in [Flags -> BOOLEAN]
    /\ exitOnFail \in BOOLEAN
    /\ pc \in [Threads -> UNION {Labels(t) : t \in Threads}]
    /\ \A t \in Threads : pc[t] \in Labels(t)
    /\ after \in {"head", "reenable", "clearStarted", "stopDiscovery"}
    /\ toCheck \subseteq Dependencies
    /\ moduleState \in {"DISABLED", "ENABLING", "ENABLED", "DISABLING"}
    /\ services \in [Services -> BOOLEAN]
    /\ selfState \in ModuleStates
    /\ announced \in ModuleStates \cup {"none"}
    /\ peers \in [activeTypes : SUBSET Dependencies, duplicate : BOOLEAN]

\* A start that failed leaves nothing behind: no service runs, no thread of one is
\* inside the core, and the instance thread was never made.
FailedStartIsClean ==
    At("main", "failed") =>
        /\ ~services.dispatcher /\ ~services.messaging /\ ~services.discovery
        /\ At("poller", "idle") /\ At("instance", "none")
        /\ announced = "none"

\* Whenever the discovery thread runs, the messaging service is alive: its
\* callbacks reach peerJoin()/peerLeave(), which throw when it is not, and an
\* exception out of updatePeerTimeouts() would end the process.
DiscoveryNeedsMessaging == services.discovery => services.messaging

\* A module that is enabled, or is inside enable() or disable(), has all three
\* services: there it may subscribe, publish and send requests, all of which
\* throw on a dispatcher that is not alive.
EnabledModuleHasServices ==
    moduleState # "DISABLED" =>
        services.dispatcher /\ services.messaging /\ services.discovery

\* Between two passes of the instance loop the five records of "the module is
\* active" agree: the core's flag, the module's own state, the delivery thread,
\* the state discovery holds and the state the other modules were last told.
AgreementAtLoopHead ==
    At("instance", "head") =>
        /\ flags.moduleActive <=> moduleState = "ENABLED"
        /\ flags.moduleActive <=> services.dispatcher
        /\ selfState = IF flags.moduleActive THEN "Active" ELSE "Inactive"
        /\ announced = selfState

\* When a started instance reports isStopped(), its module is disabled, no
\* service runs and the last thing its peers heard of it is Dead.
StoppedMeansDown ==
    flags.isStopped /\ pc["instance"] # "none" =>
        /\ ~flags.isStarted
        /\ moduleState = "DISABLED"
        /\ ~services.dispatcher /\ ~services.messaging /\ ~services.discovery
        /\ announced = "Dead"

(***************************************************************************)
(* Action and liveness properties.                                         *)
(***************************************************************************)
\* The instance thread left before startInstance() set isStarted_: it skipped
\* the shutdown, and the services (perhaps the module too) run on without it.
\* AcceptedStopIsHonoured below shows how that comes about; the properties
\* before it speak of the instances that escape it.
Orphaned == At("instance", "exited") /\ ~flags.isStopped

\* Once an instance that ran has declared itself Dead, no later step changes
\* the state it broadcasts or multicasts another one: a peer that removed it
\* must not see it come back.
DeathIsFinal ==
    [][selfState = "Dead" /\ pc["instance"] # "none" =>
         selfState' = "Dead" /\ announced' \in {announced, "Dead"}]_vars

\* The instance thread does not hang in the dispatcher or the messaging service.
BlockingCallsReturn == []<>~InBlockingCall

\* A stop requested after the start has finished is carried through: the
\* instance ends up stopped, with its services down, unless its thread hangs in
\* a blocking call (of the disable at the stop, or one it was in).
StopCompletes ==
    BlockingCallsReturn =>
        (flags.stopRequested /\ flags.isStarted /\ pc["instance"] # "exited"
            ~> flags.isStopped)

\* A disable request that is pending while the module is active is served,
\* unless an enable request made before the module became active is still under
\* way.  Like the two properties after it, this one holds even if the thread
\* hangs: moduleActive_ is cleared before, and set after, all that may block.
DisableIsServed ==
    flags.disableRequested /\ flags.moduleActive
      /\ (\A c \in Callers : ~At(c, "enableClear"))
        ~> ~flags.moduleActive \/ Orphaned

\* A module that lost a dependency for good does not stay active, nor is it
\* enabled again and again, whatever the other dependencies do.
LostDependencyDisables ==
    \A d \in Dependencies :
        <>[](d \notin peers.activeTypes) => <>[](~flags.moduleActive \/ Orphaned)

\* A module that shares its id with another for good does not stay active.
DuplicateDisables ==
    <>[](~IsUnique) => <>[](~flags.moduleActive \/ Orphaned)

\* With dependencies active and the id unique for good, a pending enable
\* request is taken up, unless the instance stops or never started, or its
\* thread hangs in a blocking call of an earlier enable or disable.
EnableIsTakenUp ==
    BlockingCallsReturn /\ <>[](DependenciesActive /\ IsUnique) =>
        (flags.enableRequested ~>
            ~flags.enableRequested \/ flags.moduleActive \/ flags.stopRequested
              \/ At("main", "failed"))

(***************************************************************************)
(* What the interface documentation says, and the code does not do.        *)
(***************************************************************************)
\* IZmfInstanceController::requestStopInstance "Requests to stop the instance
\* as soon as possible": a stop request that was accepted stops the instance, if
\* its thread does not hang.
AcceptedStopIsHonoured ==
    BlockingCallsReturn =>
        \A c \in Callers : At(c, "stopSet") ~> (flags.isStopped \/ At("main", "failed"))
=============================================================================
