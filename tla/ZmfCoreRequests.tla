-------------------------- MODULE ZmfCoreRequests --------------------------
(***************************************************************************)
(* ZmfCore with a history variable that remembers the latest request* call,*)
(* for properties about what a caller was promised.  A request the core    *)
(* ignores leaves every variable of ZmfCore unchanged, so only the history *)
(* can tell that it was made.                                              *)
(***************************************************************************)
EXTENDS ZmfCore

VARIABLE lastRequest

varsR == <<vars, lastRequest>>

InitR == Init /\ lastRequest = "none"

NextR ==
    \/ \E c \in Callers :
         \/ RequestEnable(c) /\ lastRequest' = "enable"
         \/ RequestDisable(c) /\ lastRequest' = "disable"
         \/ RequestStop(c) /\ lastRequest' = "stop"
    \/ /\ MainStep \/ ContinueRequest("poller") \/ InstanceStep
            \/ StopInstance \/ JoinExecution \/ PeriodicMulticast \/ RegistryChange
       /\ UNCHANGED lastRequest
    \/ Terminated /\ UNCHANGED lastRequest

SpecR == InitR /\ [][NextR]_varsR /\ Fairness

\* IZmfInstanceController::requestEnableModule: "Module will be enabled if all
\* preconditions are satisfied (dependencies satisfied, module id unique)".
\* When the last request is an enable, the preconditions hold for good, and the
\* started instance is never asked to stop and does not hang, the module ends up
\* active.
LastEnableIsHonoured ==
    BlockingCallsReturn
      /\ <>[](lastRequest = "enable" /\ DependenciesActive /\ IsUnique
           /\ flags.isStarted /\ ~flags.stopRequested)
        => <>[](flags.moduleActive)
=============================================================================
