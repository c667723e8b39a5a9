----------------------- MODULE ModuleEventDispatcher -----------------------
(***************************************************************************)
(* zmf::core::ModuleEventDispatcher: how messages and peer changes reach   *)
(* the callbacks of a module, while that module is enabled and disabled.   *)
(*                                                                         *)
(* Four threads:                                                           *)
(*   "poller"     the messaging thread, onSubMsgReceived() and             *)
(*                onRequestMsgReceived();                                  *)
(*   "discovery"  the peer discovery thread, onPeerChange();               *)
(*   "instance"   ZmfCore's thread, enableModule() and disableModule();    *)
(*   "delivery"   thread_, deliveryLoop(), alive between onEnable() and    *)
(*                onDisable().                                             *)
(*                                                                         *)
(* A producer puts a notification in the queue of its kind and then a meta *)
(* notification, which only names the kind, in metaQueue_.  The delivery   *)
(* thread takes a meta notification and then one of the kind it names.     *)
(* Notifications are numbered per kind in the order they are received;     *)
(* their contents matter only for which subscriptions match an event, and  *)
(* that is left open.                                                      *)
(*                                                                         *)
(* System requests go to ZmfCore without touching a queue, peerJoin() and  *)
(* peerLeave() to the messaging service: neither is modelled here.         *)
(***************************************************************************)
EXTENDS Naturals, Sequences, FiniteSets

CONSTANTS
    Topics,         \* topics the module subscribes to
    BufferSize,     \* ZMF_INMSG_BUFFER_SIZE, 0 for no limit
    HandlersMay,    \* what callbacks do besides returning: "throw", "subscribe"
    MaxReceived,    \* bound: notifications received, per kind
    MaxEnables      \* bound: how often the module is enabled

Kinds == {"event", "request", "state"}
Threads == {"poller", "discovery", "instance", "delivery"}

ASSUME BufferSizeAssumption == BufferSize \in Nat
ASSUME HandlersAssumption == HandlersMay \subseteq {"throw", "subscribe"}
ASSUME BoundsAssumption == MaxReceived \in [Kinds -> Nat] /\ MaxEnables \in Nat

VARIABLES
    alive,          \* alive_
    pc,             \* where each thread is
    metaQueue,      \* metaQueue_: kinds
    queues,         \* eventQueue_, requestQueue_, stateQueue_: numbers
    source,         \* the queue the delivery thread takes from: "meta" or a kind
    current,        \* the notification the delivery thread delivers
    toCall,         \* matching subscriptions deliverEvent() has still to call
    subscriptions,  \* moduleSubscriptionHandlers_, by topic
    subMutex,       \* owner of moduleSubHandlerMutex_
    moduleMutex,    \* owner of AbstractModule::internalMutex
    moduleState,    \* AbstractModule::moduleState_
    received,       \* notifications received so far, per kind
    enables         \* calls of onEnable() so far

vars == <<alive, pc, metaQueue, queues, source, current, toCall, subscriptions,
          subMutex, moduleMutex, moduleState, received, enables>>

Owners == {"none", "instance", "delivery"}
ModuleStates == {"DISABLED", "ENABLING", "ENABLED", "DISABLING"}

Labels(t) ==
    CASE t = "poller" -> {"idle", "checkSize", "eventData", "eventMeta",
                          "requestData", "requestMeta"}
      [] t = "discovery" -> {"idle", "stateData", "stateMeta"}
      [] t = "instance" -> {"disabled", "lockEnable", "enable", "subscribe", "enabled",
                            "lockDisable", "disable", "unsubscribe", "onDisable", "wakeUp",
                            "join", "clearMeta", "clearEvents", "clearStates",
                            "clearRequests", "clearSubscriptions"}
      [] t = "delivery" -> {"none", "loop", "take", "blocked", "lock", "nextSubscription",
                            "callback", "subscribe"}

At(t, label) == pc[t] = label
Goto(t, label) == pc' = [pc EXCEPT ![t] = label]
Move(t, from, to) == At(t, from) /\ Goto(t, to)

mutexes == <<subMutex, moduleMutex>>
delivering == <<source, current, toCall>>
module == <<subscriptions, moduleState>>
bounds == <<received, enables>>

Init ==
    /\ alive = FALSE
    /\ pc = [t \in Threads |-> CASE t = "instance" -> "disabled"
                                 [] t = "delivery" -> "none"
                                 [] OTHER -> "idle"]
    /\ metaQueue = <<>>
    /\ queues = [k \in Kinds |-> <<>>]
    /\ source = "meta" /\ current = 0 /\ toCall = {}
    /\ subscriptions = {}
    /\ subMutex = "none" /\ moduleMutex = "none"
    /\ moduleState = "DISABLED"
    /\ received = [k \in Kinds |-> 0]
    /\ enables = 0

(***************************************************************************)
(* The producers.  Poco::NotificationQueue hands a notification straight   *)
(* to a thread that waits on the queue.                                    *)
(***************************************************************************)
BlockedOn(queue) == At("delivery", "blocked") /\ source = queue

\* The number of a notification is the count of those received with it.
Receive(t, kind, to) ==
    /\ At(t, "idle") /\ received[kind] < MaxReceived[kind]
    /\ received' = [received EXCEPT ![kind] = @ + 1]
    /\ Goto(t, to)
    /\ UNCHANGED <<alive, metaQueue, queues, delivering, module, mutexes, enables>>

Enqueue(t, kind, from, to) ==
    /\ At(t, from)
    /\ IF BlockedOn(kind)
       THEN /\ pc' = [pc EXCEPT ![t] = to, !["delivery"] = "lock"]
            /\ current' = received[kind]
            /\ UNCHANGED queues
       ELSE /\ Goto(t, to)
            /\ queues' = [queues EXCEPT ![kind] = Append(@, received[kind])]
            /\ UNCHANGED current
    /\ UNCHANGED <<alive, metaQueue, source, toCall, module, mutexes, bounds>>

\* enqueueUrgentNotification() puts the meta notification at the front.
EnqueueMeta(t, kind, urgent, from) ==
    /\ At(t, from)
    /\ IF BlockedOn("meta")
       THEN /\ pc' = [pc EXCEPT ![t] = "idle", !["delivery"] = "take"]
            /\ source' = kind
            /\ UNCHANGED metaQueue
       ELSE /\ Goto(t, "idle")
            /\ metaQueue' = IF urgent THEN <<kind>> \o metaQueue
                                      ELSE Append(metaQueue, kind)
            /\ UNCHANGED source
    /\ UNCHANGED <<alive, queues, current, toCall, module, mutexes, bounds>>

ReceiveEvent == Receive("poller", "event", IF alive THEN "checkSize" ELSE "idle")

\* Seeded fault: the limit is off by one.
CheckQueueSizeAfter ==
    /\ Move("poller", "checkSize",
            IF BufferSize > 0 /\ Len(queues["event"]) > BufferSize THEN "idle" ELSE "eventData")
    /\ UNCHANGED <<alive, metaQueue, queues, delivering, module, mutexes, bounds>>

CheckQueueSize ==
    /\ Move("poller", "checkSize",
            IF BufferSize > 0 /\ Len(queues["event"]) >= BufferSize THEN "idle" ELSE "eventData")
    /\ UNCHANGED <<alive, metaQueue, queues, delivering, module, mutexes, bounds>>

OnSubMsgReceived ==
    \/ ReceiveEvent \/ CheckQueueSize
    \/ Enqueue("poller", "event", "eventData", "eventMeta")
    \/ EnqueueMeta("poller", "event", FALSE, "eventMeta")

\* Seeded fault: the request itself is put at the front, too.
OnRequestMsgReceivedUrgent ==
    \/ Receive("poller", "request", IF alive THEN "requestData" ELSE "idle")
    \/ /\ Move("poller", "requestData", "requestMeta") /\ ~BlockedOn("request")
       /\ queues' = [queues EXCEPT !["request"] = <<received["request"]>> \o @]
       /\ UNCHANGED <<alive, metaQueue, delivering, module, mutexes, bounds>>
    \/ EnqueueMeta("poller", "request", TRUE, "requestMeta")

\* Seeded fault: one meta notification for requests is thought to be enough.
OnRequestMsgReceivedMetaOnce ==
    \/ Receive("poller", "request", IF alive THEN "requestData" ELSE "idle")
    \/ Enqueue("poller", "request", "requestData",
               IF \E i \in 1..Len(metaQueue) : metaQueue[i] = "request"
               THEN "idle" ELSE "requestMeta")
    \/ EnqueueMeta("poller", "request", TRUE, "requestMeta")

OnRequestMsgReceived ==
    \/ Receive("poller", "request", IF alive THEN "requestData" ELSE "idle")
    \/ Enqueue("poller", "request", "requestData", "requestMeta")
    \/ EnqueueMeta("poller", "request", TRUE, "requestMeta")

\* Peer changes are queued whether or not the module is enabled.
OnPeerChange ==
    \/ Receive("discovery", "state", "stateData")
    \/ Enqueue("discovery", "state", "stateData", "stateMeta")
    \/ EnqueueMeta("discovery", "state", TRUE, "stateMeta")

(***************************************************************************)
(* The delivery thread.                                                    *)
(***************************************************************************)
Loop ==
    /\ At("delivery", "loop")
    /\ IF alive THEN Goto("delivery", "take") /\ source' = "meta"
                ELSE Goto("delivery", "none") /\ UNCHANGED source
    /\ UNCHANGED <<alive, metaQueue, queues, current, toCall, module, mutexes, bounds>>

TakeMeta ==
    /\ At("delivery", "take") /\ source = "meta" /\ metaQueue # <<>>
    /\ source' = Head(metaQueue)
    /\ metaQueue' = Tail(metaQueue)
    /\ UNCHANGED <<alive, pc, queues, current, toCall, module, mutexes, bounds>>

TakeData ==
    /\ source \in Kinds /\ queues[source] # <<>>
    /\ Move("delivery", "take", "lock")
    /\ current' = Head(queues[source])
    /\ queues' = [queues EXCEPT ![source] = Tail(@)]
    /\ UNCHANGED <<alive, metaQueue, source, toCall, module, mutexes, bounds>>

Block ==
    /\ Move("delivery", "take", "blocked")
    /\ IF source = "meta" THEN metaQueue = <<>> ELSE queues[source] = <<>>
    /\ UNCHANGED <<alive, metaQueue, queues, delivering, module, mutexes, bounds>>

\* deliverEvent(): the subscription mutex is held over all callbacks, the module
\* mutex over each; a module that is not enabled is not called.
LockSubscriptions ==
    /\ source = "event" /\ subMutex = "none"
    /\ Move("delivery", "lock", "nextSubscription")
    /\ subMutex' = "delivery"
    /\ toCall' \in SUBSET subscriptions
    /\ UNCHANGED <<alive, metaQueue, queues, source, current, module, moduleMutex, bounds>>

\* Seeded fault: the module is called without its mutex.
CallSubscriptionUnlocked ==
    /\ At("delivery", "nextSubscription")
    /\ \E topic \in toCall :
          IF moduleState = "ENABLED"
          THEN Goto("delivery", "callback") /\ UNCHANGED toCall
          ELSE toCall' = toCall \ {topic} /\ UNCHANGED pc
    /\ UNCHANGED <<alive, metaQueue, queues, source, current, module, mutexes, bounds>>

CallSubscription ==
    /\ At("delivery", "nextSubscription") /\ moduleMutex = "none"
    /\ \E topic \in toCall :
          IF moduleState = "ENABLED"
          THEN Goto("delivery", "callback") /\ moduleMutex' = "delivery" /\ UNCHANGED toCall
          ELSE toCall' = toCall \ {topic} /\ UNCHANGED <<pc, moduleMutex>>
    /\ UNCHANGED <<alive, metaQueue, queues, source, current, module, subMutex, bounds>>

EventHandled ==
    /\ source = "event"
    /\ Move("delivery", "callback", "nextSubscription")
    /\ moduleMutex' = "none"
    /\ \E topic \in toCall : toCall' = toCall \ {topic}
    /\ UNCHANGED <<alive, metaQueue, queues, source, current, module, subMutex, bounds>>

\* Seeded fault: the subscription mutex is not unlocked.
UnlockSubscriptionsMissing ==
    /\ toCall = {}
    /\ Move("delivery", "nextSubscription", "loop")
    /\ UNCHANGED <<alive, metaQueue, queues, delivering, module, mutexes, bounds>>

UnlockSubscriptions ==
    /\ toCall = {}
    /\ Move("delivery", "nextSubscription", "loop")
    /\ subMutex' = "none"
    /\ UNCHANGED <<alive, metaQueue, queues, delivering, module, moduleMutex, bounds>>

DeliverEvent ==
    LockSubscriptions \/ CallSubscription \/ EventHandled \/ UnlockSubscriptions

\* deliverRequest() does not unlock the mutex of a module that is not enabled.
LockForRequest ==
    /\ source = "request" /\ moduleMutex = "none"
    /\ Move("delivery", "lock", IF moduleState = "ENABLED" THEN "callback" ELSE "loop")
    /\ moduleMutex' = "delivery"
    /\ UNCHANGED <<alive, metaQueue, queues, delivering, module, subMutex, bounds>>

\* Seeded fault: an exception ends the delivery thread.
RequestEndsThread ==
    /\ source = "request"
    /\ Move("delivery", "callback", "none")
    /\ moduleMutex' = "none"
    /\ UNCHANGED <<alive, metaQueue, queues, delivering, module, subMutex, bounds>>

\* The reply goes to the messaging service after the mutex is released.
RequestHandled ==
    /\ source = "request"
    /\ Move("delivery", "callback", "loop")
    /\ moduleMutex' = "none"
    /\ UNCHANGED <<alive, metaQueue, queues, delivering, module, subMutex, bounds>>

DeliverRequest == LockForRequest \/ RequestHandled

LockForState ==
    /\ source = "state" /\ moduleMutex = "none"
    /\ IF moduleState = "ENABLED"
       THEN Move("delivery", "lock", "callback") /\ moduleMutex' = "delivery"
       ELSE Move("delivery", "lock", "loop") /\ UNCHANGED moduleMutex
    /\ UNCHANGED <<alive, metaQueue, queues, delivering, module, subMutex, bounds>>

\* deliverState() does not unlock when the handler throws.
StateHandled ==
    /\ source = "state"
    /\ Move("delivery", "callback", "loop")
    /\ \/ moduleMutex' = "none"
       \/ "throw" \in HandlersMay /\ UNCHANGED moduleMutex
    /\ UNCHANGED <<alive, metaQueue, queues, delivering, module, subMutex, bounds>>

DeliverState == LockForState \/ StateHandled

Skip(t, from, to) ==
    /\ Move(t, from, to)
    /\ UNCHANGED <<alive, metaQueue, queues, delivering, module, mutexes, bounds>>

\* subscribe(), from a callback or from enable(), on a topic that is new.
BeginSubscribe(t, from) == subscriptions # Topics /\ Skip(t, from, "subscribe")

\* Seeded fault: subscribe() leaves the mutex locked.
SubscribeKeepsMutex(t, to) ==
    /\ subMutex = "none"
    /\ Move(t, "subscribe", to)
    /\ subMutex' = t
    /\ \E topic \in Topics \ subscriptions : subscriptions' = subscriptions \cup {topic}
    /\ UNCHANGED <<alive, metaQueue, queues, delivering, moduleState, moduleMutex, bounds>>

Subscribe(t, to) ==
    /\ subMutex = "none"
    /\ Move(t, "subscribe", to)
    /\ \E topic \in Topics \ subscriptions : subscriptions' = subscriptions \cup {topic}
    /\ UNCHANGED <<alive, metaQueue, queues, delivering, moduleState, mutexes, bounds>>

CallbackSubscribes ==
    \/ "subscribe" \in HandlersMay /\ BeginSubscribe("delivery", "callback")
    \/ Subscribe("delivery", "callback")

DeliveryStep ==
    \/ Loop \/ TakeMeta \/ TakeData \/ Block
    \/ DeliverEvent \/ DeliverRequest \/ DeliverState \/ CallbackSubscribes

(***************************************************************************)
(* The instance thread: ZmfCore::enableModule(), from onEnable() on.       *)
(***************************************************************************)
OnEnable ==
    /\ enables < MaxEnables
    /\ At("instance", "disabled") /\ ~alive
    /\ alive' = TRUE
    /\ pc' = [pc EXCEPT !["instance"] = "lockEnable", !["delivery"] = "loop"]
    /\ enables' = enables + 1
    /\ UNCHANGED <<metaQueue, queues, delivering, module, mutexes, received>>

\* The core takes the module mutex for INTERNAL_internalEnable() and -Disable().
LockModule(from, state, to) ==
    /\ moduleMutex = "none"
    /\ Move("instance", from, to)
    /\ moduleMutex' = "instance"
    /\ moduleState' = state
    /\ UNCHANGED <<alive, metaQueue, queues, delivering, subscriptions, subMutex, bounds>>

UnlockModule(from, state, to) ==
    /\ Move("instance", from, to)
    /\ moduleMutex' = "none"
    /\ moduleState' = state
    /\ UNCHANGED <<alive, metaQueue, queues, delivering, subscriptions, subMutex, bounds>>

\* The module's enable() subscribes and then succeeds or fails.
EnableModule ==
    \/ LockModule("lockEnable", "ENABLING", "enable")
    \/ BeginSubscribe("instance", "enable") \/ Subscribe("instance", "enable")
    \/ UnlockModule("enable", "ENABLED", "enabled")
    \/ UnlockModule("enable", "DISABLED", "onDisable")

(***************************************************************************)
(* ZmfCore::disableModule(), up to the end of onDisable().                 *)
(***************************************************************************)
Unsubscribe ==
    /\ subMutex = "none"
    /\ Move("instance", "unsubscribe", "disable")
    /\ \E topic \in subscriptions : subscriptions' = subscriptions \ {topic}
    /\ UNCHANGED <<alive, metaQueue, queues, delivering, moduleState, mutexes, bounds>>

ClearAlive ==
    /\ Move("instance", "onDisable", "wakeUp")
    /\ alive' = FALSE
    /\ UNCHANGED <<metaQueue, queues, delivering, module, mutexes, bounds>>

\* wakeUpAll() releases a thread that already waits, with no notification.
WakeUpAll ==
    /\ At("instance", "wakeUp")
    /\ pc' = IF BlockedOn("meta")
             THEN [pc EXCEPT !["instance"] = "join", !["delivery"] = "loop"]
             ELSE [pc EXCEPT !["instance"] = "join"]
    /\ UNCHANGED <<alive, metaQueue, queues, delivering, module, mutexes, bounds>>

\* Seeded fault: the thread is detached, not joined.
DetachDelivery == Skip("instance", "join", "clearMeta")

JoinDelivery == At("delivery", "none") /\ Skip("instance", "join", "clearMeta")

ClearMeta ==
    /\ Move("instance", "clearMeta", "clearEvents")
    /\ metaQueue' = <<>>
    /\ UNCHANGED <<alive, queues, delivering, module, mutexes, bounds>>

ClearQueue(kind, from, to) ==
    /\ Move("instance", from, to)
    /\ queues' = [queues EXCEPT ![kind] = <<>>]
    /\ UNCHANGED <<alive, metaQueue, delivering, module, mutexes, bounds>>

ClearSubscriptions ==
    /\ subMutex = "none"
    /\ Move("instance", "clearSubscriptions", "disabled")
    /\ subscriptions' = {}
    /\ UNCHANGED <<alive, metaQueue, queues, delivering, moduleState, mutexes, bounds>>

OnDisable ==
    \/ ClearAlive \/ WakeUpAll \/ JoinDelivery \/ ClearMeta
    \/ ClearQueue("event", "clearEvents", "clearStates")
    \/ ClearQueue("state", "clearStates", "clearRequests")
    \/ ClearQueue("request", "clearRequests", "clearSubscriptions")
    \/ ClearSubscriptions

DisableModule ==
    \/ LockModule("lockDisable", "DISABLING", "disable")
    \/ subscriptions # {} /\ Skip("instance", "disable", "unsubscribe")
    \/ Unsubscribe
    \/ UnlockModule("disable", "DISABLED", "onDisable")
    \/ OnDisable

(***************************************************************************)
(* The specification.                                                      *)
(***************************************************************************)
RequestDisable == Skip("instance", "enabled", "lockDisable")

InstanceStep == EnableModule \/ DisableModule

\* The instance thread is outside the dispatcher.
Quiet == At("instance", "enabled") \/ At("instance", "disabled")

Next ==
    \/ OnSubMsgReceived \/ OnRequestMsgReceived \/ OnPeerChange
    \/ DeliveryStep \/ InstanceStep \/ OnEnable \/ RequestDisable

\* Every thread inside a call keeps running; callbacks return; a message need
\* not come and an enabled module need not be disabled.
Fairness ==
    /\ WF_vars(DeliveryStep)
    /\ WF_vars(InstanceStep)
    /\ WF_vars(~At("poller", "idle") /\ (OnSubMsgReceived \/ OnRequestMsgReceived))
    /\ WF_vars(~At("discovery", "idle") /\ OnPeerChange)

Spec == Init /\ [][Next]_vars /\ Fairness

(***************************************************************************)
(* Invariants.                                                             *)
(***************************************************************************)
\* Every variable has its type.
TypeOK ==
    /\ alive \in BOOLEAN
    /\ pc \in [Threads -> UNION {Labels(t) : t \in Threads}]
    /\ \A t \in Threads : pc[t] \in Labels(t)
    /\ metaQueue \in Seq(Kinds)
    /\ queues \in [Kinds -> Seq(Nat)]
    /\ source \in Kinds \cup {"meta"}
    /\ current \in Nat
    /\ toCall \subseteq Topics
    /\ subscriptions \subseteq Topics
    /\ subMutex \in {"none", "delivery"}
    /\ moduleMutex \in Owners
    /\ moduleState \in ModuleStates
    /\ received \in [Kinds -> Nat]
    /\ enables \in Nat

\* A callback of the module runs only while the module is enabled, with the
\* module mutex held by the delivery thread; an event callback also belongs to
\* a subscription that is still there.  disable() therefore never overlaps a
\* callback.
CallbacksAreGuarded ==
    At("delivery", "callback") =>
        /\ moduleState = "ENABLED" /\ moduleMutex = "delivery"
        /\ source = "event" => toCall # {} /\ toCall \subseteq subscriptions

Increasing(s) == \A i, j \in 1..Len(s) : i < j => s[i] < s[j]

\* The notifications of a kind in flight, oldest first: the one being delivered,
\* those queued and the one its producer is about to queue.
DataLabel == [event |-> "eventData", request |-> "requestData", state |-> "stateData"]
MetaLabel == [event |-> "eventMeta", request |-> "requestMeta", state |-> "stateMeta"]
Producer == [event |-> "poller", request |-> "poller", state |-> "discovery"]
BeingDelivered(kind) ==
    source = kind /\ pc["delivery"] \in {"lock", "nextSubscription", "callback", "subscribe"}

InFlight(kind) ==
    (IF BeingDelivered(kind) THEN <<current>> ELSE <<>>)
      \o queues[kind]
      \o (IF pc[Producer[kind]] \in {DataLabel[kind]} \cup
               (IF kind = "event" THEN {"checkSize"} ELSE {})
         THEN <<received[kind]>> ELSE <<>>)

\* Notifications of one kind are delivered in the order they were received,
\* each at most once, although requests and peer changes overtake events and
\* meta notifications of a kind are interchangeable.
DeliveredInOrder == \A kind \in Kinds : Increasing(InFlight(kind))

MetaCount(kind) ==
    Cardinality({n \in 1..Len(metaQueue) : metaQueue[n] = kind})
      + (IF pc[Producer[kind]] = MetaLabel[kind] THEN 1 ELSE 0)
      + (IF source = kind /\ pc["delivery"] \in {"take", "blocked"} THEN 1 ELSE 0)

AwaitsClear == [event |-> {"clearEvents"}, state |-> {"clearEvents", "clearStates"},
                request |-> {"clearEvents", "clearStates", "clearRequests"}]

\* Nothing is stranded: every queued notification has a meta notification, queued
\* or about to be, that will make the delivery thread take it.  onDisable() may
\* have removed the meta notifications before it empties the queue of the kind.
NothingStranded ==
    \A kind \in Kinds :
        MetaCount(kind) >= Len(queues[kind]) \/ pc["instance"] \in AwaitsClear[kind]

\* The event queue never holds more than ZMF_INMSG_BUFFER_SIZE notifications.
EventQueueBounded == BufferSize > 0 => Len(queues["event"]) <= BufferSize

\* Between onDisable() and the next onEnable() there is no delivery thread, no
\* subscription, and nobody holds the subscription mutex.
DisabledIsQuiet ==
    At("instance", "disabled") =>
        /\ ~alive /\ At("delivery", "none")
        /\ subscriptions = {} /\ subMutex = "none"
        /\ moduleState = "DISABLED"

(***************************************************************************)
(* Liveness, and the ways in which it fails.                               *)
(***************************************************************************)
\* onDisable() joins a delivery thread that had tested alive_ before it was
\* cleared and began to wait after wakeUpAll().
LostWakeUp == At("instance", "join") /\ BlockedOn("meta")

\* A meta notification survived the onDisable() that cleared what it stands for.
OrphanMeta == \E kind \in Kinds : BlockedOn(kind)

\* The module mutex has no owner left that would unlock it.
MutexLeaked ==
    moduleMutex = "delivery" /\ pc["delivery"] \notin {"callback", "subscribe"}

\* deliverEvent() takes the two mutexes in the opposite order to enable() and
\* disable().
LockOrder ==
    /\ pc["instance"] \in {"subscribe", "unsubscribe"}
    /\ At("delivery", "nextSubscription") /\ toCall # {}

\* An event callback calls subscribe() under the mutex deliverEvent() holds.
CallbackDeadlock == At("delivery", "subscribe") /\ subMutex = "delivery"

Hung == LostWakeUp \/ OrphanMeta \/ MutexLeaked \/ LockOrder \/ CallbackDeadlock

\* Enabling and disabling come to an end, except in the five situations above:
\* there is no other way for the instance thread to hang in the dispatcher.
EnableAndDisableEnd == []<>(Quiet \/ Hung)

\* Everything queued for a module that stays enabled is delivered once nothing
\* more arrives, unless an orphaned meta notification or a mutex is in the way.
EverythingIsDelivered ==
    <>[](At("instance", "enabled") /\ ~Hung) =>
        <>[](metaQueue = <<>> /\ \A kind \in Kinds : queues[kind] = <<>>)

(***************************************************************************)
(* What the documentation says, and the code does not do.                  *)
(***************************************************************************)
\* ModuleEventDispatcher::onDisable "clears all subscriptions and stops
\* processing thread".
DisableStopsThread == At("instance", "onDisable") ~> At("delivery", "none")

\* IZmfInstanceController::requestEnableModule "Module will be enabled if all
\* preconditions are satisfied": the core has found them satisfied and calls the
\* module's enable().
EnableReachesModule == At("instance", "lockEnable") ~> At("instance", "enable")
=============================================================================
