-------------------- MODULE ModuleEventDispatcher_proofs --------------------
(***************************************************************************)
(* Proofs about ModuleEventDispatcher, for every set of topics, every      *)
(* buffer size and any number of notifications and enables.  One inductive *)
(* invariant ties the two mutexes, the module state and the delivery       *)
(* thread to the position of the instance thread; the guarding of          *)
(* callbacks, the state after a disable and the bound on the event queue   *)
(* follow from it.  A second one, on the order of the queues and of what   *)
(* was delivered, gives the delivery in order, and with the first that no  *)
(* notification is stranded.                                               *)
(***************************************************************************)
EXTENDS ModuleEventDispatcher, SequenceTheorems, FiniteSetTheorems, TLAPS

InModule == {"enable", "subscribe", "disable", "unsubscribe"}
AfterJoin == {"clearMeta", "clearEvents", "clearStates", "clearRequests",
              "clearSubscriptions", "disabled"}
InCallback == {"callback", "subscribe"}

\* Who holds the mutexes, and what holds while they are held.
MutexInv ==
    /\ moduleMutex = "instance" <=> pc["instance"] \in InModule
    /\ pc["delivery"] \in InCallback => moduleMutex = "delivery" /\ moduleState = "ENABLED"
    /\ subMutex = "delivery" <=>
         \/ pc["delivery"] = "nextSubscription"
         \/ pc["delivery"] \in InCallback /\ source = "event"
    /\ pc["delivery"] = "nextSubscription" => source = "event"
    /\ subMutex = "delivery" => toCall \subseteq subscriptions
    /\ pc["delivery"] \in InCallback /\ source = "event" => toCall # {}

\* The module state and the delivery thread follow the instance thread.
PhaseInv ==
    /\ moduleState = IF pc["instance"] \in {"enable", "subscribe"} THEN "ENABLING"
                     ELSE IF pc["instance"] \in {"enabled", "lockDisable"} THEN "ENABLED"
                     ELSE IF pc["instance"] \in {"disable", "unsubscribe"} THEN "DISABLING"
                     ELSE "DISABLED"
    /\ alive <=> pc["instance"] \notin AfterJoin \cup {"wakeUp", "join"}
    /\ pc["instance"] \in AfterJoin => pc["delivery"] = "none"
    /\ pc["instance"] = "disabled" => subscriptions = {}

\* The poller alone fills the event queue, after it has tested its length.
BufferInv ==
    BufferSize > 0 =>
        /\ Len(queues["event"]) <= BufferSize
        /\ pc["poller"] = "eventData" => Len(queues["event"]) < BufferSize

IInv == TypeOK /\ MutexInv /\ PhaseInv /\ BufferInv

USE DEF Threads, Kinds, Owners, ModuleStates

(***************************************************************************)
(* Types.                                                                  *)
(***************************************************************************)
PcOK == /\ pc \in [Threads -> UNION {Labels(t) : t \in Threads}]
        /\ \A t \in Threads : pc[t] \in Labels(t)

\* A step that moves one thread to one of its labels keeps the type of pc.
LEMMA GotoType ==
  ASSUME TypeOK, NEW t \in Threads, NEW to \in Labels(t), Goto(t, to)
  PROVE  PcOK'
  BY DEF TypeOK, PcOK, Goto

\* So does a step that moves a producer or the instance thread and, with it, the
\* delivery thread.
LEMMA GotoBothType ==
  ASSUME TypeOK, NEW t \in Threads \ {"delivery"}, NEW to \in Labels(t),
         NEW next \in Labels("delivery"),
         pc' = [pc EXCEPT ![t] = to, !["delivery"] = next]
  PROVE  PcOK'
  BY DEF TypeOK, PcOK

\* Queueing a notification keeps every type.
LEMMA EnqueueType ==
  ASSUME TypeOK, NEW t \in {"poller", "discovery"}, NEW kind \in Kinds, NEW from,
         NEW to \in Labels(t), Enqueue(t, kind, from, to)
  PROVE  TypeOK'
  <1>1. "lock" \in Labels("delivery")
    BY DEF Labels
  <1>2. PcOK'
    <2>1. CASE BlockedOn(kind)
      <3>1. pc' = [pc EXCEPT ![t] = to, !["delivery"] = "lock"]
        BY <2>1 DEF Enqueue
      <3>2. QED
        BY <1>1, <3>1, GotoBothType
    <2>2. CASE ~BlockedOn(kind)
      <3>1. Goto(t, to)
        BY <2>2 DEF Enqueue
      <3>2. QED
        BY <1>1, <3>1, GotoType
    <2>3. QED
      BY <2>1, <2>2
  <1>3. queues' \in [Kinds -> Seq(Nat)]
    <2>1. Append(queues[kind], received[kind]) \in Seq(Nat)
      BY DEF TypeOK
    <2>2. QED
      BY <2>1 DEF TypeOK, Enqueue
  <1>4. current' \in Nat
    BY DEF TypeOK, Enqueue
  <1>5. UNCHANGED <<alive, metaQueue, source, toCall, module, mutexes, bounds>>
    BY DEF Enqueue
  <1>6. QED
    BY <1>2, <1>3, <1>4, <1>5 DEF TypeOK, PcOK, module, mutexes, bounds

\* Queueing a meta notification keeps every type.
LEMMA EnqueueMetaType ==
  ASSUME TypeOK, NEW t \in {"poller", "discovery"}, NEW kind \in Kinds,
         NEW urgent \in BOOLEAN, NEW from, EnqueueMeta(t, kind, urgent, from)
  PROVE  TypeOK'
  <1>1. "take" \in Labels("delivery") /\ "idle" \in Labels(t)
    BY DEF Labels
  <1>2. PcOK'
    <2>1. CASE BlockedOn("meta")
      <3>1. pc' = [pc EXCEPT ![t] = "idle", !["delivery"] = "take"]
        BY <2>1 DEF EnqueueMeta
      <3>2. QED
        BY <1>1, <3>1, GotoBothType
    <2>2. CASE ~BlockedOn("meta")
      <3>1. Goto(t, "idle")
        BY <2>2 DEF EnqueueMeta
      <3>2. QED
        BY <1>1, <3>1, GotoType
    <2>3. QED
      BY <2>1, <2>2
  <1>3. metaQueue' \in Seq(Kinds)
    <2>1. Append(metaQueue, kind) \in Seq(Kinds) /\ <<kind>> \o metaQueue \in Seq(Kinds)
      BY ConcatProperties DEF TypeOK
    <2>2. QED
      BY <2>1 DEF TypeOK, EnqueueMeta
  <1>4. source' \in Kinds \cup {"meta"}
    BY DEF TypeOK, EnqueueMeta
  <1>5. UNCHANGED <<alive, queues, current, toCall, module, mutexes, bounds>>
    BY DEF EnqueueMeta
  <1>6. QED
    BY <1>2, <1>3, <1>4, <1>5 DEF TypeOK, PcOK, module, mutexes, bounds

\* Receiving a notification keeps every type.
LEMMA ReceiveType ==
  ASSUME TypeOK, NEW t \in {"poller", "discovery"}, NEW kind \in Kinds,
         NEW to \in Labels(t), Receive(t, kind, to)
  PROVE  TypeOK'
  <1>1. PcOK'
    BY GotoType DEF Receive
  <1>2. received' \in [Kinds -> Nat]
    BY DEF TypeOK, Receive
  <1>3. QED
    BY <1>1, <1>2 DEF TypeOK, PcOK, Receive, delivering, module, mutexes

\* The steps of the producers keep every type.
LEMMA ProducerType ==
  ASSUME TypeOK, OnSubMsgReceived \/ OnRequestMsgReceived \/ OnPeerChange
  PROVE  TypeOK'
  <1>1. CASE ReceiveEvent
    BY <1>1, ReceiveType DEF Labels, ReceiveEvent
  <1>2. CASE CheckQueueSize
    <2>1. PcOK'
      BY <1>2, GotoType, GotoBothType DEF CheckQueueSize, Move, Labels, TypeOK, PcOK
    <2>2. QED
      BY <1>2, <2>1 DEF CheckQueueSize, TypeOK, PcOK, delivering, module, mutexes, bounds
  <1>3. CASE Enqueue("poller", "event", "eventData", "eventMeta")
    BY <1>3, EnqueueType DEF Labels
  <1>4. CASE EnqueueMeta("poller", "event", FALSE, "eventMeta")
    BY <1>4, EnqueueMetaType DEF Labels
  <1>5. CASE Receive("poller", "request", IF alive THEN "requestData" ELSE "idle")
    BY <1>5, ReceiveType DEF Labels
  <1>6. CASE Enqueue("poller", "request", "requestData", "requestMeta")
    BY <1>6, EnqueueType DEF Labels
  <1>7. CASE EnqueueMeta("poller", "request", TRUE, "requestMeta")
    BY <1>7, EnqueueMetaType DEF Labels
  <1>8. CASE Receive("discovery", "state", "stateData")
    BY <1>8, ReceiveType DEF Labels
  <1>9. CASE Enqueue("discovery", "state", "stateData", "stateMeta")
    BY <1>9, EnqueueType DEF Labels
  <1>10. CASE EnqueueMeta("discovery", "state", TRUE, "stateMeta")
    BY <1>10, EnqueueMetaType DEF Labels
  <1>11. QED
    BY <1>1, <1>2, <1>3, <1>4, <1>5, <1>6, <1>7, <1>8, <1>9, <1>10 DEF OnSubMsgReceived, OnRequestMsgReceived, OnPeerChange

\* The steps of the delivery thread keep every type.
LEMMA DeliveryType ==
  ASSUME TypeOK, DeliveryStep
  PROVE  TypeOK'
  <1>1. CASE Loop
    <2>1. PcOK'
      BY <1>1, GotoType, GotoBothType DEF Loop, Goto, Move, Labels, TypeOK, PcOK
    <2>2. QED
      BY <1>1, <2>1 DEF Loop, Goto, TypeOK, PcOK, delivering, module, mutexes, bounds
  <1>2. CASE TakeMeta
    <2>1. PcOK'
      BY <1>2, GotoType, GotoBothType DEF TakeMeta, Move, Labels, TypeOK, PcOK
    <2>2. QED
      BY <1>2, <2>1 DEF TakeMeta, TypeOK, PcOK, delivering, module, mutexes, bounds
  <1>3. CASE TakeData
    <2>1. PcOK'
      BY <1>3, GotoType, GotoBothType DEF TakeData, Move, Goto, Move, Labels, TypeOK, PcOK
    <2>2. QED
      BY <1>3, <2>1, SMTT(30) DEF TakeData, Move, Goto, TypeOK, PcOK, delivering, module, mutexes, bounds
  <1>4. CASE Block
    <2>1. PcOK'
      BY <1>4, GotoType, GotoBothType DEF Block, Move, Labels, TypeOK, PcOK
    <2>2. QED
      BY <1>4, <2>1 DEF Block, TypeOK, PcOK, delivering, module, mutexes, bounds
  <1>5. CASE LockSubscriptions
    <2>1. PcOK'
      BY <1>5, GotoType, GotoBothType DEF LockSubscriptions, Move, Labels, TypeOK, PcOK
    <2>2. QED
      BY <1>5, <2>1 DEF LockSubscriptions, TypeOK, PcOK, delivering, module, mutexes, bounds
  <1>6. CASE CallSubscription
    <2>1. PcOK'
      BY <1>6, GotoType, GotoBothType DEF CallSubscription, Move, Labels, TypeOK, PcOK
    <2>2. QED
      BY <1>6, <2>1 DEF CallSubscription, TypeOK, PcOK, delivering, module, mutexes, bounds
  <1>7. CASE EventHandled
    <2>1. PcOK'
      BY <1>7, GotoType, GotoBothType DEF EventHandled, Move, Labels, TypeOK, PcOK
    <2>2. QED
      BY <1>7, <2>1 DEF EventHandled, TypeOK, PcOK, delivering, module, mutexes, bounds
  <1>8. CASE UnlockSubscriptions
    <2>1. PcOK'
      BY <1>8, GotoType, GotoBothType DEF UnlockSubscriptions, Move, Labels, TypeOK, PcOK
    <2>2. QED
      BY <1>8, <2>1 DEF UnlockSubscriptions, TypeOK, PcOK, delivering, module, mutexes, bounds
  <1>9. CASE LockForRequest
    <2>1. PcOK'
      BY <1>9, GotoType, GotoBothType DEF LockForRequest, Move, Labels, TypeOK, PcOK
    <2>2. QED
      BY <1>9, <2>1 DEF LockForRequest, TypeOK, PcOK, delivering, module, mutexes, bounds
  <1>10. CASE RequestHandled
    <2>1. PcOK'
      BY <1>10, GotoType, GotoBothType DEF RequestHandled, Move, Labels, TypeOK, PcOK
    <2>2. QED
      BY <1>10, <2>1 DEF RequestHandled, TypeOK, PcOK, delivering, module, mutexes, bounds
  <1>11. CASE LockForState
    <2>1. PcOK'
      BY <1>11, GotoType, GotoBothType DEF LockForState, Move, Labels, TypeOK, PcOK
    <2>2. QED
      BY <1>11, <2>1 DEF LockForState, TypeOK, PcOK, delivering, module, mutexes, bounds
  <1>12. CASE StateHandled
    <2>1. PcOK'
      BY <1>12, GotoType, GotoBothType DEF StateHandled, Move, Labels, TypeOK, PcOK
    <2>2. QED
      BY <1>12, <2>1 DEF StateHandled, TypeOK, PcOK, delivering, module, mutexes, bounds
  <1>13. CASE BeginSubscribe("delivery", "callback")
    <2>1. PcOK'
      BY <1>13, GotoType, GotoBothType DEF BeginSubscribe, Skip, Move, Labels, TypeOK, PcOK
    <2>2. QED
      BY <1>13, <2>1 DEF BeginSubscribe, Skip, TypeOK, PcOK, delivering, module, mutexes, bounds
  <1>14. CASE Subscribe("delivery", "callback")
    <2>1. PcOK'
      BY <1>14, GotoType, GotoBothType DEF Subscribe, Move, Labels, TypeOK, PcOK
    <2>2. QED
      BY <1>14, <2>1 DEF Subscribe, TypeOK, PcOK, delivering, module, mutexes, bounds
  <1>15. QED
    BY <1>1, <1>2, <1>3, <1>4, <1>5, <1>6, <1>7, <1>8, <1>9, <1>10, <1>11, <1>12, <1>13, <1>14 DEF DeliveryStep, DeliverEvent, DeliverRequest, DeliverState, CallbackSubscribes

\* The steps of the instance thread keep every type.
LEMMA InstanceType ==
  ASSUME TypeOK, InstanceStep \/ OnEnable \/ RequestDisable
  PROVE  TypeOK'
  <1>1. CASE LockModule("lockEnable", "ENABLING", "enable")
    <2>1. PcOK'
      BY <1>1, GotoType, GotoBothType DEF LockModule, Move, Labels, TypeOK, PcOK
    <2>2. QED
      BY <1>1, <2>1 DEF LockModule, TypeOK, PcOK, delivering, module, mutexes, bounds
  <1>2. CASE BeginSubscribe("instance", "enable")
    <2>1. PcOK'
      BY <1>2, GotoType, GotoBothType DEF BeginSubscribe, Skip, Move, Labels, TypeOK, PcOK
    <2>2. QED
      BY <1>2, <2>1 DEF BeginSubscribe, Skip, TypeOK, PcOK, delivering, module, mutexes, bounds
  <1>3. CASE Subscribe("instance", "enable")
    <2>1. PcOK'
      BY <1>3, GotoType, GotoBothType DEF Subscribe, Move, Labels, TypeOK, PcOK
    <2>2. QED
      BY <1>3, <2>1 DEF Subscribe, TypeOK, PcOK, delivering, module, mutexes, bounds
  <1>4. CASE UnlockModule("enable", "ENABLED", "enabled")
    <2>1. PcOK'
      BY <1>4, GotoType, GotoBothType DEF UnlockModule, Move, Labels, TypeOK, PcOK
    <2>2. QED
      BY <1>4, <2>1 DEF UnlockModule, TypeOK, PcOK, delivering, module, mutexes, bounds
  <1>5. CASE UnlockModule("enable", "DISABLED", "onDisable")
    <2>1. PcOK'
      BY <1>5, GotoType, GotoBothType DEF UnlockModule, Move, Labels, TypeOK, PcOK
    <2>2. QED
      BY <1>5, <2>1 DEF UnlockModule, TypeOK, PcOK, delivering, module, mutexes, bounds
  <1>6. CASE LockModule("lockDisable", "DISABLING", "disable")
    <2>1. PcOK'
      BY <1>6, GotoType, GotoBothType DEF LockModule, Move, Labels, TypeOK, PcOK
    <2>2. QED
      BY <1>6, <2>1 DEF LockModule, TypeOK, PcOK, delivering, module, mutexes, bounds
  <1>7. CASE subscriptions # {} /\ Skip("instance", "disable", "unsubscribe")
    <2>1. PcOK'
      BY <1>7, GotoType, GotoBothType DEF Skip, Move, Labels, TypeOK, PcOK
    <2>2. QED
      BY <1>7, <2>1 DEF Skip, TypeOK, PcOK, delivering, module, mutexes, bounds
  <1>8. CASE Unsubscribe
    <2>1. PcOK'
      BY <1>8, GotoType, GotoBothType DEF Unsubscribe, Move, Labels, TypeOK, PcOK
    <2>2. QED
      BY <1>8, <2>1 DEF Unsubscribe, TypeOK, PcOK, delivering, module, mutexes, bounds
  <1>9. CASE UnlockModule("disable", "DISABLED", "onDisable")
    <2>1. PcOK'
      BY <1>9, GotoType, GotoBothType DEF UnlockModule, Move, Labels, TypeOK, PcOK
    <2>2. QED
      BY <1>9, <2>1 DEF UnlockModule, TypeOK, PcOK, delivering, module, mutexes, bounds
  <1>10. CASE ClearAlive
    <2>1. PcOK'
      BY <1>10, GotoType, GotoBothType DEF ClearAlive, Move, Labels, TypeOK, PcOK
    <2>2. QED
      BY <1>10, <2>1 DEF ClearAlive, TypeOK, PcOK, delivering, module, mutexes, bounds
  <1>11. CASE WakeUpAll
    <2>1. PcOK'
      <3>1. "join" \in Labels("instance") /\ "loop" \in Labels("delivery")
        BY DEF Labels
      <3>2. CASE BlockedOn("meta")
        <4>1. pc' = [pc EXCEPT !["instance"] = "join", !["delivery"] = "loop"]
          BY <1>11, <3>2 DEF WakeUpAll
        <4>2. QED
          BY <3>1, <4>1, GotoBothType
      <3>3. CASE ~BlockedOn("meta")
        <4>1. Goto("instance", "join")
          BY <1>11, <3>3 DEF WakeUpAll, Goto
        <4>2. QED
          BY <3>1, <4>1, GotoType
      <3>4. QED
        BY <3>2, <3>3
    <2>2. QED
      BY <1>11, <2>1 DEF WakeUpAll, TypeOK, PcOK, delivering, module, mutexes, bounds
  <1>12. CASE JoinDelivery
    <2>1. PcOK'
      BY <1>12, GotoType, GotoBothType DEF JoinDelivery, Skip, Move, Labels, TypeOK, PcOK
    <2>2. QED
      BY <1>12, <2>1 DEF JoinDelivery, Skip, TypeOK, PcOK, delivering, module, mutexes, bounds
  <1>13. CASE ClearMeta
    <2>1. PcOK'
      BY <1>13, GotoType, GotoBothType DEF ClearMeta, Move, Labels, TypeOK, PcOK
    <2>2. QED
      BY <1>13, <2>1 DEF ClearMeta, TypeOK, PcOK, delivering, module, mutexes, bounds
  <1>14. CASE ClearQueue("event", "clearEvents", "clearStates")
    <2>1. PcOK'
      BY <1>14, GotoType, GotoBothType DEF ClearQueue, Move, Labels, TypeOK, PcOK
    <2>2. QED
      BY <1>14, <2>1 DEF ClearQueue, TypeOK, PcOK, delivering, module, mutexes, bounds
  <1>15. CASE ClearQueue("state", "clearStates", "clearRequests")
    <2>1. PcOK'
      BY <1>15, GotoType, GotoBothType DEF ClearQueue, Move, Labels, TypeOK, PcOK
    <2>2. QED
      BY <1>15, <2>1 DEF ClearQueue, TypeOK, PcOK, delivering, module, mutexes, bounds
  <1>16. CASE ClearQueue("request", "clearRequests", "clearSubscriptions")
    <2>1. PcOK'
      BY <1>16, GotoType, GotoBothType, SMTT(30) DEF ClearQueue, Move, Labels, TypeOK, PcOK
    <2>2. QED
      BY <1>16, <2>1 DEF ClearQueue, TypeOK, PcOK, delivering, module, mutexes, bounds
  <1>17. CASE ClearSubscriptions
    <2>1. PcOK'
      BY <1>17, GotoType, GotoBothType DEF ClearSubscriptions, Move, Labels, TypeOK, PcOK
    <2>2. QED
      BY <1>17, <2>1 DEF ClearSubscriptions, TypeOK, PcOK, delivering, module, mutexes, bounds
  <1>18. CASE OnEnable
    <2>1. PcOK'
      BY <1>18, GotoType, GotoBothType, ZenonT(60) DEF OnEnable, Move, Labels, TypeOK, PcOK
    <2>2. QED
      BY <1>18, <2>1 DEF OnEnable, TypeOK, PcOK, delivering, module, mutexes, bounds
  <1>19. CASE RequestDisable
    <2>1. PcOK'
      BY <1>19, GotoType, GotoBothType DEF RequestDisable, Skip, Move, Labels, TypeOK, PcOK
    <2>2. QED
      BY <1>19, <2>1 DEF RequestDisable, Skip, TypeOK, PcOK, delivering, module, mutexes, bounds
  <1>20. QED
    BY <1>1, <1>2, <1>3, <1>4, <1>5, <1>6, <1>7, <1>8, <1>9, <1>10, <1>11, <1>12, <1>13, <1>14, <1>15, <1>16, <1>17, <1>18, <1>19 DEF InstanceStep, EnableModule, DisableModule, OnDisable

(***************************************************************************)
(* Lengths.                                                                *)
(***************************************************************************)
\* Appending to a queue with room for one more keeps it within the limit.
LEMMA AppendWithin ==
  ASSUME NEW q \in Seq(Nat), NEW e \in Nat, NEW r \in {q, Append(q, e)},
         Len(q) < BufferSize
  PROVE  Len(r) <= BufferSize
  <1>1. Len(Append(q, e)) = Len(q) + 1 /\ Len(q) \in Nat
    OBVIOUS
  <1>2. QED
    BY <1>1, BufferSizeAssumption

\* Taking from a queue makes it shorter.
LEMMA TailShorter ==
  ASSUME NEW q \in Seq(Nat), q # <<>>
  PROVE  /\ Len(q) \in Nat /\ Len(Tail(q)) \in Nat
         /\ Len(Tail(q)) < Len(q)
  <1>1. Len(Tail(q)) = Len(q) - 1 /\ Len(q) \in Nat /\ Len(Tail(q)) \in Nat
    BY HeadTailProperties
  <1>2. QED
    BY <1>1

\* Taking a notification does not make the event queue longer.
LEMMA TakeDataShortens ==
  ASSUME TypeOK, TakeData
  PROVE  /\ Len(queues["event"]) \in Nat /\ Len(queues'["event"]) \in Nat
         /\ Len(queues'["event"]) <= Len(queues["event"])
  <1>1. /\ queues["event"] \in Seq(Nat) /\ source \in Kinds /\ queues[source] # <<>>
        /\ queues' = [queues EXCEPT ![source] = Tail(queues[source])]
        /\ DOMAIN queues = Kinds
    BY DEF TypeOK, TakeData
  <1>2. CASE source = "event"
    <2>1. queues'["event"] = Tail(queues["event"])
      BY <1>1, <1>2
    <2>2. QED
      BY <1>1, <1>2, <2>1, TailShorter
  <1>3. CASE source # "event"
    <2>1. queues'["event"] = queues["event"]
      BY <1>1, <1>3
    <2>2. QED
      BY <1>1, <2>1
  <1>4. QED
    BY <1>2, <1>3

\* A step of another thread that does not lengthen the event queue keeps its bound.
LEMMA ShorterKeepsBuffer ==
  ASSUME BufferInv, pc'["poller"] = pc["poller"],
         Len(queues["event"]) \in Nat, Len(queues'["event"]) \in Nat,
         Len(queues'["event"]) <= Len(queues["event"])
  PROVE  BufferInv'
  BY BufferSizeAssumption DEF BufferInv

(***************************************************************************)
(* The inductive invariant.                                                *)
(***************************************************************************)
\* The steps of the producers keep the invariant.
LEMMA ProducerInv ==
  ASSUME IInv, TypeOK', OnSubMsgReceived \/ OnRequestMsgReceived \/ OnPeerChange
  PROVE  IInv'
  <1> USE DEF IInv, TypeOK, MutexInv, PhaseInv, BufferInv, InModule, AfterJoin, InCallback,
              Move, Goto, At, delivering, module, mutexes, bounds
  <1>1. CASE ReceiveEvent
    BY <1>1 DEF ReceiveEvent, Receive, BlockedOn
  <1>2. CASE CheckQueueSize
    <2>1. MutexInv'
      BY <1>2 DEF CheckQueueSize
    <2>2. PhaseInv'
      BY <1>2 DEF CheckQueueSize
    <2>3. Len(queues["event"]) \in Nat
      OBVIOUS
    <2>8. BufferInv'
      BY <1>2, <2>3, BufferSizeAssumption DEF CheckQueueSize
    <2>9. QED
      BY <2>1, <2>2, <2>8
  <1>3. CASE Enqueue("poller", "event", "eventData", "eventMeta")
    <2>1. MutexInv'
      BY <1>3, ZenonT(60) DEF Enqueue, BlockedOn
    <2>2. PhaseInv'
      <3>1. /\ pc'["instance"] = pc["instance"] /\ UNCHANGED <<alive, subscriptions, moduleState>>
            /\ pc["delivery"] = "none" => pc'["delivery"] = "none"
        BY <1>3, ZenonT(60) DEF Enqueue, BlockedOn
      <3>2. QED
        BY <3>1
    <2>3. queues["event"] \in Seq(Nat) /\ received["event"] \in Nat
      OBVIOUS
    <2>4. /\ pc'["poller"] = "eventMeta" /\ pc["poller"] = "eventData"
          /\ queues'["event"] \in {queues["event"], Append(queues["event"], received["event"])}
      BY <1>3 DEF Enqueue, BlockedOn
    <2>5. BufferSize > 0 => Len(queues["event"]) < BufferSize
      BY <2>4
    <2>6. BufferSize > 0 => Len(queues'["event"]) <= BufferSize
      BY <2>3, <2>4, <2>5, AppendWithin
    <2>8. BufferInv'
      BY <2>4, <2>6
    <2>9. QED
      BY <2>1, <2>2, <2>8
  <1>4. CASE EnqueueMeta("poller", "event", FALSE, "eventMeta")
    BY <1>4, SMTT(30) DEF EnqueueMeta, BlockedOn
  <1>5. CASE Receive("poller", "request", IF alive THEN "requestData" ELSE "idle")
    BY <1>5 DEF Receive, BlockedOn
  <1>6. CASE Enqueue("poller", "request", "requestData", "requestMeta")
    <2>1. MutexInv'
      BY <1>6, ZenonT(60) DEF Enqueue, BlockedOn
    <2>2. PhaseInv'
      <3>1. /\ pc'["instance"] = pc["instance"] /\ UNCHANGED <<alive, subscriptions, moduleState>>
            /\ pc["delivery"] = "none" => pc'["delivery"] = "none"
        BY <1>6, ZenonT(60) DEF Enqueue, BlockedOn
      <3>2. QED
        BY <3>1
    <2>3. pc'["poller"] = "requestMeta" /\ queues'["event"] = queues["event"]
      BY <1>6 DEF Enqueue, BlockedOn
    <2>8. BufferInv'
      BY <2>3
    <2>9. QED
      BY <2>1, <2>2, <2>8
  <1>7. CASE EnqueueMeta("poller", "request", TRUE, "requestMeta")
    BY <1>7 DEF EnqueueMeta, BlockedOn
  <1>8. CASE Receive("discovery", "state", "stateData")
    BY <1>8 DEF Receive, BlockedOn
  <1>9. CASE Enqueue("discovery", "state", "stateData", "stateMeta")
    <2>1. MutexInv'
      BY <1>9, ZenonT(60) DEF Enqueue, BlockedOn
    <2>2. PhaseInv'
      <3>1. /\ pc'["instance"] = pc["instance"] /\ UNCHANGED <<alive, subscriptions, moduleState>>
            /\ pc["delivery"] = "none" => pc'["delivery"] = "none"
        BY <1>9, ZenonT(60) DEF Enqueue, BlockedOn
      <3>2. QED
        BY <3>1
    <2>3. pc'["poller"] = pc["poller"] /\ queues'["event"] = queues["event"]
      BY <1>9 DEF Enqueue, BlockedOn
    <2>8. BufferInv'
      BY <2>3
    <2>9. QED
      BY <2>1, <2>2, <2>8
  <1>10. CASE EnqueueMeta("discovery", "state", TRUE, "stateMeta")
    <2>1. MutexInv'
      BY <1>10 DEF EnqueueMeta, BlockedOn
    <2>2. PhaseInv'
      BY <1>10 DEF EnqueueMeta, BlockedOn
    <2>3. pc'["poller"] = pc["poller"] /\ queues' = queues
      BY <1>10 DEF EnqueueMeta, BlockedOn
    <2>8. BufferInv'
      BY <2>3
    <2>9. QED
      BY <2>1, <2>2, <2>8
  <1>11. QED
    BY <1>1, <1>2, <1>3, <1>4, <1>5, <1>6, <1>7, <1>8, <1>9, <1>10 DEF OnSubMsgReceived, OnRequestMsgReceived, OnPeerChange

\* The steps of the delivery thread keep the invariant.
LEMMA DeliveryInv ==
  ASSUME IInv, TypeOK', DeliveryStep
  PROVE  IInv'
  <1> USE DEF IInv, TypeOK, MutexInv, PhaseInv, BufferInv, InModule, AfterJoin, InCallback,
              Move, Goto, At, delivering, module, mutexes, bounds
  <1>1. CASE Loop
    BY <1>1 DEF Loop
  <1>2. CASE TakeMeta
    BY <1>2 DEF TakeMeta
  <1>3. CASE TakeData
    <2>1. MutexInv'
      BY <1>3 DEF TakeData
    <2>2. PhaseInv'
      BY <1>3 DEF TakeData
    <2>3. pc'["poller"] = pc["poller"] /\ queues["event"] \in Seq(Nat)
      BY <1>3 DEF TakeData
    <2>4. /\ Len(queues["event"]) \in Nat /\ Len(queues'["event"]) \in Nat
          /\ Len(queues'["event"]) <= Len(queues["event"])
      BY <1>3, TakeDataShortens
    <2>8. BufferInv'
      BY <2>3, <2>4, ShorterKeepsBuffer
    <2>9. QED
      BY <2>1, <2>2, <2>8
  <1>4. CASE Block
    BY <1>4 DEF Block
  <1>5. CASE LockSubscriptions
    BY <1>5 DEF LockSubscriptions
  <1>6. CASE CallSubscription
    BY <1>6 DEF CallSubscription
  <1>7. CASE EventHandled
    BY <1>7 DEF EventHandled
  <1>8. CASE UnlockSubscriptions
    BY <1>8 DEF UnlockSubscriptions
  <1>9. CASE LockForRequest
    BY <1>9 DEF LockForRequest
  <1>10. CASE RequestHandled
    BY <1>10 DEF RequestHandled
  <1>11. CASE LockForState
    BY <1>11 DEF LockForState
  <1>12. CASE StateHandled
    BY <1>12 DEF StateHandled
  <1>13. CASE BeginSubscribe("delivery", "callback")
    BY <1>13 DEF BeginSubscribe, Skip
  <1>14. CASE Subscribe("delivery", "callback")
    BY <1>14 DEF Subscribe
  <1>15. QED
    BY <1>1, <1>2, <1>3, <1>4, <1>5, <1>6, <1>7, <1>8, <1>9, <1>10, <1>11, <1>12, <1>13, <1>14 DEF DeliveryStep, DeliverEvent, DeliverRequest, DeliverState, CallbackSubscribes

\* The steps of the instance thread keep the invariant.
LEMMA InstanceInv ==
  ASSUME IInv, TypeOK', InstanceStep \/ OnEnable \/ RequestDisable
  PROVE  IInv'
  <1> USE DEF IInv, TypeOK, MutexInv, PhaseInv, BufferInv, InModule, AfterJoin, InCallback,
              Move, Goto, At, delivering, module, mutexes, bounds
  <1>1. CASE LockModule("lockEnable", "ENABLING", "enable")
    BY <1>1 DEF LockModule
  <1>2. CASE BeginSubscribe("instance", "enable")
    BY <1>2 DEF BeginSubscribe, Skip
  <1>3. CASE Subscribe("instance", "enable")
    BY <1>3 DEF Subscribe
  <1>4. CASE UnlockModule("enable", "ENABLED", "enabled")
    BY <1>4 DEF UnlockModule
  <1>5. CASE UnlockModule("enable", "DISABLED", "onDisable")
    BY <1>5 DEF UnlockModule
  <1>6. CASE LockModule("lockDisable", "DISABLING", "disable")
    BY <1>6 DEF LockModule
  <1>7. CASE subscriptions # {} /\ Skip("instance", "disable", "unsubscribe")
    BY <1>7 DEF Skip
  <1>8. CASE Unsubscribe
    BY <1>8 DEF Unsubscribe
  <1>9. CASE UnlockModule("disable", "DISABLED", "onDisable")
    BY <1>9 DEF UnlockModule
  <1>10. CASE ClearAlive
    BY <1>10 DEF ClearAlive
  <1>11. CASE WakeUpAll
    BY <1>11 DEF WakeUpAll, BlockedOn
  <1>12. CASE JoinDelivery
    BY <1>12 DEF JoinDelivery, Skip
  <1>13. CASE ClearMeta
    BY <1>13 DEF ClearMeta
  <1>14. CASE ClearQueue("event", "clearEvents", "clearStates")
    <2>1. MutexInv'
      BY <1>14 DEF ClearQueue
    <2>2. PhaseInv'
      BY <1>14 DEF ClearQueue
    <2>3. pc'["poller"] = pc["poller"] /\ queues'["event"] = <<>>
      BY <1>14 DEF ClearQueue
    <2>8. BufferInv'
      BY <2>3, EmptySeq, BufferSizeAssumption
    <2>9. QED
      BY <2>1, <2>2, <2>8
  <1>15. CASE ClearQueue("state", "clearStates", "clearRequests")
    BY <1>15 DEF ClearQueue
  <1>16. CASE ClearQueue("request", "clearRequests", "clearSubscriptions")
    BY <1>16 DEF ClearQueue
  <1>17. CASE ClearSubscriptions
    BY <1>17 DEF ClearSubscriptions
  <1>18. CASE OnEnable
    BY <1>18 DEF OnEnable
  <1>19. CASE RequestDisable
    BY <1>19 DEF RequestDisable, Skip
  <1>20. QED
    BY <1>1, <1>2, <1>3, <1>4, <1>5, <1>6, <1>7, <1>8, <1>9, <1>10, <1>11, <1>12, <1>13, <1>14, <1>15, <1>16, <1>17, <1>18, <1>19 DEF InstanceStep, EnableModule, DisableModule, OnDisable

\* The constructor establishes the invariant.
LEMMA InitInv ==
  ASSUME Init
  PROVE  IInv
  <1>1. PcOK
    BY DEF Init, PcOK, Labels
  <1>2. queues \in [Kinds -> Seq(Nat)] /\ metaQueue \in Seq(Kinds) /\ Len(queues["event"]) = 0
    BY EmptySeq DEF Init
  <1>3. TypeOK
    BY <1>1, <1>2 DEF Init, TypeOK, PcOK
  <1>4. MutexInv /\ PhaseInv
    BY DEF Init, MutexInv, PhaseInv, InModule, InCallback, AfterJoin
  <1>5. BufferInv
    BY <1>2, BufferSizeAssumption DEF Init, BufferInv
  <1>6. QED
    BY <1>3, <1>4, <1>5 DEF IInv

\* Every step keeps every type.
LEMMA NextType ==
  ASSUME TypeOK, [Next]_vars
  PROVE  TypeOK'
  <1>1. CASE UNCHANGED vars
    BY <1>1 DEF vars, TypeOK
  <1>2. QED
    BY <1>1, ProducerType, DeliveryType, InstanceType DEF Next

\* Every step keeps the invariant.
LEMMA NextInv ==
  ASSUME IInv, [Next]_vars
  PROVE  IInv'
  <1>1. TypeOK'
    BY NextType DEF IInv
  <1>2. CASE UNCHANGED vars
    BY <1>1, <1>2 DEF vars, IInv, MutexInv, PhaseInv, BufferInv
  <1>3. QED
    BY <1>1, <1>2, ProducerInv, DeliveryInv, InstanceInv DEF Next

\* The inductive invariant holds in every reachable state.
THEOREM Invariance == Spec => []IInv
  <1>1. Init => IInv
    BY InitInv
  <1>2. IInv /\ [Next]_vars => IInv'
    BY NextInv
  <1>3. QED
    BY <1>1, <1>2, PTL DEF Spec

(***************************************************************************)
(* The theorems.                                                           *)
(***************************************************************************)
\* Every variable of the dispatcher keeps its type.
THEOREM TypeCorrect == Spec => []TypeOK
  <1>1. IInv => TypeOK
    BY DEF IInv
  <1>2. QED
    BY <1>1, Invariance, PTL

\* A callback runs only in an enabled module and under the module mutex, however
\* deliveries, enables, disables and leaked mutexes interleave.
THEOREM CallbacksGuarded == Spec => []CallbacksAreGuarded
  <1>1. IInv => CallbacksAreGuarded
    BY DEF IInv, TypeOK, MutexInv, InCallback, CallbacksAreGuarded, At
  <1>2. QED
    BY <1>1, Invariance, PTL

\* After onDisable() the delivery thread is gone and no subscription is left.
THEOREM QuietWhenDisabled == Spec => []DisabledIsQuiet
  <1>1. IInv => DisabledIsQuiet
    BY DEF IInv, TypeOK, MutexInv, PhaseInv, InCallback, AfterJoin, DisabledIsQuiet, At
  <1>2. QED
    BY <1>1, Invariance, PTL

\* The event queue keeps within the configured size, because only the poller
\* thread appends to it.
THEOREM EventQueueWithinBound == Spec => []EventQueueBounded
  <1>1. IInv => EventQueueBounded
    BY DEF IInv, BufferInv, EventQueueBounded
  <1>2. QED
    BY <1>1, Invariance, PTL

(***************************************************************************)
(* The queues.  What the rest of the proofs needs to know of a step is how *)
(* it treats the notifications of one kind: of the 36 steps, 29 leave all  *)
(* queues alone and are one case here.                                     *)
(***************************************************************************)
\* The delivery thread is to take a notification of this kind.
Taking(kind) == source = kind /\ pc["delivery"] \in {"take", "blocked"}

\* The producer has received a notification that is not in the queue yet.
Pending(kind) ==
    \/ pc[Producer[kind]] = DataLabel[kind]
    \/ kind = "event" /\ pc["poller"] = "checkSize"

\* The producer is between the queue and the meta queue.
AtMeta(kind) == pc[Producer[kind]] = MetaLabel[kind]

\* The number of a notification that the producer has already dealt with.
Handed(kind, n) ==
    n <= received[kind] /\ (Pending(kind) => n < received[kind])

\* The notifications of a kind are in order, and older than what the producer holds.
OrderAt(kind) ==
    /\ Increasing(queues[kind])
    /\ \A i \in 1..Len(queues[kind]) : Handed(kind, queues[kind][i])
    /\ BeingDelivered(kind) =>
         /\ Handed(kind, current)
         /\ \A i \in 1..Len(queues[kind]) : current < queues[kind][i]

\* The delivery thread waits only on an empty queue.
BlockedAt(kind) == BlockedOn(kind) => queues[kind] = <<>>

OrderInv == \A kind \in Kinds : OrderAt(kind) /\ BlockedAt(kind)

MetaIn(q, kind) == Cardinality({n \in 1..Len(q) : q[n] = kind})

\* A step that leaves the queues and what is received alone, and does not change
\* which notification the delivery thread has or is to take.
OtherStep(kind) ==
    /\ UNCHANGED <<metaQueue, queues, received, current>>
    /\ Pending(kind)' => Pending(kind)
    /\ AtMeta(kind)' <=> AtMeta(kind)
    /\ BeingDelivered(kind)' => BeingDelivered(kind)
    /\ Taking(kind)' <=> Taking(kind)
    /\ BlockedOn(kind)' => BlockedOn(kind) \/ queues[kind] = <<>>
    /\ pc["instance"] \in AwaitsClear[kind] => pc'["instance"] \in AwaitsClear[kind]

\* The labels of a producer between two notifications.
LEMMA ProducerLabels ==
  ASSUME TypeOK, NEW kind \in Kinds
  PROVE  /\ Producer[kind] \in {"poller", "discovery"}
         /\ pc[Producer[kind]] = "idle" => ~Pending(kind) /\ ~AtMeta(kind)
         /\ Pending(kind) => ~AtMeta(kind)
  BY DEF Producer, DataLabel, MetaLabel, Pending, AtMeta

\* The steps of the delivery thread, as one kind of notification sees them.
LEMMA DeliveryQueues ==
  ASSUME IInv, DeliveryStep, NEW kind \in Kinds
  PROVE  TakeMeta \/ TakeData \/ OtherStep(kind)
  <1> USE DEF Move, Goto, At, Taking, Pending, AtMeta, BeingDelivered, BlockedOn,
              Producer, delivering, module, mutexes, bounds
  <1> SUFFICES ASSUME ~TakeMeta, ~TakeData
               PROVE  OtherStep(kind)
    OBVIOUS
  <1>1. /\ pc \in [Threads -> UNION {Labels(t) : t \in Threads}] 
        /\ source \in Kinds \cup {"meta"}
    BY DEF IInv, TypeOK
  <1>2. CASE Loop
    BY <1>1, <1>2 DEF Loop, OtherStep
  <1>3. CASE Block
    BY <1>1, <1>3 DEF Block, OtherStep
  <1>4. CASE LockSubscriptions
    BY <1>1, <1>4 DEF LockSubscriptions, OtherStep
  <1>5. CASE CallSubscription
    BY <1>1, <1>5 DEF CallSubscription, OtherStep
  <1>6. CASE EventHandled
    BY <1>1, <1>6 DEF EventHandled, OtherStep
  <1>7. CASE UnlockSubscriptions
    BY <1>1, <1>7 DEF UnlockSubscriptions, OtherStep
  <1>8. CASE LockForRequest
    BY <1>1, <1>8 DEF LockForRequest, OtherStep
  <1>9. CASE RequestHandled
    BY <1>1, <1>9 DEF RequestHandled, OtherStep
  <1>10. CASE LockForState
    BY <1>1, <1>10 DEF LockForState, OtherStep
  <1>11. CASE StateHandled
    BY <1>1, <1>11 DEF StateHandled, OtherStep
  <1>12. CASE BeginSubscribe("delivery", "callback")
    BY <1>1, <1>12 DEF BeginSubscribe, Skip, OtherStep
  <1>13. CASE Subscribe("delivery", "callback")
    BY <1>1, <1>13 DEF Subscribe, OtherStep
  <1>14. QED
    BY <1>2, <1>3, <1>4, <1>5, <1>6, <1>7, <1>8, <1>9, <1>10, <1>11, <1>12, <1>13
       DEF DeliveryStep, DeliverEvent, DeliverRequest, DeliverState, CallbackSubscribes

\* The steps of the instance thread, as one kind of notification sees them.
LEMMA InstanceQueues ==
  ASSUME IInv, InstanceStep \/ OnEnable \/ RequestDisable, NEW kind \in Kinds
  PROVE  \/ ClearMeta
         \/ ClearQueue("event", "clearEvents", "clearStates")
         \/ ClearQueue("state", "clearStates", "clearRequests")
         \/ ClearQueue("request", "clearRequests", "clearSubscriptions")
         \/ OtherStep(kind)
  <1> USE DEF Move, Goto, At, Taking, Pending, AtMeta, BeingDelivered, BlockedOn,
              Producer, AwaitsClear, delivering, module, mutexes, bounds
  <1> SUFFICES ASSUME ~ClearMeta,
                      ~ClearQueue("event", "clearEvents", "clearStates"),
                      ~ClearQueue("state", "clearStates", "clearRequests"),
                      ~ClearQueue("request", "clearRequests", "clearSubscriptions")
               PROVE  OtherStep(kind)
    OBVIOUS
  <1>1. /\ pc \in [Threads -> UNION {Labels(t) : t \in Threads}] 
        /\ source \in Kinds \cup {"meta"}
    BY DEF IInv, TypeOK
  <1>2. CASE \/ LockModule("lockEnable", "ENABLING", "enable")
             \/ LockModule("lockDisable", "DISABLING", "disable")
    BY <1>1, <1>2 DEF LockModule, OtherStep
  <1>3. CASE BeginSubscribe("instance", "enable") \/ Subscribe("instance", "enable")
    BY <1>1, <1>3 DEF BeginSubscribe, Skip, Subscribe, OtherStep
  <1>4. CASE \/ UnlockModule("enable", "ENABLED", "enabled")
             \/ UnlockModule("enable", "DISABLED", "onDisable")
             \/ UnlockModule("disable", "DISABLED", "onDisable")
    BY <1>1, <1>4 DEF UnlockModule, OtherStep
  <1>5. CASE Skip("instance", "disable", "unsubscribe") \/ Unsubscribe
    BY <1>1, <1>5 DEF Skip, Unsubscribe, OtherStep
  <1>6. CASE ClearAlive \/ JoinDelivery
    BY <1>1, <1>6 DEF ClearAlive, JoinDelivery, Skip, OtherStep
  <1>7. CASE WakeUpAll
    BY <1>1, <1>7 DEF WakeUpAll, OtherStep
  <1>8. CASE ClearSubscriptions
    BY <1>1, <1>8 DEF ClearSubscriptions, OtherStep
  <1>9. CASE OnEnable
    <2>1. pc["delivery"] = "none"
      BY <1>9 DEF IInv, PhaseInv, AfterJoin, OnEnable
    <2>2. QED
      BY <1>1, <1>9, <2>1 DEF OnEnable, OtherStep
  <1>10. CASE RequestDisable
    BY <1>1, <1>10 DEF RequestDisable, Skip, OtherStep
  <1>11. QED
    BY <1>2, <1>3, <1>4, <1>5, <1>6, <1>7, <1>8, <1>9, <1>10
       DEF InstanceStep, EnableModule, DisableModule, OnDisable

\* What the producers do, as one kind of notification sees it.
LEMMA ProducerQueues ==
  ASSUME IInv, OnSubMsgReceived \/ OnRequestMsgReceived \/ OnPeerChange, NEW kind \in Kinds
  PROVE  \/ OtherStep(kind)
         \/ \E k \in Kinds :
              \/ \E to \in {"idle", DataLabel[k]} \cup (IF k = "event" THEN {"checkSize"} ELSE {}) :
                    Receive(Producer[k], k, to)
              \/ Enqueue(Producer[k], k, DataLabel[k], MetaLabel[k])
              \/ \E urgent \in BOOLEAN : EnqueueMeta(Producer[k], k, urgent, MetaLabel[k])
  <1> USE DEF Producer, DataLabel, MetaLabel
  <1>1. CASE CheckQueueSize
    <2>1. OtherStep(kind)
      BY <1>1 DEF CheckQueueSize, IInv, TypeOK, OtherStep, Move, Goto, At, Taking, Pending, AtMeta,
                  BeingDelivered, BlockedOn, delivering, module, mutexes, bounds
    <2>2. QED
      BY <2>1
  <1>2. CASE OnSubMsgReceived /\ ~CheckQueueSize
    BY <1>2 DEF OnSubMsgReceived, ReceiveEvent
  <1>3. CASE OnRequestMsgReceived
    BY <1>3 DEF OnRequestMsgReceived
  <1>4. CASE OnPeerChange
    BY <1>4 DEF OnPeerChange
  <1>5. QED
    BY <1>1, <1>2, <1>3, <1>4

(***************************************************************************)
(* The order of delivery.                                                  *)
(***************************************************************************)
\* What the order of one kind depends on does not change.
SameOrder(kind) ==
    /\ queues'[kind] = queues[kind] /\ received'[kind] = received[kind]
    /\ BeingDelivered(kind)' => BeingDelivered(kind) /\ current' = current
    /\ Pending(kind)' => Pending(kind)
    /\ BlockedOn(kind)' => BlockedOn(kind) \/ queues[kind] = <<>>

\* Such a step keeps the order.
LEMMA SameOrderKeeps ==
  ASSUME NEW kind \in Kinds, OrderAt(kind), BlockedAt(kind), SameOrder(kind)
  PROVE  OrderAt(kind)' /\ BlockedAt(kind)'
  BY DEF OrderAt, BlockedAt, SameOrder, Increasing, Handed

\* Steps of other kinds, and of the meta queue, are such steps.
LEMMA OthersOrder ==
  ASSUME IInv, NEW kind \in Kinds,
         \/ OtherStep(kind) \/ TakeMeta \/ ClearMeta
         \/ TakeData /\ source # kind
         \/ \E k \in Kinds \ {kind} : \E from, to : ClearQueue(k, from, to)
         \/ \E k \in Kinds \ {kind} : \E to : Receive(Producer[k], k, to) /\ to # DataLabel[kind] /\ (kind = "event" => to # "checkSize")
         \/ \E k \in Kinds \ {kind} : Enqueue(Producer[k], k, DataLabel[k], MetaLabel[k])
         \/ \E k \in Kinds, urgent \in BOOLEAN : EnqueueMeta(Producer[k], k, urgent, MetaLabel[k])
  PROVE  SameOrder(kind)
  <1> USE DEF Move, Goto, At, Pending, BeingDelivered, BlockedOn, SameOrder,
              Producer, DataLabel, MetaLabel, delivering, module, mutexes, bounds
  <1>1. /\ pc \in [Threads -> UNION {Labels(t) : t \in Threads}]
        /\ source \in Kinds \cup {"meta"} /\ queues \in [Kinds -> Seq(Nat)]
        /\ received \in [Kinds -> Nat]
    BY DEF IInv, TypeOK
  <1>2. CASE OtherStep(kind)
    BY <1>2 DEF OtherStep
  <1>3. CASE TakeMeta \/ ClearMeta
    BY <1>1, <1>3 DEF TakeMeta, ClearMeta
  <1>4. CASE TakeData /\ source # kind
    BY <1>1, <1>4 DEF TakeData
  <1>5. CASE \E k \in Kinds \ {kind} : \E from, to : ClearQueue(k, from, to)
    BY <1>1, <1>5 DEF ClearQueue
  <1>6. CASE \E k \in Kinds \ {kind} : \E to : Receive(Producer[k], k, to) /\ to # DataLabel[kind] /\ (kind = "event" => to # "checkSize")
    BY <1>1, <1>6 DEF Receive
  <1>7. CASE \E k \in Kinds \ {kind} : Enqueue(Producer[k], k, DataLabel[k], MetaLabel[k])
    BY <1>1, <1>7 DEF Enqueue
  <1>8. CASE \E k \in Kinds, urgent \in BOOLEAN : EnqueueMeta(Producer[k], k, urgent, MetaLabel[k])
    <2>1. PICK k \in Kinds, urgent \in BOOLEAN : EnqueueMeta(Producer[k], k, urgent, MetaLabel[k])
      BY <1>8
    <2>2. UNCHANGED <<queues, received, current>>
      BY <2>1 DEF EnqueueMeta
    <2>3. CASE BlockedOn("meta")
      <3>1. pc' = [pc EXCEPT ![Producer[k]] = "idle", !["delivery"] = "take"]
        BY <2>1, <2>3 DEF EnqueueMeta
      <3>2. QED
        BY <1>1, <2>2, <3>1
    <2>4. CASE ~BlockedOn("meta")
      <3>1. pc' = [pc EXCEPT ![Producer[k]] = "idle"] /\ source' = source
        BY <2>1, <2>4 DEF EnqueueMeta
      <3>2. QED
        BY <1>1, <2>2, <3>1
    <2>5. QED
      BY <2>3, <2>4
  <1>9. QED
    BY <1>2, <1>3, <1>4, <1>5, <1>6, <1>7, <1>8

\* Receiving a notification keeps the order: it is newer than all others.
LEMMA ReceiveOrder ==
  ASSUME IInv, NEW kind \in Kinds, NEW to, Receive(Producer[kind], kind, to),
         OrderAt(kind), BlockedAt(kind)
  PROVE  OrderAt(kind)' /\ BlockedAt(kind)'
  <1>1. received[kind] \in Nat /\ received'[kind] = received[kind] + 1 /\ queues' = queues
        /\ queues[kind] \in Seq(Nat) /\ current \in Nat
    BY DEF IInv, TypeOK, Receive
  <1>2. current' = current /\ BeingDelivered(kind)' = BeingDelivered(kind)
    BY DEF IInv, TypeOK, Receive, BeingDelivered, Goto, delivering, Producer
  <1>3. BlockedAt(kind)'
    BY DEF IInv, TypeOK, Receive, BlockedAt, BlockedOn, Goto, At, delivering, Producer
  <1>4. \A n \in Nat : Handed(kind, n) => n < received'[kind]
    BY <1>1 DEF Handed
  <1>5. \A n \in Nat : n < received'[kind] => Handed(kind, n)'
    BY <1>1 DEF Handed
  <1>6. \A i \in 1..Len(queues[kind]) : queues[kind][i] \in Nat
    BY <1>1
  <1>7. QED
    BY <1>1, <1>2, <1>3, <1>4, <1>5, <1>6 DEF OrderAt, Increasing

\* A number greater than all others is put at the end.
LEMMA AppendIncreasing ==
  ASSUME NEW q \in Seq(Nat), NEW e \in Nat, Increasing(q), \A i \in 1..Len(q) : q[i] < e
  PROVE  Increasing(Append(q, e))
  BY AppendProperties, SMTT(30) DEF Increasing

\* The rest of an increasing sequence is increasing, and greater than its head.
LEMMA TailIncreasing ==
  ASSUME NEW q \in Seq(Nat), q # <<>>, Increasing(q)
  PROVE  /\ Increasing(Tail(q)) /\ Head(q) = q[1] /\ 1 \in 1..Len(q)
         /\ \A i \in 1..Len(Tail(q)) : Tail(q)[i] = q[i + 1] /\ i + 1 \in 1..Len(q) /\ Head(q) < Tail(q)[i]
  <1>1. Len(q) \in Nat \ {0} /\ Len(Tail(q)) = Len(q) - 1 /\ Head(q) = q[1]
    BY HeadTailProperties, EmptySeq
  <1>2. \A i \in 1..Len(Tail(q)) : Tail(q)[i] = q[i + 1] /\ i \in Nat /\ i + 1 \in 1..Len(q)
    BY <1>1, HeadTailProperties
  <1>3. \A i \in 1..Len(Tail(q)) : 1 < i + 1 /\ 1 \in 1..Len(q)
    BY <1>1, <1>2
  <1>4. \A i \in 1..Len(Tail(q)) : q[1] < q[i + 1]
    BY <1>2, <1>3 DEF Increasing
  <1>5. Increasing(Tail(q))
    BY <1>2 DEF Increasing
  <1>6. QED
    BY <1>1, <1>2, <1>4, <1>5

\* Queueing a notification keeps the order: a waiting thread finds nothing older.
LEMMA EnqueueOrder ==
  ASSUME IInv, NEW kind \in Kinds, Enqueue(Producer[kind], kind, DataLabel[kind], MetaLabel[kind]),
         OrderAt(kind), BlockedAt(kind)
  PROVE  OrderAt(kind)' /\ BlockedAt(kind)'
  <1>1. /\ received[kind] \in Nat /\ received' = received /\ current \in Nat
        /\ queues[kind] \in Seq(Nat)
        /\ pc \in [Threads -> UNION {Labels(t) : t \in Threads}]
        /\ queues \in [Kinds -> Seq(Nat)]
    BY DEF IInv, TypeOK, Enqueue, bounds
  <1>2. Pending(kind) /\ ~Pending(kind)'
    BY <1>1 DEF Enqueue, Pending, At, Goto, Producer, DataLabel, MetaLabel
  <1>3. \A n \in Nat : (Handed(kind, n) => n < received[kind]) /\ (n <= received[kind] => Handed(kind, n)')
    BY <1>1, <1>2 DEF Handed
  <1>4. \A i \in 1..Len(queues[kind]) : queues[kind][i] \in Nat
    BY <1>1
  <1>5. CASE BlockedOn(kind)
    <2>1. queues[kind] = <<>> /\ queues' = queues /\ current' = received[kind]
      BY <1>5 DEF BlockedAt, Enqueue
    <2>2. pc'["delivery"] = "lock"
      BY <1>1, <1>5 DEF Enqueue
    <2>3. Handed(kind, current)'
      BY <1>1, <1>3, <2>1
    <2>4. Len(queues[kind]) = 0
      BY <2>1
    <2>5. OrderAt(kind)'
      BY <2>1, <2>3, <2>4 DEF OrderAt, Increasing
    <2>6. BlockedAt(kind)'
      BY <2>1 DEF BlockedAt
    <2>7. QED
      BY <2>5, <2>6
  <1>6. CASE ~BlockedOn(kind)
    <2>1. queues'[kind] = Append(queues[kind], received[kind]) /\ current' = current
      BY <1>1, <1>6 DEF Enqueue
    <2>2. /\ Len(Append(queues[kind], received[kind])) = Len(queues[kind]) + 1
          /\ Len(queues[kind]) \in Nat
          /\ \A i \in 1..Len(queues[kind]) : Append(queues[kind], received[kind])[i] = queues[kind][i]
          /\ Append(queues[kind], received[kind])[Len(queues[kind]) + 1] = received[kind]
      BY <1>1, AppendProperties
    <2>3. BeingDelivered(kind)' <=> BeingDelivered(kind)
      BY <1>1, <1>6 DEF BeingDelivered, Enqueue, Goto, Producer
    <2>4. ~BlockedOn(kind)'
      BY <1>1, <1>6 DEF BlockedOn, Enqueue, Goto, At, Producer
    <2>5. \A i \in 1..Len(queues[kind]) : queues[kind][i] < received[kind]
      BY <1>3, <1>4 DEF OrderAt
    <2>6. Increasing(queues'[kind])
      BY <1>1, <2>1, <2>5, AppendIncreasing DEF OrderAt
    <2>7. \A i \in 1..Len(queues'[kind]) : i \in 1..Len(queues[kind]) \/ i = Len(queues[kind]) + 1
      BY <2>1, <2>2
    <2>8. \A i \in 1..Len(queues'[kind]) : queues'[kind][i] \in Nat /\ queues'[kind][i] <= received[kind]
      BY <1>1, <1>4, <2>1, <2>2, <2>5, <2>7
    <2>9. BeingDelivered(kind)' =>
            /\ Handed(kind, current)'
            /\ \A i \in 1..Len(queues'[kind]) : current' < queues'[kind][i]
      <3>1. BeingDelivered(kind) => current < received[kind]
        BY <1>1, <1>3 DEF OrderAt
      <3>2. current' = current /\ (current < received[kind] => Handed(kind, current)')
        BY <1>1, <1>3, <2>1
      <3>3. QED
        BY <2>1, <2>2, <2>3, <2>7, <3>1, <3>2 DEF OrderAt
    <2>10. \A i \in 1..Len(queues'[kind]) : Handed(kind, queues[kind][i])'
      BY <1>3, <2>8
    <2>11. QED
      BY <2>4, <2>6, <2>9, <2>10 DEF OrderAt, BlockedAt
  <1>7. QED
    BY <1>5, <1>6

\* Taking the oldest notification keeps the order.
LEMMA TakeOrder ==
  ASSUME IInv, TakeData, OrderAt(source), BlockedAt(source)
  PROVE  OrderAt(source)' /\ BlockedAt(source)'
  <1>1. /\ source \in Kinds /\ source' = source /\ queues[source] # <<>>
        /\ queues[source] \in Seq(Nat) /\ received' = received
        /\ queues'[source] = Tail(queues[source]) /\ current' = Head(queues[source])
        /\ pc' = [pc EXCEPT !["delivery"] = "lock"]
        /\ pc \in [Threads -> UNION {Labels(t) : t \in Threads}]
    BY DEF IInv, TypeOK, TakeData, Move, Goto, bounds
  <1>. DEFINE k == source
              q == queues[k]
  <1>2. /\ Increasing(Tail(q)) /\ Head(q) = q[1] /\ 1 \in 1..Len(q)
        /\ \A i \in 1..Len(Tail(q)) : Tail(q)[i] = q[i + 1] /\ i + 1 \in 1..Len(q) /\ Head(q) < Tail(q)[i]
    BY <1>1, TailIncreasing DEF OrderAt
  <1>3. Pending(k)' <=> Pending(k)
    BY <1>1 DEF Pending, Producer
  <1>4. \A i \in 1..Len(q) : Handed(k, q[i])
    BY DEF OrderAt
  <1>5. \A n : Handed(k, n) => n <= received'[k] /\ (Pending(k)' => n < received'[k])
    BY <1>1, <1>3 DEF Handed
  <1>6. Increasing(queues'[k])
    BY <1>1, <1>2
  <1>7. \A i \in 1..Len(queues'[k]) :
           queues'[k][i] <= received'[k] /\ (Pending(k)' => queues'[k][i] < received'[k])
    BY <1>1, <1>2, <1>4, <1>5
  <1>8. /\ current' <= received'[k] /\ (Pending(k)' => current' < received'[k])
        /\ \A i \in 1..Len(queues'[k]) : current' < queues'[k][i]
    BY <1>1, <1>2, <1>4, <1>5
  <1>9. OrderAt(source)'
    BY <1>1, <1>6, <1>7, <1>8 DEF OrderAt, Handed
  <1>10. BlockedAt(source)'
    BY <1>1 DEF BlockedAt, BlockedOn, At
  <1>11. QED
    BY <1>9, <1>10

\* An empty queue is in order.
LEMMA ClearOrder ==
  ASSUME IInv, NEW kind \in Kinds, NEW from, NEW to, ClearQueue(kind, from, to),
         OrderAt(kind), BlockedAt(kind)
  PROVE  OrderAt(kind)' /\ BlockedAt(kind)'
  <1>1. /\ queues'[kind] = <<>> /\ received' = received /\ current' = current
        /\ (BeingDelivered(kind)' <=> BeingDelivered(kind)) /\ (Pending(kind)' <=> Pending(kind))
    BY DEF IInv, TypeOK, ClearQueue, BeingDelivered, Pending, Producer, Move, Goto, delivering, bounds
  <1>2. Len(<<>>) = 0
    OBVIOUS
  <1>3. OrderAt(kind)'
    BY <1>1, <1>2 DEF OrderAt, Handed, Increasing
  <1>4. BlockedAt(kind)'
    BY <1>1 DEF BlockedAt
  <1>5. QED
    BY <1>3, <1>4

\* Every step keeps the order of every kind.
LEMMA OrderStep ==
  ASSUME IInv, Next, NEW kind \in Kinds, OrderAt(kind), BlockedAt(kind)
  PROVE  OrderAt(kind)' /\ BlockedAt(kind)'
  <1> USE DEF Producer, DataLabel, MetaLabel
  <1>1. CASE SameOrder(kind)
    BY <1>1, SameOrderKeeps
  <1>2. CASE ~SameOrder(kind) /\ (OnSubMsgReceived \/ OnRequestMsgReceived \/ OnPeerChange)
    <2>1. ~OtherStep(kind)
      BY <1>2, OthersOrder
    <2>2. PICK k \in Kinds :
              \/ \E to \in {"idle", DataLabel[k]} \cup (IF k = "event" THEN {"checkSize"} ELSE {}) :
                    Receive(Producer[k], k, to)
              \/ Enqueue(Producer[k], k, DataLabel[k], MetaLabel[k])
              \/ \E urgent \in BOOLEAN : EnqueueMeta(Producer[k], k, urgent, MetaLabel[k])
      BY <1>2, <2>1, ProducerQueues
    <2>3. CASE k # kind
      <3>1. CASE \E to \in {"idle", DataLabel[k]} \cup (IF k = "event" THEN {"checkSize"} ELSE {}) :
                    Receive(Producer[k], k, to)
        <4>1. PICK to \in {"idle", DataLabel[k]} \cup (IF k = "event" THEN {"checkSize"} ELSE {}) :
                    Receive(Producer[k], k, to)
          BY <3>1
        <4>2. to # DataLabel[kind] /\ (kind = "event" => to # "checkSize")
          BY <2>3
        <4>3. QED
          BY <1>2, <2>3, <4>1, <4>2, OthersOrder
      <3>2. CASE Enqueue(Producer[k], k, DataLabel[k], MetaLabel[k])
        BY <1>2, <2>3, <3>2, OthersOrder
      <3>3. CASE \E urgent \in BOOLEAN : EnqueueMeta(Producer[k], k, urgent, MetaLabel[k])
        BY <1>2, <3>3, OthersOrder
      <3>4. QED
        BY <2>2, <3>1, <3>2, <3>3
    <2>4. CASE k = kind
      <3>1. ~\E urgent \in BOOLEAN : EnqueueMeta(Producer[k], k, urgent, MetaLabel[k])
        BY <1>2, OthersOrder
      <3>2. QED
        BY <2>2, <2>4, <3>1, ReceiveOrder, EnqueueOrder
    <2>5. QED
      BY <2>3, <2>4
  <1>3. CASE ~SameOrder(kind) /\ DeliveryStep
    <2>1. TakeData /\ source = kind
      BY <1>3, DeliveryQueues, OthersOrder
    <2>2. OrderAt(source) /\ BlockedAt(source)
      BY <2>1
    <2>3. OrderAt(source)' /\ BlockedAt(source)' /\ source' = source
      BY <2>1, <2>2, TakeOrder DEF TakeData
    <2>4. QED
      BY <2>1, <2>3 DEF OrderAt, BlockedAt, BlockedOn, BeingDelivered, Handed, Pending
  <1>4. CASE ~SameOrder(kind) /\ (InstanceStep \/ OnEnable \/ RequestDisable)
    <2>1. /\ ~OtherStep(kind) /\ ~ClearMeta
          /\ \A k \in Kinds \ {kind} : \A from, to : ~ClearQueue(k, from, to)
      BY <1>4, OthersOrder
    <2>2. \E from, to : ClearQueue(kind, from, to)
      BY <1>4, <2>1, InstanceQueues
    <2>3. QED
      BY <2>2, ClearOrder
  <1>5. QED
    BY <1>1, <1>2, <1>3, <1>4 DEF Next

\* A number less than all others is put in front.
LEMMA ConsIncreasing ==
  ASSUME NEW q \in Seq(Nat), NEW e \in Nat, Increasing(q), \A i \in 1..Len(q) : e < q[i]
  PROVE  Increasing(<<e>> \o q) /\ <<e>> \o q \in Seq(Nat)
  <1>1. /\ <<e>> \in Seq(Nat) /\ Len(<<e>>) = 1 /\ <<e>>[1] = e /\ Len(q) \in Nat
    OBVIOUS
  <1>2. /\ <<e>> \o q \in Seq(Nat) /\ Len(<<e>> \o q) = 1 + Len(q)
        /\ \A i \in 1..(1 + Len(q)) : (<<e>> \o q)[i] = IF i <= 1 THEN <<e>>[i] ELSE q[i - 1]
    BY <1>1, ConcatProperties
  <1>3. \A i \in 1..(1 + Len(q)) : i # 1 => i - 1 \in 1..Len(q) /\ ~(i <= 1)
    BY <1>1
  <1>4. SUFFICES ASSUME NEW i \in 1..(1 + Len(q)), NEW j \in 1..(1 + Len(q)), i < j
                 PROVE  (<<e>> \o q)[i] < (<<e>> \o q)[j]
    BY <1>2 DEF Increasing
  <1>5. j - 1 \in 1..Len(q) /\ (<<e>> \o q)[j] = q[j - 1]
    BY <1>1, <1>2, <1>4
  <1>6. CASE i = 1
    BY <1>1, <1>2, <1>5, <1>6
  <1>7. CASE i # 1
    <2>1. i - 1 \in 1..Len(q) /\ (<<e>> \o q)[i] = q[i - 1] /\ i - 1 < j - 1
      BY <1>1, <1>2, <1>4, <1>7
    <2>2. QED
      BY <1>5, <2>1 DEF Increasing
  <1>8. QED
    BY <1>6, <1>7

\* What is in flight is in order.
LEMMA OrderIsDelivered ==
  ASSUME IInv, NEW kind \in Kinds, OrderAt(kind)
  PROVE  Increasing(InFlight(kind))
  <1>. DEFINE q == queues[kind]
              r == received[kind]
              first == IF BeingDelivered(kind) THEN <<current>> \o q ELSE q
  <1>1. q \in Seq(Nat) /\ r \in Nat /\ current \in Nat /\ \A i \in 1..Len(q) : q[i] \in Nat
    BY SMTT(30) DEF IInv, TypeOK
  <1>2. pc[Producer[kind]] \in {DataLabel[kind]} \cup (IF kind = "event" THEN {"checkSize"} ELSE {}) <=> Pending(kind)
    BY DEF Pending, Producer
  <1>3. first \in Seq(Nat) /\ Increasing(first)
    BY <1>1, ConsIncreasing DEF OrderAt
  <1>4. InFlight(kind) = first \o (IF Pending(kind) THEN <<r>> ELSE <<>>)
    <2>1. <<>> \o q = q
      BY <1>1, ConcatEmptySeq
    <2>2. QED
      BY <1>2, <2>1 DEF InFlight
  <1>5. CASE ~Pending(kind)
    <2>1. InFlight(kind) = first
      BY <1>3, <1>4, <1>5, ConcatEmptySeq
    <2>2. QED
      BY <1>3, <2>1
  <1>6. CASE Pending(kind)
    <2>1. InFlight(kind) = Append(first, r)
      BY <1>1, <1>3, <1>4, <1>6, AppendIsConcat
    <2>2. \A i \in 1..Len(q) : q[i] < r
      BY <1>6 DEF OrderAt, Handed
    <2>3. \A i \in 1..Len(first) : first[i] < r
      <3>1. CASE BeingDelivered(kind)
        <4>1. current < r
          BY <1>6, <3>1 DEF OrderAt, Handed
        <4>2. <<current>> \in Seq(Nat) /\ Len(<<current>>) = 1 /\ <<current>>[1] = current /\ Len(q) \in Nat
          BY <1>1
        <4>3. /\ Len(first) = 1 + Len(q)
              /\ \A i \in 1..(1 + Len(q)) : first[i] = IF i <= 1 THEN <<current>>[i] ELSE q[i - 1]
          BY <1>1, <3>1, <4>2, ConcatProperties
        <4>4. \A i \in 1..(1 + Len(q)) : i # 1 => i - 1 \in 1..Len(q) /\ ~(i <= 1)
          BY <4>2
        <4>5. QED
          BY <2>2, <4>1, <4>2, <4>3, <4>4
      <3>2. CASE ~BeingDelivered(kind)
        BY <2>2, <3>2
      <3>3. QED
        BY <3>1, <3>2
    <2>4. QED
      BY <1>1, <1>3, <2>1, <2>3, AppendIncreasing
  <1>7. QED
    BY <1>5, <1>6

\* The order of every queue holds in every reachable state.
THEOREM OrderInvariant == Spec => []OrderInv
  <1>1. Init => OrderInv
    <2>1. SUFFICES ASSUME Init, NEW kind \in Kinds
                   PROVE  OrderAt(kind) /\ BlockedAt(kind)
      BY DEF OrderInv
    <2>2. queues[kind] = <<>> /\ Len(<<>>) = 0 /\ pc["delivery"] = "none"
      BY <2>1 DEF Init
    <2>3. QED
      BY <2>2 DEF OrderAt, BlockedAt, BlockedOn, BeingDelivered, Increasing
  <1>2. IInv /\ OrderInv /\ [Next]_vars => OrderInv'
    <2>1. SUFFICES ASSUME IInv, OrderInv, [Next]_vars, NEW kind \in Kinds
                   PROVE  OrderAt(kind)' /\ BlockedAt(kind)'
      BY DEF OrderInv
    <2>2. OrderAt(kind) /\ BlockedAt(kind)
      BY <2>1 DEF OrderInv
    <2>3. CASE UNCHANGED vars
      BY <2>2, <2>3 DEF vars, OrderAt, BlockedAt, BlockedOn, BeingDelivered, Handed, Pending, Increasing, At
    <2>4. QED
      BY <2>1, <2>2, <2>3, OrderStep
  <1>3. QED
    BY <1>1, <1>2, Invariance, PTL DEF Spec

\* Notifications of a kind reach the module in the order in which they were
\* received, each at most once, through enables, disables and urgent requests.
THEOREM NotificationsInOrder == Spec => []DeliveredInOrder
  <1>1. IInv /\ OrderInv => DeliveredInOrder
    BY OrderIsDelivered DEF OrderInv, DeliveredInOrder
  <1>2. QED
    BY <1>1, Invariance, OrderInvariant, PTL

(***************************************************************************)
(* Meta notifications.                                                     *)
(***************************************************************************)
\* The meta notifications of a kind can be counted.
LEMMA MetaInType ==
  ASSUME NEW q \in Seq(Kinds), NEW kind
  PROVE  /\ IsFiniteSet({n \in 1..Len(q) : q[n] = kind})
         /\ MetaIn(q, kind) \in Nat
  <1>1. IsFiniteSet(1..Len(q))
    BY FS_Interval
  <1>2. IsFiniteSet({n \in 1..Len(q) : q[n] = kind})
    BY <1>1, FS_Subset
  <1>3. QED
    BY <1>2, FS_CardinalityType DEF MetaIn

\* A meta notification in front is counted.
LEMMA MetaInShift ==
  ASSUME NEW q \in Seq(Kinds), NEW r \in Seq(Kinds), NEW kind, Len(r) = Len(q) + 1,
         \A i \in 1..Len(q) : r[i + 1] = q[i]
  PROVE  MetaIn(r, kind) = MetaIn(q, kind) + (IF r[1] = kind THEN 1 ELSE 0)
  <1>. DEFINE S == {n \in 1..Len(q) : q[n] = kind}
              T == {n \in 1..Len(r) : r[n] = kind}
              U == {n \in 2..Len(r) : r[n] = kind}
              f == [n \in S |-> n + 1]
  <1>1. Len(q) \in Nat /\ Len(r) = Len(q) + 1
    OBVIOUS
  <1>2. \A m \in U : m - 1 \in S /\ (m - 1) + 1 = m
    BY <1>1
  <1>3. \A n \in S : n + 1 \in U /\ n \in Nat
    BY <1>1
  <1>4. f \in Bijection(S, U)
    <2>1. f \in [S -> U]
      BY <1>3
    <2>2. \A a, b \in S : f[a] = f[b] => a = b
      BY <1>3
    <2>3. \A m \in U : \E n \in S : f[n] = m
      BY <1>2
    <2>4. f \in Injection(S, U)
      BY <2>1, <2>2 DEF Injection, IsInjective
    <2>5. f \in Surjection(S, U)
      BY <2>1, <2>3 DEF Surjection
    <2>6. QED
      BY <2>4, <2>5 DEF Bijection
  <1>5. IsFiniteSet(S) /\ Cardinality(S) \in Nat
    BY MetaInType, FS_CardinalityType
  <1>6. IsFiniteSet(U) /\ Cardinality(U) = Cardinality(S)
    <2>1. ExistsBijection(S, U)
      BY <1>4 DEF ExistsBijection
    <2>2. QED
      BY <1>5, <2>1, FS_Bijection
  <1>7. CASE r[1] = kind
    <2>1. T = U \cup {1} /\ 1 \notin U
      BY <1>1, <1>7
    <2>2. Cardinality(T) = Cardinality(U) + 1
      BY <1>6, <2>1, FS_AddElement
    <2>3. QED
      BY <1>6, <1>7, <2>2 DEF MetaIn
  <1>8. CASE r[1] # kind
    <2>1. T = U
      BY <1>1, <1>8
    <2>. HIDE DEF S, T, U
    <2>2. Cardinality(T) = Cardinality(S)
      BY <1>6, <2>1
    <2>3. Cardinality(S) + 0 = Cardinality(S)
      BY <1>5
    <2>4. MetaIn(r, kind) = Cardinality(T) /\ MetaIn(q, kind) = Cardinality(S)
      BY DEF MetaIn, S, T
    <2>5. QED
      BY <1>8, <2>2, <2>3, <2>4
  <1>9. QED
    BY <1>7, <1>8

\* So is one at the end.
LEMMA MetaInAppend ==
  ASSUME NEW q \in Seq(Kinds), NEW e \in Kinds, NEW kind
  PROVE  MetaIn(Append(q, e), kind) = MetaIn(q, kind) + (IF e = kind THEN 1 ELSE 0)
  <1>. DEFINE S == {n \in 1..Len(q) : q[n] = kind}
              r == Append(q, e)
              T == {n \in 1..Len(r) : r[n] = kind}
  <1>1. /\ Len(q) \in Nat /\ Len(r) = Len(q) + 1
        /\ \A i \in 1..Len(q) : r[i] = q[i]
        /\ r[Len(q) + 1] = e
    BY AppendProperties
  <1>2. IsFiniteSet(S) /\ Cardinality(S) \in Nat
    BY MetaInType, FS_CardinalityType
  <1>. HIDE DEF r
  <1>3. 1..Len(r) = 1..Len(q) \cup {Len(q) + 1} /\ Len(q) + 1 \notin 1..Len(q)
    BY <1>1
  <1>4. CASE e = kind
    <2>1. T = S \cup {Len(q) + 1} /\ Len(q) + 1 \notin S
      BY <1>1, <1>3, <1>4
    <2>2. Cardinality(T) = Cardinality(S) + 1
      BY <1>2, <2>1, FS_AddElement
    <2>3. QED
      BY <1>4, <2>2 DEF MetaIn, r
  <1>5. CASE e # kind
    <2>1. T = S
      BY <1>1, <1>3, <1>5
    <2>. HIDE DEF S, T
    <2>2. Cardinality(T) = Cardinality(S)
      BY <2>1
    <2>3. Cardinality(S) + 0 = Cardinality(S)
      BY <1>2
    <2>4. MetaIn(r, kind) = Cardinality(T) /\ MetaIn(q, kind) = Cardinality(S)
      BY DEF MetaIn, S, T
    <2>5. QED
      BY <1>5, <2>2, <2>3, <2>4 DEF r
  <1>6. QED
    BY <1>4, <1>5

\* Taking a meta notification takes one of its kind.
LEMMA MetaInTail ==
  ASSUME NEW q \in Seq(Kinds), q # <<>>, NEW kind
  PROVE  MetaIn(q, kind) = MetaIn(Tail(q), kind) + (IF Head(q) = kind THEN 1 ELSE 0)
  <1>1. /\ Tail(q) \in Seq(Kinds) /\ Head(q) = q[1] /\ Len(q) = Len(Tail(q)) + 1
        /\ \A i \in 1..Len(Tail(q)) : q[i + 1] = Tail(q)[i]
    BY HeadTailProperties, EmptySeq
  <1>2. \A t, r \in Seq(Kinds) : Len(r) = Len(t) + 1 /\ (\A i \in 1..Len(t) : r[i + 1] = t[i])
           => MetaIn(r, kind) = MetaIn(t, kind) + (IF r[1] = kind THEN 1 ELSE 0)
    BY MetaInShift
  <1>3. MetaIn(q, kind) = MetaIn(Tail(q), kind) + (IF q[1] = kind THEN 1 ELSE 0)
    BY <1>1, <1>2
  <1>4. QED
    BY <1>1, <1>3

\* An urgent meta notification is counted like any other.
LEMMA MetaInCons ==
  ASSUME NEW q \in Seq(Kinds), NEW e \in Kinds, NEW kind
  PROVE  MetaIn(<<e>> \o q, kind) = MetaIn(q, kind) + (IF e = kind THEN 1 ELSE 0)
  <1>1. <<e>> \in Seq(Kinds) /\ Len(<<e>>) = 1 /\ <<e>>[1] = e /\ Len(q) \in Nat
    OBVIOUS
  <1>2. /\ <<e>> \o q \in Seq(Kinds) /\ Len(<<e>> \o q) = 1 + Len(q)
        /\ \A i \in 1..(1 + Len(q)) : (<<e>> \o q)[i] = IF i <= 1 THEN <<e>>[i] ELSE q[i - 1]
    BY <1>1, ConcatProperties
  <1>3. \A i \in 1..Len(q) : i + 1 \in 1..(1 + Len(q)) /\ ~(i + 1 <= 1) /\ (i + 1) - 1 = i
    BY <1>1
  <1>4. \A i \in 1..Len(q) : (<<e>> \o q)[i + 1] = q[i]
    BY <1>2, <1>3
  <1>5. (<<e>> \o q)[1] = e /\ Len(<<e>> \o q) = Len(q) + 1
    BY <1>1, <1>2
  <1>. DEFINE r == <<e>> \o q
  <1>. HIDE DEF r
  <1>6. /\ r \in Seq(Kinds) /\ Len(r) = Len(q) + 1 /\ r[1] = e
        /\ \A i \in 1..Len(q) : r[i + 1] = q[i]
    BY <1>2, <1>4, <1>5 DEF r
  <1>7. MetaIn(r, kind) = MetaIn(q, kind) + (IF r[1] = kind THEN 1 ELSE 0)
    BY <1>6, MetaInShift
  <1>8. QED
    BY <1>6, <1>7 DEF r

\* Nothing of one kind is stranded.
NotStranded(kind) ==
    MetaCount(kind) >= Len(queues[kind]) \/ pc["instance"] \in AwaitsClear[kind]

One(b) == IF b THEN 1 ELSE 0

\* Where the meta notifications of a kind are counted.
LEMMA MetaCountIs ==
  ASSUME NEW kind \in Kinds
  PROVE  MetaCount(kind) = MetaIn(metaQueue, kind) + One(AtMeta(kind)) + One(Taking(kind))
  BY DEF MetaCount, MetaIn, AtMeta, Taking, One

\* Meta notifications that are neither added nor taken keep their number.
LEMMA MetaCountSame ==
  ASSUME NEW kind \in Kinds, MetaIn(metaQueue, kind)' = MetaIn(metaQueue, kind),
         AtMeta(kind)' <=> AtMeta(kind), Taking(kind)' <=> Taking(kind)
  PROVE  MetaCount(kind)' = MetaCount(kind)
  <1>1. One(AtMeta(kind))' = One(AtMeta(kind)) /\ One(Taking(kind))' = One(Taking(kind))
    BY DEF One
  <1>2. MetaCount(kind) = MetaIn(metaQueue, kind) + One(AtMeta(kind)) + One(Taking(kind))
    BY MetaCountIs
  <1>3. MetaCount(kind)' = MetaIn(metaQueue, kind)' + One(AtMeta(kind))' + One(Taking(kind))'
    BY DEF MetaCount, MetaIn, AtMeta, Taking, One
  <1>4. QED
    BY <1>1, <1>2, <1>3

\* A step that keeps the queue and the meta notifications of a kind.
LEMMA SameCountKeeps ==
  ASSUME NEW kind \in Kinds, NotStranded(kind), queues'[kind] = queues[kind],
         MetaCount(kind)' = MetaCount(kind),
         pc["instance"] \in AwaitsClear[kind] => pc'["instance"] \in AwaitsClear[kind]
  PROVE  NotStranded(kind)'
  BY DEF NotStranded

\* Receiving a notification keeps both.
LEMMA ReceiveCounts ==
  ASSUME IInv, NEW kind \in Kinds, NEW k \in Kinds,
         NEW to \in {"idle", DataLabel[k]} \cup (IF k = "event" THEN {"checkSize"} ELSE {}),
         Receive(Producer[k], k, to), NotStranded(kind)
  PROVE  NotStranded(kind)'
  <1>1. /\ pc \in [Threads -> UNION {Labels(t) : t \in Threads}]
        /\ pc[Producer[k]] = "idle" /\ pc' = [pc EXCEPT ![Producer[k]] = to]
        /\ UNCHANGED <<metaQueue, queues, source>>
    BY DEF IInv, TypeOK, Receive, At, Goto, delivering
  <1>2. /\ AtMeta(kind)' <=> AtMeta(kind)
        /\ Taking(kind)' <=> Taking(kind)
        /\ pc'["instance"] = pc["instance"]
    BY <1>1 DEF AtMeta, Taking, Producer, DataLabel, MetaLabel
  <1>3. MetaIn(metaQueue, kind)' = MetaIn(metaQueue, kind)
    BY <1>1 DEF MetaIn
  <1>4. QED
    BY <1>1, <1>2, <1>3, MetaCountSame, SameCountKeeps

\* Queueing a notification adds one to both, or hands it over for the meta
\* notification the delivery thread has taken.
LEMMA EnqueueCounts ==
  ASSUME IInv, NEW kind \in Kinds, NEW k \in Kinds,
         Enqueue(Producer[k], k, DataLabel[k], MetaLabel[k]), NotStranded(kind)
  PROVE  NotStranded(kind)'
  <1>1. /\ pc \in [Threads -> UNION {Labels(t) : t \in Threads}]
        /\ pc[Producer[k]] = DataLabel[k]
        /\ UNCHANGED <<metaQueue, source>> /\ queues \in [Kinds -> Seq(Nat)]
        /\ metaQueue \in Seq(Kinds)
    BY DEF IInv, TypeOK, Enqueue, At
  <1>2. \/ /\ BlockedOn(k)
           /\ pc' = [pc EXCEPT ![Producer[k]] = MetaLabel[k], !["delivery"] = "lock"]
           /\ queues' = queues
        \/ /\ ~BlockedOn(k)
           /\ pc' = [pc EXCEPT ![Producer[k]] = MetaLabel[k]]
           /\ queues' = [queues EXCEPT ![k] = Append(queues[k], received[k])]
    BY DEF Enqueue, Goto
  <1>3. MetaIn(metaQueue, kind)' = MetaIn(metaQueue, kind)
    BY <1>1 DEF MetaIn
  <1>4. pc'["instance"] = pc["instance"]
    BY <1>1, <1>2 DEF Producer
  <1>5. CASE k # kind
    <2>1. /\ AtMeta(kind)' <=> AtMeta(kind)
          /\ Taking(kind)' <=> Taking(kind)
      BY <1>1, <1>2, <1>5 DEF AtMeta, Taking, BlockedOn, At, Producer, DataLabel, MetaLabel
    <2>2. queues'[kind] = queues[kind]
      BY <1>1, <1>2, <1>5
    <2>3. QED
      BY <1>3, <1>4, <2>1, <2>2, MetaCountSame, SameCountKeeps
  <1>6. CASE k = kind
    <2>1. ~AtMeta(kind) /\ AtMeta(kind)'
      BY <1>1, <1>2, <1>6 DEF AtMeta, Producer, DataLabel, MetaLabel
    <2>2. MetaCount(kind) = MetaIn(metaQueue, kind) + 0 + One(Taking(kind))
      BY <2>1, MetaCountIs DEF One
    <2>3. MetaCount(kind)' = MetaIn(metaQueue, kind) + 1 + One(Taking(kind)')
      BY <1>3, <2>1 DEF MetaCount, MetaIn, AtMeta, Taking, One
    <2>4. MetaIn(metaQueue, kind) \in Nat
      BY <1>1, MetaInType
    <2>5. CASE BlockedOn(kind)
      <3>1. Taking(kind) /\ ~Taking(kind)' /\ queues' = queues
        BY <1>1, <1>2, <1>6, <2>5 DEF Taking, BlockedOn, At, Producer
      <3>2. MetaCount(kind)' = MetaCount(kind)
        BY <2>2, <2>3, <2>4, <3>1 DEF One
      <3>3. QED
        BY <1>4, <3>1, <3>2, SameCountKeeps
    <2>6. CASE ~BlockedOn(kind)
      <3>1. Taking(kind)' <=> Taking(kind)
        BY <1>1, <1>2, <1>6, <2>6 DEF Taking, Producer
      <3>2. Len(queues'[kind]) = Len(queues[kind]) + 1 /\ Len(queues[kind]) \in Nat
        BY <1>1, <1>2, <1>6, <2>6
      <3>3. MetaCount(kind)' = MetaCount(kind) + 1 /\ MetaCount(kind) \in Nat
        BY <2>2, <2>3, <2>4, <3>1 DEF One
      <3>4. QED
        BY <1>4, <3>2, <3>3 DEF NotStranded
    <2>7. QED
      BY <2>5, <2>6
  <1>7. QED
    BY <1>5, <1>6

\* Queueing a meta notification, or handing it over, moves it.
LEMMA EnqueueMetaCounts ==
  ASSUME IInv, NEW kind \in Kinds, NEW k \in Kinds, NEW urgent \in BOOLEAN,
         EnqueueMeta(Producer[k], k, urgent, MetaLabel[k]), NotStranded(kind)
  PROVE  NotStranded(kind)'
  <1>1. /\ pc \in [Threads -> UNION {Labels(t) : t \in Threads}]
        /\ pc[Producer[k]] = MetaLabel[k] /\ queues' = queues
        /\ metaQueue \in Seq(Kinds)
    BY DEF IInv, TypeOK, EnqueueMeta, At
  <1>2. \/ /\ BlockedOn("meta")
           /\ pc' = [pc EXCEPT ![Producer[k]] = "idle", !["delivery"] = "take"]
           /\ source' = k /\ metaQueue' = metaQueue
        \/ /\ ~BlockedOn("meta")
           /\ pc' = [pc EXCEPT ![Producer[k]] = "idle"]
           /\ source' = source
           /\ metaQueue' \in {<<k>> \o metaQueue, Append(metaQueue, k)}
    BY DEF EnqueueMeta, Goto
  <1>3. pc'["instance"] = pc["instance"]
    BY <1>1, <1>2 DEF Producer
  <1>4. MetaIn(metaQueue, kind) \in Nat
    BY <1>1, MetaInType
  <1>5. MetaCount(kind) = MetaIn(metaQueue, kind) + One(AtMeta(kind)) + One(Taking(kind))
    BY MetaCountIs
  <1>6. MetaCount(kind)' = MetaIn(metaQueue, kind)' + One(AtMeta(kind)') + One(Taking(kind)')
    BY DEF MetaCount, MetaIn, AtMeta, Taking, One
  <1>7. /\ AtMeta(kind) <=> k = kind \/ (AtMeta(kind) /\ k # kind /\ AtMeta(kind)')
        /\ AtMeta(kind)' <=> (AtMeta(kind) /\ k # kind)
    BY <1>1, <1>2 DEF AtMeta, Producer, MetaLabel
  <1>8. CASE BlockedOn("meta")
    <2>1. ~Taking(kind) /\ (Taking(kind)' <=> k = kind)
      BY <1>1, <1>2, <1>8 DEF Taking, BlockedOn, Producer
    <2>2. MetaIn(metaQueue, kind)' = MetaIn(metaQueue, kind)
      BY <1>2, <1>8 DEF MetaIn
    <2>3. MetaCount(kind)' = MetaCount(kind)
      BY <1>4, <1>5, <1>6, <1>7, <2>1, <2>2 DEF One
    <2>4. QED
      BY <1>1, <1>3, <2>3, SameCountKeeps
  <1>9. CASE ~BlockedOn("meta")
    <2>1. Taking(kind)' <=> Taking(kind)
      BY <1>1, <1>2, <1>9 DEF Taking, Producer
    <2>2. MetaIn(metaQueue, kind)' = MetaIn(metaQueue, kind) + One(k = kind)
      <3>1. /\ MetaIn(<<k>> \o metaQueue, kind) = MetaIn(metaQueue, kind) + (IF k = kind THEN 1 ELSE 0)
            /\ MetaIn(Append(metaQueue, k), kind) = MetaIn(metaQueue, kind) + (IF k = kind THEN 1 ELSE 0)
        BY <1>1, MetaInCons, MetaInAppend
      <3>2. MetaIn(metaQueue', kind) = MetaIn(metaQueue, kind) + (IF k = kind THEN 1 ELSE 0)
        BY <1>2, <1>9, <3>1
      <3>3. QED
        BY <3>2 DEF One, MetaIn
    <2>3. MetaCount(kind)' = MetaCount(kind)
      BY <1>4, <1>5, <1>6, <1>7, <2>1, <2>2 DEF One
    <2>4. QED
      BY <1>1, <1>3, <2>3, SameCountKeeps
  <1>10. QED
    BY <1>8, <1>9

\* Taking a meta notification turns it into the one the delivery thread goes by.
LEMMA TakeMetaCounts ==
  ASSUME IInv, NEW kind \in Kinds, TakeMeta, NotStranded(kind)
  PROVE  NotStranded(kind)'
  <1>1. /\ source = "meta" /\ source' = Head(metaQueue) /\ metaQueue # <<>>
        /\ metaQueue' = Tail(metaQueue) /\ UNCHANGED <<queues, pc>>
        /\ metaQueue \in Seq(Kinds) /\ pc["delivery"] = "take"
    BY DEF IInv, TypeOK, TakeMeta, At
  <1>2. MetaIn(metaQueue, kind) = MetaIn(Tail(metaQueue), kind) + One(Head(metaQueue) = kind)
    BY <1>1, MetaInTail DEF One
  <1>3. ~Taking(kind) /\ (Taking(kind)' <=> Head(metaQueue) = kind) /\ (AtMeta(kind)' <=> AtMeta(kind))
    BY <1>1 DEF Taking, AtMeta
  <1>4. MetaCount(kind) = MetaIn(metaQueue, kind) + One(AtMeta(kind)) + One(Taking(kind))
    BY MetaCountIs
  <1>5. MetaCount(kind)' = MetaIn(metaQueue', kind) + One(AtMeta(kind)') + One(Taking(kind)')
    BY DEF MetaCount, MetaIn, AtMeta, Taking, One
  <1>6. MetaIn(metaQueue', kind) = MetaIn(Tail(metaQueue), kind)
    BY <1>1
  <1>7. MetaIn(Tail(metaQueue), kind) \in Nat
    BY <1>1, HeadTailProperties, MetaInType
  <1>8. MetaCount(kind)' = MetaCount(kind)
    BY <1>2, <1>3, <1>4, <1>5, <1>6, <1>7 DEF One
  <1>9. QED
    BY <1>1, <1>8, SameCountKeeps

\* Taking a notification uses up its meta notification.
LEMMA TakeDataCounts ==
  ASSUME IInv, NEW kind \in Kinds, TakeData, NotStranded(kind)
  PROVE  NotStranded(kind)'
  <1>1. /\ source \in Kinds /\ source' = source /\ metaQueue' = metaQueue
        /\ queues[source] # <<>> /\ queues \in [Kinds -> Seq(Nat)]
        /\ queues' = [queues EXCEPT ![source] = Tail(queues[source])]
        /\ pc["delivery"] = "take" /\ pc' = [pc EXCEPT !["delivery"] = "lock"]
        /\ pc \in [Threads -> UNION {Labels(t) : t \in Threads}]
        /\ metaQueue \in Seq(Kinds)
    BY DEF IInv, TypeOK, TakeData, Move, At, Goto
  <1>2. MetaIn(metaQueue, kind)' = MetaIn(metaQueue, kind) /\ MetaIn(metaQueue, kind) \in Nat
    BY <1>1, MetaInType DEF MetaIn
  <1>3. (AtMeta(kind)' <=> AtMeta(kind)) /\ pc'["instance"] = pc["instance"]
    BY <1>1 DEF AtMeta, Producer
  <1>4. CASE source # kind
    <2>1. (Taking(kind)' <=> Taking(kind)) /\ queues'[kind] = queues[kind]
      BY <1>1, <1>4 DEF Taking
    <2>2. QED
      BY <1>2, <1>3, <2>1, MetaCountSame, SameCountKeeps
  <1>5. CASE source = kind
    <2>1. Taking(kind) /\ ~Taking(kind)'
      BY <1>1, <1>5 DEF Taking
    <2>2. MetaCount(kind) = MetaIn(metaQueue, kind) + One(AtMeta(kind)) + 1
      BY <2>1, MetaCountIs DEF One
    <2>3. MetaCount(kind)' = MetaIn(metaQueue, kind)' + One(AtMeta(kind)') + 0
      BY <2>1 DEF MetaCount, MetaIn, AtMeta, Taking, One
    <2>4. MetaCount(kind)' + 1 = MetaCount(kind) /\ MetaCount(kind)' \in Nat
      BY <1>2, <1>3, <2>2, <2>3 DEF One
    <2>5. Len(queues'[kind]) = Len(queues[kind]) - 1 /\ Len(queues[kind]) \in Nat
      <3>1. queues[kind] \in Seq(Nat) /\ queues'[kind] = Tail(queues[kind]) /\ queues[kind] # <<>>
        BY <1>1, <1>5
      <3>2. QED
        BY <3>1, HeadTailProperties
    <2>6. QED
      BY <1>3, <2>4, <2>5 DEF NotStranded
  <1>6. QED
    BY <1>4, <1>5

\* onDisable() empties the queues after the meta queue, each before it may be needed.
LEMMA ClearCounts ==
  ASSUME IInv, NEW kind \in Kinds, NotStranded(kind),
         \/ ClearMeta
         \/ ClearQueue("event", "clearEvents", "clearStates")
         \/ ClearQueue("state", "clearStates", "clearRequests")
         \/ ClearQueue("request", "clearRequests", "clearSubscriptions")
  PROVE  NotStranded(kind)'
  <1> USE DEF Move, At, Goto, AwaitsClear
  <1>1. /\ pc \in [Threads -> UNION {Labels(t) : t \in Threads}]
        /\ metaQueue \in Seq(Kinds) /\ queues \in [Kinds -> Seq(Nat)]
    BY DEF IInv, TypeOK
  <1>2. CASE ClearMeta
    BY <1>1, <1>2 DEF ClearMeta, NotStranded
  <1>3. CASE ~ClearMeta
    <2>1. PICK k \in Kinds :
            \/ k = "event" /\ ClearQueue(k, "clearEvents", "clearStates")
            \/ k = "state" /\ ClearQueue(k, "clearStates", "clearRequests")
            \/ k = "request" /\ ClearQueue(k, "clearRequests", "clearSubscriptions")
      <3>1. CASE ClearQueue("event", "clearEvents", "clearStates")
        BY <3>1
      <3>2. CASE ClearQueue("state", "clearStates", "clearRequests")
        BY <3>2
      <3>3. CASE ClearQueue("request", "clearRequests", "clearSubscriptions")
        BY <3>3
      <3>4. QED
        BY <1>3, <3>1, <3>2, <3>3
    <2>2. /\ queues' = [queues EXCEPT ![k] = <<>>]
          /\ metaQueue' = metaQueue /\ source' = source
      BY <2>1 DEF ClearQueue, delivering
    <2>3. /\ pc'["delivery"] = pc["delivery"] /\ pc'["poller"] = pc["poller"]
          /\ pc'["discovery"] = pc["discovery"]
      BY <1>1, <2>1 DEF ClearQueue
    <2>4. (AtMeta(kind)' <=> AtMeta(kind)) /\ (Taking(kind)' <=> Taking(kind))
      BY <2>2, <2>3 DEF AtMeta, Taking, Producer
    <2>5. MetaIn(metaQueue, kind)' = MetaIn(metaQueue, kind) /\ MetaIn(metaQueue, kind) \in Nat
      BY <1>1, <2>2, MetaInType DEF MetaIn
    <2>6. MetaCount(kind)' = MetaCount(kind) /\ MetaCount(kind) \in Nat
      <3>1. MetaCount(kind) = MetaIn(metaQueue, kind) + One(AtMeta(kind)) + One(Taking(kind))
        BY MetaCountIs
      <3>2. QED
        BY <2>4, <2>5, <3>1, MetaCountSame DEF One
    <2>7. CASE k = kind
      <3>1. Len(queues'[kind]) = 0
        BY <1>1, <2>2, <2>7
      <3>2. QED
        BY <2>6, <3>1 DEF NotStranded
    <2>8. CASE k # kind
      <3>1. queues'[kind] = queues[kind]
        BY <1>1, <2>2, <2>8
      <3>2. pc["instance"] \in AwaitsClear[kind] => pc'["instance"] \in AwaitsClear[kind]
        BY <1>1, <2>1, <2>8 DEF ClearQueue
      <3>3. QED
        BY <2>6, <3>1, <3>2, SameCountKeeps
    <2>9. QED
      BY <2>7, <2>8
  <1>4. QED
    BY <1>2, <1>3

\* Every step keeps enough meta notifications of every kind.
LEMMA StrandedStep ==
  ASSUME IInv, Next, NEW kind \in Kinds, NotStranded(kind)
  PROVE  NotStranded(kind)'
  <1>1. CASE OtherStep(kind)
    <2>1. MetaIn(metaQueue, kind)' = MetaIn(metaQueue, kind)
      BY <1>1 DEF OtherStep, MetaIn
    <2>2. MetaCount(kind)' = MetaCount(kind)
      BY <1>1, <2>1, MetaCountSame DEF OtherStep
    <2>3. QED
      BY <1>1, <2>2, SameCountKeeps DEF OtherStep
  <1>2. CASE ~OtherStep(kind) /\ (OnSubMsgReceived \/ OnRequestMsgReceived \/ OnPeerChange)
    <2>1. PICK k \in Kinds :
              \/ \E to \in {"idle", DataLabel[k]} \cup (IF k = "event" THEN {"checkSize"} ELSE {}) :
                    Receive(Producer[k], k, to)
              \/ Enqueue(Producer[k], k, DataLabel[k], MetaLabel[k])
              \/ \E urgent \in BOOLEAN : EnqueueMeta(Producer[k], k, urgent, MetaLabel[k])
      BY <1>2, ProducerQueues
    <2>2. QED
      BY <2>1, ReceiveCounts, EnqueueCounts, EnqueueMetaCounts
  <1>3. CASE ~OtherStep(kind) /\ DeliveryStep
    BY <1>3, DeliveryQueues, TakeMetaCounts, TakeDataCounts
  <1>4. CASE ~OtherStep(kind) /\ (InstanceStep \/ OnEnable \/ RequestDisable)
    BY <1>4, InstanceQueues, ClearCounts
  <1>5. QED
    BY <1>1, <1>2, <1>3, <1>4 DEF Next

\* Every queued notification has a meta notification that will have it taken, or
\* onDisable() is about to empty its queue: none is left behind.
THEOREM NoNotificationStranded == Spec => []NothingStranded
  <1>1. Init => NothingStranded
    <2>1. SUFFICES ASSUME Init, NEW kind \in Kinds
                   PROVE  NotStranded(kind)
      BY DEF NothingStranded, NotStranded
    <2>2. metaQueue \in Seq(Kinds) /\ Len(queues[kind]) = 0
      BY <2>1, EmptySeq DEF Init
    <2>3. MetaIn(metaQueue, kind) \in Nat
      BY <2>2, MetaInType
    <2>4. MetaCount(kind) = MetaIn(metaQueue, kind) + One(AtMeta(kind)) + One(Taking(kind))
      BY MetaCountIs
    <2>5. QED
      BY <2>2, <2>3, <2>4 DEF NotStranded, One
  <1>2. IInv /\ NothingStranded /\ [Next]_vars => NothingStranded'
    <2>1. SUFFICES ASSUME IInv, NothingStranded, [Next]_vars, NEW kind \in Kinds
                   PROVE  NotStranded(kind)'
      BY DEF NothingStranded, NotStranded
    <2>2. NotStranded(kind)
      BY <2>1 DEF NothingStranded, NotStranded
    <2>3. CASE UNCHANGED vars
      BY <2>2, <2>3 DEF vars, NotStranded, MetaCount
    <2>4. QED
      BY <2>1, <2>2, <2>3, StrandedStep
  <1>3. QED
    BY <1>1, <1>2, Invariance, PTL DEF Spec
=============================================================================
