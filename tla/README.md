# ZMF in TLA+

ZMF (ZeroMQ Module Framework) runs a module inside an *instance* that discovers other
instances by UDP multicast, talks to them over ZeroMQ, and enables and disables its
module as the modules it depends on come and go. This directory holds TLA+ models of its
concurrent core, the TLC configurations that check them, and proofs checked by TLAPS.

Source references are relative to the repository: `ZmfCore.cpp:105` is line 105 of
`src/core/ZmfCore.cpp`, and so on. `PROJECT.json` maps each definition to its lines.

## 1. Inventory

| Component | State | Operations | Interacts with |
|---|---|---|---|
| `ZmfCore` | six atomic flags, the instance thread | start, stop, join, `request*`, the instance loop, `enableModule`, `disableModule` | owns the three services and the module; called by the application and, for remote modules, by the messaging thread |
| `AbstractModule` | `moduleState_`, `internalMutex` | `INTERNAL_internalEnable/Disable`, callbacks | called by the core and the delivery thread |
| `ModuleEventDispatcher` | `alive_`, meta queue and three data queues, subscription handlers and their mutex | `onEnable`, `onDisable`, `subscribe`, the receivers, the delivery loop | filled by the messaging and the discovery thread, calls the module |
| messaging service | sockets, outstanding requests and replies, membership and subscription queues | connect and disconnect, publish, request, reply, the poller loop | calls the dispatcher; called by dispatcher and application threads |
| `PeerDiscoveryService` | own state, timeouts, stop flag | state multicasts, receiving, timing out peers | fills the registry, calls the core |
| `PeerRegistry` | peers by id and by type, active ones, states and additional states | add, remove, update, queries | written by discovery, read by the core and the module |
| `ZmfInstance` | none | builds the above from start options | |
| `ZmfOutReply`, `ZmfInReply` | future and promise of one request | send later, cancel | messaging |
| `MessageType`, ids, handles | value types | topic matching | |
| protobuf messages | the fields of a `StateBroadcast`, those set | copy, merge, measure, write, read | what discovery multicasts, and the ids in messages |
| configuration, logging, network utilities, console | I/O | | |

Five kinds of thread meet in this code: the application's, the instance thread, the
messaging poller, the discovery thread and, while the module is enabled, the delivery
thread. What is hard:

* **Flags read and then written.** `ZmfCore` marks its flags "TODO Atomic compare/exchange";
  requests of three threads interleave with the loop that serves them.
* **Start and stop order.** Discovery's callbacks throw once messaging is stopped; a state
  multicast after `Dead` would resurrect the instance elsewhere.
* **Two queues for one notification.** A data queue and the meta queue are filled in two
  steps and emptied in four, by different threads.
* **Two mutexes** taken in opposite orders, around callbacks that may call back.
* **An unreliable network.** Multicasts are lost, late and reordered; peers crash, restart,
  or share an id.
* **Replies without requests and requests without replies** when peers leave, services stop
  or a new service takes over an id.
* **Two views of one connection.** Sockets are opened and closed at once, subscriptions by
  the poller from a queue that a stop does not clear.
* **Messages that are cut.** A datagram larger than the buffer is read as far as it goes.

The correctness properties per component: for the core, that the flags, module, services
and announced state agree and that requests are served; for the dispatcher, that callbacks
are guarded, ordered, complete and over when `onDisable()` returns; for the registry, that
the indexes agree with each other and with what was multicast; for messaging, that a request
completes at most once with its own reply and that connections follow membership.
`PROJECT.json` lists the hazards one by one, those no property covers yet included.

## 2. Modules

| Module | What it is |
|---|---|
| `ZmfCore` | the lifecycle of one instance |
| `ZmfCoreRequests` | the same with a history variable for the last request |
| `MCZmfCore` | symmetry for TLC |
| `ZmfCore_proofs` | its inductive invariant and eight theorems |
| `ModuleEventDispatcher` | delivery to the module |
| `MCModuleEventDispatcher` | bounds for TLC |
| `ModuleEventDispatcher_proofs` | its inductive invariants and eight theorems |
| `PeerRegistry` | the registry's maps, operations and queries, as operators on a value |
| `PeerRegistry_proofs` | lemmas: each operation keeps the indexes in agreement, and the queries answer from them |
| `PeerView` | what discovery promises the core, in three actions |
| `PeerDiscovery` | several instances, their registries and timeouts, and the network |
| `MCPeerDiscovery` | three instances, two of which share an id, and symmetry for TLC |
| `PeerDiscovery_proofs` | its inductive invariants, five theorems and the refinement of `PeerView` |
| `FrameworkProto` | the generated code of `StateBroadcast` and `SenderId`, as operators on messages |
| `StateMulticast` | one receiver of multicasts, from the bytes of a datagram to the registry; extends `PeerRegistry` and `FrameworkProto` |
| `MCStateMulticast` | seven instances and what they announce |
| `StateMulticast_proofs` | the generated code as written and read back, its inductive invariant and seven theorems |
| `Messaging` | the messaging services of several instances and the sockets between them |
| `MCMessaging` | two instances and their bounds |
| `Messaging_proofs` | its inductive invariants and eight theorems |

`ZmfCore`, `ModuleEventDispatcher`, `PeerDiscovery` and `Messaging` stand side by side: each
has the parts it meets as its environment. For the core, discovery is an arbitrary change of
the registry; for the dispatcher, a producer of peer changes; for discovery, the core
announces states in the order `ZmfCore` does and is told of changes; for messaging, discovery
is what `PeerView` promises (joins and leaves of a peer alternate), and the dispatcher answers,
enables and disables. `StateMulticast` takes apart one thing `PeerDiscovery` takes for
granted: that what is received is what was sent.

### ZmfCore

Threads `main`, `instance` and `poller` have a program counter each; a label names the
statement about to run. A step reads or writes at most one thing another thread writes, so
an `if (!a && !b) ...; x = ...; y = ...` of the source is as many steps as it has accesses.
`flags` are the atomic members, `moduleState` is `AbstractModule::moduleState_`, `services`
says which of dispatcher (`alive_`), messaging and discovery run, `selfState` is discovery's
own state and `announced` the last state multicast. `peers` is what the core asks of the
registry: `activeTypes`, the dependencies with an active peer, and `duplicate`, whether a
peer with the own id is known. It changes arbitrarily while discovery runs, which covers
whatever multicasts and timeouts do; the dependencies are looked up one at a time.

`StartStep` is `startInstance()`, `StopStep` `stopInstance()` and `joinExecution()`,
`RequestEnable/Disable/Stop` with `ContinueRequest` the three `request*()` functions.
`InstanceStep` is `zmfInstanceLoop()` with `enableModule()`, `disableModule()` and
`onInstanceStopped()`; disabling is shared code that returns to one of three places, kept in
`after`. The poller makes requests only while messaging runs, and is joined when it stops.

The instance starts its services once: `startInstance()` on a stopped core, the destructor
and a `stopInstance()` on the instance thread itself are not modelled. A request by a thread
of the module's own is one by `main` or `poller`.

### ModuleEventDispatcher

Threads `poller`, `discovery`, `instance` and `delivery`. A notification is a number, unique
per kind and increasing in order of receipt. `queues[kind]` and `metaQueue` are the Poco
notification queues, with the library's hand-over: a notification enqueued while a thread
waits goes to that thread, and `wakeUpAll()` releases waiting threads only. An element of
`Topics` stands for one subscription the module may hold; which of them match an event is
left open. `HandlersMay` says whether callbacks throw or call `subscribe()`. The instance
thread runs `enableModule()` from `onEnable()` on and `disableModule()` through the end of
`onDisable()`; a module's `enable()` subscribes any number of times and succeeds or fails,
its `disable()` unsubscribes some.

System requests never touch a queue (they are the poller's requests of `ZmfCore`).
`publish()` and `sendRequest()` pass a call on.

### PeerRegistry and PeerDiscovery

A registry is a record: `all` and `active` are the two indexes (`allPeers` with
`allPeersByType`, `allActivePeers` with `allActivePeersByType`), `states` is `peerStates`. An
index has the set of its handles and, per type, the list in order of registration, as a map
whose keys come and go as the code's do. Every operation holds `peerRegistryLock`, so it is
one operator. `StateMulticast` keeps the additional states beside it.

An element of `Instances` is one *run* of an instance, and also names the handle its
multicasts leave behind (id, addresses, version, name of that run). A restart, or a second
instance with the same id, is another element with the same `UniqueId`. So the registry
tells whose addresses it kept, and the random `multicastIdentifier_` is the element itself.

Each run has two threads. The core's (`core`) calls `start()`, announces states in the order
of `ZmfCore`, and calls `stop()`; `multicastThread_` (`thread`) runs the loop: a period ends
(`UpdatePeerTimeouts`, then `HandleTimeout` for each late peer) or a multicast is received
(`Receive`). The registry is changed in one step and the core called in the next
(`PeerStateChange`), because the rest of the system runs in between; `notification` is the
call about to be made, `told` what the core heard so far. Tests of `isStarted_` and
`stopRequested_` are part of the step they guard: the core's thread alone changes them, and
after setting one it waits for the loop. A multicast is sent to any subset of the sockets
bound and stays in `network` until received, so it is lost, late, or overtaken; `Crash` ends
a process at any point.

What a starting instance multicasts first may be `Dead`, as in the code: `start()`
runs the loop before the core announces `Inactive`.

Left out: a `start()` that fails, packets no instance has sent, a random identifier drawn
twice, the destructor.

### FrameworkProto and StateMulticast

A message is a function whose domain are the fields with their has-bit set, so `has_x()` is
membership, an accessor of a field not set returns the default, and `MergeFrom()` overlays
domains. On the wire every field takes one unit, and a string, bytes or the nested `SenderId`
a unit for the length and one for each of its own. That is enough to have a prefix of the
bytes be what the generated parser makes of it: it reads field after field, sets the has-bit
of a string before it fills it, and gives up at the first that breaks off.

In `StateMulticast` every multicast an instance sends in its life (`Announced`) may be the
next to arrive, any number of times: losses, delays and reordering without limit, which is
why it has no network. `Receive` cuts the datagram to the buffer, parses it, ignores whether
that worked, as `receiveMulticasts()` does, and hands over a copy. The other actions are the
branches of `processIncomingMulticast()`; storing the additional state and storing the state
are two steps, because the registry is unlocked in between. `incoming` is a history variable
with what was sent. What the core is told is the business of `PeerDiscovery`. No run has the
identifier 0 (`IdentifierAssumption`): a multicast that lost its identifier reads as 0 there,
and the code, which draws it at random without excluding 0, would then take one with its id for
its own.

Left out: the number of bytes of a varint, unknown fields, reflection; the thread that sends.

### Messaging

An instance in its `r`-th run has the address `<<i, r>>`, since every `start()` binds new
ports. `sockets[i][j]` is the entry of `map_sockets_req` and says which run of `j` it leads
to; `registry[i][j]` is the run whose handle discovery has; `changes` is
`queue_membership_changes`, `notified` the notifications about it, `connected` what
`socket_sub` is connected to. A request has the id the code gives it, a number that starts at
0 in each service, and, for the properties only, the run it was sent in. `futures` has one
entry per request of the service: its promise is in `outstanding_requests` while it is
`waiting`, then it was answered, failed, or broken by an erase. `replies` is
`outstanding_replies`, and `handling` what the module was given to answer.

`Start`, `Stop`, `LeavePoller`, `CloseSockets` and `ClearState` are `start()` and `stop()`
in the steps at which other threads can come between; `sendRequest()` is three steps for its
three critical sections. `HandleNotify` and `Receive` are the poller. `PeerJoin`, `PeerLeave`
and `InternalConnect` are connections, from discovery and from a peer's hello. A service that
stopped may be started again, and then finds what `stop()` did not clear (`empty()` only asks)
and the ids go on; the tests do this (`zmqTests.cpp:134`). `Replace` ends a service with all it
had in memory, because the process ends or `ZmfInstance::startInstance()` makes a new one for
the same id (`Replaced`); its ids start again.

A channel is FIFO between two addresses. Closing a socket loses any suffix of what it holds
(linger is 0), and nothing else is lost.

Left out: events (`publish()`, `subscribe()` and the subscription queue), the connection of an
instance to itself, a `start()` that cannot bind, full socket buffers.

## 3. What is checked

| Run | Checks | Instance |
|---|---|---|
| `core` | invariants and `DeathIsFinal` | two dependencies, all start options, both outcomes of `enable()`, requests by both callers; 0.9 million states |
| `core_live` | `StopCompletes`, `DisableIsServed`, `LostDependencyDisables`, `DuplicateDisables`, `EnableIsTakenUp` | two dependencies, `enable()` succeeds, requests by remote modules; 0.2 million states |
| `core_stop` | violated: `AcceptedStopIsHonoured` | one dependency, requests by remote modules |
| `core_enable` | violated: `LastEnableIsHonoured` | the same |
| `dispatcher` | invariants; enabling ends, everything is delivered | one subscription, buffer of 1, 2 events, 2 requests, 1 peer change, 2 enables; 0.6 million states |
| `dispatcher_disable` | violated: `DisableStopsThread` | callbacks that only return, no buffer limit |
| `dispatcher_enable` | violated: `EnableReachesModule` | the same |
| `discovery` | invariants and `StoppedIsSilent` | one listener, two peers with one id, timeout after 1 period, 2 multicasts in flight; 0.5 million states |
| `discovery_live` | `DeadPeerIsForgotten`, `LivePeerIsKnown`, `PeerView` | a listener that hears two instances with one id, one of which stops or crashes, 1 multicast in flight; 57 thousand states |
| `messaging` | invariants | `a` asks and has two runs, stops, starts again or is replaced; `b` answers, is enabled and disabled, ends at any time, and its discovery announces two joins; requests to module and core; 1.6 million states |
| `messaging_live` | `RequestsComplete`, `PeersAreSubscribed`, `StopReturns` | `a` asks and may stop, `b` is enabled and disabled and may be replaced once, either joins the other once; 0.1 million states |
| `multicasts` | invariants | a receiver, its twin, a peer, its restart, two more of its type, one with a long name; 64 thousand states |

**Core.** `FailedStartIsClean`: a start that fails leaves no service running, whichever of its
steps failed. `DiscoveryNeedsMessaging`: discovery's callbacks find messaging alive.
`EnabledModuleHasServices`: a module that is not disabled has all services.
`AgreementAtLoopHead`: the five records of "active" agree between two passes of the loop.
`StoppedMeansDown` and `DeathIsFinal`: `isStopped()` means down, and `Dead` is the last word.
`StopCompletes`, `DisableIsServed`, `EnableIsTakenUp`: requests are served.
`LostDependencyDisables`, `DuplicateDisables`: the module does not stay active when it must
not. The first speaks of each dependency for itself: the lookups are made one by one, so with
two that take turns the loop may find both, for as long as they do.

**Dispatcher.** `CallbacksAreGuarded`: a callback runs under the module mutex in an enabled
module, so `disable()` never overlaps one. `DeliveredInOrder`, `NothingStranded`: per kind,
in order, at most once, and no queued notification lacks a meta notification.
`EventQueueBounded`: the limit holds. `DisabledIsQuiet`: nothing survives `onDisable()`.
`EnableAndDisableEnd` and `EverythingIsDelivered`: the two liveness properties.

**Registry and multicasts** (run `multicasts`). `RegistryAgrees`: the four maps and the states
describe the same peers after every operation. `QueriesAnswerFromStates`: the queries answer
from that, the dependency check of the core among them; `getPeerState()` does for registered
peers only. `ReadAsWritten`: sizes, writer, parser
and copy agree with each other, and of a message that was cut what is read is true as far as
it goes. `RecognizesItself`: an instance drops its own multicasts and those only.
`StatesBelongTogether`: a peer's state and additional state were announced together.

**Discovery.** `CoreIsTold`: the core hears of every change with the old state it knew, which
the dispatcher relies on to connect and disconnect. `StoppedIsSilent`: when `stop()` returns
nothing more reaches registry, core or network. `DeadPeerIsForgotten` and `LivePeerIsKnown`:
with losses, late multicasts and duplicates, a peer gone is forgotten for good, one that stays
is known again and again, though its twin's `Dead` removes it. `ViewSpec`: discovery
implements `PeerView`.

**Messaging.** `ConnectionsInStep`: the notifications lag behind the queue by what the service
found in it at its start, never by more; where it found nothing, an instance that has read its
queue is subscribed to the peers it can send requests to. `RepliesMatch`: a reply completes
the request it answers, though only a number connects them. `OneReply`: a request has at most
one reply, however often the module answers. `StoppedReleasesWaiters`: after `stop()` nobody
waits for a reply any more, whatever calls it raced with. `RequestsComplete`: over an
undisturbed link, every request is completed that the module does not keep.
`PeersAreSubscribed`: the queue is worked off. `StopReturns`: `stop()` comes to an end.

**Exceptions the properties name.** The code does not keep every promise, and properties that
do hold say from what they except themselves. `Orphaned` (core): the instance thread left
before `isStarted_` was set. `BlockingCallsReturn` (core): `StopCompletes` and
`EnableIsTakenUp` are about an instance thread that does not hang in the module mutex, the
module's callbacks or the join of `onDisable()`, which the dispatcher's violated runs show it
may; `DisableIsServed` and the two after it need no such premise, because `moduleActive_` is
cleared before, and set after, all that may block. `Hung` (dispatcher): a lost wake-up, an
orphaned meta notification, a leaked module mutex, the lock-order inversion, and `subscribe()`
in an event callback. `EnableAndDisableEnd` says these five are *all* the ways in which the
instance thread can hang there. `RecognizesItself`: a multicast larger than the buffer (2048
bytes, `PeerDiscoveryService.cpp:196`) has lost the last field, the identifier; if it was the
instance's own, the instance registers itself as a peer with its own id, and is no longer
unique. `StatesBelongTogether` has the same exception: such an additional state arrives cut;
and it says nothing of the moment between the two steps (`PeerDiscoveryService.cpp:284` and
`:291`), in which another thread may see the new additional state with the old state.
`RepliesMatch` and `OneReply`: a new service starts its ids at 0, so a reply to a request of
its predecessor may complete one of its own. `RequestsComplete` (`Kept`): a module may answer
nothing (`NO_REPLY`), throw, or never see a request that arrived before `enable()`, and the
request then stays with it. `ConnectionsInStep` and `PeersAreSubscribed`: changes a stop left
in the queue (`leftOver`), and, for subscriptions without a socket, the old address of a peer
that was restarted: a hello or a join of a known peer is ignored, and a leave disconnects the
address discovery has, which may be another. `StopReturns` (phase `blocked`): a
`sendRequest()` that passed `checkAlive()` finds its socket closed, and throws with
`lock_map_sockets_req` held, on which `stop()` then waits for ever
(`ZmqZmfMessagingServiceImplementation.cpp:325`); or the process ends, because the exception
of a reply to a system request leaves the poller thread.

**What the violated runs show.**

1. `core_stop`: `startInstance()` clears `stopRequested_` (`ZmfCore.cpp:105`) after requests
   are accepted, and a stop between lines 106 and 110 ends the thread without a shutdown.
2. `core_enable`: an enable request made while a disable request is pending is ignored
   (`ZmfCore.cpp:306`).
3. `dispatcher_disable`: the delivery thread tests `alive_`, `onDisable()` clears it and wakes
   nobody, the thread waits, the join never returns (`ModuleEventDispatcher.cpp:66`, `:174`).
4. `dispatcher_enable`: a request delivered before the module is enabled leaves the module
   mutex locked (`ModuleEventDispatcher.cpp:250`).

Seen while modelling, stated as exceptions by the properties that hold, and without a run of
their own:

* `stop()` calls `empty()` where it means to clear
  (`ZmqZmfMessagingServiceImplementation.cpp:166`), though `IZmfMessagingService.hpp:36` says it
  "will remove any state": after a restart the poller applies the old changes, each one late,
  and does not come to the newest (`ConnectionsInStep` says by how many).
* A request that meets a socket closed by `stop()` throws with `lock_map_sockets_req` held
  (`:325`), and `stop()` waits for that lock for ever (phase `blocked`, `StopReturns`).
* `removeModule()` leaves the state of a peer behind, and `getPeerState()` returns it where
  `PeerRegistry.hpp:203` says `Dead` (`QueriesAnswer`).
* Two dependencies that take turns are found active one after the other, and the module is
  activated although `ZmfCore.cpp:211` says both are active "now"; a later pass of the loop
  disables it (`LostDependencyDisables`).

Seen and in no property: the handle of a peer
that restarts within the timeout keeps the old version and addresses; the module's name is not
checked, and one too long for the buffer makes its instance unknown to everybody, because the
state, which follows it, then reads as 0, `Dead`; the copy of a future reply a module keeps
never gets the service the dispatcher injects into its own (`ZmfOutReply.hpp:81` moves neither
service nor condition), so `sendFutureReply()` waits for ever. `Messaging` lets a module answer
at any time, which an immediate reply to a slow module already does.

**Bounds.** No variable of `ZmfCore` is unbounded; two dependencies let one be found and the
other be missing, and more add only more lookups. `core` has both callers and failing enables;
`core_live` has one caller and `enable()` succeeds, since more is too many states for
liveness: what two callers do to each other is checked for the invariants only. In the
dispatcher `MaxReceived` bounds the notifications of each kind and `MaxEnables` the enables.
One topic is enough: subscriptions differ in nothing. Two of a kind make order and the buffer
limit visible, two enables let what one leaves behind meet the next, and one peer change meets
every phase. `CHECK_DEADLOCK FALSE` is set for the dispatcher because it really can stop, in
the situations above and when the bounds are used up; in `ZmfCore` the end of the instance is
the action `Terminated`. In discovery `MaxInFlight` bounds the multicasts on their way: two
let an old one arrive after a new one. In `discovery_live` there is room for one: what is
received comes from either twin in any order, and the twin that must not be lost is not in
`Ending`. Only one instance listens in the runs, since a registry depends on what reaches its
owner and on nothing another registry holds. A timeout after one period instead of four keeps
the race of a late multicast with the removal. `DisableEqualModuleInterconnect` is empty in
the runs (with the option an instance only drops more); the theorems hold for every value of
it.

In `StateMulticast` nothing is unbounded: the state is a registry of five ids and one message.
The buffer has twelve units, the least with which a multicast with an additional state fits,
is cut within it, or within the name; two versions under one id and three active peers of one
type make the queries differ. In `Messaging` `MaxRuns` bounds the starts, `MaxJoins` the joins
discovery announces (a leave needs a join) and `MaxRequests` the requests of a run. Two
instances make every pair of ends of a connection, the hello is what connects the other way,
and the two runs of the instance that asks let everything the first left behind meet the
second: messages on their way, its peer's socket to the old address, queued changes, ids that
start again. Its peer joins twice, before and after; in `messaging_live` the peer is the one
that crashes and has a second run. Requests of one run are told apart by their ids, which two
runs already have equal and different. `CHECK_DEADLOCK FALSE` is set for `Messaging` because
bounds on starts, joins and requests end its behaviours and a blocked `stop()` really is one.

**Fairness.** Weak, for each thread inside a call: the operating system schedules it, the loop
polls every 100 ms. The core does not assume that its instance thread returns from a call that
may block (`InBlockingCall`: the module mutex, callbacks, joins); the dispatcher, where these
are modelled, assumes that callbacks return. No request, message or registry change is ever
forced, and neither is a mutex given to a thread that competes for it for ever. Discovery adds
two strong fairness assumptions: a period ends again and again in which no copy of the
multicast is lost (the clock runs while the loop also receives, and the network does not lose
every multicast), and when multicasts of a sender reach the socket again and again, one is
received at last, whoever else sends. `Messaging` is weakly fair to each step of `stop()` and
`sendRequest()`, and to the poller for each of its inputs; no join, leave, stop, enable,
request or answer of a module is forced. The poller serves events before notifications and
those before messages, so this assumes that events and notifications do not come faster than
it handles them for ever.

**Seeded faults.** For each property a definition has a faulty form next to it ("Seeded
fault" in a comment, not used by the specification): an omitted guard, a wrong order, a
missing unlock. Replacing the definition by it violates the property.

## 4. What is proved

TLAPS proves for every value of the constants (all options, callers and outcomes, any set of
instances, dependencies, topics, ids and types, every buffer size, any number of runs,
requests and notifications). Every invariant the passing runs check, and both action
properties (`DeathIsFinal`, `StoppedIsSilent`), are stated by a theorem:

| Module | Theorem | States |
|---|---|---|
| `ZmfCore_proofs` | `TypeCorrect`, `FailedStartLeavesNothing`, `DiscoveryHasMessaging`, `ModuleHasServices`, `LoopHeadAgrees`, `StoppedIsDown` | the invariants of run `core` |
| | `DeadStaysDead` | `DeathIsFinal` |
| `ModuleEventDispatcher_proofs` | `TypeCorrect`, `CallbacksGuarded`, `QuietWhenDisabled`, `EventQueueWithinBound`, `NotificationsInOrder`, `NoNotificationStranded` | the invariants of run `dispatcher` |
| `PeerDiscovery_proofs` | `TypeCorrect`, `CoreAlwaysTold` | the invariants of run `discovery` |
| | `SilentWhenStopped` | `StoppedIsSilent` |
| | `ImplementsPeerView` | the initial states and steps of `PeerView` |
| | `RegistriesAgree` | `IndexesAgree` of every registry, which no run of `PeerDiscovery` checks |
| `StateMulticast_proofs` | `TypeCorrect`, `WrittenIsRead`, `RecognizesOwnOnly`, `AnnouncedTogether`, `RegistryStaysInAgreement`, `QueriesAreAnswered` | the invariants of run `multicasts` |
| `Messaging_proofs` | `TypeCorrect`, `RepliesMatchRequests`, `StopReleasesWaiters`, `ConnectionsStayInStep`, `RequestsHaveOneReply` | the invariants of run `messaging` |

`Invariance` of `ZmfCore_proofs`, `ModuleEventDispatcher_proofs` and `PeerDiscovery_proofs`,
`OrderInvariant`, `BaseInvariant`, `KnownInvariant`, `OneReplyInvariant` and
`MulticastInvariant` state the inductive invariants these rest on. Few of the properties are
inductive alone: they speak of one position (the loop head, a callback, a reply that arrived),
and a step into it needs what held at the position before.

*Core.* Before the instance thread exists, `BootInv` follows `main` through `startInstance()`,
its two failures included.
Afterwards `RunInv` has four parts over the position of the instance thread: `ServicesInv`
(which services run), `ModuleInv` (whether the module is active, and its state),
`BroadcastInv` (what is announced) and `ShutdownInv` (how `isStarted_`, `isStopped_` and the
end of `startInstance()` relate, which is where the race at line 110 enters: a thread that
left early must not count as stopped). Requests only change flags these parts do not mention,
which is why no interleaving of callers disturbs them. One lemma per action group shows that
types are kept, one that `IInv` is.

*Dispatcher.* `MutexInv` says who owns which mutex where, `PhaseInv` ties module state and
`alive` to the instance thread, and `BufferInv` says that the poller, having tested the
length, still has room when it enqueues: it alone fills the queue. `OrderInv` is about the
queues of one kind: what is queued is increasing, not newer than what the producer has handed
on, and newer than what is being delivered; a delivery thread waits only on an empty queue,
without which the hand-over of a notification to a waiting thread could overtake. That nothing
is stranded is inductive on top of these: a lemma for each way a step treats the queues (29 of
the 36 steps leave them alone) compares the length of a queue with the number of meta
notifications of its kind. That number is the cardinality of a set of positions, and appending,
prepending and removing one are bijections, so no induction is needed.

*Registry.* `RegistryOK` says that a registry has its types, that each index agrees with a set
of handles (each type that has a handle, and no other, is a key, with a list of exactly its
handles, none twice), the active one with those whose state is `Active`. `PeerRegistry_proofs`
shows that `AddModule`, `RemoveModule` and `UpdatePeerState` keep it and that the queries then
answer from the states. Removal from a list is that of the first match, a library operator
without recursion.

*Discovery.* `RegistryInv` says that ids are unique in a registry and registered peers have a
state other than `Dead`, whatever stale states remain; `ToldInv` that registry and core
differ in nothing but the pending notification; `TimedOutInv` that late handles are still
registered when their turn comes, without which a removed peer would be reported dead twice;
`PhaseInv` that a stopped instance has no running thread. One lemma per registry operation
says what it does to the states, one per action that it keeps the invariant. In the
refinement a change of a registry is `Learn`, `PeerStateChange` is `Tell`, `Crash` is
`Forget` (or a stutter), and every other step stutters. `TypeCorrect` needs `TInv`: the indexes
agree (from the lemmas above), nobody is registered before `start()`, and a timeout goes one
past the limit at most, because a peer that is there has its turn in the same pass, unless the
service is asked to stop, after which nothing is counted.

*Multicasts.* The generated code comes first. `Layout` lists where each unit of a multicast is
in what is written; `Read` what is read of its first `c` units, for every `c`. Writing and
reading are explicit sequences and `CHOOSE` of a position, so their lemmas are by cases over
the fields. `SInv` then says that the multicast at hand was announced and is what `Read`
says of the part within the buffer (so its id, state and handle are what was sent or the
default), that the registry is in agreement, and that the state and additional state stored
for a peer were announced together, but for the one peer whose update is between its two steps.

*Messaging.* `BaseInv` has the types, that nobody knows an address before the run that has it
(`AddressInv`), and what a service has left in each phase (`PhaseInv`). With it
`StoppedReleasesWaiters` is inductive. `ConnectionsInStep` follows from two invariants that are:
`QueueInStep`, that the queue, whatever a stop left in it, results in the sockets there are (the
newest change about an address decides), and `LagInv`, that queue and notifications differ by what
the stop left. `RepliesMatch` needs
`KnownInv`: every request and reply in a channel or in the hands of a module has an id that its
asker gave out, and a service at least as old as the run it names has that request under that id.
`OneReply` needs `OneReplyInv`: as long as an instance had no predecessor, each of its requests
is in one place at most (as the request or its reply in one channel, or outstanding at one
instance), and nowhere before it is sent and after it was answered. Every step of instance `i`
leaves the others' part alone (`OthersKept`), so each invariant has one lemma per action of
`i`, and one for all other instances.

The proofs changed the models in three places. `UpdatePeerState` was a `CASE` with overlapping
guards and left open which applied; it is the `IF ... ELSE IF` of the code now. Of a multicast
that lost only its identifier the additional state is complete, so `StatesBelongTogether` has
`IsPrefix` where it had the strict form. And `IdentifierAssumption` came to light.

The constants' assumptions are in the modules that declare them: options and outcomes are
Booleans, callers are threads, the buffer sizes, the timeout and the bounds are natural numbers,
every instance has an id and every id a type, ports and id of a multicast fit the buffer, and no
run has the identifier 0.

**Only model-checked:** everything that needs fairness, which is beyond this prover
(`ENABLED` and the fairness of a refinement mapping): `StopCompletes`, `DisableIsServed`,
`EnableIsTakenUp`, `LostDependencyDisables`, `DuplicateDisables`, `EnableAndDisableEnd`,
`EverythingIsDelivered`, `DeadPeerIsForgotten`, `LivePeerIsKnown`, `RequestsComplete`,
`PeersAreSubscribed`, `StopReturns`, and of `ViewSpec` the fairness (its safety part is
`ImplementsPeerView`); and the violations.

## 5. Plan

1. Done: `ZmfCore` and its proofs. 2. Done: `ModuleEventDispatcher` and its proofs.
3. Done: `PeerRegistry` and `PeerDiscovery`, their refinement of `PeerView` and its proof.
4. Done: `FrameworkProto` and `StateMulticast`. 5. Done: `Messaging`.
6. Done: proofs of every invariant and action property of the runs.
7. A composition of discovery with cores: dependency cascades, two instances with one id with
   and without `NO_EQUAL_MODULE_INTERCONNECT`, restart of a core, concurrent `joinExecution()`.
8. Events: `publish()` and the subscription queue, with `MessageType`'s topic matching (a prefix
   test) as an operator. 9. `ZmfOutReply`: the condition variable of a future reply.

## 6. Not modelled

The items above are the plan. Left out for good: configuration, logging, network interface
lookup, the console, examples and templates (I/O without state the system reads back), what
`FrameworkProto` leaves of the generated code (varints, unknown fields, reflection), ZeroMQ's
and Poco's internals beyond the behaviour the code uses, and module code beyond what its
callbacks may call.
