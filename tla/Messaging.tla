------------------------------ MODULE Messaging ------------------------------
(***************************************************************************)
(* The messaging services of several instances: connections that follow    *)
(* peer discovery, requests and replies, stop, restart and crash           *)
(* (ZmqZmfMessagingServiceImplementation).                                  *)
(*                                                                         *)
(* Each instance has a poller thread, which handles one notification or    *)
(* message per step, and threads that call the service: discovery (joins   *)
(* and leaves as PeerView promises them), one that sends requests, the     *)
(* module's replies, and the core, which disables and stops.  A step is    *)
(* what one mutex protects.  Every start() binds new ports: <<i, r>> is    *)
(* the address of instance i in its r-th run.                              *)
(*                                                                         *)
(* A socket to a peer is a FIFO channel while both ends live.  Closing it  *)
(* may lose what it still holds (linger 0), nothing else does.  Not        *)
(* modelled: events, the connection of an instance to itself, a start()    *)
(* that cannot bind, full socket buffers.                                  *)
(***************************************************************************)
EXTENDS Integers, Sequences, FiniteSets, FiniteSetsExt, SequencesExt

CONSTANTS
    Instances,      \* module ids; one service at a time has each
    Requesters,     \* instances that send requests
    Replaced,       \* instances whose service a new one may replace: the process
                    \* dies at any time, or it makes a new ZmfInstance
    Kinds,          \* of requests: "module", and "system" for ZmfCore itself
    Stopping,       \* instances whose core stops the service
    Enabling,       \* instances whose module is enabled and disabled
    MaxRuns,        \* bound: starts of each instance
    MaxRequests,    \* bound: requests an instance sends in one run
    MaxJoins        \* bound: joins the discovery of each instance announces

ASSUME InstancesAssumption == Requesters \subseteq Instances /\ Replaced \subseteq Instances
                               /\ Stopping \subseteq Instances /\ Enabling \subseteq Instances
ASSUME KindsAssumption == Kinds \subseteq {"module", "system"}
ASSUME BoundsAssumption ==
    MaxRuns \in [Instances -> Nat] /\ MaxJoins \in [Instances -> Nat] /\ MaxRequests \in Nat

VARIABLES
    phase,      \* "off": no service; "alive", and what is left of it in stop()
    run,        \* number of starts so far
    born,       \* the run in which the present service was new
    enabled,    \* the dispatcher delivers to the module (alive_)
    registry,   \* run of each peer's handle in discovery's registry, or None
    sockets,    \* map_sockets_req: run of the peer the socket leads to, or None
    changes,    \* queue_membership_changes
    notified,   \* MEMBERSHIP_CHANGE notifications the poller has not read
    connected,  \* addresses socket_sub is connected to
    sending,    \* the call of sendRequest() under way, or Idle
    futures,    \* one per request of the service: how far its reply came
    replies,    \* outstanding_replies: requests a reply can still be sent for
    handling,   \* requests handed to the module
    channel,    \* messages on their way between two addresses
    joins,      \* number of joins so far
    leftOver    \* history: queued changes the last stop() left behind

core == <<phase, run, born, enabled>>
links == <<registry, sockets, changes, notified, connected, joins, leftOver>>
requests == <<sending, futures, replies, handling>>
vars == <<core, links, requests, channel>>

None == 0
Runs == UNION {1 .. MaxRuns[i] : i \in Instances}
Address == UNION {{i} \X (1 .. MaxRuns[i]) : i \in Instances}
Pair == {pair \in Address \X Address : pair[1][1] # pair[2][1]}
Senders(i) == {a \in Address : a[1] # i}
Self(i) == <<i, run[i]>>

\* alive is true, the poller thread exists, the sockets are open.
Alive(i) == phase[i] = "alive"
Polling(i) == phase[i] \in {"alive", "stopping"}
SocketsOpen(i) == phase[i] \in {"alive", "stopping", "joined"}

\* What the id in a request or reply stands for: `id` is all the code has,
\* `of` names the run that asked, to tell requests of different services.
Message == [type : {"hello"}]
      \cup [type : {"request"}, kind : Kinds, id : Nat, of : Runs]
      \cup [type : {"reply"}, id : Nat, of : Runs]

Hello == [type |-> "hello"]
Change == [addr : Address, join : BOOLEAN]
Idle == [step |-> "idle"]
Call == {Idle} \cup [step : {"checked", "registered"}, to : Instances, kind : Kinds]
NoPeers == [j \in Instances |-> None]
Statuses == {"waiting", "answered", "failed", "broken"}
Future == [of : Runs, to : Instances, status : Statuses, answers : Runs \cup {None}]
ExternalRequestIdentity == [from : Instances, id : Nat]
Request == [from : Instances, id : Nat, of : Runs]

Init ==
    /\ phase = [i \in Instances |-> "off"]
    /\ run = [i \in Instances |-> None]
    /\ born = run
    /\ enabled = [i \in Instances |-> FALSE]
    /\ registry = [i \in Instances |-> NoPeers]
    /\ sockets = registry
    /\ changes = [i \in Instances |-> <<>>]
    /\ notified = [i \in Instances |-> 0]
    /\ connected = [i \in Instances |-> {}]
    /\ joins = notified
    /\ leftOver = notified
    /\ sending = [i \in Instances |-> Idle]
    /\ futures = changes
    /\ replies = connected
    /\ handling = connected
    /\ channel = [pair \in Pair |-> <<>>]
-----------------------------------------------------------------------------
(* The network.                                                             *)

Listening(a) == run[a[1]] = a[2] /\ Polling(a[1])

\* What a sends to b is on its way, or goes nowhere if b is no more.
Sent(net, a, b, m) == IF Listening(b) THEN [net EXCEPT ![<<a, b>>] = Append(@, m)] ELSE net

\* Closing the socket from a to b: b gets a prefix of what is on its way.
Lossy(net, a, b, net2) == \E kept \in Prefixes(net[<<a, b>>]) : net2 = [net EXCEPT ![<<a, b>>] = kept]

\* All sockets of address a are closed: what they hold may be lost, and nobody
\* reads what was sent to a.
ClosedAll(a, net2) ==
    LET leaving == {pair \in Pair : pair[1] = a /\ channel[pair] # <<>>} IN
    \E kept \in [leaving -> UNION {Prefixes(channel[pair]) : pair \in leaving}] :
        /\ \A pair \in leaving : kept[pair] \in Prefixes(channel[pair])
        /\ net2 = [pair \in Pair |-> IF pair[2] = a THEN <<>>
                                    ELSE IF pair \in leaving THEN kept[pair] ELSE channel[pair]]
-----------------------------------------------------------------------------
(* Starting and stopping.                                                   *)

\* start(): new sockets, a new poller.  In a new service everything is new; one
\* that is started again finds what its stop() did not clear.
Start(i) ==
    /\ \/ phase[i] = "stopped"
       \/ phase[i] = "off" /\ (run[i] = None \/ i \in Replaced)
    /\ run[i] < MaxRuns[i]
    /\ phase' = [phase EXCEPT ![i] = "alive"]
    /\ run' = [run EXCEPT ![i] = @ + 1]
    /\ born' = [born EXCEPT ![i] = IF @ = None THEN run'[i] ELSE @]
    /\ UNCHANGED <<enabled, links, requests, channel>>

\* stop(), called by the core once its module is disabled: alive is cleared, and
\* with the core's discovery ends what it knew.
Stop(i) ==
    /\ i \in Stopping
    /\ Alive(i)
    /\ ~enabled[i]
    /\ phase' = [phase EXCEPT ![i] = "stopping"]
    /\ registry' = [registry EXCEPT ![i] = NoPeers]
    /\ UNCHANGED <<run, born, enabled, sockets, changes, notified, connected, joins, leftOver, requests, channel>>

\* Seeded fault: stop() sends no SHUTDOWN, so poll() returns for other input only.
LeavePollerUnwoken(i) ==
    /\ phase[i] = "stopping"
    /\ notified[i] > 0 \/ \E a \in Senders(i) : channel[<<a, Self(i)>>] # <<>>
    /\ phase' = [phase EXCEPT ![i] = "joined"]
    /\ UNCHANGED <<run, born, enabled, links, requests, channel>>

\* The poller finds alive cleared after what it was handling, and is joined.
LeavePoller(i) ==
    /\ phase[i] = "stopping"
    /\ phase' = [phase EXCEPT ![i] = "joined"]
    /\ UNCHANGED <<run, born, enabled, links, requests, channel>>

\* closeSockets() and context.terminate().
CloseSockets(i) ==
    /\ phase[i] = "joined"
    /\ phase' = [phase EXCEPT ![i] = "closed"]
    /\ ClosedAll(Self(i), channel')
    /\ notified' = [notified EXCEPT ![i] = 0]
    /\ connected' = [connected EXCEPT ![i] = {}]
    /\ UNCHANGED <<run, born, enabled, registry, sockets, changes, joins, leftOver, requests>>

Broken(fs) == [n \in DOMAIN fs |-> IF fs[n].status = "waiting" THEN [fs[n] EXCEPT !.status = "broken"] ELSE fs[n]]

\* Seeded fault: the requests, too, are only asked whether they are empty().
ClearStateButRequests(i) ==
    /\ phase[i] = "closed"
    /\ phase' = [phase EXCEPT ![i] = "stopped"]
    /\ sockets' = [sockets EXCEPT ![i] = NoPeers]
    /\ leftOver' = [leftOver EXCEPT ![i] = Len(changes[i])]
    /\ UNCHANGED <<run, born, enabled, registry, changes, notified, connected, joins, requests, channel>>

\* The maps are cleared, so promises break; the queue and outstanding_replies
\* are only asked whether they are empty().
ClearState(i) ==
    /\ phase[i] = "closed"
    /\ phase' = [phase EXCEPT ![i] = "stopped"]
    /\ sockets' = [sockets EXCEPT ![i] = NoPeers]
    /\ futures' = [futures EXCEPT ![i] = Broken(@)]
    /\ leftOver' = [leftOver EXCEPT ![i] = Len(changes[i])]
    /\ UNCHANGED <<run, born, enabled, registry, changes, notified, connected, joins, sending, replies, handling, channel>>

\* The service is gone, with all it had in memory.
Die(i) ==
    /\ phase' = [phase EXCEPT ![i] = "off"]
    /\ born' = [born EXCEPT ![i] = None]
    /\ enabled' = [enabled EXCEPT ![i] = FALSE]
    /\ registry' = [registry EXCEPT ![i] = NoPeers]
    /\ sockets' = [sockets EXCEPT ![i] = NoPeers]
    /\ changes' = [changes EXCEPT ![i] = <<>>]
    /\ notified' = [notified EXCEPT ![i] = 0]
    /\ connected' = [connected EXCEPT ![i] = {}]
    /\ leftOver' = [leftOver EXCEPT ![i] = 0]
    /\ sending' = [sending EXCEPT ![i] = Idle]
    /\ futures' = [futures EXCEPT ![i] = <<>>]
    /\ replies' = [replies EXCEPT ![i] = {}]
    /\ handling' = [handling EXCEPT ![i] = {}]
    /\ ClosedAll(Self(i), channel')
    /\ UNCHANGED <<run, joins>>

Replace(i) == i \in Replaced /\ phase[i] # "off" /\ Die(i)
-----------------------------------------------------------------------------
(* Connections.                                                             *)

\* Seeded fault: the poller is told only of the first change in the queue.
InternalConnectNotifyingOnce(i, j, r, net) ==
    IF sockets[i][j] # None
    THEN UNCHANGED <<sockets, changes, notified>> /\ channel' = net
    ELSE /\ sockets' = [sockets EXCEPT ![i][j] = r]
         /\ channel' = Sent(net, Self(i), <<j, r>>, Hello)
         /\ changes' = [changes EXCEPT ![i] = Append(@, [addr |-> <<j, r>>, join |-> TRUE])]
         /\ notified' = IF changes[i] = <<>> THEN [notified EXCEPT ![i] = @ + 1] ELSE notified

\* internalConnect(): a peer already known keeps the socket it has, whatever the
\* address.  Else a new socket greets it first, and the poller is told.
InternalConnect(i, j, r, net) ==
    IF sockets[i][j] # None
    THEN UNCHANGED <<sockets, changes, notified>> /\ channel' = net
    ELSE /\ sockets' = [sockets EXCEPT ![i][j] = r]
         /\ channel' = Sent(net, Self(i), <<j, r>>, Hello)
         /\ changes' = [changes EXCEPT ![i] = Append(@, [addr |-> <<j, r>>, join |-> TRUE])]
         /\ notified' = [notified EXCEPT ![i] = @ + 1]

\* Discovery registers peer j with the address of one of its runs, the present
\* one or one whose multicasts were still about, and calls peerJoin().
PeerJoin(i, j, r) ==
    /\ Alive(i)
    /\ i # j
    /\ registry[i][j] = None
    /\ r \in 1 .. run[j]
    /\ joins[i] < MaxJoins[i]
    /\ joins' = [joins EXCEPT ![i] = @ + 1]
    /\ registry' = [registry EXCEPT ![i][j] = r]
    /\ InternalConnect(i, j, r, channel)
    /\ UNCHANGED <<core, connected, leftOver, requests>>

\* Discovery removes peer j, by a multicast or a timeout, and calls peerLeave():
\* the socket is closed, the address of discovery's handle disconnected.
PeerLeave(i, j) ==
    /\ Alive(i)
    /\ registry[i][j] # None
    /\ registry' = [registry EXCEPT ![i][j] = None]
    /\ IF sockets[i][j] = None
       THEN UNCHANGED <<sockets, changes, notified, channel>>
       ELSE /\ sockets' = [sockets EXCEPT ![i][j] = None]
            /\ changes' = [changes EXCEPT ![i] = Append(@, [addr |-> <<j, registry[i][j]>>, join |-> FALSE])]
            /\ notified' = [notified EXCEPT ![i] = @ + 1]
            /\ Lossy(channel, Self(i), <<j, sockets[i][j]>>, channel')
    /\ UNCHANGED <<core, connected, joins, leftOver, requests>>

Applied(conns, change) == IF change.join THEN conns \cup {change.addr} ELSE conns \ {change.addr}

\* Seeded fault: the newest change first.
HandleNotifyNewest(i) ==
    /\ Polling(i)
    /\ notified[i] > 0
    /\ notified' = [notified EXCEPT ![i] = @ - 1]
    /\ IF changes[i] = <<>>
       THEN UNCHANGED <<changes, connected>>
       ELSE /\ changes' = [changes EXCEPT ![i] = Front(@)]
            /\ connected' = [connected EXCEPT ![i] = Applied(@, Last(changes[i]))]
    /\ UNCHANGED <<core, registry, sockets, joins, leftOver, requests, channel>>

\* Seeded fault: whatever woke the poller is taken for a notification.
HandleNotifyUnasked(i) ==
    /\ Polling(i)
    /\ changes[i] = <<>> \/ notified[i] > 0
    /\ notified' = [notified EXCEPT ![i] = @ - 1]
    /\ IF changes[i] = <<>>
       THEN UNCHANGED <<changes, connected>>
       ELSE /\ changes' = [changes EXCEPT ![i] = Tail(@)]
            /\ connected' = [connected EXCEPT ![i] = Applied(@, Head(changes[i]))]
    /\ UNCHANGED <<core, registry, sockets, joins, leftOver, requests, channel>>

\* handleNotify() and applyMembershipChange(): one notification, one change, the
\* oldest.  Disconnecting from an unknown address is an error that is caught.
HandleNotify(i) ==
    /\ Polling(i)
    /\ notified[i] > 0
    /\ notified' = [notified EXCEPT ![i] = @ - 1]
    /\ IF changes[i] = <<>>
       THEN UNCHANGED <<changes, connected>>
       ELSE /\ changes' = [changes EXCEPT ![i] = Tail(@)]
            /\ connected' = [connected EXCEPT ![i] = Applied(@, Head(changes[i]))]
    /\ UNCHANGED <<core, registry, sockets, joins, leftOver, requests, channel>>
-----------------------------------------------------------------------------
(* Requests.                                                                *)

\* sendRequest(): checkAlive().
SendRequest(i, j, kind) ==
    /\ i \in Requesters
    /\ i # j
    /\ Alive(i)
    /\ sending[i] = Idle
    /\ Cardinality({n \in DOMAIN futures[i] : futures[i][n].of = run[i]}) < MaxRequests
    /\ sending' = [sending EXCEPT ![i] = [step |-> "checked", to |-> j, kind |-> kind]]
    /\ UNCHANGED <<core, links, futures, replies, handling, channel>>

\* The next id, and a promise for it: ids count from 0 in a service, and the
\* promise of id n is that of the (n+1)th future.
RegisterRequest(i) ==
    /\ sending[i].step = "checked"
    /\ sending' = [sending EXCEPT ![i].step = "registered"]
    /\ futures' = [futures EXCEPT ![i] =
           Append(@, [of |-> run[i], to |-> sending[i].to, status |-> "waiting", answers |-> None])]
    /\ UNCHANGED <<core, links, replies, handling, channel>>

\* The future of id n completes, unless its promise is gone.
Complete(i, n, status, answers) ==
    futures' = IF n + 1 \in DOMAIN futures[i] /\ futures[i][n + 1].status = "waiting"
               THEN [futures EXCEPT ![i][n + 1].status = status, ![i][n + 1].answers = answers]
               ELSE futures

\* The last one registered goes to the socket, or fails when the peer is unknown.
\* A socket that stop() has closed throws with lock_map_sockets_req held, which
\* stop() takes next: neither the lock nor stop() gets any further.
Transmit(i) ==
    LET id == Len(futures[i]) - 1
        to == <<sending[i].to, sockets[i][sending[i].to]>>
        request == [type |-> "request", kind |-> sending[i].kind, id |-> id, of |-> futures[i][id + 1].of]
    IN
    /\ sending[i].step = "registered"
    /\ sending' = [sending EXCEPT ![i] = Idle]
    /\ IF to[2] = None
       THEN Complete(i, id, "failed", None) /\ UNCHANGED <<phase, channel>>
       ELSE IF SocketsOpen(i)
       THEN channel' = Sent(channel, Self(i), to, request) /\ UNCHANGED <<phase, futures>>
       ELSE phase' = [phase EXCEPT ![i] = "blocked"] /\ UNCHANGED <<futures, channel>>
    /\ UNCHANGED <<run, born, enabled, links, replies, handling>>

\* cancelRequest(), by the owner of the ZmfInReply or its destructor.
CancelRequest(i, n) ==
    /\ Alive(i)
    /\ futures[i][n].status = "waiting"
    /\ Complete(i, n - 1, "broken", None)
    /\ UNCHANGED <<core, links, sending, replies, handling, channel>>

\* Seeded fault: the request stays open to a second reply.
SendReplyKept(i, net, outstanding, j, id, of) ==
    /\ replies' = [replies EXCEPT ![i] = outstanding]
    /\ channel' = IF [from |-> j, id |-> id] \notin outstanding \/ sockets[i][j] = None THEN net
                  ELSE Sent(net, Self(i), <<j, sockets[i][j]>>, [type |-> "reply", id |-> id, of |-> of])

\* Seeded fault: replies go to the address discovery knows.
SendReplyToRegistered(i, net, outstanding, j, id, of) ==
    /\ replies' = [replies EXCEPT ![i] = outstanding \ {[from |-> j, id |-> id]}]
    /\ channel' = IF [from |-> j, id |-> id] \notin outstanding \/ registry[i][j] = None THEN net
                  ELSE Sent(net, Self(i), <<j, registry[i][j]>>, [type |-> "reply", id |-> id, of |-> of])

\* The module (or, for "system" requests, the dispatcher) answers: at most one
\* reply goes out, to the address the peer has now.
SendReply(i, net, outstanding, j, id, of) ==
    IF [from |-> j, id |-> id] \notin outstanding
    THEN replies' = [replies EXCEPT ![i] = outstanding] /\ channel' = net
    ELSE /\ replies' = [replies EXCEPT ![i] = outstanding \ {[from |-> j, id |-> id]}]
         /\ channel' = IF sockets[i][j] = None THEN net
                       ELSE Sent(net, Self(i), <<j, sockets[i][j]>>, [type |-> "reply", id |-> id, of |-> of])

\* sendReply() for a request the module took; without an open request, or in a
\* stopped service, it has no effect.
Answer(i, h) ==
    /\ Alive(i)
    /\ h \in handling[i]
    /\ [from |-> h.from, id |-> h.id] \in replies[i]
    /\ SendReply(i, channel, replies[i], h.from, h.id, h.of)
    /\ UNCHANGED <<core, links, sending, futures, handling>>
-----------------------------------------------------------------------------
(* The poller and its messages; handleRepIn() does not look at alive.        *)

\* handleRequestReceived(): a reply is owed from now on.  The dispatcher hands the
\* request to an enabled module and drops it otherwise; requests to ZmfCore it
\* answers at once, and in a service that is stopping the exception of
\* checkAlive() ends the process.
HandleRequest(i, j, m, net) ==
    LET outstanding == replies[i] \cup {[from |-> j, id |-> m.id]} IN
    CASE m.kind = "module" ->
             /\ replies' = [replies EXCEPT ![i] = outstanding]
             /\ handling' = [handling EXCEPT ![i] =
                                IF enabled[i] THEN @ \cup {[from |-> j, id |-> m.id, of |-> m.of]} ELSE @]
             /\ channel' = net
             /\ UNCHANGED <<core, links, sending, futures>>
      [] m.kind = "system" /\ Alive(i) ->
             /\ SendReply(i, net, outstanding, j, m.id, m.of)
             /\ UNCHANGED <<core, links, sending, futures, handling>>
      [] m.kind = "system" /\ ~Alive(i) -> Die(i)

\* Seeded fault: replies are taken to come in the order of the requests.
HandleReplyLatest(i, m, net) ==
    /\ Complete(i, Len(futures[i]) - 1, "answered", m.of)
    /\ channel' = net
    /\ UNCHANGED <<core, links, sending, replies, handling>>

\* handleReplyReceived(): the id alone finds the request.
HandleReply(i, m, net) ==
    /\ Complete(i, m.id, "answered", m.of)
    /\ channel' = net
    /\ UNCHANGED <<core, links, sending, replies, handling>>

\* handleHelloReceived(): connect to the address the message names.
HandleHello(i, a, net) ==
    /\ InternalConnect(i, a[1], a[2], net)
    /\ UNCHANGED <<core, registry, connected, joins, leftOver, requests>>

Receive(i, a) ==
    LET incoming == channel[<<a, Self(i)>>]
        net == [channel EXCEPT ![<<a, Self(i)>>] = Tail(@)]
    IN
    /\ Polling(i)
    /\ incoming # <<>>
    /\ CASE Head(incoming).type = "request" -> HandleRequest(i, a[1], Head(incoming), net)
         [] Head(incoming).type = "reply" -> HandleReply(i, Head(incoming), net)
         [] Head(incoming).type = "hello" -> HandleHello(i, a, net)
-----------------------------------------------------------------------------
(* The module is enabled and disabled.                                      *)

Enable(i) ==
    /\ i \in Enabling
    /\ Alive(i)
    /\ ~enabled[i]
    /\ enabled' = [enabled EXCEPT ![i] = TRUE]
    /\ UNCHANGED <<phase, run, born, links, requests, channel>>

\* onDisable(): nothing is outstanding any more, either way.
OnDisable(i) ==
    /\ Alive(i)
    /\ enabled[i]
    /\ enabled' = [enabled EXCEPT ![i] = FALSE]
    /\ futures' = [futures EXCEPT ![i] = Broken(@)]
    /\ replies' = [replies EXCEPT ![i] = {}]
    /\ UNCHANGED <<phase, run, born, links, sending, handling, channel>>
-----------------------------------------------------------------------------
StopStep(i) == LeavePoller(i) \/ CloseSockets(i) \/ ClearState(i)
SendStep(i) == RegisterRequest(i) \/ Transmit(i)

Next == \E i \in Instances :
    \/ Start(i) \/ Stop(i) \/ StopStep(i) \/ Replace(i)
    \/ Enable(i) \/ OnDisable(i)
    \/ HandleNotify(i) \/ SendStep(i)
    \/ \E a \in Senders(i) : Receive(i, a)
    \/ \E j \in Instances : PeerLeave(i, j)
    \/ \E j \in Instances, r \in Runs : PeerJoin(i, j, r)
    \/ \E j \in Instances, kind \in Kinds : SendRequest(i, j, kind)
    \/ \E n \in DOMAIN futures[i] : CancelRequest(i, n)
    \/ \E h \in handling[i] : Answer(i, h)

Spec == Init /\ [][Next]_vars

\* Threads run, and the poller serves each of its inputs in the end.  Nothing
\* else is forced: no join, leave or stop, and no answer of a module, which may
\* give none (NO_REPLY), throw, or not get what was delivered before enable().
Fairness == \A i \in Instances :
    /\ WF_vars(StopStep(i))
    /\ WF_vars(SendStep(i))
    /\ WF_vars(HandleNotify(i))
    /\ \A a \in Senders(i) : WF_vars(Receive(i, a))

FairSpec == Spec /\ Fairness
-----------------------------------------------------------------------------
(* Properties.                                                              *)

TypeOK ==
    /\ phase \in [Instances -> {"off", "alive", "stopping", "joined", "closed", "stopped", "blocked"}]
    /\ run \in [Instances -> Runs \cup {None}] /\ born \in [Instances -> Runs \cup {None}]
    /\ \A i \in Instances : run[i] <= MaxRuns[i] /\ born[i] <= run[i]
    /\ enabled \in [Instances -> BOOLEAN]
    /\ registry \in [Instances -> [Instances -> Runs \cup {None}]]
    /\ sockets \in [Instances -> [Instances -> Runs \cup {None}]]
    /\ changes \in [Instances -> Seq(Change)]
    /\ notified \in [Instances -> Nat]
    /\ connected \in [Instances -> SUBSET Address]
    /\ joins \in [Instances -> Nat] /\ leftOver \in [Instances -> Nat]
    /\ sending \in [Instances -> Call]
    /\ futures \in [Instances -> Seq(Future)]
    /\ replies \in [Instances -> SUBSET ExternalRequestIdentity]
    /\ handling \in [Instances -> SUBSET Request]
    /\ channel \in [Pair -> Seq(Message)]

\* What socket_sub is connected to once the poller has read the queue.
Settled(i) == {a \in Address :
    LET about == {k \in DOMAIN changes[i] : changes[i][k].addr = a}
    IN IF about = {} THEN a \in connected[i] ELSE changes[i][Max(about)].join}

Peers(i) == {<<j, sockets[i][j]>> : j \in {k \in Instances : sockets[i][k] # None}}

\* Each queued change has a notification that will make the poller apply it, but
\* for as many of the newest as the service found in the queue when it started.
\* Where it found none, in any order of joins, leaves and hellos, requests and
\* events come from the same peers: who can be sent requests is or will be
\* subscribed to, and a subscription without a socket is only left to a peer that
\* was restarted.  Where it found some, IZmfMessagingService::stop "will remove any
\* state" does not hold: the lag stays, and the newest join is not applied until
\* as many changes follow it.
ConnectionsInStep == \A i \in Instances : Polling(i) =>
    /\ Len(changes[i]) = notified[i] + leftOver[i]
    /\ leftOver[i] = 0 =>
           /\ Peers(i) \subseteq Settled(i)
           /\ \A a \in Settled(i) \ Peers(i) : run[a[1]] > 1

\* A reply completes the request it answers, and no other that has the same id
\* by chance.  (Ids start again in a new service: a request of its predecessor
\* still waiting to be answered may complete one of its own.)
RepliesMatch == \A i \in Instances : \A n \in DOMAIN futures[i] :
    futures[i][n].status = "answered" =>
        futures[i][n].answers = futures[i][n].of \/ futures[i][n].answers < born[i]

\* However often a module answers, a request has one reply at most (unless, again,
\* the service has a predecessor).
OneReply == \A i \in Instances : born[i] = 1 => \A n \in DOMAIN futures[i] :
    LET reply == [type |-> "reply", id |-> n - 1, of |-> futures[i][n].of]
        inFlight == UNION {{pair} \X {k \in DOMAIN channel[pair] : channel[pair][k] = reply} :
                              pair \in {p \in Pair : p[2][1] = i}}
    IN Cardinality(inFlight) <= (IF futures[i][n].status = "answered" THEN 0 ELSE 1)

\* When stop() has returned, whoever waits for a reply is released, whatever
\* sendRequest() it raced with; that one's own future is about to fail.
StoppedReleasesWaiters == \A i \in Instances : phase[i] = "stopped" =>
    \A n \in DOMAIN futures[i] : futures[i][n].status = "waiting" =>
        sending[i].step = "registered" /\ n = Len(futures[i])

\* Both ends are up and each has a socket to the present run of the other.
Linked(i, j) ==
    /\ Alive(i) /\ Alive(j) /\ enabled[j]
    /\ sockets[i][j] = run[j] /\ sockets[j][i] = run[i]

\* The n-th request of i is with the module of j, which has not answered it.
Kept(i, j, n) ==
    /\ n \in DOMAIN futures[i]
    /\ [from |-> i, id |-> n - 1, of |-> futures[i][n].of] \in handling[j]
    /\ [from |-> i, id |-> n - 1] \in replies[j]

\* A request between linked instances completes, unless the link is disturbed or
\* the module keeps it for ever: it replies nothing, throws, or never saw it.
RequestsComplete == \A i \in Requesters : \A j \in Instances \ {i}, n \in 1 .. MaxRequests * MaxRuns[i] :
    []<>~Kept(i, j, n) =>
        ((/\ Linked(i, j)
          /\ sending[i].step = "registered" /\ sending[i].to = j /\ Len(futures[i]) = n)
             ~> (Linked(i, j) => n \notin DOMAIN futures[i] \/ futures[i][n].status # "waiting"))

\* The poller catches up: a peer with a socket is subscribed to, or leaves, or
\* the service has old changes in its queue.
PeersAreSubscribed == \A i \in Instances : \A j \in Instances \ {i} : \A r \in 1 .. MaxRuns[j] :
    (Alive(i) /\ sockets[i][j] = r)
        ~> (<<j, r>> \in connected[i] \/ sockets[i][j] # r \/ ~Alive(i) \/ leftOver[i] > 0)

\* stop() returns, or the process ends, or a request met a closed socket: such a
\* sendRequest() throws with the lock held that stop() takes next, and stop() blocks.
StopReturns == \A i \in Instances :
    phase[i] = "stopping" ~> phase[i] \in {"stopped", "off", "blocked"}
=============================================================================
