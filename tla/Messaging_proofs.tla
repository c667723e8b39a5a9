-------------------------- MODULE Messaging_proofs --------------------------
(***************************************************************************)
(* Proofs about Messaging, for every set of instances, any number of       *)
(* starts, joins and requests.  One inductive invariant gives the types    *)
(* and says what is left in each phase of a service; on top of it stand    *)
(* one for each property: ids and what they were given for (RepliesMatch), *)
(* the place of each request (OneReply), the queue of changes against the  *)
(* sockets and the notifications (ConnectionsInStep), the call stop()      *)
(* races with (StoppedReleasesWaiters).                                    *)
(***************************************************************************)
EXTENDS Messaging, SequenceTheorems, FiniteSetTheorems, WellFoundedInduction, TLAPS

(***************************************************************************)
(* The invariants.                                                         *)
(***************************************************************************)
\* Nobody knows an address before the run that has it.
AddressInv ==
    /\ \A i, j \in Instances : registry[i][j] <= run[j] /\ sockets[i][j] <= run[j]
    /\ \A i \in Instances : \A k \in DOMAIN changes[i] :
          changes[i][k].addr[2] <= run[changes[i][k].addr[1]]
    /\ \A pair \in Pair : channel[pair] # <<>> =>
          pair[1][2] <= run[pair[1][1]] /\ pair[2][2] <= run[pair[2][1]]

\* What a service has in each phase, and what stop() left of it.
PhaseOf(i) ==
    /\ phase[i] = "off" <=> born[i] = None
    /\ phase[i] = "off" =>
          /\ sending[i] = Idle /\ futures[i] = <<>> /\ replies[i] = {} /\ handling[i] = {}
          /\ sockets[i] = NoPeers /\ changes[i] = <<>> /\ connected[i] = {}
    /\ phase[i] \in {"closed", "stopped"} => connected[i] = {}
    /\ phase[i] = "stopped" => sockets[i] = NoPeers /\ leftOver[i] = Len(changes[i])
    /\ sending[i].step = "registered" => futures[i] # <<>>

PhaseInv == \A i \in Instances : PhaseOf(i)

BaseInv == TypeOK /\ AddressInv /\ PhaseInv

\* How far the notifications lag behind the queue: by the changes that stop()
\* left in it, for whose notifications nobody looks any more.
LagOf(i) ==
    /\ Polling(i) => Len(changes[i]) = notified[i] + leftOver[i]
    /\ phase[i] \in {"off", "closed", "stopped"} => notified[i] = 0
    /\ phase[i] = "off" => leftOver[i] = 0

LagInv == \A i \in Instances : LagOf(i)

\* Whatever stop() left in it, the queue results in the sockets there are, and
\* in subscriptions to peers that were restarted or that it left behind.
QueueInStep == \A i \in Instances : Polling(i) =>
    /\ Peers(i) \subseteq Settled(i)
    /\ \A a \in Settled(i) \ Peers(i) : run[a[1]] > 1 \/ leftOver[i] > 0

\* Request id of run `of` of instance i: a service of i that is at least as old
\* has given the id to a request of that run.
Known(i, id, of) ==
    /\ of <= run[i]
    /\ born[i] # None /\ of >= born[i] => id + 1 \in DOMAIN futures[i] /\ futures[i][id + 1].of = of

\* The instance a message between two addresses is, or answers, a request of.
Asker(pair, m) == IF m.type = "request" THEN pair[1][1] ELSE pair[2][1]

\* Every request in a channel, and every reply, has an id that its asker gave.
NetKnown(net) ==
    \A pair \in Pair : \A k \in DOMAIN net[pair] :
       net[pair][k].type # "hello" =>
          Known(Asker(pair, net[pair][k]), net[pair][k].id, net[pair][k].of)

\* So has every request a module was given.
KnownInv ==
    /\ \A i \in Instances : \A n \in DOMAIN futures[i] : futures[i][n].of <= run[i]
    /\ NetKnown(channel)
    /\ \A i \in Instances : \A h \in handling[i] : Known(h.from, h.id, h.of)

\* Position k of the channel between two addresses holds request id of i, or a
\* reply to it.
Carries(net, pair, k, i, id) ==
    /\ k \in DOMAIN net[pair]
    /\ net[pair][k].type # "hello"
    /\ Asker(pair, net[pair][k]) = i
    /\ net[pair][k].id = id

Owes(outstanding, j, i, id) == [from |-> i, id |-> id] \in outstanding[j]

\* Request id of i is in one place at most: in one channel, as the request or as
\* its reply, or outstanding at one instance.
OnePlace(net, outstanding, i, id) ==
    /\ \A p, q \in Pair, k, l \in Nat :
          Carries(net, p, k, i, id) /\ Carries(net, q, l, i, id) => p = q /\ k = l
    /\ \A j1, j2 \in Instances :
          Owes(outstanding, j1, i, id) /\ Owes(outstanding, j2, i, id) => j1 = j2
    /\ \A p \in Pair, k \in Nat, j \in Instances :
          ~(Carries(net, p, k, i, id) /\ Owes(outstanding, j, i, id))

\* It is nowhere.
NoPlace(net, outstanding, i, id) ==
    /\ \A p \in Pair, k \in Nat : ~Carries(net, p, k, i, id)
    /\ \A j \in Instances : ~Owes(outstanding, j, i, id)

\* Requests that are not sent yet, and those that were answered.
Nowhere(i, id) ==
    \/ id + 1 \notin DOMAIN futures[i]
    \/ futures[i][id + 1].status = "answered"
    \/ sending[i].step = "registered" /\ id + 1 = Len(futures[i])

PlaceOf(i, id) ==
    /\ OnePlace(channel, replies, i, id)
    /\ Nowhere(i, id) => NoPlace(channel, replies, i, id)

\* Without a predecessor of instance i, requests are in one place, and the one
\* that is registered but not sent has no answer.
Orderly(i) == born[i] = 1 =>
    /\ sending[i].step = "registered" => futures[i][Len(futures[i])].status # "answered"
    /\ \A id \in Nat : PlaceOf(i, id)

\* Those who are owed replies have been started.
OwnersStarted == \A j \in Instances : \A q \in replies[j] : run[q.from] # None

OneReplyInv == OwnersStarted /\ \A i \in Instances : Orderly(i)

(***************************************************************************)
(* Operators of the model.                                                 *)
(***************************************************************************)
\* Runs count from 1, and every run of an instance is one of Runs.
LEMMA RunsFacts ==
  /\ Runs \subseteq Nat /\ None \notin Runs /\ None = 0
  /\ \A i \in Instances : MaxRuns[i] \in Nat
  /\ \A i \in Instances, r \in Nat : r # 0 /\ r <= MaxRuns[i] => r \in Runs
  BY BoundsAssumption DEF Runs, None

\* The runs in the state are numbers.
LEMMA RunTypes ==
  ASSUME TypeOK
  PROVE  \A i \in Instances :
            /\ run[i] \in Nat /\ born[i] \in Nat /\ born[i] <= run[i] /\ run[i] <= MaxRuns[i]
            /\ \A j \in Instances : registry[i][j] \in Nat /\ sockets[i][j] \in Nat
  <1>1. \A r \in Runs \cup {None} : r \in Nat
    BY RunsFacts
  <1>2. \A i \in Instances :
           /\ run[i] \in Runs \cup {None} /\ born[i] \in Runs \cup {None}
           /\ \A j \in Instances : registry[i][j] \in Runs \cup {None} /\ sockets[i][j] \in Runs \cup {None}
    BY DEF TypeOK
  <1>3. QED
    BY <1>1, <1>2 DEF TypeOK

\* And stay so.
LEMMA RunTypesNext ==
  ASSUME TypeOK'
  PROVE  \A i \in Instances :
            /\ run'[i] \in Nat /\ born'[i] \in Nat /\ born'[i] <= run'[i] /\ run'[i] <= MaxRuns[i]
            /\ \A j \in Instances : registry'[i][j] \in Nat /\ sockets'[i][j] \in Nat
  <1>1. \A r \in Runs \cup {None} : r \in Nat
    BY RunsFacts
  <1>2. \A i \in Instances :
           /\ run'[i] \in Runs \cup {None} /\ born'[i] \in Runs \cup {None}
           /\ \A j \in Instances : registry'[i][j] \in Runs \cup {None} /\ sockets'[i][j] \in Runs \cup {None}
    BY DEF TypeOK
  <1>3. QED
    BY <1>1, <1>2 DEF TypeOK

\* An address is an instance and one of its runs.
LEMMA AddressFacts ==
  /\ \A a \in Address : /\ a = <<a[1], a[2]>> /\ a[1] \in Instances
                        /\ a[2] \in Nat /\ a[2] # 0 /\ a[2] <= MaxRuns[a[1]]
                        /\ a[2] \in Runs
  /\ \A i \in Instances, r \in Nat : r # 0 /\ r <= MaxRuns[i] => <<i, r>> \in Address
  BY RunsFacts, BoundsAssumption DEF Address

\* A pair is two addresses of different instances.
LEMMA PairFacts ==
  /\ \A pair \in Pair : /\ pair = <<pair[1], pair[2]>>
                        /\ pair[1] \in Address /\ pair[2] \in Address /\ pair[1][1] # pair[2][1]
  /\ \A a, b \in Address : a[1] # b[1] => <<a, b>> \in Pair
  BY DEF Pair

\* From net to net2, at most m has been appended, to the channel from a to b.
Appended(net, net2, a, b, m) ==
    /\ net2 \in [Pair -> Seq(Message)]
    /\ \A pair \in Pair :
          \/ net2[pair] = net[pair]
          \/ /\ pair = <<a, b>> /\ Listening(b)
             /\ net2[pair] = Append(net[pair], m)

\* What is sent is appended to one channel, or lost.
LEMMA SentFacts ==
  ASSUME NEW net \in [Pair -> Seq(Message)], NEW a, NEW b, NEW m \in Message
  PROVE  Appended(net, Sent(net, a, b, m), a, b, m)
  <1>1. \A pair \in Pair : Append(net[pair], m) \in Seq(Message)
    BY AppendProperties
  <1>2. QED
    BY <1>1 DEF Sent, Appended

\* net2 holds a first part of each channel of net.
Shortened(net, net2) ==
    /\ net2 \in [Pair -> Seq(Message)]
    /\ \A pair \in Pair :
          /\ Len(net2[pair]) <= Len(net[pair])
          /\ \A k \in 1 .. Len(net2[pair]) : net2[pair][k] = net[pair][k]

\* A prefix of a sequence.
LEMMA PrefixFacts ==
  ASSUME NEW S, NEW s \in Seq(S), NEW t \in Prefixes(s)
  PROVE  /\ t \in Seq(S) /\ Len(t) <= Len(s)
         /\ \A k \in 1 .. Len(t) : t[k] = s[k]
  <1>1. PICK l \in 0 .. Len(s) : t = SubSeq(s, 1, l)
    BY DEF Prefixes
  <1>2. \A k \in 1 .. l : s[k] \in S
    BY ElementOfSeq, LenProperties
  <1>3. /\ t \in Seq(S) /\ Len(t) = IF 1 <= l THEN l - 1 + 1 ELSE 0
        /\ \A k \in 1 .. l - 1 + 1 : t[k] = s[1 + k - 1]
    BY <1>1, <1>2, SubSeqProperties
  <1>4. QED
    BY <1>1, <1>3, LenProperties

\* Closing a socket shortens a channel, and no other changes.
LEMMA LossyFacts ==
  ASSUME NEW net \in [Pair -> Seq(Message)], NEW a, NEW b, NEW net2, Lossy(net, a, b, net2)
  PROVE  Shortened(net, net2)
  <1>1. PICK kept \in Prefixes(net[<<a, b>>]) : net2 = [net EXCEPT ![<<a, b>>] = kept]
    BY DEF Lossy
  <1>2. CASE <<a, b>> \in Pair
    <2>1. kept \in Seq(Message) /\ Len(kept) <= Len(net[<<a, b>>])
          /\ \A k \in 1 .. Len(kept) : kept[k] = net[<<a, b>>][k]
      <3>1. net[<<a, b>>] \in Seq(Message)
        BY <1>2
      <3>2. \A s \in Seq(Message) : \A t \in Prefixes(s) :
                t \in Seq(Message) /\ Len(t) <= Len(s) /\ \A k \in 1 .. Len(t) : t[k] = s[k]
        BY PrefixFacts
      <3>3. QED
        BY <1>1, <3>1, <3>2
    <2>2. net2 \in [Pair -> Seq(Message)] /\ net2[<<a, b>>] = kept
          /\ \A pair \in Pair : pair # <<a, b>> => net2[pair] = net[pair]
      BY <1>1, <1>2, <2>1
    <2>3. \A pair \in Pair : Len(net[pair]) \in Nat
      BY LenProperties
    <2>4. ASSUME NEW pair \in Pair
          PROVE  /\ Len(net2[pair]) <= Len(net[pair])
                 /\ \A k \in 1 .. Len(net2[pair]) : net2[pair][k] = net[pair][k]
      <3>1. CASE pair = <<a, b>>
        BY <2>1, <2>2, <3>1, Zenon
      <3>2. CASE pair # <<a, b>>
        BY <2>2, <2>3, <3>2
      <3>3. QED
        BY <3>1, <3>2
    <2>5. QED
      BY <2>2, <2>4, Zenon DEF Shortened
  <1>3. CASE <<a, b>> \notin Pair
    <2>1. net2 = net
      BY <1>1, <1>3
    <2>2. QED
      BY <2>1 DEF Shortened
  <1>4. QED
    BY <1>2, <1>3

\* Closing all sockets of an address shortens channels and empties its own.
LEMMA ClosedAllFacts ==
  ASSUME channel \in [Pair -> Seq(Message)], NEW a, NEW net2, ClosedAll(a, net2)
  PROVE  /\ Shortened(channel, net2)
         /\ \A pair \in Pair : pair[2] = a => net2[pair] = <<>>
  <1>. DEFINE leaving == {pair \in Pair : pair[1] = a /\ channel[pair] # <<>>}
  <1>1. PICK kept \in [leaving -> UNION {Prefixes(channel[pair]) : pair \in leaving}] :
          /\ \A pair \in leaving : kept[pair] \in Prefixes(channel[pair])
          /\ net2 = [pair \in Pair |-> IF pair[2] = a THEN <<>>
                                      ELSE IF pair \in leaving THEN kept[pair] ELSE channel[pair]]
    BY DEF ClosedAll
  <1>2. ASSUME NEW pair \in Pair
        PROVE  /\ net2[pair] \in Seq(Message) /\ Len(net2[pair]) <= Len(channel[pair])
               /\ \A k \in 1 .. Len(net2[pair]) : net2[pair][k] = channel[pair][k]
    <2>1. CASE pair[2] = a
      <3>1. net2[pair] = <<>>
        BY <1>1, <2>1
      <3>2. QED
        BY <3>1, EmptySeq, LenProperties
    <2>2. CASE pair[2] # a /\ pair \in leaving
      <3>1. net2[pair] = kept[pair]
        BY <1>1, <2>2
      <3>2. kept[pair] \in Prefixes(channel[pair])
        BY <1>1, <2>2
      <3>. HIDE DEF leaving
      <3>3. QED
        BY <3>1, <3>2, PrefixFacts
    <2>3. CASE pair[2] # a /\ pair \notin leaving
      <3>1. net2[pair] = channel[pair]
        BY <1>1, <2>3
      <3>2. QED
        BY <3>1, LenProperties
    <2>4. QED
      BY <2>1, <2>2, <2>3
  <1>3. net2 \in [Pair -> Seq(Message)]
    <2>1. net2 = [pair \in Pair |-> net2[pair]]
      BY <1>1
    <2>2. QED
      BY <1>2, <2>1
  <1>4. \A pair \in Pair : pair[2] = a => net2[pair] = <<>>
    BY <1>1
  <1>5. QED
    BY <1>2, <1>3, <1>4 DEF Shortened

(***************************************************************************)
(* Types, addresses and phases.                                            *)
(***************************************************************************)
\* A service that exists has an address.
LEMMA SelfFacts ==
  ASSUME TypeOK, PhaseInv, NEW i \in Instances, phase[i] # "off"
  PROVE  /\ born[i] # None /\ run[i] # None /\ run[i] \in Runs /\ run[i] \in Nat
         /\ Self(i) \in Address /\ Self(i)[1] = i /\ Self(i)[2] = run[i]
  <1>1. born[i] # None /\ born[i] \in Nat /\ run[i] \in Nat /\ born[i] <= run[i] /\ run[i] <= MaxRuns[i]
    BY RunTypes DEF PhaseInv, PhaseOf
  <1>2. run[i] # None
    BY <1>1 DEF None
  <1>3. QED
    BY <1>1, <1>2, RunsFacts, AddressFacts DEF Self

\* A message the poller takes: what it is, and what is left in the channels.
LEMMA IncomingFacts ==
  ASSUME TypeOK, PhaseInv, NEW i \in Instances, NEW a \in Senders(i), phase[i] # "off",
         channel[<<a, Self(i)>>] # <<>>,
         NEW net, net = [channel EXCEPT ![<<a, Self(i)>>] = Tail(@)]
  PROVE  /\ <<a, Self(i)>> \in Pair /\ a \in Address /\ a[1] # i
         /\ Head(channel[<<a, Self(i)>>]) \in Message
         /\ Head(channel[<<a, Self(i)>>]) = channel[<<a, Self(i)>>][1]
         /\ 1 \in DOMAIN channel[<<a, Self(i)>>]
         /\ net \in [Pair -> Seq(Message)]
         /\ \A pair \in Pair : pair # <<a, Self(i)>> => net[pair] = channel[pair]
         /\ Len(net[<<a, Self(i)>>]) = Len(channel[<<a, Self(i)>>]) - 1
         /\ \A k \in 1 .. Len(net[<<a, Self(i)>>]) :
               net[<<a, Self(i)>>][k] = channel[<<a, Self(i)>>][k + 1]
  <1>1. a \in Address /\ a[1] # i
    BY DEF Senders
  <1>2. <<a, Self(i)>> \in Pair
    BY <1>1, SelfFacts, PairFacts
  <1>. DEFINE s == channel[<<a, Self(i)>>]
  <1>3. s \in Seq(Message)
    BY <1>2 DEF TypeOK
  <1>4. /\ Head(s) \in Message /\ Tail(s) \in Seq(Message) /\ Len(Tail(s)) = Len(s) - 1
        /\ \A k \in 1 .. Len(Tail(s)) : Tail(s)[k] = s[k + 1]
    BY <1>3, HeadTailProperties
  <1>5. Len(s) \in Nat \ {0} /\ DOMAIN s = 1 .. Len(s)
    BY <1>3, EmptySeq, LenProperties
  <1>6. Head(s) = s[1]
    BY <1>3, <1>5
  <1>7. net \in [Pair -> Seq(Message)] /\ net[<<a, Self(i)>>] = Tail(s)
        /\ \A pair \in Pair : pair # <<a, Self(i)>> => net[pair] = channel[pair]
    BY <1>2, <1>4 DEF TypeOK
  <1>8. QED
    BY <1>1, <1>2, <1>4, <1>5, <1>6, <1>7

\* What each kind of message has.
LEMMA MessageFacts ==
  /\ Hello \in Message
  /\ \A kind \in Kinds, id \in Nat, of \in Runs :
        [type |-> "request", kind |-> kind, id |-> id, of |-> of] \in Message
  /\ \A id \in Nat, of \in Runs : [type |-> "reply", id |-> id, of |-> of] \in Message
  /\ \A m \in Message :
        /\ m.type \in {"hello", "request", "reply"}
        /\ m.type = "request" => m.kind \in {"module", "system"}
        /\ m.type # "hello" => m.id \in Nat /\ m.of \in Runs
  BY KindsAssumption DEF Message, Hello

\* Completing a request changes no future but its own, and of that only how far
\* its reply came.
LEMMA CompleteFacts ==
  ASSUME TypeOK, NEW i \in Instances, NEW n \in Int, NEW status \in Statuses,
         NEW answers \in Runs \cup {None}, Complete(i, n, status, answers)
  PROVE  /\ futures' \in [Instances -> Seq(Future)]
         /\ \A j \in Instances : Len(futures'[j]) = Len(futures[j]) /\ (j # i => futures'[j] = futures[j])
         /\ \A k \in DOMAIN futures[i] :
               /\ futures'[i][k].of = futures[i][k].of
               /\ \/ futures'[i][k] = futures[i][k]
                  \/ /\ k = n + 1 /\ futures[i][k].status = "waiting"
                     /\ futures'[i][k].status = status /\ futures'[i][k].answers = answers
         /\ n + 1 \in DOMAIN futures[i] /\ status # "waiting" => futures'[i][n + 1].status # "waiting"
  <1>1. futures[i] \in Seq(Future) /\ DOMAIN futures[i] = 1 .. Len(futures[i])
    BY LenProperties DEF TypeOK
  <1>2. CASE n + 1 \in DOMAIN futures[i] /\ futures[i][n + 1].status = "waiting"
    <2>. DEFINE new == [futures[i][n + 1] EXCEPT !.status = status, !.answers = answers]
    <2>1. futures[i][n + 1] \in Future
      BY <1>1, <1>2
    <2>2. new \in Future /\ new.of = futures[i][n + 1].of /\ new.status = status /\ new.answers = answers
      BY <2>1 DEF Future
    <2>3. futures' = [futures EXCEPT ![i] = [futures[i] EXCEPT ![n + 1] = new]]
      BY <1>1, <1>2 DEF Complete, TypeOK
    <2>. HIDE DEF new
    <2>4. /\ [futures[i] EXCEPT ![n + 1] = new] \in Seq(Future)
          /\ Len([futures[i] EXCEPT ![n + 1] = new]) = Len(futures[i])
          /\ \A k \in 1 .. Len(futures[i]) :
                [futures[i] EXCEPT ![n + 1] = new][k] = IF k = n + 1 THEN new ELSE futures[i][k]
      BY <1>1, <1>2, <2>2, ExceptSeq
    <2>5. futures' \in [Instances -> Seq(Future)] /\ futures'[i] = [futures[i] EXCEPT ![n + 1] = new]
          /\ \A j \in Instances : j # i => futures'[j] = futures[j]
      BY <2>3, <2>4 DEF TypeOK
    <2>6. QED
      BY <1>1, <1>2, <2>2, <2>4, <2>5
  <1>3. CASE ~(n + 1 \in DOMAIN futures[i] /\ futures[i][n + 1].status = "waiting")
    <2>1. futures' = futures
      BY <1>3 DEF Complete
    <2>2. QED
      BY <1>3, <2>1 DEF TypeOK
  <1>4. QED
    BY <1>2, <1>3

\* Breaking promises keeps what each future stands for; none is left waiting.
LEMMA BrokenFacts ==
  ASSUME NEW fs \in Seq(Future)
  PROVE  /\ Broken(fs) \in Seq(Future) /\ Len(Broken(fs)) = Len(fs)
         /\ \A n \in DOMAIN fs :
               /\ Broken(fs)[n].of = fs[n].of
               /\ Broken(fs)[n].status # "waiting"
               /\ Broken(fs)[n] = fs[n] \/ Broken(fs)[n].status = "broken"
  <1>1. DOMAIN fs = 1 .. Len(fs) /\ Len(fs) \in Nat
    BY LenProperties
  <1>2. ASSUME NEW n \in DOMAIN fs
        PROVE  /\ fs[n] \in Future
               /\ [fs[n] EXCEPT !.status = "broken"] \in Future
               /\ [fs[n] EXCEPT !.status = "broken"].of = fs[n].of
               /\ [fs[n] EXCEPT !.status = "broken"].status = "broken"
    <2>1. fs[n] \in Future
      BY <1>1
    <2>2. QED
      BY <2>1 DEF Future, Statuses
  <1>3. Broken(fs) \in [1 .. Len(fs) -> Future]
    BY <1>1, <1>2 DEF Broken
  <1>4. Broken(fs) \in Seq(Future) /\ Len(Broken(fs)) = Len(fs)
    BY <1>1, <1>3
  <1>5. QED
    BY <1>2, <1>4 DEF Broken

\* Connecting: the types, and the hello that may go out.
LEMMA InternalConnectFacts ==
  ASSUME TypeOK, NEW i \in Instances, NEW j \in Instances, NEW r \in Nat, <<j, r>> \in Address,
         NEW net \in [Pair -> Seq(Message)], InternalConnect(i, j, r, net)
  PROVE  /\ sockets' \in [Instances -> [Instances -> Runs \cup {None}]]
         /\ changes' \in [Instances -> Seq(Change)] /\ notified' \in [Instances -> Nat]
         /\ channel' \in [Pair -> Seq(Message)]
         /\ Appended(net, channel', Self(i), <<j, r>>, Hello)
  <1>1. CASE sockets[i][j] # None
    BY <1>1 DEF InternalConnect, TypeOK, Appended
  <1>2. CASE sockets[i][j] = None
    <2>1. r \in Runs
      BY AddressFacts
    <2>2. [addr |-> <<j, r>>, join |-> TRUE] \in Change
      BY DEF Change
    <2>3. Append(changes[i], [addr |-> <<j, r>>, join |-> TRUE]) \in Seq(Change)
      BY <2>2, AppendProperties DEF TypeOK
    <2>4. changes' \in [Instances -> Seq(Change)]
      <3>1. changes' = [changes EXCEPT ![i] = Append(changes[i], [addr |-> <<j, r>>, join |-> TRUE])]
        BY <1>2 DEF InternalConnect
      <3>2. changes \in [Instances -> Seq(Change)]
        BY DEF TypeOK
      <3>3. QED
        BY <2>3, <3>1, <3>2
    <2>5. sockets' \in [Instances -> [Instances -> Runs \cup {None}]] /\ notified' \in [Instances -> Nat]
      <3>1. sockets' = [sockets EXCEPT ![i][j] = r] /\ notified' = [notified EXCEPT ![i] = @ + 1]
        BY <1>2 DEF InternalConnect
      <3>2. sockets \in [Instances -> [Instances -> Runs \cup {None}]] /\ notified \in [Instances -> Nat]
        BY DEF TypeOK
      <3>3. QED
        BY <2>1, <3>1, <3>2
    <2>6. channel' = Sent(net, Self(i), <<j, r>>, Hello)
      BY <1>2 DEF InternalConnect
    <2>7. Appended(net, channel', Self(i), <<j, r>>, Hello)
      BY <2>6, SentFacts, MessageFacts
    <2>8. channel' \in [Pair -> Seq(Message)]
      BY <2>7 DEF Appended
    <2>9. QED
      BY <2>4, <2>5, <2>7, <2>8
  <1>3. QED
    BY <1>1, <1>2

\* Sending a reply: the types, and the reply that may go out for a request that
\* is outstanding no more.
LEMMA SendReplyFacts ==
  ASSUME TypeOK, NEW i \in Instances, NEW j \in Instances, NEW id \in Nat, NEW of \in Runs,
         NEW net \in [Pair -> Seq(Message)], NEW outstanding \in SUBSET ExternalRequestIdentity,
         SendReply(i, net, outstanding, j, id, of)
  PROVE  /\ replies' \in [Instances -> SUBSET ExternalRequestIdentity]
         /\ \A k \in Instances : k # i => replies'[k] = replies[k]
         /\ replies'[i] = outstanding \ {[from |-> j, id |-> id]}
         /\ channel' \in [Pair -> Seq(Message)]
         /\ \/ channel' = net
            \/ /\ [from |-> j, id |-> id] \in outstanding
               /\ Appended(net, channel', Self(i), <<j, sockets[i][j]>>, [type |-> "reply", id |-> id, of |-> of])
  <1>1. CASE [from |-> j, id |-> id] \notin outstanding
    <2>1. replies' = [replies EXCEPT ![i] = outstanding] /\ channel' = net
      BY <1>1 DEF SendReply
    <2>2. replies \in [Instances -> SUBSET ExternalRequestIdentity]
      BY DEF TypeOK
    <2>3. QED
      BY <1>1, <2>1, <2>2
  <1>2. CASE [from |-> j, id |-> id] \in outstanding
    <2>1. replies' = [replies EXCEPT ![i] = outstanding \ {[from |-> j, id |-> id]}]
      BY <1>2 DEF SendReply
    <2>. replies \in [Instances -> SUBSET ExternalRequestIdentity]
      BY DEF TypeOK
    <2>2. CASE sockets[i][j] = None
      <3>1. channel' = net
        BY <1>2, <2>2 DEF SendReply
      <3>2. QED
        BY <2>1, <3>1
    <2>3. CASE sockets[i][j] # None
      <3>1. channel' = Sent(net, Self(i), <<j, sockets[i][j]>>, [type |-> "reply", id |-> id, of |-> of])
        BY <1>2, <2>3 DEF SendReply
      <3>2. [type |-> "reply", id |-> id, of |-> of] \in Message
        BY MessageFacts
      <3>3. Appended(net, channel', Self(i), <<j, sockets[i][j]>>, [type |-> "reply", id |-> id, of |-> of])
        BY <3>1, <3>2, SentFacts
      <3>4. channel' \in [Pair -> Seq(Message)]
        BY <3>3 DEF Appended
      <3>5. QED
        BY <1>2, <2>1, <3>3, <3>4
    <2>4. QED
      BY <2>2, <2>3
  <1>3. QED
    BY <1>1, <1>2

\* The end of a service keeps the types.
LEMMA DieType ==
  ASSUME TypeOK, NEW i \in Instances, Die(i)
  PROVE  TypeOK'
  <1>1. channel' \in [Pair -> Seq(Message)]
    BY ClosedAllFacts DEF Die, TypeOK, Shortened
  <1>2. NoPeers \in [Instances -> Runs \cup {None}] /\ Idle \in Call
    BY DEF NoPeers, Call
  <1>3. <<>> \in Seq(Change) /\ <<>> \in Seq(Future)
    BY EmptySeq
  <1>4. \A j \in Instances : run'[j] <= MaxRuns[j] /\ born'[j] <= run'[j]
    <2>1. \A j \in Instances : run[j] \in Nat
      BY RunTypes
    <2>2. \A j \in Instances : run[j] <= MaxRuns[j] /\ born[j] <= run[j]
      BY DEF TypeOK
    <2>3. run' = run /\ born' = [born EXCEPT ![i] = None] /\ born \in [Instances -> Runs \cup {None}]
      BY DEF Die, TypeOK
    <2>4. \A j \in Instances : born'[j] = None \/ born'[j] = born[j]
      BY <2>3
    <2>5. None <= run[i] /\ \A j \in Instances : None <= run[j]
      BY <2>1 DEF None
    <2>6. QED
      BY <2>2, <2>3, <2>4, <2>5
  <1>5. /\ phase' \in [Instances -> {"off", "alive", "stopping", "joined", "closed", "stopped", "blocked"}]
        /\ run' \in [Instances -> Runs \cup {None}] /\ born' \in [Instances -> Runs \cup {None}]
        /\ enabled' \in [Instances -> BOOLEAN]
        /\ notified' \in [Instances -> Nat] /\ joins' \in [Instances -> Nat] /\ leftOver' \in [Instances -> Nat]
    BY DEF Die, TypeOK
  <1>6. /\ registry' \in [Instances -> [Instances -> Runs \cup {None}]]
        /\ sockets' \in [Instances -> [Instances -> Runs \cup {None}]]
        /\ changes' \in [Instances -> Seq(Change)]
        /\ connected' \in [Instances -> SUBSET Address]
    BY <1>2, <1>3 DEF Die, TypeOK
  <1>7. /\ sending' \in [Instances -> Call]
        /\ futures' \in [Instances -> Seq(Future)]
        /\ replies' \in [Instances -> SUBSET ExternalRequestIdentity]
        /\ handling' \in [Instances -> SUBSET Request]
    BY <1>2, <1>3 DEF Die, TypeOK
  <1>8. QED
    BY <1>1, <1>4, <1>5, <1>6, <1>7 DEF TypeOK

\* The instance and the run that a request under way has.
LEMMA SendingFacts ==
  ASSUME TypeOK, NEW i \in Instances, sending[i].step # "idle"
  PROVE  /\ sending[i] \in [step : {"checked", "registered"}, to : Instances, kind : Kinds]
         /\ sending[i].to \in Instances /\ sending[i].kind \in Kinds
  <1>1. sending[i] \in Call /\ sending[i] # Idle
    BY DEF TypeOK, Idle
  <1>2. QED
    BY <1>1 DEF Call

\* The message of a request that is registered.
LEMMA RequestMessage ==
  ASSUME TypeOK, PhaseInv, NEW i \in Instances, sending[i].step = "registered"
  PROVE  LET id == Len(futures[i]) - 1 IN
         /\ id \in Nat /\ id + 1 = Len(futures[i]) /\ id + 1 \in DOMAIN futures[i]
         /\ futures[i][id + 1] \in Future /\ futures[i][id + 1].of \in Runs
         /\ [type |-> "request", kind |-> sending[i].kind, id |-> id, of |-> futures[i][id + 1].of] \in Message
  <1>. DEFINE id == Len(futures[i]) - 1
  <1>1. futures[i] # <<>> /\ futures[i] \in Seq(Future)
    BY DEF PhaseInv, PhaseOf, TypeOK
  <1>2. Len(futures[i]) \in Nat \ {0} /\ DOMAIN futures[i] = 1 .. Len(futures[i])
    BY <1>1, EmptySeq, LenProperties
  <1>3. id \in Nat /\ id + 1 = Len(futures[i]) /\ id + 1 \in DOMAIN futures[i]
    BY <1>2
  <1>4. futures[i][id + 1] \in Future
    BY <1>1, <1>2, <1>3, ElementOfSeq
  <1>5. futures[i][id + 1].of \in Runs
    BY <1>4 DEF Future
  <1>6. sending[i].kind \in Kinds
    BY SendingFacts
  <1>. HIDE DEF id
  <1>7. [type |-> "request", kind |-> sending[i].kind, id |-> id, of |-> futures[i][id + 1].of] \in Message
    BY <1>3, <1>5, <1>6, MessageFacts
  <1>8. QED
    BY <1>3, <1>4, <1>5, <1>7 DEF id

\* What HandleRequest does, by the kind of request.
LEMMA HandleRequestCases ==
  ASSUME NEW i \in Instances, NEW j, NEW m \in Message, m.type = "request", NEW net,
         HandleRequest(i, j, m, net)
  PROVE  LET outstanding == replies[i] \cup {[from |-> j, id |-> m.id]} IN
         \/ /\ replies' = [replies EXCEPT ![i] = outstanding]
            /\ handling' = [handling EXCEPT ![i] =
                               IF enabled[i] THEN @ \cup {[from |-> j, id |-> m.id, of |-> m.of]} ELSE @]
            /\ channel' = net
            /\ UNCHANGED <<core, links, sending, futures>>
         \/ /\ SendReply(i, net, outstanding, j, m.id, m.of)
            /\ UNCHANGED <<core, links, sending, futures, handling>>
         \/ Die(i)
  <1>1. m.kind \in {"module", "system"}
    BY MessageFacts
  <1>2. CASE m.kind = "module"
    BY <1>2 DEF HandleRequest
  <1>3. CASE m.kind = "system" /\ Alive(i)
    BY <1>3 DEF HandleRequest
  <1>4. CASE m.kind = "system" /\ ~Alive(i)
    BY <1>4 DEF HandleRequest
  <1>5. QED
    BY <1>1, <1>2, <1>3, <1>4

\* The actions that change nothing but what an instance does, or the links to
\* its peers, or its requests, keep the types.
LEMMA CoreTypes ==
  ASSUME TypeOK, AddressInv, PhaseInv, NEW i \in Instances,
         \/ Start(i) \/ Stop(i) \/ LeavePoller(i) \/ CloseSockets(i)
         \/ Enable(i) \/ HandleNotify(i)
  PROVE  TypeOK'
  <1>. USE DEF core, links, requests
  <1>1. CASE Start(i)
    <2>1. run[i] \in Nat /\ MaxRuns[i] \in Nat /\ run[i] + 1 \in Runs /\ run[i] + 1 <= MaxRuns[i]
      <3>1. run[i] \in Nat /\ MaxRuns[i] \in Nat /\ run[i] < MaxRuns[i]
        BY <1>1, RunTypes, RunsFacts DEF Start
      <3>2. run[i] + 1 \in Nat /\ run[i] + 1 # 0 /\ run[i] + 1 <= MaxRuns[i]
        BY <3>1
      <3>3. QED
        BY <3>1, <3>2, RunsFacts
    <2>2. run' = [run EXCEPT ![i] = run[i] + 1] /\ run'[i] = run[i] + 1
      BY <1>1 DEF Start, TypeOK
    <2>3. born' = [born EXCEPT ![i] = IF born[i] = None THEN run[i] + 1 ELSE born[i]]
      BY <1>1, <2>2 DEF Start, TypeOK
    <2>4. run' \in [Instances -> Runs \cup {None}] /\ born' \in [Instances -> Runs \cup {None}]
      BY <2>1, <2>2, <2>3 DEF TypeOK
    <2>5. \A j \in Instances : run'[j] <= MaxRuns[j] /\ born'[j] <= run'[j]
      <3>1. \A j \in Instances : run[j] \in Nat /\ born[j] \in Nat /\ run[j] <= MaxRuns[j] /\ born[j] <= run[j]
        BY RunTypes
      <3>2. \A j \in Instances : j # i => run'[j] = run[j] /\ born'[j] = born[j]
        BY <2>2, <2>3 DEF TypeOK
      <3>3. born'[i] \in {born[i], run[i] + 1}
        BY <2>3 DEF TypeOK
      <3>4. QED
        BY <2>1, <2>2, <3>1, <3>2, <3>3
    <2>6. QED
      BY <1>1, <2>4, <2>5 DEF Start, TypeOK
  <1>2. CASE Stop(i)
    <2>1. NoPeers \in [Instances -> Runs \cup {None}]
      BY DEF NoPeers
    <2>2. registry' \in [Instances -> [Instances -> Runs \cup {None}]]
      BY <1>2, <2>1 DEF Stop, TypeOK
    <2>3. QED
      BY <1>2, <2>2 DEF Stop, TypeOK
  <1>3. CASE LeavePoller(i)
    BY <1>3 DEF LeavePoller, TypeOK
  <1>4. CASE CloseSockets(i)
    <2>1. channel' \in [Pair -> Seq(Message)]
      BY <1>4, ClosedAllFacts DEF CloseSockets, TypeOK, Shortened
    <2>2. QED
      BY <1>4, <2>1 DEF CloseSockets, TypeOK
  <1>5. CASE Enable(i)
    BY <1>5 DEF Enable, TypeOK
  <1>6. CASE HandleNotify(i)
    <2>1. notified' \in [Instances -> Nat]
      <3>1. notified \in [Instances -> Nat] /\ notified[i] - 1 \in Nat
        BY <1>6 DEF HandleNotify, TypeOK
      <3>2. QED
        BY <1>6, <3>1 DEF HandleNotify
    <2>2. CASE changes[i] = <<>>
      BY <1>6, <2>1, <2>2 DEF HandleNotify, TypeOK
    <2>3. CASE changes[i] # <<>>
      <3>1. changes[i] \in Seq(Change)
        BY DEF TypeOK
      <3>2. Head(changes[i]) \in Change /\ Tail(changes[i]) \in Seq(Change)
        BY <2>3, <3>1, HeadTailProperties
      <3>3. Applied(connected[i], Head(changes[i])) \subseteq Address
        BY <3>2 DEF Applied, Change, TypeOK
      <3>6. /\ changes' = [changes EXCEPT ![i] = Tail(changes[i])]
            /\ connected' = [connected EXCEPT ![i] = Applied(connected[i], Head(changes[i]))]
        BY <1>6, <2>3 DEF HandleNotify
      <3>7. changes \in [Instances -> Seq(Change)] /\ connected \in [Instances -> SUBSET Address]
        BY DEF TypeOK
      <3>4. changes' \in [Instances -> Seq(Change)] /\ connected' \in [Instances -> SUBSET Address]
        BY <3>2, <3>3, <3>6, <3>7
      <3>5. QED
        BY <1>6, <2>1, <3>4 DEF HandleNotify, TypeOK
    <2>4. QED
      BY <2>2, <2>3
  <1>7. QED
    BY <1>1, <1>2, <1>3, <1>4, <1>5, <1>6

\* So do those that move requests.
LEMMA RequestTypes ==
  ASSUME TypeOK, AddressInv, PhaseInv, NEW i \in Instances,
         \/ ClearState(i) \/ OnDisable(i) \/ RegisterRequest(i) \/ Transmit(i)
         \/ \E j \in Instances, kind \in Kinds : SendRequest(i, j, kind)
         \/ \E n \in DOMAIN futures[i] : CancelRequest(i, n)
         \/ \E h \in handling[i] : Answer(i, h)
  PROVE  TypeOK'
  <1>. USE DEF core, links, requests
  <1>0. futures[i] \in Seq(Future) /\ futures \in [Instances -> Seq(Future)]
    BY DEF TypeOK
  <1>1. CASE ClearState(i)
    <2>1. futures' \in [Instances -> Seq(Future)]
      BY <1>0, <1>1, BrokenFacts DEF ClearState
    <2>2. NoPeers \in [Instances -> Runs \cup {None}]
      BY DEF NoPeers
    <2>3. sockets' \in [Instances -> [Instances -> Runs \cup {None}]]
      BY <1>1, <2>2 DEF ClearState, TypeOK
    <2>4. leftOver' \in [Instances -> Nat]
      <3>1. Len(changes[i]) \in Nat
        BY LenProperties DEF TypeOK
      <3>2. QED
        BY <1>1, <3>1 DEF ClearState, TypeOK
    <2>5. phase' \in [Instances -> {"off", "alive", "stopping", "joined", "closed", "stopped", "blocked"}]
      BY <1>1 DEF ClearState, TypeOK
    <2>6. QED
      BY <1>1, <2>1, <2>3, <2>4, <2>5 DEF ClearState, TypeOK
  <1>2. CASE OnDisable(i)
    <2>1. futures' \in [Instances -> Seq(Future)]
      BY <1>0, <1>2, BrokenFacts DEF OnDisable
    <2>2. replies' \in [Instances -> SUBSET ExternalRequestIdentity] /\ enabled' \in [Instances -> BOOLEAN]
      BY <1>2 DEF OnDisable, TypeOK
    <2>3. QED
      BY <1>2, <2>1, <2>2 DEF OnDisable, TypeOK
  <1>3. CASE RegisterRequest(i)
    <2>1. sending[i] \in [step : {"checked", "registered"}, to : Instances, kind : Kinds]
          /\ sending[i].to \in Instances
      BY <1>3, SendingFacts DEF RegisterRequest
    <2>2. run[i] \in Runs
      <3>1. sending[i] # Idle
        BY <1>3 DEF RegisterRequest, Idle
      <3>2. phase[i] # "off"
        BY <3>1 DEF PhaseInv, PhaseOf
      <3>3. QED
        BY <3>2, SelfFacts
    <2>3. [of |-> run[i], to |-> sending[i].to, status |-> "waiting", answers |-> None] \in Future
      BY <2>1, <2>2 DEF Future, Statuses
    <2>4. Append(futures[i], [of |-> run[i], to |-> sending[i].to, status |-> "waiting", answers |-> None])
            \in Seq(Future)
      BY <1>0, <2>3, AppendProperties
    <2>5. futures' \in [Instances -> Seq(Future)]
      BY <1>0, <1>3, <2>4 DEF RegisterRequest
    <2>6. [sending[i] EXCEPT !.step = "registered"] \in Call
      BY <2>1 DEF Call
    <2>7. sending' = [sending EXCEPT ![i] = [sending[i] EXCEPT !.step = "registered"]]
      BY <1>3 DEF RegisterRequest
    <2>8. sending' \in [Instances -> Call]
      BY <2>6, <2>7 DEF TypeOK
    <2>9. QED
      BY <1>3, <2>5, <2>8 DEF RegisterRequest, TypeOK
  <1>4. CASE Transmit(i)
    <2>. DEFINE to == <<sending[i].to, sockets[i][sending[i].to]>>
                id == Len(futures[i]) - 1
                request == [type |-> "request", kind |-> sending[i].kind, id |-> id, of |-> futures[i][id + 1].of]
    <2>3. id \in Nat /\ request \in Message
      BY <1>4, RequestMessage DEF Transmit
    <2>. DEFINE Rest == UNCHANGED <<run, born, enabled, links, replies, handling>>
                          /\ sending' = [sending EXCEPT ![i] = Idle]
    <2>5. /\ Rest
          /\ \/ Complete(i, id, "failed", None) /\ UNCHANGED <<phase, channel>>
             \/ channel' = Sent(channel, Self(i), to, request) /\ UNCHANGED <<phase, futures>>
             \/ phase' = [phase EXCEPT ![i] = "blocked"] /\ UNCHANGED <<futures, channel>>
      BY <1>4 DEF Transmit
    <2>6. futures' \in [Instances -> Seq(Future)]
      <3>1. CASE futures' = futures
        BY <1>0, <3>1
      <3>2. CASE Complete(i, id, "failed", None)
        <4>1. id \in Int /\ "failed" \in Statuses
          BY <2>3 DEF Statuses
        <4>2. QED
          BY <3>2, <4>1, CompleteFacts
      <3>3. QED
        BY <2>5, <3>1, <3>2
    <2>7. channel' \in [Pair -> Seq(Message)]
      <3>1. channel \in [Pair -> Seq(Message)]
        BY DEF TypeOK
      <3>. HIDE DEF to, request
      <3>2. Sent(channel, Self(i), to, request) \in [Pair -> Seq(Message)]
        BY <2>3, <3>1, SentFacts DEF Appended
      <3>3. QED
        BY <2>5, <3>1, <3>2
    <2>8. phase' \in [Instances -> {"off", "alive", "stopping", "joined", "closed", "stopped", "blocked"}]
      BY <2>5 DEF TypeOK
    <2>9. sending' \in [Instances -> Call]
      BY <2>5 DEF TypeOK, Call
    <2>10. Rest
      BY <2>5
    <2>. HIDE DEF to, id, request
    <2>11. QED
      BY <2>6, <2>7, <2>8, <2>9, <2>10 DEF TypeOK
  <1>5. ASSUME NEW j \in Instances, NEW kind \in Kinds, SendRequest(i, j, kind)
        PROVE  TypeOK'
    <2>1. [step |-> "checked", to |-> j, kind |-> kind] \in Call
      BY DEF Call
    <2>2. sending' \in [Instances -> Call]
      BY <1>5, <2>1 DEF SendRequest, TypeOK
    <2>3. QED
      BY <1>5, <2>2 DEF SendRequest, TypeOK
  <1>6. ASSUME NEW n \in DOMAIN futures[i], CancelRequest(i, n)
        PROVE  TypeOK'
    <2>1. n - 1 \in Int
      BY <1>0, LenProperties
    <2>2. futures' \in [Instances -> Seq(Future)]
      BY <1>6, <2>1, CompleteFacts DEF CancelRequest, Statuses
    <2>3. QED
      BY <1>6, <2>2 DEF CancelRequest, TypeOK
  <1>7. ASSUME NEW h \in handling[i], Answer(i, h)
        PROVE  TypeOK'
    <2>1. h \in Request /\ replies[i] \in SUBSET ExternalRequestIdentity
      BY DEF TypeOK
    <2>2. h.from \in Instances /\ h.id \in Nat /\ h.of \in Runs
      BY <2>1 DEF Request
    <2>3. replies' \in [Instances -> SUBSET ExternalRequestIdentity] /\ channel' \in [Pair -> Seq(Message)]
      BY <1>7, <2>1, <2>2, SendReplyFacts DEF Answer, TypeOK
    <2>4. QED
      BY <1>7, <2>3 DEF Answer, TypeOK
  <1>8. QED
    BY <1>1, <1>2, <1>3, <1>4, <1>5, <1>6, <1>7

\* Joins, leaves and whatever the poller takes from its channels keep the types.
LEMMA LinkTypes ==
  ASSUME TypeOK, AddressInv, PhaseInv, NEW i \in Instances,
         \/ \E j \in Instances : PeerLeave(i, j)
         \/ \E j \in Instances, r \in Runs : PeerJoin(i, j, r)
         \/ \E a \in Senders(i) : Receive(i, a)
         \/ Replace(i)
  PROVE  TypeOK'
  <1>. USE DEF core, links, requests
  <1>0. channel \in [Pair -> Seq(Message)]
    BY DEF TypeOK
  <1>1. ASSUME NEW j \in Instances, PeerLeave(i, j)
        PROVE  TypeOK'
    <2>1. registry' \in [Instances -> [Instances -> Runs \cup {None}]]
      BY <1>1 DEF PeerLeave, TypeOK
    <2>2. CASE sockets[i][j] = None
      BY <1>1, <2>1, <2>2 DEF PeerLeave, TypeOK
    <2>3. CASE sockets[i][j] # None
      <3>1. <<j, registry[i][j]>> \in Address
        <4>1. registry[i][j] \in Nat /\ registry[i][j] # 0 /\ registry[i][j] <= run[j] /\ run[j] <= MaxRuns[j]
          BY <1>1, RunTypes DEF PeerLeave, AddressInv, None
        <4>2. registry[i][j] <= MaxRuns[j]
          BY <4>1, RunsFacts, RunTypes
        <4>3. QED
          BY <4>1, <4>2, AddressFacts
      <3>2. [addr |-> <<j, registry[i][j]>>, join |-> FALSE] \in Change
        BY <3>1 DEF Change
      <3>3. Append(changes[i], [addr |-> <<j, registry[i][j]>>, join |-> FALSE]) \in Seq(Change)
        BY <3>2, AppendProperties DEF TypeOK
      <3>4. changes' \in [Instances -> Seq(Change)]
        <4>1. changes' = [changes EXCEPT ![i] = Append(changes[i], [addr |-> <<j, registry[i][j]>>, join |-> FALSE])]
          BY <1>1, <2>3 DEF PeerLeave
        <4>2. changes \in [Instances -> Seq(Change)]
          BY DEF TypeOK
        <4>3. QED
          BY <3>3, <4>1, <4>2
      <3>5. sockets' \in [Instances -> [Instances -> Runs \cup {None}]] /\ notified' \in [Instances -> Nat]
        <4>1. sockets' = [sockets EXCEPT ![i][j] = None] /\ notified' = [notified EXCEPT ![i] = @ + 1]
          BY <1>1, <2>3 DEF PeerLeave
        <4>2. sockets \in [Instances -> [Instances -> Runs \cup {None}]] /\ notified \in [Instances -> Nat]
          BY DEF TypeOK
        <4>3. QED
          BY <4>1, <4>2
      <3>6. channel' \in [Pair -> Seq(Message)]
        <4>1. Lossy(channel, Self(i), <<j, sockets[i][j]>>, channel')
          BY <1>1, <2>3 DEF PeerLeave
        <4>2. QED
          BY <1>0, <4>1, LossyFacts, Zenon DEF Shortened
      <3>7. UNCHANGED <<core, connected, joins, leftOver, requests>>
        BY <1>1 DEF PeerLeave
      <3>8. QED
        BY <2>1, <3>4, <3>5, <3>6, <3>7 DEF TypeOK
    <2>4. QED
      BY <2>2, <2>3
  <1>2. ASSUME NEW j \in Instances, NEW r \in Runs, PeerJoin(i, j, r)
        PROVE  TypeOK'
    <2>1. r \in Nat /\ <<j, r>> \in Address
      <3>1. r \in Nat /\ r # 0 /\ r <= run[j] /\ run[j] <= MaxRuns[j] /\ run[j] \in Nat /\ MaxRuns[j] \in Nat
        BY <1>2, RunTypes, RunsFacts DEF PeerJoin
      <3>2. QED
        BY <3>1, AddressFacts
    <2>2. /\ sockets' \in [Instances -> [Instances -> Runs \cup {None}]]
          /\ changes' \in [Instances -> Seq(Change)] /\ notified' \in [Instances -> Nat]
          /\ channel' \in [Pair -> Seq(Message)]
      <3>1. InternalConnect(i, j, r, channel)
        BY <1>2 DEF PeerJoin
      <3>2. QED
        BY <1>0, <2>1, <3>1, InternalConnectFacts
    <2>3. registry' \in [Instances -> [Instances -> Runs \cup {None}]] /\ joins' \in [Instances -> Nat]
      <3>1. registry' = [registry EXCEPT ![i][j] = r] /\ joins' = [joins EXCEPT ![i] = @ + 1]
        BY <1>2 DEF PeerJoin
      <3>2. registry \in [Instances -> [Instances -> Runs \cup {None}]] /\ joins \in [Instances -> Nat]
        BY DEF TypeOK
      <3>3. QED
        BY <3>1, <3>2
    <2>4. UNCHANGED <<core, connected, leftOver, requests>>
      BY <1>2 DEF PeerJoin
    <2>5. QED
      BY <2>2, <2>3, <2>4 DEF TypeOK
  <1>3. ASSUME NEW a \in Senders(i), Receive(i, a)
        PROVE  TypeOK'
    <2>. DEFINE m == Head(channel[<<a, Self(i)>>])
                net == [channel EXCEPT ![<<a, Self(i)>>] = Tail(@)]
    <2>1. /\ Polling(i) /\ channel[<<a, Self(i)>>] # <<>>
          /\ m.type = "request" => HandleRequest(i, a[1], m, net)
          /\ m.type = "reply" => HandleReply(i, m, net)
          /\ m.type = "hello" => HandleHello(i, a, net)
      BY <1>3 DEF Receive
    <2>2. phase[i] # "off"
      BY <2>1 DEF Polling
    <2>3. m \in Message /\ net \in [Pair -> Seq(Message)] /\ a \in Address
      BY <2>1, <2>2, IncomingFacts
    <2>4. a[1] \in Instances /\ a[2] \in Nat /\ <<a[1], a[2]>> \in Address
      BY <2>3, AddressFacts
    <2>. HIDE DEF m, net
    <2>5. CASE m.type = "request"
      <3>1. m.id \in Nat /\ m.of \in Runs
        BY <2>3, <2>5, MessageFacts
      <3>. DEFINE outstanding == replies[i] \cup {[from |-> a[1], id |-> m.id]}
      <3>2. outstanding \in SUBSET ExternalRequestIdentity
        <4>1. [from |-> a[1], id |-> m.id] \in ExternalRequestIdentity
          BY <2>4, <3>1 DEF ExternalRequestIdentity
        <4>2. replies[i] \subseteq ExternalRequestIdentity
          BY DEF TypeOK
        <4>3. QED
          BY <4>1, <4>2
      <3>3. CASE /\ replies' = [replies EXCEPT ![i] = outstanding]
                 /\ handling' = [handling EXCEPT ![i] =
                        IF enabled[i] THEN @ \cup {[from |-> a[1], id |-> m.id, of |-> m.of]} ELSE @]
                 /\ channel' = net
                 /\ UNCHANGED <<core, links, sending, futures>>
        <4>1. replies' \in [Instances -> SUBSET ExternalRequestIdentity]
          BY <3>2, <3>3 DEF TypeOK
        <4>2. handling' \in [Instances -> SUBSET Request]
          <5>1. [from |-> a[1], id |-> m.id, of |-> m.of] \in Request
            BY <2>4, <3>1 DEF Request
          <5>2. QED
            BY <3>3, <5>1 DEF TypeOK
        <4>3. UNCHANGED <<core, links, sending, futures>> /\ channel' = net
          BY <3>3
        <4>4. QED
          BY <2>3, <4>1, <4>2, <4>3 DEF TypeOK
      <3>4. CASE /\ SendReply(i, net, outstanding, a[1], m.id, m.of)
                 /\ UNCHANGED <<core, links, sending, futures, handling>>
        <4>. HIDE DEF outstanding
        <4>1. replies' \in [Instances -> SUBSET ExternalRequestIdentity] /\ channel' \in [Pair -> Seq(Message)]
          BY <2>3, <2>4, <3>1, <3>2, <3>4, SendReplyFacts
        <4>2. QED
          BY <3>4, <4>1 DEF TypeOK
      <3>5. CASE Die(i)
        BY <3>5, DieType
      <3>6. QED
        BY <2>1, <2>3, <2>5, <3>3, <3>4, <3>5, HandleRequestCases
    <2>6. CASE m.type = "reply"
      <3>1. m.id \in Nat /\ m.of \in Runs
        BY <2>3, <2>6, MessageFacts
      <3>2. futures' \in [Instances -> Seq(Future)]
        BY <2>1, <2>6, <3>1, CompleteFacts DEF HandleReply, Statuses
      <3>3. QED
        BY <2>1, <2>3, <2>6, <3>2 DEF HandleReply, TypeOK
    <2>7. CASE m.type = "hello"
      <3>1. InternalConnect(i, a[1], a[2], net) /\ UNCHANGED <<core, registry, connected, joins, leftOver, requests>>
        BY <2>1, <2>7 DEF HandleHello
      <3>2. /\ sockets' \in [Instances -> [Instances -> Runs \cup {None}]]
            /\ changes' \in [Instances -> Seq(Change)] /\ notified' \in [Instances -> Nat]
            /\ channel' \in [Pair -> Seq(Message)]
        BY <2>3, <2>4, <3>1, InternalConnectFacts
      <3>3. QED
        BY <3>1, <3>2 DEF TypeOK
    <2>8. QED
      BY <2>3, <2>5, <2>6, <2>7, MessageFacts
  <1>4. CASE Replace(i)
    BY <1>4, DieType DEF Replace
  <1>5. QED
    BY <1>1, <1>2, <1>3, <1>4

\* Every step keeps the types.
LEMMA TypeStep ==
  ASSUME TypeOK, AddressInv, PhaseInv, [Next]_vars
  PROVE  TypeOK'
  <1>1. CASE UNCHANGED vars
    BY <1>1 DEF vars, core, links, requests, TypeOK
  <1>2. ASSUME NEW i \in Instances,
               \/ Start(i) \/ Stop(i) \/ StopStep(i) \/ Replace(i)
               \/ Enable(i) \/ OnDisable(i)
               \/ HandleNotify(i) \/ SendStep(i)
               \/ \E a \in Senders(i) : Receive(i, a)
               \/ \E j \in Instances : PeerLeave(i, j)
               \/ \E j \in Instances, r \in Runs : PeerJoin(i, j, r)
               \/ \E j \in Instances, kind \in Kinds : SendRequest(i, j, kind)
               \/ \E n \in DOMAIN futures[i] : CancelRequest(i, n)
               \/ \E h \in handling[i] : Answer(i, h)
        PROVE  TypeOK'
    BY <1>2, CoreTypes, RequestTypes, LinkTypes DEF StopStep, SendStep
  <1>3. QED
    BY <1>1, <1>2 DEF Next

\* Only start() changes the number of runs, and it counts up.
LEMMA RunGrows ==
  ASSUME TypeOK, PhaseInv, [Next]_vars
  PROVE  \A j \in Instances : run[j] <= run'[j]
  <1>. USE DEF core, links, requests
  <1>0. \A j \in Instances : run[j] \in Nat
    BY RunTypes
  <1>1. run' = run \/ \E i \in Instances : run' = [run EXCEPT ![i] = @ + 1]
    <2>1. CASE UNCHANGED vars
      BY <2>1 DEF vars
    <2>2. ASSUME NEW i \in Instances, Start(i)
          PROVE  \E k \in Instances : run' = [run EXCEPT ![k] = @ + 1]
      BY <2>2 DEF Start
    <2>3. ASSUME NEW i \in Instances, Stop(i) \/ StopStep(i) \/ Replace(i)
          PROVE  run' = run
      BY <2>3 DEF Stop, StopStep, LeavePoller, CloseSockets, ClearState, Replace, Die
    <2>4. ASSUME NEW i \in Instances, Enable(i) \/ OnDisable(i) \/ HandleNotify(i) \/ SendStep(i)
          PROVE  run' = run
      BY <2>4 DEF Enable, OnDisable, HandleNotify, SendStep, RegisterRequest, Transmit
    <2>5. ASSUME NEW i \in Instances, NEW a \in Senders(i), Receive(i, a)
          PROVE  run' = run
      <3>. DEFINE m == Head(channel[<<a, Self(i)>>])
                  net == [channel EXCEPT ![<<a, Self(i)>>] = Tail(@)]
      <3>1. /\ Polling(i) /\ channel[<<a, Self(i)>>] # <<>>
            /\ m.type = "request" => HandleRequest(i, a[1], m, net)
            /\ m.type = "reply" => HandleReply(i, m, net)
            /\ m.type = "hello" => HandleHello(i, a, net)
        BY <2>5 DEF Receive
      <3>2. m \in Message
        BY <3>1, IncomingFacts DEF Polling
      <3>. HIDE DEF m, net
      <3>3. m.type \in {"hello", "request", "reply"}
        BY <3>2, MessageFacts
      <3>4. CASE m.type = "request"
        BY <3>1, <3>2, <3>4, HandleRequestCases DEF Die
      <3>5. CASE m.type # "request"
        BY <3>1, <3>3, <3>5 DEF HandleReply, HandleHello
      <3>6. QED
        BY <3>4, <3>5
    <2>6. ASSUME NEW i \in Instances, NEW j \in Instances,
                 PeerLeave(i, j) \/ \E r \in Runs : PeerJoin(i, j, r)
          PROVE  run' = run
      BY <2>6 DEF PeerLeave, PeerJoin
    <2>7. ASSUME NEW i \in Instances,
                 \/ \E j \in Instances, kind \in Kinds : SendRequest(i, j, kind)
                 \/ \E n \in DOMAIN futures[i] : CancelRequest(i, n)
                 \/ \E h \in handling[i] : Answer(i, h)
          PROVE  run' = run
      BY <2>7 DEF SendRequest, CancelRequest, Answer
    <2>8. QED
      BY <2>1, <2>2, <2>3, <2>4, <2>5, <2>6, <2>7 DEF Next
  <1>2. QED
    <2>1. run \in [Instances -> Runs \cup {None}]
      BY DEF TypeOK
    <2>2. QED
      BY <1>0, <1>1, <2>1

\* In the next state, nobody knows an address before the run that has it now.
LinksOK == \A i, j \in Instances : registry'[i][j] <= run[j] /\ sockets'[i][j] <= run[j]
ChangesOK == \A i \in Instances : \A k \in DOMAIN changes'[i] :
    changes'[i][k].addr[2] <= run[changes'[i][k].addr[1]]
ChannelsOK == \A pair \in Pair : channel'[pair] # <<>> =>
    pair[1][2] <= run[pair[1][1]] /\ pair[2][2] <= run[pair[2][1]]

\* As runs only grow, that is enough.
LEMMA AddressKept ==
  ASSUME TypeOK, TypeOK', \A j \in Instances : run[j] <= run'[j],
         LinksOK, ChangesOK, ChannelsOK
  PROVE  AddressInv'
  <1>1. \A j \in Instances, r \in Nat : r <= run[j] => r <= run'[j]
    <2>1. \A j \in Instances : run[j] \in Nat /\ run'[j] \in Nat
      BY RunTypes, RunTypesNext
    <2>2. QED
      BY <2>1
  <1>2. \A i, j \in Instances : registry'[i][j] <= run'[j] /\ sockets'[i][j] <= run'[j]
    <2>1. \A i, j \in Instances : registry'[i][j] \in Nat /\ sockets'[i][j] \in Nat
      BY RunTypesNext
    <2>2. QED
      BY <1>1, <2>1 DEF LinksOK
  <1>3. \A i \in Instances : \A k \in DOMAIN changes'[i] :
           changes'[i][k].addr[2] <= run'[changes'[i][k].addr[1]]
    <2>1. ASSUME NEW i \in Instances, NEW k \in DOMAIN changes'[i]
          PROVE  changes'[i][k].addr[2] \in Nat /\ changes'[i][k].addr[1] \in Instances
      <3>1. changes'[i] \in Seq(Change)
        BY DEF TypeOK
      <3>2. changes'[i][k] \in Change
        BY <3>1, LenProperties, ElementOfSeq
      <3>3. changes'[i][k].addr \in Address
        BY <3>2 DEF Change
      <3>4. QED
        BY <3>3, AddressFacts
    <2>2. QED
      BY <1>1, <2>1 DEF ChangesOK
  <1>4. \A pair \in Pair : channel'[pair] # <<>> =>
           pair[1][2] <= run'[pair[1][1]] /\ pair[2][2] <= run'[pair[2][1]]
    BY <1>1, PairFacts, AddressFacts DEF ChannelsOK
  <1>5. QED
    BY <1>2, <1>3, <1>4 DEF AddressInv

\* A shorter channel has something only if it had before.
LEMMA ShortenedChannels ==
  ASSUME TypeOK, AddressInv, Shortened(channel, channel')
  PROVE  ChannelsOK
  <1>1. ASSUME NEW pair \in Pair, channel'[pair] # <<>>
        PROVE  channel[pair] # <<>>
    <2>1. channel'[pair] \in Seq(Message) /\ Len(channel'[pair]) <= Len(channel[pair])
          /\ channel[pair] \in Seq(Message)
      BY DEF Shortened, TypeOK
    <2>2. Len(channel'[pair]) \in Nat \ {0} /\ Len(channel[pair]) \in Nat
      BY <1>1, <2>1, EmptySeq, LenProperties
    <2>3. QED
      BY <2>1, <2>2, EmptySeq
  <1>2. QED
    BY <1>1 DEF AddressInv, ChannelsOK

\* So has a channel to which something is sent.
LEMMA SentChannels ==
  ASSUME TypeOK, AddressInv, NEW i \in Instances,
         \A pair \in Pair : channel'[pair] # <<>> =>
            channel[pair] # <<>> \/ (pair[1] = Self(i) /\ Listening(pair[2]))
  PROVE  ChannelsOK
  <1>1. ASSUME NEW pair \in Pair, pair[1] = Self(i), Listening(pair[2])
        PROVE  pair[1][2] <= run[pair[1][1]] /\ pair[2][2] <= run[pair[2][1]]
    <2>1. pair[1][1] = i /\ pair[1][2] = run[i] /\ run[pair[2][1]] = pair[2][2]
      BY <1>1 DEF Self, Listening
    <2>2. run[i] \in Nat /\ pair[2][2] \in Nat
      BY RunTypes, PairFacts, AddressFacts
    <2>3. QED
      BY <2>1, <2>2
  <1>2. QED
    BY <1>1 DEF AddressInv, ChannelsOK

\* The form in which sending steps state it.
LEMMA SentFromChannels ==
  ASSUME TypeOK, AddressInv, NEW i \in Instances, NEW net, NEW b,
         \A pair \in Pair : net[pair] # <<>> => channel[pair] # <<>>,
         NEW m, channel' = net \/ Appended(net, channel', Self(i), b, m)
  PROVE  ChannelsOK
  <1>1. \A pair \in Pair : channel'[pair] # <<>> =>
            channel[pair] # <<>> \/ (pair[1] = Self(i) /\ Listening(pair[2]))
    <2>1. ASSUME NEW pair \in Pair, channel'[pair] # <<>>, channel[pair] = <<>>
          PROVE  pair[1] = Self(i) /\ Listening(pair[2])
      <3>1. pair = <<Self(i), b>> /\ Listening(b)
        BY <2>1 DEF Appended
      <3>2. pair[1] = Self(i) /\ pair[2] = b
        BY <3>1
      <3>3. QED
        BY <3>1, <3>2
    <2>2. QED
      BY <2>1, Zenon
  <1>2. QED
    BY <1>1, SentChannels

\* Taking a message leaves something only where something was.
LEMMA ReadChannels ==
  ASSUME TypeOK, PhaseInv, NEW i \in Instances, NEW a \in Senders(i), phase[i] # "off",
         channel[<<a, Self(i)>>] # <<>>,
         NEW net, net = [channel EXCEPT ![<<a, Self(i)>>] = Tail(@)]
  PROVE  \A pair \in Pair : net[pair] # <<>> => channel[pair] # <<>>
  BY IncomingFacts

\* A connection leads to an address that was in use.
LEMMA ConnectLinks ==
  ASSUME TypeOK, AddressInv, NEW i \in Instances, NEW j \in Instances, NEW r \in Nat,
         <<j, r>> \in Address, r <= run[j],
         NEW net \in [Pair -> Seq(Message)], InternalConnect(i, j, r, net)
  PROVE  (\A k, l \in Instances : sockets'[k][l] <= run[l]) /\ ChangesOK
  <1>0. sockets \in [Instances -> [Instances -> Runs \cup {None}]] /\ changes \in [Instances -> Seq(Change)]
    BY DEF TypeOK
  <1>1. CASE sockets[i][j] # None
    BY <1>1 DEF InternalConnect, AddressInv, ChangesOK
  <1>2. CASE sockets[i][j] = None
    <2>. DEFINE change == [addr |-> <<j, r>>, join |-> TRUE]
    <2>1. sockets' = [sockets EXCEPT ![i][j] = r] /\ changes' = [changes EXCEPT ![i] = Append(changes[i], change)]
      BY <1>2 DEF InternalConnect
    <2>2. \A k, l \in Instances : sockets'[k][l] <= run[l]
      BY <1>0, <2>1 DEF AddressInv
    <2>3. change \in Change /\ change.addr = <<j, r>>
      BY DEF Change
    <2>. HIDE DEF change
    <2>4. ASSUME NEW k \in Instances, NEW n \in DOMAIN changes'[k]
          PROVE  changes'[k][n].addr[2] <= run[changes'[k][n].addr[1]]
      <3>1. CASE k # i
        <4>1. changes'[k] = changes[k]
          BY <1>0, <2>1, <3>1
        <4>2. QED
          BY <2>4, <4>1 DEF AddressInv
      <3>2. CASE k = i
        <4>1. changes'[i] = Append(changes[i], change) /\ changes[i] \in Seq(Change)
          BY <1>0, <2>1
        <4>2. /\ DOMAIN changes'[i] = 1 .. Len(changes[i]) + 1 /\ DOMAIN changes[i] = 1 .. Len(changes[i])
              /\ \A l \in 1 .. Len(changes[i]) : changes'[i][l] = changes[i][l]
              /\ changes'[i][Len(changes[i]) + 1] = change /\ Len(changes[i]) \in Nat
          BY <2>3, <4>1, AppendProperties, LenProperties
        <4>3. CASE n = Len(changes[i]) + 1
          BY <2>3, <3>2, <4>2, <4>3
        <4>4. CASE n # Len(changes[i]) + 1
          <5>1. n \in DOMAIN changes[i] /\ changes'[i][n] = changes[i][n]
            BY <2>4, <3>2, <4>2, <4>4
          <5>2. QED
            BY <3>2, <5>1 DEF AddressInv
        <4>5. QED
          BY <4>3, <4>4
      <3>3. QED
        BY <3>1, <3>2
    <2>5. QED
      BY <2>2, <2>4 DEF ChangesOK
  <1>3. QED
    BY <1>1, <1>2

\* Steps of a service on its own.
LEMMA CoreAddresses ==
  ASSUME TypeOK, AddressInv, PhaseInv, NEW i \in Instances,
         \/ Start(i) \/ Stop(i) \/ StopStep(i) \/ Die(i) \/ Enable(i) \/ OnDisable(i)
         \/ HandleNotify(i) \/ RegisterRequest(i)
         \/ \E j \in Instances, kind \in Kinds : SendRequest(i, j, kind)
         \/ \E n \in DOMAIN futures[i] : CancelRequest(i, n)
  PROVE  LinksOK /\ ChangesOK /\ ChannelsOK
  <1>. USE DEF core, links, requests
  <1>0. \A j \in Instances : None <= run[j]
    BY RunTypes DEF None
  <1>1. CASE \/ Start(i) \/ LeavePoller(i) \/ Enable(i) \/ OnDisable(i) \/ RegisterRequest(i)
             \/ \E j \in Instances, kind \in Kinds : SendRequest(i, j, kind)
             \/ \E n \in DOMAIN futures[i] : CancelRequest(i, n)
    <2>1. UNCHANGED <<registry, sockets, changes, channel>>
      BY <1>1 DEF Start, LeavePoller, Enable, OnDisable, RegisterRequest, SendRequest, CancelRequest
    <2>2. QED
      BY <2>1 DEF AddressInv, LinksOK, ChangesOK, ChannelsOK
  <1>2. CASE Stop(i) \/ ClearState(i)
    <2>1. UNCHANGED <<changes, channel>>
      BY <1>2 DEF Stop, ClearState
    <2>2. \A k, l \in Instances : /\ registry'[k][l] = registry[k][l] \/ registry'[k][l] = None
                                  /\ sockets'[k][l] = sockets[k][l] \/ sockets'[k][l] = None
      <3>1. \/ registry' = [registry EXCEPT ![i] = NoPeers] /\ sockets' = sockets
            \/ sockets' = [sockets EXCEPT ![i] = NoPeers] /\ registry' = registry
        BY <1>2 DEF Stop, ClearState
      <3>2. registry \in [Instances -> [Instances -> Runs \cup {None}]]
            /\ sockets \in [Instances -> [Instances -> Runs \cup {None}]]
        BY DEF TypeOK
      <3>3. QED
        BY <3>1, <3>2 DEF NoPeers
    <2>3. QED
      BY <1>0, <2>1, <2>2 DEF AddressInv, LinksOK, ChangesOK, ChannelsOK
  <1>3. CASE CloseSockets(i)
    <2>1. UNCHANGED <<registry, sockets, changes>>
      BY <1>3 DEF CloseSockets
    <2>2. Shortened(channel, channel')
      BY <1>3, ClosedAllFacts DEF CloseSockets, TypeOK
    <2>3. QED
      BY <2>1, <2>2, ShortenedChannels DEF AddressInv, LinksOK, ChangesOK
  <1>4. CASE Die(i)
    <2>1. \A k, l \in Instances : /\ registry'[k][l] = registry[k][l] \/ registry'[k][l] = None
                                  /\ sockets'[k][l] = sockets[k][l] \/ sockets'[k][l] = None
      BY <1>4 DEF Die, TypeOK, NoPeers
    <2>2. \A k \in Instances : changes'[k] = changes[k] \/ changes'[k] = <<>>
      BY <1>4 DEF Die, TypeOK
    <2>3. Shortened(channel, channel')
      BY <1>4, ClosedAllFacts DEF Die, TypeOK
    <2>4. ChangesOK
      BY <2>2 DEF AddressInv, ChangesOK
    <2>5. QED
      BY <1>0, <2>1, <2>3, <2>4, ShortenedChannels DEF AddressInv, LinksOK
  <1>5. CASE HandleNotify(i)
    <2>1. UNCHANGED <<registry, sockets, channel>>
      BY <1>5 DEF HandleNotify
    <2>2. ChangesOK
      <3>1. CASE changes[i] = <<>>
        BY <1>5, <3>1 DEF HandleNotify, AddressInv, ChangesOK
      <3>2. CASE changes[i] # <<>>
        <4>1. changes[i] \in Seq(Change) /\ changes' = [changes EXCEPT ![i] = Tail(changes[i])]
              /\ changes \in [Instances -> Seq(Change)]
          BY <1>5, <3>2 DEF HandleNotify, TypeOK
        <4>2. /\ Tail(changes[i]) \in Seq(Change) /\ Len(Tail(changes[i])) = Len(changes[i]) - 1
              /\ \A n \in 1 .. Len(Tail(changes[i])) : Tail(changes[i])[n] = changes[i][n + 1]
          BY <3>2, <4>1, HeadTailProperties
        <4>3. DOMAIN Tail(changes[i]) = 1 .. Len(changes[i]) - 1 /\ DOMAIN changes[i] = 1 .. Len(changes[i])
              /\ Len(changes[i]) \in Nat
          BY <4>1, <4>2, LenProperties
        <4>4. \A n \in DOMAIN Tail(changes[i]) : n + 1 \in DOMAIN changes[i] /\ Tail(changes[i])[n] = changes[i][n + 1]
          BY <4>2, <4>3
        <4>5. \A k \in Instances : changes'[k] = IF k = i THEN Tail(changes[i]) ELSE changes[k]
          BY <4>1
        <4>6. ASSUME NEW k \in Instances, NEW n \in DOMAIN changes'[k]
              PROVE  changes'[k][n].addr[2] <= run[changes'[k][n].addr[1]]
          <5>1. PICK l \in DOMAIN changes[k] : changes'[k][n] = changes[k][l]
            BY <4>4, <4>5, <4>6
          <5>2. QED
            BY <5>1 DEF AddressInv
        <4>7. QED
          BY <4>6 DEF ChangesOK
      <3>3. QED
        BY <3>1, <3>2
    <2>3. QED
      BY <2>1, <2>2 DEF AddressInv, LinksOK, ChannelsOK
  <1>6. QED
    BY <1>1, <1>2, <1>3, <1>4, <1>5 DEF StopStep

\* Steps that connect, disconnect or send.
LEMMA LinkAddresses ==
  ASSUME TypeOK, AddressInv, PhaseInv, NEW i \in Instances,
         \/ \E j \in Instances : PeerLeave(i, j)
         \/ \E j \in Instances, r \in Runs : PeerJoin(i, j, r)
         \/ Transmit(i)
         \/ \E h \in handling[i] : Answer(i, h)
  PROVE  LinksOK /\ ChangesOK /\ ChannelsOK
  <1>. USE DEF core, links, requests
  <1>0. /\ sockets \in [Instances -> [Instances -> Runs \cup {None}]] /\ changes \in [Instances -> Seq(Change)]
        /\ registry \in [Instances -> [Instances -> Runs \cup {None}]] /\ channel \in [Pair -> Seq(Message)]
    BY DEF TypeOK
  <1>1. ASSUME NEW j \in Instances, PeerLeave(i, j)
        PROVE  LinksOK /\ ChangesOK /\ ChannelsOK
    <2>1. LinksOK
      <3>1. registry' = [registry EXCEPT ![i][j] = None] /\ (sockets' = sockets \/ sockets' = [sockets EXCEPT ![i][j] = None])
        BY <1>1 DEF PeerLeave
      <3>2. None <= run[j]
        BY RunTypes DEF None
      <3>3. QED
        BY <1>0, <3>1, <3>2 DEF AddressInv, LinksOK
    <2>2. CASE sockets[i][j] = None
      BY <1>1, <2>1, <2>2 DEF PeerLeave, AddressInv, ChangesOK, ChannelsOK
    <2>3. CASE sockets[i][j] # None
      <3>1. ChannelsOK
        BY <1>0, <1>1, <2>3, LossyFacts, ShortenedChannels DEF PeerLeave
      <3>. DEFINE change == [addr |-> <<j, registry[i][j]>>, join |-> FALSE]
      <3>2. changes' = [changes EXCEPT ![i] = Append(changes[i], change)]
        BY <1>1, <2>3 DEF PeerLeave
      <3>3. change.addr = <<j, registry[i][j]>> /\ registry[i][j] <= run[j]
        BY DEF AddressInv
      <3>. HIDE DEF change
      <3>4. ASSUME NEW k \in Instances, NEW n \in DOMAIN changes'[k]
            PROVE  changes'[k][n].addr[2] <= run[changes'[k][n].addr[1]]
        <4>1. CASE k # i
          BY <1>0, <3>2, <3>4, <4>1 DEF AddressInv
        <4>2. CASE k = i
          <5>1. changes'[i] = Append(changes[i], change) /\ changes[i] \in Seq(Change)
            BY <1>0, <3>2
          <5>2. /\ DOMAIN changes'[i] = 1 .. Len(changes[i]) + 1 /\ DOMAIN changes[i] = 1 .. Len(changes[i])
                /\ \A l \in 1 .. Len(changes[i]) : changes'[i][l] = changes[i][l]
                /\ changes'[i][Len(changes[i]) + 1] = change /\ Len(changes[i]) \in Nat
            BY <5>1, LenProperties
          <5>3. CASE n = Len(changes[i]) + 1
            BY <3>3, <4>2, <5>2, <5>3
          <5>4. CASE n # Len(changes[i]) + 1
            <6>1. n \in DOMAIN changes[i] /\ changes'[i][n] = changes[i][n]
              BY <3>4, <4>2, <5>2, <5>4
            <6>2. QED
              BY <4>2, <6>1 DEF AddressInv
          <5>5. QED
            BY <5>3, <5>4
        <4>3. QED
          BY <4>1, <4>2
      <3>5. QED
        BY <2>1, <3>1, <3>4 DEF ChangesOK
    <2>4. QED
      BY <2>2, <2>3
  <1>2. ASSUME NEW j \in Instances, NEW r \in Runs, PeerJoin(i, j, r)
        PROVE  LinksOK /\ ChangesOK /\ ChannelsOK
    <2>1. r \in Nat /\ <<j, r>> \in Address /\ r <= run[j]
      <3>1. r \in Nat /\ r # 0 /\ r <= run[j] /\ run[j] <= MaxRuns[j] /\ run[j] \in Nat /\ MaxRuns[j] \in Nat
        BY <1>2, RunTypes, RunsFacts DEF PeerJoin
      <3>2. QED
        BY <3>1, AddressFacts
    <2>2. InternalConnect(i, j, r, channel) /\ registry' = [registry EXCEPT ![i][j] = r]
      BY <1>2 DEF PeerJoin
    <2>3. (\A k, l \in Instances : sockets'[k][l] <= run[l]) /\ ChangesOK
      BY <1>0, <2>1, <2>2, ConnectLinks
    <2>4. ChannelsOK
      <3>1. Appended(channel, channel', Self(i), <<j, r>>, Hello)
        BY <1>0, <2>1, <2>2, InternalConnectFacts
      <3>2. QED
        BY <3>1, SentFromChannels, Zenon
    <2>5. LinksOK
      BY <1>0, <2>1, <2>2, <2>3 DEF AddressInv, LinksOK
    <2>6. QED
      BY <2>3, <2>4, <2>5
  <1>3. CASE Transmit(i)
    <2>. DEFINE id == Len(futures[i]) - 1
                request == [type |-> "request", kind |-> sending[i].kind, id |-> id, of |-> futures[i][id + 1].of]
    <2>1. UNCHANGED <<registry, sockets, changes>>
      BY <1>3 DEF Transmit
    <2>2. channel' = channel \/ channel' = Sent(channel, Self(i), <<sending[i].to, sockets[i][sending[i].to]>>, request)
      BY <1>3 DEF Transmit
    <2>3. channel' = channel \/ Appended(channel, channel', Self(i), <<sending[i].to, sockets[i][sending[i].to]>>, request)
      <3>1. request \in Message
        BY <1>3, RequestMessage DEF Transmit
      <3>. HIDE DEF id, request
      <3>2. QED
        BY <1>0, <2>2, <3>1, SentFacts
    <2>. HIDE DEF id, request
    <2>4. ChannelsOK
      BY <2>3, SentFromChannels, Zenon
    <2>5. QED
      BY <2>1, <2>4 DEF AddressInv, LinksOK, ChangesOK
  <1>4. ASSUME NEW h \in handling[i], Answer(i, h)
        PROVE  LinksOK /\ ChangesOK /\ ChannelsOK
    <2>1. h.from \in Instances /\ h.id \in Nat /\ h.of \in Runs /\ replies[i] \in SUBSET ExternalRequestIdentity
      <3>1. h \in Request /\ replies[i] \in SUBSET ExternalRequestIdentity
        BY DEF TypeOK
      <3>2. QED
        BY <3>1 DEF Request
    <2>2. channel' = channel \/ Appended(channel, channel', Self(i), <<h.from, sockets[i][h.from]>>,
                                         [type |-> "reply", id |-> h.id, of |-> h.of])
      BY <1>0, <1>4, <2>1, SendReplyFacts DEF Answer
    <2>3. UNCHANGED <<registry, sockets, changes>>
      BY <1>4 DEF Answer
    <2>4. ChannelsOK
      BY <2>2, SentFromChannels, Zenon
    <2>5. QED
      BY <2>3, <2>4 DEF AddressInv, LinksOK, ChangesOK
  <1>5. QED
    BY <1>1, <1>2, <1>3, <1>4

\* Steps of the poller that take a message.
LEMMA ReceiveAddresses ==
  ASSUME TypeOK, AddressInv, PhaseInv, NEW i \in Instances, NEW a \in Senders(i), Receive(i, a)
  PROVE  LinksOK /\ ChangesOK /\ ChannelsOK
  <1>. USE DEF core, links, requests
  <1>. DEFINE m == Head(channel[<<a, Self(i)>>])
              net == [channel EXCEPT ![<<a, Self(i)>>] = Tail(@)]
  <1>1. /\ Polling(i) /\ channel[<<a, Self(i)>>] # <<>>
        /\ m.type = "request" => HandleRequest(i, a[1], m, net)
        /\ m.type = "reply" => HandleReply(i, m, net)
        /\ m.type = "hello" => HandleHello(i, a, net)
    BY DEF Receive
  <1>2. phase[i] # "off"
    BY <1>1 DEF Polling
  <1>3. m \in Message /\ net \in [Pair -> Seq(Message)] /\ a \in Address /\ <<a, Self(i)>> \in Pair
    BY <1>1, <1>2, IncomingFacts
  <1>4. a[1] \in Instances /\ a[2] \in Nat /\ <<a[1], a[2]>> \in Address
    BY <1>3, AddressFacts
  <1>5. \A pair \in Pair : net[pair] # <<>> => channel[pair] # <<>>
    BY <1>1, <1>2, ReadChannels
  <1>6. a[2] <= run[a[1]]
    BY <1>1, <1>3 DEF AddressInv
  <1>. HIDE DEF m, net
  <1>7. CASE m.type = "request"
    <2>1. m.id \in Nat /\ m.of \in Runs
      BY <1>3, <1>7, MessageFacts
    <2>. DEFINE outstanding == replies[i] \cup {[from |-> a[1], id |-> m.id]}
    <2>2. outstanding \in SUBSET ExternalRequestIdentity
      BY <1>4, <2>1 DEF TypeOK, ExternalRequestIdentity
    <2>. HIDE DEF outstanding
    <2>3. CASE channel' = net /\ UNCHANGED <<core, links, sending, futures>>
      <3>1. ChannelsOK
        BY <1>5, <2>3, SentChannels, Zenon
      <3>2. QED
        BY <2>3, <3>1 DEF AddressInv, LinksOK, ChangesOK
    <2>4. CASE /\ SendReply(i, net, outstanding, a[1], m.id, m.of)
               /\ UNCHANGED <<core, links, sending, futures, handling>>
      <3>1. channel' = net \/ Appended(net, channel', Self(i), <<a[1], sockets[i][a[1]]>>,
                                       [type |-> "reply", id |-> m.id, of |-> m.of])
        BY <1>3, <1>4, <2>1, <2>2, <2>4, SendReplyFacts
      <3>2. ChannelsOK
        BY <1>5, <3>1, SentFromChannels, Zenon
      <3>3. QED
        BY <2>4, <3>2 DEF AddressInv, LinksOK, ChangesOK
    <2>5. CASE Die(i)
      BY <2>5, CoreAddresses
    <2>6. QED
      BY <1>1, <1>3, <1>7, <2>3, <2>4, <2>5, HandleRequestCases DEF outstanding
  <1>8. CASE m.type = "reply"
    <2>1. channel' = net /\ UNCHANGED <<registry, sockets, changes>>
      BY <1>1, <1>8 DEF HandleReply
    <2>2. QED
      <3>1. ChannelsOK
        BY <1>5, <2>1, SentChannels, Zenon
      <3>2. QED
        BY <2>1, <3>1 DEF AddressInv, LinksOK, ChangesOK
  <1>9. CASE m.type = "hello"
    <2>1. InternalConnect(i, a[1], a[2], net) /\ registry' = registry
      BY <1>1, <1>9 DEF HandleHello
    <2>2. (\A k, l \in Instances : sockets'[k][l] <= run[l]) /\ ChangesOK
      BY <1>3, <1>4, <1>6, <2>1, ConnectLinks
    <2>3. Appended(net, channel', Self(i), <<a[1], a[2]>>, Hello)
      BY <1>3, <1>4, <2>1, InternalConnectFacts
    <2>4. ChannelsOK
      BY <1>5, <2>3, SentFromChannels, Zenon
    <2>5. QED
      BY <2>1, <2>2, <2>4 DEF AddressInv, LinksOK
  <1>10. QED
    BY <1>3, <1>7, <1>8, <1>9, MessageFacts

\* Every step keeps to known addresses.
LEMMA AddressStep ==
  ASSUME TypeOK, AddressInv, PhaseInv, [Next]_vars
  PROVE  AddressInv'
  <1>1. TypeOK' /\ \A j \in Instances : run[j] <= run'[j]
    BY TypeStep, RunGrows
  <1>2. CASE UNCHANGED vars
    BY <1>2 DEF vars, core, links, requests, AddressInv
  <1>3. CASE Next
    <2>1. LinksOK /\ ChangesOK /\ ChannelsOK
      BY <1>3, CoreAddresses, LinkAddresses, ReceiveAddresses DEF Next, SendStep, Replace
    <2>2. QED
      BY <1>1, <2>1, AddressKept
  <1>4. QED
    BY <1>2, <1>3

\* An action of instance i touches no other service, but for the channels.
OthersKept(i) == \A k \in Instances \ {i} :
    /\ phase'[k] = phase[k] /\ run'[k] = run[k] /\ born'[k] = born[k]
    /\ sockets'[k] = sockets[k] /\ changes'[k] = changes[k]
    /\ notified'[k] = notified[k] /\ connected'[k] = connected[k] /\ leftOver'[k] = leftOver[k]
    /\ sending'[k] = sending[k] /\ futures'[k] = futures[k]
    /\ replies'[k] = replies[k] /\ handling'[k] = handling[k]

\* The actions of one instance.
ActionOf(i) ==
    \/ Start(i) \/ Stop(i) \/ StopStep(i) \/ Replace(i)
    \/ Enable(i) \/ OnDisable(i)
    \/ HandleNotify(i) \/ SendStep(i)
    \/ \E a \in Senders(i) : Receive(i, a)
    \/ \E j \in Instances : PeerLeave(i, j)
    \/ \E j \in Instances, r \in Runs : PeerJoin(i, j, r)
    \/ \E j \in Instances, kind \in Kinds : SendRequest(i, j, kind)
    \/ \E n \in DOMAIN futures[i] : CancelRequest(i, n)
    \/ \E h \in handling[i] : Answer(i, h)

\* Every step is one of an instance.
LEMMA NextIsActionOf == Next => \E i \in Instances : ActionOf(i)
  BY DEF Next, ActionOf

\* The death of a process touches nothing the others keep.
LEMMA DieOthers ==
  ASSUME TypeOK, NEW i \in Instances, Die(i)
  PROVE  OthersKept(i)
  BY DEF Die, TypeOK, OthersKept

\* Completing a request touches only the futures of its owner.
LEMMA CompleteOthers ==
  ASSUME NEW i \in Instances, NEW n, NEW status, NEW answers, Complete(i, n, status, answers),
         futures \in [Instances -> Seq(Future)]
  PROVE  \A k \in Instances \ {i} : futures'[k] = futures[k]
  BY DEF Complete

\* Connecting a socket touches only its owner.
LEMMA ConnectOthers ==
  ASSUME TypeOK, NEW i \in Instances, NEW j, NEW r, NEW net, InternalConnect(i, j, r, net)
  PROVE  \A k \in Instances \ {i} :
            sockets'[k] = sockets[k] /\ changes'[k] = changes[k] /\ notified'[k] = notified[k]
  BY DEF InternalConnect, TypeOK

\* A step of an instance leaves what the others keep as it is.
LEMMA OthersStep ==
  ASSUME TypeOK, PhaseInv, NEW i \in Instances, ActionOf(i)
  PROVE  OthersKept(i)
  <1>. USE DEF core, links, requests
  <1>1. CASE Start(i) \/ Stop(i) \/ StopStep(i) \/ Enable(i)
    BY <1>1 DEF Start, Stop, StopStep, LeavePoller, CloseSockets, ClearState, Enable, TypeOK, OthersKept
  <1>2. CASE OnDisable(i)
    BY <1>2 DEF OnDisable, TypeOK, OthersKept
  <1>13. CASE \E j \in Instances, kind \in Kinds : SendRequest(i, j, kind)
    BY <1>13 DEF SendRequest, TypeOK, OthersKept
  <1>11. CASE HandleNotify(i)
    <2>1. \A k \in Instances \ {i} :
             changes'[k] = changes[k] /\ connected'[k] = connected[k] /\ notified'[k] = notified[k]
      BY <1>11 DEF HandleNotify, TypeOK
    <2>2. QED
      BY <1>11, <2>1 DEF HandleNotify, OthersKept
  <1>10. CASE RegisterRequest(i)
    <2>1. \A k \in Instances \ {i} : sending'[k] = sending[k] /\ futures'[k] = futures[k]
      BY <1>10 DEF RegisterRequest, TypeOK
    <2>2. QED
      BY <1>10, <2>1 DEF RegisterRequest, OthersKept
  <1>3. CASE Replace(i)
    BY <1>3, DieOthers DEF Replace
  <1>0. futures \in [Instances -> Seq(Future)]
    BY DEF TypeOK
  <1>4. CASE Transmit(i)
    <2>1. \A k \in Instances \ {i} : sending'[k] = sending[k] /\ phase'[k] = phase[k]
      BY <1>4 DEF Transmit, TypeOK
    <2>2. futures' = futures \/ Complete(i, Len(futures[i]) - 1, "failed", None)
      BY <1>4 DEF Transmit
    <2>3. \A k \in Instances \ {i} : futures'[k] = futures[k]
      BY <1>0, <2>2, CompleteOthers
    <2>4. UNCHANGED <<run, born, sockets, changes, notified, connected, leftOver, replies, handling>>
      BY <1>4 DEF Transmit
    <2>5. QED
      BY <2>1, <2>3, <2>4 DEF OthersKept
  <1>12. CASE \E n \in DOMAIN futures[i] : CancelRequest(i, n)
    <2>1. PICK n \in DOMAIN futures[i] : CancelRequest(i, n)
      BY <1>12
    <2>2. \A k \in Instances \ {i} : futures'[k] = futures[k]
      BY <1>0, <2>1, CompleteOthers DEF CancelRequest
    <2>3. QED
      BY <2>1, <2>2 DEF CancelRequest, OthersKept
  <1>5. CASE \E h \in handling[i] : Answer(i, h)
    BY <1>5 DEF Answer, SendReply, TypeOK, OthersKept
  <1>6. CASE \E j \in Instances : PeerLeave(i, j)
    <2>1. PICK j \in Instances : PeerLeave(i, j)
      BY <1>6
    <2>4. /\ sockets' = sockets \/ \E s : sockets' = [sockets EXCEPT ![i] = s]
          /\ changes' = changes \/ \E c : changes' = [changes EXCEPT ![i] = c]
          /\ notified' = notified \/ \E n : notified' = [notified EXCEPT ![i] = n]
      BY <2>1 DEF PeerLeave
    <2>2. \A k \in Instances \ {i} :
             sockets'[k] = sockets[k] /\ changes'[k] = changes[k] /\ notified'[k] = notified[k]
      BY <2>4 DEF TypeOK
    <2>3. QED
      BY <2>1, <2>2 DEF PeerLeave, OthersKept
  <1>7. CASE \E j \in Instances, r \in Runs : PeerJoin(i, j, r)
    BY <1>7, ConnectOthers DEF PeerJoin, OthersKept
  <1>8. ASSUME NEW a \in Senders(i), Receive(i, a)
        PROVE  OthersKept(i)
    <2>. DEFINE m == Head(channel[<<a, Self(i)>>])
                net == [channel EXCEPT ![<<a, Self(i)>>] = Tail(@)]
    <2>1. /\ Polling(i) /\ channel[<<a, Self(i)>>] # <<>>
          /\ m.type = "request" => HandleRequest(i, a[1], m, net)
          /\ m.type = "reply" => HandleReply(i, m, net)
          /\ m.type = "hello" => HandleHello(i, a, net)
      BY <1>8 DEF Receive
    <2>2. m \in Message
      BY <2>1, IncomingFacts DEF Polling
    <2>. HIDE DEF m, net
    <2>3. CASE m.type = "request"
      <3>1. CASE /\ \/ replies' = [replies EXCEPT ![i] = replies[i] \cup {[from |-> a[1], id |-> m.id]}]
                    \/ SendReply(i, net, replies[i] \cup {[from |-> a[1], id |-> m.id]}, a[1], m.id, m.of)
                 /\ \/ handling' = [handling EXCEPT ![i] =
                          IF enabled[i] THEN @ \cup {[from |-> a[1], id |-> m.id, of |-> m.of]} ELSE @]
                    \/ handling' = handling
                 /\ UNCHANGED <<core, links, sending, futures>>
        BY <3>1 DEF SendReply, TypeOK, OthersKept
      <3>2. CASE Die(i)
        BY <3>2, DieOthers
      <3>3. QED
        BY <2>1, <2>2, <2>3, <3>1, <3>2, HandleRequestCases
    <2>4. CASE m.type = "reply"
      BY <2>1, <2>4 DEF HandleReply, Complete, TypeOK, OthersKept
    <2>5. CASE m.type = "hello"
      BY <2>1, <2>5, ConnectOthers DEF HandleHello, OthersKept
    <2>6. QED
      BY <2>2, <2>3, <2>4, <2>5, MessageFacts
  <1>9. QED
    BY <1>1, <1>2, <1>3, <1>4, <1>5, <1>6, <1>7, <1>8, <1>10, <1>11, <1>12, <1>13 DEF ActionOf, SendStep

\* What a service has depends on no other service.
LEMMA PhaseKept ==
  ASSUME PhaseInv, NEW i \in Instances, OthersKept(i), PhaseOf(i)'
  PROVE  PhaseInv'
  <1>1. ASSUME NEW k \in Instances, k # i
        PROVE  PhaseOf(k)'
    BY <1>1 DEF PhaseInv, PhaseOf, OthersKept
  <1>2. QED
    BY <1>1 DEF PhaseInv

\* After its death an instance is off, with nothing left.
LEMMA DiePhase ==
  ASSUME TypeOK, NEW i \in Instances, Die(i)
  PROVE  PhaseOf(i)'
  <1>1. /\ phase'[i] = "off" /\ born'[i] = None /\ sending'[i] = Idle /\ futures'[i] = <<>>
        /\ replies'[i] = {} /\ handling'[i] = {} /\ sockets'[i] = NoPeers /\ changes'[i] = <<>>
        /\ connected'[i] = {}
    BY DEF Die, TypeOK
  <1>2. QED
    BY <1>1 DEF PhaseOf, Idle

\* A step that leaves the phase alone, other than "off" and what a stop left.
LEMMA BusyPhase ==
  ASSUME TypeOK, PhaseInv, NEW i \in Instances,
         phase[i] \in {"alive", "stopping"}, phase'[i] = phase[i], born'[i] = born[i],
         sending'[i].step = "registered" => futures'[i] # <<>>
  PROVE  PhaseOf(i)'
  BY DEF PhaseInv, PhaseOf

\* The request that is registered has its future.
LEMMA CompleteKeepsFutures ==
  ASSUME TypeOK, NEW i \in Instances, NEW n \in Int, NEW status \in Statuses,
         NEW answers \in Runs \cup {None}, Complete(i, n, status, answers), futures[i] # <<>>
  PROVE  futures'[i] # <<>>
  <1>0. futures[i] \in Seq(Future)
    BY DEF TypeOK
  <1>1. Len(futures'[i]) = Len(futures[i]) /\ futures'[i] \in Seq(Future)
    BY CompleteFacts
  <1>2. QED
    BY <1>0, <1>1, EmptySeq

\* Breaking promises removes no future.
LEMMA BrokenKeepsFutures ==
  ASSUME NEW fs \in Seq(Future), fs # <<>>
  PROVE  Broken(fs) # <<>>
  BY BrokenFacts, EmptySeq

\* Each step of an instance leads to a phase with what belongs to it.
LEMMA PhaseStepOf ==
  ASSUME TypeOK, AddressInv, PhaseInv, NEW i \in Instances, ActionOf(i)
  PROVE  PhaseOf(i)'
  <1>. USE DEF core, links, requests
  <1>0. PhaseOf(i) /\ futures[i] \in Seq(Future)
    BY DEF PhaseInv, TypeOK
  <1>1. CASE Start(i)
    <2>1. run[i] \in Nat /\ run'[i] = run[i] + 1
      BY <1>1, RunTypes DEF Start, TypeOK
    <2>2. born'[i] # None /\ phase'[i] = "alive"
      BY <1>1, <2>1 DEF Start, TypeOK, None
    <2>3. QED
      BY <1>0, <1>1, <2>2 DEF Start, PhaseOf
  <1>2. CASE Stop(i) \/ LeavePoller(i) \/ Enable(i)
    BY <1>0, <1>2 DEF Stop, LeavePoller, Enable, Alive, TypeOK, PhaseOf
  <1>3. CASE CloseSockets(i)
    BY <1>0, <1>3 DEF CloseSockets, TypeOK, PhaseOf
  <1>4. CASE ClearState(i)
    <2>1. phase'[i] = "stopped" /\ sockets'[i] = NoPeers /\ leftOver'[i] = Len(changes'[i]) /\ connected'[i] = {}
          /\ born'[i] = born[i] /\ born[i] # None
      BY <1>0, <1>4 DEF ClearState, TypeOK, PhaseOf
    <2>2. sending'[i].step = "registered" => futures'[i] # <<>>
      BY <1>0, <1>4, BrokenKeepsFutures DEF ClearState, TypeOK, PhaseOf
    <2>3. QED
      BY <2>1, <2>2 DEF PhaseOf
  <1>5. CASE Replace(i)
    BY <1>5, DiePhase DEF Replace
  <1>6. CASE OnDisable(i)
    <2>1. futures'[i] = Broken(futures[i]) /\ sending' = sending /\ phase' = phase /\ born' = born /\ phase[i] = "alive"
      BY <1>6 DEF OnDisable, Alive, TypeOK
    <2>2. QED
      BY <1>0, <2>1, BrokenKeepsFutures, BusyPhase DEF PhaseOf
  <1>7. CASE \/ HandleNotify(i)
             \/ \E j \in Instances : PeerLeave(i, j)
             \/ \E j \in Instances, r \in Runs : PeerJoin(i, j, r)
             \/ \E h \in handling[i] : Answer(i, h)
    <2>1. UNCHANGED <<sending, futures, phase, born>> /\ phase[i] \in {"alive", "stopping"}
      BY <1>7 DEF HandleNotify, PeerLeave, PeerJoin, Answer, Alive, Polling
    <2>2. QED
      BY <1>0, <2>1, BusyPhase DEF PhaseOf
  <1>8. CASE RegisterRequest(i)
    <2>1. /\ futures' = [futures EXCEPT ![i] =
               Append(@, [of |-> run[i], to |-> sending[i].to, status |-> "waiting", answers |-> None])]
          /\ sending' = [sending EXCEPT ![i].step = "registered"]
          /\ UNCHANGED <<phase, born, sockets, changes, connected, leftOver>>
      BY <1>8 DEF RegisterRequest
    <2>2. futures'[i] # <<>>
      <3>1. futures'[i] = Append(futures[i], [of |-> run[i], to |-> sending[i].to, status |-> "waiting", answers |-> None])
        BY <2>1 DEF TypeOK
      <3>2. QED
        BY <1>0, <3>1
    <2>3. phase[i] # "off"
      BY <1>0, <1>8 DEF RegisterRequest, PhaseOf, Idle
    <2>4. QED
      BY <1>0, <2>1, <2>2, <2>3 DEF PhaseOf
  <1>9. CASE Transmit(i)
    <2>1. sending'[i].step # "registered"
      BY <1>9 DEF Transmit, TypeOK, Idle
    <2>2. phase[i] # "off"
      BY <1>0, <1>9 DEF Transmit, PhaseOf, Idle
    <2>3. UNCHANGED <<born, sockets, changes, connected, leftOver>>
          /\ (phase' = phase \/ phase' = [phase EXCEPT ![i] = "blocked"])
      BY <1>9 DEF Transmit
    <2>4. phase'[i] = phase[i] \/ phase'[i] = "blocked"
      BY <2>3 DEF TypeOK
    <2>5. QED
      BY <1>0, <2>1, <2>2, <2>3, <2>4 DEF PhaseOf
  <1>10. CASE \E j \in Instances, kind \in Kinds : SendRequest(i, j, kind)
    <2>1. UNCHANGED <<futures, phase, born>> /\ phase[i] = "alive" /\ sending'[i].step # "registered"
      BY <1>10 DEF SendRequest, Alive, TypeOK
    <2>2. QED
      BY <2>1, BusyPhase
  <1>11. ASSUME NEW n \in DOMAIN futures[i], CancelRequest(i, n)
         PROVE  PhaseOf(i)'
    <2>1. Complete(i, n - 1, "broken", None) /\ UNCHANGED <<sending, phase, born>> /\ phase[i] = "alive"
      BY <1>11 DEF CancelRequest, Alive
    <2>2. n - 1 \in Int /\ "broken" \in Statuses /\ None \in Runs \cup {None}
      BY <1>0, LenProperties DEF Statuses
    <2>3. futures[i] # <<>> => futures'[i] # <<>>
      BY <2>1, <2>2, CompleteKeepsFutures
    <2>4. QED
      BY <1>0, <2>1, <2>3, BusyPhase DEF PhaseOf
  <1>12. ASSUME NEW a \in Senders(i), Receive(i, a)
         PROVE  PhaseOf(i)'
    <2>. DEFINE m == Head(channel[<<a, Self(i)>>])
                net == [channel EXCEPT ![<<a, Self(i)>>] = Tail(@)]
    <2>1. /\ Polling(i) /\ channel[<<a, Self(i)>>] # <<>>
          /\ m.type = "request" => HandleRequest(i, a[1], m, net)
          /\ m.type = "reply" => HandleReply(i, m, net)
          /\ m.type = "hello" => HandleHello(i, a, net)
      BY <1>12 DEF Receive
    <2>2. m \in Message /\ phase[i] \in {"alive", "stopping"}
      BY <2>1, IncomingFacts DEF Polling
    <2>. HIDE DEF m, net
    <2>3. CASE UNCHANGED <<sending, futures, phase, born>>
      BY <1>0, <2>2, <2>3, BusyPhase DEF PhaseOf
    <2>4. CASE m.type = "request"
      <3>1. Die(i) \/ UNCHANGED <<sending, futures, phase, born>>
        BY <2>1, <2>2, <2>4, HandleRequestCases
      <3>2. QED
        BY <2>3, <3>1, DiePhase
    <2>5. CASE m.type = "reply"
      <3>1. Complete(i, m.id, "answered", m.of) /\ UNCHANGED <<sending, phase, born>>
        BY <2>1, <2>5 DEF HandleReply
      <3>2. m.id \in Int /\ m.of \in Runs \cup {None} /\ "answered" \in Statuses
        BY <2>2, <2>5, MessageFacts DEF Statuses
      <3>3. futures[i] # <<>> => futures'[i] # <<>>
        BY <3>1, <3>2, CompleteKeepsFutures
      <3>4. QED
        BY <1>0, <2>2, <3>1, <3>3, BusyPhase DEF PhaseOf
    <2>6. CASE m.type = "hello"
      BY <2>1, <2>3, <2>6 DEF HandleHello
    <2>7. QED
      BY <2>2, <2>4, <2>5, <2>6, MessageFacts
  <1>13. CASE Start(i) \/ Stop(i) \/ StopStep(i) \/ Replace(i) \/ Enable(i) \/ OnDisable(i) \/ SendStep(i)
    BY <1>1, <1>2, <1>3, <1>4, <1>5, <1>6, <1>8, <1>9, <1>13 DEF StopStep, SendStep
  <1>14. CASE \/ \E n \in DOMAIN futures[i] : CancelRequest(i, n)
              \/ \E a \in Senders(i) : Receive(i, a)
    BY <1>11, <1>12, <1>14
  <1>15. QED
    BY <1>7, <1>10, <1>13, <1>14 DEF ActionOf

\* Initially there is no service, and nothing is on its way.
LEMMA BaseInit == Init => BaseInv
  <1>. SUFFICES ASSUME Init PROVE BaseInv
    OBVIOUS
  <1>1. \A i \in Instances : run[i] = None /\ born[i] = None /\ None <= MaxRuns[i] /\ None <= None
    BY RunsFacts DEF Init, None
  <1>2. <<>> \in Seq(Change) /\ <<>> \in Seq(Future) /\ <<>> \in Seq(Message)
    BY EmptySeq
  <1>3. TypeOK
    BY <1>1, <1>2 DEF Init, TypeOK, NoPeers, Call
  <1>4. AddressInv
    BY <1>1 DEF Init, AddressInv, NoPeers
  <1>5. PhaseInv
    BY <1>1 DEF Init, PhaseInv, PhaseOf, Idle
  <1>6. QED
    BY <1>3, <1>4, <1>5 DEF BaseInv

\* Types, addresses and phases are kept by every step.
LEMMA BaseStep ==
  ASSUME BaseInv, [Next]_vars
  PROVE  BaseInv'
  <1>1. TypeOK' /\ AddressInv'
    BY TypeStep, AddressStep DEF BaseInv
  <1>2. PhaseInv'
    <2>1. CASE UNCHANGED vars
      BY <2>1 DEF BaseInv, PhaseInv, PhaseOf, vars, core, links, requests
    <2>2. ASSUME NEW i \in Instances, ActionOf(i)
          PROVE  PhaseInv'
      BY <2>2, OthersStep, PhaseStepOf, PhaseKept DEF BaseInv
    <2>3. QED
      BY <2>1, <2>2, NextIsActionOf
  <1>3. QED
    BY <1>1, <1>2 DEF BaseInv

\* Types, addresses, and what is left in each phase of a service, in every reachable state.
THEOREM BaseInvariant == Spec => []BaseInv
  <1>1. Init => BaseInv
    BY BaseInit
  <1>2. BaseInv /\ [Next]_vars => BaseInv'
    BY BaseStep
  <1>3. QED
    BY <1>1, <1>2, PTL DEF Spec

\* Every variable keeps its type: ids and runs stay within their ranges, calls and
\* futures are the records sendRequest() makes, channels hold messages only.
THEOREM TypeCorrect == Spec => []TypeOK
  <1>1. BaseInv => TypeOK
    BY DEF BaseInv
  <1>2. QED
    BY <1>1, BaseInvariant, PTL

(***************************************************************************)
(* A reply completes the request it answers.                               *)
(***************************************************************************)
\* The step takes a reply from its channel that completes future n of instance i.
Completes(i, n) == \E a \in Senders(i) :
    /\ phase[i] # "off" /\ channel[<<a, Self(i)>>] # <<>>
    /\ Head(channel[<<a, Self(i)>>]).type = "reply"
    /\ n = Head(channel[<<a, Self(i)>>]).id + 1
    /\ futures'[i][n].answers = Head(channel[<<a, Self(i)>>]).of
    /\ channel' = [channel EXCEPT ![<<a, Self(i)>>] = Tail(@)] /\ replies' = replies

\* What one step does to the futures of a service that goes on: it may answer one,
\* by a reply to it, or append one.
FuturesGrow(i) ==
    /\ Len(futures[i]) <= Len(futures'[i])
    /\ \A n \in DOMAIN futures[i] :
          /\ futures'[i][n].of = futures[i][n].of
          /\ futures'[i][n].status = "answered" => futures'[i][n] = futures[i][n] \/ Completes(i, n)
    /\ \A n \in DOMAIN futures'[i] \ DOMAIN futures[i] :
          futures'[i][n].of = run[i] /\ futures'[i][n].status = "waiting"

\* Futures that stay as they are grow.
LEMMA UnchangedGrow ==
  ASSUME TypeOK, NEW i \in Instances, futures' = futures
  PROVE  FuturesGrow(i)
  <1>1. futures'[i] = futures[i] /\ Len(futures[i]) \in Nat
    BY LenProperties DEF TypeOK
  <1>2. QED
    BY <1>1 DEF FuturesGrow

\* Breaking the promises of open futures completes them.
LEMMA BrokenGrow ==
  ASSUME TypeOK, NEW i \in Instances, futures' = [futures EXCEPT ![i] = Broken(@)]
  PROVE  FuturesGrow(i)
  <1>1. futures'[i] = Broken(futures[i]) /\ futures[i] \in Seq(Future)
    BY DEF TypeOK
  <1>2. /\ Broken(futures[i]) \in Seq(Future) /\ Len(Broken(futures[i])) = Len(futures[i])
        /\ \A n \in DOMAIN futures[i] :
              /\ Broken(futures[i])[n].of = futures[i][n].of
              /\ Broken(futures[i])[n].status # "waiting"
              /\ Broken(futures[i])[n] = futures[i][n] \/ Broken(futures[i])[n].status = "broken"
    BY <1>1, BrokenFacts
  <1>3. DOMAIN futures'[i] = 1 .. Len(futures'[i]) /\ DOMAIN futures[i] = 1 .. Len(futures[i]) /\ Len(futures[i]) \in Nat
    BY <1>1, <1>2, LenProperties
  <1>4. DOMAIN futures'[i] = DOMAIN futures[i] /\ Len(futures[i]) <= Len(futures'[i])
    BY <1>1, <1>2, <1>3
  <1>5. \A n \in DOMAIN futures[i] :
           /\ futures'[i][n].of = futures[i][n].of
           /\ futures'[i][n].status = "answered" => futures'[i][n] = futures[i][n]
    BY <1>1, <1>2
  <1>6. QED
    BY <1>4, <1>5 DEF FuturesGrow

\* Completing one future keeps the others.
LEMMA CompleteGrow ==
  ASSUME TypeOK, NEW i \in Instances, NEW n \in Int, NEW status \in Statuses,
         NEW answers \in Runs \cup {None}, Complete(i, n, status, answers),
         status = "answered" =>
            \E a \in Senders(i) :
               /\ phase[i] # "off" /\ channel[<<a, Self(i)>>] # <<>>
               /\ Head(channel[<<a, Self(i)>>]).type = "reply"
               /\ n = Head(channel[<<a, Self(i)>>]).id
               /\ answers = Head(channel[<<a, Self(i)>>]).of
               /\ channel' = [channel EXCEPT ![<<a, Self(i)>>] = Tail(@)] /\ replies' = replies
  PROVE  FuturesGrow(i)
  <1>1. /\ futures' \in [Instances -> Seq(Future)]
        /\ Len(futures'[i]) = Len(futures[i])
        /\ \A k \in DOMAIN futures[i] :
              /\ futures'[i][k].of = futures[i][k].of
              /\ \/ futures'[i][k] = futures[i][k]
                 \/ /\ k = n + 1 /\ futures[i][k].status = "waiting"
                    /\ futures'[i][k].status = status /\ futures'[i][k].answers = answers
    BY CompleteFacts
  <1>2. DOMAIN futures'[i] = 1 .. Len(futures'[i]) /\ DOMAIN futures[i] = 1 .. Len(futures[i]) /\ Len(futures[i]) \in Nat
    BY <1>1, LenProperties DEF TypeOK
  <1>3. DOMAIN futures'[i] = DOMAIN futures[i] /\ Len(futures[i]) <= Len(futures'[i])
    BY <1>1, <1>2
  <1>4. ASSUME NEW k \in DOMAIN futures[i], futures'[i][k].status = "answered"
        PROVE  futures'[i][k] = futures[i][k] \/ Completes(i, k)
    <2>1. CASE futures'[i][k] # futures[i][k]
      <3>1. k = n + 1 /\ status = "answered" /\ futures'[i][k].answers = answers
        BY <1>1, <1>4, <2>1
      <3>2. QED
        BY <3>1 DEF Completes
    <2>2. QED
      BY <2>1
  <1>5. QED
    BY <1>1, <1>3, <1>4 DEF FuturesGrow

\* Except for the death of the process, futures are only added and completed.
LEMMA FuturesStep ==
  ASSUME TypeOK, PhaseInv, NEW i \in Instances, ActionOf(i)
  PROVE  \/ Die(i)
         \/ (Start(i) \/ UNCHANGED <<run, born>>) /\ FuturesGrow(i)
  <1>. USE DEF core, links, requests
  <1>0. futures[i] \in Seq(Future) /\ Len(futures[i]) \in Nat /\ DOMAIN futures[i] = 1 .. Len(futures[i])
    BY LenProperties DEF TypeOK
  <1>1. CASE Start(i)
    BY <1>1, UnchangedGrow DEF Start
  <1>2. CASE Stop(i) \/ LeavePoller(i) \/ CloseSockets(i) \/ Enable(i) \/ HandleNotify(i)
    BY <1>2, UnchangedGrow DEF Stop, LeavePoller, CloseSockets, Enable, HandleNotify
  <1>3. CASE ClearState(i) \/ OnDisable(i)
    BY <1>3, BrokenGrow DEF ClearState, OnDisable
  <1>4. CASE Replace(i)
    BY <1>4 DEF Replace
  <1>5. CASE RegisterRequest(i)
    <2>. DEFINE new == [of |-> run[i], to |-> sending[i].to, status |-> "waiting", answers |-> None]
    <2>1. futures'[i] = Append(futures[i], new) /\ UNCHANGED <<run, born>>
      BY <1>5 DEF RegisterRequest, TypeOK
    <2>2. new.of = run[i] /\ new.status = "waiting"
      OBVIOUS
    <2>. HIDE DEF new
    <2>3. /\ Len(futures'[i]) = Len(futures[i]) + 1 /\ DOMAIN futures'[i] = 1 .. Len(futures[i]) + 1
          /\ \A n \in 1 .. Len(futures[i]) : futures'[i][n] = futures[i][n]
          /\ futures'[i][Len(futures[i]) + 1] = new
      BY <1>0, <2>1
    <2>4. QED
      BY <1>0, <2>1, <2>2, <2>3 DEF FuturesGrow
  <1>6. CASE Transmit(i)
    <2>1. UNCHANGED <<run, born>> /\ (futures' = futures \/ Complete(i, Len(futures[i]) - 1, "failed", None))
      BY <1>6 DEF Transmit
    <2>2. Len(futures[i]) - 1 \in Int /\ "failed" \in Statuses /\ None \in Runs \cup {None}
      BY <1>0 DEF Statuses
    <2>3. QED
      BY <2>1, <2>2, UnchangedGrow, CompleteGrow
  <1>7. CASE \/ \E j \in Instances : PeerLeave(i, j)
             \/ \E j \in Instances, r \in Runs : PeerJoin(i, j, r)
             \/ \E h \in handling[i] : Answer(i, h)
             \/ \E j \in Instances, kind \in Kinds : SendRequest(i, j, kind)
    <2>1. UNCHANGED <<futures, run, born>>
      BY <1>7 DEF PeerLeave, PeerJoin, Answer, SendRequest
    <2>2. QED
      BY <2>1, UnchangedGrow
  <1>8. ASSUME NEW n \in DOMAIN futures[i], CancelRequest(i, n)
        PROVE  UNCHANGED <<run, born>> /\ FuturesGrow(i)
    <2>1. Complete(i, n - 1, "broken", None) /\ UNCHANGED <<run, born>>
      BY <1>8 DEF CancelRequest
    <2>2. n - 1 \in Int /\ "broken" \in Statuses /\ None \in Runs \cup {None}
      BY <1>0 DEF Statuses
    <2>3. QED
      BY <2>1, <2>2, CompleteGrow
  <1>9. ASSUME NEW a \in Senders(i), Receive(i, a)
        PROVE  Die(i) \/ (UNCHANGED <<run, born>> /\ FuturesGrow(i))
    <2>. DEFINE m == Head(channel[<<a, Self(i)>>])
                net == [channel EXCEPT ![<<a, Self(i)>>] = Tail(@)]
    <2>1. /\ Polling(i) /\ channel[<<a, Self(i)>>] # <<>>
          /\ m.type = "request" => HandleRequest(i, a[1], m, net)
          /\ m.type = "reply" => HandleReply(i, m, net)
          /\ m.type = "hello" => HandleHello(i, a, net)
      BY <1>9 DEF Receive
    <2>2. m \in Message /\ phase[i] # "off"
      BY <2>1, IncomingFacts DEF Polling
    <2>3. CASE m.type = "reply"
      <3>1. Complete(i, m.id, "answered", m.of) /\ UNCHANGED <<run, born, replies>> /\ channel' = net
        BY <2>1, <2>3 DEF HandleReply
      <3>2. m.id \in Int /\ m.of \in Runs \cup {None} /\ "answered" \in Statuses
        BY <2>2, <2>3, MessageFacts DEF Statuses
      <3>3. QED
        BY <2>1, <2>2, <2>3, <3>1, <3>2, CompleteGrow
    <2>. HIDE DEF m, net
    <2>4. CASE m.type = "request"
      <3>1. Die(i) \/ UNCHANGED <<futures, run, born>>
        BY <2>1, <2>2, <2>4, HandleRequestCases
      <3>2. QED
        BY <3>1, UnchangedGrow
    <2>5. CASE m.type = "hello"
      BY <2>1, <2>5, UnchangedGrow DEF HandleHello
    <2>6. QED
      BY <2>2, <2>3, <2>4, <2>5, MessageFacts
  <1>10. CASE Start(i) \/ Stop(i) \/ StopStep(i) \/ Replace(i) \/ Enable(i) \/ OnDisable(i)
              \/ HandleNotify(i) \/ SendStep(i)
    BY <1>1, <1>2, <1>3, <1>4, <1>5, <1>6, <1>10 DEF StopStep, SendStep
  <1>11. CASE \/ \E n \in DOMAIN futures[i] : CancelRequest(i, n)
              \/ \E a \in Senders(i) : Receive(i, a)
    BY <1>8, <1>9, <1>11
  <1>12. QED
    BY <1>7, <1>10, <1>11 DEF ActionOf

\* What is known stays known: futures are kept as long as the service, and a new
\* service is younger than every request of its predecessors.
LEMMA KnownStays ==
  ASSUME BaseInv, NEW i \in Instances, ActionOf(i), TypeOK',
         NEW k \in Instances, NEW id \in Nat, NEW of \in Nat, Known(k, id, of)
  PROVE  Known(k, id, of)'
  <1>1. CASE k # i
    <2>1. run'[k] = run[k] /\ born'[k] = born[k] /\ futures'[k] = futures[k]
      BY <1>1, OthersStep DEF BaseInv, OthersKept
    <2>2. QED
      BY <2>1 DEF Known
  <1>2. CASE k = i /\ Die(i)
    <2>1. born'[i] = None /\ run' = run
      BY <1>2 DEF Die, BaseInv, TypeOK
    <2>2. QED
      BY <1>2, <2>1 DEF Known
  <1>3. CASE k = i /\ (Start(i) \/ UNCHANGED <<run, born>>) /\ FuturesGrow(i)
    <2>1. id + 1 \in DOMAIN futures[i] => id + 1 \in DOMAIN futures'[i] /\ futures'[i][id + 1].of = futures[i][id + 1].of
      <3>1. DOMAIN futures[i] = 1 .. Len(futures[i]) /\ DOMAIN futures'[i] = 1 .. Len(futures'[i])
            /\ Len(futures[i]) \in Nat /\ Len(futures'[i]) \in Nat
        BY LenProperties DEF BaseInv, TypeOK
      <3>2. QED
        BY <1>3, <3>1 DEF FuturesGrow
    <2>2. CASE UNCHANGED <<run, born>>
      BY <1>3, <2>1, <2>2 DEF Known
    <2>3. CASE Start(i)
      <3>1. run[i] \in Nat /\ run'[i] = run[i] + 1 /\ (born'[i] = born[i] \/ (born[i] = None /\ born'[i] = run'[i]))
        BY <2>3, RunTypes DEF Start, BaseInv, TypeOK
      <3>2. of <= run[i] /\ of <= run'[i] /\ ~(of >= run'[i])
        BY <1>3, <3>1 DEF Known
      <3>3. QED
        BY <1>3, <2>1, <3>1, <3>2 DEF Known
    <2>4. QED
      BY <1>3, <2>2, <2>3
  <1>4. QED
    BY <1>1, <1>2, <1>3, FuturesStep DEF BaseInv

\* The messages that are left are known if all were.
LEMMA ShortenedKnown ==
  ASSUME TypeOK, NetKnown(channel), NEW net, Shortened(channel, net)
  PROVE  NetKnown(net)
  <1>1. ASSUME NEW pair \in Pair, NEW k \in DOMAIN net[pair]
        PROVE  k \in DOMAIN channel[pair] /\ net[pair][k] = channel[pair][k]
    <2>1. /\ net[pair] \in Seq(Message) /\ channel[pair] \in Seq(Message)
          /\ Len(net[pair]) <= Len(channel[pair])
          /\ \A l \in 1 .. Len(net[pair]) : net[pair][l] = channel[pair][l]
      BY DEF Shortened, TypeOK
    <2>2. /\ DOMAIN net[pair] = 1 .. Len(net[pair]) /\ DOMAIN channel[pair] = 1 .. Len(channel[pair])
          /\ Len(net[pair]) \in Nat /\ Len(channel[pair]) \in Nat
      BY <2>1, LenProperties
    <2>3. QED
      BY <2>1, <2>2
  <1>2. QED
    BY <1>1 DEF NetKnown

\* A position after an Append is an old one or the new one.
LEMMA AppendPositions ==
  ASSUME NEW S, NEW s \in Seq(S), NEW m, NEW k \in DOMAIN Append(s, m)
  PROVE  \/ k \in DOMAIN s /\ Append(s, m)[k] = s[k]
         \/ k = Len(s) + 1 /\ Append(s, m)[k] = m
  <1>1. DOMAIN s = 1 .. Len(s) /\ Len(s) \in Nat
    BY LenProperties
  <1>2. QED
    BY <1>1

\* A message about a known request keeps a network of known requests.
LEMMA AppendedKnown ==
  ASSUME NEW net \in [Pair -> Seq(Message)], NetKnown(net), NEW net2, NEW a, NEW b, NEW m,
         net2 = net \/ Appended(net, net2, a, b, m),
         m.type # "hello" => Known(Asker(<<a, b>>, m), m.id, m.of)
  PROVE  NetKnown(net2)
  <1>1. ASSUME NEW pair \in Pair, NEW k \in DOMAIN net2[pair], net2[pair][k].type # "hello"
        PROVE  Known(Asker(pair, net2[pair][k]), net2[pair][k].id, net2[pair][k].of)
    <2>1. CASE net2[pair] = net[pair]
      BY <1>1, <2>1 DEF NetKnown
    <2>2. CASE pair = <<a, b>> /\ net2[pair] = Append(net[pair], m)
      <3>1. \/ k \in DOMAIN net[pair] /\ net2[pair][k] = net[pair][k]
            \/ net2[pair][k] = m
        <4>1. net[pair] \in Seq(Message) /\ k \in DOMAIN Append(net[pair], m)
          BY <1>1, <2>2
        <4>2. QED
          BY <2>2, <4>1, AppendPositions
      <3>2. QED
        BY <1>1, <2>2, <3>1 DEF NetKnown
    <2>3. QED
      BY <2>1, <2>2 DEF Appended
  <1>2. QED
    BY <1>1 DEF NetKnown

\* Where the messages were before the first of a channel was read.
LEMMA ReadPositions ==
  ASSUME TypeOK, PhaseInv, NEW i \in Instances, NEW a \in Senders(i), phase[i] # "off",
         channel[<<a, Self(i)>>] # <<>>,
         NEW net, net = [channel EXCEPT ![<<a, Self(i)>>] = Tail(@)]
  PROVE  /\ <<a, Self(i)>> \in Pair /\ 1 \in DOMAIN channel[<<a, Self(i)>>]
         /\ Head(channel[<<a, Self(i)>>]) = channel[<<a, Self(i)>>][1]
         /\ \A k \in DOMAIN net[<<a, Self(i)>>] :
               /\ k \in Nat /\ k # 0 /\ k + 1 \in DOMAIN channel[<<a, Self(i)>>]
               /\ net[<<a, Self(i)>>][k] = channel[<<a, Self(i)>>][k + 1]
         /\ \A pair \in Pair : pair # <<a, Self(i)>> => net[pair] = channel[pair]
  <1>. DEFINE p == <<a, Self(i)>>
  <1>1. /\ p \in Pair /\ Head(channel[p]) = channel[p][1] /\ 1 \in DOMAIN channel[p]
        /\ net \in [Pair -> Seq(Message)]
        /\ \A pair \in Pair : pair # p => net[pair] = channel[pair]
        /\ Len(net[p]) = Len(channel[p]) - 1
        /\ \A k \in 1 .. Len(net[p]) : net[p][k] = channel[p][k + 1]
    <2>1. /\ <<a, Self(i)>> \in Pair
          /\ Head(channel[<<a, Self(i)>>]) = channel[<<a, Self(i)>>][1]
          /\ 1 \in DOMAIN channel[<<a, Self(i)>>]
          /\ net \in [Pair -> Seq(Message)]
          /\ \A pair \in Pair : pair # <<a, Self(i)>> => net[pair] = channel[pair]
          /\ Len(net[<<a, Self(i)>>]) = Len(channel[<<a, Self(i)>>]) - 1
          /\ \A k \in 1 .. Len(net[<<a, Self(i)>>]) :
                net[<<a, Self(i)>>][k] = channel[<<a, Self(i)>>][k + 1]
      <3>1. <<a, Self(i)>> \in Pair
        BY IncomingFacts
      <3>2. Head(channel[<<a, Self(i)>>]) = channel[<<a, Self(i)>>][1]
        BY IncomingFacts
      <3>3. 1 \in DOMAIN channel[<<a, Self(i)>>]
        BY IncomingFacts
      <3>4. net \in [Pair -> Seq(Message)]
        BY IncomingFacts
      <3>5. \A pair \in Pair : pair # <<a, Self(i)>> => net[pair] = channel[pair]
        BY IncomingFacts
      <3>6. Len(net[<<a, Self(i)>>]) = Len(channel[<<a, Self(i)>>]) - 1
        BY IncomingFacts
      <3>7. \A k \in 1 .. Len(net[<<a, Self(i)>>]) :
                net[<<a, Self(i)>>][k] = channel[<<a, Self(i)>>][k + 1]
        BY IncomingFacts
      <3>8. QED
        BY <3>1, <3>2, <3>3, <3>4, <3>5, <3>6, <3>7
    <2>2. QED
      BY <2>1, Zenon
  <1>. HIDE DEF p
  <1>2. net[p] \in Seq(Message) /\ channel[p] \in Seq(Message)
    BY <1>1 DEF TypeOK
  <1>3. DOMAIN net[p] = 1 .. Len(net[p]) /\ DOMAIN channel[p] = 1 .. Len(channel[p]) /\ Len(channel[p]) \in Nat
    BY <1>2, LenProperties
  <1>4. ASSUME NEW k \in DOMAIN net[p]
        PROVE  k \in Nat /\ k # 0 /\ k + 1 \in DOMAIN channel[p] /\ net[p][k] = channel[p][k + 1]
    <2>1. k \in 1 .. Len(channel[p]) - 1
      BY <1>1, <1>3, <1>4
    <2>2. k \in Nat /\ k # 0 /\ k + 1 \in 1 .. Len(channel[p])
      BY <1>3, <2>1
    <2>3. k \in 1 .. Len(net[p])
      BY <1>3, <1>4
    <2>4. net[p][k] = channel[p][k + 1]
      BY <1>1, <2>3
    <2>5. QED
      BY <1>3, <2>2, <2>4
  <1>5. QED
    BY <1>1, <1>4, Zenon DEF p

\* Reading a message leaves known ones, and what is read is known.
LEMMA ReadKnown ==
  ASSUME TypeOK, PhaseInv, NetKnown(channel), NEW i \in Instances, NEW a \in Senders(i), phase[i] # "off",
         channel[<<a, Self(i)>>] # <<>>,
         NEW net, net = [channel EXCEPT ![<<a, Self(i)>>] = Tail(@)]
  PROVE  /\ NetKnown(net)
         /\ LET m == Head(channel[<<a, Self(i)>>]) IN
            m.type # "hello" => Known(Asker(<<a, Self(i)>>, m), m.id, m.of)
  <1>. DEFINE p == <<a, Self(i)>>
  <1>1. /\ p \in Pair /\ Head(channel[p]) = channel[p][1] /\ 1 \in DOMAIN channel[p]
        /\ \A k \in DOMAIN net[p] : k + 1 \in DOMAIN channel[p] /\ net[p][k] = channel[p][k + 1]
        /\ \A pair \in Pair : pair # p => net[pair] = channel[pair]
    <2>1. p \in Pair /\ Head(channel[p]) = channel[p][1] /\ 1 \in DOMAIN channel[p]
      BY ReadPositions
    <2>2. \A k \in DOMAIN net[p] : k + 1 \in DOMAIN channel[p] /\ net[p][k] = channel[p][k + 1]
      BY ReadPositions, ZenonT(60)
    <2>3. \A pair \in Pair : pair # p => net[pair] = channel[pair]
      BY ReadPositions
    <2>4. QED
      BY <2>1, <2>2, <2>3
  <1>. HIDE DEF p
  <1>5. ASSUME NEW pair \in Pair, NEW k \in DOMAIN net[pair], net[pair][k].type # "hello"
        PROVE  Known(Asker(pair, net[pair][k]), net[pair][k].id, net[pair][k].of)
    <2>1. \E l \in DOMAIN channel[pair] : net[pair][k] = channel[pair][l]
      <3>1. CASE pair = p
        BY <1>1, <1>5, <3>1
      <3>2. CASE pair # p
        BY <1>1, <1>5, <3>2
      <3>3. QED
        BY <3>1, <3>2
    <2>2. QED
      BY <1>5, <2>1 DEF NetKnown
  <1>6. NetKnown(net)
    BY <1>5 DEF NetKnown
  <1>7. LET m == Head(channel[p]) IN m.type # "hello" => Known(Asker(p, m), m.id, m.of)
    BY <1>1 DEF NetKnown
  <1>8. QED
    BY <1>6, <1>7 DEF p

\* What is on its way, and what modules hold, after a step.
MessagesKnown ==
    /\ NetKnown(channel')
    /\ \A j \in Instances : \A h \in handling'[j] : Known(h.from, h.id, h.of)

\* Losing messages and dropping the request at hand need nothing to be known.
LEMMA UnchangedMessages ==
  ASSUME KnownInv, NEW i \in Instances, Shortened(channel, channel') \/ channel' = channel, TypeOK,
         handling' = handling \/ handling' = [handling EXCEPT ![i] = {}]
  PROVE  MessagesKnown
  <1>1. NetKnown(channel')
    BY ShortenedKnown DEF KnownInv
  <1>2. \A j \in Instances : handling'[j] \subseteq handling[j]
    BY DEF TypeOK
  <1>3. QED
    BY <1>1, <1>2 DEF KnownInv, MessagesKnown

\* So does the death of a process.
LEMMA DieMessages ==
  ASSUME BaseInv, KnownInv, NEW i \in Instances, Die(i)
  PROVE  MessagesKnown
  <1>1. Shortened(channel, channel')
    BY ClosedAllFacts DEF Die, BaseInv, TypeOK
  <1>2. QED
    BY <1>1, UnchangedMessages DEF Die, BaseInv

\* A received message leads to messages about requests that are known.
LEMMA ReceiveMessages ==
  ASSUME BaseInv, KnownInv, NEW i \in Instances, NEW a \in Senders(i), Receive(i, a)
  PROVE  MessagesKnown
  <1>. USE DEF core, links, requests
  <1>. DEFINE m == Head(channel[<<a, Self(i)>>])
              net == [channel EXCEPT ![<<a, Self(i)>>] = Tail(@)]
  <1>1. /\ Polling(i) /\ channel[<<a, Self(i)>>] # <<>>
        /\ m.type = "request" => HandleRequest(i, a[1], m, net)
        /\ m.type = "reply" => HandleReply(i, m, net)
        /\ m.type = "hello" => HandleHello(i, a, net)
    BY DEF Receive
  <1>2. phase[i] # "off"
    BY <1>1 DEF Polling
  <1>3. m \in Message /\ net \in [Pair -> Seq(Message)] /\ a \in Address /\ a = <<a[1], a[2]>>
        /\ a[1] \in Instances /\ a[2] \in Nat
    BY <1>1, <1>2, IncomingFacts, AddressFacts DEF BaseInv
  <1>4. /\ NetKnown(net)
        /\ m.type # "hello" => Known(Asker(<<a, Self(i)>>, m), m.id, m.of)
    BY <1>1, <1>2, ReadKnown DEF BaseInv, KnownInv
  <1>. HIDE DEF m, net
  <1>5. CASE channel' = net /\ handling' = handling
    BY <1>4, <1>5 DEF MessagesKnown, KnownInv
  <1>6. CASE m.type = "request"
    <2>1. m.id \in Nat /\ m.of \in Runs
      BY <1>3, <1>6, MessageFacts
    <2>2. Known(a[1], m.id, m.of)
      BY <1>4, <1>6 DEF Asker
    <2>. DEFINE outstanding == replies[i] \cup {[from |-> a[1], id |-> m.id]}
    <2>3. outstanding \in SUBSET ExternalRequestIdentity
      BY <1>3, <2>1 DEF BaseInv, TypeOK, ExternalRequestIdentity
    <2>. HIDE DEF outstanding
    <2>4. CASE channel' = net /\ handling' = [handling EXCEPT ![i] =
                     IF enabled[i] THEN @ \cup {[from |-> a[1], id |-> m.id, of |-> m.of]} ELSE @]
      <3>. DEFINE new == [from |-> a[1], id |-> m.id, of |-> m.of]
      <3>1. \A j \in Instances : \A h \in handling'[j] : h \in handling[j] \/ h = new
        BY <2>4 DEF BaseInv, TypeOK
      <3>2. new.from = a[1] /\ new.id = m.id /\ new.of = m.of
        OBVIOUS
      <3>. HIDE DEF new
      <3>3. \A j \in Instances : \A h \in handling'[j] : Known(h.from, h.id, h.of)
        BY <2>2, <3>1, <3>2 DEF KnownInv
      <3>4. QED
        BY <1>4, <2>4, <3>3 DEF MessagesKnown
    <2>5. CASE SendReply(i, net, outstanding, a[1], m.id, m.of) /\ handling' = handling
      <3>. DEFINE reply == [type |-> "reply", id |-> m.id, of |-> m.of]
                  to == <<a[1], sockets[i][a[1]]>>
      <3>1. channel' = net \/ Appended(net, channel', Self(i), to, reply)
        BY <1>3, <2>1, <2>3, <2>5, SendReplyFacts DEF BaseInv
      <3>2. Asker(<<Self(i), to>>, reply) = a[1] /\ reply.id = m.id /\ reply.of = m.of
        BY DEF Asker
      <3>. HIDE DEF reply, to
      <3>3. NetKnown(channel')
        BY <1>3, <1>4, <2>2, <3>1, <3>2, AppendedKnown
      <3>4. QED
        BY <2>5, <3>3 DEF MessagesKnown, KnownInv
    <2>6. QED
      BY <1>1, <1>3, <1>6, <2>4, <2>5, DieMessages, HandleRequestCases DEF outstanding
  <1>7. CASE m.type = "reply"
    BY <1>1, <1>5, <1>7 DEF HandleReply
  <1>8. CASE m.type = "hello"
    <2>1. InternalConnect(i, a[1], a[2], net) /\ handling' = handling
      BY <1>1, <1>8 DEF HandleHello
    <2>2. Appended(net, channel', Self(i), <<a[1], a[2]>>, Hello)
      BY <1>3, <2>1, InternalConnectFacts DEF BaseInv
    <2>3. Hello.type = "hello"
      BY DEF Hello
    <2>4. NetKnown(channel')
      BY <1>3, <1>4, <2>2, <2>3, AppendedKnown
    <2>5. QED
      BY <2>1, <2>4 DEF MessagesKnown, KnownInv
  <1>9. QED
    BY <1>3, <1>6, <1>7, <1>8, MessageFacts

\* Each step of an instance sends messages about known requests only.
LEMMA MessagesStep ==
  ASSUME BaseInv, KnownInv, NEW i \in Instances, ActionOf(i)
  PROVE  MessagesKnown
  <1>. USE DEF core, links, requests
  <1>0. channel \in [Pair -> Seq(Message)] /\ NetKnown(channel)
    BY DEF BaseInv, TypeOK, KnownInv
  <1>1. CASE \/ Start(i) \/ Stop(i) \/ LeavePoller(i) \/ ClearState(i) \/ Enable(i) \/ OnDisable(i)
             \/ HandleNotify(i) \/ RegisterRequest(i)
             \/ \E j \in Instances, kind \in Kinds : SendRequest(i, j, kind)
             \/ \E n \in DOMAIN futures[i] : CancelRequest(i, n)
    <2>1. UNCHANGED <<channel, handling>>
      BY <1>1 DEF Start, Stop, LeavePoller, ClearState, Enable, OnDisable, HandleNotify, RegisterRequest,
                  SendRequest, CancelRequest
    <2>2. QED
      BY <2>1, UnchangedMessages DEF BaseInv
  <1>2. CASE CloseSockets(i)
    BY <1>0, <1>2, ClosedAllFacts, UnchangedMessages DEF CloseSockets, BaseInv
  <1>3. CASE Replace(i)
    BY <1>3, DieMessages DEF Replace
  <1>4. ASSUME NEW j \in Instances, PeerLeave(i, j)
        PROVE  MessagesKnown
    <2>1. handling' = handling /\ (channel' = channel \/ Lossy(channel, Self(i), <<j, sockets[i][j]>>, channel'))
      BY <1>4 DEF PeerLeave
    <2>2. channel' = channel \/ Shortened(channel, channel')
      BY <1>0, <2>1, LossyFacts
    <2>3. QED
      BY <2>1, <2>2, UnchangedMessages DEF BaseInv
  <1>5. ASSUME NEW j \in Instances, NEW r \in Runs, PeerJoin(i, j, r)
        PROVE  MessagesKnown
    <2>1. r \in Nat /\ <<j, r>> \in Address
      <3>1. r \in Nat /\ r # 0 /\ r <= run[j] /\ run[j] <= MaxRuns[j] /\ run[j] \in Nat /\ MaxRuns[j] \in Nat
        BY <1>5, RunTypes, RunsFacts DEF PeerJoin, BaseInv
      <3>2. QED
        BY <3>1, AddressFacts
    <2>2. InternalConnect(i, j, r, channel) /\ handling' = handling
      BY <1>5 DEF PeerJoin
    <2>3. Appended(channel, channel', Self(i), <<j, r>>, Hello) /\ Hello.type = "hello"
      BY <1>0, <2>1, <2>2, InternalConnectFacts DEF BaseInv, Hello
    <2>4. NetKnown(channel')
      BY <1>0, <2>3, AppendedKnown
    <2>5. QED
      BY <2>2, <2>4 DEF MessagesKnown, KnownInv
  <1>6. CASE Transmit(i)
    <2>. DEFINE id == Len(futures[i]) - 1
                request == [type |-> "request", kind |-> sending[i].kind, id |-> id, of |-> futures[i][id + 1].of]
                to == <<sending[i].to, sockets[i][sending[i].to]>>
    <2>1. channel' = channel \/ channel' = Sent(channel, Self(i), to, request)
      BY <1>6 DEF Transmit
    <2>2. request \in Message /\ id + 1 \in DOMAIN futures[i]
      BY <1>6, RequestMessage DEF Transmit, BaseInv
    <2>3. Asker(<<Self(i), to>>, request) = i /\ request.id = id /\ request.of = futures[i][id + 1].of
      BY DEF Asker, Self
    <2>4. Known(i, id, futures[i][id + 1].of)
      BY <2>2 DEF Known, KnownInv
    <2>5. handling' = handling
      BY <1>6 DEF Transmit
    <2>. HIDE DEF id, request, to
    <2>6. channel' = channel \/ Appended(channel, channel', Self(i), to, request)
      BY <1>0, <2>1, <2>2, SentFacts
    <2>7. NetKnown(channel')
      BY <1>0, <2>3, <2>4, <2>6, AppendedKnown
    <2>8. QED
      BY <2>5, <2>7 DEF MessagesKnown, KnownInv
  <1>7. ASSUME NEW h \in handling[i], Answer(i, h)
        PROVE  MessagesKnown
    <2>1. h.from \in Instances /\ h.id \in Nat /\ h.of \in Runs /\ replies[i] \in SUBSET ExternalRequestIdentity
      <3>1. h \in Request /\ replies[i] \in SUBSET ExternalRequestIdentity
        BY DEF BaseInv, TypeOK
      <3>2. QED
        BY <3>1 DEF Request
    <2>. DEFINE reply == [type |-> "reply", id |-> h.id, of |-> h.of]
                to == <<h.from, sockets[i][h.from]>>
    <2>2. channel' = channel \/ Appended(channel, channel', Self(i), to, reply)
      BY <1>0, <1>7, <2>1, SendReplyFacts DEF Answer, BaseInv
    <2>3. Asker(<<Self(i), to>>, reply) = h.from /\ reply.id = h.id /\ reply.of = h.of
      BY DEF Asker
    <2>4. Known(h.from, h.id, h.of) /\ handling' = handling
      BY <1>7 DEF KnownInv, Answer
    <2>. HIDE DEF reply, to
    <2>5. NetKnown(channel')
      BY <1>0, <2>2, <2>3, <2>4, AppendedKnown
    <2>6. QED
      BY <2>4, <2>5 DEF MessagesKnown, KnownInv
  <1>8. CASE Start(i) \/ Stop(i) \/ StopStep(i) \/ Replace(i) \/ Enable(i) \/ OnDisable(i)
              \/ HandleNotify(i) \/ SendStep(i)
    BY <1>1, <1>2, <1>3, <1>6, <1>8 DEF StopStep, SendStep
  <1>9. CASE \/ \E j \in Instances : PeerLeave(i, j)
             \/ \E j \in Instances, r \in Runs : PeerJoin(i, j, r)
             \/ \E h \in handling[i] : Answer(i, h)
             \/ \E a \in Senders(i) : Receive(i, a)
    BY <1>4, <1>5, <1>7, <1>9, ReceiveMessages
  <1>10. QED
    BY <1>1, <1>8, <1>9 DEF ActionOf

\* The ids of requests stay those their askers gave.
LEMMA KnownStep ==
  ASSUME BaseInv, KnownInv, [Next]_vars
  PROVE  KnownInv'
  <1>. USE DEF core, links, requests
  <1>0. BaseInv'
    BY BaseStep
  <1>1. CASE UNCHANGED vars
    BY <1>1 DEF vars, KnownInv, NetKnown, Known
  <1>2. ASSUME NEW i \in Instances, ActionOf(i)
        PROVE  KnownInv'
    <2>1. MessagesKnown /\ TypeOK'
      BY <1>0, <1>2, MessagesStep DEF BaseInv
    <2>2. \A k \in Instances, id \in Nat, of \in Nat : Known(k, id, of) => Known(k, id, of)'
      BY <1>2, <2>1, KnownStays
    <2>3. ASSUME NEW pair \in Pair, NEW k \in DOMAIN channel'[pair], NEW m, m = channel'[pair][k], m.type # "hello"
          PROVE  Known(Asker(pair, m), m.id, m.of)'
      <3>1. channel'[pair] \in Seq(Message)
        BY <2>1 DEF TypeOK
      <3>2. m \in Message
        BY <2>3, <3>1, LenProperties, ElementOfSeq
      <3>3. m.id \in Nat /\ m.of \in Nat
        BY <2>3, <3>2, MessageFacts, RunsFacts
      <3>4. Asker(pair, m) \in Instances
        BY PairFacts, AddressFacts DEF Asker
      <3>5. Known(Asker(pair, m), m.id, m.of)
        BY <2>1, <2>3 DEF MessagesKnown, NetKnown
      <3>6. QED
        BY <2>2, <3>3, <3>4, <3>5
    <2>4. NetKnown(channel)'
      BY <2>3 DEF NetKnown
    <2>5. ASSUME NEW j \in Instances, NEW h \in handling'[j]
          PROVE  Known(h.from, h.id, h.of)'
      <3>1. h \in Request
        BY <2>1 DEF TypeOK
      <3>2. h.from \in Instances /\ h.id \in Nat /\ h.of \in Nat
        BY <3>1, RunsFacts DEF Request
      <3>3. QED
        BY <2>1, <2>2, <3>2 DEF MessagesKnown
    <2>6. ASSUME NEW k \in Instances, NEW n \in DOMAIN futures'[k]
          PROVE  futures'[k][n].of <= run'[k]
      <3>1. CASE k # i
        <4>1. futures'[k] = futures[k] /\ run'[k] = run[k]
          BY <1>2, <3>1, OthersStep DEF BaseInv, OthersKept
        <4>2. QED
          BY <2>6, <4>1 DEF KnownInv
      <3>2. CASE k = i /\ Die(i)
        <4>1. futures'[i] = <<>>
          BY <3>2 DEF Die, BaseInv, TypeOK
        <4>2. QED
          BY <2>6, <3>2, <4>1
      <3>3. CASE k = i /\ FuturesGrow(i)
        <4>1. run[i] <= run'[i] /\ run[i] \in Nat /\ run'[i] \in Nat
          BY <2>1, RunGrows, RunTypes, RunTypesNext DEF BaseInv
        <4>2. futures'[i][n].of \in Nat
          <5>1. futures'[i] \in Seq(Future) /\ n \in DOMAIN futures'[i]
            BY <2>1, <2>6, <3>3 DEF TypeOK
          <5>2. futures'[i][n] \in Future
            BY <5>1, LenProperties, ElementOfSeq
          <5>3. QED
            BY <5>2, RunsFacts DEF Future
        <4>3. futures'[i][n].of <= run[i]
          BY <2>6, <3>3, <4>1 DEF FuturesGrow, KnownInv
        <4>4. QED
          BY <3>3, <4>1, <4>2, <4>3
      <3>4. QED
        BY <1>2, <3>1, <3>2, <3>3, FuturesStep DEF BaseInv
    <2>7. QED
      BY <2>4, <2>5, <2>6 DEF KnownInv
  <1>3. QED
    BY <1>1, <1>2, NextIsActionOf

\* In every reachable state each request and reply on its way, and each request a module was
\* given, has an id that its asker gave to a request of that run.
THEOREM KnownInvariant == Spec => []KnownInv
  <1>1. Init => KnownInv
    BY DEF Init, KnownInv, NetKnown
  <1>2. BaseInv /\ KnownInv /\ [Next]_vars => KnownInv'
    BY KnownStep
  <1>3. QED
    BY <1>1, <1>2, BaseInvariant, PTL DEF Spec

\* No step completes a future with the reply to another request.
LEMMA RepliesMatchStep ==
  ASSUME BaseInv, KnownInv, RepliesMatch, [Next]_vars
  PROVE  RepliesMatch'
  <1>. USE DEF core, links, requests
  <1>0. BaseInv'
    BY BaseStep
  <1>1. CASE UNCHANGED vars
    BY <1>1 DEF vars, RepliesMatch
  <1>2. ASSUME NEW i \in Instances, ActionOf(i), NEW k \in Instances, NEW n \in DOMAIN futures'[k],
               futures'[k][n].status = "answered"
        PROVE  futures'[k][n].answers = futures'[k][n].of \/ futures'[k][n].answers < born'[k]
    <2>1. CASE k # i
      <3>1. futures'[k] = futures[k] /\ born'[k] = born[k]
        BY <1>2, <2>1, OthersStep DEF BaseInv, OthersKept
      <3>2. QED
        BY <1>2, <3>1 DEF RepliesMatch
    <2>2. CASE k = i /\ Die(i)
      <3>1. futures'[i] = <<>>
        BY <2>2 DEF Die, BaseInv, TypeOK
      <3>2. QED
        BY <1>2, <2>2, <3>1
    <2>3. CASE k = i /\ FuturesGrow(i) /\ (Start(i) \/ UNCHANGED <<run, born>>)
      <3>1. n \in DOMAIN futures[i]
        BY <1>2, <2>3 DEF FuturesGrow
      <3>2. born'[i] = born[i]
        <4>1. CASE UNCHANGED <<run, born>>
          BY <4>1
        <4>2. CASE Start(i)
          <5>1. phase[i] # "off"
            <6>1. futures[i] # <<>>
              BY <3>1, LenProperties, EmptySeq DEF BaseInv, TypeOK
            <6>2. QED
              BY <6>1 DEF BaseInv, PhaseInv, PhaseOf
          <5>2. born[i] # None
            BY <5>1, SelfFacts DEF BaseInv
          <5>3. QED
            BY <4>2, <5>2 DEF Start, BaseInv, TypeOK
        <4>3. QED
          BY <2>3, <4>1, <4>2
      <3>3. CASE futures'[i][n] = futures[i][n]
        BY <1>2, <2>3, <3>1, <3>2, <3>3 DEF RepliesMatch
      <3>4. CASE Completes(i, n)
        <4>1. PICK a \in Senders(i) :
                 /\ phase[i] # "off" /\ channel[<<a, Self(i)>>] # <<>>
                 /\ Head(channel[<<a, Self(i)>>]).type = "reply"
                 /\ n = Head(channel[<<a, Self(i)>>]).id + 1
                 /\ futures'[i][n].answers = Head(channel[<<a, Self(i)>>]).of
          BY <3>4 DEF Completes
        <4>. DEFINE m == Head(channel[<<a, Self(i)>>])
                    net == [channel EXCEPT ![<<a, Self(i)>>] = Tail(@)]
        <4>2. m.type # "hello" => Known(Asker(<<a, Self(i)>>, m), m.id, m.of)
          BY <4>1, ReadKnown DEF BaseInv, KnownInv
        <4>3. m \in Message
          BY <4>1, IncomingFacts DEF BaseInv
        <4>4. m.type = "reply" /\ n = m.id + 1 /\ futures'[i][n].answers = m.of
          BY <4>1
        <4>5. Asker(<<a, Self(i)>>, m) = i
          BY <4>4 DEF Asker, Self
        <4>. HIDE DEF m, net
        <4>6. Known(i, m.id, m.of) /\ m.of \in Nat
          BY <4>2, <4>3, <4>4, <4>5, MessageFacts, RunsFacts
        <4>7. born[i] # None /\ born[i] \in Nat
          BY <4>1, SelfFacts, RunTypes DEF BaseInv
        <4>8. CASE m.of >= born[i]
          <5>1. futures[i][n].of = m.of
            BY <4>4, <4>6, <4>7, <4>8 DEF Known
          <5>2. futures'[i][n].of = futures[i][n].of
            BY <2>3, <3>1 DEF FuturesGrow
          <5>3. QED
            BY <2>3, <4>4, <5>1, <5>2
        <4>9. CASE m.of < born[i]
          BY <2>3, <3>2, <4>4, <4>9
        <4>10. QED
          BY <4>6, <4>7, <4>8, <4>9
      <3>5. QED
        BY <1>2, <2>3, <3>1, <3>3, <3>4 DEF FuturesGrow
    <2>4. QED
      BY <1>2, <2>1, <2>2, <2>3, FuturesStep DEF BaseInv
  <1>3. QED
    BY <1>1, <1>2, NextIsActionOf DEF RepliesMatch

\* In any interleaving of requests, replies, cancels, stops, restarts and crashes,
\* of any number of instances, a reply completes the request it answers; only a
\* service that replaced another may take a reply to its predecessor for one of
\* its own.
THEOREM RepliesMatchRequests == Spec => []RepliesMatch
  <1>1. Init => RepliesMatch
    BY DEF Init, RepliesMatch
  <1>2. BaseInv /\ KnownInv /\ RepliesMatch /\ [Next]_vars => RepliesMatch'
    BY RepliesMatchStep
  <1>3. QED
    BY <1>1, <1>2, BaseInvariant, KnownInvariant, PTL DEF Spec

\* Whoever waits at instance i has a future that sendRequest() is about to fail.
ReleasedAt(i) == phase[i] = "stopped" =>
    \A n \in DOMAIN futures[i] : futures[i][n].status = "waiting" =>
        sending[i].step = "registered" /\ n = Len(futures[i])

\* stop() breaks the promises, and of the calls that follow only those of
\* sendRequest() do anything: it fails for want of a socket.
LEMMA ReleasedStepOf ==
  ASSUME BaseInv, NEW i \in Instances, ActionOf(i), ReleasedAt(i)
  PROVE  ReleasedAt(i)'
  <1>. USE DEF core, links, requests
  <1>0. TypeOK /\ futures[i] \in Seq(Future)
    BY DEF BaseInv, TypeOK
  <1>1. CASE Start(i) \/ Stop(i) \/ LeavePoller(i) \/ CloseSockets(i) \/ Replace(i)
    <2>1. phase'[i] # "stopped"
      BY <1>0, <1>1 DEF Start, Stop, LeavePoller, CloseSockets, Replace, Die, TypeOK
    <2>2. QED
      BY <2>1 DEF ReleasedAt
  <1>2. CASE ClearState(i)
    <2>1. futures'[i] = Broken(futures[i])
      BY <1>0, <1>2 DEF ClearState, TypeOK
    <2>2. DOMAIN futures[i] = 1 .. Len(futures[i]) /\ DOMAIN futures'[i] = 1 .. Len(futures[i])
      BY <1>0, <2>1, BrokenFacts, LenProperties
    <2>3. QED
      BY <1>0, <2>1, <2>2, BrokenFacts DEF ReleasedAt
  <1>3. CASE RegisterRequest(i)
    <2>1. futures' = [futures EXCEPT ![i] =
               Append(@, [of |-> run[i], to |-> sending[i].to, status |-> "waiting", answers |-> None])]
          /\ sending' = [sending EXCEPT ![i].step = "registered"] /\ phase' = phase
          /\ sending[i].step = "checked"
      BY <1>3 DEF RegisterRequest
    <2>2. futures'[i] = Append(futures[i], [of |-> run[i], to |-> sending[i].to, status |-> "waiting", answers |-> None])
          /\ sending'[i] = [sending[i] EXCEPT !.step = "registered"]
      BY <1>0, <2>1 DEF TypeOK
    <2>3. sending'[i].step = "registered"
      BY <1>0, <2>1, <2>2, SendingFacts
    <2>4. Len(futures'[i]) = Len(futures[i]) + 1 /\ DOMAIN futures'[i] = 1 .. Len(futures[i]) + 1
          /\ \A n \in 1 .. Len(futures[i]) : futures'[i][n] = futures[i][n]
      BY <1>0, <2>2, LenProperties
    <2>5. Len(futures[i]) \in Nat /\ DOMAIN futures[i] = 1 .. Len(futures[i])
      BY <1>0, LenProperties
    <2>6. ASSUME phase[i] = "stopped", NEW n \in 1 .. Len(futures[i])
          PROVE  futures'[i][n].status # "waiting"
      BY <2>1, <2>4, <2>5, <2>6 DEF ReleasedAt
    <2>7. QED
      BY <2>1, <2>3, <2>4, <2>5, <2>6 DEF ReleasedAt
  <1>4. CASE Transmit(i)
    <2>1. SUFFICES ASSUME phase'[i] = "stopped"
                   PROVE  \A n \in DOMAIN futures'[i] : futures'[i][n].status # "waiting"
      BY DEF ReleasedAt
    <2>. DEFINE id == Len(futures[i]) - 1
    <2>2. sending[i].step = "registered" /\ (phase' = phase \/ phase' = [phase EXCEPT ![i] = "blocked"])
      BY <1>4 DEF Transmit
    <2>3. phase[i] = "stopped"
      BY <1>0, <2>1, <2>2 DEF TypeOK
    <2>4. sockets[i][sending[i].to] = None
      <3>1. sockets[i] = NoPeers
        BY <2>3 DEF BaseInv, PhaseInv, PhaseOf
      <3>2. sending[i].to \in Instances
        BY <1>0, <2>2, SendingFacts
      <3>3. QED
        BY <3>1, <3>2 DEF NoPeers
    <2>5. Complete(i, id, "failed", None)
      BY <1>4, <2>4 DEF Transmit
    <2>6. id \in Int /\ id + 1 = Len(futures[i]) /\ id + 1 \in DOMAIN futures[i]
      <3>1. id \in Nat /\ id + 1 = Len(futures[i]) /\ id + 1 \in DOMAIN futures[i]
        BY <2>2, RequestMessage DEF BaseInv
      <3>2. QED
        BY <3>1
    <2>. HIDE DEF id
    <2>7. "failed" \in Statuses /\ None \in Runs \cup {None} /\ "failed" # "waiting"
      BY DEF Statuses
    <2>8. /\ futures'[i] \in Seq(Future) /\ Len(futures'[i]) = Len(futures[i])
          /\ \A k \in DOMAIN futures[i] : k # id + 1 => futures'[i][k] = futures[i][k]
          /\ futures'[i][id + 1].status # "waiting"
      BY <1>0, <2>5, <2>6, <2>7, CompleteFacts
    <2>9. DOMAIN futures'[i] = DOMAIN futures[i]
      BY <1>0, <2>8, LenProperties
    <2>10. QED
      BY <2>3, <2>6, <2>8, <2>9 DEF ReleasedAt
  <1>5. CASE \/ Enable(i) \/ OnDisable(i) \/ HandleNotify(i)
             \/ \E a \in Senders(i) : Receive(i, a)
             \/ \E j \in Instances : PeerLeave(i, j)
             \/ \E j \in Instances, r \in Runs : PeerJoin(i, j, r)
             \/ \E j \in Instances, kind \in Kinds : SendRequest(i, j, kind)
             \/ \E n \in DOMAIN futures[i] : CancelRequest(i, n)
             \/ \E h \in handling[i] : Answer(i, h)
    <2>1. phase[i] \in {"alive", "stopping"} /\ (phase' = phase \/ Die(i))
      <3>1. ASSUME NEW a \in Senders(i), Receive(i, a)
            PROVE  phase[i] \in {"alive", "stopping"} /\ (phase' = phase \/ Die(i))
        <4>. DEFINE m == Head(channel[<<a, Self(i)>>])
                    net == [channel EXCEPT ![<<a, Self(i)>>] = Tail(@)]
        <4>1. /\ Polling(i) /\ channel[<<a, Self(i)>>] # <<>>
              /\ m.type = "request" => HandleRequest(i, a[1], m, net)
              /\ m.type = "reply" => HandleReply(i, m, net)
              /\ m.type = "hello" => HandleHello(i, a, net)
          BY <3>1 DEF Receive
        <4>2. m \in Message /\ phase[i] \in {"alive", "stopping"}
          BY <4>1, IncomingFacts DEF Polling, BaseInv
        <4>. HIDE DEF m, net
        <4>3. m.type = "request" => phase' = phase \/ Die(i)
          BY <4>1, <4>2, HandleRequestCases
        <4>4. QED
          BY <4>1, <4>2, <4>3, MessageFacts DEF HandleReply, HandleHello
      <3>2. QED
        BY <1>5, <3>1 DEF Enable, OnDisable, HandleNotify, PeerLeave, PeerJoin, SendRequest, CancelRequest,
                          Answer, Alive, Polling
    <2>2. phase'[i] # "stopped"
      BY <1>0, <2>1 DEF Die, TypeOK
    <2>3. QED
      BY <2>2 DEF ReleasedAt
  <1>6. QED
    BY <1>1, <1>2, <1>3, <1>4, <1>5 DEF ActionOf, StopStep, SendStep

\* When stop() has returned nobody waits for a reply, for every number of
\* instances, requests and restarts, whatever sendRequest() it raced with: only
\* that call's own future may be open, and the call is about to fail it.
THEOREM StopReleasesWaiters == Spec => []StoppedReleasesWaiters
  <1>1. StoppedReleasesWaiters <=> \A i \in Instances : ReleasedAt(i)
    BY DEF StoppedReleasesWaiters, ReleasedAt
  <1>2. Init => StoppedReleasesWaiters
    BY DEF Init, StoppedReleasesWaiters
  <1>3. BaseInv /\ StoppedReleasesWaiters /\ [Next]_vars => StoppedReleasesWaiters'
    <2>. SUFFICES ASSUME BaseInv, StoppedReleasesWaiters, [Next]_vars
                  PROVE  StoppedReleasesWaiters'
      OBVIOUS
    <2>1. CASE UNCHANGED vars
      BY <2>1 DEF vars, core, requests, StoppedReleasesWaiters
    <2>2. ASSUME NEW i \in Instances, ActionOf(i)
          PROVE  StoppedReleasesWaiters'
      <3>1. ReleasedAt(i)'
        BY <1>1, <2>2, ReleasedStepOf
      <3>2. ASSUME NEW k \in Instances, k # i
            PROVE  ReleasedAt(k)'
        BY <1>1, <2>2, <3>2, OthersStep DEF OthersKept, ReleasedAt, BaseInv
      <3>3. QED
        BY <3>1, <3>2 DEF StoppedReleasesWaiters, ReleasedAt
    <2>3. QED
      BY <2>1, <2>2, NextIsActionOf
  <1>4. QED
    BY <1>2, <1>3, BaseInvariant, PTL DEF Spec

(***************************************************************************)
(* ConnectionsInStep.                                                      *)
(***************************************************************************)
\* The newest of some positions in a sequence.
LEMMA MaxFacts ==
  ASSUME NEW n \in Nat, NEW A \in SUBSET (1 .. n), A # {}
  PROVE  /\ Max(A) \in A
         /\ \A k \in A : k <= Max(A)
  <1>. DEFINE B == {n - k : k \in A}
  <1>1. B \subseteq Nat /\ B # {}
    <2>1. \A k \in A : k \in Nat /\ n - k \in Nat /\ n - k \in B
      OBVIOUS
    <2>2. QED
      BY <2>1
  <1>2. PICK b \in B : \A c \in B : ~ (<<c, b>> \in OpToRel(<, Nat))
    BY <1>1, WFMin, NatLessThanWellFounded
  <1>3. \A c \in B : b <= c
    <2>1. b \in Nat
      BY <1>1, <1>2
    <2>. HIDE DEF B
    <2>2. \A c \in B : c \in Nat /\ ~ (c < b)
      BY <1>1, <1>2, <2>1, Zenon DEF OpToRel
    <2>3. QED
      BY <2>1, <2>2
  <1>4. PICK x \in A : b = n - x
    BY <1>2
  <1>5. \A k \in A : x >= k
    BY <1>3, <1>4
  <1>6. \E y \in A : \A k \in A : y >= k
    BY <1>4, <1>5
  <1>7. Max(A) \in A /\ \A k \in A : Max(A) >= k
    BY <1>6 DEF Max
  <1>8. QED
    BY <1>7

\* Where a queue of changes mentions an address, and the connections that result
\* from it.
About(q, a) == {k \in DOMAIN q : q[k].addr = a}
Outcome(conns, q) == {a \in Address : IF About(q, a) = {} THEN a \in conns ELSE q[Max(About(q, a))].join}

\* The peers an instance will have once its changes are handled.
LEMMA SettledIsOutcome == \A i \in Instances : Settled(i) = Outcome(connected[i], changes[i])
  BY DEF Settled, Outcome, About

\* The newest mention of an address.
LEMMA AboutFacts ==
  ASSUME NEW q \in Seq(Change), NEW a, About(q, a) # {}
  PROVE  /\ Max(About(q, a)) \in DOMAIN q /\ q[Max(About(q, a))].addr = a
         /\ \A k \in DOMAIN q : q[k].addr = a => k <= Max(About(q, a))
         /\ \A n \in About(q, a) : (\A k \in About(q, a) : k <= n) => n = Max(About(q, a))
  <1>1. Len(q) \in Nat /\ DOMAIN q = 1 .. Len(q)
    BY LenProperties
  <1>2. About(q, a) \in SUBSET (1 .. Len(q))
    BY <1>1 DEF About
  <1>3. Max(About(q, a)) \in About(q, a) /\ \A k \in About(q, a) : k <= Max(About(q, a))
    BY <1>1, <1>2, MaxFacts
  <1>. DEFINE x == Max(About(q, a))
  <1>4. x \in About(q, a) /\ x \in Int /\ \A k \in About(q, a) : k <= x /\ k \in Int
    BY <1>2, <1>3
  <1>. HIDE DEF x
  <1>5. x \in DOMAIN q /\ q[x].addr = a /\ \A k \in DOMAIN q : q[k].addr = a => k <= x
    BY <1>4 DEF About
  <1>6. ASSUME NEW n \in About(q, a), \A k \in About(q, a) : k <= n
        PROVE  n = x
    BY <1>4, <1>6
  <1>7. QED
    BY <1>5, <1>6 DEF x

\* A change that is queued takes effect in the end: it is the newest.
LEMMA OutcomeAppend ==
  ASSUME NEW q \in Seq(Change), NEW change \in Change, NEW conns
  PROVE  Outcome(conns, Append(q, change)) = Applied(Outcome(conns, q), change)
  <1>. DEFINE q2 == Append(q, change)
  <1>1. Len(q) \in Nat /\ DOMAIN q = 1 .. Len(q)
    BY LenProperties
  <1>2. q2 \in Seq(Change) /\ DOMAIN q2 = 1 .. Len(q) + 1 /\ q2[Len(q) + 1] = change
        /\ \A k \in DOMAIN q : q2[k] = q[k]
    BY <1>1, AppendProperties, LenProperties
  <1>3. change.addr \in Address /\ change.join \in BOOLEAN
    BY DEF Change
  <1>. HIDE DEF q2
  <1>4. ASSUME NEW a \in Address, a # change.addr
        PROVE  a \in Outcome(conns, q2) <=> a \in Outcome(conns, q)
    <2>1. About(q2, a) = About(q, a)
      BY <1>1, <1>2, <1>4 DEF About
    <2>2. About(q, a) # {} => q2[Max(About(q, a))] = q[Max(About(q, a))]
      BY <1>2, AboutFacts
    <2>3. QED
      BY <2>1, <2>2 DEF Outcome
  <1>5. change.addr \in Outcome(conns, q2) <=> change.join
    <2>1. Len(q) + 1 \in About(q2, change.addr)
      BY <1>1, <1>2 DEF About
    <2>2. \A k \in About(q2, change.addr) : k <= Len(q) + 1
      BY <1>1, <1>2 DEF About
    <2>3. Max(About(q2, change.addr)) = Len(q) + 1
      BY <1>2, <2>1, <2>2, AboutFacts
    <2>4. About(q2, change.addr) # {}
      BY <2>1
    <2>5. QED
      BY <1>2, <1>3, <2>3, <2>4 DEF Outcome
  <1>6. Outcome(conns, q2) \subseteq Address /\ Outcome(conns, q) \subseteq Address
    BY DEF Outcome
  <1>7. CASE change.join
    BY <1>3, <1>4, <1>5, <1>6, <1>7 DEF Applied, q2
  <1>8. CASE ~change.join
    BY <1>3, <1>4, <1>5, <1>6, <1>8 DEF Applied, q2
  <1>9. QED
    BY <1>7, <1>8

\* Taking the oldest change from the queue and applying it changes nothing.
LEMMA OutcomeTail ==
  ASSUME NEW q \in Seq(Change), q # <<>>, NEW conns
  PROVE  Outcome(Applied(conns, Head(q)), Tail(q)) = Outcome(conns, q)
  <1>. DEFINE t == Tail(q)
  <1>1. Len(q) \in Nat /\ Len(q) # 0 /\ DOMAIN q = 1 .. Len(q) /\ Head(q) = q[1] /\ q[1] \in Change
    BY LenProperties, EmptySeq, ElementOfSeq
  <1>2. t \in Seq(Change) /\ DOMAIN t = 1 .. Len(q) - 1 /\ \A k \in 1 .. Len(q) - 1 : t[k] = q[k + 1]
    BY <1>1, HeadTailProperties, LenProperties
  <1>. HIDE DEF t
  <1>3. ASSUME NEW a \in Address
        PROVE  a \in Outcome(Applied(conns, Head(q)), t) <=> a \in Outcome(conns, q)
    <2>1. \A k \in DOMAIN t : k \in About(t, a) <=> k + 1 \in About(q, a)
      BY <1>1, <1>2 DEF About
    <2>2. CASE About(t, a) = {}
      <3>1. \A k \in About(q, a) : k = 1
        <4>1. ASSUME NEW k \in About(q, a), k # 1
              PROVE  FALSE
          <5>1. k - 1 \in DOMAIN t /\ (k - 1) + 1 = k
            BY <1>1, <1>2, <4>1 DEF About
          <5>2. k - 1 \in About(t, a)
            BY <2>1, <4>1, <5>1
          <5>3. QED
            BY <2>2, <5>2
        <4>2. QED
          BY <4>1
      <3>2. CASE q[1].addr = a
        <4>1. 1 \in About(q, a)
          BY <1>1, <3>2 DEF About
        <4>2. Max(About(q, a)) = 1
          BY <3>1, <4>1, AboutFacts
        <4>3. a \in Outcome(conns, q) <=> q[1].join
          BY <4>1, <4>2 DEF Outcome
        <4>4. a \in Outcome(Applied(conns, Head(q)), t) <=> a \in Applied(conns, q[1])
          BY <1>1, <2>2 DEF Outcome
        <4>5. a \in Applied(conns, q[1]) <=> q[1].join
          BY <3>2 DEF Applied
        <4>6. QED
          BY <4>3, <4>4, <4>5
      <3>3. CASE q[1].addr # a
        <4>1. About(q, a) = {}
          BY <3>1, <3>3 DEF About
        <4>2. a \in Applied(conns, q[1]) <=> a \in conns
          BY <3>3 DEF Applied
        <4>3. QED
          BY <1>1, <2>2, <4>1, <4>2 DEF Outcome
      <3>4. QED
        BY <3>2, <3>3
    <2>3. CASE About(t, a) # {}
      <3>. DEFINE k == Max(About(t, a))
      <3>1. k \in DOMAIN t /\ t[k].addr = a /\ \A l \in DOMAIN t : t[l].addr = a => l <= k
        BY <1>2, <2>3, AboutFacts
      <3>. HIDE DEF k
      <3>2. k + 1 \in About(q, a)
        BY <2>1, <3>1 DEF About
      <3>3. ASSUME NEW l \in About(q, a)
            PROVE  l <= k + 1
        <4>1. l \in 1 .. Len(q) /\ k \in 1 .. Len(q) - 1
          BY <1>1, <1>2, <3>1 DEF About
        <4>2. CASE l = 1
          BY <1>1, <4>1, <4>2
        <4>3. CASE l # 1
          <5>1. l - 1 \in DOMAIN t /\ (l - 1) + 1 = l
            BY <1>1, <1>2, <4>1, <4>3
          <5>2. t[l - 1].addr = a
            BY <2>1, <5>1 DEF About
          <5>3. l - 1 <= k
            BY <3>1, <5>1, <5>2
          <5>4. QED
            BY <1>1, <4>1, <5>3
        <4>4. QED
          BY <4>2, <4>3
      <3>4. Max(About(q, a)) = k + 1 /\ About(q, a) # {}
        BY <3>2, <3>3, AboutFacts
      <3>5. q[k + 1] = t[k]
        BY <1>2, <3>1
      <3>6. QED
        BY <2>3, <3>4, <3>5 DEF Outcome, k
    <2>4. QED
      BY <2>2, <2>3
  <1>4. QED
    BY <1>3 DEF Outcome, t

\* QueueInStep of one instance, over what its queue results in.
InStepAt(i) == Polling(i) =>
    /\ Peers(i) \subseteq Outcome(connected[i], changes[i])
    /\ \A a \in Outcome(connected[i], changes[i]) \ Peers(i) : run[a[1]] > 1 \/ leftOver[i] > 0

\* Instance by instance.
LEMMA InStepIsInStepAt == QueueInStep <=> \A i \in Instances : InStepAt(i)
  BY SettledIsOutcome DEF QueueInStep, InStepAt

\* Runs of peers that count more cannot make it false.
LEMMA InStepKept ==
  ASSUME BaseInv, BaseInv', [Next]_vars, NEW i \in Instances, InStepAt(i), Polling(i),
         NEW P, NEW O, P = Peers(i)', O = Outcome(connected'[i], changes'[i]),
         P \subseteq O, O \subseteq Address,
         \A a \in O \ P : run[a[1]] > 1 \/ leftOver[i] > 0, leftOver'[i] = leftOver[i]
  PROVE  InStepAt(i)'
  <1>1. \A a \in Address : run[a[1]] \in Nat /\ run'[a[1]] \in Nat /\ run[a[1]] <= run'[a[1]]
    BY AddressFacts, RunGrows, RunTypes, RunTypesNext DEF BaseInv
  <1>2. \A a \in O \ P : run'[a[1]] > 1 \/ leftOver'[i] > 0
    BY <1>1
  <1>3. QED
    BY <1>2 DEF InStepAt, Outcome, Applied

\* A step that touches neither sockets, changes nor registrations of an instance keeps it in step.
LEMMA UntouchedLinks ==
  ASSUME BaseInv, BaseInv', [Next]_vars, NEW i \in Instances, InStepAt(i), Polling(i)' => Polling(i),
         sockets'[i] = sockets[i], changes'[i] = changes[i], connected'[i] = connected[i],
         leftOver'[i] = leftOver[i]
  PROVE  InStepAt(i)'
  <1>1. CASE Polling(i)
    <2>1. Peers(i)' = Peers(i)
      BY DEF Peers
    <2>2. Outcome(connected'[i], changes'[i]) = Outcome(connected[i], changes[i])
          /\ Outcome(connected[i], changes[i]) \subseteq Address
      BY DEF Outcome
    <2>3. QED
      BY <1>1, <2>1, <2>2, InStepKept DEF InStepAt
  <1>2. CASE ~Polling(i)
    BY <1>2 DEF InStepAt
  <1>3. QED
    BY <1>1, <1>2

\* A new socket comes with a change that connects to the same address.
LEMMA ConnectInStep ==
  ASSUME BaseInv, BaseInv', [Next]_vars, NEW i \in Instances, InStepAt(i), Polling(i),
         NEW j \in Instances, NEW r \in Nat, <<j, r>> \in Address, NEW net, InternalConnect(i, j, r, net),
         UNCHANGED <<connected, leftOver>>
  PROVE  InStepAt(i)'
  <1>0. TypeOK /\ changes[i] \in Seq(Change)
    BY DEF BaseInv, TypeOK
  <1>1. CASE sockets[i][j] # None
    BY <1>1, UntouchedLinks DEF InternalConnect, Polling
  <1>2. CASE sockets[i][j] = None
    <2>. DEFINE change == [addr |-> <<j, r>>, join |-> TRUE]
                O == Outcome(connected[i], changes[i])
                P == Peers(i)
    <2>1. sockets' = [sockets EXCEPT ![i][j] = r]
          /\ changes' = [changes EXCEPT ![i] = Append(@, [addr |-> <<j, r>>, join |-> TRUE])]
      BY <1>2 DEF InternalConnect
    <2>2. sockets'[i] = [sockets[i] EXCEPT ![j] = r] /\ changes'[i] = Append(changes[i], change)
          /\ sockets[i] \in [Instances -> Runs \cup {None}]
      BY <1>0, <2>1 DEF TypeOK
    <2>3. change \in Change /\ change.join /\ change.addr = <<j, r>>
      BY DEF Change
    <2>. HIDE DEF change
    <2>4. Outcome(connected'[i], changes'[i]) = O \cup {<<j, r>>}
      <3>1. Outcome(connected[i], Append(changes[i], change)) = Applied(O, change)
        BY <1>0, <2>3, OutcomeAppend
      <3>2. Applied(O, change) = O \cup {<<j, r>>}
        BY <2>3 DEF Applied
      <3>3. QED
        BY <2>2, <3>1, <3>2
    <2>5. r # None
      BY AddressFacts DEF None
    <2>6. Peers(i)' = P \cup {<<j, r>>}
      BY <1>2, <2>2, <2>5 DEF Peers
    <2>7. O \subseteq Address /\ P \subseteq O /\ \A a \in O \ P : run[a[1]] > 1 \/ leftOver[i] > 0
      BY DEF Outcome, InStepAt
    <2>. HIDE DEF O, P
    <2>8. QED
      BY <2>4, <2>6, <2>7, InStepKept
  <1>3. QED
    BY <1>1, <1>2

\* A socket that is closed leaves a subscription only to an address that is not
\* the one discovery gave, so one of them is not of the first run of the peer.
LEMMA LeaveInStep ==
  ASSUME BaseInv, BaseInv', [Next]_vars, NEW i \in Instances, InStepAt(i), NEW j \in Instances, PeerLeave(i, j)
  PROVE  InStepAt(i)'
  <1>0. TypeOK /\ changes[i] \in Seq(Change)
    BY DEF BaseInv, TypeOK
  <1>1. Polling(i) /\ UNCHANGED <<connected, leftOver, phase, run>> /\ registry[i][j] # None
    BY DEF PeerLeave, Alive, Polling, core
  <1>2. CASE sockets[i][j] = None
    BY <1>1, <1>2, UntouchedLinks DEF PeerLeave, Polling
  <1>3. CASE sockets[i][j] # None
    <2>. DEFINE change == [addr |-> <<j, registry[i][j]>>, join |-> FALSE]
                O == Outcome(connected[i], changes[i])
                P == Peers(i)
                r == registry[i][j]
                s == sockets[i][j]
    <2>1. sockets' = [sockets EXCEPT ![i][j] = None]
          /\ changes' = [changes EXCEPT ![i] = Append(@, [addr |-> <<j, registry[i][j]>>, join |-> FALSE])]
      BY <1>3 DEF PeerLeave
    <2>2. sockets'[i] = [sockets[i] EXCEPT ![j] = None] /\ changes'[i] = Append(changes[i], change)
          /\ sockets[i] \in [Instances -> Runs \cup {None}]
      BY <1>0, <2>1 DEF TypeOK
    <2>3. r \in Nat /\ s \in Nat /\ r # 0 /\ s # 0 /\ r <= run[j] /\ s <= run[j] /\ run[j] \in Nat
          /\ run[j] <= MaxRuns[j] /\ MaxRuns[j] \in Nat
      BY <1>0, <1>1, <1>3, RunTypes, RunsFacts DEF BaseInv, AddressInv, None
    <2>4. <<j, r>> \in Address
      BY <2>3, AddressFacts
    <2>5. change \in Change /\ ~change.join /\ change.addr = <<j, r>>
      BY <2>4 DEF Change
    <2>. HIDE DEF change
    <2>6. Outcome(connected'[i], changes'[i]) = O \ {<<j, r>>}
      <3>1. connected'[i] = connected[i]
        BY <1>1
      <3>2. Outcome(connected[i], Append(changes[i], change)) = Applied(O, change)
        BY <1>0, <2>5, OutcomeAppend
      <3>3. QED
        BY <2>2, <2>5, <3>1, <3>2 DEF Applied
    <2>7. Peers(i)' = P \ {<<j, s>>}
      BY <1>3, <2>2 DEF Peers
    <2>8. O \subseteq Address /\ P \subseteq O /\ \A a \in O \ P : run[a[1]] > 1 \/ leftOver[i] > 0
      BY <1>1 DEF Outcome, InStepAt
    <2>9. \A a \in P : a # <<j, s>> => a # <<j, r>>
      BY DEF Peers
    <2>. HIDE DEF O, P
    <2>10. P \ {<<j, s>>} \subseteq O \ {<<j, r>>}
      BY <2>8, <2>9
    <2>11. ASSUME NEW a \in (O \ {<<j, r>>}) \ (P \ {<<j, s>>})
           PROVE  run[a[1]] > 1 \/ leftOver[i] > 0
      <3>1. CASE a \in P
        <4>1. a = <<j, s>> /\ s # r
          BY <2>11, <3>1
        <4>2. run[j] > 1
          BY <2>3, <4>1
        <4>3. QED
          BY <4>1, <4>2
      <3>2. CASE a \notin P
        BY <2>8, <2>11, <3>2
      <3>3. QED
        BY <3>1, <3>2
    <2>12. O \ {<<j, r>>} \subseteq Address /\ leftOver'[i] = leftOver[i]
      BY <1>1, <2>8
    <2>13. QED
      BY <1>1, <2>6, <2>7, <2>10, <2>11, <2>12, InStepKept
  <1>4. QED
    BY <1>2, <1>3

\* A service that starts knows nobody, and is subscribed to nobody, but for
\* changes the last stop() left in the queue.
LEMMA StartInStep ==
  ASSUME BaseInv, NEW i \in Instances, Start(i)
  PROVE  InStepAt(i)'
  <1>1. changes[i] \in Seq(Change)
    BY DEF BaseInv, TypeOK
  <1>2. sockets[i] = NoPeers /\ connected[i] = {} /\ (changes[i] = <<>> \/ leftOver[i] = Len(changes[i]))
    BY DEF Start, BaseInv, PhaseInv, PhaseOf
  <1>3. sockets' = sockets /\ connected' = connected /\ changes' = changes /\ leftOver' = leftOver
    BY DEF Start, links
  <1>4. Peers(i)' = {}
    BY <1>2, <1>3 DEF Peers, NoPeers
  <1>5. changes[i] = <<>> => Outcome(connected'[i], changes'[i]) = {}
    BY <1>2, <1>3 DEF Outcome, About
  <1>6. changes[i] # <<>> => leftOver'[i] > 0
    BY <1>1, <1>2, <1>3, EmptySeq, LenProperties
  <1>7. QED
    BY <1>4, <1>5, <1>6 DEF InStepAt

\* Handling a change keeps an instance in step.
LEMMA NotifyInStep ==
  ASSUME BaseInv, BaseInv', [Next]_vars, NEW i \in Instances, InStepAt(i), HandleNotify(i)
  PROVE  InStepAt(i)'
  <1>1. Polling(i) /\ UNCHANGED <<sockets, leftOver, phase>> /\ changes[i] \in Seq(Change)
    BY DEF HandleNotify, core, BaseInv, TypeOK
  <1>2. CASE changes[i] = <<>>
    BY <1>1, <1>2, UntouchedLinks DEF HandleNotify
  <1>3. CASE changes[i] # <<>>
    <2>1. changes' = [changes EXCEPT ![i] = Tail(@)]
          /\ connected' = [connected EXCEPT ![i] = Applied(@, Head(changes[i]))]
      BY <1>3 DEF HandleNotify
    <2>2. changes'[i] = Tail(changes[i]) /\ connected'[i] = Applied(connected[i], Head(changes[i]))
      BY <2>1 DEF BaseInv, TypeOK
    <2>3. Outcome(connected'[i], changes'[i]) = Outcome(connected[i], changes[i])
      BY <1>1, <1>3, <2>2, OutcomeTail
    <2>4. Peers(i)' = Peers(i) /\ Outcome(connected[i], changes[i]) \subseteq Address
      BY <1>1 DEF Peers, Outcome
    <2>5. QED
      BY <1>1, <2>3, <2>4, InStepKept DEF InStepAt
  <1>4. QED
    BY <1>2, <1>3

\* Each step of an instance keeps it in step.
LEMMA InStepStepOf ==
  ASSUME BaseInv, BaseInv', [Next]_vars, NEW i \in Instances, InStepAt(i), ActionOf(i)
  PROVE  InStepAt(i)'
  <1>. USE DEF core, links, requests
  <1>0. TypeOK
    BY DEF BaseInv
  <1>1. CASE LeavePoller(i) \/ CloseSockets(i) \/ ClearState(i) \/ Die(i)
    <2>1. phase'[i] \notin {"alive", "stopping"}
      BY <1>0, <1>1 DEF LeavePoller, CloseSockets, ClearState, Die, TypeOK
    <2>2. QED
      BY <2>1 DEF InStepAt, Polling
  <1>2. CASE \/ Stop(i) \/ Enable(i) \/ OnDisable(i) \/ RegisterRequest(i) \/ Transmit(i)
             \/ \E j \in Instances, kind \in Kinds : SendRequest(i, j, kind)
             \/ \E n \in DOMAIN futures[i] : CancelRequest(i, n)
             \/ \E h \in handling[i] : Answer(i, h)
    <2>1. UNCHANGED <<sockets, changes, connected, leftOver>>
      BY <1>2 DEF Stop, Enable, OnDisable, RegisterRequest, Transmit, SendRequest, CancelRequest, Answer
    <2>2. Polling(i)' => Polling(i)
      <3>1. CASE phase' = phase
        BY <3>1 DEF Polling
      <3>2. CASE Stop(i)
        BY <3>2 DEF Stop, Alive, Polling
      <3>3. CASE phase' = [phase EXCEPT ![i] = "blocked"]
        BY <1>0, <3>3 DEF Polling, TypeOK
      <3>4. QED
        BY <1>2, <3>1, <3>2, <3>3 DEF Enable, OnDisable, RegisterRequest, Transmit, SendRequest, CancelRequest,
                                      Answer
    <2>3. QED
      BY <2>1, <2>2, UntouchedLinks
  <1>3. ASSUME NEW j \in Instances, NEW r \in Runs, PeerJoin(i, j, r)
        PROVE  InStepAt(i)'
    <2>1. r \in Nat /\ <<j, r>> \in Address
      <3>1. r \in Nat /\ r # 0 /\ r <= run[j] /\ run[j] <= MaxRuns[j] /\ run[j] \in Nat /\ MaxRuns[j] \in Nat
        BY <1>3, RunTypes, RunsFacts DEF PeerJoin, BaseInv
      <3>2. QED
        BY <3>1, AddressFacts
    <2>2. QED
      BY <1>3, <2>1, ConnectInStep DEF PeerJoin, Alive, Polling
  <1>4. ASSUME NEW a \in Senders(i), Receive(i, a)
        PROVE  InStepAt(i)'
    <2>. DEFINE m == Head(channel[<<a, Self(i)>>])
                net == [channel EXCEPT ![<<a, Self(i)>>] = Tail(@)]
    <2>1. /\ Polling(i) /\ channel[<<a, Self(i)>>] # <<>>
          /\ m.type = "request" => HandleRequest(i, a[1], m, net)
          /\ m.type = "reply" => HandleReply(i, m, net)
          /\ m.type = "hello" => HandleHello(i, a, net)
      BY <1>4 DEF Receive
    <2>2. m \in Message /\ a \in Address
      BY <2>1, IncomingFacts DEF Polling, BaseInv
    <2>3. a[1] \in Instances /\ a[2] \in Nat /\ <<a[1], a[2]>> \in Address
      BY <2>2, AddressFacts
    <2>. HIDE DEF m, net
    <2>4. CASE UNCHANGED <<sockets, changes, connected, leftOver>>
      BY <2>1, <2>4, UntouchedLinks
    <2>5. CASE m.type = "request"
      BY <1>1, <2>1, <2>2, <2>4, <2>5, HandleRequestCases
    <2>6. CASE m.type = "reply"
      BY <2>1, <2>4, <2>6 DEF HandleReply
    <2>7. CASE m.type = "hello"
      BY <2>1, <2>3, <2>7, ConnectInStep DEF HandleHello
    <2>8. QED
      BY <2>2, <2>5, <2>6, <2>7, MessageFacts
  <1>5. QED
    BY <1>1, <1>2, <1>3, <1>4, StartInStep, NotifyInStep, LeaveInStep DEF ActionOf, StopStep, SendStep, Replace

\* Who can be sent requests will be subscribed to once the queue is read.
LEMMA QueueStaysInStep == Spec => []QueueInStep
  <1>1. Init => QueueInStep
    BY DEF Init, QueueInStep, Polling
  <1>2. BaseInv /\ QueueInStep /\ [Next]_vars => QueueInStep'
    <2>. SUFFICES ASSUME BaseInv, QueueInStep, [Next]_vars
                  PROVE  QueueInStep'
      OBVIOUS
    <2>0. BaseInv' /\ \A k \in Instances : InStepAt(k)
      BY BaseStep, InStepIsInStepAt
    <2>1. ASSUME NEW k \in Instances, Polling(k)' => Polling(k),
                 sockets'[k] = sockets[k], changes'[k] = changes[k], connected'[k] = connected[k],
                 leftOver'[k] = leftOver[k]
          PROVE  InStepAt(k)'
      BY <2>0, <2>1, UntouchedLinks
    <2>2. CASE UNCHANGED vars
      <3>1. \A k \in Instances : InStepAt(k)'
        BY <2>1, <2>2 DEF vars, core, links, Polling
      <3>2. QED
        BY <3>1, SettledIsOutcome DEF QueueInStep, InStepAt, Settled, Outcome, About
    <2>3. ASSUME NEW i \in Instances, ActionOf(i)
          PROVE  QueueInStep'
      <3>1. InStepAt(i)'
        BY <2>0, <2>3, InStepStepOf
      <3>2. ASSUME NEW k \in Instances, k # i
            PROVE  InStepAt(k)'
        BY <2>1, <2>3, <3>2, OthersStep DEF OthersKept, BaseInv, Polling
      <3>3. \A k \in Instances : InStepAt(k)'
        BY <3>1, <3>2
      <3>4. QED
        BY <3>3 DEF QueueInStep, InStepAt, Settled, Outcome, About
    <2>4. QED
      BY <2>2, <2>3, NextIsActionOf
  <1>3. QED
    BY <1>1, <1>2, BaseInvariant, PTL DEF Spec

\* A join that connects brings one change and one notification.
LEMMA ConnectLag ==
  ASSUME TypeOK, NEW i \in Instances, LagOf(i), Polling(i), NEW j \in Instances, NEW r \in Nat,
         <<j, r>> \in Address, NEW net, InternalConnect(i, j, r, net), UNCHANGED <<phase, leftOver>>
  PROVE  LagOf(i)'
  <1>1. changes[i] \in Seq(Change) /\ notified[i] \in Nat /\ leftOver[i] \in Nat
    BY DEF TypeOK
  <1>2. CASE sockets[i][j] # None
    BY <1>2 DEF InternalConnect, LagOf, Polling
  <1>3. CASE sockets[i][j] = None
    <2>. DEFINE change == [addr |-> <<j, r>>, join |-> TRUE]
    <2>1. changes' = [changes EXCEPT ![i] = Append(@, change)] /\ notified' = [notified EXCEPT ![i] = @ + 1]
      BY <1>3 DEF InternalConnect
    <2>2. change \in Change
      BY DEF Change
    <2>. HIDE DEF change
    <2>3. changes'[i] = Append(changes[i], change) /\ notified'[i] = notified[i] + 1
      BY <2>1 DEF TypeOK
    <2>4. Len(changes'[i]) = Len(changes[i]) + 1
      BY <1>1, <2>2, <2>3, AppendProperties
    <2>5. Len(changes[i]) = notified[i] + leftOver[i]
      BY DEF LagOf
    <2>6. Len(changes'[i]) = notified'[i] + leftOver'[i]
      BY <1>1, <2>3, <2>4, <2>5
    <2>7. phase'[i] \in {"alive", "stopping"}
      BY DEF Polling
    <2>8. QED
      BY <2>6, <2>7 DEF LagOf
  <1>4. QED
    BY <1>2, <1>3

\* A step that touches neither the queue nor its notifications keeps them apart by as much.
LEMMA UntouchedLag ==
  ASSUME NEW i \in Instances, LagOf(i), Polling(i)' => Polling(i),
         phase'[i] \in {"off", "closed", "stopped"} => phase'[i] = phase[i],
         changes'[i] = changes[i], notified'[i] = notified[i], leftOver'[i] = leftOver[i]
  PROVE  LagOf(i)'
  BY DEF LagOf

\* Each step of an instance keeps the notifications in step with the queue.
LEMMA LagStepOf ==
  ASSUME BaseInv, NEW i \in Instances, LagOf(i), ActionOf(i)
  PROVE  LagOf(i)'
  <1>. USE DEF core, links, requests
  <1>0. TypeOK /\ changes[i] \in Seq(Change) /\ notified[i] \in Nat /\ leftOver[i] \in Nat
    BY DEF BaseInv, TypeOK
  <1>1. CASE Start(i)
    <2>1. UNCHANGED <<changes, notified, leftOver>> /\ phase'[i] = "alive"
      BY <1>0, <1>1 DEF Start, TypeOK
    <2>2. CASE phase[i] = "off"
      <3>1. changes[i] = <<>> /\ notified[i] = 0 /\ leftOver[i] = 0
        BY <2>2 DEF BaseInv, PhaseInv, PhaseOf, LagOf
      <3>2. QED
        BY <2>1, <3>1 DEF LagOf
    <2>3. CASE phase[i] = "stopped"
      <3>1. leftOver[i] = Len(changes[i]) /\ notified[i] = 0
        BY <2>3 DEF BaseInv, PhaseInv, PhaseOf, LagOf
      <3>2. QED
        BY <1>0, <2>1, <3>1 DEF LagOf
    <2>4. QED
      BY <1>1, <2>2, <2>3 DEF Start
  <1>2. CASE CloseSockets(i)
    <2>1. notified'[i] = 0 /\ phase'[i] = "closed"
      BY <1>0, <1>2 DEF CloseSockets, TypeOK
    <2>2. QED
      BY <2>1 DEF LagOf, Polling
  <1>3. CASE ClearState(i)
    <2>1. notified'[i] = notified[i] /\ phase'[i] = "stopped" /\ phase[i] = "closed"
      BY <1>0, <1>3 DEF ClearState, TypeOK
    <2>2. QED
      BY <2>1 DEF LagOf, Polling
  <1>4. CASE Die(i)
    <2>1. notified'[i] = 0 /\ leftOver'[i] = 0 /\ phase'[i] = "off"
      BY <1>0, <1>4 DEF Die, TypeOK
    <2>2. QED
      BY <2>1 DEF LagOf, Polling
  <1>5. CASE \/ Stop(i) \/ LeavePoller(i) \/ Enable(i) \/ OnDisable(i) \/ RegisterRequest(i) \/ Transmit(i)
             \/ \E j \in Instances, kind \in Kinds : SendRequest(i, j, kind)
             \/ \E n \in DOMAIN futures[i] : CancelRequest(i, n)
             \/ \E h \in handling[i] : Answer(i, h)
    <2>1. UNCHANGED <<changes, notified, leftOver>>
      BY <1>5 DEF Stop, LeavePoller, Enable, OnDisable, RegisterRequest, Transmit, SendRequest, CancelRequest, Answer
    <2>2. \/ phase' = phase
          \/ phase[i] = "alive" /\ phase' = [phase EXCEPT ![i] = "stopping"]
          \/ phase' = [phase EXCEPT ![i] = "joined"]
          \/ phase' = [phase EXCEPT ![i] = "blocked"]
      BY <1>5 DEF Stop, LeavePoller, Enable, OnDisable, RegisterRequest, Transmit, SendRequest, CancelRequest,
                  Answer, Alive
    <2>3. /\ Polling(i)' => Polling(i)
          /\ phase'[i] \in {"off", "closed", "stopped"} => phase'[i] = phase[i]
      BY <1>0, <2>2 DEF Polling, TypeOK
    <2>4. QED
      BY <2>1, <2>3, UntouchedLag
  <1>6. ASSUME NEW j \in Instances, NEW r \in Runs, PeerJoin(i, j, r)
        PROVE  LagOf(i)'
    <2>1. r \in Nat /\ <<j, r>> \in Address
      <3>1. r \in Nat /\ r # 0 /\ r <= run[j] /\ run[j] <= MaxRuns[j] /\ run[j] \in Nat /\ MaxRuns[j] \in Nat
        BY <1>0, <1>6, RunTypes, RunsFacts DEF PeerJoin
      <3>2. QED
        BY <3>1, AddressFacts
    <2>2. QED
      BY <1>0, <1>6, <2>1, ConnectLag DEF PeerJoin, Alive, Polling
  <1>7. ASSUME NEW j \in Instances, PeerLeave(i, j)
        PROVE  LagOf(i)'
    <2>1. Polling(i) /\ UNCHANGED <<phase, leftOver>>
      BY <1>7 DEF PeerLeave, Alive, Polling
    <2>2. CASE sockets[i][j] = None
      BY <1>7, <2>1, <2>2 DEF PeerLeave, LagOf, Polling
    <2>3. CASE sockets[i][j] # None
      <3>. DEFINE change == [addr |-> <<j, registry[i][j]>>, join |-> FALSE]
      <3>1. changes' = [changes EXCEPT ![i] = Append(@, change)] /\ notified' = [notified EXCEPT ![i] = @ + 1]
        BY <1>7, <2>3 DEF PeerLeave
      <3>2. changes'[i] = Append(changes[i], change) /\ notified'[i] = notified[i] + 1
            /\ changes'[i] \in Seq(Change \cup {change})
        BY <1>0, <3>1, AppendProperties DEF TypeOK
      <3>. HIDE DEF change
      <3>3. Len(changes'[i]) = Len(changes[i]) + 1
        BY <1>0, <3>2
      <3>4. Len(changes[i]) = notified[i] + leftOver[i]
        BY <2>1 DEF LagOf
      <3>5. QED
        BY <1>0, <2>1, <3>2, <3>3, <3>4 DEF LagOf, Polling
    <2>4. QED
      BY <2>2, <2>3
  <1>8. CASE HandleNotify(i)
    <2>1. /\ Polling(i) /\ notified[i] > 0 /\ Len(changes[i]) = notified[i] + leftOver[i]
          /\ UNCHANGED <<phase, leftOver>> /\ notified'[i] = notified[i] - 1
      BY <1>0, <1>8 DEF HandleNotify, LagOf, TypeOK
    <2>2. changes[i] # <<>>
      BY <1>0, <2>1
    <2>3. changes'[i] = Tail(changes[i])
      BY <1>0, <1>8, <2>2 DEF HandleNotify, TypeOK
    <2>4. Len(changes'[i]) = Len(changes[i]) - 1
      BY <1>0, <2>2, <2>3, HeadTailProperties
    <2>5. QED
      BY <1>0, <2>1, <2>4 DEF LagOf, Polling
  <1>9. ASSUME NEW a \in Senders(i), Receive(i, a)
        PROVE  LagOf(i)'
    <2>. DEFINE m == Head(channel[<<a, Self(i)>>])
                net == [channel EXCEPT ![<<a, Self(i)>>] = Tail(@)]
    <2>1. /\ Polling(i) /\ channel[<<a, Self(i)>>] # <<>>
          /\ m.type = "request" => HandleRequest(i, a[1], m, net)
          /\ m.type = "reply" => HandleReply(i, m, net)
          /\ m.type = "hello" => HandleHello(i, a, net)
      BY <1>9 DEF Receive
    <2>2. m \in Message /\ a \in Address
      BY <2>1, IncomingFacts DEF Polling, BaseInv
    <2>3. a[1] \in Instances /\ a[2] \in Nat /\ <<a[1], a[2]>> \in Address
      BY <2>2, AddressFacts
    <2>. HIDE DEF m, net
    <2>4. CASE UNCHANGED <<phase, changes, notified, leftOver>>
      BY <2>4 DEF LagOf, Polling
    <2>5. CASE m.type = "request"
      <3>1. Die(i) \/ UNCHANGED <<core, links>>
        BY <2>1, <2>2, <2>5, HandleRequestCases
      <3>2. QED
        BY <1>4, <2>4, <3>1
    <2>6. CASE m.type = "reply"
      BY <2>1, <2>4, <2>6 DEF HandleReply
    <2>7. CASE m.type = "hello"
      BY <1>0, <2>1, <2>3, <2>7, ConnectLag DEF HandleHello
    <2>8. QED
      BY <2>2, <2>5, <2>6, <2>7, MessageFacts
  <1>10. QED
    BY <1>1, <1>2, <1>3, <1>4, <1>5, <1>6, <1>7, <1>8, <1>9 DEF ActionOf, StopStep, SendStep, Replace

\* The notifications lag behind the queue by what stop() left in it, never by more.
LEMMA LagInvariant == Spec => []LagInv
  <1>1. Init => LagInv
    BY DEF Init, LagInv, LagOf, Polling
  <1>2. BaseInv /\ LagInv /\ [Next]_vars => LagInv'
    <2>. SUFFICES ASSUME BaseInv, LagInv, [Next]_vars
                  PROVE  LagInv'
      OBVIOUS
    <2>1. CASE UNCHANGED vars
      BY <2>1 DEF vars, core, links, LagInv, LagOf, Polling
    <2>2. ASSUME NEW i \in Instances, ActionOf(i)
          PROVE  LagInv'
      <3>1. LagOf(i)'
        BY <2>2, LagStepOf DEF LagInv
      <3>2. OthersKept(i)
        BY <2>2, OthersStep DEF BaseInv
      <3>3. ASSUME NEW k \in Instances, k # i
            PROVE  LagOf(k)'
        BY <3>2, <3>3 DEF OthersKept, LagInv, LagOf, Polling
      <3>4. QED
        BY <3>1, <3>3 DEF LagInv
    <2>3. QED
      BY <2>1, <2>2, NextIsActionOf
  <1>3. QED
    BY <1>1, <1>2, BaseInvariant, PTL DEF Spec

\* Each change in the queue has its notification, but for what the last stop() left
\* there; where it left none, in any order of joins, leaves and hellos, with any
\* peers restarting, who can be sent requests will also be subscribed to, and a
\* subscription that outlives its socket is to a peer that was restarted.
THEOREM ConnectionsStayInStep == Spec => []ConnectionsInStep
  <1>1. BaseInv /\ QueueInStep /\ LagInv => ConnectionsInStep
    <2>. SUFFICES ASSUME BaseInv, QueueInStep, LagInv, NEW i \in Instances, Polling(i)
                  PROVE  /\ Len(changes[i]) = notified[i] + leftOver[i]
                         /\ leftOver[i] = 0 =>
                                /\ Peers(i) \subseteq Settled(i)
                                /\ \A a \in Settled(i) \ Peers(i) : run[a[1]] > 1
      BY DEF ConnectionsInStep
    <2>1. Len(changes[i]) = notified[i] + leftOver[i]
      BY DEF LagInv, LagOf
    <2>2. /\ Peers(i) \subseteq Settled(i)
          /\ \A a \in Settled(i) \ Peers(i) : run[a[1]] > 1 \/ leftOver[i] > 0
      BY DEF QueueInStep
    <2>. HIDE DEF Peers, Settled
    <2>3. QED
      BY <2>1, <2>2
  <1>2. QED
    BY <1>1, BaseInvariant, QueueStaysInStep, LagInvariant, PTL

(***************************************************************************)
(* A request has one reply.                                                *)
(***************************************************************************)
\* With fewer messages and fewer open requests there are no more places.
LEMMA FewerPlaces ==
  ASSUME NEW net, NEW net2, NEW owed, NEW owed2, NEW i, NEW id,
         \A p \in Pair, k \in Nat : Carries(net2, p, k, i, id) => Carries(net, p, k, i, id),
         \A j \in Instances : Owes(owed2, j, i, id) => Owes(owed, j, i, id)
  PROVE  /\ OnePlace(net, owed, i, id) => OnePlace(net2, owed2, i, id)
         /\ NoPlace(net, owed, i, id) => NoPlace(net2, owed2, i, id)
  <1>1. OnePlace(net, owed, i, id) => OnePlace(net2, owed2, i, id)
    BY DEF OnePlace
  <1>2. NoPlace(net, owed, i, id) => NoPlace(net2, owed2, i, id)
    BY DEF NoPlace
  <1>3. QED
    BY <1>1, <1>2

\* A request that is nowhere is in at most one place.
LEMMA NoPlaceIsOnePlace ==
  ASSUME NEW net, NEW owed, NEW i, NEW id, NoPlace(net, owed, i, id)
  PROVE  OnePlace(net, owed, i, id)
  BY DEF NoPlace, OnePlace

\* What is left in shortened channels was there.
LEMMA ShortenedCarries ==
  ASSUME TypeOK, NEW net, Shortened(channel, net), NEW i, NEW id, NEW p \in Pair, NEW k, Carries(net, p, k, i, id)
  PROVE  Carries(channel, p, k, i, id)
  <1>1. /\ net[p] \in Seq(Message) /\ channel[p] \in Seq(Message)
        /\ Len(net[p]) <= Len(channel[p])
        /\ \A l \in 1 .. Len(net[p]) : net[p][l] = channel[p][l]
    BY DEF Shortened, TypeOK
  <1>2. /\ DOMAIN net[p] = 1 .. Len(net[p]) /\ DOMAIN channel[p] = 1 .. Len(channel[p])
        /\ Len(net[p]) \in Nat /\ Len(channel[p]) \in Nat
    BY <1>1, LenProperties
  <1>3. k \in DOMAIN channel[p] /\ net[p][k] = channel[p][k]
    BY <1>1, <1>2 DEF Carries
  <1>4. QED
    BY <1>3 DEF Carries

\* Reading the first message of a channel leaves its request nowhere, and moves no
\* other.
LEMMA ReadPlaces ==
  ASSUME TypeOK, PhaseInv, NEW j \in Instances, NEW a \in Senders(j), phase[j] # "off",
         channel[<<a, Self(j)>>] # <<>>,
         NEW net, net = [channel EXCEPT ![<<a, Self(j)>>] = Tail(@)], NEW i, NEW id, NEW owed
  PROVE  /\ OnePlace(channel, owed, i, id) => OnePlace(net, owed, i, id)
         /\ NoPlace(channel, owed, i, id) => NoPlace(net, owed, i, id)
         /\ OnePlace(channel, owed, i, id) /\ Carries(channel, <<a, Self(j)>>, 1, i, id) => NoPlace(net, owed, i, id)
  <1>. DEFINE p == <<a, Self(j)>>
              Before(q, k) == IF q = p THEN k + 1 ELSE k
  <1>1. p \in Pair /\ 1 \in DOMAIN channel[p]
    BY ReadPositions
  <1>2. \A k \in DOMAIN net[p] : k \in Nat /\ k # 0 /\ k + 1 \in DOMAIN channel[p] /\ net[p][k] = channel[p][k + 1]
    BY ReadPositions, ZenonT(60)
  <1>3. \A pair \in Pair : pair # p => net[pair] = channel[pair]
    BY ReadPositions
  <1>. HIDE DEF p
  <1>4. ASSUME NEW q \in Pair, NEW k \in Nat, Carries(net, q, k, i, id)
        PROVE  Before(q, k) \in Nat /\ Carries(channel, q, Before(q, k), i, id) /\ (q = p => Before(q, k) # 1)
    <2>1. CASE q = p
      <3>1. k \in DOMAIN net[p] /\ net[p][k].type # "hello" /\ Asker(p, net[p][k]) = i /\ net[p][k].id = id
        BY <1>4, <2>1 DEF Carries
      <3>2. k # 0 /\ k + 1 \in DOMAIN channel[p] /\ net[p][k] = channel[p][k + 1]
        BY <1>2, <3>1
      <3>3. Carries(channel, p, k + 1, i, id)
        BY <3>1, <3>2 DEF Carries
      <3>4. QED
        BY <2>1, <3>2, <3>3
    <2>2. CASE q # p
      BY <1>3, <1>4, <2>2 DEF Carries
    <2>3. QED
      BY <2>1, <2>2
  <1>5. ASSUME OnePlace(channel, owed, i, id)
        PROVE  OnePlace(net, owed, i, id)
    <2>1. ASSUME NEW q1 \in Pair, NEW q2 \in Pair, NEW k \in Nat, NEW l \in Nat,
                 Carries(net, q1, k, i, id), Carries(net, q2, l, i, id)
          PROVE  q1 = q2 /\ k = l
      <3>1. q1 = q2 /\ Before(q1, k) = Before(q2, l)
        <4>1. Before(q1, k) \in Nat /\ Carries(channel, q1, Before(q1, k), i, id)
          BY <1>4, <2>1
        <4>2. Before(q2, l) \in Nat /\ Carries(channel, q2, Before(q2, l), i, id)
          BY <1>4, <2>1
        <4>. HIDE DEF Before
        <4>3. QED
          BY <1>5, <4>1, <4>2 DEF OnePlace
      <3>2. QED
        BY <3>1
    <2>2. ASSUME NEW q \in Pair, NEW k \in Nat, NEW o \in Instances,
                 Carries(net, q, k, i, id), Owes(owed, o, i, id)
          PROVE  FALSE
      BY <1>4, <1>5, <2>2 DEF OnePlace
    <2>3. \A o1, o2 \in Instances : Owes(owed, o1, i, id) /\ Owes(owed, o2, i, id) => o1 = o2
      BY <1>5 DEF OnePlace
    <2>4. QED
      BY <2>1, <2>2, <2>3 DEF OnePlace
  <1>6. ASSUME NoPlace(channel, owed, i, id)
        PROVE  NoPlace(net, owed, i, id)
    BY <1>4, <1>6 DEF NoPlace
  <1>7. ASSUME OnePlace(channel, owed, i, id), Carries(channel, p, 1, i, id)
        PROVE  NoPlace(net, owed, i, id)
    <2>1. ASSUME NEW q \in Pair, NEW k \in Nat, Carries(net, q, k, i, id)
          PROVE  FALSE
      <3>1. Before(q, k) \in Nat /\ Carries(channel, q, Before(q, k), i, id) /\ (q = p => Before(q, k) # 1)
        BY <1>4, <2>1
      <3>. HIDE DEF Before
      <3>2. q = p /\ Before(q, k) = 1
        BY <1>1, <1>7, <3>1 DEF OnePlace
      <3>3. QED
        BY <3>1, <3>2
    <2>2. \A o \in Instances : ~ Owes(owed, o, i, id)
      <3>1. 1 \in Nat
        OBVIOUS
      <3>2. QED
        BY <1>1, <1>7, <3>1 DEF OnePlace
    <2>3. QED
      BY <2>1, <2>2 DEF NoPlace
  <1>8. QED
    BY <1>5, <1>6, <1>7 DEF p

\* What a channel carries after a message was sent.
LEMMA AppendedCarries ==
  ASSUME NEW net \in [Pair -> Seq(Message)], NEW net2, NEW a, NEW b, NEW m, Appended(net, net2, a, b, m),
         NEW i, NEW id, NEW p \in Pair, NEW k \in Nat, Carries(net2, p, k, i, id)
  PROVE  \/ Carries(net, p, k, i, id)
         \/ /\ p = <<a, b>> /\ k = Len(net[p]) + 1
            /\ m.type # "hello" /\ Asker(<<a, b>>, m) = i /\ m.id = id
  <1>1. CASE net2[p] = net[p]
    BY <1>1 DEF Carries
  <1>2. CASE p = <<a, b>> /\ net2[p] = Append(net[p], m)
    <2>1. net[p] \in Seq(Message) /\ k \in DOMAIN Append(net[p], m)
      BY <1>2 DEF Carries
    <2>2. \/ k \in DOMAIN net[p] /\ net2[p][k] = net[p][k]
          \/ k = Len(net[p]) + 1 /\ net2[p][k] = m
      BY <1>2, <2>1, AppendPositions
    <2>3. QED
      BY <1>2, <2>2 DEF Carries
  <1>3. QED
    BY <1>1, <1>2 DEF Appended

\* A message about another request, or a greeting.
LEMMA SentElsewhere ==
  ASSUME NEW net \in [Pair -> Seq(Message)], NEW net2, NEW a, NEW b, NEW m, Appended(net, net2, a, b, m),
         NEW i, NEW id, m.type = "hello" \/ Asker(<<a, b>>, m) # i \/ m.id # id,
         NEW owed, NEW owed2, \A j \in Instances : Owes(owed2, j, i, id) => Owes(owed, j, i, id)
  PROVE  /\ OnePlace(net, owed, i, id) => OnePlace(net2, owed2, i, id)
         /\ NoPlace(net, owed, i, id) => NoPlace(net2, owed2, i, id)
  <1>1. \A p \in Pair, k \in Nat : Carries(net2, p, k, i, id) => Carries(net, p, k, i, id)
    BY AppendedCarries
  <1>2. QED
    BY <1>1, FewerPlaces

\* A request that was nowhere, or its reply, is sent.
LEMMA SentHere ==
  ASSUME NEW net \in [Pair -> Seq(Message)], NEW net2, NEW a, NEW b, NEW m, Appended(net, net2, a, b, m),
         NEW i, NEW id, NEW owed, NoPlace(net, owed, i, id)
  PROVE  OnePlace(net2, owed, i, id)
  <1>1. ASSUME NEW p \in Pair, NEW k \in Nat, Carries(net2, p, k, i, id)
        PROVE  p = <<a, b>> /\ k = Len(net[p]) + 1
    <2>1. ~ Carries(net, p, k, i, id)
      BY DEF NoPlace
    <2>2. \/ Carries(net, p, k, i, id)
          \/ /\ p = <<a, b>> /\ k = Len(net[p]) + 1
             /\ m.type # "hello" /\ Asker(<<a, b>>, m) = i /\ m.id = id
      BY <1>1, AppendedCarries
    <2>3. QED
      BY <2>1, <2>2
  <1>2. QED
    BY <1>1 DEF NoPlace, OnePlace

\* A request that was nowhere is outstanding.
LEMMA OwedHere ==
  ASSUME NEW net, NEW owed, NEW owed2, NEW x, NEW i, NEW id, NoPlace(net, owed, i, id),
         \A j \in Instances : j # x => owed2[j] = owed[j]
  PROVE  OnePlace(net, owed2, i, id)
  <1>1. \A j \in Instances : Owes(owed2, j, i, id) => j = x
    BY DEF NoPlace, Owes
  <1>2. QED
    BY <1>1 DEF NoPlace, OnePlace

\* Its reply is taken from what is owed.
LEMMA OwedNoMore ==
  ASSUME NEW net, NEW owed, NEW owed2, NEW x \in Instances, NEW i, NEW id, OnePlace(net, owed, i, id),
         Owes(owed, x, i, id), \A j \in Instances : j # x => owed2[j] = owed[j],
         [from |-> i, id |-> id] \notin owed2[x]
  PROVE  NoPlace(net, owed2, i, id)
  BY DEF OnePlace, NoPlace, Owes

(***************************************************************************)
(* Steps.                                                                  *)
(***************************************************************************)
\* Where requests are does not depend on services that do nothing.
PlaceNext(k, id) ==
    /\ OnePlace(channel', replies', k, id)
    /\ Nowhere(k, id)' => NoPlace(channel', replies', k, id)

\* Only RegisterRequest registers a call.
LEMMA SendingStep ==
  ASSUME BaseInv, NEW i \in Instances, ActionOf(i), ~ Die(i)
  PROVE  sending'[i] = sending[i] \/ RegisterRequest(i) \/ sending'[i].step # "registered"
  <1>. USE DEF core, links, requests
  <1>1. CASE \/ \E j \in Instances, kind \in Kinds : SendRequest(i, j, kind)
             \/ Transmit(i)
    <2>1. sending \in [Instances -> Call]
      BY DEF BaseInv, TypeOK
    <2>2. CASE Transmit(i)
      BY <2>1, <2>2 DEF Transmit, Idle
    <2>3. CASE \E j \in Instances, kind \in Kinds : SendRequest(i, j, kind)
      BY <2>1, <2>3 DEF SendRequest
    <2>4. QED
      BY <1>1, <2>2, <2>3
  <1>2. ASSUME NEW a \in Senders(i), Receive(i, a)
        PROVE  sending' = sending
    <2>. DEFINE m == Head(channel[<<a, Self(i)>>])
                net == [channel EXCEPT ![<<a, Self(i)>>] = Tail(@)]
    <2>1. /\ Polling(i) /\ channel[<<a, Self(i)>>] # <<>>
          /\ m.type = "request" => HandleRequest(i, a[1], m, net)
          /\ m.type = "reply" => HandleReply(i, m, net)
          /\ m.type = "hello" => HandleHello(i, a, net)
      BY <1>2 DEF Receive
    <2>2. m \in Message
      BY <2>1, IncomingFacts DEF Polling, BaseInv
    <2>. HIDE DEF m, net
    <2>3. m.type = "request" => sending' = sending
      BY <2>1, <2>2, HandleRequestCases
    <2>4. QED
      BY <2>1, <2>2, <2>3, MessageFacts DEF HandleReply, HandleHello
  <1>3. CASE Start(i) \/ Stop(i) \/ StopStep(i) \/ Enable(i) \/ OnDisable(i) \/ HandleNotify(i)
    BY <1>3 DEF Start, Stop, StopStep, LeavePoller, CloseSockets, ClearState, Enable, OnDisable, HandleNotify
  <1>4. CASE \/ \E j \in Instances : PeerLeave(i, j)
             \/ \E j \in Instances, r \in Runs : PeerJoin(i, j, r)
             \/ \E n \in DOMAIN futures[i] : CancelRequest(i, n)
             \/ \E h \in handling[i] : Answer(i, h)
    BY <1>4 DEF PeerLeave, PeerJoin, CancelRequest, Answer
  <1>5. QED
    BY <1>1, <1>2, <1>3, <1>4 DEF ActionOf, Replace, SendStep

\* A request does not become unsent, and only a reply that is read makes it
\* answered.
LEMMA NowhereStep ==
  ASSUME BaseInv, NEW i \in Instances, ActionOf(i), ~ Die(i), NEW id \in Nat, Nowhere(i, id)', BaseInv'
  PROVE  \/ Nowhere(i, id)
         \/ Completes(i, id + 1)
  <1>. USE DEF core, links, requests
  <1>0. futures[i] \in Seq(Future) /\ futures'[i] \in Seq(Future)
    BY DEF BaseInv, TypeOK
  <1>1. DOMAIN futures[i] = 1 .. Len(futures[i]) /\ DOMAIN futures'[i] = 1 .. Len(futures'[i])
        /\ Len(futures[i]) \in Nat /\ Len(futures'[i]) \in Nat
    BY <1>0, LenProperties
  <1>2. FuturesGrow(i)
    BY FuturesStep DEF BaseInv
  <1>3. Len(futures[i]) <= Len(futures'[i])
    BY <1>2 DEF FuturesGrow
  <1>4. CASE id + 1 \notin DOMAIN futures[i]
    BY <1>4 DEF Nowhere
  <1>5. CASE id + 1 \in DOMAIN futures[i] /\ futures'[i][id + 1].status = "answered"
    BY <1>2, <1>5 DEF FuturesGrow, Nowhere
  <1>6. CASE id + 1 \in DOMAIN futures[i] /\ sending'[i].step = "registered" /\ id + 1 = Len(futures'[i])
    <2>1. id + 1 = Len(futures[i])
      BY <1>1, <1>3, <1>6
    <2>2. sending'[i] = sending[i] \/ RegisterRequest(i) \/ sending'[i].step # "registered"
      BY SendingStep
    <2>3. CASE RegisterRequest(i)
      <3>1. Len(futures'[i]) = Len(futures[i]) + 1
        BY <1>0, <2>3 DEF RegisterRequest, BaseInv, TypeOK
      <3>2. QED
        BY <1>1, <1>6, <2>1, <3>1
    <2>4. QED
      BY <1>6, <2>1, <2>2, <2>3 DEF Nowhere
  <1>7. QED
    BY <1>1, <1>3, <1>4, <1>5, <1>6 DEF Nowhere

\* A reply that is read was in a channel, and leaves its request nowhere.
LEMMA CompletesPlaces ==
  ASSUME BaseInv, NEW i \in Instances, NEW id \in Nat, OnePlace(channel, replies, i, id), Completes(i, id + 1)
  PROVE  ~ NoPlace(channel, replies, i, id) /\ NoPlace(channel', replies', i, id)
  <1>1. PICK a \in Senders(i) :
           /\ phase[i] # "off" /\ channel[<<a, Self(i)>>] # <<>>
           /\ Head(channel[<<a, Self(i)>>]).type = "reply"
           /\ id + 1 = Head(channel[<<a, Self(i)>>]).id + 1
           /\ channel' = [channel EXCEPT ![<<a, Self(i)>>] = Tail(@)] /\ replies' = replies
    BY DEF Completes
  <1>. DEFINE p == <<a, Self(i)>>
  <1>2. p \in Pair /\ 1 \in DOMAIN channel[p] /\ Head(channel[p]) = channel[p][1]
    BY <1>1, ReadPositions DEF BaseInv
  <1>3. channel[p][1] \in Message
    BY <1>1, <1>2, IncomingFacts DEF BaseInv
  <1>4. channel[p][1].type = "reply" /\ channel[p][1].id \in Nat /\ id + 1 = channel[p][1].id + 1
    BY <1>1, <1>2, <1>3, MessageFacts
  <1>5. Carries(channel, p, 1, i, id)
    BY <1>2, <1>4 DEF Carries, Asker, Self
  <1>6. ~ NoPlace(channel, replies, i, id)
    <2>1. 1 \in Nat
      OBVIOUS
    <2>2. QED
      BY <1>2, <1>5, <2>1 DEF NoPlace
  <1>7. QED
    BY <1>1, <1>5, <1>6, ReadPlaces DEF BaseInv

\* It is enough that a step moves no request and sends none that was sent.
LEMMA PlaceKept ==
  ASSUME BaseInv, BaseInv', NEW i \in Instances, ActionOf(i), NEW k \in Instances, NEW id \in Nat,
         ~ (k = i /\ Die(i)), PlaceOf(k, id),
         OnePlace(channel, replies, k, id) => OnePlace(channel', replies', k, id),
         NoPlace(channel, replies, k, id) => NoPlace(channel', replies', k, id)
  PROVE  PlaceNext(k, id)
  <1>1. CASE k # i
    <2>1. futures'[k] = futures[k] /\ sending'[k] = sending[k]
      BY <1>1, OthersStep DEF OthersKept, BaseInv
    <2>2. Nowhere(k, id)' => Nowhere(k, id)
      BY <2>1 DEF Nowhere
    <2>3. QED
      BY <2>2 DEF PlaceOf, PlaceNext
  <1>2. CASE k = i
    <2>1. Nowhere(i, id)' => Nowhere(i, id) \/ Completes(i, id + 1)
      BY <1>2, NowhereStep
    <2>2. Completes(i, id + 1) => NoPlace(channel', replies', i, id)
      BY <1>2, CompletesPlaces DEF PlaceOf
    <2>3. QED
      BY <1>2, <2>1, <2>2 DEF PlaceOf, PlaceNext
  <1>3. QED
    BY <1>1, <1>2

\* Nothing is sent, and no request is outstanding that was not.
LEMMA ShrinkPlaces ==
  ASSUME BaseInv, BaseInv', NEW i \in Instances, ActionOf(i), NEW k \in Instances, NEW id \in Nat,
         ~ (k = i /\ Die(i)), PlaceOf(k, id),
         channel' = channel \/ Shortened(channel, channel'),
         \A j \in Instances : replies'[j] \subseteq replies[j]
  PROVE  PlaceNext(k, id)
  <1>1. \A p \in Pair, l \in Nat : Carries(channel', p, l, k, id) => Carries(channel, p, l, k, id)
    BY ShortenedCarries DEF BaseInv
  <1>2. \A j \in Instances : Owes(replies', j, k, id) => Owes(replies, j, k, id)
    BY DEF Owes
  <1>3. QED
    BY <1>1, <1>2, FewerPlaces, PlaceKept

\* The request that sendRequest() sends was nowhere; it is not open to be sent
\* again.
LEMMA TransmitPlaces ==
  ASSUME BaseInv, BaseInv', NEW i \in Instances, Transmit(i), NEW k \in Instances, NEW id \in Nat,
         PlaceOf(k, id),
         k = i => futures[i][Len(futures[i])].status # "answered"
  PROVE  PlaceNext(k, id)
  <1>. DEFINE n == Len(futures[i]) - 1
              request == [type |-> "request", kind |-> sending[i].kind, id |-> n, of |-> futures[i][n + 1].of]
              to == <<sending[i].to, sockets[i][sending[i].to]>>
  <1>0. channel \in [Pair -> Seq(Message)] /\ ActionOf(i) /\ ~ Die(i)
    <2>1. run' = run /\ sending[i].step = "registered"
      BY DEF Transmit
    <2>2. phase[i] # "off"
      BY <2>1 DEF BaseInv, PhaseInv, PhaseOf, Idle
    <2>5. phase' = phase \/ phase' = [phase EXCEPT ![i] = "blocked"]
      BY DEF Transmit
    <2>3. phase'[i] # "off"
      BY <2>2, <2>5 DEF BaseInv, TypeOK
    <2>4. QED
      BY <2>3 DEF ActionOf, SendStep, BaseInv, TypeOK, Die
  <1>1. replies' = replies /\ sending' = [sending EXCEPT ![i] = Idle]
    BY DEF Transmit
  <1>2. n \in Nat /\ n + 1 = Len(futures[i]) /\ n + 1 \in DOMAIN futures[i] /\ request \in Message
    BY RequestMessage DEF Transmit, BaseInv
  <1>3. CASE channel' = channel
    BY <1>0, <1>1, <1>3, ShrinkPlaces
  <1>4. CASE channel' = Sent(channel, Self(i), to, request) /\ futures' = futures
    <2>1. request.id = n /\ request.type = "request" /\ Asker(<<Self(i), to>>, request) = i
      BY DEF Asker, Self
    <2>. HIDE DEF request, to, n
    <2>2. Appended(channel, channel', Self(i), to, request)
      BY <1>0, <1>2, <1>4, SentFacts
    <2>3. CASE k # i \/ id # n
      <3>1. /\ OnePlace(channel, replies, k, id) => OnePlace(channel', replies', k, id)
            /\ NoPlace(channel, replies, k, id) => NoPlace(channel', replies', k, id)
        BY <1>0, <1>1, <2>1, <2>2, <2>3, SentElsewhere
      <3>2. QED
        BY <1>0, <3>1, PlaceKept
    <2>4. CASE k = i /\ id = n
      <3>1. Nowhere(i, id)
        BY <1>2, <2>4 DEF Nowhere, Transmit
      <3>2. OnePlace(channel', replies', i, id)
        BY <1>0, <1>1, <2>2, <2>4, <3>1, SentHere DEF PlaceOf
      <3>3. sending'[i].step # "registered"
        BY <1>1 DEF BaseInv, TypeOK, Idle
      <3>4. ~ Nowhere(i, id)'
        BY <1>2, <1>4, <2>4, <3>3 DEF Nowhere
      <3>5. QED
        BY <2>4, <3>2, <3>4 DEF PlaceNext
    <2>5. QED
      BY <2>3, <2>4
  <1>5. QED
    BY <1>3, <1>4 DEF Transmit

\* The reply that a module sends was owed, and is no more.
LEMMA AnswerPlaces ==
  ASSUME BaseInv, BaseInv', NEW i \in Instances, NEW h \in handling[i], Answer(i, h),
         NEW k \in Instances, NEW id \in Nat, PlaceOf(k, id)
  PROVE  PlaceNext(k, id)
  <1>0. channel \in [Pair -> Seq(Message)] /\ replies \in [Instances -> SUBSET ExternalRequestIdentity]
    BY DEF BaseInv, TypeOK
  <1>1. h.from \in Instances /\ h.id \in Nat /\ h.of \in Runs
    <2>1. h \in Request
      BY DEF BaseInv, TypeOK
    <2>2. QED
      BY <2>1 DEF Request
  <1>2. ActionOf(i) /\ ~ Die(i)
    <2>1. phase' = phase /\ phase[i] = "alive"
      BY DEF Answer, core, Alive
    <2>2. QED
      BY <2>1 DEF ActionOf, Die, BaseInv, TypeOK
  <1>. DEFINE reply == [type |-> "reply", id |-> h.id, of |-> h.of]
              to == <<h.from, sockets[i][h.from]>>
              q == [from |-> h.from, id |-> h.id]
  <1>3. /\ \A j \in Instances : j # i => replies'[j] = replies[j]
        /\ replies'[i] = replies[i] \ {q}
        /\ channel' = channel \/ Appended(channel, channel', Self(i), to, reply)
        /\ q \in replies[i]
    BY <1>0, <1>1, SendReplyFacts DEF Answer, BaseInv
  <1>4. reply.type = "reply" /\ reply.id = h.id /\ Asker(<<Self(i), to>>, reply) = h.from
    BY DEF Asker
  <1>5. \A j \in Instances : replies'[j] \subseteq replies[j]
    BY <1>3
  <1>. HIDE DEF reply, to
  <1>6. CASE channel' = channel
    BY <1>2, <1>5, <1>6, ShrinkPlaces
  <1>7. CASE Appended(channel, channel', Self(i), to, reply)
    <2>1. CASE k # h.from \/ id # h.id
      <3>1. \A j \in Instances : Owes(replies', j, k, id) => Owes(replies, j, k, id)
        BY <1>5 DEF Owes
      <3>2. /\ OnePlace(channel, replies, k, id) => OnePlace(channel', replies', k, id)
            /\ NoPlace(channel, replies, k, id) => NoPlace(channel', replies', k, id)
        BY <1>0, <1>4, <1>7, <2>1, <3>1, SentElsewhere
      <3>3. QED
        BY <1>2, <3>2, PlaceKept
    <2>2. CASE k = h.from /\ id = h.id
      <3>1. Owes(replies, i, k, id)
        BY <1>3, <2>2 DEF Owes
      <3>2. NoPlace(channel, replies', k, id)
        BY <1>3, <2>2, <3>1, OwedNoMore DEF PlaceOf
      <3>3. OnePlace(channel', replies', k, id)
        BY <1>0, <1>7, <3>2, SentHere
      <3>4. ~ NoPlace(channel, replies, k, id)
        BY <3>1 DEF NoPlace
      <3>5. QED
        BY <1>2, <3>3, <3>4, PlaceKept
    <2>3. QED
      BY <2>1, <2>2
  <1>8. QED
    BY <1>3, <1>6, <1>7

\* The poller of instance i takes m: its request is owed from now on, or
\* answered, or m is its reply.
LEMMA ReceivePlaces ==
  ASSUME BaseInv, BaseInv', NEW i \in Instances, NEW a \in Senders(i), Receive(i, a),
         NEW k \in Instances, NEW id \in Nat, PlaceOf(k, id), ~ (k = i /\ Die(i))
  PROVE  PlaceNext(k, id)
  <1>. DEFINE p == <<a, Self(i)>>
              m == Head(channel[<<a, Self(i)>>])
              net == [channel EXCEPT ![<<a, Self(i)>>] = Tail(@)]
  <1>0. replies \in [Instances -> SUBSET ExternalRequestIdentity] /\ TypeOK /\ ActionOf(i)
    BY DEF BaseInv, TypeOK, ActionOf
  <1>1. /\ Polling(i) /\ channel[<<a, Self(i)>>] # <<>> /\ phase[i] # "off"
        /\ m.type = "request" => HandleRequest(i, a[1], m, net)
        /\ m.type = "reply" => HandleReply(i, m, net)
        /\ m.type = "hello" => HandleHello(i, a, net)
    BY DEF Receive, Polling
  <1>2. m \in Message /\ a \in Address /\ net \in [Pair -> Seq(Message)]
    BY <1>1, IncomingFacts DEF BaseInv
  <1>3. a[1] \in Instances /\ a[2] \in Nat /\ <<a[1], a[2]>> \in Address
    BY <1>2, AddressFacts
  <1>4. p \in Pair /\ 1 \in DOMAIN channel[p] /\ m = channel[p][1]
    BY <1>1, ReadPositions DEF BaseInv
  <1>5. /\ OnePlace(channel, replies, k, id) => OnePlace(net, replies, k, id)
        /\ NoPlace(channel, replies, k, id) => NoPlace(net, replies, k, id)
        /\ Carries(channel, p, 1, k, id) => NoPlace(net, replies, k, id)
    BY <1>1, ReadPlaces DEF BaseInv, PlaceOf
  <1>6. m.type = "request" => Asker(p, m) = a[1]
    BY DEF Asker
  <1>. HIDE DEF m, net, p
  <1>7. CASE m.type = "request"
    <2>. DEFINE q == [from |-> a[1], id |-> m.id]
                outstanding == replies[i] \cup {q}
    <2>0. m.id \in Nat /\ m.of \in Runs /\ outstanding \in SUBSET ExternalRequestIdentity
      <3>1. m.id \in Nat /\ m.of \in Runs
        BY <1>2, <1>7, MessageFacts
      <3>2. QED
        BY <1>0, <1>3, <3>1 DEF ExternalRequestIdentity
    <2>1. k = a[1] /\ id = m.id => Carries(channel, p, 1, k, id)
      BY <1>4, <1>6, <1>7 DEF Carries
    <2>2. Carries(channel, p, 1, k, id) => ~ NoPlace(channel, replies, k, id)
      <3>1. 1 \in Nat
        OBVIOUS
      <3>2. QED
        BY <1>4, <3>1 DEF NoPlace
    <2>3. CASE replies' = [replies EXCEPT ![i] = outstanding] /\ channel' = net
               /\ UNCHANGED <<core, links, sending, futures>>
      <3>1. \A j \in Instances : j # i => replies'[j] = replies[j]
        BY <1>0, <2>3
      <3>2. replies'[i] = replies[i] \cup {q}
        BY <1>0, <2>3
      <3>3. CASE k = a[1] /\ id = m.id
        <4>1. NoPlace(net, replies, k, id)
          BY <1>5, <2>1, <3>3
        <4>2. OnePlace(net, replies', k, id)
          BY <3>1, <4>1, OwedHere
        <4>3. OnePlace(channel', replies', k, id)
          BY <2>3, <4>2
        <4>4. QED
          BY <1>0, <2>1, <2>2, <3>3, <4>3, PlaceKept
      <3>4. CASE k # a[1] \/ id # m.id
        <4>1. \A j \in Instances : Owes(replies', j, k, id) => Owes(replies, j, k, id)
          BY <3>1, <3>2, <3>4 DEF Owes
        <4>2. /\ OnePlace(net, replies, k, id) => OnePlace(channel', replies', k, id)
              /\ NoPlace(net, replies, k, id) => NoPlace(channel', replies', k, id)
          BY <2>3, <4>1, FewerPlaces, ZenonT(60)
        <4>3. QED
          BY <1>0, <1>5, <4>2, PlaceKept
      <3>5. QED
        BY <3>3, <3>4
    <2>4. CASE SendReply(i, net, outstanding, a[1], m.id, m.of)
      <3>. DEFINE reply == [type |-> "reply", id |-> m.id, of |-> m.of]
                  to == <<a[1], sockets[i][a[1]]>>
      <3>1. /\ \A j \in Instances : j # i => replies'[j] = replies[j]
            /\ replies'[i] = outstanding \ {q}
            /\ channel' = net \/ Appended(net, channel', Self(i), to, reply)
        <4>. HIDE DEF outstanding
        <4>0. TypeOK /\ a[1] \in Instances /\ m.id \in Nat /\ m.of \in Runs /\ net \in [Pair -> Seq(Message)]
              /\ outstanding \in SUBSET ExternalRequestIdentity /\ SendReply(i, net, outstanding, a[1], m.id, m.of)
          BY <1>0, <1>2, <1>3, <2>0, <2>4
        <4>1. \A j \in Instances : j # i => replies'[j] = replies[j]
          BY <4>0, SendReplyFacts
        <4>2. replies'[i] = outstanding \ {q}
          <5>1. \/ replies' = [replies EXCEPT ![i] = outstanding \ {q}]
                \/ q \notin outstanding /\ replies' = [replies EXCEPT ![i] = outstanding]
            BY <2>4 DEF SendReply
          <5>2. QED
            BY <1>0, <5>1
        <4>3. \/ channel' = net
              \/ /\ [from |-> a[1], id |-> m.id] \in outstanding
                 /\ Appended(net, channel', Self(i), <<a[1], sockets[i][a[1]]>>,
                             [type |-> "reply", id |-> m.id, of |-> m.of])
          BY <4>0, SendReplyFacts
        <4>4. QED
          BY <4>1, <4>2, <4>3
      <3>2. \A j \in Instances : Owes(replies', j, k, id) => Owes(replies, j, k, id)
        BY <3>1 DEF Owes
      <3>3. reply.type = "reply" /\ reply.id = m.id /\ Asker(<<Self(i), to>>, reply) = a[1]
        BY DEF Asker
      <3>. HIDE DEF reply, to
      <3>4. /\ OnePlace(net, replies, k, id) => OnePlace(net, replies', k, id)
            /\ NoPlace(net, replies, k, id) => NoPlace(net, replies', k, id)
        BY <3>2, FewerPlaces
      <3>5. CASE k = a[1] /\ id = m.id
        <4>1. NoPlace(net, replies', k, id)
          BY <1>5, <2>1, <3>4, <3>5
        <4>2. OnePlace(channel', replies', k, id)
          BY <1>2, <3>1, <4>1, SentHere, NoPlaceIsOnePlace
        <4>3. QED
          BY <1>0, <2>1, <2>2, <3>5, <4>2, PlaceKept
      <3>6. CASE k # a[1] \/ id # m.id
        <4>1. /\ OnePlace(net, replies, k, id) => OnePlace(channel', replies', k, id)
              /\ NoPlace(net, replies, k, id) => NoPlace(channel', replies', k, id)
          <5>1. CASE channel' = net
            BY <3>4, <5>1
          <5>2. CASE Appended(net, channel', Self(i), to, reply)
            BY <1>2, <3>2, <3>3, <3>6, <5>2, SentElsewhere
          <5>3. QED
            BY <3>1, <5>1, <5>2
        <4>2. QED
          BY <1>0, <1>5, <4>1, PlaceKept
      <3>7. QED
        BY <3>5, <3>6
    <2>5. CASE Die(i)
      <3>1. Shortened(channel, channel')
        BY <1>0, <2>5, ClosedAllFacts DEF Die, TypeOK
      <3>2. \A j \in Instances : replies'[j] \subseteq replies[j]
        BY <1>0, <2>5 DEF Die
      <3>3. QED
        BY <1>0, <3>1, <3>2, ShrinkPlaces
    <2>6. QED
      BY <1>1, <1>2, <1>7, <2>3, <2>4, <2>5, HandleRequestCases
  <1>8. CASE m.type = "reply"
    <2>1. channel' = net /\ replies' = replies
      BY <1>1, <1>8 DEF HandleReply
    <2>2. QED
      BY <1>0, <1>5, <2>1, PlaceKept
  <1>9. CASE m.type = "hello"
    <2>1. InternalConnect(i, a[1], a[2], net) /\ replies' = replies
      BY <1>1, <1>9 DEF HandleHello, requests
    <2>2. Appended(net, channel', Self(i), <<a[1], a[2]>>, Hello)
      BY <1>0, <1>2, <1>3, <2>1, InternalConnectFacts
    <2>3. Hello.type = "hello"
      BY DEF Hello
    <2>6. \A j \in Instances : Owes(replies', j, k, id) => Owes(replies, j, k, id)
      BY <2>1
    <2>7. net \in [Pair -> Seq(Message)]
      BY <1>2
    <2>4. /\ OnePlace(net, replies, k, id) => OnePlace(channel', replies', k, id)
          /\ NoPlace(net, replies, k, id) => NoPlace(channel', replies', k, id)
      BY <2>2, <2>3, <2>6, <2>7, SentElsewhere
    <2>5. QED
      BY <1>0, <1>5, <2>4, PlaceKept
  <1>10. QED
    BY <1>2, <1>7, <1>8, <1>9, MessageFacts

\* Every step keeps the place of every request.
LEMMA PlaceStep ==
  ASSUME BaseInv, BaseInv', NEW i \in Instances, ActionOf(i), NEW k \in Instances, NEW id \in Nat,
         Orderly(k), born[k] = 1, ~ (k = i /\ Die(i))
  PROVE  PlaceNext(k, id)
  <1>. USE DEF core, links, requests
  <1>0. /\ channel \in [Pair -> Seq(Message)] /\ replies \in [Instances -> SUBSET ExternalRequestIdentity]
        /\ TypeOK /\ PlaceOf(k, id)
    BY DEF BaseInv, TypeOK, Orderly
  <1>1. CASE \/ Start(i) \/ Stop(i) \/ LeavePoller(i) \/ ClearState(i) \/ Enable(i) \/ OnDisable(i)
             \/ HandleNotify(i) \/ RegisterRequest(i)
             \/ \E j \in Instances, kind \in Kinds : SendRequest(i, j, kind)
             \/ \E n \in DOMAIN futures[i] : CancelRequest(i, n)
    <2>1. channel' = channel /\ (replies' = replies \/ replies' = [replies EXCEPT ![i] = {}])
      BY <1>1 DEF Start, Stop, LeavePoller, ClearState, Enable, OnDisable, HandleNotify, RegisterRequest,
                  SendRequest, CancelRequest
    <2>2. \A j \in Instances : replies'[j] \subseteq replies[j]
      BY <1>0, <2>1
    <2>3. QED
      BY <1>0, <2>1, <2>2, ShrinkPlaces
  <1>2. CASE CloseSockets(i)
    <2>1. Shortened(channel, channel') /\ replies' = replies
      BY <1>0, <1>2, ClosedAllFacts DEF CloseSockets
    <2>2. QED
      BY <1>0, <2>1, ShrinkPlaces
  <1>3. CASE Replace(i)
    <2>1. Shortened(channel, channel') /\ replies' = [replies EXCEPT ![i] = {}]
      BY <1>0, <1>3, ClosedAllFacts DEF Replace, Die
    <2>2. \A j \in Instances : replies'[j] \subseteq replies[j]
      BY <1>0, <2>1
    <2>3. QED
      BY <1>0, <2>1, <2>2, ShrinkPlaces
  <1>4. ASSUME NEW j \in Instances, PeerLeave(i, j)
        PROVE  PlaceNext(k, id)
    <2>1. replies' = replies /\ (channel' = channel \/ Lossy(channel, Self(i), <<j, sockets[i][j]>>, channel'))
      BY <1>4 DEF PeerLeave
    <2>2. channel' = channel \/ Shortened(channel, channel')
      BY <1>0, <2>1, LossyFacts
    <2>3. QED
      BY <1>0, <2>1, <2>2, ShrinkPlaces
  <1>5. ASSUME NEW j \in Instances, NEW r \in Runs, PeerJoin(i, j, r)
        PROVE  PlaceNext(k, id)
    <2>1. r \in Nat /\ <<j, r>> \in Address
      <3>1. r \in Nat /\ r # 0 /\ r <= run[j] /\ run[j] <= MaxRuns[j] /\ run[j] \in Nat /\ MaxRuns[j] \in Nat
        BY <1>5, RunTypes, RunsFacts DEF PeerJoin, BaseInv
      <3>2. QED
        BY <3>1, AddressFacts
    <2>2. InternalConnect(i, j, r, channel) /\ replies' = replies
      BY <1>5 DEF PeerJoin
    <2>3. Appended(channel, channel', Self(i), <<j, r>>, Hello) /\ Hello.type = "hello"
      BY <1>0, <2>1, <2>2, InternalConnectFacts DEF BaseInv, Hello
    <2>4. /\ OnePlace(channel, replies, k, id) => OnePlace(channel', replies', k, id)
          /\ NoPlace(channel, replies, k, id) => NoPlace(channel', replies', k, id)
      BY <1>0, <2>2, <2>3, SentElsewhere
    <2>5. QED
      BY <1>0, <2>4, PlaceKept
  <1>6. CASE Transmit(i)
    <2>1. k = i => futures[i][Len(futures[i])].status # "answered"
      BY <1>6 DEF Orderly, Transmit
    <2>2. QED
      BY <1>0, <1>6, <2>1, TransmitPlaces
  <1>7. CASE \E h \in handling[i] : Answer(i, h)
    BY <1>0, <1>7, AnswerPlaces
  <1>8. CASE \E a \in Senders(i) : Receive(i, a)
    BY <1>0, <1>8, ReceivePlaces
  <1>9. CASE Start(i) \/ Stop(i) \/ StopStep(i) \/ Replace(i) \/ Enable(i) \/ OnDisable(i)
              \/ HandleNotify(i) \/ SendStep(i)
    BY <1>1, <1>2, <1>3, <1>6, <1>9 DEF StopStep, SendStep
  <1>10. CASE \/ \E j \in Instances : PeerLeave(i, j)
              \/ \E j \in Instances, r \in Runs : PeerJoin(i, j, r)
    BY <1>4, <1>5, <1>10
  <1>11. QED
    BY <1>1, <1>7, <1>8, <1>9, <1>10 DEF ActionOf

\* Nothing is known of an instance that was never started.
LEMMA StartPlaces ==
  ASSUME BaseInv, KnownInv, OwnersStarted, NEW i \in Instances, run[i] = None, NEW id
  PROVE  NoPlace(channel, replies, i, id)
  <1>1. ASSUME NEW p \in Pair, NEW k \in Nat, Carries(channel, p, k, i, id)
        PROVE  FALSE
    <2>1. channel[p] \in Seq(Message) /\ k \in DOMAIN channel[p] /\ channel[p][k].type # "hello"
          /\ Asker(p, channel[p][k]) = i
      BY <1>1 DEF Carries, BaseInv, TypeOK
    <2>2. channel[p][k] \in Message
      BY <2>1, LenProperties, ElementOfSeq
    <2>3. channel[p][k].of \in Runs
      BY <2>1, <2>2, MessageFacts
    <2>4. channel[p][k].of \in Nat /\ channel[p][k].of # 0
      BY <2>3, RunsFacts
    <2>5. Known(i, channel[p][k].id, channel[p][k].of)
      BY <2>1 DEF KnownInv, NetKnown
    <2>6. channel[p][k].of <= 0
      BY <2>5 DEF Known, None
    <2>7. QED
      BY <2>4, <2>6
  <1>2. \A j \in Instances : ~ Owes(replies, j, i, id)
    BY DEF Owes, OwnersStarted
  <1>3. QED
    BY <1>1, <1>2 DEF NoPlace

\* Each step of an instance keeps the requests of every instance in one place at most.
LEMMA OrderlyStep ==
  ASSUME BaseInv, BaseInv', KnownInv, OneReplyInv, NEW i \in Instances, ActionOf(i), NEW k \in Instances
  PROVE  Orderly(k)'
  <1>. USE DEF core, links, requests
  <1>0. TypeOK /\ OwnersStarted /\ Orderly(k)
    BY DEF BaseInv, OneReplyInv
  <1>1. CASE k # i
    <2>1. born'[k] = born[k] /\ futures'[k] = futures[k] /\ sending'[k] = sending[k]
      BY <1>1, OthersStep DEF OthersKept, BaseInv
    <2>2. born[k] = 1 => \A id \in Nat : PlaceNext(k, id)
      BY <1>0, <1>1, PlaceStep
    <2>3. QED
      BY <1>0, <2>1, <2>2 DEF Orderly, PlaceOf, PlaceNext
  <1>2. CASE k = i /\ Die(i)
    <2>1. born'[i] = None /\ None # 1
      BY <1>0, <1>2 DEF Die, TypeOK, None
    <2>2. QED
      BY <1>2, <2>1 DEF Orderly
  <1>3. CASE k = i /\ Start(i) /\ born[i] = None
    <2>1. run[i] \in Nat /\ run'[i] = run[i] + 1 /\ born'[i] = run'[i]
      BY <1>0, <1>3, RunTypes DEF Start, TypeOK
    <2>2. sending'[i] = Idle /\ channel' = channel /\ replies' = replies
      BY <1>3 DEF Start, BaseInv, PhaseInv, PhaseOf
    <2>3. ASSUME born'[i] = 1, NEW id \in Nat
          PROVE  PlaceNext(i, id)
      <3>1. run[i] = None
        BY <2>1, <2>3 DEF None
      <3>2. NoPlace(channel', replies', i, id)
        BY <1>0, <2>2, <3>1, StartPlaces
      <3>3. QED
        BY <3>2, NoPlaceIsOnePlace DEF PlaceNext
    <2>4. QED
      BY <1>3, <2>2, <2>3 DEF Orderly, PlaceOf, PlaceNext, Idle
  <1>4. CASE k = i /\ ~ Die(i) /\ ~ (Start(i) /\ born[i] = None)
    <2>0. (Start(i) \/ UNCHANGED <<run, born>>) /\ FuturesGrow(i)
      BY <1>4, FuturesStep DEF BaseInv
    <2>1. born'[i] = born[i]
      BY <1>0, <1>4, <2>0 DEF Start, TypeOK
    <2>2. born[i] = 1 => \A id \in Nat : PlaceNext(i, id)
      BY <1>0, <1>4, PlaceStep
    <2>3. ASSUME born[i] = 1, sending'[i].step = "registered", futures'[i][Len(futures'[i])].status = "answered"
          PROVE  FALSE
      <3>0. futures[i] \in Seq(Future) /\ futures'[i] \in Seq(Future) /\ futures'[i] # <<>>
        BY <2>3 DEF BaseInv, TypeOK, PhaseInv, PhaseOf
      <3>1. DOMAIN futures[i] = 1 .. Len(futures[i]) /\ DOMAIN futures'[i] = 1 .. Len(futures'[i])
            /\ Len(futures[i]) \in Nat /\ Len(futures'[i]) \in Nat /\ Len(futures'[i]) # 0
        BY <3>0, LenProperties, EmptySeq
      <3>2. Len(futures'[i]) \in DOMAIN futures[i] /\ Len(futures'[i]) = Len(futures[i])
        BY <2>0, <2>3, <3>1 DEF FuturesGrow
      <3>3. ~ RegisterRequest(i)
        <4>1. RegisterRequest(i) => Len(futures'[i]) = Len(futures[i]) + 1
          BY <3>0 DEF RegisterRequest, BaseInv, TypeOK
        <4>2. QED
          BY <3>1, <3>2, <4>1
      <3>4. sending[i].step = "registered"
        BY <1>4, <2>3, <3>3, SendingStep
      <3>5. futures[i][Len(futures[i])].status # "answered"
        BY <1>0, <1>4, <2>3, <3>4 DEF Orderly
      <3>. DEFINE id == Len(futures[i]) - 1
      <3>6. id \in Nat /\ id + 1 = Len(futures[i])
        BY <3>1, <3>2
      <3>. HIDE DEF id
      <3>7. Completes(i, id + 1)
        BY <2>0, <2>3, <3>2, <3>5, <3>6 DEF FuturesGrow
      <3>8. OnePlace(channel, replies, i, id) /\ NoPlace(channel, replies, i, id)
        BY <1>0, <1>4, <2>3, <3>4, <3>6 DEF Orderly, PlaceOf, Nowhere
      <3>9. QED
        BY <3>6, <3>7, <3>8, CompletesPlaces
    <2>4. QED
      BY <1>4, <2>1, <2>2, <2>3 DEF Orderly, PlaceOf, PlaceNext
  <1>5. QED
    BY <1>1, <1>2, <1>3, <1>4

\* A request that is owed a reply came from an address that was started.
LEMMA OwnersStep ==
  ASSUME BaseInv, BaseInv', OwnersStarted, [Next]_vars, NEW i \in Instances, ActionOf(i)
  PROVE  OwnersStarted'
  <1>. USE DEF core, links, requests
  <1>0. replies \in [Instances -> SUBSET ExternalRequestIdentity] /\ TypeOK
    BY DEF BaseInv, TypeOK
  <1>1. ASSUME NEW q \in replies'[i]
        PROVE  q \in replies[i] \/ (q.from \in Instances /\ run[q.from] # None)
    <2>1. ASSUME NEW a \in Senders(i), Receive(i, a)
          PROVE  q \in replies[i] \/ (q.from \in Instances /\ run[q.from] # None)
      <3>. DEFINE m == Head(channel[<<a, Self(i)>>])
                  net == [channel EXCEPT ![<<a, Self(i)>>] = Tail(@)]
      <3>1. /\ Polling(i) /\ channel[<<a, Self(i)>>] # <<>> /\ phase[i] # "off"
            /\ m.type = "request" => HandleRequest(i, a[1], m, net)
            /\ m.type = "reply" => HandleReply(i, m, net)
            /\ m.type = "hello" => HandleHello(i, a, net)
        BY <2>1 DEF Receive, Polling
      <3>2. m \in Message /\ <<a, Self(i)>> \in Pair /\ a \in Address
        BY <3>1, IncomingFacts DEF BaseInv
      <3>3. a[1] \in Instances /\ run[a[1]] # None
        <4>1. a[1] \in Instances /\ a[2] \in Nat /\ a[2] # 0
          BY <3>2, AddressFacts
        <4>2. a[2] <= run[a[1]]
          BY <3>1, <3>2 DEF BaseInv, AddressInv
        <4>3. QED
          BY <1>0, <4>1, <4>2, RunTypes DEF None
      <3>. HIDE DEF m, net
      <3>4. CASE m.type = "request"
        <4>1. replies'[i] \subseteq replies[i] \cup {[from |-> a[1], id |-> m.id]}
          <5>1. CASE Die(i)
            BY <1>0, <5>1 DEF Die
          <5>2. CASE replies' = [replies EXCEPT ![i] = replies[i] \cup {[from |-> a[1], id |-> m.id]}]
            BY <1>0, <5>2
          <5>3. CASE SendReply(i, net, replies[i] \cup {[from |-> a[1], id |-> m.id]}, a[1], m.id, m.of)
            BY <1>0, <5>3 DEF SendReply
          <5>4. QED
            BY <3>1, <3>2, <3>4, <5>1, <5>2, <5>3, HandleRequestCases
        <4>2. q \in replies[i] \/ q = [from |-> a[1], id |-> m.id]
          BY <1>1, <4>1
        <4>3. QED
          BY <3>3, <4>2
      <3>5. CASE m.type # "request"
        BY <1>1, <3>1, <3>2, <3>5, MessageFacts DEF HandleReply, HandleHello
      <3>6. QED
        BY <3>4, <3>5
    <2>2. CASE \E h \in handling[i] : Answer(i, h)
      BY <1>0, <1>1, <2>2 DEF Answer, SendReply
    <2>3. CASE Start(i) \/ Stop(i) \/ StopStep(i) \/ Replace(i) \/ Enable(i) \/ OnDisable(i)
                \/ HandleNotify(i) \/ SendStep(i)
      BY <1>0, <1>1, <2>3 DEF Start, Stop, StopStep, LeavePoller, CloseSockets, ClearState, Replace, Die, Enable,
                              OnDisable, HandleNotify, SendStep, RegisterRequest, Transmit
    <2>4. CASE \/ \E j \in Instances : PeerLeave(i, j)
               \/ \E j \in Instances, r \in Runs : PeerJoin(i, j, r)
               \/ \E j \in Instances, kind \in Kinds : SendRequest(i, j, kind)
               \/ \E n \in DOMAIN futures[i] : CancelRequest(i, n)
      BY <1>1, <2>4 DEF PeerLeave, PeerJoin, SendRequest, CancelRequest
    <2>5. QED
      BY <2>1, <2>2, <2>3, <2>4 DEF ActionOf
  <1>2. \A j \in Instances : run[j] # None => run'[j] # None
    <2>1. \A j \in Instances : run[j] \in Nat /\ run'[j] \in Nat /\ run[j] <= run'[j]
      BY RunGrows, RunTypes, RunTypesNext DEF BaseInv
    <2>2. QED
      BY <2>1 DEF None
  <1>3. ASSUME NEW j \in Instances, NEW q \in replies'[j]
        PROVE  run'[q.from] # None
    <2>1. q \in replies[j] \/ (q.from \in Instances /\ run[q.from] # None)
      <3>1. CASE j # i
        BY <1>3, <3>1, OthersStep DEF OthersKept, BaseInv
      <3>2. QED
        BY <1>1, <1>3, <3>1
    <2>2. q \in replies[j] => q.from \in Instances /\ run[q.from] # None
      BY <1>0 DEF ExternalRequestIdentity, OwnersStarted
    <2>3. QED
      BY <1>2, <2>1, <2>2
  <1>4. QED
    BY <1>3 DEF OwnersStarted

\* In every reachable state each request of a service without a predecessor is in one place at
\* most, on its way or owed a reply, and in none before it is sent and after it is answered.
THEOREM OneReplyInvariant == Spec => []OneReplyInv
  <1>1. Init => OneReplyInv
    <2>1. None # 1
      BY DEF None
    <2>2. QED
      BY <2>1 DEF Init, OneReplyInv, OwnersStarted, Orderly
  <1>2. BaseInv /\ KnownInv /\ OneReplyInv /\ [Next]_vars => OneReplyInv'
    <2>. SUFFICES ASSUME BaseInv, KnownInv, OneReplyInv, [Next]_vars
                  PROVE  OneReplyInv'
      OBVIOUS
    <2>1. BaseInv'
      BY BaseStep
    <2>2. CASE UNCHANGED vars
      BY <2>2 DEF vars, core, requests, OneReplyInv, OwnersStarted, Orderly, PlaceOf, Nowhere
    <2>3. ASSUME NEW i \in Instances, ActionOf(i)
          PROVE  OneReplyInv'
      <3>1. OwnersStarted'
        BY <2>1, <2>3, OwnersStep DEF OneReplyInv
      <3>2. \A k \in Instances : Orderly(k)'
        BY <2>1, <2>3, OrderlyStep
      <3>3. QED
        BY <3>1, <3>2 DEF OneReplyInv
    <2>4. QED
      BY <2>2, <2>3, NextIsActionOf
  <1>3. QED
    BY <1>1, <1>2, BaseInvariant, KnownInvariant, PTL DEF Spec

\* A request in one place has one reply.
LEMMA OneReplyFromInv ==
  ASSUME OneReplyInv, BaseInv
  PROVE  OneReply
  <1>1. ASSUME NEW i \in Instances, born[i] = 1, NEW n \in DOMAIN futures[i]
        PROVE  LET reply == [type |-> "reply", id |-> n - 1, of |-> futures[i][n].of]
                   inFlight == UNION {{pair} \X {k \in DOMAIN channel[pair] : channel[pair][k] = reply} :
                                        pair \in {p \in Pair : p[2][1] = i}}
               IN Cardinality(inFlight) <= (IF futures[i][n].status = "answered" THEN 0 ELSE 1)
    <2>. DEFINE id == n - 1
                reply == [type |-> "reply", id |-> id, of |-> futures[i][n].of]
                inFlight == UNION {{pair} \X {k \in DOMAIN channel[pair] : channel[pair][k] = reply} :
                                     pair \in {p \in Pair : p[2][1] = i}}
    <2>1. id \in Nat /\ id + 1 = n
      <3>1. DOMAIN futures[i] = 1 .. Len(futures[i])
        BY LenProperties DEF BaseInv, TypeOK
      <3>2. QED
        BY <1>1, <3>1
    <2>2. OnePlace(channel, replies, i, id) /\ (Nowhere(i, id) => NoPlace(channel, replies, i, id))
      BY <1>1, <2>1 DEF OneReplyInv, Orderly, PlaceOf
    <2>3. reply.type = "reply" /\ reply.id = id
      OBVIOUS
    <2>4. \A x \in inFlight : \E p \in Pair : \E k \in DOMAIN channel[p] :
             x = <<p, k>> /\ p[2][1] = i /\ channel[p][k] = reply
      OBVIOUS
    <2>. HIDE DEF id, reply, inFlight
    <2>5. \A x \in inFlight : \E p \in Pair, k \in Nat : x = <<p, k>> /\ Carries(channel, p, k, i, id)
      <3>1. ASSUME NEW p \in Pair, NEW k \in DOMAIN channel[p], p[2][1] = i, channel[p][k] = reply
            PROVE  k \in Nat /\ Carries(channel, p, k, i, id)
        <4>1. DOMAIN channel[p] = 1 .. Len(channel[p])
          BY LenProperties DEF BaseInv, TypeOK
        <4>2. QED
          BY <2>3, <3>1, <4>1 DEF Carries, Asker
      <3>2. QED
        BY <2>4, <3>1
    <2>6. CASE futures[i][n].status = "answered"
      <3>1. NoPlace(channel, replies, i, id)
        BY <2>1, <2>2, <2>6 DEF Nowhere
      <3>2. inFlight = {}
        BY <2>5, <3>1 DEF NoPlace
      <3>3. Cardinality(inFlight) = 0
        BY <3>2, FS_EmptySet
      <3>4. QED
        BY <2>6, <3>3 DEF inFlight, reply, id
    <2>7. CASE futures[i][n].status # "answered"
      <3>1. \A x, y \in inFlight : x = y
        BY <2>2, <2>5 DEF OnePlace
      <3>2. CASE inFlight = {}
        BY <2>7, <3>2, FS_EmptySet DEF inFlight, reply, id
      <3>3. CASE inFlight # {}
        <4>1. PICK x : inFlight = {x}
          BY <3>1, <3>3
        <4>2. Cardinality(inFlight) = 1
          BY <4>1, FS_Singleton
        <4>3. QED
          BY <2>7, <4>2 DEF inFlight, reply, id
      <3>4. QED
        BY <3>2, <3>3
    <2>8. QED
      BY <2>6, <2>7
  <1>2. QED
    BY <1>1 DEF OneReply

\* However often a module answers and whatever is lost, stopped or restarted, there
\* is at most one reply to a request on its way, and none once it is answered,
\* among services that have no predecessor.
THEOREM RequestsHaveOneReply == Spec => []OneReply
  <1>1. OneReplyInv /\ BaseInv => OneReply
    BY OneReplyFromInv
  <1>2. QED
    BY <1>1, OneReplyInvariant, BaseInvariant, PTL
=============================================================================
