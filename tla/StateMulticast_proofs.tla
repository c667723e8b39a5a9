------------------------ MODULE StateMulticast_proofs ------------------------
(***************************************************************************)
(* Proofs about FrameworkProto and StateMulticast, for every set of        *)
(* instances, names, additional states and buffer sizes.  The generated    *)
(* code first: where the units of a multicast are in what is written, and  *)
(* what is read of any beginning of it.  Then the inductive invariant, of  *)
(* the multicast at hand, the registry and the additional states, and the  *)
(* properties that follow.                                                 *)
(***************************************************************************)
EXTENDS StateMulticast, PeerRegistry_proofs

USE IdsAssumption

(***************************************************************************)
(* What is written.                                                        *)
(***************************************************************************)
\* The units of a datagram.
FieldNames == {"zmqPubPort", "zmqRepPort", "senderId", "typeId", "instanceId", "senderName", "version",
               "lifecycleState", "additionalStateInfos", "multicastIdentifier"}
Units == [field : FieldNames, value : Instances \cup Types \cup Ids \cup Bytes \cup Nat]
         \cup [field : FieldNames, length : Nat]

Contents(field, value) == [k \in 1..Len(value) |-> Unit(field, value[k])]

\* Two sequences, one after the other.
LEMMA ConcatAt ==
  ASSUME NEW S, NEW s \in Seq(S), NEW t \in Seq(S)
  PROVE  /\ s \o t \in Seq(S) /\ Len(s \o t) = Len(s) + Len(t)
         /\ \A k \in 1..Len(s) : (s \o t)[k] = s[k]
         /\ \A k \in 1..Len(t) : (s \o t)[Len(s) + k] = t[k]
  <1>1. /\ s \o t \in Seq(S) /\ Len(s \o t) = Len(s) + Len(t)
        /\ \A i \in 1..Len(s) + Len(t) :
               (s \o t)[i] = IF i <= Len(s) THEN s[i] ELSE t[i - Len(s)]
        /\ Len(s) \in Nat /\ Len(t) \in Nat
    BY ConcatProperties
  <1>2. ASSUME NEW k \in 1..Len(s)
        PROVE  (s \o t)[k] = s[k]
    BY <1>1
  <1>3. ASSUME NEW k \in 1..Len(t)
        PROVE  (s \o t)[Len(s) + k] = t[k]
    <2>1. /\ Len(s) + k \in 1..Len(s) + Len(t) /\ ~(Len(s) + k <= Len(s))
          /\ Len(s) + k - Len(s) = k
      BY <1>1
    <2>2. QED
      BY <1>1, <2>1
  <1>4. QED
    BY <1>1, <1>2, <1>3

\* One unit.
LEMMA OneUnit ==
  ASSUME NEW u \in Units
  PROVE  <<u>> \in Seq(Units) /\ Len(<<u>>) = 1 /\ <<u>>[1] = u
  OBVIOUS

\* A header and the units of a string.
LEMMA StringUnits ==
  ASSUME NEW field \in FieldNames, NEW value \in Seq(Bytes)
  PROVE  LET s == <<Header(field, Len(value))>> \o Contents(field, value)
         IN  /\ s \in Seq(Units) /\ Len(s) = 1 + Len(value)
             /\ s[1] = Header(field, Len(value))
             /\ \A k \in 1..Len(value) : s[1 + k] = Unit(field, value[k])
  <1> DEFINE h == <<Header(field, Len(value))>>
             c == Contents(field, value)
  <1>1. Len(value) \in Nat /\ Header(field, Len(value)) \in Units
    BY DEF Header, Units
  <1>2. h \in Seq(Units) /\ Len(h) = 1 /\ h[1] = Header(field, Len(value))
    BY <1>1, OneUnit
  <1>3. \A k \in 1..Len(value) : Unit(field, value[k]) \in Units
    BY DEF Unit, Units
  <1>4. c \in [1..Len(value) -> Units]
    BY <1>3 DEF Contents
  <1>5. \A k \in 1..Len(value) : c[k] = Unit(field, value[k])
    BY DEF Contents
  <1>. HIDE DEF h, c
  <1>6. c \in Seq(Units) /\ Len(c) = Len(value)
    BY <1>1, <1>4
  <1>7. /\ h \o c \in Seq(Units) /\ Len(h \o c) = Len(h) + Len(c)
        /\ \A k \in 1..Len(h) : (h \o c)[k] = h[k]
        /\ \A k \in 1..Len(c) : (h \o c)[Len(h) + k] = c[k]
    <2>1. h \in Seq(Units) /\ c \in Seq(Units)
      BY <1>2, <1>6
    <2>2. QED
      BY <2>1, ConcatAt
  <1>8. Len(h \o c) = 1 + Len(value)
    BY <1>2, <1>6, <1>7
  <1>9. (h \o c)[1] = Header(field, Len(value))
    <2>1. Len(h) = 1 /\ h[1] = Header(field, Len(value))
      BY <1>2
    <2>2. 1 \in 1..Len(h)
      BY <2>1
    <2>4. \A k \in 1..Len(h) : (h \o c)[k] = h[k]
      BY <1>7
    <2>5. (h \o c)[1] = h[1]
      BY <2>2, <2>4
    <2>3. QED
      BY <2>1, <2>5
  <1>10. \A k \in 1..Len(value) : (h \o c)[1 + k] = Unit(field, value[k])
    BY <1>2, <1>5, <1>6, <1>7
  <1>11. QED
    BY <1>7, <1>8, <1>9, <1>10 DEF h, c

\* The units of a multicast of p.
Layout(b, p, state, additionalState) ==
    LET N == Len(Name[p])
        L == Len(additionalState)
    IN  /\ b \in Seq(Units) /\ Len(b) = 10 + N + L
        /\ b[1] = Unit("zmqPubPort", p)
        /\ b[2] = Unit("zmqRepPort", p)
        /\ b[3] = Header("senderId", 2)
        /\ b[4] = Unit("typeId", TypeId[UniqueId[p]])
        /\ b[5] = Unit("instanceId", UniqueId[p])
        /\ b[6] = Header("senderName", N)
        /\ \A k \in 1..N : b[6 + k] = Unit("senderName", Name[p][k])
        /\ b[7 + N] = Unit("version", Version[p])
        /\ b[8 + N] = Unit("lifecycleState", Code(state))
        /\ b[9 + N] = Header("additionalStateInfos", L)
        /\ \A k \in 1..L : b[9 + N + k] = Unit("additionalStateInfos", additionalState[k])
        /\ b[10 + N + L] = Unit("multicastIdentifier", p)

\* The two numbers of the nested message.
LEMMA SenderIdFacts ==
  ASSUME NEW t \in Types, NEW i \in Ids
  PROVE  LET id == [typeId |-> t, instanceId |-> i]
         IN  /\ Cardinality(DOMAIN id) = 2
             /\ FieldSize("senderId", id) = 3
             /\ SerializeSenderId(id) \in Seq(Units) /\ Len(SerializeSenderId(id)) = 2
             /\ SerializeSenderId(id)[1] = Unit("typeId", t)
             /\ SerializeSenderId(id)[2] = Unit("instanceId", i)
  <1> DEFINE id == [typeId |-> t, instanceId |-> i]
  <1>1. DOMAIN id = {"typeId"} \cup {"instanceId"}
    OBVIOUS
  <1>2. Cardinality({"typeId"} \cup {"instanceId"}) = 2
    <2>1. IsFiniteSet({"typeId"}) /\ Cardinality({"typeId"}) = 1 /\ "instanceId" \notin {"typeId"}
      BY FS_Singleton
    <2>2. Cardinality({"typeId"} \cup {"instanceId"})
             = IF "instanceId" \in {"typeId"} THEN Cardinality({"typeId"}) ELSE Cardinality({"typeId"}) + 1
      BY <2>1, FS_AddElement
    <2>3. QED
      BY <2>1, <2>2
  <1>3. Cardinality(DOMAIN id) = 2
    BY <1>1, <1>2
  <1>4. FieldSize("senderId", id) = 3
    BY <1>3 DEF FieldSize, Strings
  <1> DEFINE a == <<Unit("typeId", t)>>
             b == <<Unit("instanceId", i)>>
  <1>5. SerializeSenderId(id) = a \o b
    <2>1. Has(id, "typeId") /\ Has(id, "instanceId") /\ id["typeId"] = t /\ id["instanceId"] = i
      BY DEF Has
    <2>. HIDE DEF id
    <2>2. QED
      BY <2>1 DEF SerializeSenderId
  <1>6. /\ a \in Seq(Units) /\ Len(a) = 1 /\ a[1] = Unit("typeId", t)
        /\ b \in Seq(Units) /\ Len(b) = 1 /\ b[1] = Unit("instanceId", i)
    <2>3. Unit("typeId", t) \in Units /\ Unit("instanceId", i) \in Units
      BY DEF Unit, Units, FieldNames
    <2>2. QED
      BY <2>3, OneUnit
  <1>. HIDE DEF a, b, id
  <1>7. /\ a \o b \in Seq(Units) /\ Len(a \o b) = Len(a) + Len(b)
        /\ \A k \in 1..Len(a) : (a \o b)[k] = a[k]
        /\ \A k \in 1..Len(b) : (a \o b)[Len(a) + k] = b[k]
    <2>1. a \in Seq(Units) /\ b \in Seq(Units)
      BY <1>6
    <2>2. QED
      BY <2>1, ConcatAt
  <1>8. /\ Len(a \o b) = 2 /\ (a \o b)[1] = a[1] /\ (a \o b)[2] = b[1]
    BY <1>6, <1>7
  <1>9. QED
    BY <1>3, <1>4, <1>5, <1>6, <1>7, <1>8 DEF id

\* What is set in a multicast.
LEMMA MessageFacts ==
  ASSUME NEW p, NEW state, NEW additionalState
  PROVE  LET m == Message(p, state, additionalState)
         IN  /\ DOMAIN m = {"zmqPubPort", "zmqRepPort", "senderId", "senderName", "version",
                            "lifecycleState", "additionalStateInfos", "multicastIdentifier"}
             /\ m["zmqPubPort"] = p /\ m["zmqRepPort"] = p
             /\ m["senderId"] = [typeId |-> TypeId[UniqueId[p]], instanceId |-> UniqueId[p]]
             /\ m["senderName"] = Name[p] /\ m["version"] = Version[p]
             /\ m["lifecycleState"] = Code(state)
             /\ m["additionalStateInfos"] = additionalState /\ m["multicastIdentifier"] = p
  BY DEF Message

\* A multicast is written in this layout, and takes as many units as were counted.
LEMMA SerializeLayout ==
  ASSUME NEW p \in Instances, NEW state \in ModuleStates, NEW additionalState \in Seq(Bytes)
  PROVE  LET m == Message(p, state, additionalState)
         IN  /\ Layout(Serialize(m), p, state, additionalState)
             /\ ByteSize(m) = 10 + Len(Name[p]) + Len(additionalState)
  <1> DEFINE m == Message(p, state, additionalState)
             id == [typeId |-> TypeId[UniqueId[p]], instanceId |-> UniqueId[p]]
             N == Len(Name[p])
             L == Len(additionalState)
             w1 == <<Unit("zmqPubPort", p)>>
             w2 == <<Unit("zmqRepPort", p)>>
             w3 == <<Header("senderId", 2)>> \o SerializeSenderId(id)
             w4 == <<Header("senderName", N)>> \o Contents("senderName", Name[p])
             w5 == <<Unit("version", Version[p])>>
             w6 == <<Unit("lifecycleState", Code(state))>>
             w8 == <<Header("additionalStateInfos", L)>> \o Contents("additionalStateInfos", additionalState)
             w9 == <<Unit("multicastIdentifier", p)>>
             s2 == w1 \o w2
             s3 == s2 \o w3
             s4 == s3 \o w4
             s5 == s4 \o w5
             s6 == s5 \o w6
             s7 == s6 \o <<>>
             s8 == s7 \o w8
             s9 == s8 \o w9
  <1>1. /\ UniqueId[p] \in Ids /\ TypeId[UniqueId[p]] \in Types /\ Name[p] \in Seq(Bytes)
        /\ Version[p] \in Nat /\ Code(state) \in Nat /\ N \in Nat /\ L \in Nat
    BY ContentsAssumption DEF Code, ModuleStates
  <1>2. /\ DOMAIN m = {"zmqPubPort", "zmqRepPort", "senderId", "senderName", "version",
                       "lifecycleState", "additionalStateInfos", "multicastIdentifier"}
        /\ m["zmqPubPort"] = p /\ m["zmqRepPort"] = p
        /\ m["senderId"] = id
        /\ m["senderName"] = Name[p] /\ m["version"] = Version[p]
        /\ m["lifecycleState"] = Code(state)
        /\ m["additionalStateInfos"] = additionalState /\ m["multicastIdentifier"] = p
    BY MessageFacts
  <1>3. /\ FieldSize("senderId", id) = 3
        /\ SerializeSenderId(id) \in Seq(Units) /\ Len(SerializeSenderId(id)) = 2
        /\ SerializeSenderId(id)[1] = Unit("typeId", TypeId[UniqueId[p]])
        /\ SerializeSenderId(id)[2] = Unit("instanceId", UniqueId[p])
    BY <1>1, SenderIdFacts
  <1>4. /\ SerializeField("zmqPubPort", p) = w1 /\ SerializeField("zmqRepPort", p) = w2
        /\ SerializeField("senderName", Name[p]) = w4
        /\ SerializeField("version", Version[p]) = w5
        /\ SerializeField("lifecycleState", Code(state)) = w6
        /\ SerializeField("additionalStateInfos", additionalState) = w8
        /\ SerializeField("multicastIdentifier", p) = w9
    BY DEF SerializeField, Strings, Contents
  <1>5. SerializeField("senderId", id) = w3
    BY <1>3 DEF SerializeField, Strings
  <1>. HIDE DEF m, id
  <1>6. Serialize(m) = s9
    <2>. HIDE DEF w1, w2, w3, w4, w5, w6, w8, w9
    <2>1. QED
      BY <1>2, <1>4, <1>5 DEF Serialize, Has
  <1>7. ByteSize(m) = 10 + N + L
    <2>1. /\ Counted(m, "zmqPubPort") = 1 /\ Counted(m, "zmqRepPort") = 1
          /\ Counted(m, "senderName") = 1 + N /\ Counted(m, "version") = 1
          /\ Counted(m, "lifecycleState") = 1 /\ Counted(m, "additionalLifecycleInfos") = 0
          /\ Counted(m, "additionalStateInfos") = 1 + L /\ Counted(m, "multicastIdentifier") = 1
      BY <1>2 DEF Counted, Has, FieldSize, Strings
    <2>2. Counted(m, "senderId") = 3
      BY <1>2, <1>3 DEF Counted, Has
    <2>3. N \in Nat /\ L \in Nat
      BY <1>1
    <2>. HIDE DEF N, L
    <2>4. ByteSize(m) = 1 + 1 + 3 + (1 + N) + 1 + 1 + 0 + (1 + L) + 1
      BY <2>1, <2>2, Zenon DEF ByteSize
    <2>5. 1 + 1 + 3 + (1 + N) + 1 + 1 + 0 + (1 + L) + 1 = 10 + N + L
      BY <2>3
    <2>6. QED
      BY <2>4, <2>5
  <1>8. /\ w1 \in Seq(Units) /\ Len(w1) = 1 /\ w1[1] = Unit("zmqPubPort", p)
        /\ w2 \in Seq(Units) /\ Len(w2) = 1 /\ w2[1] = Unit("zmqRepPort", p)
        /\ w5 \in Seq(Units) /\ Len(w5) = 1 /\ w5[1] = Unit("version", Version[p])
        /\ w6 \in Seq(Units) /\ Len(w6) = 1 /\ w6[1] = Unit("lifecycleState", Code(state))
        /\ w9 \in Seq(Units) /\ Len(w9) = 1 /\ w9[1] = Unit("multicastIdentifier", p)
    <2>1. /\ Unit("zmqPubPort", p) \in Units /\ Unit("zmqRepPort", p) \in Units
          /\ Unit("version", Version[p]) \in Units /\ Unit("lifecycleState", Code(state)) \in Units
          /\ Unit("multicastIdentifier", p) \in Units
      BY <1>1 DEF Unit, Units, FieldNames
    <2>2. QED
      BY <2>1, OneUnit
  <1>9. /\ w4 \in Seq(Units) /\ Len(w4) = 1 + N /\ w4[1] = Header("senderName", N)
        /\ \A k \in 1..N : w4[1 + k] = Unit("senderName", Name[p][k])
    <2>1. "senderName" \in FieldNames
      BY DEF FieldNames
    <2>2. QED
      BY <1>1, <2>1, StringUnits
  <1>10. /\ w8 \in Seq(Units) /\ Len(w8) = 1 + L /\ w8[1] = Header("additionalStateInfos", L)
         /\ \A k \in 1..L : w8[1 + k] = Unit("additionalStateInfos", additionalState[k])
    <2>1. "additionalStateInfos" \in FieldNames
      BY DEF FieldNames
    <2>2. QED
      BY <2>1, StringUnits
  <1>11. /\ w3 \in Seq(Units) /\ Len(w3) = 3 /\ w3[1] = Header("senderId", 2)
         /\ w3[2] = Unit("typeId", TypeId[UniqueId[p]]) /\ w3[3] = Unit("instanceId", UniqueId[p])
    <2> DEFINE h == <<Header("senderId", 2)>>
               c == SerializeSenderId(id)
    <2>1. Header("senderId", 2) \in Units
      BY DEF Header, Units, FieldNames
    <2>2. h \in Seq(Units) /\ Len(h) = 1 /\ h[1] = Header("senderId", 2)
      BY <2>1, OneUnit
    <2>3. c \in Seq(Units) /\ Len(c) = 2
      BY <1>3
    <2>. HIDE DEF h, c
    <2>4. /\ h \o c \in Seq(Units) /\ Len(h \o c) = Len(h) + Len(c)
          /\ \A k \in 1..Len(h) : (h \o c)[k] = h[k]
          /\ \A k \in 1..Len(c) : (h \o c)[Len(h) + k] = c[k]
      <3>1. h \in Seq(Units) /\ c \in Seq(Units)
        BY <2>2, <2>3
      <3>2. QED
        BY <3>1, ConcatAt
    <2>5. /\ Len(h \o c) = 3 /\ (h \o c)[1] = h[1] /\ (h \o c)[2] = c[1] /\ (h \o c)[3] = c[2]
      <3>1. Len(h) = 1 /\ Len(c) = 2
        BY <2>2, <2>3
      <3>2. 1 \in 1..Len(h) /\ 1 \in 1..Len(c) /\ 2 \in 1..Len(c) /\ Len(h) + 1 = 2 /\ Len(h) + 2 = 3
        BY <3>1
      <3>3. (h \o c)[1] = h[1] /\ (h \o c)[Len(h) + 1] = c[1] /\ (h \o c)[Len(h) + 2] = c[2]
        BY <2>4, <3>2
      <3>4. QED
        BY <2>4, <3>1, <3>2, <3>3
    <2>6. w3 = h \o c
      BY DEF h, c
    <2>. HIDE DEF w3
    <2>7. h[1] = Header("senderId", 2)
      BY <2>2
    <2>8. c[1] = Unit("typeId", TypeId[UniqueId[p]]) /\ c[2] = Unit("instanceId", UniqueId[p])
      BY <1>3 DEF c
    <2>9. QED
      BY <2>4, <2>5, <2>6, <2>7, <2>8
  <1>. HIDE DEF w1, w2, w3, w4, w5, w6, w8, w9, N, L
  <1>12. /\ s2 \in Seq(Units) /\ Len(s2) = 2
         /\ s2[1] = Unit("zmqPubPort", p) /\ s2[2] = Unit("zmqRepPort", p)
    <2>1. /\ s2 \in Seq(Units) /\ Len(s2) = Len(w1) + Len(w2)
          /\ \A k \in 1..Len(w1) : s2[k] = w1[k]
          /\ \A k \in 1..Len(w2) : s2[Len(w1) + k] = w2[k]
      <3>1. w1 \in Seq(Units) /\ w2 \in Seq(Units)
        BY <1>8
      <3>2. QED
        BY <3>1, ConcatAt
    <2>. HIDE DEF s2
    <2>2. Len(w1) = 1 /\ Len(w2) = 1
      BY <1>8
    <2>3. 1 \in 1..Len(w1) /\ 1 \in 1..Len(w2) /\ Len(w1) + 1 = 2
      BY <2>2
    <2>4. s2[1] = w1[1] /\ s2[Len(w1) + 1] = w2[1]
      BY <2>1, <2>3
    <2>5. QED
      BY <1>8, <2>1, <2>2, <2>3, <2>4
  <1>13. /\ s3 \in Seq(Units) /\ Len(s3) = 5 /\ \A k \in 1..2 : s3[k] = s2[k]
         /\ s3[3] = w3[1] /\ s3[4] = w3[2] /\ s3[5] = w3[3]
    <2>. HIDE DEF s2
    <2>1. /\ s3 \in Seq(Units) /\ Len(s3) = Len(s2) + Len(w3)
          /\ \A k \in 1..Len(s2) : s3[k] = s2[k]
          /\ \A k \in 1..Len(w3) : s3[Len(s2) + k] = w3[k]
      <3>1. s2 \in Seq(Units) /\ w3 \in Seq(Units)
        BY <1>11, <1>12
      <3>2. QED
        BY <3>1, ConcatAt
    <2>. HIDE DEF s3
    <2>2. Len(s2) = 2 /\ Len(w3) = 3
      BY <1>11, <1>12
    <2>3. /\ 1 \in 1..Len(w3) /\ 2 \in 1..Len(w3) /\ 3 \in 1..Len(w3)
          /\ Len(s2) + 1 = 3 /\ Len(s2) + 2 = 4 /\ Len(s2) + 3 = 5
      BY <2>2
    <2>4. s3[Len(s2) + 1] = w3[1] /\ s3[Len(s2) + 2] = w3[2] /\ s3[Len(s2) + 3] = w3[3]
      BY <2>1, <2>3
    <2>5. QED
      BY <2>1, <2>2, <2>3, <2>4
  <1>. HIDE DEF s2
  <1>14. /\ s4 \in Seq(Units) /\ Len(s4) = 6 + N /\ \A k \in 1..5 : s4[k] = s3[k]
         /\ \A k \in 1..1 + N : s4[5 + k] = w4[k]
    <2>. HIDE DEF s3
    <2>1. /\ s4 \in Seq(Units) /\ Len(s4) = Len(s3) + Len(w4)
          /\ \A k \in 1..Len(s3) : s4[k] = s3[k]
          /\ \A k \in 1..Len(w4) : s4[Len(s3) + k] = w4[k]
      <3>1. s3 \in Seq(Units) /\ w4 \in Seq(Units)
        BY <1>9, <1>13
      <3>2. QED
        BY <3>1, ConcatAt
    <2>. HIDE DEF s4
    <2>2. Len(s3) = 5 /\ Len(w4) = 1 + N /\ N \in Nat
      BY <1>1, <1>9, <1>13
    <2>3. QED
      BY <2>1, <2>2
  <1>. HIDE DEF s3
  <1>15. /\ s5 \in Seq(Units) /\ Len(s5) = 7 + N /\ \A k \in 1..6 + N : s5[k] = s4[k]
         /\ s5[7 + N] = w5[1]
    <2>. HIDE DEF s4
    <2>1. /\ s5 \in Seq(Units) /\ Len(s5) = Len(s4) + Len(w5)
          /\ \A k \in 1..Len(s4) : s5[k] = s4[k]
          /\ \A k \in 1..Len(w5) : s5[Len(s4) + k] = w5[k]
      <3>1. s4 \in Seq(Units) /\ w5 \in Seq(Units)
        BY <1>8, <1>14
      <3>2. QED
        BY <3>1, ConcatAt
    <2>. HIDE DEF s5
    <2>2. Len(s4) = 6 + N /\ Len(w5) = 1 /\ N \in Nat
      BY <1>1, <1>8, <1>14
    <2>3. 1 \in 1..Len(w5) /\ Len(s4) + 1 = 7 + N
      BY <2>2
    <2>4. s5[Len(s4) + 1] = w5[1]
      BY <2>1, <2>3
    <2>5. QED
      BY <2>1, <2>2, <2>3, <2>4
  <1>. HIDE DEF s4
  <1>16. /\ s6 \in Seq(Units) /\ Len(s6) = 8 + N /\ \A k \in 1..7 + N : s6[k] = s5[k]
         /\ s6[8 + N] = w6[1]
    <2>. HIDE DEF s5
    <2>1. /\ s6 \in Seq(Units) /\ Len(s6) = Len(s5) + Len(w6)
          /\ \A k \in 1..Len(s5) : s6[k] = s5[k]
          /\ \A k \in 1..Len(w6) : s6[Len(s5) + k] = w6[k]
      <3>1. s5 \in Seq(Units) /\ w6 \in Seq(Units)
        BY <1>8, <1>15
      <3>2. QED
        BY <3>1, ConcatAt
    <2>. HIDE DEF s6
    <2>2. Len(s5) = 7 + N /\ Len(w6) = 1 /\ N \in Nat
      BY <1>1, <1>8, <1>15
    <2>3. 1 \in 1..Len(w6) /\ Len(s5) + 1 = 8 + N
      BY <2>2
    <2>4. s6[Len(s5) + 1] = w6[1]
      BY <2>1, <2>3
    <2>5. QED
      BY <2>1, <2>2, <2>3, <2>4
  <1>. HIDE DEF s5
  <1>17. s7 = s6
    <2>. HIDE DEF s6
    <2>1. s6 \in Seq(Units)
      BY <1>16
    <2>2. QED
      BY <2>1, ConcatEmptySeq
  <1>. HIDE DEF s6, s7
  <1>18. /\ s8 \in Seq(Units) /\ Len(s8) = 9 + N + L /\ \A k \in 1..8 + N : s8[k] = s6[k]
         /\ \A k \in 1..1 + L : s8[8 + N + k] = w8[k]
    <2>1. /\ s8 \in Seq(Units) /\ Len(s8) = Len(s6) + Len(w8)
          /\ \A k \in 1..Len(s6) : s8[k] = s6[k]
          /\ \A k \in 1..Len(w8) : s8[Len(s6) + k] = w8[k]
      <3>1. s6 \in Seq(Units) /\ w8 \in Seq(Units) /\ s8 = s6 \o w8
        BY <1>10, <1>16, <1>17
      <3>. HIDE DEF s8
      <3>2. QED
        BY <3>1, ConcatAt
    <2>. HIDE DEF s8
    <2>2. Len(s6) = 8 + N /\ Len(w8) = 1 + L /\ N \in Nat /\ L \in Nat
      BY <1>1, <1>10, <1>16
    <2>3. QED
      BY <2>1, <2>2
  <1>19. /\ s9 \in Seq(Units) /\ Len(s9) = 10 + N + L /\ \A k \in 1..9 + N + L : s9[k] = s8[k]
         /\ s9[10 + N + L] = w9[1]
    <2>. HIDE DEF s8
    <2>1. /\ s9 \in Seq(Units) /\ Len(s9) = Len(s8) + Len(w9)
          /\ \A k \in 1..Len(s8) : s9[k] = s8[k]
          /\ \A k \in 1..Len(w9) : s9[Len(s8) + k] = w9[k]
      <3>1. s8 \in Seq(Units) /\ w9 \in Seq(Units)
        BY <1>8, <1>18
      <3>2. QED
        BY <3>1, ConcatAt
    <2>. HIDE DEF s9
    <2>2. Len(s8) = 9 + N + L /\ Len(w9) = 1 /\ N \in Nat /\ L \in Nat
      BY <1>1, <1>8, <1>18
    <2>3. 1 \in 1..Len(w9) /\ Len(s8) + 1 = 10 + N + L
      BY <2>2
    <2>4. s9[Len(s8) + 1] = w9[1]
      BY <2>1, <2>3
    <2>5. QED
      BY <2>1, <2>2, <2>3, <2>4
  <1>. HIDE DEF s8, s9
  <1>20. \A k \in 1..5 : s9[k] = s3[k]
    <2>1. SUFFICES ASSUME NEW k \in 1..5
                   PROVE  s9[k] = s3[k]
      OBVIOUS
    <2>2. k \in 1..6 + N /\ k \in 1..7 + N /\ k \in 1..8 + N /\ k \in 1..9 + N + L
      BY <1>1
    <2>3. s9[k] = s8[k] /\ s8[k] = s6[k]
      BY <1>18, <1>19, <2>2
    <2>4. s6[k] = s5[k] /\ s5[k] = s4[k] /\ s4[k] = s3[k]
      BY <1>14, <1>15, <1>16, <2>2
    <2>5. QED
      BY <2>3, <2>4
  <1>21. \A k \in 1..1 + N : s9[5 + k] = w4[k]
    <2>1. SUFFICES ASSUME NEW k \in 1..1 + N
                   PROVE  s9[5 + k] = w4[k]
      OBVIOUS
    <2>2. 5 + k \in 1..6 + N /\ 5 + k \in 1..7 + N /\ 5 + k \in 1..8 + N /\ 5 + k \in 1..9 + N + L
      BY <1>1
    <2>3. s9[5 + k] = s8[5 + k]
      BY <1>19, <2>2
    <2>4. s8[5 + k] = s6[5 + k]
      BY <1>18, <2>2
    <2>5. s6[5 + k] = s5[5 + k] /\ s5[5 + k] = s4[5 + k]
      BY <1>15, <1>16, <2>2
    <2>6. QED
      BY <1>14, <2>1, <2>3, <2>4, <2>5
  <1>22. s9[7 + N] = w5[1] /\ s9[8 + N] = w6[1]
    <2>1. /\ 7 + N \in 1..7 + N /\ 7 + N \in 1..8 + N /\ 7 + N \in 1..9 + N + L
          /\ 8 + N \in 1..8 + N /\ 8 + N \in 1..9 + N + L
      BY <1>1
    <2>2. QED
      BY <1>15, <1>16, <1>18, <1>19, <2>1
  <1>23. \A k \in 1..1 + L : s9[8 + N + k] = w8[k]
    <2>1. \A k \in 1..1 + L : 8 + N + k \in 1..9 + N + L
      BY <1>1
    <2>2. QED
      BY <1>18, <1>19, <2>1
  <1>24. /\ s9[1] = Unit("zmqPubPort", p) /\ s9[2] = Unit("zmqRepPort", p) /\ s9[3] = Header("senderId", 2)
         /\ s9[4] = Unit("typeId", TypeId[UniqueId[p]]) /\ s9[5] = Unit("instanceId", UniqueId[p])
    BY <1>11, <1>12, <1>13, <1>20
  <1>25. /\ s9[6] = Header("senderName", N)
         /\ \A k \in 1..N : s9[6 + k] = Unit("senderName", Name[p][k])
    <2>1. /\ 1 \in 1..1 + N /\ 5 + 1 = 6
          /\ \A k \in 1..N : 1 + k \in 1..1 + N /\ 5 + (1 + k) = 6 + k
      BY <1>1
    <2>2. QED
      BY <1>9, <1>21, <2>1
  <1>26. /\ s9[9 + N] = Header("additionalStateInfos", L)
         /\ \A k \in 1..L : s9[9 + N + k] = Unit("additionalStateInfos", additionalState[k])
    <2>1. /\ 1 \in 1..1 + L /\ 8 + N + 1 = 9 + N
          /\ \A k \in 1..L : 1 + k \in 1..1 + L /\ 8 + N + (1 + k) = 9 + N + k
      BY <1>1
    <2>2. QED
      BY <1>10, <1>23, <2>1
  <1>27. Layout(s9, p, state, additionalState)
    BY <1>8, <1>19, <1>22, <1>24, <1>25, <1>26 DEF Layout, N, L
  <1>28. QED
    BY <1>6, <1>7, <1>27 DEF m, N, L

(***************************************************************************)
(* What is read.                                                           *)
(***************************************************************************)
LEMMA UnitFacts ==
  ASSUME NEW field, NEW value
  PROVE  /\ Unit(field, value).field = field /\ Unit(field, value).value = value
         /\ ~IsHeader(Unit(field, value))
         /\ Header(field, value).field = field /\ Header(field, value).length = value
         /\ IsHeader(Header(field, value))
  BY DEF Unit, Header, IsHeader

\* The k-th unit of a multicast belongs to the field that stands there.
Placed(unit, k, N, L) ==
    /\ unit.field = "zmqPubPort" <=> k = 1
    /\ unit.field = "zmqRepPort" <=> k = 2
    /\ unit.field = "senderId" <=> k = 3
    /\ unit.field = "typeId" <=> k = 4
    /\ unit.field = "instanceId" <=> k = 5
    /\ unit.field = "senderName" <=> k \in 6..6 + N
    /\ unit.field = "version" <=> k = 7 + N
    /\ unit.field = "lifecycleState" <=> k = 8 + N
    /\ unit.field = "additionalStateInfos" <=> k \in 9 + N..9 + N + L
    /\ unit.field = "multicastIdentifier" <=> k = 10 + N + L
    /\ unit.field # "additionalLifecycleInfos"
    /\ IsHeader(unit) <=> k \in {3, 6, 9 + N}

\* Where the units of each field are.
LEMMA PlacesOf ==
  ASSUME NEW p \in Instances, NEW state \in ModuleStates, NEW additionalState \in Seq(Bytes), NEW b,
         Layout(b, p, state, additionalState), NEW k \in 1..10 + Len(Name[p]) + Len(additionalState)
  PROVE  Placed(b[k], k, Len(Name[p]), Len(additionalState))
  <1> DEFINE N == Len(Name[p])
             L == Len(additionalState)
  <1>1. N \in Nat /\ L \in Nat /\ k \in Nat /\ k \in 1..10 + N + L
    BY ContentsAssumption
  <1>2. /\ b[1] = Unit("zmqPubPort", p) /\ b[2] = Unit("zmqRepPort", p) /\ b[3] = Header("senderId", 2)
        /\ b[4] = Unit("typeId", TypeId[UniqueId[p]]) /\ b[5] = Unit("instanceId", UniqueId[p])
        /\ b[6] = Header("senderName", N)
        /\ \A j \in 1..N : b[6 + j] = Unit("senderName", Name[p][j])
        /\ b[7 + N] = Unit("version", Version[p])
        /\ b[8 + N] = Unit("lifecycleState", Code(state))
        /\ b[9 + N] = Header("additionalStateInfos", L)
        /\ \A j \in 1..L : b[9 + N + j] = Unit("additionalStateInfos", additionalState[j])
        /\ b[10 + N + L] = Unit("multicastIdentifier", p)
    BY ZenonT(30) DEF Layout
  <1>. HIDE DEF N, L
  <1>3. ASSUME k = 1
        PROVE  Placed(b[k], k, N, L)
    <2>1. b[k].field = "zmqPubPort" /\ ~IsHeader(b[k])
      BY <1>2, <1>3, UnitFacts
    <2>2. QED
      BY <1>1, <1>3, <2>1 DEF Placed
  <1>4. ASSUME k = 2
        PROVE  Placed(b[k], k, N, L)
    <2>1. b[k].field = "zmqRepPort" /\ ~IsHeader(b[k])
      BY <1>2, <1>4, UnitFacts
    <2>2. QED
      BY <1>1, <1>4, <2>1 DEF Placed
  <1>5. ASSUME k = 3
        PROVE  Placed(b[k], k, N, L)
    <2>1. b[k].field = "senderId" /\ IsHeader(b[k])
      BY <1>2, <1>5, UnitFacts
    <2>2. QED
      BY <1>1, <1>5, <2>1 DEF Placed
  <1>6. ASSUME k = 4
        PROVE  Placed(b[k], k, N, L)
    <2>1. b[k].field = "typeId" /\ ~IsHeader(b[k])
      BY <1>2, <1>6, UnitFacts
    <2>2. QED
      BY <1>1, <1>6, <2>1 DEF Placed
  <1>7. ASSUME k = 5
        PROVE  Placed(b[k], k, N, L)
    <2>1. b[k].field = "instanceId" /\ ~IsHeader(b[k])
      BY <1>2, <1>7, UnitFacts
    <2>2. QED
      BY <1>1, <1>7, <2>1 DEF Placed
  <1>8. ASSUME k = 6
        PROVE  Placed(b[k], k, N, L)
    <2>1. b[k].field = "senderName" /\ IsHeader(b[k])
      BY <1>2, <1>8, UnitFacts
    <2>2. QED
      BY <1>1, <1>8, <2>1 DEF Placed
  <1>9. ASSUME k \in 7..6 + N
        PROVE  Placed(b[k], k, N, L)
    <2>1. k - 6 \in 1..N /\ 6 + (k - 6) = k
      BY <1>1, <1>9
    <2>2. b[k] = Unit("senderName", Name[p][k - 6])
      BY <1>2, <2>1
    <2>3. b[k].field = "senderName" /\ ~IsHeader(b[k])
      BY <2>2, UnitFacts
    <2>5. k \in 6..6 + N /\ ~ (k <= 6) /\ ~ (k >= 7 + N)
      BY <1>1, <1>9
    <2>6. k \notin {1, 2, 3, 4, 5, 6, 7 + N, 8 + N, 9 + N, 10 + N + L} /\ k \notin 9 + N..9 + N + L
      BY <1>1, <2>5
    <2>4. QED
      BY <2>3, <2>5, <2>6 DEF Placed
  <1>10. ASSUME k = 7 + N
        PROVE  Placed(b[k], k, N, L)
    <2>1. b[k].field = "version" /\ ~IsHeader(b[k])
      BY <1>2, <1>10, UnitFacts
    <2>2. QED
      BY <1>1, <1>10, <2>1 DEF Placed
  <1>11. ASSUME k = 8 + N
        PROVE  Placed(b[k], k, N, L)
    <2>1. b[k].field = "lifecycleState" /\ ~IsHeader(b[k])
      BY <1>2, <1>11, UnitFacts
    <2>2. QED
      BY <1>1, <1>11, <2>1 DEF Placed
  <1>12. ASSUME k = 9 + N
        PROVE  Placed(b[k], k, N, L)
    <2>1. b[k].field = "additionalStateInfos" /\ IsHeader(b[k])
      BY <1>2, <1>12, UnitFacts
    <2>2. QED
      BY <1>1, <1>12, <2>1 DEF Placed
  <1>13. ASSUME k \in 10 + N..9 + N + L
        PROVE  Placed(b[k], k, N, L)
    <2>1. k - (9 + N) \in 1..L /\ 9 + N + (k - (9 + N)) = k
      BY <1>1, <1>13
    <2>2. b[k] = Unit("additionalStateInfos", additionalState[k - (9 + N)])
      BY <1>2, <2>1
    <2>3. PICK v : b[k] = Unit("additionalStateInfos", v)
      BY <2>2
    <2>4. b[k].field = "additionalStateInfos" /\ ~IsHeader(b[k])
      BY <2>3, UnitFacts
    <2>5. QED
      BY <1>1, <1>13, <2>4 DEF Placed
  <1>14. ASSUME k = 10 + N + L
        PROVE  Placed(b[k], k, N, L)
    <2>1. b[k].field = "multicastIdentifier" /\ ~IsHeader(b[k])
      BY <1>2, <1>14, UnitFacts
    <2>2. QED
      BY <1>1, <1>14, <2>1 DEF Placed
  <1>15. \/ k = 1 \/ k = 2 \/ k = 3 \/ k = 4 \/ k = 5 \/ k = 6 \/ k \in 7..6 + N \/ k = 7 + N
         \/ k = 8 + N \/ k = 9 + N \/ k \in 10 + N..9 + N + L \/ k = 10 + N + L
    BY <1>1
  <1>16. QED
    BY <1>3, <1>4, <1>5, <1>6, <1>7, <1>8, <1>9, <1>10, <1>11, <1>12, <1>13, <1>14, <1>15 DEF N, L

\* The beginning of a written multicast.
CutAt(d, c, p, state, additionalState) ==
    /\ d \in Seq(Units) /\ Len(d) = c /\ DOMAIN d = 1..c
    /\ \E b : /\ Layout(b, p, state, additionalState)
              /\ \A k \in 1..c : d[k] = b[k]

\* A number is read as it was written.
LEMMA ReadNumberAt ==
  ASSUME NEW d, NEW field, NEW n \in DOMAIN d, \A k \in DOMAIN d : d[k].field = field <=> k = n,
         NEW value, d[n] = Unit(field, value)
  PROVE  ReadNumber(d, field) = value
  <1>1. (CHOOSE k \in DOMAIN d : d[k].field = field) = n
    OBVIOUS
  <1>2. QED
    BY <1>1, UnitFacts DEF ReadNumber

\* The first n elements of a string; how many of its length there are behind place h of c.
Beginning(value, n) == [k \in 1..n |-> value[k]]
There(length, c, h) == IF length <= c - h THEN length ELSE c - h

\* The header and what there is of a string, at place h.
StringAt(d, c, field, h, value) ==
    /\ DOMAIN d = 1..c /\ Len(d) = c /\ h \in 1..c
    /\ \A k \in 1..c : d[k].field = field /\ IsHeader(d[k]) <=> k = h
    /\ d[h] = Header(field, Len(value))
    /\ \A k \in 1..Len(value) : h + k <= c => d[h + k] = Unit(field, value[k])

\* A string is read as far as it is there.
LEMMA ReadStringAt ==
  ASSUME NEW d, NEW c \in Nat, NEW field, NEW h, NEW value \in Seq(Bytes), StringAt(d, c, field, h, value)
  PROVE  ReadString(d, field) = Beginning(value, There(Len(value), c, h))
  <1> DEFINE r == There(Len(value), c, h)
             header == CHOOSE k \in DOMAIN d : d[k].field = field /\ IsHeader(d[k])
  <1>1. header = h
    BY DEF StringAt
  <1>2. d[h].length = Len(value) /\ Len(value) \in Nat /\ h \in 1..c /\ Len(d) = c
    BY UnitFacts DEF StringAt
  <1>3. Min({d[h].length, Len(d) - h}) = r
    <2>1. Min({Len(value), c - h}) = r
      BY <1>2 DEF Min, There
    <2>2. QED
      BY <1>2, <2>1
  <1>. HIDE DEF r
  <1>4. ReadString(d, field) = [k \in 1..r |-> d[h + k].value]
    <2>1. ReadString(d, field)
              = [k \in 1..Min({d[header].length, Len(d) - header}) |-> d[header + k].value]
      BY DEF ReadString
    <2>. HIDE DEF header
    <2>2. QED
      BY <1>1, <1>3, <2>1
  <1>5. \A k \in 1..r : d[h + k].value = value[k]
    <2>1. \A k \in 1..r : k \in 1..Len(value) /\ h + k <= c
      BY <1>2 DEF There, r
    <2>2. QED
      BY <2>1, UnitFacts DEF StringAt
  <1>6. QED
    BY <1>4, <1>5 DEF Beginning, r

\* The fields by name.
LEMMA FieldsByName ==
  /\ ToSet(Fields) = {"zmqPubPort", "zmqRepPort", "senderId", "senderName", "version", "lifecycleState",
                      "additionalLifecycleInfos", "additionalStateInfos", "multicastIdentifier"}
  /\ ToSet(SenderIdFields) = {"typeId", "instanceId"}
  <1>1. DOMAIN Fields = 1..9 /\ DOMAIN SenderIdFields = 1..2
    BY DEF Fields, SenderIdFields
  <1>2. 1..9 = {1, 2, 3, 4, 5, 6, 7, 8, 9} /\ 1..2 = {1, 2}
    OBVIOUS
  <1>3. /\ Fields[1] = "zmqPubPort" /\ Fields[2] = "zmqRepPort" /\ Fields[3] = "senderId"
        /\ Fields[4] = "senderName" /\ Fields[5] = "version" /\ Fields[6] = "lifecycleState"
        /\ Fields[7] = "additionalLifecycleInfos" /\ Fields[8] = "additionalStateInfos"
        /\ Fields[9] = "multicastIdentifier"
        /\ SenderIdFields[1] = "typeId" /\ SenderIdFields[2] = "instanceId"
    BY DEF Fields, SenderIdFields
  <1>4. QED
    BY <1>1, <1>2, <1>3 DEF ToSet

\* What is read of a multicast of which the first c units arrived.
Read(m, c, p, state, additionalState) ==
    LET N == Len(Name[p])
        L == Len(additionalState)
    IN  /\ m = [f \in DOMAIN m |-> m[f]] /\ DOMAIN m \subseteq ToSet(Fields)
        /\ Has(m, "zmqPubPort") /\ m["zmqPubPort"] = p
        /\ Has(m, "zmqRepPort") /\ m["zmqRepPort"] = p
        /\ Has(m, "senderId")
        /\ m["senderId"] = [typeId |-> TypeId[UniqueId[p]], instanceId |-> UniqueId[p]]
        /\ Has(m, "senderName") <=> c >= 6
        /\ c >= 6 => m["senderName"] = Beginning(Name[p], There(N, c, 6))
        /\ Has(m, "version") <=> c >= 7 + N
        /\ c >= 7 + N => m["version"] = Version[p]
        /\ Has(m, "lifecycleState") <=> c >= 8 + N
        /\ c >= 8 + N => m["lifecycleState"] = Code(state)
        /\ ~Has(m, "additionalLifecycleInfos")
        /\ Has(m, "additionalStateInfos") <=> c >= 9 + N
        /\ c >= 9 + N => m["additionalStateInfos"] = Beginning(additionalState, There(L, c, 9 + N))
        /\ Has(m, "multicastIdentifier") <=> c >= 10 + N + L
        /\ c >= 10 + N + L => m["multicastIdentifier"] = p

\* The beginning of a multicast is read that far.
LEMMA ParsedFacts ==
  ASSUME NEW p \in Instances, NEW state \in ModuleStates, NEW additionalState \in Seq(Bytes), NEW d,
         NEW c \in Nat, c >= 5, c <= 10 + Len(Name[p]) + Len(additionalState),
         CutAt(d, c, p, state, additionalState)
  PROVE  Read(ParsePartial(d), c, p, state, additionalState)
  <1> DEFINE N == Len(Name[p])
             L == Len(additionalState)
             m == ParsePartial(d)
  <1>1. PICK b : Layout(b, p, state, additionalState) /\ \A k \in 1..c : d[k] = b[k]
    BY DEF CutAt
  <1>2. N \in Nat /\ L \in Nat /\ c <= 10 + N + L /\ Name[p] \in Seq(Bytes)
    BY ContentsAssumption
  <1>3. Len(d) = c /\ DOMAIN d = 1..c
    BY DEF CutAt
  <1>4. /\ b[1] = Unit("zmqPubPort", p) /\ b[2] = Unit("zmqRepPort", p) /\ b[3] = Header("senderId", 2)
        /\ b[4] = Unit("typeId", TypeId[UniqueId[p]]) /\ b[5] = Unit("instanceId", UniqueId[p])
        /\ b[6] = Header("senderName", N)
        /\ \A j \in 1..N : b[6 + j] = Unit("senderName", Name[p][j])
        /\ b[7 + N] = Unit("version", Version[p])
        /\ b[8 + N] = Unit("lifecycleState", Code(state))
        /\ b[9 + N] = Header("additionalStateInfos", L)
        /\ \A j \in 1..L : b[9 + N + j] = Unit("additionalStateInfos", additionalState[j])
        /\ b[10 + N + L] = Unit("multicastIdentifier", p)
    BY <1>1, ZenonT(30) DEF Layout
  <1>. HIDE DEF N, L
  <1>5. \A k \in 1..c : Placed(d[k], k, N, L)
    <2>1. SUFFICES ASSUME NEW k \in 1..c
                   PROVE  Placed(d[k], k, N, L)
      OBVIOUS
    <2>2. k \in 1..10 + Len(Name[p]) + Len(additionalState)
      BY <1>2 DEF N, L
    <2>3. d[k] = b[k] /\ Layout(b, p, state, additionalState)
      BY <1>1
    <2>4. Placed(b[k], k, Len(Name[p]), Len(additionalState))
      BY <2>2, <2>3, PlacesOf
    <2>5. QED
      BY <2>3, <2>4 DEF N, L
  <1>6. /\ d[1] = Unit("zmqPubPort", p) /\ d[2] = Unit("zmqRepPort", p)
        /\ d[4] = Unit("typeId", TypeId[UniqueId[p]]) /\ d[5] = Unit("instanceId", UniqueId[p])
        /\ c >= 6 => d[6] = Header("senderName", N)
        /\ c >= 7 + N => d[7 + N] = Unit("version", Version[p])
        /\ c >= 8 + N => d[8 + N] = Unit("lifecycleState", Code(state))
        /\ c >= 9 + N => d[9 + N] = Header("additionalStateInfos", L)
        /\ c >= 10 + N + L => d[10 + N + L] = Unit("multicastIdentifier", p)
    BY <1>1, <1>2, <1>4, SMTT(30)
  <1>7. DOMAIN m = {f \in ToSet(Fields) : \E k \in 1..c : d[k].field = f}
    BY <1>3 DEF ParsePartial, Begun
  <1>8. m = [f \in DOMAIN m |-> m[f]] /\ DOMAIN m \subseteq ToSet(Fields)
    BY <1>7 DEF ParsePartial
  <1>9. \A f \in DOMAIN m : m[f] = CASE f \in Strings -> ReadString(d, f)
                                     [] f = "senderId" -> ReadSenderId(d)
                                     [] OTHER -> ReadNumber(d, f)
    BY DEF ParsePartial
  <1>10. /\ 1 \in 1..c /\ 2 \in 1..c /\ 3 \in 1..c /\ 4 \in 1..c /\ 5 \in 1..c
         /\ 6 \in 1..c <=> c >= 6
         /\ 7 + N \in 1..c <=> c >= 7 + N
         /\ 8 + N \in 1..c <=> c >= 8 + N
         /\ 9 + N \in 1..c <=> c >= 9 + N
         /\ 10 + N + L \in 1..c <=> c >= 10 + N + L
    BY <1>2
  <1>. HIDE DEF m
  <1>11. /\ Has(m, "zmqPubPort") /\ Has(m, "zmqRepPort") /\ Has(m, "senderId")
         /\ ~Has(m, "additionalLifecycleInfos")
    <2>1. d[1].field = "zmqPubPort" /\ d[2].field = "zmqRepPort" /\ d[3].field = "senderId"
      BY <1>5, <1>10 DEF Placed
    <2>2. \A k \in 1..c : d[k].field # "additionalLifecycleInfos"
      BY <1>5 DEF Placed
    <2>3. "zmqPubPort" \in ToSet(Fields) /\ "zmqRepPort" \in ToSet(Fields) /\ "senderId" \in ToSet(Fields)
      BY FieldsByName
    <2>4. QED
      BY <1>7, <1>10, <2>1, <2>2, <2>3 DEF Has
  <1>12. Has(m, "senderName") <=> c >= 6
    <2>1. "senderName" \in ToSet(Fields)
      BY FieldsByName
    <2>2. (\E k \in 1..c : k \in 6..6 + N) <=> c >= 6
      <3>1. ASSUME c >= 6
            PROVE  6 \in 1..c /\ 6 \in 6..6 + N
        BY <1>2, <3>1
      <3>2. QED
        BY <1>2, <3>1
    <2>3. QED
      BY <1>5, <1>7, <2>1, <2>2 DEF Placed, Has
  <1>13. Has(m, "additionalStateInfos") <=> c >= 9 + N
    <2>1. "additionalStateInfos" \in ToSet(Fields)
      BY FieldsByName
    <2>2. (\E k \in 1..c : k \in 9 + N..9 + N + L) <=> c >= 9 + N
      <3>1. ASSUME c >= 9 + N
            PROVE  9 + N \in 1..c /\ 9 + N \in 9 + N..9 + N + L
        BY <1>2, <3>1
      <3>2. ASSUME NEW k \in 1..c, k \in 9 + N..9 + N + L
            PROVE  c >= 9 + N
        BY <1>2, <3>2
      <3>3. QED
        BY <3>1, <3>2
    <2>3. QED
      BY <1>5, <1>7, <2>1, <2>2 DEF Placed, Has
  <1>14. /\ Has(m, "version") <=> c >= 7 + N
         /\ Has(m, "lifecycleState") <=> c >= 8 + N
         /\ Has(m, "multicastIdentifier") <=> c >= 10 + N + L
    <2>1. "version" \in ToSet(Fields) /\ "lifecycleState" \in ToSet(Fields) /\ "multicastIdentifier" \in ToSet(Fields)
      BY FieldsByName
    <2>2. (\E k \in 1..c : d[k].field = "version") <=> c >= 7 + N
      <3>1. \A k \in 1..c : d[k].field = "version" <=> k = 7 + N
        BY <1>5 DEF Placed
      <3>2. 7 + N \in 1..c <=> c >= 7 + N
        BY <1>10
      <3>3. QED
        BY <3>1, <3>2
    <2>3. (\E k \in 1..c : d[k].field = "lifecycleState") <=> c >= 8 + N
      <3>1. \A k \in 1..c : d[k].field = "lifecycleState" <=> k = 8 + N
        BY <1>5 DEF Placed
      <3>2. 8 + N \in 1..c <=> c >= 8 + N
        BY <1>10
      <3>3. QED
        BY <3>1, <3>2
    <2>4. (\E k \in 1..c : d[k].field = "multicastIdentifier") <=> c >= 10 + N + L
      <3>1. \A k \in 1..c : d[k].field = "multicastIdentifier" <=> k = 10 + N + L
        BY <1>5 DEF Placed
      <3>2. 10 + N + L \in 1..c <=> c >= 10 + N + L
        BY <1>10
      <3>3. QED
        BY <3>1, <3>2
    <2>5. QED
      BY <1>7, <2>1, <2>2, <2>3, <2>4 DEF Has
  <1>15. m["zmqPubPort"] = p /\ m["zmqRepPort"] = p
    <2>1. ReadNumber(d, "zmqPubPort") = p
      <3>1. 1 \in DOMAIN d /\ \A k \in DOMAIN d : d[k].field = "zmqPubPort" <=> k = 1
        BY <1>3, <1>5, <1>10 DEF Placed
      <3>2. d[1] = Unit("zmqPubPort", p)
        BY <1>6
      <3>3. QED
        BY <3>1, <3>2, ReadNumberAt
    <2>2. ReadNumber(d, "zmqRepPort") = p
      <3>1. 2 \in DOMAIN d /\ \A k \in DOMAIN d : d[k].field = "zmqRepPort" <=> k = 2
        BY <1>3, <1>5, <1>10 DEF Placed
      <3>2. d[2] = Unit("zmqRepPort", p)
        BY <1>6
      <3>3. QED
        BY <3>1, <3>2, ReadNumberAt
    <2>3. QED
      BY <1>9, <1>11, <2>1, <2>2 DEF Has, Strings
  <1>16. m["senderId"] = [typeId |-> TypeId[UniqueId[p]], instanceId |-> UniqueId[p]]
    <2>1. ReadNumber(d, "typeId") = TypeId[UniqueId[p]]
      <3>1. 4 \in DOMAIN d /\ \A k \in DOMAIN d : d[k].field = "typeId" <=> k = 4
        BY <1>3, <1>5, <1>10 DEF Placed
      <3>2. d[4] = Unit("typeId", TypeId[UniqueId[p]])
        BY <1>6
      <3>3. QED
        BY <3>1, <3>2, ReadNumberAt
    <2>2. ReadNumber(d, "instanceId") = UniqueId[p]
      <3>1. 5 \in DOMAIN d /\ \A k \in DOMAIN d : d[k].field = "instanceId" <=> k = 5
        BY <1>3, <1>5, <1>10 DEF Placed
      <3>2. d[5] = Unit("instanceId", UniqueId[p])
        BY <1>6
      <3>3. QED
        BY <3>1, <3>2, ReadNumberAt
    <2>3. Begun(d, SenderIdFields) = {"typeId", "instanceId"}
      <3>1. d[4].field = "typeId" /\ d[5].field = "instanceId" /\ 4 \in DOMAIN d /\ 5 \in DOMAIN d
        BY <1>3, <1>6, <1>10, UnitFacts
      <3>2. QED
        BY <3>1, FieldsByName DEF Begun
    <2>4. ReadSenderId(d) = [typeId |-> TypeId[UniqueId[p]], instanceId |-> UniqueId[p]]
      BY <2>1, <2>2, <2>3 DEF ReadSenderId
    <2>5. QED
      BY <1>9, <1>11, <2>4 DEF Has, Strings
  <1>17. ASSUME c >= 6
         PROVE  m["senderName"] = Beginning(Name[p], There(N, c, 6))
    <2>1. 6 \in 1..c
      BY <1>10, <1>17
    <2>2. \A k \in 1..c : d[k].field = "senderName" /\ IsHeader(d[k]) <=> k = 6
      <3>1. SUFFICES ASSUME NEW k \in 1..c
                     PROVE  d[k].field = "senderName" /\ IsHeader(d[k]) <=> k = 6
        OBVIOUS
      <3>2. /\ d[k].field = "senderName" <=> k \in 6..6 + N
            /\ IsHeader(d[k]) <=> k \in {3, 6, 9 + N}
        BY <1>5 DEF Placed
      <3>3. k \in 6..6 + N /\ k \in {3, 6, 9 + N} <=> k = 6
        BY <1>2
      <3>4. QED
        BY <3>2, <3>3
    <2>3. d[6] = Header("senderName", Len(Name[p]))
      BY <1>6, <1>17 DEF N
    <2>4. \A k \in 1..Len(Name[p]) : 6 + k <= c => d[6 + k] = Unit("senderName", Name[p][k])
      BY <1>1, <1>2, <1>4 DEF N
    <2>5. StringAt(d, c, "senderName", 6, Name[p])
      BY <1>3, <2>1, <2>2, <2>3, <2>4 DEF StringAt
    <2>6. ReadString(d, "senderName") = Beginning(Name[p], There(Len(Name[p]), c, 6))
      BY <1>2, <2>5, ReadStringAt
    <2>7. QED
      BY <1>9, <1>12, <1>17, <2>6 DEF Has, Strings, N
  <1>18. ASSUME c >= 9 + N
         PROVE  m["additionalStateInfos"] = Beginning(additionalState, There(L, c, 9 + N))
    <2>1. 9 + N \in 1..c
      BY <1>10, <1>18
    <2>2. \A k \in 1..c : d[k].field = "additionalStateInfos" /\ IsHeader(d[k]) <=> k = 9 + N
      <3>1. SUFFICES ASSUME NEW k \in 1..c
                     PROVE  d[k].field = "additionalStateInfos" /\ IsHeader(d[k]) <=> k = 9 + N
        OBVIOUS
      <3>2. /\ d[k].field = "additionalStateInfos" <=> k \in 9 + N..9 + N + L
            /\ IsHeader(d[k]) <=> k \in {3, 6, 9 + N}
        BY <1>5 DEF Placed
      <3>3. k \in 9 + N..9 + N + L /\ k \in {3, 6, 9 + N} <=> k = 9 + N
        BY <1>2
      <3>4. QED
        BY <3>2, <3>3
    <2>3. d[9 + N] = Header("additionalStateInfos", Len(additionalState))
      BY <1>6, <1>18 DEF L
    <2>4. \A k \in 1..Len(additionalState) :
              9 + N + k <= c => d[9 + N + k] = Unit("additionalStateInfos", additionalState[k])
      BY <1>1, <1>2, <1>4 DEF L
    <2>5. StringAt(d, c, "additionalStateInfos", 9 + N, additionalState)
      BY <1>3, <2>1, <2>2, <2>3, <2>4 DEF StringAt
    <2>6. ReadString(d, "additionalStateInfos") = Beginning(additionalState, There(Len(additionalState), c, 9 + N))
      BY <1>2, <2>5, ReadStringAt
    <2>7. QED
      BY <1>9, <1>13, <1>18, <2>6 DEF Has, Strings, L
  <1>19. c >= 7 + N => m["version"] = Version[p]
    <2>1. SUFFICES ASSUME c >= 7 + N PROVE m["version"] = Version[p]
      OBVIOUS
    <2>2. 7 + N \in DOMAIN d /\ \A k \in DOMAIN d : d[k].field = "version" <=> k = 7 + N
      BY <1>3, <1>5, <1>10, <2>1 DEF Placed
    <2>3. d[7 + N] = Unit("version", Version[p])
      BY <1>6, <2>1
    <2>4. ReadNumber(d, "version") = Version[p]
      BY <2>2, <2>3, ReadNumberAt
    <2>5. QED
      BY <1>9, <1>14, <2>1, <2>4 DEF Has, Strings
  <1>20. c >= 8 + N => m["lifecycleState"] = Code(state)
    <2>1. SUFFICES ASSUME c >= 8 + N PROVE m["lifecycleState"] = Code(state)
      OBVIOUS
    <2>2. 8 + N \in DOMAIN d /\ \A k \in DOMAIN d : d[k].field = "lifecycleState" <=> k = 8 + N
      BY <1>3, <1>5, <1>10, <2>1 DEF Placed
    <2>3. d[8 + N] = Unit("lifecycleState", Code(state))
      BY <1>6, <2>1
    <2>4. ReadNumber(d, "lifecycleState") = Code(state)
      BY <2>2, <2>3, ReadNumberAt
    <2>5. QED
      BY <1>9, <1>14, <2>1, <2>4 DEF Has, Strings
  <1>21. c >= 10 + N + L => m["multicastIdentifier"] = p
    <2>1. SUFFICES ASSUME c >= 10 + N + L PROVE m["multicastIdentifier"] = p
      OBVIOUS
    <2>2. 10 + N + L \in DOMAIN d /\ \A k \in DOMAIN d : d[k].field = "multicastIdentifier" <=> k = 10 + N + L
      BY <1>3, <1>5, <1>10, <2>1 DEF Placed
    <2>3. d[10 + N + L] = Unit("multicastIdentifier", p)
      BY <1>6, <2>1
    <2>4. ReadNumber(d, "multicastIdentifier") = p
      BY <2>2, <2>3, ReadNumberAt
    <2>5. QED
      BY <1>9, <1>14, <2>1, <2>4 DEF Has, Strings
  <1>22. Read(m, c, p, state, additionalState)
    BY <1>8, <1>11, <1>12, <1>13, <1>14, <1>15, <1>16, <1>17, <1>18, <1>19, <1>20, <1>21, Zenon DEF Read, N, L
  <1>23. QED
    BY <1>22 DEF m

\* A message is copied as it is.
LEMMA CopyIsSame ==
  ASSUME NEW m, m = [f \in DOMAIN m |-> m[f]]
  PROVE  Copy(m) = m
  <1>1. DOMAIN EmptyMessage = {} /\ ~Has(EmptyMessage, "senderId")
    BY DEF EmptyMessage, Has
  <1>2. Copy(m) = Overlay(EmptyMessage, m)
    BY <1>1 DEF Copy, MergeFrom
  <1>3. Overlay(EmptyMessage, m) = [f \in DOMAIN m |-> IF Has(m, f) THEN m[f] ELSE EmptyMessage[f]]
    BY <1>1 DEF Overlay
  <1>4. \A f \in DOMAIN m : Has(m, f)
    BY DEF Has
  <1>5. [f \in DOMAIN m |-> IF Has(m, f) THEN m[f] ELSE EmptyMessage[f]] = [f \in DOMAIN m |-> m[f]]
    BY <1>4
  <1>6. QED
    BY <1>2, <1>3, <1>5

\* How many units of a multicast are received.
Arrived(p, additionalState) ==
    LET size == 10 + Len(Name[p]) + Len(additionalState)
    IN  IF BufferSize <= size THEN BufferSize ELSE size

\* It is all of it exactly if the multicast fits the buffer.
LEMMA ArrivedFacts ==
  ASSUME NEW p \in Instances, NEW state \in ModuleStates, NEW additionalState \in Seq(Bytes)
  PROVE  LET c == Arrived(p, additionalState)
             size == 10 + Len(Name[p]) + Len(additionalState)
         IN  /\ size \in Nat /\ c \in Nat /\ c >= 5 /\ c <= size
             /\ Fits(Message(p, state, additionalState)) <=> c = size
  <1>1. Len(Name[p]) \in Nat /\ Len(additionalState) \in Nat
    BY ContentsAssumption
  <1>2. ByteSize(Message(p, state, additionalState)) = 10 + Len(Name[p]) + Len(additionalState)
    BY SerializeLayout
  <1>3. BufferSize \in Nat /\ BufferSize >= 5
    BY SizesAssumption
  <1>4. QED
    BY <1>1, <1>2, <1>3 DEF Arrived, Fits

\* A datagram is the beginning of what was written.
LEMMA DatagramIsCut ==
  ASSUME NEW p \in Instances, NEW state \in ModuleStates, NEW additionalState \in Seq(Bytes)
  PROVE  CutAt(Datagram(Message(p, state, additionalState)), Arrived(p, additionalState),
               p, state, additionalState)
  <1> DEFINE b == Serialize(Message(p, state, additionalState))
             c == Arrived(p, additionalState)
  <1>1. Layout(b, p, state, additionalState)
    BY SerializeLayout
  <1>2. b \in Seq(Units) /\ Len(b) = 10 + Len(Name[p]) + Len(additionalState)
    BY <1>1 DEF Layout
  <1>3. c \in Nat /\ c <= Len(b) /\ c >= 5
    BY <1>2, ArrivedFacts
  <1>4. Min({BufferSize, Len(b)}) = c
    BY <1>2, SizesAssumption DEF Min, Arrived
  <1>5. Datagram(Message(p, state, additionalState)) = SubSeq(b, 1, c)
    BY <1>4 DEF Datagram
  <1>. HIDE DEF b, c
  <1>6. \A i \in 1..c : b[i] \in Units
    BY <1>2, <1>3
  <1>7. /\ SubSeq(b, 1, c) \in Seq(Units) /\ Len(SubSeq(b, 1, c)) = c
        /\ \A k \in 1..c : SubSeq(b, 1, c)[k] = b[k]
    BY <1>3, <1>6, SubSeqProperties
  <1>8. DOMAIN SubSeq(b, 1, c) = 1..c
    BY <1>7
  <1>9. CutAt(SubSeq(b, 1, c), c, p, state, additionalState)
    BY <1>1, <1>7, <1>8 DEF CutAt
  <1>10. QED
    BY <1>5, <1>9 DEF c

\* What is passed on of a multicast is what there was to read.
LEMMA BroadcastRead ==
  ASSUME NEW p \in Instances, NEW state \in ModuleStates, NEW additionalState \in Seq(Bytes)
  PROVE  Read(Copy(ParsePartial(Datagram(Message(p, state, additionalState)))),
              Arrived(p, additionalState), p, state, additionalState)
  <1> DEFINE d == Datagram(Message(p, state, additionalState))
             c == Arrived(p, additionalState)
  <1>1. CutAt(d, c, p, state, additionalState)
    BY DatagramIsCut
  <1>2. c \in Nat /\ c >= 5 /\ c <= 10 + Len(Name[p]) + Len(additionalState)
    BY ArrivedFacts
  <1>. HIDE DEF d, c
  <1>3. Read(ParsePartial(d), c, p, state, additionalState)
    BY <1>1, <1>2, ParsedFacts
  <1>4. ParsePartial(d) = [f \in DOMAIN ParsePartial(d) |-> ParsePartial(d)[f]]
    BY <1>3 DEF Read
  <1>5. Copy(ParsePartial(d)) = ParsePartial(d)
    BY <1>4, CopyIsSame
  <1>6. QED
    BY <1>3, <1>5 DEF d, c

\* A beginning is a prefix, and all of it the string itself.
LEMMA BeginningFacts ==
  ASSUME NEW value \in Seq(Bytes), NEW n \in Nat, n <= Len(value)
  PROVE  /\ Beginning(value, n) \in Seq(Bytes) /\ IsPrefix(Beginning(value, n), value)
         /\ n = Len(value) => Beginning(value, n) = value
  <1>1. \A k \in 1..n : value[k] \in Bytes
    OBVIOUS
  <1>2. Beginning(value, n) \in [1..n -> Bytes]
    BY <1>1 DEF Beginning
  <1>3. Beginning(value, n) \in Seq(Bytes) /\ Len(Beginning(value, n)) = n
    BY <1>2
  <1>4. \A k \in 1..n : Beginning(value, n)[k] = value[k]
    BY DEF Beginning
  <1>5. SubSeq(Beginning(value, n), 1, n) = Beginning(value, n)
    BY <1>3, SubSeqFull
  <1>6. SubSeq(value, 1, n) = Beginning(value, n)
    <2>1. /\ SubSeq(value, 1, n) \in Seq(Bytes) /\ Len(SubSeq(value, 1, n)) = n
          /\ \A k \in 1..n : SubSeq(value, 1, n)[k] = value[k]
      BY <1>1, SubSeqProperties
    <2>2. \A k \in 1..n : SubSeq(value, 1, n)[k] = Beginning(value, n)[k]
      BY <1>4, <2>1
    <2>. HIDE DEF Beginning
    <2>3. QED
      BY <1>3, <2>1, <2>2, SeqEqual
  <1>7. IsPrefix(Beginning(value, n), value)
    BY <1>3, <1>5, <1>6 DEF IsPrefix
  <1>8. ASSUME n = Len(value)
        PROVE  Beginning(value, n) = value
    BY <1>6, <1>8, SubSeqFull
  <1>9. QED
    BY <1>3, <1>7, <1>8

\* A state is found by its code, and Dead is the default.
LEMMA Codes ==
  /\ \A state \in ModuleStates : Code(state) \in Nat /\ StateOfCode(Code(state)) = state
  /\ StateOfCode(0) = "Dead"
  <1>1. Code("Dead") = 0 /\ Code("Inactive") = 1 /\ Code("Active") = 2
    BY DEF Code
  <1>2. \A s, t \in ModuleStates : Code(s) = Code(t) => s = t
    BY <1>1 DEF ModuleStates
  <1>3. \A s \in ModuleStates : StateOfCode(Code(s)) = s
    <2>1. SUFFICES ASSUME NEW s \in ModuleStates
                   PROVE  StateOfCode(Code(s)) = s
      OBVIOUS
    <2>2. (CHOOSE t \in ModuleStates : Code(t) = Code(s)) = s
      BY <1>2
    <2>3. QED
      BY <2>2 DEF StateOfCode
  <1>4. StateOfCode(0) = "Dead"
    BY <1>1, <1>3 DEF ModuleStates
  <1>5. QED
    BY <1>1, <1>3 DEF ModuleStates

(***************************************************************************)
(* The inductive invariant.                                                *)
(***************************************************************************)
\* The multicast at hand was announced, and was read.
InHand ==
    /\ incoming = [from |-> incoming.from, state |-> incoming.state, additional |-> incoming.additional]
    /\ incoming.from \in Instances /\ incoming.state \in ModuleStates /\ incoming.additional \in Seq(Bytes)
    /\ <<incoming.state, incoming.additional>> \in Announced[incoming.from]
    /\ broadcast = Copy(ParsePartial(Datagram(Original)))

\* An instance with this id announced this state and this additional state together.
Together(id, state, additionalState) ==
    \E q \in {r \in Instances : UniqueId[r] = id} : \E pair \in Announced[q] :
        /\ pair[1] = state
        /\ IF Fits(Message(q, pair[1], pair[2]))
           THEN additionalState = pair[2]
           ELSE IsPrefix(additionalState, pair[2])

\* Between the two steps of an update the additional state is new and the state is old.
SInv ==
    /\ thread \in {"loop", "process", "update"}
    /\ thread = "loop" => incoming = Nothing /\ broadcast = EmptyMessage
    /\ thread # "loop" => InHand
    /\ thread = "update" => ~Ignored /\ PeerState # "Dead" /\ Known /\ additional[PeerId] = AdditionalState
    /\ RegistryOK(registry)
    /\ IsMap(additional, Ids, Seq(Bytes)) /\ DOMAIN additional = DOMAIN registry.states
    /\ \A h \in registry.all.peers :
           \/ thread = "update" /\ UniqueId[h] = PeerId
           \/ Together(UniqueId[h], registry.states[UniqueId[h]], additional[UniqueId[h]])

\* The multicast at hand was read as far as it arrived.
LEMMA ReadInHand ==
  ASSUME InHand
  PROVE  LET p == incoming.from
             a == incoming.additional
             c == Arrived(p, a)
         IN  /\ p \in Instances /\ incoming.state \in ModuleStates /\ a \in Seq(Bytes)
             /\ <<incoming.state, a>> \in Announced[p]
             /\ Name[p] \in Seq(Bytes) /\ Len(Name[p]) \in Nat /\ Len(a) \in Nat
             /\ c \in Nat /\ c >= 5 /\ c <= 10 + Len(Name[p]) + Len(a)
             /\ Fits(Message(p, incoming.state, a)) <=> c = 10 + Len(Name[p]) + Len(a)
             /\ Read(broadcast, c, p, incoming.state, a)
  <1> DEFINE p == incoming.from
             state == incoming.state
             a == incoming.additional
             c == Arrived(p, a)
             N == Len(Name[p])
             L == Len(a)
  <1>1. p \in Instances /\ state \in ModuleStates /\ a \in Seq(Bytes) /\ <<state, a>> \in Announced[p]
    BY DEF InHand
  <1>2. Read(broadcast, c, p, state, a)
    <2>1. Read(Copy(ParsePartial(Datagram(Message(p, state, a)))), c, p, state, a)
      BY <1>1, BroadcastRead
    <2>2. QED
      BY <2>1 DEF InHand, Original
  <1>3. /\ Name[p] \in Seq(Bytes) /\ N \in Nat /\ L \in Nat /\ c \in Nat /\ c >= 5 /\ c <= 10 + N + L
        /\ Fits(Message(p, state, a)) <=> c = 10 + N + L
    <2>. HIDE DEF p, state, a
    <2>1. Name[p] \in Seq(Bytes)
      BY <1>1, ContentsAssumption
    <2>2. N \in Nat /\ L \in Nat
      BY <1>1, <2>1
    <2>3. /\ c \in Nat /\ c >= 5 /\ c <= 10 + N + L
          /\ Fits(Message(p, state, a)) <=> c = 10 + N + L
      BY <1>1, ArrivedFacts
    <2>4. QED
      BY <2>1, <2>2, <2>3
  <1>4. QED
    BY <1>1, <1>2, <1>3

\* What the handlers take from the multicast at hand.
LEMMA HeardFacts ==
  ASSUME InHand
  PROVE  /\ PeerId = UniqueId[incoming.from] /\ PeerId \in Ids
         /\ Handle = incoming.from /\ Handle \in Instances
         /\ PeerState \in ModuleStates
         /\ AdditionalState \in Seq(Bytes)
         /\ PeerState # "Dead" => Together(PeerId, PeerState, AdditionalState)
  <1> DEFINE p == incoming.from
             state == incoming.state
             a == incoming.additional
             c == Arrived(p, a)
             N == Len(Name[p])
             L == Len(a)
  <1>1. p \in Instances /\ state \in ModuleStates /\ a \in Seq(Bytes) /\ <<state, a>> \in Announced[p]
    BY DEF InHand
  <1>2. /\ Read(broadcast, c, p, state, a) /\ N \in Nat /\ L \in Nat
        /\ c \in Nat /\ c >= 5 /\ c <= 10 + N + L
        /\ Fits(Message(p, state, a)) <=> c = 10 + N + L
    BY ReadInHand
  <1>. HIDE DEF p, state, a, c
  <1>4. /\ Has(broadcast, "senderId")
        /\ broadcast["senderId"] = [typeId |-> TypeId[UniqueId[p]], instanceId |-> UniqueId[p]]
        /\ Has(broadcast, "zmqPubPort") /\ broadcast["zmqPubPort"] = p
    BY <1>2, Zenon DEF Read
  <1>5. /\ Has(broadcast, "lifecycleState") <=> c >= 8 + N
        /\ c >= 8 + N => broadcast["lifecycleState"] = Code(state)
        /\ Has(broadcast, "additionalStateInfos") <=> c >= 9 + N
        /\ c >= 9 + N => broadcast["additionalStateInfos"] = Beginning(a, There(L, c, 9 + N))
    BY <1>2, Zenon DEF Read
  <1>. HIDE DEF N, L
  <1>6. PeerId = UniqueId[p] /\ PeerId \in Ids
    <2>1. Field(broadcast, "senderId") = [typeId |-> TypeId[UniqueId[p]], instanceId |-> UniqueId[p]]
      BY <1>4 DEF Field
    <2>2. Field([typeId |-> TypeId[UniqueId[p]], instanceId |-> UniqueId[p]], "instanceId") = UniqueId[p]
      BY DEF Field, Has
    <2>3. QED
      BY <1>1, <2>1, <2>2 DEF PeerId
  <1>7. Handle = p
    BY <1>4 DEF Handle, Field
  <1>8. PeerState = IF c >= 8 + N THEN state ELSE "Dead"
    <2>1. CASE c >= 8 + N
      <3>1. Field(broadcast, "lifecycleState") = Code(state)
        BY <1>5, <2>1 DEF Field
      <3>2. StateOfCode(Code(state)) = state
        BY <1>1, Codes
      <3>3. QED
        BY <2>1, <3>1, <3>2 DEF PeerState
    <2>2. CASE ~(c >= 8 + N)
      <3>1. Field(broadcast, "lifecycleState") = 0
        BY <1>5, <2>2 DEF Field, Default, Strings
      <3>2. QED
        BY <2>2, <3>1, Codes DEF PeerState
    <2>3. QED
      BY <2>1, <2>2
  <1>9. c >= 9 + N => There(L, c, 9 + N) \in Nat /\ There(L, c, 9 + N) <= L
    BY <1>2 DEF There
  <1>10. /\ AdditionalState \in Seq(Bytes) /\ IsPrefix(AdditionalState, a)
         /\ c = 10 + N + L => AdditionalState = a
    <2>1. CASE c >= 9 + N
      <3>1. AdditionalState = Beginning(a, There(L, c, 9 + N))
        BY <1>5, <2>1 DEF AdditionalState, Field
      <3>2. There(L, c, 9 + N) \in Nat /\ There(L, c, 9 + N) <= Len(a)
        BY <1>9, <2>1 DEF L
      <3>3. c = 10 + N + L => There(L, c, 9 + N) = Len(a)
        <4>1. c = 10 + N + L => There(L, c, 9 + N) = L
          BY <1>2 DEF There
        <4>2. QED
          BY <4>1 DEF L
      <3>4. /\ Beginning(a, There(L, c, 9 + N)) \in Seq(Bytes)
            /\ IsPrefix(Beginning(a, There(L, c, 9 + N)), a)
            /\ There(L, c, 9 + N) = Len(a) => Beginning(a, There(L, c, 9 + N)) = a
        BY <1>1, <3>2, BeginningFacts
      <3>5. QED
        BY <3>1, <3>3, <3>4
    <2>2. CASE ~(c >= 9 + N)
      <3>1. AdditionalState = <<>>
        BY <1>5, <2>2 DEF AdditionalState, Field, Default, Strings
      <3>2. <<>> \in Seq(Bytes) /\ Len(<<>>) = 0
        OBVIOUS
      <3>3. IsPrefix(<<>>, a)
        <4>1. SubSeq(<<>>, 1, 0) = <<>> /\ SubSeq(a, 1, 0) = <<>>
          BY SubSeqEmpty
        <4>2. 0 <= Len(a)
          BY <1>1
        <4>3. QED
          BY <3>2, <4>1, <4>2 DEF IsPrefix
      <3>4. c # 10 + N + L
        BY <1>2, <2>2
      <3>5. QED
        BY <3>1, <3>2, <3>3, <3>4
    <2>3. QED
      BY <2>1, <2>2
  <1>11. ASSUME PeerState # "Dead"
         PROVE  Together(PeerId, PeerState, AdditionalState)
    <2>1. PeerState = state
      BY <1>8, <1>11
    <2>2. p \in {r \in Instances : UniqueId[r] = PeerId}
      BY <1>1, <1>6
    <2>3. <<state, a>>[1] = state /\ <<state, a>>[2] = a
      OBVIOUS
    <2>4. IF Fits(Message(p, state, a)) THEN AdditionalState = a ELSE IsPrefix(AdditionalState, a)
      BY <1>2, <1>10
    <2>5. QED
      BY <1>1, <2>1, <2>2, <2>3, <2>4, Zenon DEF Together
  <1>12. QED
    BY <1>1, <1>6, <1>7, <1>8, <1>10, <1>11 DEF p, ModuleStates

\* What the operations leave of the peers and their states.
LEMMA RegistrySteps ==
  ASSUME NEW r, RegistryOK(r)
  PROVE  /\ r.all.peers \subseteq Instances
         /\ \A h \in r.all.peers : UniqueId[h] \in DOMAIN r.states
         /\ \A h, state : ~HasId(r.all, UniqueId[h]) =>
                /\ AddModule(r, h, state).all.peers = r.all.peers \cup {h}
                /\ AddModule(r, h, state).states = Put(r.states, UniqueId[h], state)
         /\ \A id : /\ RemoveModule(r, id).all.peers \subseteq r.all.peers
                    /\ RemoveModule(r, id).states = r.states
         /\ \A id, state : id \in DOMAIN r.states =>
                /\ UpdatePeerState(r, id, state).all = r.all
                /\ UpdatePeerState(r, id, state).states = [r.states EXCEPT ![id] = state]
  <1>1. /\ r = [all |-> r.all, active |-> r.active, states |-> r.states]
        /\ r.all.peers \subseteq Instances
        /\ \A h \in r.all.peers : UniqueId[h] \in DOMAIN r.states
        /\ IsMap(r.states, Ids, ModuleStates)
    BY DEF RegistryOK, IsRegistry, IsIndex
  <1>2. ASSUME NEW h, NEW state, ~HasId(r.all, UniqueId[h])
        PROVE  /\ AddModule(r, h, state).all.peers = r.all.peers \cup {h}
               /\ AddModule(r, h, state).states = Put(r.states, UniqueId[h], state)
    BY <1>2 DEF AddModule, AddModuleInternal
  <1>3. ASSUME NEW id
        PROVE  /\ RemoveModule(r, id).all.peers \subseteq r.all.peers
               /\ RemoveModule(r, id).states = r.states
    <2>1. RemoveModuleInternal(r.all, id).peers \subseteq r.all.peers
      BY DEF RemoveModuleInternal
    <2>2. CASE HasId(r.all, id)
      <3>1. /\ RemoveModule(r, id).all = RemoveModuleInternal(r.all, id)
            /\ RemoveModule(r, id).states = r.states
        BY <1>1, <2>2 DEF RemoveModule
      <3>2. QED
        BY <2>1, <3>1
    <2>3. CASE ~HasId(r.all, id)
      BY <2>3 DEF RemoveModule
    <2>4. QED
      BY <2>2, <2>3
  <1>4. ASSUME NEW id, NEW state, id \in DOMAIN r.states
        PROVE  /\ UpdatePeerState(r, id, state).all = r.all
               /\ UpdatePeerState(r, id, state).states = [r.states EXCEPT ![id] = state]
    <2>1. CASE r.states[id] = state
      <3>1. [r.states EXCEPT ![id] = state] = r.states
        BY <1>1, <1>4, <2>1 DEF IsMap
      <3>2. QED
        BY <2>1, <3>1 DEF UpdatePeerState
    <2>2. CASE r.states[id] # state
      BY <1>1, <1>4, <2>2 DEF UpdatePeerState
    <2>3. QED
      BY <2>1, <2>2
  <1>5. QED
    BY <1>1, <1>2, <1>3, <1>4

\* In the initial state nothing is known.
LEMMA SInvInit == Init => SInv
  <1>1. SUFFICES ASSUME Init PROVE SInv
    OBVIOUS
  <1>2. RegistryOK(registry)
    BY <1>1, EmptyOK DEF Init
  <1>3. registry.all.peers = {} /\ registry.states = <<>>
    BY <1>1 DEF Init, EmptyRegistry, NoPeers
  <1>4. IsMap(additional, Ids, Seq(Bytes)) /\ DOMAIN additional = DOMAIN registry.states
    <2>1. additional = <<>> /\ DOMAIN <<>> = {}
      BY <1>1 DEF Init
    <2>2. QED
      BY <1>3, <2>1 DEF IsMap
  <1>5. thread = "loop" /\ incoming = Nothing /\ broadcast = EmptyMessage
    BY <1>1 DEF Init
  <1>6. QED
    BY <1>2, <1>3, <1>4, <1>5 DEF SInv

\* The multicast at hand stays while its fields are read.
LEMMA SameBroadcast ==
  ASSUME broadcast' = broadcast, incoming' = incoming
  PROVE  /\ InHand' <=> InHand
         /\ PeerId' = PeerId /\ PeerState' = PeerState /\ AdditionalState' = AdditionalState
         /\ Ignored' <=> Ignored
  <1>1. PeerId' = PeerId /\ PeerState' = PeerState /\ AdditionalState' = AdditionalState
    BY DEF PeerId, PeerState, AdditionalState
  <1>2. Ignored' <=> Ignored
    BY <1>1 DEF Ignored, Own
  <1>3. InHand' <=> InHand
    BY DEF InHand, Original
  <1>4. QED
    BY <1>1, <1>2, <1>3

\* A handler that finishes leaves the loop invariant to be shown.
LEMMA DoneKeeps ==
  ASSUME Done, RegistryOK(registry'), IsMap(additional', Ids, Seq(Bytes)),
         DOMAIN additional' = DOMAIN registry'.states,
         \A h \in registry'.all.peers : Together(UniqueId[h], registry'.states[UniqueId[h]], additional'[UniqueId[h]])
  PROVE  SInv'
  <1>1. thread' = "loop" /\ incoming' = Nothing /\ broadcast' = EmptyMessage
    BY DEF Done
  <1>2. QED
    BY <1>1 DEF SInv

\* A received multicast is at hand.
LEMMA ReceiveKeeps ==
  ASSUME SInv, NEW p \in Instances, NEW pair \in Announced[p], Receive(p, pair[1], pair[2])
  PROVE  SInv'
  <1> DEFINE state == pair[1]
             a == pair[2]
  <1>1. pair \in ModuleStates \X Seq(Bytes) /\ pair = <<state, a>>
    BY ContentsAssumption
  <1>2. state \in ModuleStates /\ a \in Seq(Bytes) /\ <<state, a>> \in Announced[p]
    BY <1>1
  <1>3. /\ thread = "loop" /\ thread' = "process" /\ registry' = registry /\ additional' = additional
        /\ incoming' = [from |-> p, state |-> state, additional |-> a]
        /\ broadcast' = Copy(ParsePartial(Datagram(Message(p, state, a))))
    BY DEF Receive
  <1>. HIDE DEF state, a
  <1>4. incoming'.from = p /\ incoming'.state = state /\ incoming'.additional = a
    BY <1>3
  <1>5. Original' = Message(p, state, a)
    BY <1>4 DEF Original
  <1>6. InHand'
    BY <1>2, <1>3, <1>4, <1>5 DEF InHand
  <1>7. QED
    BY <1>3, <1>6 DEF SInv

\* Ignoring it changes nothing.
LEMMA IgnoreKeeps ==
  ASSUME SInv, Ignore
  PROVE  SInv'
  <1>1. thread = "process" /\ Done /\ registry' = registry /\ additional' = additional
    BY DEF Ignore
  <1>2. QED
    BY <1>1, DoneKeeps DEF SInv

\* Of a removed peer nothing has to be kept together.
LEMMA OnPeerDeadKeeps ==
  ASSUME SInv, OnPeerDead
  PROVE  SInv'
  <1>1. /\ thread = "process" /\ Done /\ additional' = additional
        /\ registry' = RemoveModule(registry, PeerId)
    BY DEF OnPeerDead
  <1>2. PeerId \in Ids
    BY <1>1, HeardFacts DEF SInv
  <1>3. RegistryOK(registry) /\ RegistryOK(registry')
    BY <1>1, <1>2, RemoveModuleOK DEF SInv
  <1>4. registry'.all.peers \subseteq registry.all.peers /\ registry'.states = registry.states
    BY <1>1, <1>3, RegistrySteps
  <1>5. QED
    BY <1>1, <1>3, <1>4, DoneKeeps DEF SInv

\* Nor of one that timed out.
LEMMA TimeoutKeeps ==
  ASSUME SInv, NEW h \in Instances, Timeout(h)
  PROVE  SInv'
  <1>1. /\ thread = "loop" /\ thread' = thread /\ incoming' = incoming /\ broadcast' = broadcast
        /\ additional' = additional /\ registry' = RemoveModule(registry, UniqueId[h])
    BY DEF Timeout
  <1>2. RegistryOK(registry) /\ RegistryOK(registry')
    <2>1. UniqueId[h] \in Ids
      OBVIOUS
    <2>2. QED
      BY <1>1, <2>1, RemoveModuleOK DEF SInv
  <1>3. registry'.all.peers \subseteq registry.all.peers /\ registry'.states = registry.states
    BY <1>1, <1>2, RegistrySteps
  <1>4. QED
    BY <1>1, <1>2, <1>3 DEF SInv

\* A new peer is registered with what was announced together.
LEMMA OnPeerNewKeeps ==
  ASSUME SInv, OnPeerNew
  PROVE  SInv'
  <1>1. /\ thread = "process" /\ Done /\ PeerState # "Dead" /\ ~Known
        /\ registry' = AddModule(registry, Handle, PeerState)
        /\ additional' = Put(additional, PeerId, AdditionalState)
    BY DEF OnPeerNew
  <1>2. /\ PeerId = UniqueId[Handle] /\ PeerId \in Ids /\ Handle \in Instances
        /\ PeerState \in ModuleStates /\ AdditionalState \in Seq(Bytes)
        /\ Together(PeerId, PeerState, AdditionalState)
    BY <1>1, HeardFacts DEF SInv
  <1>3. /\ RegistryOK(registry) /\ ~HasId(registry.all, UniqueId[Handle])
        /\ IsMap(additional, Ids, Seq(Bytes)) /\ DOMAIN additional = DOMAIN registry.states
        /\ \A h \in registry.all.peers :
               Together(UniqueId[h], registry.states[UniqueId[h]], additional[UniqueId[h]])
    BY <1>1, <1>2 DEF SInv, Known
  <1>4. RegistryOK(registry')
    BY <1>1, <1>2, <1>3, AddModuleOK
  <1>5. /\ registry'.all.peers = registry.all.peers \cup {Handle}
        /\ registry'.states = Put(registry.states, PeerId, PeerState)
    BY <1>1, <1>2, <1>3, RegistrySteps
  <1>6. IsMap(additional', Ids, Seq(Bytes)) /\ DOMAIN additional' = DOMAIN registry'.states
    BY <1>1, <1>2, <1>3, <1>5 DEF IsMap, Put
  <1>7. ASSUME NEW h \in registry'.all.peers
        PROVE  Together(UniqueId[h], registry'.states[UniqueId[h]], additional'[UniqueId[h]])
    <2>1. CASE h = Handle
      <3>1. registry'.states[PeerId] = PeerState /\ additional'[PeerId] = AdditionalState
        BY <1>1, <1>5 DEF Put
      <3>2. QED
        BY <1>2, <2>1, <3>1
    <2>2. CASE h # Handle
      <3>1. h \in registry.all.peers /\ UniqueId[h] # PeerId
        BY <1>2, <1>3, <1>5, <2>2 DEF HasId
      <3>2. UniqueId[h] \in DOMAIN registry.states /\ UniqueId[h] \in DOMAIN additional
        BY <1>3, <3>1, RegistrySteps
      <3>3. /\ registry'.states[UniqueId[h]] = registry.states[UniqueId[h]]
            /\ additional'[UniqueId[h]] = additional[UniqueId[h]]
        BY <1>1, <1>5, <3>1, <3>2 DEF Put
      <3>4. QED
        BY <1>3, <3>1, <3>3
    <2>3. QED
      BY <2>1, <2>2
  <1>8. QED
    BY <1>1, <1>4, <1>6, <1>7, DoneKeeps

\* The first step of an update leaves the peer to the second.
LEMMA UpdateAdditionalStateKeeps ==
  ASSUME SInv, UpdateAdditionalState
  PROVE  SInv'
  <1>1. /\ thread = "process" /\ ~Ignored /\ PeerState # "Dead" /\ Known /\ thread' = "update"
        /\ additional' = IF PeerId \in DOMAIN additional THEN [additional EXCEPT ![PeerId] = AdditionalState] ELSE additional
        /\ incoming' = incoming /\ broadcast' = broadcast /\ registry' = registry
    BY DEF UpdateAdditionalState
  <1>2. InHand /\ PeerId \in Ids /\ AdditionalState \in Seq(Bytes)
    BY <1>1, HeardFacts DEF SInv
  <1>3. /\ RegistryOK(registry)
        /\ IsMap(additional, Ids, Seq(Bytes)) /\ DOMAIN additional = DOMAIN registry.states
        /\ \A h \in registry.all.peers :
               Together(UniqueId[h], registry.states[UniqueId[h]], additional[UniqueId[h]])
    BY <1>1 DEF SInv
  <1>4. \A h \in registry.all.peers : UniqueId[h] \in DOMAIN additional
    BY <1>3, RegistrySteps
  <1>5. PeerId \in DOMAIN additional
    BY <1>1, <1>4 DEF Known, HasId
  <1>6. /\ additional' = [additional EXCEPT ![PeerId] = AdditionalState]
        /\ DOMAIN additional' = DOMAIN additional /\ additional'[PeerId] = AdditionalState
        /\ \A id \in DOMAIN additional : id # PeerId => additional'[id] = additional[id]
        /\ IsMap(additional', Ids, Seq(Bytes))
    BY <1>1, <1>2, <1>3, <1>5 DEF IsMap
  <1>7. /\ InHand' /\ PeerId' = PeerId /\ PeerState' = PeerState /\ AdditionalState' = AdditionalState
        /\ ~Ignored'
    BY <1>1, <1>2, SameBroadcast
  <1>8. Known'
    BY <1>1, <1>7 DEF Known
  <1>9. \A h \in registry'.all.peers :
            \/ UniqueId[h] = PeerId'
            \/ Together(UniqueId[h], registry'.states[UniqueId[h]], additional'[UniqueId[h]])
    BY <1>1, <1>3, <1>4, <1>6, <1>7
  <1>10. QED
    BY <1>1, <1>3, <1>6, <1>7, <1>8, <1>9 DEF SInv

\* The second step puts the state beside the additional state of the same multicast.
LEMMA UpdateStateKeeps ==
  ASSUME SInv, UpdateState
  PROVE  SInv'
  <1>1. /\ thread = "update" /\ Done /\ additional' = additional
        /\ registry' = IF GetPeerState(registry, HandleOf(registry.all, PeerId)) = PeerState
                       THEN registry ELSE UpdatePeerState(registry, PeerId, PeerState)
    BY DEF UpdateState
  <1>2. /\ PeerState # "Dead" /\ Known /\ additional[PeerId] = AdditionalState
        /\ RegistryOK(registry)
        /\ IsMap(additional, Ids, Seq(Bytes)) /\ DOMAIN additional = DOMAIN registry.states
        /\ \A h \in registry.all.peers :
               \/ UniqueId[h] = PeerId
               \/ Together(UniqueId[h], registry.states[UniqueId[h]], additional[UniqueId[h]])
    BY <1>1 DEF SInv
  <1>3. /\ PeerId \in Ids /\ PeerState \in ModuleStates
        /\ Together(PeerId, PeerState, AdditionalState)
    BY <1>1, <1>2, HeardFacts DEF SInv
  <1>4. \A h \in registry.all.peers : UniqueId[h] \in DOMAIN registry.states
    BY <1>2, RegistrySteps
  <1>5. /\ HandleOf(registry.all, PeerId) \in registry.all.peers
        /\ UniqueId[HandleOf(registry.all, PeerId)] = PeerId
    BY <1>2 DEF Known, HasId, HandleOf
  <1>6. PeerId \in DOMAIN registry.states
    BY <1>4, <1>5
  <1>7. /\ RegistryOK(registry') /\ registry'.all = registry.all
        /\ DOMAIN registry'.states = DOMAIN registry.states
        /\ registry'.states[PeerId] = PeerState
        /\ \A id \in DOMAIN registry.states : id # PeerId => registry'.states[id] = registry.states[id]
    <2>1. CASE GetPeerState(registry, HandleOf(registry.all, PeerId)) = PeerState
      <3>1. registry.states[PeerId] = PeerState
        BY <1>5, <1>6, <2>1 DEF GetPeerState
      <3>2. QED
        BY <1>1, <1>2, <2>1, <3>1
    <2>2. CASE GetPeerState(registry, HandleOf(registry.all, PeerId)) # PeerState
      <3>1. registry' = UpdatePeerState(registry, PeerId, PeerState)
        BY <1>1, <2>2
      <3>2. RegistryOK(registry')
        BY <1>2, <1>3, <3>1, UpdatePeerStateOK DEF Known
      <3>3. registry'.all = registry.all /\ registry'.states = [registry.states EXCEPT ![PeerId] = PeerState]
        BY <1>2, <1>6, <3>1, RegistrySteps
      <3>4. QED
        BY <1>6, <3>2, <3>3
    <2>3. QED
      BY <2>1, <2>2
  <1>8. ASSUME NEW h \in registry'.all.peers
        PROVE  Together(UniqueId[h], registry'.states[UniqueId[h]], additional'[UniqueId[h]])
    <2>1. CASE UniqueId[h] = PeerId
      BY <1>1, <1>2, <1>3, <1>7, <2>1
    <2>2. CASE UniqueId[h] # PeerId
      <3>1. h \in registry.all.peers /\ UniqueId[h] \in DOMAIN registry.states
        BY <1>4, <1>7
      <3>2. QED
        BY <1>1, <1>2, <1>7, <2>2, <3>1
    <2>3. QED
      BY <2>1, <2>2
  <1>9. QED
    BY <1>1, <1>2, <1>7, <1>8, DoneKeeps

\* Every step keeps the invariant.
LEMMA SInvStep == SInv /\ [Next]_vars => SInv'
  <1>1. SUFFICES ASSUME SInv, [Next]_vars PROVE SInv'
    OBVIOUS
  <1>2. CASE Ignore
    BY <1>1, <1>2, IgnoreKeeps
  <1>3. CASE OnPeerDead
    BY <1>1, <1>3, OnPeerDeadKeeps
  <1>4. CASE OnPeerNew
    BY <1>1, <1>4, OnPeerNewKeeps
  <1>5. CASE UpdateAdditionalState
    BY <1>1, <1>5, UpdateAdditionalStateKeeps
  <1>6. CASE UpdateState
    BY <1>1, <1>6, UpdateStateKeeps
  <1>7. CASE \E h \in Instances : Timeout(h)
    BY <1>1, <1>7, TimeoutKeeps
  <1>8. CASE \E p \in Instances : \E pair \in Announced[p] : Receive(p, pair[1], pair[2])
    BY <1>1, <1>8, ReceiveKeeps
  <1>9. CASE UNCHANGED vars
    <2>1. /\ thread' = thread /\ incoming' = incoming /\ broadcast' = broadcast
          /\ registry' = registry /\ additional' = additional
      BY <1>9 DEF vars
    <2>2. /\ PeerId' = PeerId /\ PeerState' = PeerState /\ AdditionalState' = AdditionalState
          /\ InHand' <=> InHand
          /\ Ignored' <=> Ignored
      BY <2>1, SameBroadcast
    <2>3. Known' <=> Known
      BY <2>1 DEF Known, PeerId
    <2>4. /\ \A h \in registry'.all.peers :
                 \/ thread' = "update" /\ UniqueId[h] = PeerId'
                 \/ Together(UniqueId[h], registry'.states[UniqueId[h]], additional'[UniqueId[h]])
          /\ thread' = "update" => additional'[PeerId'] = AdditionalState'
          /\ RegistryOK(registry')
      <3>1. PeerId' = PeerId /\ AdditionalState' = AdditionalState
        BY <2>2
      <3>2. QED
        BY <1>1, <2>1, <3>1 DEF SInv
    <2>5. QED
      BY <1>1, <2>1, <2>2, <2>3, <2>4 DEF SInv
  <1>10. QED
    BY <1>1, <1>2, <1>3, <1>4, <1>5, <1>6, <1>7, <1>8, <1>9 DEF Next

\* The multicast at hand was read as far as it arrived, and of every peer the registry and
\* the map of additional states keep what was announced together.
THEOREM MulticastInvariant == Spec => []SInv
  <1>1. Init => SInv
    BY SInvInit
  <1>2. SInv /\ [Next]_vars => SInv'
    BY SInvStep
  <1>3. QED
    BY <1>1, <1>2, PTL DEF Spec

(***************************************************************************)
(* The properties.                                                         *)
(***************************************************************************)
\* What is at hand, what was read of it, and the registry are of their types.
THEOREM TypeCorrect == Spec => []TypeOK
  <1>1. ASSUME SInv
        PROVE  TypeOK
    <2>1. incoming \in [from : Instances, state : ModuleStates, additional : Seq(Bytes)] \cup {Nothing}
      <3>1. CASE thread = "loop"
        BY <1>1, <3>1 DEF SInv
      <3>2. CASE thread # "loop"
        BY <1>1, <3>2 DEF SInv, InHand
      <3>3. QED
        BY <3>1, <3>2
    <2>2. /\ DOMAIN broadcast \subseteq ToSet(Fields)
          /\ \A f \in DOMAIN broadcast \cap Strings : broadcast[f] \in Seq(Bytes)
      <3>1. CASE thread = "loop"
        <4>1. broadcast = EmptyMessage /\ DOMAIN EmptyMessage = {}
          BY <1>1, <3>1 DEF SInv, EmptyMessage
        <4>2. QED
          BY <4>1
      <3>2. CASE thread # "loop"
        <4> DEFINE p == incoming.from
                   a == incoming.additional
                   c == Arrived(p, a)
                   N == Len(Name[p])
                   L == Len(a)
        <4>1. /\ a \in Seq(Bytes) /\ Name[p] \in Seq(Bytes) /\ N \in Nat /\ L \in Nat
              /\ c \in Nat /\ Read(broadcast, c, p, incoming.state, a)
          BY <1>1, <3>2, ReadInHand DEF SInv
        <4>. HIDE DEF p, a, c
        <4>2. /\ DOMAIN broadcast \subseteq ToSet(Fields)
              /\ Has(broadcast, "senderName") <=> c >= 6
              /\ c >= 6 => broadcast["senderName"] = Beginning(Name[p], There(N, c, 6))
              /\ Has(broadcast, "additionalStateInfos") <=> c >= 9 + N
              /\ c >= 9 + N => broadcast["additionalStateInfos"] = Beginning(a, There(L, c, 9 + N))
          BY <4>1, Zenon DEF Read
        <4>3. ASSUME c >= 6
              PROVE  broadcast["senderName"] \in Seq(Bytes)
          <5>1. There(N, c, 6) \in Nat /\ There(N, c, 6) <= N
            BY <4>1, <4>3 DEF There
          <5>2. Beginning(Name[p], There(N, c, 6)) \in Seq(Bytes)
            BY <4>1, <5>1, BeginningFacts
          <5>3. QED
            BY <4>2, <4>3, <5>2
        <4>4. ASSUME c >= 9 + N
              PROVE  broadcast["additionalStateInfos"] \in Seq(Bytes)
          <5>1. There(L, c, 9 + N) \in Nat /\ There(L, c, 9 + N) <= L
            <6>. HIDE DEF N, L
            <6>1. QED
              BY <4>1, <4>4 DEF There
          <5>2. Beginning(a, There(L, c, 9 + N)) \in Seq(Bytes)
            BY <4>1, <5>1, BeginningFacts
          <5>3. QED
            BY <4>2, <4>4, <5>2
        <4>5. QED
          BY <4>2, <4>3, <4>4 DEF Strings, Has
      <3>3. QED
        BY <3>1, <3>2
    <2>3. QED
      BY <1>1, <2>1, <2>2 DEF TypeOK, SInv, RegistryOK
  <1>2. QED
    BY <1>1, MulticastInvariant, PTL

\* The registry's maps and the states describe the same peers.
THEOREM RegistryStaysInAgreement == Spec => []RegistryAgrees
  <1>1. SInv => RegistryAgrees
    BY DEF SInv, RegistryOK, RegistryAgrees
  <1>2. QED
    BY <1>1, MulticastInvariant, PTL

\* Except between the two steps of an update, what is kept of a peer was announced together.
THEOREM AnnouncedTogether == Spec => []StatesBelongTogether
  <1>1. ASSUME SInv
        PROVE  StatesBelongTogether
    <2>1. SUFFICES ASSUME thread # "update", NEW h \in registry.all.peers
                   PROVE  Together(UniqueId[h], StateOf(registry, UniqueId[h]), GetPeerAdditionalState(h))
      BY DEF StatesBelongTogether, Together
    <2>2. HasId(registry.all, UniqueId[h])
      BY DEF HasId
    <2>3. /\ StateOf(registry, UniqueId[h]) = registry.states[UniqueId[h]]
          /\ GetPeerAdditionalState(h) = additional[UniqueId[h]]
      BY <2>2 DEF StateOf, GetPeerAdditionalState
    <2>4. QED
      BY <1>1, <2>1, <2>3 DEF SInv
  <1>2. QED
    BY <1>1, MulticastInvariant, PTL

\* The queries, those with versions included, answer from the states.
THEOREM QueriesAreAnswered == Spec => []QueriesAnswerFromStates
  <1>1. ASSUME SInv
        PROVE  QueriesAnswerFromStates
    <2>1. RegistryOK(registry)
      BY <1>1 DEF SInv
    <2>2. QueriesAnswer(registry)
      BY <2>1, QueriesOK
    <2>3. ASSUME NEW type \in Types, NEW onlyActivePeers \in BOOLEAN
          PROVE  ToSet(GetPeersWithType(registry, type, onlyActivePeers))
                     = {h \in registry.all.peers :
                           /\ TypeId[UniqueId[h]] = type
                           /\ onlyActivePeers => StateOf(registry, UniqueId[h]) = "Active"}
      <3>1. CASE onlyActivePeers = TRUE
        <4>1. IndexOK(registry.active, {h \in registry.all.peers : StateOf(registry, UniqueId[h]) = "Active"})
          BY <2>1 DEF RegistryOK, IsRegistry, IndexesAgree, IndexOK
        <4>2. GetPeersWithType(registry, type, onlyActivePeers) = ListOf(registry.active, type)
          BY <3>1 DEF GetPeersWithType, Index
        <4>3. ToSet(ListOf(registry.active, type))
                  = {h \in {g \in registry.all.peers : StateOf(registry, UniqueId[g]) = "Active"} :
                         TypeId[UniqueId[h]] = type}
          BY <4>1, ListFacts
        <4>4. QED
          BY <3>1, <4>2, <4>3
      <3>2. CASE onlyActivePeers = FALSE
        <4>1. IndexOK(registry.all, registry.all.peers)
          BY <2>1 DEF RegistryOK, IsRegistry, IndexesAgree, IndexOK
        <4>2. GetPeersWithType(registry, type, onlyActivePeers) = ListOf(registry.all, type)
          BY <3>2 DEF GetPeersWithType, Index
        <4>3. ToSet(ListOf(registry.all, type)) = {h \in registry.all.peers : TypeId[UniqueId[h]] = type}
          BY <4>1, ListFacts
        <4>4. QED
          BY <3>2, <4>2, <4>3
      <3>3. QED
        BY <3>1, <3>2
    <2>4. ASSUME NEW type \in Types, NEW version, NEW onlyActivePeers \in BOOLEAN
          PROVE  LET peers == {h \in registry.all.peers :
                                  /\ TypeId[UniqueId[h]] = type /\ Version[h] = version
                                  /\ onlyActivePeers => StateOf(registry, UniqueId[h]) = "Active"}
                 IN  /\ ContainsPeerWithTypeVersion(type, version, onlyActivePeers) <=> peers # {}
                     /\ GetPeersWithTypeVersion(type, version, onlyActivePeers) = peers
      BY <2>3 DEF ContainsPeerWithTypeVersion, GetPeersWithTypeVersion
    <2>5. \A h \in Instances : ~HasId(registry.all, UniqueId[h]) => GetPeerAdditionalState(h) = <<>>
      BY DEF GetPeerAdditionalState
    <2>6. QED
      BY <2>2, <2>4, <2>5 DEF QueriesAnswerFromStates
  <1>2. QED
    BY <1>1, MulticastInvariant, PTL

\* An instance takes a multicast for its own exactly if it is and its identifier arrived.
THEOREM RecognizesOwnOnly == Spec => []RecognizesItself
  <1>1. ASSUME SInv
        PROVE  RecognizesItself
    <2>1. SUFFICES ASSUME thread = "process"
                   PROVE  Own <=> incoming.from = Self /\ Fits(Original)
      BY DEF RecognizesItself
    <2>2. InHand
      BY <1>1, <2>1 DEF SInv
    <2> DEFINE p == incoming.from
               a == incoming.additional
               c == Arrived(p, a)
               size == 10 + Len(Name[p]) + Len(a)
    <2>3. PeerId = UniqueId[p]
      BY <2>2, HeardFacts
    <2>4. /\ Read(broadcast, c, p, incoming.state, a) /\ p \in Instances
          /\ c \in Nat /\ size \in Nat /\ c <= size
          /\ Fits(Original) <=> c = size
      <3>1. /\ Read(broadcast, c, p, incoming.state, a) /\ p \in Instances
            /\ Len(Name[p]) \in Nat /\ Len(a) \in Nat
            /\ c \in Nat /\ c <= 10 + Len(Name[p]) + Len(a)
            /\ Fits(Message(p, incoming.state, a)) <=> c = 10 + Len(Name[p]) + Len(a)
        BY <2>2, ReadInHand
      <3>. HIDE DEF p, a, c
      <3>2. size \in Nat
        BY <3>1
      <3>3. Fits(Original) <=> Fits(Message(p, incoming.state, a))
        BY DEF Original, p, a
      <3>4. QED
        BY <3>1, <3>2, <3>3
    <2>5. /\ Has(broadcast, "multicastIdentifier") <=> c >= size
          /\ c >= size => broadcast["multicastIdentifier"] = p
      BY <2>4, ZenonT(30) DEF Read
    <2>. HIDE DEF p, a, c, size
    <2>6. CASE c = size
      <3>1. Field(broadcast, "multicastIdentifier") = p
        BY <2>4, <2>5, <2>6 DEF Field
      <3>2. QED
        BY <2>3, <2>4, <2>6, <3>1 DEF Own, p
    <2>7. CASE c # size
      <3>1. Field(broadcast, "multicastIdentifier") = 0
        BY <2>4, <2>5, <2>7 DEF Field, Default, Strings
      <3>2. 0 # Self
        BY SelfAssumption, IdentifierAssumption
      <3>3. QED
        BY <2>4, <2>7, <3>1, <3>2 DEF Own
    <2>8. QED
      BY <2>6, <2>7
  <1>2. QED
    BY <1>1, MulticastInvariant, PTL

\* The fields of a multicast.
LEMMA OriginalFields ==
  LET p == incoming.from
  IN  /\ Field(Original, "zmqPubPort") = p /\ Field(Original, "zmqRepPort") = p
      /\ Field(Original, "senderId") = [typeId |-> TypeId[UniqueId[p]], instanceId |-> UniqueId[p]]
      /\ Field(Original, "senderName") = Name[p] /\ Field(Original, "version") = Version[p]
      /\ Field(Original, "lifecycleState") = Code(incoming.state)
      /\ Field(Original, "additionalLifecycleInfos") = 0
      /\ Field(Original, "additionalStateInfos") = incoming.additional
      /\ Field(Original, "multicastIdentifier") = p
      /\ \A f \in DOMAIN Original : Original[f] = Field(Original, f)
      /\ DOMAIN Original = ToSet(Fields) \ {"additionalLifecycleInfos"}
      /\ Original = [f \in DOMAIN Original |-> Original[f]]
  <1> DEFINE p == incoming.from
             state == incoming.state
             a == incoming.additional
  <1>1. /\ DOMAIN Original = {"zmqPubPort", "zmqRepPort", "senderId", "senderName", "version",
                              "lifecycleState", "additionalStateInfos", "multicastIdentifier"}
        /\ Original["zmqPubPort"] = p /\ Original["zmqRepPort"] = p
        /\ Original["senderId"] = [typeId |-> TypeId[UniqueId[p]], instanceId |-> UniqueId[p]]
        /\ Original["senderName"] = Name[p] /\ Original["version"] = Version[p]
        /\ Original["lifecycleState"] = Code(state)
        /\ Original["additionalStateInfos"] = a /\ Original["multicastIdentifier"] = p
    BY MessageFacts DEF Original
  <1>2. Original = [f \in DOMAIN Original |-> Original[f]]
    BY DEF Original, Message
  <1>3. DOMAIN Original = ToSet(Fields) \ {"additionalLifecycleInfos"}
    BY <1>1, FieldsByName
  <1>. HIDE DEF p, state, a
  <1>4. \A f \in DOMAIN Original : Original[f] = Field(Original, f)
    BY DEF Field, Has
  <1>5. Field(Original, "additionalLifecycleInfos") = 0
    BY <1>1 DEF Field, Has, Default, Strings
  <1>6. /\ Field(Original, "zmqPubPort") = p /\ Field(Original, "zmqRepPort") = p
        /\ Field(Original, "senderId") = [typeId |-> TypeId[UniqueId[p]], instanceId |-> UniqueId[p]]
        /\ Field(Original, "senderName") = Name[p] /\ Field(Original, "version") = Version[p]
        /\ Field(Original, "lifecycleState") = Code(state)
        /\ Field(Original, "additionalStateInfos") = a /\ Field(Original, "multicastIdentifier") = p
    BY <1>1, <1>4
  <1>7. QED
    BY <1>2, <1>3, <1>4, <1>5, <1>6 DEF p, state, a

\* What arrived of the multicast at hand, by the last unit that did.
LEMMA FieldsRead ==
  ASSUME InHand
  PROVE  LET c == Arrived(incoming.from, incoming.additional)
             N == Len(Name[incoming.from])
             L == Len(incoming.additional)
             Same(f) == Field(broadcast, f) = Field(Original, f)
         IN  /\ N \in Nat /\ L \in Nat /\ c \in Nat /\ c >= 5 /\ c <= 10 + N + L
             /\ Fits(Original) <=> c = 10 + N + L
             /\ broadcast = [f \in DOMAIN broadcast |-> broadcast[f]]
             /\ DOMAIN broadcast \subseteq ToSet(Fields) \ {"additionalLifecycleInfos"}
             /\ {"zmqPubPort", "zmqRepPort", "senderId"} \subseteq DOMAIN broadcast
             /\ "senderName" \in DOMAIN broadcast <=> c >= 6
             /\ "version" \in DOMAIN broadcast <=> c >= 7 + N
             /\ "lifecycleState" \in DOMAIN broadcast <=> c >= 8 + N
             /\ "additionalStateInfos" \in DOMAIN broadcast <=> c >= 9 + N
             /\ "multicastIdentifier" \in DOMAIN broadcast <=> c >= 10 + N + L
             /\ Same("zmqPubPort") /\ Same("zmqRepPort") /\ Same("senderId")
             /\ c >= 6 + N => Same("senderName")
             /\ c >= 7 + N => Same("version")
             /\ c >= 8 + N => Same("lifecycleState")
             /\ Same("additionalLifecycleInfos")
             /\ c >= 9 + N + L => Same("additionalStateInfos")
             /\ c >= 10 + N + L => Same("multicastIdentifier")
             /\ c >= 6 => IsPrefix(broadcast["senderName"], Original["senderName"])
             /\ c >= 9 + N => IsPrefix(broadcast["additionalStateInfos"], Original["additionalStateInfos"])
  <1> DEFINE p == incoming.from
             state == incoming.state
             a == incoming.additional
             c == Arrived(p, a)
             N == Len(Name[p])
             L == Len(a)
  <1>1. /\ p \in Instances /\ state \in ModuleStates /\ a \in Seq(Bytes) /\ Name[p] \in Seq(Bytes)
        /\ N \in Nat /\ L \in Nat /\ c \in Nat /\ c >= 5 /\ c <= 10 + N + L
        /\ Fits(Message(p, state, a)) <=> c = 10 + N + L
        /\ Read(broadcast, c, p, state, a)
    BY ReadInHand
  <1>2. Fits(Original) <=> Fits(Message(p, state, a))
    BY DEF Original
  <1>3. /\ Field(Original, "zmqPubPort") = p /\ Field(Original, "zmqRepPort") = p
        /\ Field(Original, "senderId") = [typeId |-> TypeId[UniqueId[p]], instanceId |-> UniqueId[p]]
        /\ Field(Original, "senderName") = Name[p] /\ Field(Original, "version") = Version[p]
        /\ Field(Original, "lifecycleState") = Code(state)
        /\ Field(Original, "additionalLifecycleInfos") = 0
        /\ Field(Original, "additionalStateInfos") = a
        /\ Field(Original, "multicastIdentifier") = p
        /\ \A f \in DOMAIN Original : Original[f] = Field(Original, f)
        /\ DOMAIN Original = ToSet(Fields) \ {"additionalLifecycleInfos"}
    BY OriginalFields
  <1>. HIDE DEF p, state, a, c
  <1>4. /\ broadcast = [f \in DOMAIN broadcast |-> broadcast[f]] /\ DOMAIN broadcast \subseteq ToSet(Fields)
        /\ Has(broadcast, "zmqPubPort") /\ broadcast["zmqPubPort"] = p
        /\ Has(broadcast, "zmqRepPort") /\ broadcast["zmqRepPort"] = p
        /\ Has(broadcast, "senderId")
        /\ broadcast["senderId"] = [typeId |-> TypeId[UniqueId[p]], instanceId |-> UniqueId[p]]
        /\ Has(broadcast, "senderName") <=> c >= 6
        /\ c >= 6 => broadcast["senderName"] = Beginning(Name[p], There(N, c, 6))
        /\ Has(broadcast, "version") <=> c >= 7 + N
        /\ c >= 7 + N => broadcast["version"] = Version[p]
        /\ Has(broadcast, "lifecycleState") <=> c >= 8 + N
        /\ c >= 8 + N => broadcast["lifecycleState"] = Code(state)
        /\ ~Has(broadcast, "additionalLifecycleInfos")
        /\ Has(broadcast, "additionalStateInfos") <=> c >= 9 + N
        /\ c >= 9 + N => broadcast["additionalStateInfos"] = Beginning(a, There(L, c, 9 + N))
        /\ Has(broadcast, "multicastIdentifier") <=> c >= 10 + N + L
        /\ c >= 10 + N + L => broadcast["multicastIdentifier"] = p
    BY <1>1, ZenonT(30) DEF Read
  <1>5. Original["senderName"] = Name[p] /\ Original["additionalStateInfos"] = a
    BY <1>3, FieldsByName
  <1>. HIDE DEF N, L
  <1>6. ASSUME c >= 6
        PROVE  /\ IsPrefix(broadcast["senderName"], Name[p])
               /\ c >= 6 + N => broadcast["senderName"] = Name[p]
    <2>1. There(N, c, 6) \in Nat /\ There(N, c, 6) <= N /\ (c >= 6 + N => There(N, c, 6) = N)
      BY <1>1, <1>6 DEF There
    <2>2. /\ IsPrefix(Beginning(Name[p], There(N, c, 6)), Name[p])
          /\ There(N, c, 6) = N => Beginning(Name[p], There(N, c, 6)) = Name[p]
      BY <1>1, <2>1, BeginningFacts DEF N
    <2>3. QED
      BY <1>4, <1>6, <2>1, <2>2
  <1>7. ASSUME c >= 9 + N
        PROVE  /\ IsPrefix(broadcast["additionalStateInfos"], a)
               /\ c >= 9 + N + L => broadcast["additionalStateInfos"] = a
    <2>1. There(L, c, 9 + N) \in Nat /\ There(L, c, 9 + N) <= L /\ (c >= 9 + N + L => There(L, c, 9 + N) = L)
      BY <1>1, <1>7 DEF There
    <2>2. /\ IsPrefix(Beginning(a, There(L, c, 9 + N)), a)
          /\ There(L, c, 9 + N) = L => Beginning(a, There(L, c, 9 + N)) = a
      BY <1>1, <2>1, BeginningFacts DEF L
    <2>3. QED
      BY <1>4, <1>7, <2>1, <2>2
  <1>8. /\ Field(broadcast, "zmqPubPort") = Field(Original, "zmqPubPort")
        /\ Field(broadcast, "zmqRepPort") = Field(Original, "zmqRepPort")
        /\ Field(broadcast, "senderId") = Field(Original, "senderId")
    BY <1>3, <1>4 DEF Field
  <1>9. c >= 6 + N => Field(broadcast, "senderName") = Field(Original, "senderName")
    <2>1. c >= 6 + N => c >= 6
      BY <1>1
    <2>2. QED
      BY <1>3, <1>4, <1>6, <2>1 DEF Field
  <1>10. /\ c >= 7 + N => Field(broadcast, "version") = Field(Original, "version")
         /\ c >= 8 + N => Field(broadcast, "lifecycleState") = Field(Original, "lifecycleState")
         /\ c >= 10 + N + L => Field(broadcast, "multicastIdentifier") = Field(Original, "multicastIdentifier")
    BY <1>3, <1>4 DEF Field
  <1>11. Field(broadcast, "additionalLifecycleInfos") = Field(Original, "additionalLifecycleInfos")
    BY <1>3, <1>4 DEF Field, Default, Strings
  <1>12. c >= 9 + N + L => Field(broadcast, "additionalStateInfos") = Field(Original, "additionalStateInfos")
    <2>1. c >= 9 + N + L => c >= 9 + N
      BY <1>1
    <2>2. QED
      BY <1>3, <1>4, <1>7, <2>1 DEF Field
  <1>13. /\ DOMAIN broadcast \subseteq ToSet(Fields) \ {"additionalLifecycleInfos"}
         /\ {"zmqPubPort", "zmqRepPort", "senderId"} \subseteq DOMAIN broadcast
         /\ "senderName" \in DOMAIN broadcast <=> c >= 6
         /\ "version" \in DOMAIN broadcast <=> c >= 7 + N
         /\ "lifecycleState" \in DOMAIN broadcast <=> c >= 8 + N
         /\ "additionalStateInfos" \in DOMAIN broadcast <=> c >= 9 + N
         /\ "multicastIdentifier" \in DOMAIN broadcast <=> c >= 10 + N + L
    BY <1>4 DEF Has
  <1>14. /\ c >= 6 => IsPrefix(broadcast["senderName"], Original["senderName"])
         /\ c >= 9 + N => IsPrefix(broadcast["additionalStateInfos"], Original["additionalStateInfos"])
    BY <1>5, <1>6, <1>7
  <1>15. broadcast = [f \in DOMAIN broadcast |-> broadcast[f]]
    BY <1>4
  <1>16. QED
    BY <1>1, <1>2, <1>8, <1>9, <1>10, <1>11, <1>12, <1>13, <1>14, <1>15, ZenonT(30) DEF p, state, a, c, N, L

\* In a datagram that holds all of a multicast nothing breaks off.
LEMMA WholeDatagram ==
  ASSUME InHand, Fits(Original)
  PROVE  NothingBreaksOff(Datagram(Original))
  <1> DEFINE p == incoming.from
             state == incoming.state
             a == incoming.additional
             c == Arrived(p, a)
             N == Len(Name[p])
             L == Len(a)
             d == Datagram(Message(p, state, a))
  <1>1. /\ p \in Instances /\ state \in ModuleStates /\ a \in Seq(Bytes)
        /\ N \in Nat /\ L \in Nat /\ c \in Nat
        /\ Fits(Message(p, state, a)) <=> c = 10 + N + L
    BY ReadInHand
  <1>2. d = Datagram(Original) /\ Fits(Message(p, state, a))
    BY DEF Original
  <1>. HIDE DEF p, state, a, c, d
  <1>3. CutAt(d, c, p, state, a)
    BY <1>1, DatagramIsCut DEF c, d
  <1>4. PICK b : Layout(b, p, state, a) /\ \A k \in 1..c : d[k] = b[k]
    BY <1>3 DEF CutAt
  <1>5. Len(d) = c /\ DOMAIN d = 1..c
    BY <1>3 DEF CutAt
  <1>6. b[3] = Header("senderId", 2) /\ b[6] = Header("senderName", N) /\ b[9 + N] = Header("additionalStateInfos", L)
    BY <1>4, ZenonT(30) DEF Layout
  <1>7. b[3].length = 2 /\ b[6].length = N /\ b[9 + N].length = L
    BY <1>6, UnitFacts
  <1>8. \A k \in 1..10 + N + L : IsHeader(b[k]) => k \in {3, 6, 9 + N}
    BY <1>1, <1>4, PlacesOf DEF Placed
  <1>. HIDE DEF N, L
  <1>9. c = 10 + N + L
    BY <1>1, <1>2
  <1>10. SUFFICES ASSUME NEW k \in 1..c, IsHeader(d[k])
                  PROVE  k + d[k].length <= c
    BY <1>2, <1>5 DEF NothingBreaksOff
  <1>11. d[k] = b[k] /\ k \in {3, 6, 9 + N}
    BY <1>4, <1>8, <1>9, <1>10
  <1>12. CASE k = 3
    BY <1>1, <1>7, <1>9, <1>11, <1>12
  <1>13. CASE k = 6
    BY <1>1, <1>7, <1>9, <1>11, <1>13
  <1>14. CASE k = 9 + N
    BY <1>1, <1>7, <1>9, <1>11, <1>14
  <1>15. QED
    BY <1>11, <1>12, <1>13, <1>14

\* What was read is passed on.
LEMMA BroadcastIsParsed ==
  ASSUME InHand
  PROVE  broadcast = ParsePartial(Datagram(Original))
  <1> DEFINE m == ParsePartial(Datagram(Original))
  <1>1. m = [f \in DOMAIN m |-> m[f]]
    BY DEF ParsePartial
  <1>. HIDE DEF m
  <1>2. Copy(m) = m
    BY <1>1, CopyIsSame
  <1>3. QED
    BY <1>2 DEF InHand, m

\* The fields in order.
LEMMA FieldsInOrder ==
  /\ DOMAIN Fields = 1..9 /\ 1..9 = {1, 2, 3, 4, 5, 6, 7, 8, 9}
  /\ Fields[1] = "zmqPubPort" /\ Fields[2] = "zmqRepPort" /\ Fields[3] = "senderId"
  /\ Fields[4] = "senderName" /\ Fields[5] = "version" /\ Fields[6] = "lifecycleState"
  /\ Fields[7] = "additionalLifecycleInfos" /\ Fields[8] = "additionalStateInfos"
  /\ Fields[9] = "multicastIdentifier"
  /\ \A i \in 1..9 : \A f \in ToSet(SubSeq(Fields, 1, i - 1)) : \E j \in 1..i - 1 : f = Fields[j]
  <1>1. DOMAIN Fields = 1..9 /\ Len(Fields) = 9
    BY DEF Fields
  <1>2. 1..9 = {1, 2, 3, 4, 5, 6, 7, 8, 9}
    OBVIOUS
  <1>3. /\ Fields[1] = "zmqPubPort" /\ Fields[2] = "zmqRepPort" /\ Fields[3] = "senderId"
        /\ Fields[4] = "senderName" /\ Fields[5] = "version" /\ Fields[6] = "lifecycleState"
        /\ Fields[7] = "additionalLifecycleInfos" /\ Fields[8] = "additionalStateInfos"
        /\ Fields[9] = "multicastIdentifier"
    BY DEF Fields
  <1>4. ASSUME NEW i \in 1..9, NEW f \in ToSet(SubSeq(Fields, 1, i - 1))
        PROVE  \E j \in 1..i - 1 : f = Fields[j]
    <2> DEFINE before == SubSeq(Fields, 1, i - 1)
               S == {Fields[j] : j \in 1..9}
    <2>1. i - 1 \in Int /\ 1 \in Int /\ \A j \in 1..i - 1 : Fields[j] \in S
      OBVIOUS
    <2>. HIDE DEF S
    <2>2. /\ before \in Seq(S) /\ Len(before) = (IF 1 <= i - 1 THEN (i - 1) - 1 + 1 ELSE 0)
          /\ \A j \in 1..(i - 1) - 1 + 1 : before[j] = Fields[1 + j - 1]
      BY <2>1, SubSeqProperties
    <2>. HIDE DEF before
    <2>3. Len(before) = i - 1 /\ \A j \in 1..i - 1 : before[j] = Fields[j]
      BY <2>2
    <2>4. PICK j \in DOMAIN before : f = before[j]
      BY DEF ToSet, before
    <2>5. j \in 1..i - 1
      BY <2>2, <2>3, <2>4
    <2>6. QED
      BY <2>3, <2>4, <2>5
  <1>5. QED
    BY <1>1, <1>2, <1>3, <1>4

\* What comes out of the generated code went into it.
THEOREM WrittenIsRead == Spec => []ReadAsWritten
  <1>1. ASSUME SInv, thread = "process"
        PROVE  LET bytes == Datagram(Original) IN
               /\ Len(Serialize(Original)) = ByteSize(Original)
               /\ Parses(bytes) <=> Fits(Original)
               /\ Fits(Original) => broadcast = Original
               /\ \A i \in DOMAIN Fields : Has(broadcast, Fields[i]) =>
                      /\ \A f \in ToSet(SubSeq(Fields, 1, i - 1)) :
                             Field(broadcast, f) = Field(Original, f)
                      /\ IF Fields[i] \in Strings
                         THEN IsPrefix(broadcast[Fields[i]], Original[Fields[i]])
                         ELSE broadcast[Fields[i]] = Original[Fields[i]]
    <2> DEFINE c == Arrived(incoming.from, incoming.additional)
               N == Len(Name[incoming.from])
               L == Len(incoming.additional)
               Same(f) == Field(broadcast, f) = Field(Original, f)
    <2>1. InHand
      BY <1>1 DEF SInv
    <2>2. /\ N \in Nat /\ L \in Nat /\ c \in Nat /\ c >= 5 /\ c <= 10 + N + L
          /\ Fits(Original) <=> c = 10 + N + L
          /\ broadcast = [f \in DOMAIN broadcast |-> broadcast[f]]
          /\ DOMAIN broadcast \subseteq ToSet(Fields) \ {"additionalLifecycleInfos"}
          /\ {"zmqPubPort", "zmqRepPort", "senderId"} \subseteq DOMAIN broadcast
          /\ "senderName" \in DOMAIN broadcast <=> c >= 6
          /\ "version" \in DOMAIN broadcast <=> c >= 7 + N
          /\ "lifecycleState" \in DOMAIN broadcast <=> c >= 8 + N
          /\ "additionalStateInfos" \in DOMAIN broadcast <=> c >= 9 + N
          /\ "multicastIdentifier" \in DOMAIN broadcast <=> c >= 10 + N + L
      BY <2>1, FieldsRead
    <2>3. /\ Same("zmqPubPort") /\ Same("zmqRepPort") /\ Same("senderId")
          /\ c >= 6 + N => Same("senderName")
          /\ c >= 7 + N => Same("version")
          /\ c >= 8 + N => Same("lifecycleState")
          /\ Same("additionalLifecycleInfos")
          /\ c >= 9 + N + L => Same("additionalStateInfos")
          /\ c >= 10 + N + L => Same("multicastIdentifier")
      BY <2>1, FieldsRead
    <2>4. /\ c >= 6 => IsPrefix(broadcast["senderName"], Original["senderName"])
          /\ c >= 9 + N => IsPrefix(broadcast["additionalStateInfos"], Original["additionalStateInfos"])
      BY <2>1, FieldsRead
    <2>5. Len(Serialize(Original)) = ByteSize(Original)
      BY <2>1, SerializeLayout DEF InHand, Original, Layout
    <2>. HIDE DEF c, N, L, Same
    <2>6. ToSet(Fields) = {"zmqPubPort", "zmqRepPort", "senderId", "senderName", "version", "lifecycleState",
                           "additionalLifecycleInfos", "additionalStateInfos", "multicastIdentifier"}
      BY FieldsByName
    <2>7. /\ \A f \in DOMAIN Original : Original[f] = Field(Original, f)
          /\ DOMAIN Original = ToSet(Fields) \ {"additionalLifecycleInfos"}
          /\ Original = [f \in DOMAIN Original |-> Original[f]]
          /\ Field(Original, "senderId") = [typeId |-> TypeId[UniqueId[incoming.from]], instanceId |-> UniqueId[incoming.from]]
      BY OriginalFields
    <2>8. \A f \in DOMAIN broadcast : f \in DOMAIN Original /\ (Same(f) => broadcast[f] = Original[f])
      BY <2>2, <2>7 DEF Same, Field, Has
    <2>9. Parses(Datagram(Original)) <=> Fits(Original)
      <3>1. ASSUME Fits(Original)
            PROVE  Parses(Datagram(Original))
        <4>1. NothingBreaksOff(Datagram(Original))
          BY <2>1, <3>1, WholeDatagram
        <4>2. c = 10 + N + L
          BY <2>2, <3>1
        <4>3. c >= 6 /\ c >= 7 + N /\ c >= 8 + N /\ c >= 9 + N /\ c >= 10 + N + L
          BY <2>2, <4>2
        <4>4. Required \subseteq DOMAIN broadcast
          BY <2>2, <2>6, <4>3 DEF Required
        <4>5. "senderId" \in DOMAIN broadcast /\ broadcast["senderId"] = Original["senderId"]
          BY <2>2, <2>3, <2>8
        <4>6. DOMAIN broadcast["senderId"] = {"typeId", "instanceId"}
          <5>1. Original["senderId"] = [typeId |-> TypeId[UniqueId[incoming.from]], instanceId |-> UniqueId[incoming.from]]
            BY <2>7, <4>5, <2>8
          <5>2. QED
            BY <4>5, <5>1
        <4>7. IsInitialized(broadcast)
          BY <4>4, <4>6, FieldsByName DEF IsInitialized
        <4>8. QED
          BY <2>1, <4>1, <4>7, BroadcastIsParsed DEF Parses
      <3>2. ASSUME Parses(Datagram(Original))
            PROVE  Fits(Original)
        <4>1. IsInitialized(broadcast)
          BY <2>1, <3>2, BroadcastIsParsed DEF Parses
        <4>2. "multicastIdentifier" \in Required
          BY <2>6 DEF Required
        <4>3. "multicastIdentifier" \in DOMAIN broadcast
          BY <4>1, <4>2 DEF IsInitialized
        <4>4. QED
          BY <2>2, <4>3
      <3>3. QED
        BY <3>1, <3>2
    <2>10. ASSUME Fits(Original)
           PROVE  broadcast = Original
      <3>1. c = 10 + N + L
        BY <2>2, <2>10
      <3>2. /\ c >= 6 /\ c >= 7 + N /\ c >= 8 + N /\ c >= 9 + N /\ c >= 10 + N + L
            /\ c >= 6 + N /\ c >= 9 + N + L
        BY <2>2, <3>1
      <3>3. DOMAIN broadcast = DOMAIN Original
        BY <2>2, <2>6, <2>7, <3>2
      <3>4. \A f \in DOMAIN Original : Same(f)
        BY <2>3, <2>6, <2>7, <3>2
      <3>5. \A f \in DOMAIN Original : broadcast[f] = Original[f]
        BY <2>8, <3>3, <3>4
      <3>6. QED
        BY <2>2, <2>7, <3>3, <3>5
    <2>11. ASSUME NEW i \in DOMAIN Fields, Has(broadcast, Fields[i])
           PROVE  /\ \A f \in ToSet(SubSeq(Fields, 1, i - 1)) : Same(f)
                  /\ IF Fields[i] \in Strings
                     THEN IsPrefix(broadcast[Fields[i]], Original[Fields[i]])
                     ELSE broadcast[Fields[i]] = Original[Fields[i]]
      <3>1. /\ i \in 1..9 /\ 1..9 = {1, 2, 3, 4, 5, 6, 7, 8, 9}
            /\ Fields[1] = "zmqPubPort" /\ Fields[2] = "zmqRepPort" /\ Fields[3] = "senderId"
            /\ Fields[4] = "senderName" /\ Fields[5] = "version" /\ Fields[6] = "lifecycleState"
            /\ Fields[7] = "additionalLifecycleInfos" /\ Fields[8] = "additionalStateInfos"
            /\ Fields[9] = "multicastIdentifier"
        BY FieldsInOrder
      <3>2. Fields[i] \in DOMAIN broadcast /\ i # 7
        BY <2>2, <2>11, <3>1 DEF Has
      <3>3. /\ i >= 4 => c >= 6
            /\ i >= 5 => c >= 6 + N
            /\ i >= 5 => c >= 7 + N
            /\ i >= 6 => c >= 8 + N
            /\ i >= 8 => c >= 9 + N
            /\ i >= 9 => c >= 9 + N + L
            /\ i >= 9 => c >= 10 + N + L
        <4>1. i = 1 \/ i = 2 \/ i = 3 \/ i = 4 \/ i = 5 \/ i = 6 \/ i = 8 \/ i = 9
          BY <3>1, <3>2
        <4>2. i = 4 => c >= 6
          BY <2>2, <3>1, <3>2
        <4>3. i = 5 => c >= 7 + N
          BY <2>2, <3>1, <3>2
        <4>4. i = 6 => c >= 8 + N
          BY <2>2, <3>1, <3>2
        <4>5. i = 8 => c >= 9 + N
          BY <2>2, <3>1, <3>2
        <4>6. i = 9 => c >= 10 + N + L
          BY <2>2, <3>1, <3>2
        <4>7. QED
          BY <2>2, <4>1, <4>2, <4>3, <4>4, <4>5, <4>6
      <3>4. ASSUME NEW j \in 1..i - 1
            PROVE  Same(Fields[j])
        <4>1. j \in {1, 2, 3, 4, 5, 6, 7, 8} /\ j < i
          BY <3>1
        <4>2. /\ j = 4 => i >= 5
              /\ j = 5 => i >= 6
              /\ j = 6 => i >= 8
              /\ j = 8 => i >= 9
          BY <3>1, <3>2, <4>1
        <4>3. /\ Same("zmqPubPort") /\ Same("zmqRepPort") /\ Same("senderId") /\ Same("additionalLifecycleInfos")
              /\ j = 4 => Same("senderName")
              /\ j = 5 => Same("version")
              /\ j = 6 => Same("lifecycleState")
              /\ j = 8 => Same("additionalStateInfos")
          <5>1. /\ i >= 6 => c >= 7 + N
                /\ i >= 8 => c >= 8 + N
            BY <3>1, <3>3
          <5>2. QED
            BY <2>3, <3>3, <4>2, <5>1
        <4>4. QED
          BY <3>1, <4>1, <4>3
      <3>5. \A f \in ToSet(SubSeq(Fields, 1, i - 1)) : Same(f)
        BY <3>1, <3>4, FieldsInOrder
      <3>6. CASE Fields[i] \in Strings
        <4>1. i = 4 \/ i = 8
          BY <3>1, <3>2, <3>6 DEF Strings
        <4>2. CASE i = 4
          BY <2>4, <3>1, <3>3, <3>5, <3>6, <4>2
        <4>3. CASE i = 8
          BY <2>4, <3>1, <3>3, <3>5, <3>6, <4>3
        <4>4. QED
          BY <4>1, <4>2, <4>3
      <3>7. CASE Fields[i] \notin Strings
        <4>1. i \in {1, 2, 3, 5, 6, 9}
          BY <3>1, <3>2, <3>7 DEF Strings
        <4>2. Same(Fields[i])
          <5>1. /\ i = 5 => c >= 7 + N
                /\ i = 6 => c >= 8 + N
                /\ i = 9 => c >= 10 + N + L
            BY <3>1, <3>3
          <5>2. QED
            BY <2>3, <3>1, <4>1, <5>1
        <4>3. QED
          BY <2>8, <3>2, <3>5, <3>7, <4>2
      <3>8. QED
        BY <3>5, <3>6, <3>7
    <2>12. QED
      BY <2>5, <2>9, <2>10, <2>11 DEF Same
  <1>2. SInv => ReadAsWritten
    BY <1>1 DEF ReadAsWritten
  <1>3. QED
    BY <1>2, MulticastInvariant, PTL
=============================================================================
