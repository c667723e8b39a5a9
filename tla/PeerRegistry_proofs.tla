------------------------ MODULE PeerRegistry_proofs ------------------------
(***************************************************************************)
(* Lemmas about the operations of PeerRegistry, for every set of handles,  *)
(* ids and types: each operation keeps the two indexes, their lists by     *)
(* type and the states in agreement, and a registry in agreement answers   *)
(* its queries from the states.  The proofs about the components that use  *)
(* the registry rest on them.                                              *)
(***************************************************************************)
EXTENDS PeerRegistry, SequenceTheorems, FiniteSetTheorems, TLAPS

\* An index has the right types and agrees with a set of handles.
IndexOK(index, handles) == IsIndex(index) /\ IndexHolds(index, handles)

\* So does a registry, and all of its handles have a state.
RegistryOK(r) ==
    /\ IsRegistry(r) /\ IndexesAgree(r)
    /\ \A h \in r.all.peers : UniqueId[h] \in DOMAIN r.states

RemoveId(list, id) == RemoveFirstMatch(list, LAMBDA h : UniqueId[h] = id)

USE IdsAssumption

(***************************************************************************)
(* The lists by type.                                                      *)
(***************************************************************************)
\* A sequence without its k-th element.
LEMMA RemoveAtFacts ==
  ASSUME NEW S, NEW list \in Seq(S), NEW k \in 1..Len(list)
  PROVE  /\ RemoveAt(list, k) \in Seq(S)
         /\ Len(RemoveAt(list, k)) = Len(list) - 1
         /\ \A i \in 1..Len(list) - 1 : RemoveAt(list, k)[i] = IF i < k THEN list[i] ELSE list[i + 1]
  <1>. DEFINE a == SubSeq(list, 1, k - 1)
              b == SubSeq(list, k + 1, Len(list))
  <1>1. Len(list) \in Nat /\ k \in Nat /\ k - 1 \in Nat
    OBVIOUS
  <1>2. /\ a \in Seq(S) /\ Len(a) = k - 1
        /\ \A i \in 1..k - 1 : a[i] = list[i]
    <2>1. \A i \in 1..k - 1 : list[i] \in S
      BY <1>1
    <2>2. QED
      BY <1>1, <2>1, SubSeqProperties
  <1>3. /\ b \in Seq(S) /\ Len(b) = Len(list) - k
        /\ \A i \in 1..Len(list) - k : b[i] = list[k + i]
    <2>1. \A i \in k + 1..Len(list) : list[i] \in S
      BY <1>1
    <2>2. QED
      BY <1>1, <2>1, SubSeqProperties
  <1>4. RemoveAt(list, k) = a \o b
    BY DEF RemoveAt
  <1>. HIDE DEF a, b
  <1>5. /\ a \o b \in Seq(S) /\ Len(a \o b) = Len(a) + Len(b)
        /\ \A i \in 1..Len(a) + Len(b) : (a \o b)[i] = IF i <= Len(a) THEN a[i] ELSE b[i - Len(a)]
    BY <1>2, <1>3, ConcatProperties
  <1>6. Len(a) + Len(b) = Len(list) - 1
    BY <1>1, <1>2, <1>3
  <1>7. ASSUME NEW i \in 1..Len(list) - 1
        PROVE  (a \o b)[i] = IF i < k THEN list[i] ELSE list[i + 1]
    <2>1. CASE i < k
      BY <1>1, <1>2, <1>5, <1>6, <2>1
    <2>2. CASE ~(i < k)
      <3>1. i - (k - 1) \in 1..Len(list) - k /\ k + (i - (k - 1)) = i + 1 /\ ~(i <= k - 1)
        BY <1>1, <2>2
      <3>2. QED
        <4>1. i \in 1..Len(a) + Len(b) /\ Len(a) = k - 1
          BY <1>2, <1>6
        <4>2. (a \o b)[i] = b[i - (k - 1)]
          BY <1>5, <3>1, <4>1
        <4>3. b[i - (k - 1)] = list[k + (i - (k - 1))]
          BY <1>3, <3>1
        <4>4. QED
          BY <2>2, <3>1, <4>2, <4>3
    <2>3. QED
      BY <2>1, <2>2
  <1>8. QED
    BY <1>4, <1>5, <1>6, <1>7

\* An id that is not in a list is not removed from it.
LEMMA RemoveAbsent ==
  ASSUME NEW list \in Seq(Instances), NEW id, \A i \in 1..Len(list) : UniqueId[list[i]] # id
  PROVE  RemoveId(list, id) = list
  BY DEF RemoveId, RemoveFirstMatch

\* The first handle with an id goes.
LEMMA RemoveIsAt ==
  ASSUME NEW list \in Seq(Instances), NEW id, NEW j \in 1..Len(list), UniqueId[list[j]] = id
  PROVE  \E k \in 1..Len(list) : UniqueId[list[k]] = id /\ RemoveId(list, id) = RemoveAt(list, k)
  <1>. DEFINE I == {i \in 1..Len(list) : UniqueId[list[i]] = id}
  <1>1. I # {} /\ I \subseteq Nat /\ I \subseteq 1..Len(list)
    OBVIOUS
  <1>2. RemoveId(list, id) = RemoveAt(list, Min(I))
    BY <1>1 DEF RemoveId, RemoveFirstMatch, SelectInSeq
  <1>3. \E m \in I : \A n \in I : m <= n
    <2>. HIDE DEF I
    <2>1. PICK m \in I : \A n \in I : ~(<<n, m>> \in OpToRel(<, Nat))
      BY <1>1, NatLessThanWellFounded, WFMin
    <2>2. \A n \in I : ~(n < m)
      BY <1>1, <2>1, Zenon DEF OpToRel
    <2>3. \A n \in I : n \in Nat /\ m \in Nat /\ ~(n < m)
      BY <1>1, <2>2
    <2>4. \A n \in I : m <= n
      BY <2>3
    <2>5. QED
      BY <2>4
  <1>4. Min(I) \in I
    BY <1>3 DEF Min
  <1>5. QED
    BY <1>1, <1>2, <1>4

\* A list without repeated ids loses the handle with an id, and nothing else.
LEMMA RemoveIdFacts ==
  ASSUME NEW list \in Seq(Instances), NEW id, IsInjective(list),
         \A g, h \in ToSet(list) : UniqueId[g] = UniqueId[h] => g = h,
         \E h \in ToSet(list) : UniqueId[h] = id
  PROVE  /\ RemoveId(list, id) \in Seq(Instances) /\ IsInjective(RemoveId(list, id))
         /\ Len(RemoveId(list, id)) = Len(list) - 1
         /\ ToSet(RemoveId(list, id)) = {h \in ToSet(list) : UniqueId[h] # id}
  <1>1. DOMAIN list = 1..Len(list) /\ Len(list) \in Nat
    OBVIOUS
  <1>2. PICK k \in 1..Len(list) : UniqueId[list[k]] = id /\ RemoveId(list, id) = RemoveAt(list, k)
    BY <1>1, RemoveIsAt DEF ToSet
  <1>. DEFINE n == RemoveAt(list, k)
              From(i) == IF i < k THEN i ELSE i + 1
  <1>3. /\ n \in Seq(Instances) /\ Len(n) = Len(list) - 1 /\ DOMAIN n = 1..Len(list) - 1
        /\ \A i \in 1..Len(list) - 1 : n[i] = IF i < k THEN list[i] ELSE list[i + 1]
    BY RemoveAtFacts
  <1>. HIDE DEF n
  <1>4. \A i \in 1..Len(list) - 1 : From(i) \in 1..Len(list) /\ From(i) # k /\ n[i] = list[From(i)]
    BY <1>1, <1>3
  <1>5. \A i, j \in 1..Len(list) - 1 : From(i) = From(j) => i = j
    BY <1>1
  <1>6. \A m \in 1..Len(list) : m # k => \E i \in 1..Len(list) - 1 : From(i) = m
    <2>1. SUFFICES ASSUME NEW m \in 1..Len(list), m # k
                   PROVE  \E i \in 1..Len(list) - 1 : From(i) = m
      OBVIOUS
    <2>2. CASE m < k
      <3>1. m \in 1..Len(list) - 1 /\ From(m) = m
        BY <1>1, <2>2
      <3>2. QED
        BY <3>1
    <2>3. CASE ~(m < k)
      <3>1. m - 1 \in 1..Len(list) - 1 /\ From(m - 1) = m
        BY <1>1, <2>1, <2>3
      <3>2. QED
        BY <3>1
    <2>4. QED
      BY <2>2, <2>3
  <1>. HIDE DEF From
  <1>7. \A i, j \in 1..Len(list) : list[i] = list[j] => i = j
    BY <1>1 DEF IsInjective
  <1>8. IsInjective(n)
    BY <1>3, <1>4, <1>5, <1>7, SMTT(30) DEF IsInjective
  <1>9. \A m \in 1..Len(list) : UniqueId[list[m]] = id <=> m = k
    <2>1. \A m \in 1..Len(list) : list[m] \in ToSet(list)
      BY <1>1 DEF ToSet
    <2>2. QED
      BY <1>2, <1>7, <2>1
  <1>10. ToSet(n) \subseteq {h \in ToSet(list) : UniqueId[h] # id}
    <2>1. \A i \in 1..Len(list) - 1 : n[i] \in ToSet(list) /\ UniqueId[n[i]] # id
      <3>1. SUFFICES ASSUME NEW i \in 1..Len(list) - 1
                     PROVE  n[i] \in ToSet(list) /\ UniqueId[n[i]] # id
        OBVIOUS
      <3>2. From(i) \in 1..Len(list) /\ From(i) # k /\ n[i] = list[From(i)]
        BY <1>4
      <3>3. QED
        BY <1>1, <1>9, <3>2 DEF ToSet
    <2>2. ToSet(n) = {n[i] : i \in 1..Len(list) - 1}
      BY <1>3 DEF ToSet
    <2>3. QED
      BY <2>1, <2>2
  <1>11. \A m \in 1..Len(list) : m # k => list[m] \in ToSet(n)
    <2>1. SUFFICES ASSUME NEW m \in 1..Len(list), m # k
                   PROVE  list[m] \in ToSet(n)
      OBVIOUS
    <2>2. PICK i \in 1..Len(list) - 1 : From(i) = m
      BY <1>6, <2>1
    <2>3. n[i] = list[m]
      BY <1>4, <2>2
    <2>4. QED
      BY <1>3, <2>3 DEF ToSet
  <1>12. {h \in ToSet(list) : UniqueId[h] # id} \subseteq ToSet(n)
    BY <1>1, <1>9, <1>11 DEF ToSet
  <1>13. QED
    BY <1>2, <1>3, <1>8, <1>10, <1>12 DEF n

\* A handle that is not in a list is added to it.
LEMMA AppendFacts ==
  ASSUME NEW list \in Seq(Instances), NEW h \in Instances, IsInjective(list), h \notin ToSet(list)
  PROVE  /\ Append(list, h) \in Seq(Instances) /\ IsInjective(Append(list, h))
         /\ ToSet(Append(list, h)) = ToSet(list) \cup {h}
  <1>. DEFINE n == Append(list, h)
  <1>1. /\ n \in Seq(Instances) /\ Len(n) = Len(list) + 1 /\ Len(list) \in Nat
        /\ DOMAIN n = 1..Len(list) + 1 /\ DOMAIN list = 1..Len(list)
        /\ \A i \in 1..Len(list) : n[i] = list[i]
        /\ n[Len(list) + 1] = h
    BY AppendProperties
  <1>. HIDE DEF n
  <1>2. \A i \in 1..Len(list) + 1 : i \in 1..Len(list) \/ i = Len(list) + 1
    BY <1>1
  <1>3. \A i \in 1..Len(list) : i \in 1..Len(list) + 1 /\ n[i] = list[i] /\ n[i] \in ToSet(list)
    BY <1>1 DEF ToSet
  <1>4. Len(list) + 1 \in 1..Len(list) + 1
    BY <1>1
  <1>5. \A i, j \in 1..Len(list) + 1 : n[i] = n[j] => i = j
    BY <1>1, <1>2, <1>3 DEF IsInjective
  <1>6. IsInjective(n)
    BY <1>1, <1>5 DEF IsInjective
  <1>7. ToSet(n) = ToSet(list) \cup {h}
    BY <1>1, <1>2, <1>3, <1>4 DEF ToSet
  <1>8. QED
    BY <1>1, <1>6, <1>7 DEF n

(***************************************************************************)
(* One index.                                                              *)
(***************************************************************************)
\* The list of a type holds the handles of that type, once each.
LEMMA ListFacts ==
  ASSUME NEW index, NEW handles, IndexOK(index, handles), NEW type \in Types
  PROVE  /\ ListOf(index, type) \in Seq(Instances) /\ IsInjective(ListOf(index, type))
         /\ ToSet(ListOf(index, type)) = {h \in handles : TypeId[UniqueId[h]] = type}
  <1>1. CASE type \in DOMAIN index.byType
    BY <1>1 DEF IndexOK, IsIndex, IsMap, IndexHolds, ListOf
  <1>2. CASE type \notin DOMAIN index.byType
    <2>1. {h \in handles : TypeId[UniqueId[h]] = type} = {}
      BY <1>2 DEF IndexOK, IndexHolds
    <2>2. ListOf(index, type) = <<>> /\ <<>> \in Seq(Instances) /\ DOMAIN <<>> = {}
      BY <1>2 DEF ListOf
    <2>3. QED
      BY <2>1, <2>2 DEF IsInjective, ToSet
  <1>3. QED
    BY <1>1, <1>2

\* Adding a handle whose id is new keeps the agreement.
LEMMA AddIndex ==
  ASSUME NEW index, NEW handles, IndexOK(index, handles), NEW h \in Instances,
         ~HasId(index, UniqueId[h])
  PROVE  IndexOK(AddModuleInternal(index, h), handles \cup {h})
  <1>. DEFINE type == TypeId[UniqueId[h]]
              list == ListOf(index, type)
              n == AddModuleInternal(index, h)
  <1>1. type \in Types /\ handles = index.peers /\ handles \subseteq Instances
    BY IdsAssumption DEF IndexOK, IndexHolds, IsIndex
  <1>2. \A g \in handles : UniqueId[g] # UniqueId[h]
    BY <1>1 DEF HasId
  <1>3. /\ list \in Seq(Instances) /\ IsInjective(list)
        /\ ToSet(list) = {g \in handles : TypeId[UniqueId[g]] = type}
    BY <1>1, ListFacts
  <1>4. h \notin ToSet(list)
    BY <1>2, <1>3
  <1>5. /\ Append(list, h) \in Seq(Instances) /\ IsInjective(Append(list, h))
        /\ ToSet(Append(list, h)) = ToSet(list) \cup {h}
    BY <1>3, <1>4, AppendFacts
  <1>6. n = [peers |-> handles \cup {h}, byType |-> Put(index.byType, type, Append(list, h))]
    BY <1>1 DEF AddModuleInternal
  <1>7. /\ DOMAIN n.byType = DOMAIN index.byType \cup {type}
        /\ \A t \in DOMAIN n.byType : n.byType[t] = IF t = type THEN Append(list, h) ELSE index.byType[t]
        /\ n.byType = [t \in DOMAIN n.byType |-> n.byType[t]]
    BY <1>6 DEF Put
  <1>. HIDE DEF n
  <1>8. IsIndex(n)
    <2>1. n = [peers |-> n.peers, byType |-> n.byType] /\ n.peers \subseteq Instances
      BY <1>1, <1>6
    <2>2. DOMAIN n.byType \subseteq Types
      BY <1>1, <1>7 DEF IndexOK, IsIndex, IsMap
    <2>3. \A t \in DOMAIN n.byType : n.byType[t] \in Seq(Instances)
      BY <1>5, <1>7 DEF IndexOK, IsIndex, IsMap
    <2>4. n.byType \in [DOMAIN n.byType -> Seq(Instances)]
      BY <1>7, <2>3
    <2>5. QED
      BY <2>1, <2>2, <2>4 DEF IsIndex, IsMap
  <1>9. DOMAIN n.byType = {TypeId[UniqueId[g]] : g \in handles \cup {h}}
    BY <1>7 DEF IndexOK, IndexHolds
  <1>10. ASSUME NEW t \in DOMAIN n.byType
         PROVE  /\ IsInjective(n.byType[t])
                /\ ToSet(n.byType[t]) = {g \in handles \cup {h} : TypeId[UniqueId[g]] = t}
    <2>1. CASE t = type
      BY <1>3, <1>5, <1>7, <2>1
    <2>2. CASE t # type
      <3>1. t \in DOMAIN index.byType /\ n.byType[t] = index.byType[t]
        BY <1>7, <2>2
      <3>2. QED
        BY <2>2, <3>1 DEF IndexOK, IndexHolds
    <2>3. QED
      BY <2>1, <2>2
  <1>11. \A f, g \in handles \cup {h} : UniqueId[f] = UniqueId[g] => f = g
    BY <1>2 DEF IndexOK, IndexHolds
  <1>12. IndexHolds(n, handles \cup {h})
    BY <1>6, <1>9, <1>10, <1>11 DEF IndexHolds
  <1>13. QED
    BY <1>8, <1>12 DEF IndexOK, n

\* Removing an id keeps the agreement.
LEMMA RemoveIndex ==
  ASSUME NEW index, NEW handles, IndexOK(index, handles), NEW id \in Ids
  PROVE  IndexOK(RemoveModuleInternal(index, id), {h \in handles : UniqueId[h] # id})
  <1>. DEFINE type == TypeId[id]
              list == ListOf(index, type)
              rest == {h \in handles : UniqueId[h] # id}
              n == RemoveModuleInternal(index, id)
  <1>1. /\ type \in Types /\ handles = index.peers /\ handles \subseteq Instances
        /\ \A f, g \in handles : UniqueId[f] = UniqueId[g] => f = g
        /\ DOMAIN index.byType \subseteq Types /\ index.byType \in [DOMAIN index.byType -> Seq(Instances)]
        /\ DOMAIN index.byType = {TypeId[UniqueId[g]] : g \in handles}
        /\ \A t \in DOMAIN index.byType :
             /\ IsInjective(index.byType[t])
             /\ ToSet(index.byType[t]) = {g \in handles : TypeId[UniqueId[g]] = t}
    BY IdsAssumption DEF IndexOK, IndexHolds, IsIndex, IsMap
  <1>2. CASE ~HasId(index, id)
    <2>1. n = index
      BY <1>2 DEF RemoveModuleInternal
    <2>2. rest = handles
      BY <1>1, <1>2 DEF HasId
    <2>3. QED
      BY <2>1, <2>2
  <1>3. CASE HasId(index, id)
    <2>1. PICK h \in handles : UniqueId[h] = id
      BY <1>1, <1>3 DEF HasId
    <2>2. /\ list \in Seq(Instances) /\ IsInjective(list) /\ DOMAIN list = 1..Len(list) /\ Len(list) \in Nat
          /\ ToSet(list) = {g \in handles : TypeId[UniqueId[g]] = type}
      BY <1>1, ListFacts
    <2>3. h \in ToSet(list) /\ \A f, g \in ToSet(list) : UniqueId[f] = UniqueId[g] => f = g
      BY <1>1, <2>1, <2>2
    <2>4. /\ RemoveId(list, id) \in Seq(Instances) /\ IsInjective(RemoveId(list, id))
          /\ Len(RemoveId(list, id)) = Len(list) - 1
          /\ ToSet(RemoveId(list, id)) = {g \in ToSet(list) : UniqueId[g] # id}
      <3>. HIDE DEF list
      <3>1. \A f, g \in ToSet(list) : UniqueId[f] = UniqueId[g] => f = g
        BY <2>3
      <3>2. \E g \in ToSet(list) : UniqueId[g] = id
        BY <2>1, <2>3
      <3>3. list \in Seq(Instances) /\ IsInjective(list)
        BY <2>2
      <3>4. QED
        BY <3>1, <3>2, <3>3, RemoveIdFacts
    <2>5. ToSet(RemoveId(list, id)) = {g \in rest : TypeId[UniqueId[g]] = type}
      BY <2>2, <2>4
    <2>6. type \in DOMAIN index.byType
      BY <1>1, <2>1
    <2>7. CASE Len(list) = 1
      <3>1. n = [peers |-> rest, byType |-> Restrict(index.byType, DOMAIN index.byType \ {type})]
        BY <1>1, <1>3, <2>7 DEF RemoveModuleInternal
      <3>2. ToSet(list) = {h}
        BY <2>2, <2>3, <2>7 DEF ToSet
      <3>3. \A g \in handles : TypeId[UniqueId[g]] = type => g = h
        BY <2>2, <3>2
      <3>4. /\ DOMAIN n.byType = DOMAIN index.byType \ {type}
            /\ \A t \in DOMAIN n.byType : n.byType[t] = index.byType[t]
            /\ n.byType = [t \in DOMAIN n.byType |-> n.byType[t]]
        BY <3>1 DEF Restrict
      <3>. HIDE DEF n
      <3>5. n = [peers |-> n.peers, byType |-> n.byType] /\ n.peers = rest /\ rest \subseteq Instances
        BY <1>1, <3>1
      <3>6. IsMap(n.byType, Types, Seq(Instances))
        <4>1. \A t \in DOMAIN n.byType : n.byType[t] \in Seq(Instances)
          BY <1>1, <3>4
        <4>2. QED
          BY <1>1, <3>4, <4>1 DEF IsMap
      <3>7. \A g \in handles : g \in rest <=> TypeId[UniqueId[g]] # type \/ g # h
        BY <1>1, <2>1
      <3>8. DOMAIN n.byType = {TypeId[UniqueId[g]] : g \in rest}
        BY <1>1, <2>1, <3>3, <3>4
      <3>9. \A t \in DOMAIN n.byType : {g \in handles : TypeId[UniqueId[g]] = t} = {g \in rest : TypeId[UniqueId[g]] = t}
        BY <2>1, <3>4
      <3>10. \A t \in DOMAIN n.byType :
               /\ IsInjective(n.byType[t])
               /\ ToSet(n.byType[t]) = {g \in rest : TypeId[UniqueId[g]] = t}
        BY <1>1, <3>4, <3>9
      <3>11. \A f, g \in rest : UniqueId[f] = UniqueId[g] => f = g
        BY <1>1
      <3>12. IndexHolds(n, rest)
        BY <3>5, <3>8, <3>10, <3>11 DEF IndexHolds
      <3>13. QED
        BY <3>5, <3>6, <3>12 DEF IndexOK, IsIndex, n
    <2>8. CASE Len(list) # 1
      <3>1. n = [peers |-> rest, byType |-> Put(index.byType, type, RemoveId(list, id))]
        BY <1>1, <1>3, <2>8 DEF RemoveModuleInternal, RemoveId
      <3>2. \E g \in rest : TypeId[UniqueId[g]] = type
        <4>1. Len(RemoveId(list, id)) \in Nat \ {0}
          <5>1. Len(list) # 0
            BY <2>2, <2>3 DEF ToSet
          <5>2. QED
            BY <2>2, <2>4, <2>8, <5>1
        <4>2. 1 \in DOMAIN RemoveId(list, id)
          BY <2>4, <4>1
        <4>3. RemoveId(list, id)[1] \in ToSet(RemoveId(list, id))
          BY <4>2 DEF ToSet
        <4>4. QED
          BY <2>5, <4>3
      <3>3. /\ DOMAIN n.byType = DOMAIN index.byType
            /\ \A t \in DOMAIN n.byType : n.byType[t] = IF t = type THEN RemoveId(list, id) ELSE index.byType[t]
            /\ n.byType = [t \in DOMAIN n.byType |-> n.byType[t]]
        BY <2>6, <3>1 DEF Put
      <3>. HIDE DEF n
      <3>4. n = [peers |-> n.peers, byType |-> n.byType] /\ n.peers = rest /\ rest \subseteq Instances
        BY <1>1, <3>1
      <3>5. IsMap(n.byType, Types, Seq(Instances))
        <4>1. \A t \in DOMAIN n.byType : n.byType[t] \in Seq(Instances)
          BY <1>1, <2>4, <3>3
        <4>2. QED
          BY <1>1, <3>3, <4>1 DEF IsMap
      <3>6. DOMAIN n.byType = {TypeId[UniqueId[g]] : g \in rest}
        <4>1. \A g \in handles : g \in rest \/ TypeId[UniqueId[g]] = type
          OBVIOUS
        <4>2. QED
          BY <1>1, <3>2, <3>3, <4>1
      <3>7. ASSUME NEW t \in DOMAIN n.byType
            PROVE  /\ IsInjective(n.byType[t])
                   /\ ToSet(n.byType[t]) = {g \in rest : TypeId[UniqueId[g]] = t}
        <4>1. CASE t = type
          BY <2>4, <2>5, <3>3, <4>1
        <4>2. CASE t # type
          <5>1. {g \in handles : TypeId[UniqueId[g]] = t} = {g \in rest : TypeId[UniqueId[g]] = t}
            BY <4>2
          <5>2. n.byType[t] = index.byType[t] /\ t \in DOMAIN index.byType
            BY <3>3, <4>2
          <5>3. QED
            BY <1>1, <5>1, <5>2
        <4>3. QED
          BY <4>1, <4>2
      <3>8. \A f, g \in rest : UniqueId[f] = UniqueId[g] => f = g
        BY <1>1
      <3>9. IndexHolds(n, rest)
        BY <3>4, <3>6, <3>7, <3>8 DEF IndexHolds
      <3>10. QED
        BY <3>4, <3>5, <3>9 DEF IndexOK, IsIndex, n
    <2>9. QED
      BY <2>7, <2>8
  <1>4. QED
    BY <1>2, <1>3

(***************************************************************************)
(* The registry.                                                           *)
(***************************************************************************)
\* A registry in agreement, part by part.
LEMMA RegistryParts ==
  ASSUME NEW r
  PROVE  RegistryOK(r) <=>
            /\ r = [all |-> r.all, active |-> r.active, states |-> r.states]
            /\ IndexOK(r.all, r.all.peers)
            /\ IndexOK(r.active, {h \in r.all.peers : r.states[UniqueId[h]] = "Active"})
            /\ IsMap(r.states, Ids, ModuleStates)
            /\ \A h \in r.all.peers : /\ UniqueId[h] \in DOMAIN r.states
                                      /\ r.states[UniqueId[h]] # "Dead"
  <1>1. \A h \in r.all.peers : StateOf(r, UniqueId[h]) = r.states[UniqueId[h]]
    BY DEF StateOf, HasId
  <1>2. {h \in r.all.peers : StateOf(r, UniqueId[h]) = "Active"}
          = {h \in r.all.peers : r.states[UniqueId[h]] = "Active"}
    BY <1>1
  <1>3. QED
    BY <1>1, <1>2 DEF RegistryOK, IsRegistry, IndexesAgree, IndexOK

\* The registry in the beginning.
LEMMA EmptyOK == RegistryOK(EmptyRegistry)
  <1>1. /\ EmptyRegistry = [all |-> NoPeers, active |-> NoPeers, states |-> <<>>]
        /\ NoPeers = [peers |-> {}, byType |-> <<>>]
        /\ DOMAIN <<>> = {}
    BY DEF EmptyRegistry, NoPeers
  <1>2. IsMap(<<>>, Ids, ModuleStates) /\ IsMap(<<>>, Types, Seq(Instances))
    BY <1>1 DEF IsMap
  <1>3. IndexOK(NoPeers, {})
    BY <1>1, <1>2 DEF IndexOK, IsIndex, IndexHolds
  <1>4. QED
    BY <1>1, <1>2, <1>3, RegistryParts

\* A new peer.
LEMMA AddModuleOK ==
  ASSUME NEW r, RegistryOK(r), NEW h \in Instances, NEW state \in ModuleStates, state # "Dead"
  PROVE  RegistryOK(AddModule(r, h, state))
  <1>. DEFINE id == UniqueId[h]
              n == AddModule(r, h, state)
              actives == {g \in r.all.peers : r.states[UniqueId[g]] = "Active"}
  <1>1. /\ IndexOK(r.all, r.all.peers) /\ IndexOK(r.active, actives)
        /\ IsMap(r.states, Ids, ModuleStates)
        /\ \A g \in r.all.peers : /\ UniqueId[g] \in DOMAIN r.states
                                  /\ r.states[UniqueId[g]] # "Dead"
    BY RegistryParts
  <1>2. CASE HasId(r.all, id)
    BY <1>2 DEF AddModule
  <1>3. CASE ~HasId(r.all, id)
    <2>1. /\ n.all = AddModuleInternal(r.all, h)
          /\ n.active = IF state = "Active" THEN AddModuleInternal(r.active, h) ELSE r.active
          /\ n.states = Put(r.states, id, state)
          /\ n = [all |-> n.all, active |-> n.active, states |-> n.states]
      BY <1>3 DEF AddModule
    <2>2. n.all.peers = r.all.peers \cup {h}
      BY <1>3, <2>1 DEF AddModuleInternal
    <2>3. id \in Ids /\ \A g \in r.all.peers : UniqueId[g] # id
      BY <1>3, IdsAssumption DEF HasId
    <2>4. /\ DOMAIN n.states = DOMAIN r.states \cup {id}
          /\ n.states = [i \in DOMAIN n.states |-> n.states[i]]
          /\ \A i \in DOMAIN n.states : n.states[i] = IF i = id THEN state ELSE r.states[i]
      BY <2>1 DEF Put
    <2>. HIDE DEF n
    <2>5. IsMap(n.states, Ids, ModuleStates)
      <3>1. \A i \in DOMAIN n.states : n.states[i] \in ModuleStates
        BY <1>1, <2>4 DEF IsMap
      <3>2. QED
        BY <1>1, <2>3, <2>4, <3>1 DEF IsMap
    <2>6. \A g \in n.all.peers : /\ UniqueId[g] \in DOMAIN n.states
                                 /\ n.states[UniqueId[g]] # "Dead"
      BY <1>1, <2>2, <2>4
    <2>7. IndexOK(n.all, n.all.peers)
      BY <1>1, <1>3, <2>1, <2>2, AddIndex
    <2>8. {g \in n.all.peers : n.states[UniqueId[g]] = "Active"}
             = IF state = "Active" THEN actives \cup {h} ELSE actives
      BY <1>1, <2>2, <2>3, <2>4
    <2>9. r.active.peers = actives /\ ~HasId(r.active, id)
      BY <1>1, <2>3 DEF IndexOK, IndexHolds, HasId
    <2>10. IndexOK(n.active, {g \in n.all.peers : n.states[UniqueId[g]] = "Active"})
      <3>. HIDE DEF actives
      <3>1. CASE state = "Active"
        <4>1. IndexOK(AddModuleInternal(r.active, h), actives \cup {h})
          BY <1>1, <2>9, AddIndex
        <4>2. QED
          BY <2>1, <2>8, <3>1, <4>1
      <3>2. CASE state # "Active"
        BY <1>1, <2>1, <2>8, <3>2
      <3>3. QED
        BY <3>1, <3>2
    <2>11. QED
      BY <2>1, <2>5, <2>6, <2>7, <2>10, RegistryParts DEF n
  <1>4. QED
    BY <1>2, <1>3

\* A removed peer.
LEMMA RemoveModuleOK ==
  ASSUME NEW r, RegistryOK(r), NEW id \in Ids
  PROVE  RegistryOK(RemoveModule(r, id))
  <1>. DEFINE n == RemoveModule(r, id)
              rest == {g \in r.all.peers : UniqueId[g] # id}
              actives == {g \in r.all.peers : r.states[UniqueId[g]] = "Active"}
  <1>1. /\ IndexOK(r.all, r.all.peers) /\ IndexOK(r.active, actives)
        /\ IsMap(r.states, Ids, ModuleStates)
        /\ r = [all |-> r.all, active |-> r.active, states |-> r.states]
        /\ \A g \in r.all.peers : /\ UniqueId[g] \in DOMAIN r.states
                                  /\ r.states[UniqueId[g]] # "Dead"
    BY RegistryParts
  <1>2. CASE ~HasId(r.all, id)
    BY <1>2 DEF RemoveModule
  <1>3. CASE HasId(r.all, id)
    <2>1. /\ n.all = RemoveModuleInternal(r.all, id)
          /\ n.active = RemoveModuleInternal(r.active, id)
          /\ n.states = r.states
          /\ n = [all |-> n.all, active |-> n.active, states |-> n.states]
      BY <1>1, <1>3 DEF RemoveModule
    <2>. HIDE DEF n
    <2>2. IndexOK(n.all, rest)
      BY <1>1, <2>1, RemoveIndex
    <2>3. n.all.peers = rest
      BY <2>2 DEF IndexOK, IndexHolds
    <2>4. {g \in n.all.peers : n.states[UniqueId[g]] = "Active"} = {g \in actives : UniqueId[g] # id}
      BY <2>1, <2>3
    <2>5. IndexOK(n.active, {g \in actives : UniqueId[g] # id})
      <3>. HIDE DEF actives
      <3>1. QED
        BY <1>1, <2>1, RemoveIndex
    <2>6. \A g \in n.all.peers : /\ UniqueId[g] \in DOMAIN n.states
                                 /\ n.states[UniqueId[g]] # "Dead"
      BY <1>1, <2>1, <2>3
    <2>7. QED
      BY <1>1, <2>1, <2>2, <2>3, <2>4, <2>5, <2>6, RegistryParts DEF n
  <1>4. QED
    BY <1>2, <1>3

\* A peer in another state.
LEMMA UpdatePeerStateOK ==
  ASSUME NEW r, RegistryOK(r), NEW id \in Ids, HasId(r.all, id),
         NEW state \in ModuleStates, state # "Dead"
  PROVE  RegistryOK(UpdatePeerState(r, id, state))
  <1>. DEFINE n == UpdatePeerState(r, id, state)
              h == HandleOf(r.all, id)
              actives == {g \in r.all.peers : r.states[UniqueId[g]] = "Active"}
  <1>1. /\ IndexOK(r.all, r.all.peers) /\ IndexOK(r.active, actives)
        /\ IsMap(r.states, Ids, ModuleStates)
        /\ r = [all |-> r.all, active |-> r.active, states |-> r.states]
        /\ \A g \in r.all.peers : /\ UniqueId[g] \in DOMAIN r.states
                                  /\ r.states[UniqueId[g]] # "Dead"
    BY RegistryParts
  <1>2. /\ h \in r.all.peers /\ UniqueId[h] = id /\ h \in Instances
        /\ \A g \in r.all.peers : UniqueId[g] = id <=> g = h
    BY <1>1 DEF HasId, HandleOf, IndexOK, IsIndex, IndexHolds
  <1>3. id \in DOMAIN r.states
    BY <1>1, <1>2
  <1>4. CASE r.states[id] = state
    BY <1>4 DEF UpdatePeerState
  <1>5. CASE r.states[id] # state
    <2>1. /\ n.all = r.all
          /\ n.states = [r.states EXCEPT ![id] = state]
          /\ n = [all |-> n.all, active |-> n.active, states |-> n.states]
      BY <1>1, <1>3, <1>5 DEF UpdatePeerState
    <2>2. state # "Active" => n.active = RemoveModuleInternal(r.active, id)
      BY <1>1, <1>3, <1>5 DEF UpdatePeerState
    <2>3. state = "Active" /\ ~HasId(r.active, id) => n.active = AddModuleInternal(r.active, h)
      BY <1>1, <1>3, <1>5 DEF UpdatePeerState
    <2>. HIDE DEF n, h
    <2>4. /\ DOMAIN n.states = DOMAIN r.states
          /\ \A i \in DOMAIN n.states : n.states[i] = IF i = id THEN state ELSE r.states[i]
          /\ n.states \in [DOMAIN n.states -> ModuleStates]
      <3>1. DOMAIN r.states \subseteq Ids /\ r.states \in [DOMAIN r.states -> ModuleStates]
        BY <1>1 DEF IsMap
      <3>2. QED
        BY <2>1, <3>1
    <2>5. IsMap(n.states, Ids, ModuleStates)
      BY <1>1, <2>4 DEF IsMap
    <2>6. \A g \in n.all.peers : /\ UniqueId[g] \in DOMAIN n.states
                                 /\ n.states[UniqueId[g]] # "Dead"
      BY <1>1, <2>1, <2>4
    <2>7. r.active.peers = actives
      BY <1>1 DEF IndexOK, IndexHolds
    <2>8. CASE state # "Active"
      <3>1. {g \in n.all.peers : n.states[UniqueId[g]] = "Active"} = {g \in actives : UniqueId[g] # id}
        BY <1>1, <1>2, <2>1, <2>4, <2>8
      <3>2. IndexOK(n.active, {g \in actives : UniqueId[g] # id})
        <4>. HIDE DEF actives
        <4>1. n.active = RemoveModuleInternal(r.active, id)
          BY <2>2, <2>8
        <4>2. QED
          BY <1>1, <4>1, RemoveIndex
      <3>3. QED
        BY <1>1, <2>1, <2>6, <2>5, <3>1, <3>2, RegistryParts DEF n
    <2>9. CASE state = "Active"
      <3>1. h \notin actives /\ ~HasId(r.active, id)
        BY <1>2, <1>5, <2>7, <2>9 DEF HasId
      <3>2. {g \in n.all.peers : n.states[UniqueId[g]] = "Active"} = actives \cup {h}
        BY <1>1, <1>2, <2>1, <2>4, <2>9
      <3>3. IndexOK(n.active, actives \cup {h})
        <4>. HIDE DEF actives
        <4>1. n.active = AddModuleInternal(r.active, h)
          BY <2>3, <2>9, <3>1
        <4>2. QED
          BY <1>1, <1>2, <3>1, <4>1, AddIndex
      <3>4. QED
        BY <1>1, <2>1, <2>6, <2>5, <3>2, <3>3, RegistryParts DEF n
    <2>10. QED
      BY <2>8, <2>9
  <1>6. QED
    BY <1>4, <1>5

(***************************************************************************)
(* The queries.                                                            *)
(***************************************************************************)
\* A list without repetition is as long as the set of the ids in it.
LEMMA IdsInList ==
  ASSUME NEW list \in Seq(Instances), IsInjective(list),
         \A g, h \in ToSet(list) : UniqueId[g] = UniqueId[h] => g = h,
         NEW ids, ids = {UniqueId[h] : h \in ToSet(list)}
  PROVE  Len(list) = Cardinality(ids)
  <1>. DEFINE f == [i \in 1..Len(list) |-> UniqueId[list[i]]]
  <1>1. DOMAIN list = 1..Len(list) /\ Len(list) \in Nat
    OBVIOUS
  <1>2. f \in [1..Len(list) -> ids]
    BY <1>1 DEF ToSet
  <1>3. \A i, j \in 1..Len(list) : f[i] = f[j] => i = j
    BY <1>1 DEF ToSet, IsInjective
  <1>4. \A id \in ids : \E i \in 1..Len(list) : f[i] = id
    BY <1>1 DEF ToSet
  <1>5. f \in Bijection(1..Len(list), ids)
    BY <1>2, <1>3, <1>4 DEF Bijection, Injection, Surjection, IsInjective
  <1>6. ExistsBijection(1..Len(list), ids)
    BY <1>5 DEF ExistsBijection
  <1>7. QED
    BY <1>1, <1>6, FS_CountingElements

\* The active index holds the active handles, and the states are what they stand for.
LEMMA RegistryFacts ==
  ASSUME NEW r, RegistryOK(r)
  PROVE  /\ r.all.peers \subseteq Instances
         /\ r.active.peers = {h \in r.all.peers : StateOf(r, UniqueId[h]) = "Active"}
         /\ \A g, h \in r.all.peers : UniqueId[g] = UniqueId[h] => g = h
         /\ \A id \in Ids : StateOf(r, id) # "Dead" <=> \E h \in r.all.peers : UniqueId[h] = id
         /\ \A id \in Ids : HasId(r.all, id) => StateOf(r, id) = r.states[id]
  BY DEF RegistryOK, IsRegistry, IsIndex, IndexesAgree, IndexHolds, StateOf, HasId

\* A registry in agreement answers its queries from the states.
LEMMA QueriesOK ==
  ASSUME NEW r, RegistryOK(r)
  PROVE  QueriesAnswer(r)
  <1>1. /\ r.all.peers \subseteq Instances
        /\ r.active.peers = {h \in r.all.peers : StateOf(r, UniqueId[h]) = "Active"}
        /\ \A g, h \in r.all.peers : UniqueId[g] = UniqueId[h] => g = h
        /\ \A id \in Ids : StateOf(r, id) # "Dead" <=> \E h \in r.all.peers : UniqueId[h] = id
        /\ \A id \in Ids : HasId(r.all, id) => StateOf(r, id) = r.states[id]
        /\ IndexOK(r.all, r.all.peers) /\ IndexOK(r.active, r.active.peers)
    BY RegistryFacts DEF RegistryOK, IsRegistry, IndexesAgree, IndexOK
  <1>2. \A h \in Instances : UniqueId[h] \in Ids
    BY IdsAssumption
  <1>3. ASSUME NEW id \in Ids
        PROVE  /\ ContainsPeerWithId(r, id, FALSE) <=> StateOf(r, id) # "Dead"
               /\ ContainsPeerWithId(r, id, TRUE) <=> StateOf(r, id) = "Active"
    <2>1. ContainsPeerWithId(r, id, FALSE) <=> HasId(r.all, id)
      BY DEF ContainsPeerWithId, Index
    <2>2. ContainsPeerWithId(r, id, TRUE) <=> HasId(r.active, id) /\ r.states[id] = "Active"
      BY DEF ContainsPeerWithId, Index
    <2>3. HasId(r.active, id) <=> StateOf(r, id) = "Active"
      BY <1>1, <1>2 DEF HasId
    <2>4. StateOf(r, id) = "Active" => r.states[id] = "Active"
      BY <1>1 DEF HasId
    <2>5. QED
      BY <1>1, <2>1, <2>2, <2>3, <2>4 DEF HasId
  <1>4. ASSUME NEW type \in Types
        PROVE  /\ ContainsPeerWithType(r, type, TRUE)
                      <=> \E id \in Ids : TypeId[id] = type /\ StateOf(r, id) = "Active"
               /\ Len(GetPeersWithType(r, type, FALSE))
                      = Cardinality({id \in Ids : TypeId[id] = type /\ StateOf(r, id) # "Dead"})
               /\ \A h \in ToSet(GetAnyPeerWithType(r, type, TRUE)) :
                      TypeId[UniqueId[h]] = type /\ StateOf(r, UniqueId[h]) = "Active"
    <2>1. ContainsPeerWithType(r, type, TRUE)
             <=> \E id \in Ids : TypeId[id] = type /\ StateOf(r, id) = "Active"
      <3>1. ContainsPeerWithType(r, type, TRUE) <=> \E h \in r.active.peers : TypeId[UniqueId[h]] = type
        BY <1>1 DEF ContainsPeerWithType, Index, IndexOK, IndexHolds
      <3>2. QED
        BY <1>1, <1>2, <3>1, ZenonT(60)
    <2>2. Len(GetPeersWithType(r, type, FALSE))
             = Cardinality({id \in Ids : TypeId[id] = type /\ StateOf(r, id) # "Dead"})
      <3>. DEFINE list == ListOf(r.all, type)
      <3>1. /\ list \in Seq(Instances) /\ IsInjective(list)
            /\ ToSet(list) = {h \in r.all.peers : TypeId[UniqueId[h]] = type}
        BY <1>1, ListFacts
      <3>. HIDE DEF list
      <3>2. {id \in Ids : TypeId[id] = type /\ StateOf(r, id) # "Dead"} = {UniqueId[h] : h \in ToSet(list)}
        BY <1>1, <1>2, <3>1
      <3>3. \A g, h \in ToSet(list) : UniqueId[g] = UniqueId[h] => g = h
        BY <1>1, <3>1
      <3>4. Len(list) = Cardinality({id \in Ids : TypeId[id] = type /\ StateOf(r, id) # "Dead"})
        BY <3>1, <3>2, <3>3, IdsInList
      <3>5. GetPeersWithType(r, type, FALSE) = list
        BY DEF GetPeersWithType, Index, list
      <3>6. QED
        BY <3>4, <3>5
    <2>3. \A h \in ToSet(GetAnyPeerWithType(r, type, TRUE)) :
             TypeId[UniqueId[h]] = type /\ StateOf(r, UniqueId[h]) = "Active"
      <3>. DEFINE list == ListOf(r.active, type)
                  any == GetAnyPeerWithType(r, type, TRUE)
      <3>1. /\ list \in Seq(Instances)
            /\ ToSet(list) = {h \in r.active.peers : TypeId[UniqueId[h]] = type}
        BY <1>1, ListFacts
      <3>2. any = IF list = <<>> THEN <<>> ELSE <<Head(list)>>
        BY DEF GetAnyPeerWithType, GetPeersWithType, Index
      <3>. HIDE DEF list, any
      <3>3. list # <<>> => 1 \in DOMAIN list /\ Head(list) = list[1]
        BY <3>1
      <3>4. ToSet(any) \subseteq ToSet(list)
        <4>1. CASE list = <<>>
          BY <3>2, <4>1 DEF ToSet
        <4>2. CASE list # <<>>
          <5>1. Head(list) \in ToSet(list)
            BY <3>3, <4>2 DEF ToSet
          <5>2. ToSet(<<Head(list)>>) = {Head(list)}
            BY DEF ToSet
          <5>3. QED
            BY <3>2, <4>2, <5>1, <5>2
        <4>3. QED
          BY <4>1, <4>2
      <3>5. QED
        BY <1>1, <3>1, <3>4 DEF any
    <2>4. QED
      BY <2>1, <2>2, <2>3
  <1>5. ASSUME NEW h \in Instances, HasId(r.all, UniqueId[h])
        PROVE  GetPeerState(r, h) = StateOf(r, UniqueId[h])
    <2>1. UniqueId[h] \in DOMAIN r.states
      BY <1>5 DEF HasId, RegistryOK
    <2>2. QED
      BY <1>5, <2>1 DEF GetPeerState, StateOf
  <1>6. QED
    BY <1>3, <1>4, <1>5 DEF QueriesAnswer
=============================================================================
