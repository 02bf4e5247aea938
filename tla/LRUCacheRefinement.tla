------------------------- MODULE LRUCacheRefinement -------------------------
(***************************************************************************)
(* The concurrent cache of LRUCache, with its list, iterators and lock,    *)
(* implements the working-set cache, for every capacity and any number of  *)
(* threads: the refinement that TLC checks for capacity 2, step by step.   *)
(***************************************************************************)
EXTENDS LRUCacheProofs, FunctionTheorems

(* What the steps need besides IInv: a disabled cache is never added to,   *)
(* and a get has returned nothing before it returns.                       *)
CallsOK ==
    \A t \in Threads : /\ pc[t] = "add" => max_size # 0
                       /\ pc[t] \in {"find", "touch"} => ret[t] = NullOpt

RInv == IInv /\ CallsOK

(* The refinement mapping for a given list w. *)
Positions(w) == 1..(IF Len(w) <= max_size THEN Len(w) ELSE max_size)

ResidentKeys(w) == {w[i].key : i \in Positions(w)}

FrontOf(w, p) == {w[j].key : j \in 1..(p - 1)}

SinceOf(w) ==
    [k \in ResidentKeys(w) |->
        {w[j].key : j \in {h \in Positions(w) : \E i \in Positions(w) : h < i /\ w[i].key = k}}]

Distinct(w) == \A i, j \in 1..Len(w) : w[i].key = w[j].key => i = j

CallOf(label) ==
    IF label = "clean" THEN "added" ELSE IF label \in {"find", "touch"} THEN "get" ELSE label

Labels == {"idle", "add", "clean", "find", "touch", "throw"}

-----------------------------------------------------------------------------
(* The extra invariant is kept by every step. *)
LEMMA RInvInit == Init => RInv
BY InitIInv DEF RInv, CallsOK, Init

(* Every step keeps it. *)
LEMMA RInvNext == RInv /\ [Next]_vars => RInv'
<1> SUFFICES ASSUME RInv, [Next]_vars PROVE CallsOK'
  BY NextIInv DEF RInv
<1>1. TypeOK /\ CallsOK
  BY DEF RInv, IInv
<1>2. ASSUME NEW t \in Threads, NEW k \in Keys, NEW v \in Values, CallAdd(t, k, v) PROVE CallsOK'
  BY <1>1, <1>2 DEF CallAdd, Goto, CallsOK, TypeOK
<1>3. ASSUME NEW t \in Threads, NEW k \in Keys, CallGet(t, k) PROVE CallsOK'
  BY <1>1, <1>3 DEF CallGet, Goto, Return, CallsOK, TypeOK
<1>4. ASSUME NEW t \in Threads, Step(t) PROVE CallsOK'
  <2>1. CASE AddFixed(t) \/ AddInsert(t)
    BY <1>1, <2>1 DEF AddFixed, AddInsert, Goto, CallsOK, TypeOK
  <2>2. CASE AddTouch(t) \/ AddEnd(t)
    BY <1>1, <2>2 DEF AddTouch, AddEnd, Goto, CallsOK, TypeOK
  <2>3. CASE CleanUp(t)
    BY <1>1, <2>3 DEF CleanUp, Goto, CallsOK, TypeOK
  <2>4. CASE GetFind(t)
    BY <1>1, <2>4 DEF GetFind, Return, Goto, CallsOK, TypeOK
  <2>5. CASE GetTouch(t)
    BY <1>1, <2>5 DEF GetTouch, Return, Goto, CallsOK, TypeOK
  <2> QED BY <1>4, <2>1, <2>2, <2>3, <2>4, <2>5 DEF Step
<1>5. CASE UNCHANGED vars
  BY <1>1, <1>5 DEF vars, CallsOK
<1> QED BY <1>2, <1>3, <1>4, <1>5 DEF Next, Call

(* What the refinement needs of the cache holds in every reachable state:  *)
(* its inductive invariant, and how far the calls in progress have come.   *)
THEOREM RefinementInvariance == Spec => []RInv
BY RInvInit, RInvNext, PTL DEF Spec

-----------------------------------------------------------------------------
(* The mapping in terms of the list. *)
LEMMA MappingFacts ==
    /\ Front = Positions(workloads)
    /\ AbstractValue = [k \in ResidentKeys(workloads) |-> m_table[k].value]
    /\ AbstractSince = SinceOf(workloads)
BY DEF Front, Positions, AbstractValue, AbstractSince, ResidentKeys, SinceOf

(* In a list of distinct keys, the keys used since the one at p are those  *)
(* in front of p.                                                          *)
LEMMA SinceAt ==
    ASSUME NEW w \in Seq(Pairs), Distinct(w), NEW p \in Positions(w)
    PROVE  /\ Positions(w) \subseteq 1..Len(w) /\ 1..(p - 1) \subseteq Positions(w)
           /\ w[p].key \in ResidentKeys(w)
           /\ SinceOf(w)[w[p].key] = FrontOf(w, p)
<1>1. Positions(w) \subseteq 1..Len(w) /\ 1..(p - 1) \subseteq Positions(w) /\ p \in Nat
  BY SizeAssumption DEF Positions
<1>2. w[p].key \in ResidentKeys(w)
  BY DEF ResidentKeys
<1>3. \A i \in Positions(w) : w[i].key = w[p].key => i = p
  BY <1>1 DEF Distinct
<1>4. {h \in Positions(w) : \E i \in Positions(w) : h < i /\ w[i].key = w[p].key} = 1..(p - 1)
  <2>1. ASSUME NEW h \in Positions(w), NEW i \in Positions(w), h < i, w[i].key = w[p].key
        PROVE  h \in 1..(p - 1)
    BY <1>1, <1>3, <2>1 DEF Positions
  <2>2. ASSUME NEW h \in 1..(p - 1) PROVE h \in Positions(w) /\ h < p
    BY <1>1, <2>2
  <2> QED BY <2>1, <2>2
<1> QED BY <1>1, <1>2, <1>4 DEF SinceOf, FrontOf

(* mark_as_most_recently_used is a use of the key: all keys stay, and all  *)
(* others have it among those used since.                                  *)
LEMMA SpliceSince ==
    ASSUME NEW w \in Seq(Pairs), Distinct(w), Len(w) <= max_size, NEW i \in 1..Len(w)
    PROVE  /\ ResidentKeys(Splice(w, i)) = ResidentKeys(w)
           /\ w[i].key \in ResidentKeys(w)
           /\ SinceOf(Splice(w, i)) =
                 [j \in ResidentKeys(w) |->
                     IF j = w[i].key THEN {} ELSE SinceOf(w)[j] \cup {w[i].key}]
<1> DEFINE v == Splice(w, i)
           k == w[i].key
           n == Len(w)
<1>1. n \in Nat /\ Positions(w) = 1..n
  BY SizeAssumption DEF Positions
<1>2. v \in Seq(Pairs) /\ Len(v) = n /\ Positions(v) = 1..n
  BY SpliceLemma, SizeAssumption DEF Positions
<1>3. Distinct(v)
  BY <1>2, SpliceDistinct DEF Distinct
<1>4. \A h \in 1..n : v[h] = IF h = 1 THEN w[i] ELSE IF h <= i THEN w[h - 1] ELSE w[h]
  BY DEF Splice
<1>5. ResidentKeys(v) = ResidentKeys(w)
  <2>1. \A h \in 1..n : \E p \in 1..n : v[h] = w[p]
    BY SpliceLemma
  <2>2. \A p \in 1..n : \E h \in 1..n : v[h] = w[p]
    BY SpliceLemma
  <2>3. ResidentKeys(v) = {v[h].key : h \in 1..n} /\ ResidentKeys(w) = {w[h].key : h \in 1..n}
    BY <1>1, <1>2 DEF ResidentKeys
  <2>4. ASSUME NEW x \in ResidentKeys(v) PROVE x \in ResidentKeys(w)
    <3>1. PICK h \in 1..n : x = v[h].key
      BY <2>3
    <3>2. PICK p \in 1..n : v[h] = w[p]
      BY <2>1
    <3> HIDE DEF v, n
    <3> QED BY <2>3, <3>1, <3>2
  <2>5. ASSUME NEW x \in ResidentKeys(w) PROVE x \in ResidentKeys(v)
    <3>1. PICK p \in 1..n : x = w[p].key
      BY <2>3
    <3>2. PICK h \in 1..n : v[h] = w[p]
      BY <2>2
    <3> HIDE DEF v, n
    <3> QED BY <2>3, <3>1, <3>2
  <2> QED BY <2>4, <2>5
<1> HIDE DEF v
<1>6. k \in ResidentKeys(w)
  BY <1>1 DEF ResidentKeys
<1>7. ASSUME NEW j \in ResidentKeys(w)
      PROVE  SinceOf(v)[j] = IF j = k THEN {} ELSE SinceOf(w)[j] \cup {k}
  <2>1. PICK q \in 1..n : j = w[q].key
    BY <1>1 DEF ResidentKeys
  <2>2. SinceOf(w)[j] = FrontOf(w, q)
    BY <1>1, <2>1, SinceAt
  <2>3. \A p \in 1..n : SinceOf(v)[v[p].key] = FrontOf(v, p)
    BY <1>2, <1>3, SinceAt
  <2>4. CASE q = i
    <3>1. 1 \in 1..n /\ v[1].key = k /\ j = k
      BY <1>1, <1>4, <2>1, <2>4
    <3>2. FrontOf(v, 1) = {}
      BY DEF FrontOf
    <3> QED BY <2>3, <3>1, <3>2
  <2>5. CASE q < i
    <3>1. q + 1 \in 1..n /\ v[q + 1] = w[q] /\ j # k
      BY <1>1, <1>4, <2>1, <2>5 DEF Distinct
    <3>2. FrontOf(v, q + 1) = FrontOf(w, q) \cup {k}
      <4>1. ASSUME NEW h \in 1..q PROVE v[h].key \in FrontOf(w, q) \cup {k}
        <5>1. CASE h = 1
          BY <1>1, <1>4, <5>1
        <5>2. CASE h # 1
          <6>1. h - 1 \in 1..(q - 1) /\ v[h] = w[h - 1]
            BY <1>1, <1>4, <2>5, <5>2
          <6> QED BY <6>1 DEF FrontOf
        <5> QED BY <5>1, <5>2
      <4>2. ASSUME NEW h \in 1..(q - 1) PROVE w[h].key \in FrontOf(v, q + 1)
        <5>1. h + 1 \in 1..(q + 1 - 1) /\ v[h + 1] = w[h]
          BY <1>1, <1>4, <2>5
        <5> QED BY <5>1 DEF FrontOf
      <4>3. k \in FrontOf(v, q + 1)
        <5>1. 1 \in 1..(q + 1 - 1) /\ v[1].key = k
          BY <1>1, <1>4
        <5> QED BY <5>1 DEF FrontOf
      <4>4. FrontOf(v, q + 1) = {v[h].key : h \in 1..q}
        <5>1. q + 1 - 1 = q
          BY <1>1
        <5> QED BY <5>1 DEF FrontOf
      <4>5. FrontOf(v, q + 1) \subseteq FrontOf(w, q) \cup {k}
        BY <4>1, <4>4
      <4>6. FrontOf(w, q) \subseteq FrontOf(v, q + 1)
        BY <4>2 DEF FrontOf
      <4> QED BY <4>3, <4>5, <4>6
    <3> QED BY <2>1, <2>2, <2>3, <3>1, <3>2
  <2>6. CASE q > i
    <3>1. v[q] = w[q] /\ j # k
      BY <1>1, <1>4, <2>1, <2>6 DEF Distinct
    <3>2. FrontOf(v, q) = FrontOf(w, q) \cup {k}
      <4>1. ASSUME NEW h \in 1..(q - 1) PROVE v[h].key \in FrontOf(w, q)
        <5>1. \E p \in 1..(q - 1) : v[h] = w[p]
          BY <1>1, <1>4, <2>6
        <5> QED BY <5>1 DEF FrontOf
      <4>2. ASSUME NEW h \in 1..(q - 1) PROVE w[h].key \in FrontOf(v, q)
        <5>1. \E p \in 1..(q - 1) : v[p] = w[h]
          <6>1. CASE h < i
            <7>1. h + 1 \in 1..(q - 1) /\ v[h + 1] = w[h]
              BY <1>1, <1>4, <2>6, <6>1
            <7> QED BY <7>1
          <6>2. CASE h = i
            BY <1>1, <1>4, <2>6, <6>2
          <6>3. CASE h > i
            BY <1>1, <1>4, <2>6, <6>3
          <6> QED BY <6>1, <6>2, <6>3
        <5> QED BY <5>1 DEF FrontOf
      <4>3. k \in FrontOf(w, q)
        BY <1>1, <2>6 DEF FrontOf
      <4> QED BY <4>1, <4>2, <4>3 DEF FrontOf
    <3> QED BY <2>1, <2>2, <2>3, <3>1, <3>2
  <2> QED BY <2>4, <2>5, <2>6
<1>8. SinceOf(v) = [j \in ResidentKeys(v) |-> SinceOf(v)[j]]
  BY DEF SinceOf
<1> HIDE DEF k
<1>9. SinceOf(v) = [j \in ResidentKeys(w) |-> IF j = k THEN {} ELSE SinceOf(w)[j] \cup {k}]
  BY <1>5, <1>7, <1>8
<1> QED BY <1>5, <1>6, <1>9 DEF v, k

(* The keys in front of p are p - 1. *)
LEMMA FrontSize ==
    ASSUME NEW w \in Seq(Pairs), Distinct(w), NEW p \in 1..Len(w)
    PROVE  IsFiniteSet(FrontOf(w, p)) /\ Cardinality(FrontOf(w, p)) = p - 1
<1> DEFINE G == [j \in 1..(p - 1) |-> w[j].key]
<1>1. G \in Bijection(1..(p - 1), FrontOf(w, p))
  <2>1. G \in [1..(p - 1) -> FrontOf(w, p)]
    BY DEF FrontOf
  <2>2. \A a, b \in 1..(p - 1) : G[a] = G[b] => a = b
    BY DEF Distinct
  <2>3. \A x \in FrontOf(w, p) : \E j \in 1..(p - 1) : G[j] = x
    BY DEF FrontOf
  <2> HIDE DEF G
  <2> QED BY <2>1, <2>2, <2>3, Fun_IsBij
<1>2. ExistsBijection(1..(p - 1), FrontOf(w, p))
  BY <1>1 DEF ExistsBijection
<1>3. p - 1 \in Nat
  OBVIOUS
<1>4. IsFiniteSet(1..(p - 1)) /\ Cardinality(1..(p - 1)) = p - 1
  BY <1>3, FS_Interval
<1> QED BY <1>2, <1>4, FS_Bijection

(* Inserting keeps exactly the keys that had fewer than max_size - 1 keys  *)
(* in front of them.                                                       *)
LEMMA InsertSince ==
    ASSUME NEW w \in Seq(Pairs), Distinct(w), Len(w) <= max_size, max_size # 0,
           NEW node \in Pairs, \A i \in 1..Len(w) : w[i].key # node.key
    PROVE  LET k == node.key
               S == {j \in ResidentKeys(w) : Cardinality(SinceOf(w)[j] \cup {k}) < max_size} \cup {k}
           IN  /\ ResidentKeys(<<node>> \o w) = S
               /\ SinceOf(<<node>> \o w) =
                     [j \in S |-> IF j = k THEN {} ELSE SinceOf(w)[j] \cup {k}]
<1> DEFINE k == node.key
           v == <<node>> \o w
           n == Len(w)
           m == IF n < max_size THEN n ELSE max_size - 1
           S == {j \in ResidentKeys(w) : Cardinality(SinceOf(w)[j] \cup {k}) < max_size} \cup {k}
<1>1. /\ n \in Nat /\ m \in Nat /\ m <= n /\ max_size \in Nat /\ Positions(w) = 1..n
      /\ \A p \in 1..n : p < max_size <=> p \in 1..m
  BY SizeAssumption DEF Positions
<1>2. v \in Seq(Pairs) /\ Len(v) = n + 1
  OBVIOUS
<1>3. Positions(v) = 1..(m + 1)
  BY <1>1, <1>2, SizeAssumption DEF Positions
<1>4. v[1] = node /\ \A h \in 1..n : v[h + 1] = w[h]
  OBVIOUS
<1> HIDE DEF v
<1>5. Distinct(v)
  <2> SUFFICES ASSUME NEW a \in 1..(n + 1), NEW b \in 1..(n + 1), v[a].key = v[b].key PROVE a = b
    BY <1>2 DEF Distinct
  <2>1. ASSUME NEW h \in 1..(n + 1), h # 1 PROVE h - 1 \in 1..n /\ v[h] = w[h - 1]
    <3>1. h - 1 \in 1..n /\ (h - 1) + 1 = h
      BY <1>1, <2>1
    <3> QED BY <1>4, <3>1
  <2>2. CASE a = 1 /\ b # 1
    BY <1>4, <2>1, <2>2
  <2>3. CASE a # 1 /\ b = 1
    BY <1>4, <2>1, <2>3
  <2>4. CASE a # 1 /\ b # 1
    <3>1. a - 1 = b - 1
      BY <2>1, <2>4 DEF Distinct
    <3> QED BY <1>1, <3>1
  <2> QED BY <2>2, <2>3, <2>4
<1>6. ASSUME NEW p \in 1..n
      PROVE  /\ SinceOf(w)[w[p].key] = FrontOf(w, p)
             /\ Cardinality(FrontOf(w, p) \cup {k}) = p
             /\ FrontOf(v, p + 1) = FrontOf(w, p) \cup {k}
  <2>1. SinceOf(w)[w[p].key] = FrontOf(w, p)
    BY <1>1, SinceAt
  <2>2. k \notin FrontOf(w, p)
    BY <1>1 DEF FrontOf
  <2>3. Cardinality(FrontOf(w, p) \cup {k}) = (p - 1) + 1
    <3>1. IsFiniteSet(FrontOf(w, p)) /\ Cardinality(FrontOf(w, p)) = p - 1
      BY FrontSize
    <3> HIDE DEF k
    <3> QED BY <2>2, <3>1, FS_AddElement
  <2>4. FrontOf(v, p + 1) = FrontOf(w, p) \cup {k}
    <3>1. ASSUME NEW h \in 1..p PROVE v[h].key \in FrontOf(w, p) \cup {k}
      <4>1. CASE h = 1
        BY <1>4, <4>1
      <4>2. CASE h # 1
        <5>1. h - 1 \in 1..(p - 1) /\ h - 1 \in 1..n /\ (h - 1) + 1 = h
          BY <1>1, <4>2
        <5>2. v[h] = w[h - 1]
          BY <1>4, <5>1
        <5> QED BY <5>1, <5>2 DEF FrontOf
      <4> QED BY <4>1, <4>2
    <3>2. ASSUME NEW h \in 1..(p - 1) PROVE w[h].key \in FrontOf(v, p + 1)
      <4>1. h + 1 \in 1..(p + 1 - 1) /\ v[h + 1] = w[h]
        BY <1>1, <1>4
      <4> QED BY <4>1 DEF FrontOf
    <3>3. k \in FrontOf(v, p + 1)
      <4>1. 1 \in 1..(p + 1 - 1)
        BY <1>1
      <4> QED BY <1>4, <4>1 DEF FrontOf
    <3>4. p + 1 - 1 = p
      BY <1>1
    <3> QED BY <3>1, <3>2, <3>3, <3>4 DEF FrontOf
  <2> QED BY <1>1, <2>1, <2>3, <2>4
<1>7. ResidentKeys(v) = {w[p].key : p \in 1..m} \cup {k}
  <2>1. ASSUME NEW h \in 1..(m + 1) PROVE v[h].key \in {w[p].key : p \in 1..m} \cup {k}
    <3>1. CASE h = 1
      BY <1>4, <3>1
    <3>2. CASE h # 1
      <4>1. h - 1 \in 1..m /\ h - 1 \in 1..n /\ (h - 1) + 1 = h
        BY <1>1, <3>2
      <4>2. v[h] = w[h - 1]
        BY <1>4, <4>1
      <4> QED BY <4>1, <4>2
    <3> QED BY <3>1, <3>2
  <2>2. ASSUME NEW p \in 1..m PROVE \E h \in 1..(m + 1) : v[h].key = w[p].key
    <3>1. p + 1 \in 1..(m + 1) /\ v[p + 1] = w[p]
      BY <1>1, <1>4
    <3> QED BY <3>1
  <2>3. 1 \in 1..(m + 1) /\ v[1].key = k
    BY <1>1, <1>4
  <2> QED BY <1>3, <2>1, <2>2, <2>3 DEF ResidentKeys
<1>8. S = {w[p].key : p \in 1..m} \cup {k}
  <2>1. ASSUME NEW p \in 1..n
        PROVE  Cardinality(SinceOf(w)[w[p].key] \cup {k}) < max_size <=> p \in 1..m
    BY <1>1, <1>6
  <2>2. ResidentKeys(w) = {w[p].key : p \in 1..n}
    BY <1>1 DEF ResidentKeys
  <2>3. 1..m \subseteq 1..n
    BY <1>1
  <2> HIDE DEF m, n, k
  <2> QED BY <2>1, <2>2, <2>3
<1>9. ASSUME NEW j \in ResidentKeys(v)
      PROVE  SinceOf(v)[j] = IF j = k THEN {} ELSE SinceOf(w)[j] \cup {k}
  <2>1. \A p \in 1..(m + 1) : SinceOf(v)[v[p].key] = FrontOf(v, p)
    BY <1>2, <1>3, <1>5, SinceAt
  <2>2. CASE j = k
    <3>1. 1 \in 1..(m + 1) /\ v[1].key = k
      BY <1>1, <1>4
    <3>2. FrontOf(v, 1) = {}
      BY DEF FrontOf
    <3> QED BY <2>1, <2>2, <3>1, <3>2
  <2>3. CASE j # k
    <3>1. PICK p \in 1..m : j = w[p].key
      BY <1>7, <2>3
    <3>2. p \in 1..n /\ p + 1 \in 1..(m + 1) /\ v[p + 1] = w[p]
      BY <1>1, <1>4
    <3> QED BY <1>6, <2>1, <2>3, <3>1, <3>2
  <2> QED BY <2>2, <2>3
<1>10. SinceOf(v) = [j \in ResidentKeys(v) |-> SinceOf(v)[j]]
  BY DEF SinceOf
<1>11. ResidentKeys(v) = S
  BY <1>7, <1>8
<1> HIDE DEF k, S
<1>12. SinceOf(v) = [j \in S |-> IF j = k THEN {} ELSE SinceOf(w)[j] \cup {k}]
  BY <1>9, <1>10, <1>11
<1> QED BY <1>11, <1>12 DEF v, k, S

(* Popping the pair beyond the capacity is invisible. *)
LEMMA PopSince ==
    ASSUME NEW w \in Seq(Pairs), Distinct(w), Len(w) = max_size + 1
    PROVE  LET v == SubSeq(w, 1, Len(w) - 1) IN
           /\ ResidentKeys(v) = ResidentKeys(w) /\ SinceOf(v) = SinceOf(w)
           /\ w[Len(w)].key \notin ResidentKeys(w)
<1> DEFINE v == SubSeq(w, 1, Len(w) - 1)
<1>1. /\ v \in Seq(Pairs) /\ Len(v) = max_size /\ Len(w) \in Nat
      /\ \A i \in 1..max_size : v[i] = w[i]
  BY SizeAssumption
<1>2. Positions(v) = 1..max_size /\ Positions(w) = 1..max_size
  BY <1>1, SizeAssumption DEF Positions
<1> HIDE DEF v
<1>3. ResidentKeys(v) = ResidentKeys(w)
  BY <1>1, <1>2 DEF ResidentKeys
<1>4. SinceOf(v) = SinceOf(w)
  BY <1>1, <1>2, <1>3 DEF SinceOf
<1>5. w[Len(w)].key \notin ResidentKeys(w)
  <2>1. ASSUME NEW i \in 1..max_size PROVE w[i].key # w[Len(w)].key
    <3>1. i \in 1..Len(w) /\ Len(w) \in 1..Len(w) /\ i # Len(w)
      BY SizeAssumption, <1>1
    <3> QED BY <3>1 DEF Distinct
  <2> QED BY <1>2, <2>1 DEF ResidentKeys
<1> QED BY <1>3, <1>4, <1>5 DEF v

-----------------------------------------------------------------------------
(* What a step needs to know of the list. *)
LEMMA ListFacts ==
    ASSUME RInv
    PROVE  /\ TypeOK /\ workloads \in Seq(Pairs) /\ Len(workloads) \in Nat
           /\ Distinct(workloads) /\ max_size \in Nat
           /\ mtx = NoThread => Len(workloads) <= max_size
           /\ mtx = NoThread => ResidentKeys(workloads) = DOMAIN m_table
           /\ \A k \in DOMAIN m_table : m_table[k].key = k
<1>1. TypeOK /\ workloads \in Seq(Pairs) /\ Len(workloads) \in Nat /\ max_size \in Nat
  BY SizeAssumption DEF RInv, IInv, TypeOK
<1>2. Distinct(workloads)
  BY DEF RInv, IInv, IteratorsValid, Distinct
<1>3. mtx = NoThread => Len(workloads) <= max_size
  BY <1>1 DEF RInv, IInv, Sizes, BoundedWhenUnlocked
<1>4. /\ \A k \in DOMAIN m_table :
            \E i \in 1..Len(workloads) : workloads[i] = m_table[k] /\ workloads[i].key = k
      /\ \A i \in 1..Len(workloads) : workloads[i].key \in DOMAIN m_table
  BY DEF RInv, IInv, IteratorsValid
<1>5. ASSUME mtx = NoThread PROVE ResidentKeys(workloads) = DOMAIN m_table
  <2>1. Positions(workloads) = 1..Len(workloads)
    BY <1>3, <1>5 DEF Positions
  <2> QED BY <1>4, <2>1 DEF ResidentKeys
<1>6. \A k \in DOMAIN m_table : m_table[k].key = k
  BY <1>4
<1> QED BY <1>1, <1>2, <1>3, <1>5, <1>6

(* A thread's label and what the abstract cache calls it. *)
LEMMA CallFacts ==
    ASSUME TypeOK, NEW t \in Threads
    PROVE  /\ AbstractCall = [u \in Threads |-> CallOf(pc[u])]
           /\ AbstractCall[t] = CallOf(pc[t])
<1>1. ASSUME NEW u \in Threads
      PROVE  (CASE pc[u] = "clean" -> "added"
                [] pc[u] \in {"find", "touch"} -> "get"
                [] pc[u] \in {"idle", "add", "throw"} -> pc[u]) = CallOf(pc[u])
  <2>1. pc[u] \in Labels
    BY DEF TypeOK, Labels
  <2> QED BY <2>1 DEF CallOf, Labels
<1>2. AbstractCall = [u \in Threads |-> CallOf(pc[u])]
  BY <1>1 DEF AbstractCall
<1> QED BY <1>2

(* A thread's label decides its abstract call. *)
LEMMA CallBecomes ==
    ASSUME TypeOK, TypeOK', NEW t \in Threads, NEW l \in Labels, Goto(t, l)
    PROVE  AbstractCall' = [AbstractCall EXCEPT ![t] = CallOf(l)]
<1>1. AbstractCall = [u \in Threads |-> CallOf(pc[u])]
  BY CallFacts
<1>2. AbstractCall' = [u \in Threads |-> CallOf(pc'[u])]
  <2>1. ASSUME NEW u \in Threads
        PROVE  (CASE pc'[u] = "clean" -> "added"
                  [] pc'[u] \in {"find", "touch"} -> "get"
                  [] pc'[u] \in {"idle", "add", "throw"} -> pc'[u]) = CallOf(pc'[u])
    <3>1. pc'[u] \in Labels
      BY DEF TypeOK, Labels
    <3> QED BY <3>1 DEF CallOf, Labels
  <2> QED BY <2>1 DEF AbstractCall
<1>3. pc' = [pc EXCEPT ![t] = l] /\ pc \in [Threads -> Labels]
  BY DEF Goto, TypeOK, Labels
<1>4. \A u \in Threads : CallOf(pc'[u]) = IF u = t THEN CallOf(l) ELSE CallOf(pc[u])
  BY <1>3
<1> HIDE DEF CallOf
<1> QED BY <1>1, <1>2, <1>4

LEMMA CallStays ==
    ASSUME UNCHANGED pc
    PROVE  AbstractCall' = AbstractCall
BY DEF AbstractCall

(* The preloaded table by keys. *)
LEMMA PreloadedFacts ==
    /\ \A k \in Keys : k \in DOMAIN AbstractPreloaded <=> FixedContains(k)
    /\ \A k \in Keys : FixedContains(k) => AbstractPreloaded[k] = FixedGet(k)
BY DEF AbstractPreloaded

(* If list and table stay, so does the content. *)
LEMMA ContentStays ==
    ASSUME UNCHANGED <<workloads, m_table>>
    PROVE  AbstractValue' = AbstractValue /\ AbstractSince' = AbstractSince
BY DEF AbstractValue, AbstractSince, Front

-----------------------------------------------------------------------------
(* The empty list is the empty cache. *)
LEMMA InitRefines == Init => Abstract!Init
<1> SUFFICES ASSUME Init PROVE Abstract!Init
  OBVIOUS
<1>1. Front = {}
  BY SizeAssumption DEF Init, Front
<1>2. DOMAIN AbstractValue = {} /\ DOMAIN AbstractSince = {}
  BY <1>1 DEF AbstractValue, AbstractSince
<1>3. AbstractCall = [t \in Threads |-> "idle"]
  BY DEF Init, AbstractCall
<1> QED BY <1>2, <1>3 DEF Init, Abstract!Init, Abstract!Resident, Abstract!Nothing, NullOpt

(* Calling add or get is the abstract start of a call. *)
LEMMA CallAddRefines ==
    ASSUME RInv, TypeOK', NEW t \in Threads, NEW k \in Keys, NEW v \in Values, CallAdd(t, k, v)
    PROVE  Abstract!Start(t, k, v)
<1>1. TypeOK /\ pc[t] = "idle" /\ v # NoValue
  BY ListFacts, NoneAssumption DEF CallAdd
<1>2. AbstractCall[t] = "idle"
  BY <1>1, CallFacts DEF CallOf
<1>3. AbstractValue' = AbstractValue /\ AbstractSince' = AbstractSince
  BY ContentStays DEF CallAdd
<1>4. IF max_size = 0 THEN AbstractCall' = AbstractCall
                      ELSE AbstractCall' = [AbstractCall EXCEPT ![t] = "add"]
  <2>1. CallOf("add") = "add" /\ "add" \in Labels
    BY DEF CallOf, Labels
  <2> QED BY <1>1, <2>1, CallStays, CallBecomes DEF CallAdd
<1> QED BY <1>1, <1>2, <1>3, <1>4
        DEF CallAdd, Abstract!Start, Abstract!Becomes, Abstract!Nothing, NullOpt

(* A get begins with the start of an abstract call. *)
LEMMA CallGetRefines ==
    ASSUME RInv, TypeOK', NEW t \in Threads, NEW k \in Keys, CallGet(t, k)
    PROVE  Abstract!Start(t, k, NoValue)
<1>1. TypeOK /\ pc[t] = "idle"
  BY ListFacts DEF CallGet
<1>2. AbstractCall[t] = "idle"
  BY <1>1, CallFacts DEF CallOf
<1>3. AbstractValue' = AbstractValue /\ AbstractSince' = AbstractSince
  BY ContentStays DEF CallGet
<1>4. k \in DOMAIN AbstractPreloaded <=> FixedContains(k)
  BY PreloadedFacts
<1>5. CASE FixedContains(k)
  <2>1. pc' = pc
    BY <1>1, <1>5 DEF CallGet, Return, Goto, TypeOK
  <2>2. AbstractCall' = AbstractCall
    BY <2>1, CallStays
  <2>3. AbstractPreloaded[k] = FixedGet(k)
    BY <1>5, PreloadedFacts
  <2> QED BY <1>2, <1>3, <1>4, <1>5, <2>2, <2>3
          DEF CallGet, Return, Abstract!Start, Abstract!Becomes, Abstract!Nothing
<1>6. CASE ~FixedContains(k)
  <2>1. CallOf("find") = "get" /\ "find" \in Labels
    BY DEF CallOf, Labels
  <2>2. AbstractCall' = [AbstractCall EXCEPT ![t] = "get"]
    BY <1>1, <1>6, <2>1, CallBecomes DEF CallGet
  <2> QED BY <1>2, <1>3, <1>4, <1>6, <2>2
          DEF CallGet, Abstract!Start, Abstract!Becomes, Abstract!Nothing, NullOpt
<1> QED BY <1>5, <1>6

(* Moving the node of a key to the front is a use of the key. *)
LEMMA TouchRefines ==
    ASSUME RInv, mtx = NoThread, NEW k \in DOMAIN m_table,
           mark_as_most_recently_used(k), UNCHANGED m_table
    PROVE  Abstract!Use(k) /\ k \in DOMAIN AbstractValue /\ AbstractValue[k] = m_table[k].value
<1>1. /\ workloads \in Seq(Pairs) /\ Distinct(workloads) /\ Len(workloads) <= max_size
      /\ ResidentKeys(workloads) = DOMAIN m_table /\ m_table[k].key = k
  BY ListFacts
<1>2. PICK i \in 1..Len(workloads) :
          workloads[i] = m_table[k] /\ workloads' = Splice(workloads, i)
  BY DEF mark_as_most_recently_used
<1>3. workloads[i].key = k
  BY <1>1, <1>2
<1>4. /\ ResidentKeys(workloads') = ResidentKeys(workloads)
      /\ SinceOf(workloads') = [j \in ResidentKeys(workloads) |->
                                   IF j = k THEN {} ELSE SinceOf(workloads)[j] \cup {k}]
  BY <1>1, <1>2, <1>3, SpliceSince
<1>5. /\ AbstractValue = [j \in ResidentKeys(workloads) |-> m_table[j].value]
      /\ AbstractSince = SinceOf(workloads)
  BY MappingFacts
<1>6. /\ AbstractValue' = [j \in ResidentKeys(workloads') |-> m_table'[j].value]
      /\ AbstractSince' = SinceOf(workloads')
  BY DEF Front, Positions, AbstractValue, AbstractSince, ResidentKeys, SinceOf
<1>7. AbstractValue' = AbstractValue
  BY <1>4, <1>5, <1>6
<1>8. DOMAIN AbstractValue = ResidentKeys(workloads)
  BY <1>5
<1>9. k \in DOMAIN AbstractValue /\ AbstractValue[k] = m_table[k].value
  BY <1>1, <1>5, <1>8
<1>10. AbstractSince' = [j \in DOMAIN AbstractValue |->
                            IF j = k THEN {} ELSE AbstractSince[j] \cup {k}]
  BY <1>4, <1>5, <1>6, <1>8
<1> QED BY <1>7, <1>9, <1>10 DEF Abstract!Use, Abstract!Resident, Abstract!SinceAfter

(* The abstract module counts sets as this one does. *)
LEMMA SameCardinality == \A X : Abstract!Cardinality(X) = Cardinality(X)
BY Zenon DEF Cardinality, Abstract!Cardinality

(* push_front is the abstract insertion: what the eviction loop will still *)
(* pop has already left the abstract cache.                                *)
LEMMA InsertRefines ==
    ASSUME RInv, TypeOK', NEW t \in Threads, AddInsert(t)
    PROVE  Abstract!Insert(t)
<1> DEFINE k == arg[t].key
           node == [key |-> k, value |-> arg[t].value]
<1>1. /\ pc[t] = "add" /\ mtx = NoThread
      /\ ~FixedContains(k) /\ k \notin DOMAIN m_table
      /\ workloads' = <<node>> \o workloads
      /\ m_table' = [j \in DOMAIN m_table \cup {k} |-> IF j = k THEN node ELSE m_table[j]]
      /\ Goto(t, "clean") /\ arg' = arg /\ ret' = ret
  BY DEF AddInsert
<1>2. /\ TypeOK /\ workloads \in Seq(Pairs) /\ Distinct(workloads) /\ Len(workloads) <= max_size
      /\ ResidentKeys(workloads) = DOMAIN m_table
  BY <1>1, ListFacts
<1>3. k \in Keys /\ node \in Pairs /\ node.key = k /\ node.value = arg[t].value /\ max_size # 0
  BY <1>1, <1>2 DEF RInv, IInv, CallsOK, TypeOK, LockDiscipline, Pairs
<1>4. \A i \in 1..Len(workloads) : workloads[i].key # k
  BY <1>1 DEF RInv, IInv, IteratorsValid
<1> DEFINE kept == {j \in ResidentKeys(workloads) :
                       Cardinality(SinceOf(workloads)[j] \cup {k}) < max_size}
           S == kept \cup {k}
<1>5. /\ ResidentKeys(workloads') = S
      /\ SinceOf(workloads') = [j \in S |-> IF j = k THEN {} ELSE SinceOf(workloads)[j] \cup {k}]
  <2> HIDE DEF node, k
  <2>1. \A i \in 1..Len(workloads) : workloads[i].key # node.key
    BY <1>3, <1>4
  <2>2. LET q == node.key
            R == {j \in ResidentKeys(workloads) :
                     Cardinality(SinceOf(workloads)[j] \cup {q}) < max_size} \cup {q}
        IN  /\ ResidentKeys(<<node>> \o workloads) = R
            /\ SinceOf(<<node>> \o workloads) =
                  [j \in R |-> IF j = q THEN {} ELSE SinceOf(workloads)[j] \cup {q}]
    BY <1>2, <1>3, <2>1, InsertSince
  <2> QED BY <1>1, <1>3, <2>2
<1>6. /\ AbstractValue = [j \in ResidentKeys(workloads) |-> m_table[j].value]
      /\ AbstractSince = SinceOf(workloads)
  BY MappingFacts
<1>7. /\ AbstractValue' = [j \in ResidentKeys(workloads') |-> m_table'[j].value]
      /\ AbstractSince' = SinceOf(workloads')
  BY DEF Front, Positions, AbstractValue, AbstractSince, ResidentKeys, SinceOf
<1>8. DOMAIN AbstractValue = ResidentKeys(workloads) /\ k \notin DOMAIN AbstractValue
  BY <1>1, <1>2, <1>6
<1>9. AbstractValue' = [j \in S |-> IF j = k THEN arg[t].value ELSE AbstractValue[j]]
  <2>1. ASSUME NEW j \in S
        PROVE  m_table'[j].value = IF j = k THEN arg[t].value ELSE AbstractValue[j]
    <3>1. j # k => j \in ResidentKeys(workloads) /\ j \in DOMAIN m_table
      BY <1>2
    <3> HIDE DEF node, k
    <3> QED BY <1>1, <1>3, <1>6, <3>1 DEF k
  <2> HIDE DEF S, k
  <2> QED BY <1>5, <1>7, <2>1
<1>10. k \notin DOMAIN AbstractPreloaded
  BY <1>1, <1>3, PreloadedFacts
<1>11. AbstractCall[t] = "add" /\ AbstractCall' = [AbstractCall EXCEPT ![t] = "added"]
  <2>1. CallOf("add") = "add" /\ CallOf("clean") = "added" /\ "clean" \in Labels
    BY DEF CallOf, Labels
  <2> QED BY <1>1, <1>2, <2>1, CallFacts, CallBecomes
<1>12. /\ S = {j \in DOMAIN AbstractValue : Cardinality(AbstractSince[j] \cup {k}) < max_size} \cup {k}
       /\ AbstractSince' = [j \in S |-> IF j = k THEN {} ELSE AbstractSince[j] \cup {k}]
  BY <1>5, <1>6, <1>7, <1>8
<1> HIDE DEF S, kept, node
<1> DEFINE R == {j \in DOMAIN AbstractValue : Cardinality(AbstractSince[j] \cup {k}) < max_size} \cup {k}
<1>13. /\ AbstractValue' = [j \in R |-> IF j = k THEN arg[t].value ELSE AbstractValue[j]]
       /\ AbstractSince' = [j \in R |-> IF j = k THEN {} ELSE AbstractSince[j] \cup {k}]
  BY <1>9, <1>12
<1> HIDE DEF k
<1>14. R = {j \in DOMAIN AbstractValue : Abstract!Cardinality(AbstractSince[j] \cup {k}) < max_size} \cup {k}
  BY SameCardinality
<1> HIDE DEF R
<1> QED BY <1>1, <1>8, <1>10, <1>11, <1>13, <1>14
        DEF k, Abstract!Insert, Abstract!Resident, Abstract!SinceAfter, Abstract!Becomes

(* An eviction is invisible. *)
LEMMA CleanUpRefines ==
    ASSUME RInv, TypeOK', NEW t \in Threads, CleanUp(t)
    PROVE  UNCHANGED Abstract!vars
<1> DEFINE oldest == workloads[Len(workloads)].key
           rest == DOMAIN m_table \ {oldest}
<1>1. pc[t] = "clean" /\ Cardinality(DOMAIN m_table) > max_size /\ arg' = arg /\ ret' = ret
  BY DEF CleanUp
<1>2. /\ TypeOK /\ workloads \in Seq(Pairs) /\ Len(workloads) \in Nat /\ Distinct(workloads)
      /\ max_size \in Nat
  BY ListFacts
<1>3. /\ IsFiniteSet(DOMAIN m_table) /\ Len(workloads) = Cardinality(DOMAIN m_table)
      /\ Len(workloads) <= max_size + 1
  BY <1>2 DEF RInv, IInv, Sizes, BoundedWhenUnlocked, check_consistency
<1>4. Len(workloads) = max_size + 1
  BY <1>1, <1>2, <1>3
<1>5. oldest \in DOMAIN m_table
  <2>1. Len(workloads) \in 1..Len(workloads)
    BY <1>2, <1>4
  <2> QED BY <2>1 DEF RInv, IInv, IteratorsValid
<1>6. Cardinality(rest) = Len(workloads) - 1
  BY <1>3, <1>5, FS_RemoveElement
<1>7. /\ m_table' = [j \in rest |-> m_table[j]]
      /\ workloads' = SubSeq(workloads, 1, Len(workloads) - 1)
      /\ pc' = pc
  BY <1>5, <1>6 DEF CleanUp
<1>8. /\ ResidentKeys(workloads') = ResidentKeys(workloads)
      /\ SinceOf(workloads') = SinceOf(workloads)
      /\ oldest \notin ResidentKeys(workloads)
  <2>1. LET v == SubSeq(workloads, 1, Len(workloads) - 1) IN
        /\ ResidentKeys(v) = ResidentKeys(workloads) /\ SinceOf(v) = SinceOf(workloads)
        /\ workloads[Len(workloads)].key \notin ResidentKeys(workloads)
    BY <1>2, <1>4, PopSince
  <2> QED BY <1>7, <2>1
<1>9. ResidentKeys(workloads) \subseteq DOMAIN m_table
  <2>1. Positions(workloads) \subseteq 1..Len(workloads)
    BY <1>2 DEF Positions
  <2> QED BY <2>1 DEF RInv, IInv, IteratorsValid, ResidentKeys
<1>10. /\ AbstractValue = [j \in ResidentKeys(workloads) |-> m_table[j].value]
       /\ AbstractSince = SinceOf(workloads)
  BY MappingFacts
<1>11. /\ AbstractValue' = [j \in ResidentKeys(workloads') |-> m_table'[j].value]
       /\ AbstractSince' = SinceOf(workloads')
  BY DEF Front, Positions, AbstractValue, AbstractSince, ResidentKeys, SinceOf
<1>12. \A j \in ResidentKeys(workloads) : m_table'[j] = m_table[j]
  BY <1>7, <1>8, <1>9
<1>13. AbstractValue' = AbstractValue /\ AbstractSince' = AbstractSince
  BY <1>8, <1>10, <1>11, <1>12
<1>14. AbstractCall' = AbstractCall
  BY <1>7, CallStays
<1> QED BY <1>1, <1>13, <1>14 DEF Abstract!vars

(* The other steps of add. *)
LEMMA AddRefines ==
    ASSUME RInv, TypeOK', NEW t \in Threads
    PROVE  /\ AddFixed(t) => Abstract!Refresh(t)
           /\ AddTouch(t) => Abstract!Refresh(t)
           /\ AddEnd(t) => Abstract!AddReturns(t)
<1> DEFINE k == arg[t].key
<1>1. TypeOK /\ k \in Keys /\ check_consistency
  BY ListFacts DEF TypeOK, RInv, IInv, Sizes, BoundedWhenUnlocked
<1>2. /\ CallOf("add") = "add" /\ CallOf("clean") = "added" /\ CallOf("idle") = "idle"
      /\ "idle" \in Labels
  BY DEF CallOf, Labels
<1>3. k \in DOMAIN AbstractPreloaded <=> FixedContains(k)
  BY <1>1, PreloadedFacts
<1>4. ASSUME Goto(t, "idle") PROVE AbstractCall' = [AbstractCall EXCEPT ![t] = "idle"]
  BY <1>1, <1>2, <1>4, CallBecomes
<1>5. AbstractCall[t] = CallOf(pc[t])
  BY <1>1, CallFacts
<1>6. ASSUME AddFixed(t) PROVE Abstract!Refresh(t)
  <2>1. AbstractValue' = AbstractValue /\ AbstractSince' = AbstractSince
    BY <1>6, ContentStays DEF AddFixed
  <2> QED BY <1>2, <1>3, <1>4, <1>5, <1>6, <2>1 DEF AddFixed, Abstract!Refresh, Abstract!Becomes
<1>7. ASSUME AddTouch(t) PROVE Abstract!Refresh(t)
  <2>1. Abstract!Use(k)
    BY <1>7, TouchRefines DEF AddTouch
  <2>2. Goto(t, "idle")
    BY <1>1, <1>7 DEF AddTouch
  <2> QED BY <1>2, <1>3, <1>4, <1>5, <1>7, <2>1, <2>2 DEF AddTouch, Abstract!Refresh, Abstract!Becomes
<1>8. ASSUME AddEnd(t) PROVE Abstract!AddReturns(t)
  <2>1. AbstractValue' = AbstractValue /\ AbstractSince' = AbstractSince
    BY <1>8, ContentStays DEF AddEnd
  <2>2. Goto(t, "idle")
    BY <1>1, <1>8 DEF AddEnd
  <2> QED BY <1>2, <1>4, <1>5, <1>8, <2>1, <2>2 DEF AddEnd, Abstract!AddReturns, Abstract!Becomes
<1> QED BY <1>6, <1>7, <1>8

(* The first lookup of get either decides the miss or is invisible; the    *)
(* second one decides, whatever happened between the two.                  *)
LEMMA GetRefines ==
    ASSUME RInv, TypeOK', NEW t \in Threads
    PROVE  /\ GetFind(t) => Abstract!GetReturns(t) \/ UNCHANGED Abstract!vars
           /\ GetTouch(t) => Abstract!GetReturns(t)
<1> DEFINE k == arg[t].key
<1>1. TypeOK
  BY ListFacts
<1>2. /\ CallOf("find") = "get" /\ CallOf("touch") = "get" /\ CallOf("idle") = "idle"
      /\ "idle" \in Labels /\ "touch" \in Labels
  BY DEF CallOf, Labels
<1>3. AbstractCall[t] = CallOf(pc[t])
  BY <1>1, CallFacts
<1>4. ASSUME Goto(t, "idle") PROVE AbstractCall' = [AbstractCall EXCEPT ![t] = "idle"]
  BY <1>1, <1>2, <1>4, CallBecomes
<1>5. ASSUME pc[t] \in {"find", "touch"}, mtx = NoThread, k \notin DOMAIN m_table,
             Return(t, "none", NoValue), UNCHANGED <<workloads, m_table, arg>>
      PROVE  Abstract!GetReturns(t)
  <2>1. AbstractValue' = AbstractValue /\ AbstractSince' = AbstractSince
    BY <1>5, ContentStays
  <2>2. ret' = ret
    BY <1>1, <1>5 DEF Return, RInv, CallsOK, NullOpt, TypeOK
  <2>3. k \notin DOMAIN AbstractValue
    BY <1>5, ListFacts, MappingFacts
  <2> QED BY <1>2, <1>3, <1>4, <1>5, <2>1, <2>2, <2>3
          DEF Return, Abstract!GetReturns, Abstract!Resident, Abstract!Becomes
<1>6. ASSUME GetFind(t) PROVE Abstract!GetReturns(t) \/ UNCHANGED Abstract!vars
  <2>1. CASE k \in DOMAIN m_table
    <3>1. AbstractCall' = [AbstractCall EXCEPT ![t] = "get"]
      BY <1>1, <1>2, <1>6, <2>1, CallBecomes DEF GetFind
    <3>2. AbstractCall' = AbstractCall
      <4>1. AbstractCall[t] = "get" /\ AbstractCall = [u \in Threads |-> CallOf(pc[u])]
        BY <1>1, <1>2, <1>3, <1>6, CallFacts DEF GetFind
      <4> QED BY <3>1, <4>1
    <3>3. AbstractValue' = AbstractValue /\ AbstractSince' = AbstractSince
      BY <1>6, ContentStays DEF GetFind
    <3> QED BY <1>6, <2>1, <3>2, <3>3 DEF GetFind, Abstract!vars
  <2>2. CASE k \notin DOMAIN m_table
    BY <1>5, <1>6, <2>2 DEF GetFind
  <2> QED BY <2>1, <2>2
<1>7. ASSUME GetTouch(t) PROVE Abstract!GetReturns(t)
  <2>1. CASE k \in DOMAIN m_table
    <3>1. Abstract!Use(k) /\ k \in DOMAIN AbstractValue /\ AbstractValue[k] = m_table[k].value
      BY <1>7, <2>1, TouchRefines DEF GetTouch
    <3>2. /\ Goto(t, "idle") /\ arg' = arg /\ pc[t] = "touch"
          /\ ret' = [ret EXCEPT ![t] = [source |-> "dyn_cache", value |-> m_table[k].value]]
      BY <1>7, <2>1 DEF GetTouch, Return
    <3> QED BY <1>2, <1>3, <1>4, <3>1, <3>2
            DEF Abstract!GetReturns, Abstract!Resident, Abstract!Becomes
  <2>2. CASE k \notin DOMAIN m_table
    BY <1>5, <1>7, <2>2 DEF GetTouch
  <2> QED BY <2>1, <2>2
<1> QED BY <1>6, <1>7

-----------------------------------------------------------------------------
(* Every step of the cache is a step of the working-set cache or invisible *)
(* to its callers.                                                         *)
LEMMA NextRefines == RInv /\ RInv' /\ [Next]_vars => [Abstract!Next]_(Abstract!vars)
<1> SUFFICES ASSUME RInv, RInv', [Next]_vars PROVE Abstract!Next \/ UNCHANGED Abstract!vars
  OBVIOUS
<1>1. TypeOK'
  BY DEF RInv, IInv
<1>2. ASSUME NEW t \in Threads, NEW k \in Keys, NEW v \in Values, CallAdd(t, k, v)
      PROVE  Abstract!Next
  BY <1>1, <1>2, CallAddRefines DEF Abstract!Next
<1>3. ASSUME NEW t \in Threads, NEW k \in Keys, CallGet(t, k)
      PROVE  Abstract!Next
  BY <1>1, <1>3, CallGetRefines DEF Abstract!Next
<1>4. ASSUME NEW t \in Threads, Step(t)
      PROVE  Abstract!Next \/ UNCHANGED Abstract!vars
  BY <1>1, <1>4, InsertRefines, CleanUpRefines, AddRefines, GetRefines DEF Step, Abstract!Next
<1>5. CASE UNCHANGED vars
  BY <1>5, ContentStays, CallStays DEF vars, Abstract!vars
<1> QED BY <1>2, <1>3, <1>4, <1>5 DEF Next, Call

(* The LRUCache of cache.h, shared by any number of threads and of any     *)
(* capacity, is a working-set cache: each call takes effect at one moment, *)
(* and a key is evicted exactly when max_size others were used since.      *)
THEOREM CacheImplementsWorkingSet == Spec => ImplementsWorkingSet
<1>1. Init => Abstract!Init
  BY InitRefines
<1>2. RInv /\ RInv' /\ [Next]_vars => [Abstract!Next]_(Abstract!vars)
  BY NextRefines
<1> QED BY <1>1, <1>2, RefinementInvariance, PTL DEF Spec, ImplementsWorkingSet, Abstract!Spec
=============================================================================
