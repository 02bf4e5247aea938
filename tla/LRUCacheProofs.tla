--------------------------- MODULE LRUCacheProofs ---------------------------
(***************************************************************************)
(* Proofs about LRUCache for every set of threads, keys and values, every  *)
(* preloaded table and every capacity.                                     *)
(***************************************************************************)
EXTENDS LRUCache, FiniteSetTheorems, TLAPS

(* What makes the invariants inductive: a thread is in the eviction loop   *)
(* exactly when it holds the unique lock, and a thread that is about to    *)
(* insert has a value to insert.                                           *)
LockDiscipline ==
    /\ \A t \in Threads : pc[t] = "clean" <=> mtx = t
    /\ \A t \in Threads : pc[t] = "add" => arg[t].value \in Values

Sizes == IsFiniteSet(DOMAIN m_table) /\ BoundedWhenUnlocked

IInv ==
    /\ TypeOK
    /\ LockDiscipline
    /\ IteratorsValid
    /\ Sizes
    /\ NeverThrows
    /\ FixedShadowsDynamic

-----------------------------------------------------------------------------
(* The splice of an element to the front keeps the length, and each        *)
(* position of the new list holds a different old position.                *)
LEMMA SpliceLemma ==
    ASSUME NEW S, NEW w \in Seq(S), NEW i \in 1..Len(w)
    PROVE  /\ Splice(w, i) \in Seq(S)
           /\ Len(Splice(w, i)) = Len(w)
           /\ \A j \in 1..Len(w) : \E p \in 1..Len(w) : Splice(w, i)[j] = w[p]
           /\ \A p \in 1..Len(w) : \E j \in 1..Len(w) : Splice(w, i)[j] = w[p]
PROOF
<1> DEFINE v == Splice(w, i)
<1>1. v = [j \in 1..Len(w) |-> IF j = 1 THEN w[i] ELSE IF j <= i THEN w[j - 1] ELSE w[j]]
  BY DEF Splice
<1>2. \A j \in 1..Len(w) : v[j] \in S
  BY <1>1
<1>3. v \in Seq(S) /\ Len(v) = Len(w)
  BY <1>1, <1>2
<1>4. \A j \in 1..Len(w) : \E p \in 1..Len(w) : v[j] = w[p]
  BY <1>1
<1>5. \A p \in 1..Len(w) : \E j \in 1..Len(w) : v[j] = w[p]
  <2> TAKE p \in 1..Len(w)
  <2>1. CASE p = i
    BY <2>1, <1>1
  <2>2. CASE p < i
    <3>1. p + 1 \in 1..Len(w) /\ v[p + 1] = w[p]
      BY <2>2, <1>1
    <3> QED BY <3>1
  <2>3. CASE p > i
    BY <2>3, <1>1
  <2> QED BY <2>1, <2>2, <2>3
<1> QED BY <1>3, <1>4, <1>5

(* A splice keeps the keys of the list distinct. *)
LEMMA SpliceDistinct ==
    ASSUME NEW w \in Seq(Pairs), NEW i \in 1..Len(w),
           \A a, b \in 1..Len(w) : w[a].key = w[b].key => a = b
    PROVE  \A a, b \in 1..Len(w) : Splice(w, i)[a].key = Splice(w, i)[b].key => a = b
PROOF
<1> DEFINE old(j) == IF j = 1 THEN i ELSE IF j <= i THEN j - 1 ELSE j
<1>1. \A j \in 1..Len(w) : old(j) \in 1..Len(w) /\ Splice(w, i)[j] = w[old(j)]
  BY DEF Splice
<1>2. \A a, b \in 1..Len(w) : old(a) = old(b) => a = b
  OBVIOUS
<1> HIDE DEF old
<1> SUFFICES ASSUME NEW a \in 1..Len(w), NEW b \in 1..Len(w),
                    Splice(w, i)[a].key = Splice(w, i)[b].key
             PROVE  a = b
  OBVIOUS
<1>3. w[old(a)].key = w[old(b)].key /\ old(a) \in 1..Len(w) /\ old(b) \in 1..Len(w)
  BY <1>1, Zenon
<1>4. old(a) = old(b)
  BY <1>3, Zenon
<1> QED BY <1>2, <1>4, Zenon

(* mark_as_most_recently_used is always possible and keeps the list and    *)
(* the iterators well formed.                                              *)
LEMMA TouchLemma ==
    ASSUME IInv, NEW k \in DOMAIN m_table, mark_as_most_recently_used(k), UNCHANGED m_table
    PROVE  /\ workloads' \in Seq(Pairs)
           /\ Len(workloads') = Len(workloads)
           /\ IteratorsValid'
PROOF
<1> USE DEF IInv, TypeOK
<1>1. PICK i \in 1..Len(workloads) : workloads' = Splice(workloads, i)
  BY DEF mark_as_most_recently_used
<1>2. workloads' \in Seq(Pairs) /\ Len(workloads') = Len(workloads)
  BY <1>1, SpliceLemma
<1>3. /\ \A j \in 1..Len(workloads) : \E p \in 1..Len(workloads) : workloads'[j] = workloads[p]
      /\ \A p \in 1..Len(workloads) : \E j \in 1..Len(workloads) : workloads'[j] = workloads[p]
  BY <1>1, SpliceLemma
<1>4. \A a, b \in 1..Len(workloads) : workloads'[a].key = workloads'[b].key => a = b
  <2>1. \A a, b \in 1..Len(workloads) : workloads[a].key = workloads[b].key => a = b
    BY DEF IteratorsValid
  <2>2. workloads \in Seq(Pairs)
    OBVIOUS
  <2>3. \A a, b \in 1..Len(workloads) :
            Splice(workloads, i)[a].key = Splice(workloads, i)[b].key => a = b
    BY <2>1, <2>2, SpliceDistinct, Zenon
  <2> QED BY <1>1, <2>3
<1>5. \A q \in DOMAIN m_table : \E j \in 1..Len(workloads) :
          workloads'[j] = m_table[q] /\ workloads'[j].key = q
  <2> TAKE q \in DOMAIN m_table
  <2>1. PICK p \in 1..Len(workloads) : workloads[p] = m_table[q] /\ workloads[p].key = q
    BY Zenon DEF IteratorsValid
  <2>2. PICK j \in 1..Len(workloads) : workloads'[j] = workloads[p]
    BY <1>3
  <2> QED BY <2>1, <2>2, Zenon
<1>6. \A j \in 1..Len(workloads) : workloads'[j].key \in DOMAIN m_table
  <2> TAKE j \in 1..Len(workloads)
  <2>1. PICK p \in 1..Len(workloads) : workloads'[j] = workloads[p]
    BY <1>3
  <2> QED BY <2>1, Zenon DEF IteratorsValid
<1> QED BY <1>2, <1>4, <1>5, <1>6 DEF IteratorsValid

-----------------------------------------------------------------------------
(* The constructor establishes the inductive invariant. *)
LEMMA InitIInv == Init => IInv
PROOF
<1> SUFFICES ASSUME Init PROVE IInv
  OBVIOUS
<1> USE DEF Init
<1>1. DOMAIN m_table = {} /\ workloads = <<>> /\ Len(workloads) = 0
  OBVIOUS
<1>2. TypeOK
  BY <1>1 DEF TypeOK, NullOpt, Sources
<1>3. LockDiscipline
  BY NoneAssumption DEF LockDiscipline
<1>4. IteratorsValid
  BY <1>1 DEF IteratorsValid
<1>5. Sizes
  BY <1>1, FS_EmptySet, SizeAssumption DEF Sizes, BoundedWhenUnlocked, check_consistency
<1>6. NeverThrows /\ FixedShadowsDynamic
  BY <1>1 DEF NeverThrows, FixedShadowsDynamic
<1> QED BY <1>2, <1>3, <1>4, <1>5, <1>6 DEF IInv

(* Steps that touch neither the list nor the table nor the lock. *)
LEMMA QuietStep ==
    ASSUME IInv, UNCHANGED <<workloads, m_table, mtx>>
    PROVE  IteratorsValid' /\ Sizes' /\ FixedShadowsDynamic'
PROOF
<1>1. IteratorsValid'
  BY DEF IInv, IteratorsValid
<1>2. Sizes'
  BY DEF IInv, Sizes, BoundedWhenUnlocked, check_consistency
<1>3. FixedShadowsDynamic'
  BY DEF IInv, FixedShadowsDynamic, FixedContains
<1> QED BY <1>1, <1>2, <1>3

(* The start of add or get, and an add that the preloaded table answers. *)
LEMMA CallStep ==
    ASSUME IInv, NEW t \in Threads, Call(t)
    PROVE  IInv'
PROOF
<1>1. ASSUME NEW k \in Keys, NEW v \in Values, CallAdd(t, k, v)
      PROVE  IInv'
  <2> USE <1>1 DEF CallAdd, Goto
  <2>1. IteratorsValid' /\ Sizes' /\ FixedShadowsDynamic'
    BY QuietStep
  <2>2. TypeOK'
    BY DEF IInv, TypeOK, NullOpt, Sources
  <2>3. LockDiscipline' /\ NeverThrows'
    BY NoneAssumption DEF IInv, TypeOK, LockDiscipline, NeverThrows
  <2> QED BY <2>1, <2>2, <2>3 DEF IInv
<1>2. ASSUME NEW k \in Keys, CallGet(t, k)
      PROVE  IInv'
  <2> USE <1>2 DEF CallGet, Goto, Return
  <2>1. IteratorsValid' /\ Sizes' /\ FixedShadowsDynamic'
    BY QuietStep
  <2>2. FixedContains(k) => FixedGet(k) \in Values
    BY FixedAssumption DEF FixedContains, FixedGet
  <2>3. TypeOK'
    <3> DEFINE r == ret'[t]
    <3>1. r \in [source : Sources, value : Values \cup {NoValue}] /\ ret' = [ret EXCEPT ![t] = r]
      BY <2>2 DEF IInv, TypeOK, NullOpt, Sources
    <3>2. pc' \in [Threads -> {"idle", "add", "clean", "find", "touch", "throw"}]
      BY DEF IInv, TypeOK
    <3>3. arg' \in [Threads -> [key : Keys, value : Values \cup {NoValue}]]
      BY DEF IInv, TypeOK
    <3> HIDE DEF r
    <3>4. ret' \in [Threads -> [source : Sources, value : Values \cup {NoValue}]]
      BY <3>1 DEF IInv, TypeOK
    <3> QED BY <3>2, <3>3, <3>4 DEF IInv, TypeOK
  <2>4. LockDiscipline' /\ NeverThrows'
    BY NoneAssumption DEF IInv, TypeOK, LockDiscipline, NeverThrows
  <2> QED BY <2>1, <2>3, <2>4 DEF IInv
<1> QED BY <1>1, <1>2 DEF Call

(* add() of a new key: the pair goes to the front and its iterator to the *)
(* table, with the lock kept for the clean-up.                             *)
LEMMA InsertStep ==
    ASSUME IInv, NEW t \in Threads, AddInsert(t)
    PROVE  IInv'
PROOF
<1> DEFINE k == arg[t].key
<1> DEFINE node == [key |-> k, value |-> arg[t].value]
<1>1. /\ pc[t] = "add" /\ mtx = NoThread
      /\ ~FixedContains(k) /\ k \notin DOMAIN m_table
      /\ workloads' = <<node>> \o workloads
      /\ m_table' = [j \in DOMAIN m_table \cup {k} |-> IF j = k THEN node ELSE m_table[j]]
      /\ mtx' = t
      /\ pc' = [pc EXCEPT ![t] = "clean"]
      /\ arg' = arg /\ ret' = ret
  BY DEF AddInsert, Goto
<1>2. k \in Keys /\ node \in Pairs /\ node.key = k
  BY <1>1 DEF IInv, TypeOK, LockDiscipline, Pairs
<1>3. workloads \in Seq(Pairs)
  BY DEF IInv, TypeOK
<1> HIDE DEF k, node
<1>4. /\ workloads' \in Seq(Pairs)
      /\ Len(workloads') = Len(workloads) + 1
      /\ workloads'[1] = node
      /\ \A i \in 1..Len(workloads) : workloads'[i + 1] = workloads[i]
      /\ \A i \in 2..Len(workloads') : workloads'[i] = workloads[i - 1]
  BY <1>1, <1>2, <1>3
<1>5. /\ DOMAIN m_table' = DOMAIN m_table \cup {k}
      /\ m_table'[k] = node
      /\ \A j \in DOMAIN m_table : m_table'[j] = m_table[j]
  BY <1>1
<1>6. TypeOK'
  <2>1. DOMAIN m_table' \subseteq Keys /\ \A j \in DOMAIN m_table' : m_table'[j] \in Pairs
    BY <1>2, <1>5 DEF IInv, TypeOK
  <2> QED BY <1>1, <1>4, <2>1 DEF IInv, TypeOK
<1>7. LockDiscipline' /\ NeverThrows'
  BY <1>1, NoneAssumption DEF IInv, TypeOK, LockDiscipline, NeverThrows
<1>8. IteratorsValid'
  <2>1. \A j \in DOMAIN m_table' : \E i \in 1..Len(workloads') :
            workloads'[i] = m_table'[j] /\ workloads'[i].key = j
    <3> TAKE j \in DOMAIN m_table'
    <3>1. CASE j = k
      <4>1. 1 \in 1..Len(workloads')
        BY <1>3, <1>4
      <4> QED BY <3>1, <4>1, <1>2, <1>4, <1>5
    <3>2. CASE j # k
      <4>1. j \in DOMAIN m_table
        BY <3>2, <1>5
      <4>2. PICK i \in 1..Len(workloads) : workloads[i] = m_table[j] /\ workloads[i].key = j
        BY <4>1, Zenon DEF IInv, IteratorsValid
      <4>3. i + 1 \in 1..Len(workloads') /\ workloads'[i + 1] = workloads[i]
        BY <1>3, <1>4
      <4> QED BY <4>1, <4>2, <4>3, <1>5, Zenon
    <3> QED BY <3>1, <3>2
  <2>2. \A i \in 1..Len(workloads') : i # 1 => i - 1 \in 1..Len(workloads) /\ workloads'[i] = workloads[i - 1]
    BY <1>3, <1>4
  <2>3. \A i \in 1..Len(workloads') : workloads'[i].key \in DOMAIN m_table'
    <3> TAKE i \in 1..Len(workloads')
    <3>1. CASE i = 1
      BY <3>1, <1>2, <1>4, <1>5
    <3>2. CASE i # 1
      <4>1. workloads[i - 1].key \in DOMAIN m_table
        BY <3>2, <2>2, Zenon DEF IInv, IteratorsValid
      <4> QED BY <4>1, <3>2, <2>2, <1>5
    <3> QED BY <3>1, <3>2
  <2>4. \A i \in 1..Len(workloads') : i # 1 => workloads'[i].key # k
    <3> TAKE i \in 1..Len(workloads')
    <3> HAVE i # 1
    <3>1. workloads[i - 1].key \in DOMAIN m_table
      BY <2>2, Zenon DEF IInv, IteratorsValid
    <3> QED BY <3>1, <2>2, <1>1
  <2>5. \A i, j \in 1..Len(workloads') : workloads'[i].key = workloads'[j].key => i = j
    <3> TAKE i, j \in 1..Len(workloads')
    <3> HAVE workloads'[i].key = workloads'[j].key
    <3>1. CASE i = 1 \/ j = 1
      BY <3>1, <2>4, <1>2, <1>4
    <3>2. CASE i # 1 /\ j # 1
      <4>1. workloads[i - 1].key = workloads[j - 1].key
        BY <3>2, <2>2
      <4>2. i - 1 = j - 1
        BY <3>2, <4>1, <2>2, Zenon DEF IInv, IteratorsValid
      <4> QED BY <4>2
    <3> QED BY <3>1, <3>2
  <2> QED BY <2>1, <2>3, <2>5 DEF IteratorsValid
<1>9. Sizes'
  <2>1. IsFiniteSet(DOMAIN m_table) /\ Len(workloads) = Cardinality(DOMAIN m_table) /\ Len(workloads) <= max_size
    BY <1>1, SizeAssumption, <1>3 DEF IInv, Sizes, BoundedWhenUnlocked, check_consistency
  <2>2. IsFiniteSet(DOMAIN m_table') /\ Cardinality(DOMAIN m_table') = Cardinality(DOMAIN m_table) + 1
    BY <2>1, <1>1, <1>5, FS_AddElement
  <2>3. mtx' # NoThread
    BY <1>1, NoneAssumption
  <2> QED BY <2>1, <2>2, <2>3, <1>3, <1>4, SizeAssumption DEF Sizes, BoundedWhenUnlocked, check_consistency
<1>10. FixedShadowsDynamic'
  BY <1>1, <1>5 DEF IInv, FixedShadowsDynamic, FixedContains
<1> QED BY <1>6, <1>7, <1>8, <1>9, <1>10 DEF IInv

(* One iteration of clean_up_excess_elements: the last pair and its        *)
(* iterator go together.                                                   *)
LEMMA CleanUpStep ==
    ASSUME IInv, NEW t \in Threads, CleanUp(t)
    PROVE  IInv'
PROOF
<1> DEFINE n == Len(workloads)
<1> DEFINE oldest == workloads[n].key
<1> DEFINE rest == DOMAIN m_table \ {oldest}
<1>1. /\ workloads \in Seq(Pairs) /\ n \in Nat
      /\ IsFiniteSet(DOMAIN m_table) /\ n = Cardinality(DOMAIN m_table)
      /\ n <= max_size + 1 /\ n > max_size /\ n \in 1..n
  BY SizeAssumption DEF IInv, TypeOK, Sizes, BoundedWhenUnlocked, check_consistency, CleanUp
<1>2. oldest \in DOMAIN m_table
  BY <1>1, Zenon DEF IInv, IteratorsValid
<1>3. IsFiniteSet(rest) /\ Cardinality(rest) = n - 1
  BY <1>1, <1>2, FS_RemoveElement
<1>4. /\ pc[t] = "clean" /\ pc' = pc /\ mtx' = mtx /\ arg' = arg /\ ret' = ret
      /\ m_table' = [j \in rest |-> m_table[j]]
      /\ workloads' = SubSeq(workloads, 1, n - 1)
  BY <1>2, <1>3 DEF CleanUp
<1> HIDE DEF oldest
<1>5. /\ workloads' \in Seq(Pairs) /\ Len(workloads') = n - 1
      /\ \A i \in 1..(n - 1) : workloads'[i] = workloads[i]
  BY <1>1, <1>4
<1>6. DOMAIN m_table' = rest /\ \A j \in rest : m_table'[j] = m_table[j]
  BY <1>4
<1>7. TypeOK'
  BY <1>4, <1>5, <1>6 DEF IInv, TypeOK
<1>8. LockDiscipline' /\ NeverThrows'
  BY <1>4 DEF IInv, LockDiscipline, NeverThrows
<1>9. Sizes'
  <2>1. mtx' = t /\ t # NoThread
    BY <1>4, NoneAssumption DEF IInv, LockDiscipline
  <2> QED BY <2>1, <1>1, <1>3, <1>5, <1>6, SizeAssumption DEF Sizes, BoundedWhenUnlocked, check_consistency
<1>10. FixedShadowsDynamic'
  BY <1>6 DEF IInv, FixedShadowsDynamic, FixedContains
<1>11. IteratorsValid'
  <2>1. \A i \in 1..(n - 1) : i \in 1..n /\ i # n
    BY <1>1
  <2>2. \A j \in rest : \E i \in 1..(n - 1) : workloads'[i] = m_table'[j] /\ workloads'[i].key = j
    <3> TAKE j \in rest
    <3>1. PICK i \in 1..n : workloads[i] = m_table[j] /\ workloads[i].key = j
      BY Zenon DEF IInv, IteratorsValid
    <3>2. i # n
      BY <3>1 DEF oldest
    <3>3. i \in 1..(n - 1)
      BY <3>2, <1>1
    <3> QED BY <3>1, <3>3, <1>5, <1>6
  <2>3. \A i \in 1..(n - 1) : workloads'[i].key \in rest
    <3> TAKE i \in 1..(n - 1)
    <3>1. i \in 1..n /\ i # n /\ n \in 1..n
      BY <2>1, <1>1
    <3>2. workloads[i].key \in DOMAIN m_table /\ workloads[i].key # oldest
      BY <3>1, Zenon DEF IInv, IteratorsValid, oldest
    <3> QED BY <3>2, <1>5
  <2>4. \A i, j \in 1..(n - 1) : workloads'[i].key = workloads'[j].key => i = j
    <3> TAKE i, j \in 1..(n - 1)
    <3> HAVE workloads'[i].key = workloads'[j].key
    <3>1. i \in 1..n /\ j \in 1..n /\ workloads[i].key = workloads[j].key
      BY <2>1, <1>5
    <3> QED BY <3>1, Zenon DEF IInv, IteratorsValid
  <2> QED BY <2>2, <2>3, <2>4, <1>5, <1>6 DEF IteratorsValid
<1> QED BY <1>7, <1>8, <1>9, <1>10, <1>11 DEF IInv

(* The steps that only splice, or only read: add of a known key, the end   *)
(* of add, and both lookups of get.                                        *)
LEMMA OtherSteps ==
    ASSUME IInv, NEW t \in Threads,
           AddFixed(t) \/ AddTouch(t) \/ AddEnd(t) \/ GetFind(t) \/ GetTouch(t)
    PROVE  IInv'
PROOF
<1>0. check_consistency
  BY DEF IInv, Sizes, BoundedWhenUnlocked
<1>1. CASE AddFixed(t)
  <2> USE <1>1 DEF AddFixed, Goto
  <2>1. IteratorsValid' /\ Sizes' /\ FixedShadowsDynamic'
    BY QuietStep
  <2>2. TypeOK' /\ LockDiscipline' /\ NeverThrows'
    BY NoneAssumption DEF IInv, TypeOK, LockDiscipline, NeverThrows
  <2> QED BY <2>1, <2>2 DEF IInv
<1>2. CASE AddTouch(t)
  <2>1. /\ arg[t].key \in DOMAIN m_table /\ mark_as_most_recently_used(arg[t].key)
        /\ mtx = NoThread /\ pc' = [pc EXCEPT ![t] = "idle"]
        /\ UNCHANGED <<m_table, mtx, arg, ret>>
    BY <1>0, <1>2 DEF AddTouch, Goto
  <2>2. workloads' \in Seq(Pairs) /\ Len(workloads') = Len(workloads) /\ IteratorsValid'
    BY <2>1, TouchLemma
  <2>3. TypeOK' /\ LockDiscipline' /\ NeverThrows'
    BY <2>1, <2>2, NoneAssumption DEF IInv, TypeOK, LockDiscipline, NeverThrows
  <2>4. Sizes' /\ FixedShadowsDynamic'
    BY <2>1, <2>2 DEF IInv, Sizes, BoundedWhenUnlocked, check_consistency, FixedShadowsDynamic, FixedContains
  <2> QED BY <2>2, <2>3, <2>4 DEF IInv
<1>3. CASE AddEnd(t)
  <2>1. /\ pc[t] = "clean" /\ Cardinality(DOMAIN m_table) <= max_size
        /\ pc' = [pc EXCEPT ![t] = "idle"] /\ mtx' = NoThread
        /\ UNCHANGED <<workloads, m_table, arg, ret>>
    BY <1>0, <1>3 DEF AddEnd, Goto
  <2>2. TypeOK' /\ NeverThrows'
    BY <2>1 DEF IInv, TypeOK, NeverThrows
  <2>3. LockDiscipline'
    BY <2>1, NoneAssumption DEF IInv, TypeOK, LockDiscipline
  <2>4. IteratorsValid' /\ FixedShadowsDynamic'
    BY <2>1 DEF IInv, IteratorsValid, FixedShadowsDynamic, FixedContains
  <2>5. Sizes'
    BY <2>1, <1>0, SizeAssumption DEF IInv, TypeOK, Sizes, BoundedWhenUnlocked, check_consistency
  <2> QED BY <2>2, <2>3, <2>4, <2>5 DEF IInv
<1>4. CASE GetFind(t)
  <2>1. /\ pc[t] = "find" /\ mtx = NoThread
        /\ pc' = [pc EXCEPT ![t] = "touch"] \/ pc' = [pc EXCEPT ![t] = "idle"]
        /\ ret' = ret \/ ret' = [ret EXCEPT ![t] = [source |-> "none", value |-> NoValue]]
        /\ UNCHANGED <<workloads, m_table, mtx, arg>>
    BY <1>4 DEF GetFind, Goto, Return
  <2>2. IteratorsValid' /\ Sizes' /\ FixedShadowsDynamic'
    BY <2>1, QuietStep
  <2>3. TypeOK'
    <3>1. ret' \in [Threads -> [source : Sources, value : Values \cup {NoValue}]]
      BY <2>1 DEF IInv, TypeOK, Sources
    <3>2. pc' \in [Threads -> {"idle", "add", "clean", "find", "touch", "throw"}]
      BY <2>1 DEF IInv, TypeOK
    <3> QED BY <2>1, <3>1, <3>2 DEF IInv, TypeOK
  <2>4. LockDiscipline' /\ NeverThrows'
    BY <2>1, NoneAssumption DEF IInv, TypeOK, LockDiscipline, NeverThrows
  <2> QED BY <2>2, <2>3, <2>4 DEF IInv
<1>5. CASE GetTouch(t)
  <2>1. /\ pc[t] = "touch" /\ mtx = NoThread
        /\ pc' = [pc EXCEPT ![t] = "idle"]
        /\ UNCHANGED <<m_table, mtx, arg>>
    BY <1>5 DEF GetTouch, Goto, Return
  <2>2. LockDiscipline' /\ NeverThrows'
    BY <2>1, NoneAssumption DEF IInv, TypeOK, LockDiscipline, NeverThrows
  <2>3. workloads' \in Seq(Pairs) /\ Len(workloads') = Len(workloads) /\ IteratorsValid'
    <3>1. CASE arg[t].key \in DOMAIN m_table
      <4>1. mark_as_most_recently_used(arg[t].key)
        BY <3>1, <1>5 DEF GetTouch
      <4> QED BY <4>1, <3>1, <2>1, TouchLemma
    <3>2. CASE arg[t].key \notin DOMAIN m_table
      <4>1. workloads' = workloads
        BY <3>2, <1>5 DEF GetTouch
      <4> QED BY <4>1, <2>1 DEF IInv, TypeOK, IteratorsValid
    <3> QED BY <3>1, <3>2
  <2>4. Sizes' /\ FixedShadowsDynamic'
    BY <2>1, <2>3 DEF IInv, Sizes, BoundedWhenUnlocked, check_consistency, FixedShadowsDynamic, FixedContains
  <2>5. ret' \in [Threads -> [source : Sources, value : Values \cup {NoValue}]]
    <3>1. CASE arg[t].key \in DOMAIN m_table
      <4>1. m_table[arg[t].key].value \in Values
        BY <3>1 DEF IInv, TypeOK, Pairs
      <4> QED BY <4>1, <3>1, <1>5 DEF IInv, TypeOK, GetTouch, Return, Sources
    <3>2. CASE arg[t].key \notin DOMAIN m_table
      BY <3>2, <1>5 DEF IInv, TypeOK, GetTouch, Return, Sources
    <3> QED BY <3>1, <3>2
  <2>6. TypeOK'
    BY <2>1, <2>3, <2>5 DEF IInv, TypeOK
  <2> QED BY <2>2, <2>3, <2>4, <2>6 DEF IInv
<1> QED BY <1>1, <1>2, <1>3, <1>4, <1>5

-----------------------------------------------------------------------------
(* The invariant is inductive. *)
LEMMA NextIInv == IInv /\ [Next]_vars => IInv'
PROOF
<1> SUFFICES ASSUME IInv, [Next]_vars PROVE IInv'
  OBVIOUS
<1>1. ASSUME NEW t \in Threads, Step(t) PROVE IInv'
  BY <1>1, InsertStep, CleanUpStep, OtherSteps DEF Step
<1>2. CASE UNCHANGED vars
  <2> USE <1>2 DEF vars
  <2>1. IteratorsValid' /\ Sizes' /\ FixedShadowsDynamic'
    BY QuietStep
  <2>2. TypeOK' /\ LockDiscipline' /\ NeverThrows'
    BY DEF IInv, TypeOK, LockDiscipline, NeverThrows
  <2> QED BY <2>1, <2>2 DEF IInv
<1> QED BY <1>1, <1>2, CallStep DEF Next

(* Every reachable state of the cache satisfies the inductive invariant. *)
THEOREM Inductive == Spec => []IInv
PROOF BY InitIInv, NextIInv, PTL DEF Spec

(* The type invariant, for every instance of the cache. *)
THEOREM TypeCorrect == Spec => []TypeOK
PROOF
<1>1. IInv => TypeOK
  BY DEF IInv
<1> QED BY <1>1, Inductive, PTL

(* No splice or eviction of LRUCache ever works on a dangling iterator,    *)
(* whatever the threads do.                                                *)
THEOREM IteratorsAlwaysValid == Spec => []IteratorsValid
PROOF
<1>1. IInv => IteratorsValid
  BY DEF IInv
<1> QED BY <1>1, Inductive, PTL

(* List and table agree in size and exceed the capacity only while the     *)
(* inserting thread holds the lock.                                        *)
THEOREM AlwaysBounded == Spec => []BoundedWhenUnlocked
PROOF
<1>1. IInv => BoundedWhenUnlocked
  BY DEF IInv, Sizes
<1> QED BY <1>1, Inductive, PTL

(* The consistency errors of add() and remove() are unreachable. *)
THEOREM ErrorsUnreachable == Spec => []NeverThrows
PROOF
<1>1. IInv => NeverThrows
  BY DEF IInv
<1> QED BY <1>1, Inductive, PTL

(* The dynamic table never shadows or duplicates the preloaded one. *)
THEOREM SourcesDisjoint == Spec => []FixedShadowsDynamic
PROOF
<1>1. IInv => FixedShadowsDynamic
  BY DEF IInv
<1> QED BY <1>1, Inductive, PTL

(* A resident key keeps the value it was first added with. *)
THEOREM ResidentValuesStable == Spec => FirstValueStays
PROOF
<1> DEFINE Stable == \A k \in DOMAIN m_table : k \in DOMAIN m_table' => m_table'[k] = m_table[k]
<1>1. [Next]_vars => [Stable]_vars
  <2> SUFFICES ASSUME Next PROVE Stable
    OBVIOUS
  <2>1. PICK t \in Threads : Call(t) \/ Step(t)
    BY DEF Next
  <2>2. CASE AddInsert(t)
    BY <2>2 DEF AddInsert
  <2>3. CASE CleanUp(t)
    BY <2>3 DEF CleanUp
  <2>4. CASE ~AddInsert(t) /\ ~CleanUp(t)
    <3>1. m_table' = m_table
      BY <2>1, <2>4 DEF Call, Step, CallAdd, CallGet, AddFixed, AddTouch, AddEnd, GetFind, GetTouch
    <3> QED BY <3>1
  <2> QED BY <2>2, <2>3, <2>4
<1> QED BY <1>1, PTL DEF Spec, FirstValueStays
=============================================================================
