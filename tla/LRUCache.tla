------------------------------ MODULE LRUCache ------------------------------
(***************************************************************************)
(* The workload cache of include/core/cache.h: LRUCache<K,V> on top of the *)
(* preloaded, read-only FixedCacheAddON<K,V>.  One cache is shared by all  *)
(* the threads that ask the cost model for a cost.                         *)
(*                                                                         *)
(* A std::list node is the pair stored in it; an iterator kept in m_table  *)
(* is modelled by the pair it points to, and dangles when that pair is no  *)
(* longer in the list.  Everything done under one hold of the unique lock  *)
(* is one step, except the eviction loop, which runs one iteration a step  *)
(* with mtx held; a shared lock is held within one step.                   *)
(***************************************************************************)
EXTENDS Naturals, Sequences, FiniteSets

CONSTANTS
    Threads,      \* threads that call the cache
    Keys,         \* workloads or descriptors
    Values,       \* cached values (floats)
    Hashes,       \* the 32-bit hashes of the preloaded table
    hash,         \* K::hash(), possibly with collisions
    deserialized_table, \* preloaded table, from some of the Hashes to Values
    max_size,     \* capacity; 0 disables the dynamic part
    NoThread,     \* mtx is not held exclusively
    NoValue       \* std::nullopt

ASSUME SizeAssumption == max_size \in Nat

ASSUME HashAssumption == hash \in [Keys -> Hashes]

ASSUME FixedAssumption ==
    /\ DOMAIN deserialized_table \subseteq Hashes
    /\ \A h \in DOMAIN deserialized_table : deserialized_table[h] \in Values

ASSUME NoneAssumption == NoThread \notin Threads /\ NoValue \notin Values

VARIABLES
    workloads,    \* the list of pairs, most recently used first
    m_table,      \* key -> iterator into workloads
    mtx,          \* the thread that holds the unique lock, or NoThread
    pc,           \* where each thread is
    arg,          \* key and value of each thread's current call
    ret           \* source and value the thread's current or last get returned

vars == <<workloads, m_table, mtx, pc, arg, ret>>

Pairs == [key : Keys, value : Values]

Sources == {"none", "fixed_cache", "dyn_cache"}

NullOpt == [source |-> "none", value |-> NoValue]

TypeOK ==
    /\ workloads \in Seq(Pairs)
    /\ DOMAIN m_table \subseteq Keys
    /\ \A k \in DOMAIN m_table : m_table[k] \in Pairs
    /\ mtx \in Threads \cup {NoThread}
    /\ pc \in [Threads -> {"idle", "add", "clean", "find", "touch", "throw"}]
    /\ arg \in [Threads -> [key : Keys, value : Values \cup {NoValue}]]
    /\ ret \in [Threads -> [source : Sources, value : Values \cup {NoValue}]]

-----------------------------------------------------------------------------
(* FixedCacheAddON: lookups by hash in the preloaded table. *)

FixedContains(k) == hash[k] \in DOMAIN deserialized_table

FixedGet(k) == deserialized_table[hash[k]]

(* list::splice of the node at position i to the front. *)
Splice(w, i) ==
    [j \in 1..Len(w) |-> IF j = 1 THEN w[i] ELSE IF j <= i THEN w[j - 1] ELSE w[j]]

(* Mutant: a hit does not move the node. *)
MarkNothing(k) == UNCHANGED workloads

(* The node that the iterator of k points to is spliced to the front.  A    *)
(* dangling iterator has no position (undefined behaviour in the code):     *)
(* IteratorsValid shows that none exists.                                   *)
mark_as_most_recently_used(k) ==
    \E i \in 1..Len(workloads) :
        /\ workloads[i] = m_table[k]
        /\ workloads' = Splice(workloads, i)

check_consistency == Len(workloads) = Cardinality(DOMAIN m_table)

-----------------------------------------------------------------------------
Init ==
    /\ workloads = <<>>
    /\ m_table = [k \in {} |-> NoValue]
    /\ mtx = NoThread
    /\ pc = [t \in Threads |-> "idle"]
    /\ arg \in [Threads -> [key : Keys, value : {NoValue}]]
    /\ ret = [t \in Threads |-> NullOpt]

Goto(t, label) == pc' = [pc EXCEPT ![t] = label]

Return(t, source, value) ==
    /\ Goto(t, "idle")
    /\ ret' = [ret EXCEPT ![t] = [source |-> source, value |-> value]]

(* add(wl, value) is called: with max_size = 0 it returns at once. *)
CallAdd(t, k, v) ==
    /\ pc[t] = "idle"
    /\ arg' = [arg EXCEPT ![t] = [key |-> k, value |-> v]]
    /\ ret' = [ret EXCEPT ![t] = NullOpt]
    /\ IF max_size = 0 THEN UNCHANGED pc ELSE Goto(t, "add")
    /\ UNCHANGED <<workloads, m_table, mtx>>

(* Unique lock taken; the preloaded table knows the key: nothing is added. *)
AddFixed(t) ==
    /\ pc[t] = "add" /\ mtx = NoThread
    /\ FixedContains(arg[t].key)
    /\ Goto(t, "idle")
    /\ UNCHANGED <<workloads, m_table, mtx, arg, ret>>

(* Mutant: the preloaded table is not consulted before inserting. *)
AddInsertUnchecked(t) ==
    LET k == arg[t].key
        node == [key |-> k, value |-> arg[t].value]
    IN  /\ pc[t] = "add" /\ mtx = NoThread /\ k \notin DOMAIN m_table
        /\ workloads' = <<node>> \o workloads
        /\ m_table' = [j \in DOMAIN m_table \cup {k} |-> IF j = k THEN node ELSE m_table[j]]
        /\ mtx' = t
        /\ Goto(t, "clean")
        /\ UNCHANGED <<arg, ret>>

(* Unique lock taken, key absent: push_front and insert, lock kept for the *)
(* clean-up.                                                               *)
AddInsert(t) ==
    LET k == arg[t].key
        node == [key |-> k, value |-> arg[t].value]
    IN  /\ pc[t] = "add" /\ mtx = NoThread
        /\ ~FixedContains(k) /\ k \notin DOMAIN m_table
        /\ workloads' = <<node>> \o workloads
        /\ m_table' = [j \in DOMAIN m_table \cup {k} |-> IF j = k THEN node ELSE m_table[j]]
        /\ mtx' = t
        /\ Goto(t, "clean")
        /\ UNCHANGED <<arg, ret>>

(* Mutant: adding an existing key overwrites the value in its node. *)
AddTouchReplaces(t) ==
    LET k == arg[t].key
        node == [key |-> k, value |-> arg[t].value]
    IN  /\ pc[t] = "add" /\ mtx = NoThread
        /\ ~FixedContains(k) /\ k \in DOMAIN m_table
        /\ workloads' = <<node>> \o SelectSeq(workloads, LAMBDA n : n.key # k)
        /\ m_table' = [m_table EXCEPT ![k] = node]
        /\ Goto(t, "idle")
        /\ UNCHANGED <<mtx, arg, ret>>

(* Unique lock taken, key present: the old value stays, moved to the front. *)
AddTouch(t) ==
    LET k == arg[t].key
    IN  /\ pc[t] = "add" /\ mtx = NoThread
        /\ ~FixedContains(k) /\ k \in DOMAIN m_table
        /\ mark_as_most_recently_used(k)
        /\ Goto(t, IF check_consistency THEN "idle" ELSE "throw")
        /\ UNCHANGED <<m_table, mtx, arg, ret>>

(* Mutant: the node at the wrong end of the list is popped. *)
CleanUpPopsFront(t) ==
    LET oldest == workloads[Len(workloads)].key
    IN  /\ pc[t] = "clean" /\ Cardinality(DOMAIN m_table) > max_size
        /\ m_table' = [j \in DOMAIN m_table \ {oldest} |-> m_table[j]]
        /\ workloads' = Tail(workloads)
        /\ UNCHANGED <<mtx, pc, arg, ret>>

(* Mutant: the key leaves the table and its node stays in the list. *)
CleanUpKeepsNode(t) ==
    LET rest == DOMAIN m_table \ {workloads[Len(workloads)].key}
    IN  /\ pc[t] = "clean" /\ Cardinality(DOMAIN m_table) > max_size
        /\ m_table' = [j \in rest |-> m_table[j]]
        /\ IF Len(workloads) = Cardinality(rest)
           THEN UNCHANGED <<pc, mtx>>
           ELSE Goto(t, "throw") /\ mtx' = NoThread
        /\ UNCHANGED <<workloads, arg, ret>>

(* Mutant: remove locks mtx, which its caller already holds. *)
CleanUpRelocks(t) ==
    /\ pc[t] = "clean" /\ Cardinality(DOMAIN m_table) > max_size
    /\ mtx = NoThread
    /\ UNCHANGED vars

(* One iteration of clean_up_excess_elements: remove(workloads.back().key), *)
(* which throws when the key is not in the table.                           *)
CleanUp(t) ==
    LET oldest == workloads[Len(workloads)].key
        rest == DOMAIN m_table \ {oldest}
    IN  /\ pc[t] = "clean"
        /\ Cardinality(DOMAIN m_table) > max_size
        /\ \/ /\ oldest \in DOMAIN m_table
              /\ m_table' = [j \in rest |-> m_table[j]]
              /\ workloads' = SubSeq(workloads, 1, Len(workloads) - 1)
              /\ IF Len(workloads) - 1 = Cardinality(rest)
                 THEN UNCHANGED <<pc, mtx>>
                 ELSE Goto(t, "throw") /\ mtx' = NoThread
           \/ /\ oldest \notin DOMAIN m_table
              /\ Goto(t, "throw") /\ mtx' = NoThread
              /\ UNCHANGED <<workloads, m_table>>
        /\ UNCHANGED <<arg, ret>>

(* Mutant: the eviction loop stops one element too early. *)
AddEndEarly(t) ==
    /\ pc[t] = "clean"
    /\ Cardinality(DOMAIN m_table) <= max_size + 1
    /\ Goto(t, IF check_consistency THEN "idle" ELSE "throw")
    /\ mtx' = NoThread
    /\ UNCHANGED <<workloads, m_table, arg, ret>>

(* The table fits: add ends with its own consistency check and unlocks. *)
AddEnd(t) ==
    /\ pc[t] = "clean"
    /\ Cardinality(DOMAIN m_table) <= max_size
    /\ Goto(t, IF check_consistency THEN "idle" ELSE "throw")
    /\ mtx' = NoThread
    /\ UNCHANGED <<workloads, m_table, arg, ret>>

(* get(wl): the preloaded table answers first, without a lock. *)
CallGet(t, k) ==
    /\ pc[t] = "idle"
    /\ arg' = [arg EXCEPT ![t] = [key |-> k, value |-> NoValue]]
    /\ IF FixedContains(k)
       THEN Return(t, "fixed_cache", FixedGet(k))
       ELSE Goto(t, "find") /\ ret' = [ret EXCEPT ![t] = NullOpt]
    /\ UNCHANGED <<workloads, m_table, mtx>>

(* Mutant: the lookup is operator[], which inserts an empty iterator. *)
GetFindInserts(t) ==
    /\ pc[t] = "find" /\ mtx = NoThread
    /\ Goto(t, "touch")
    /\ m_table' = [j \in DOMAIN m_table \cup {arg[t].key} |->
                      IF j \in DOMAIN m_table THEN m_table[j] ELSE NoValue]
    /\ UNCHANGED <<workloads, mtx, arg, ret>>

(* First lookup, under the shared lock, released before the next step. *)
GetFind(t) ==
    /\ pc[t] = "find" /\ mtx = NoThread
    /\ IF arg[t].key \in DOMAIN m_table
       THEN Goto(t, "touch") /\ UNCHANGED ret
       ELSE Return(t, "none", NoValue)
    /\ UNCHANGED <<workloads, m_table, mtx, arg>>

(* Second lookup, under the unique lock: the key may be gone by now. *)
GetTouch(t) ==
    LET k == arg[t].key
    IN  /\ pc[t] = "touch" /\ mtx = NoThread
        /\ IF k \in DOMAIN m_table
           THEN /\ mark_as_most_recently_used(k)
                /\ Return(t, "dyn_cache", m_table[k].value)
           ELSE /\ Return(t, "none", NoValue)
                /\ UNCHANGED workloads
        /\ UNCHANGED <<m_table, mtx, arg>>

Step(t) ==
    \/ AddFixed(t) \/ AddInsert(t) \/ AddTouch(t) \/ CleanUp(t) \/ AddEnd(t)
    \/ GetFind(t) \/ GetTouch(t)

Call(t) ==
    \/ \E k \in Keys, v \in Values : CallAdd(t, k, v)
    \/ \E k \in Keys : CallGet(t, k)

Next == \E t \in Threads : Call(t) \/ Step(t)

(* A thread that holds the unique lock keeps running; whether a waiting    *)
(* thread ever gets it is up to std::shared_mutex, which promises nothing. *)
Fairness == \A t \in Threads : WF_vars(CleanUp(t) \/ AddEnd(t))

Spec == Init /\ [][Next]_vars

FairSpec == Spec /\ Fairness

-----------------------------------------------------------------------------
(* Every iterator in the table points to a node of the list that has the   *)
(* table's key, each node is pointed to by the table, and no key is in the *)
(* list twice: no splice or pop_back ever works on a dangling iterator.    *)
(* This also holds in the middle of the eviction loop.                     *)
IteratorsValid ==
    /\ \A k \in DOMAIN m_table :
          \E i \in 1..Len(workloads) : workloads[i] = m_table[k] /\ workloads[i].key = k
    /\ \A i \in 1..Len(workloads) : workloads[i].key \in DOMAIN m_table
    /\ \A i, j \in 1..Len(workloads) : workloads[i].key = workloads[j].key => i = j

(* Whoever acquires the lock finds a cache within its capacity whose list  *)
(* and table have the same size (what check_consistency tests); over       *)
(* capacity is only visible to the thread that is cleaning up.             *)
BoundedWhenUnlocked ==
    /\ check_consistency
    /\ Len(workloads) <= max_size + (IF mtx = NoThread THEN 0 ELSE 1)

(* No interleaving makes add() or remove() throw its consistency or        *)
(* out_of_range error.                                                     *)
NeverThrows == \A t \in Threads : pc[t] # "throw"

(* A key the preloaded table answers for is never stored in the dynamic    *)
(* table, so the two sources cannot hold two values for one key.           *)
FixedShadowsDynamic == \A k \in DOMAIN m_table : ~FixedContains(k)

(* "If the key exists it does NOT replace the old value": while a key stays *)
(* in the cache its value never changes, whoever adds it again.             *)
FirstValueStays ==
    [][\A k \in DOMAIN m_table : k \in DOMAIN m_table' => m_table'[k] = m_table[k]]_vars

(* The eviction loop ends: a thread that took the unique lock to insert    *)
(* gives it back.                                                          *)
LockReleased == \A t \in Threads : (mtx = t) ~> (mtx = NoThread)

-----------------------------------------------------------------------------
(* What the cache promises, without list, table, iterators or locks: a key *)
(* is resident exactly while fewer than max_size other keys were used      *)
(* since its own last use.  Refinement mapping: the keys used since k are  *)
(* those in front of it in the list; mid-clean-up, the overflow is not     *)
(* part of the abstract cache.                                             *)
Front == 1..(IF Len(workloads) <= max_size THEN Len(workloads) ELSE max_size)

AbstractValue ==
    [k \in {workloads[i].key : i \in Front} |-> m_table[k].value]

AbstractSince ==
    [k \in {workloads[i].key : i \in Front} |->
        {workloads[j].key : j \in {h \in Front : \E i \in Front : h < i /\ workloads[i].key = k}}]

AbstractCall ==
    [t \in Threads |-> CASE pc[t] = "clean" -> "added"
                        [] pc[t] \in {"find", "touch"} -> "get"
                        [] pc[t] \in {"idle", "add", "throw"} -> pc[t]]

AbstractPreloaded == [k \in {j \in Keys : FixedContains(j)} |-> FixedGet(k)]

Abstract == INSTANCE WorkingSetCache WITH
    Capacity <- max_size, Preloaded <- AbstractPreloaded,
    value <- AbstractValue, since <- AbstractSince, call <- AbstractCall

(* The concurrent cache implements the working-set cache: each call takes  *)
(* effect at one moment, hits and repeated adds refresh their key,         *)
(* insertions evict exactly the least recently used key, a get misses only *)
(* what is not resident, and nothing else changes the content.             *)
ImplementsWorkingSet == Abstract!Spec
=============================================================================
