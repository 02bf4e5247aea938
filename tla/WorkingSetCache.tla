-------------------------- MODULE WorkingSetCache --------------------------
(***************************************************************************)
(* What a shared LRU cache promises to its callers, with no list, no order *)
(* and no locks: for every resident key, the set of other keys used since  *)
(* its own last use.  A key stays exactly as long as that set has fewer    *)
(* than Capacity members.  Every call takes effect in one step between its *)
(* start and its return.                                                   *)
(***************************************************************************)
EXTENDS Naturals, FiniteSets

CONSTANTS
    Threads, Keys, Values, NoValue,
    Preloaded,   \* some keys -> the value that the cache always has for them
    Capacity

VARIABLES
    value,   \* resident key -> its value
    since,   \* resident key -> the keys used since its last use
    call,    \* thread -> what it is doing
    arg,     \* thread -> its key, and the value of an add
    ret      \* thread -> what its get returned

vars == <<value, since, call, arg, ret>>

Resident == DOMAIN value

Nothing == [source |-> "none", value |-> NoValue]

Init ==
    /\ Resident = {} /\ DOMAIN since = {}
    /\ call = [t \in Threads |-> "idle"]
    /\ arg \in [Threads -> [key : Keys, value : {NoValue}]]
    /\ ret = [t \in Threads |-> Nothing]

Becomes(t, label) == call' = [call EXCEPT ![t] = label]

(* The sets after a use of k, for the keys in S. *)
SinceAfter(k, S) ==
    [j \in S |-> IF j = k THEN {} ELSE since[j] \cup {k}]

Use(k) ==
    /\ k \in Resident
    /\ since' = SinceAfter(k, Resident)
    /\ value' = value

(* A call starts; a disabled cache ignores add, a preloaded key answers get. *)
Start(t, k, v) ==
    LET adding == v # NoValue
        answered == ~adding /\ k \in DOMAIN Preloaded
    IN  /\ call[t] = "idle"
        /\ arg' = [arg EXCEPT ![t] = [key |-> k, value |-> v]]
        /\ ret' = [ret EXCEPT ![t] =
              IF answered THEN [source |-> "fixed_cache", value |-> Preloaded[k]] ELSE Nothing]
        /\ IF answered \/ (adding /\ Capacity = 0)
           THEN UNCHANGED call
           ELSE Becomes(t, IF adding THEN "add" ELSE "get")
        /\ UNCHANGED <<value, since>>

(* An add stores its value and evicts whatever no longer fits. *)
Insert(t) ==
    LET k == arg[t].key
        kept == {j \in Resident : Cardinality(since[j] \cup {k}) < Capacity}
        resident == kept \cup {k}
    IN  /\ call[t] = "add"
        /\ k \notin Resident /\ k \notin DOMAIN Preloaded
        /\ value' = [j \in resident |-> IF j = k THEN arg[t].value ELSE value[j]]
        /\ since' = SinceAfter(k, resident)
        /\ Becomes(t, "added")
        /\ UNCHANGED <<arg, ret>>

(* An add of a known key only counts as a use of it. *)
Refresh(t) ==
    /\ call[t] = "add"
    /\ IF arg[t].key \in DOMAIN Preloaded THEN UNCHANGED <<value, since>> ELSE Use(arg[t].key)
    /\ Becomes(t, "idle")
    /\ UNCHANGED <<arg, ret>>

AddReturns(t) ==
    /\ call[t] = "added"
    /\ Becomes(t, "idle")
    /\ UNCHANGED <<value, since, arg, ret>>

(* A get returns the value and counts as a use, or finds nothing. *)
GetReturns(t) ==
    LET k == arg[t].key
    IN  /\ call[t] = "get"
        /\ IF k \in Resident
           THEN Use(k) /\ ret' = [ret EXCEPT ![t] = [source |-> "dyn_cache", value |-> value[k]]]
           ELSE UNCHANGED <<value, since, ret>>
        /\ Becomes(t, "idle")
        /\ UNCHANGED arg

Next ==
    \E t \in Threads :
        \/ \E k \in Keys, v \in Values \cup {NoValue} : Start(t, k, v)
        \/ Insert(t) \/ Refresh(t) \/ AddReturns(t) \/ GetReturns(t)

Spec == Init /\ [][Next]_vars
=============================================================================
