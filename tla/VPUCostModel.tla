---------------------------- MODULE VPUCostModel ----------------------------
(***************************************************************************)
(* The L1 query VPUCostModel::DPU of src/vpu_cost_model.cpp: several       *)
(* threads ask for the cost of DPU workloads, and the cost comes from a    *)
(* chain of providers (cache, profiling service, NN, theoretical) that     *)
(* share one cache of raw NN values (include/vpu/nn_cost_provider.h).      *)
(*                                                                         *)
(* The cache is seen through its promise (LRUCache): get and add are       *)
(* atomic, add keeps an existing entry, and an entry may be evicted at any *)
(* moment by other keys.  A cache entry carries, for the properties only,  *)
(* the provider that the value came from and the cost its author returned. *)
(***************************************************************************)
EXTENDS Cycles, Sequences

CONSTANTS
    Threads,
    Workloads,      \* workloads after sanitization, without their hints
    Queried,        \* the workloads that callers ask for
    SanityCode,     \* workload -> NO_ERROR or the sanitizer's error code
    DualSparse,     \* workloads with both sparsities active
    NoAct, NoWt,    \* dual-sparse workload -> its two clones
    Extrapolated,   \* workloads that need the linear extrapolation
    Ch32, Ch64,     \* extrapolated workload -> its clones of 32 and 64 channels
    Channels,       \* extrapolated workload -> its output channels
    NNRaw,          \* workload -> raw output of the network
    HighThreshold,  \* raw values outside 0..HighThreshold are invalid
    Factor,         \* workload -> post-processing factor, in percent
    Fixed,          \* preloaded cache: some workloads -> raw value
    Theoretical,    \* workload -> theoretical cycles, 64 bits wide
    Profiled,       \* workload -> cycles the profiling service measures
    HasHttp,        \* an HTTP cost provider was built
    None

Hints == {"AUTO", "NN", "PROFILING_SERVICE", "THEORETICAL"}

EnvStates == {"NotSet", "ForcedOn", "ForcedOff"}

(* Where a value came from: "nn" is a raw network output, "nn_result" cycles *)
(* computed from network outputs.                                          *)
Origins == {"none", "fixed", "nn", "nn_result", "profiling", "theoretical"}

Labels == {"unknown", "fixed_cache", "dyn_cache", "nn", "profiling_service", "theoretical"}

(* A clone of a dual-sparse workload has one sparsity, a clone of at most  *)
(* 64 channels is not extrapolated.                                        *)
ASSUME WorkloadAssumption ==
    /\ Queried \subseteq Workloads
    /\ SanityCode \in [Workloads -> CyclesInterfaceType]
    /\ DualSparse \subseteq Workloads /\ Extrapolated \subseteq Workloads
    /\ NoAct \in [DualSparse -> Workloads \ DualSparse]
    /\ NoWt \in [DualSparse -> Workloads \ DualSparse]
    /\ Ch32 \in [Extrapolated -> Workloads \ Extrapolated]
    /\ Ch64 \in [Extrapolated -> Workloads \ Extrapolated]
    /\ Channels \in [Extrapolated -> Nat]

ASSUME ProviderAssumption ==
    /\ NNRaw \in [Workloads -> Int] /\ Factor \in [Workloads -> 1..100]
    /\ HighThreshold \in 0..START_ERROR_RANGE
    /\ DOMAIN Fixed \subseteq Workloads /\ \A w \in DOMAIN Fixed : Fixed[w] \in Int
    /\ Theoretical \in [Workloads -> Nat] /\ Profiled \in [Workloads -> CyclesInterfaceType]
    /\ HasHttp \in BOOLEAN
    /\ None \notin Workloads

VARIABLES
    cache,     \* dynamic cache: workload -> [raw, origin, answer]
    context,   \* threads that have an execution context
    buffer,    \* thread -> the workload whose output its context holds
    is_initialized, \* a network was loaded
    envState,  \* what the environment said about profiling
    enabled,   \* the AUTO gate of the profiling service
    pc,
    frame      \* thread -> locals of its query

(* Fixed when the cost model is constructed. *)
setup == <<is_initialized, envState>>

vars == <<cache, context, buffer, is_initialized, envState, enabled, pc, frame>>

Entries == [raw : Int, origin : Origins, answer : Int]

PCs == {"idle", "cache", "gate", "profile", "nn", "context", "emplace", "lookup",
        "predict", "store", "nn_done", "theoretical", "recheck", "share", "close"}

Frames == [wl : Workloads \cup {None}, hint : Hints, todo : Seq(Workloads),
           outs : Seq(CyclesInterfaceType), cycles : CyclesInterfaceType,
           label : Labels, origin : Origins,
           nn : Seq(Workloads), nnOuts : Seq(CyclesInterfaceType), nnOrigin : Origins]

TypeOK ==
    /\ DOMAIN cache \subseteq Workloads
    /\ \A w \in DOMAIN cache : cache[w] \in Entries
    /\ context \subseteq Threads
    /\ buffer \in [Threads -> Workloads \cup {None}]
    /\ is_initialized \in BOOLEAN /\ envState \in EnvStates /\ enabled \in BOOLEAN
    /\ pc \in [Threads -> PCs]
    /\ frame \in [Threads -> Frames]

-----------------------------------------------------------------------------
(* The raw-value cache and the post-processing of raw values. *)

is_NN_value_invalid(raw) == raw > HighThreshold \/ raw < 0

(* infer(): an invalid raw value is an error, a valid one is scaled. *)
PostProcess(w, raw) ==
    IF is_NN_value_invalid(raw) THEN ERROR_INVALID_OUTPUT_RANGE ELSE CeilDiv(raw * Factor[w], 100)

InCache(w) == w \in DOMAIN Fixed \/ w \in DOMAIN cache

CachedRaw(w) == IF w \in DOMAIN Fixed THEN Fixed[w] ELSE cache[w].raw

CachedOrigin(w) == IF w \in DOMAIN Fixed THEN "fixed" ELSE cache[w].origin

get_cached(w) ==
    IF is_initialized /\ InCache(w) THEN PostProcess(w, CachedRaw(w)) ELSE ERROR_CACHE_MISS

(* cache_manager.add: an entry that exists, dynamic or preloaded, is kept. *)
CacheAdd(w, entry) ==
    cache' = IF InCache(w) THEN cache
             ELSE [x \in DOMAIN cache \cup {w} |-> IF x = w THEN entry ELSE cache[x]]

-----------------------------------------------------------------------------
NoFrame ==
    [wl |-> None, hint |-> "AUTO", todo |-> <<>>, outs |-> <<>>, cycles |-> NO_ERROR,
     label |-> "unknown", origin |-> "none", nn |-> <<>>, nnOuts |-> <<>>, nnOrigin |-> "none"]

(* With a network, the constructor creates a context for its own thread    *)
(* when it checks the descriptor size; that thread may or may not be one   *)
(* of the callers.                                                         *)
Init ==
    /\ cache = [w \in {} |-> None]
    /\ is_initialized \in BOOLEAN
    /\ context \in {{}} \cup (IF is_initialized THEN {{t} : t \in Threads} ELSE {})
    /\ buffer = [t \in Threads |-> None]
    /\ envState \in EnvStates
    /\ enabled = (envState = "ForcedOn")
    /\ pc = [t \in Threads |-> "idle"]
    /\ frame = [t \in Threads |-> NoFrame]

Goto(t, label) == pc' = [pc EXCEPT ![t] = label]

Current(t) == Head(frame[t].todo)

(* Where run_cost_providers starts for a hint. *)
EntryPoint(hint) ==
    CASE hint = "AUTO" -> "cache"
      [] hint = "PROFILING_SERVICE" -> "profile"
      [] hint = "NN" -> "nn"
      [] hint = "THEORETICAL" -> "theoretical"

(* The cost_source label is only written when the caller passed a pointer: *)
(* the two runs of a dual-sparse workload do not.                          *)
Labelled(t, label) == IF frame[t].wl \in DualSparse THEN frame[t].label ELSE label

(* get_cost_dualsparsity: the first error, else the cheaper of the two. *)
CombineRuns(outs) ==
    IF Len(outs) = 1 THEN outs[1]
    ELSE IF isErrorCode(outs[1]) THEN outs[1]
    ELSE IF isErrorCode(outs[2]) THEN outs[2]
    ELSE IF outs[1] <= outs[2] THEN outs[1] ELSE outs[2]

(* run_cost_providers returns cycles: the next clone is run, or get_cost   *)
(* is over.                                                                *)
ReturnRun(t, cycles, label, origin) ==
    LET f == frame[t]
        outs == Append(f.outs, cycles)
        more == Len(f.todo) > 1
    IN  /\ frame' = [frame EXCEPT ![t] =
              [f EXCEPT !.todo = Tail(f.todo), !.outs = outs, !.label = label,
                        !.origin = IF Len(outs) = 1 THEN origin ELSE f.origin,
                        !.cycles = IF more THEN NO_ERROR ELSE CombineRuns(outs)]]
        /\ Goto(t, IF more THEN EntryPoint(f.hint) ELSE "close")

(* DPU_and_sanitize: an unusable workload is answered with the sanitizer's *)
(* code; a dual-sparse one runs as its two clones.                         *)
CallDPU(t, w, hint) ==
    /\ pc[t] = "idle"
    /\ frame' = [frame EXCEPT ![t] =
          [NoFrame EXCEPT !.wl = w, !.hint = hint, !.cycles = SanityCode[w],
                          !.todo = IF w \in DualSparse THEN <<NoAct[w], NoWt[w]>> ELSE <<w>>]]
    /\ Goto(t, IF SanityCode[w] = NO_ERROR THEN EntryPoint(hint) ELSE "close")
    /\ UNCHANGED <<cache, context, buffer, setup, enabled>>

(* AUTO 1: the cache.  Its source label is set by any hit, valid or not. *)
TryCache(t) ==
    LET w == Current(t)
        cached == get_cached(w)
        label == IF is_initialized /\ InCache(w)
                 THEN Labelled(t, IF w \in DOMAIN Fixed THEN "fixed_cache" ELSE "dyn_cache")
                 ELSE frame[t].label
    IN  /\ pc[t] = "cache"
        /\ IF isErrorCode(cached)
           THEN Goto(t, "gate") /\ frame' = [frame EXCEPT ![t].label = label]
           ELSE ReturnRun(t, cached, label, CachedOrigin(w))
        /\ UNCHANGED <<cache, context, buffer, setup, enabled>>

(* AUTO 2: the gate is read after the cache missed. *)
CheckGate(t) ==
    /\ pc[t] = "gate"
    /\ Goto(t, IF enabled THEN "profile" ELSE "nn")
    /\ UNCHANGED <<cache, context, buffer, setup, enabled, frame>>

(* The profiling service answers or fails (unavailable, bad response, any  *)
(* exception).  AUTO goes on when the answer is an error or zero.          *)
TryProfiling(t) ==
    LET w == Current(t)
        label == IF HasHttp THEN Labelled(t, "profiling_service") ELSE frame[t].label
    IN  /\ pc[t] = "profile"
        /\ \E cycles \in {ERROR_PROFILING_SERVICE} \cup (IF HasHttp THEN {Profiled[w]} ELSE {}) :
              IF frame[t].hint = "AUTO"
              THEN /\ frame' = [frame EXCEPT ![t].cycles = cycles, ![t].label = label,
                                             ![t].origin = "profiling"]
                   /\ Goto(t, IF isErrorCode(cycles) \/ cycles = NO_ERROR THEN "nn" ELSE "recheck")
              ELSE ReturnRun(t, cycles, label, "profiling")
        /\ UNCHANGED <<cache, context, buffer, setup, enabled>>

-----------------------------------------------------------------------------
(* The NN provider. *)

(* Mutant: AUTO returns the NN's error instead of falling back. *)
AfterNNNoFallback(t, cycles, label, origin) ==
    IF frame[t].hint = "AUTO"
    THEN /\ frame' = [frame EXCEPT ![t].cycles = cycles, ![t].label = label,
                                   ![t].origin = origin]
         /\ Goto(t, "recheck")
    ELSE ReturnRun(t, cycles, label, origin)

(* run_cost_providers has the NN's cycles: AUTO falls back to theoretical  *)
(* on an error, the NN hint returns them.                                  *)
AfterNN(t, cycles, label, origin) ==
    IF frame[t].hint = "AUTO"
    THEN /\ frame' = [frame EXCEPT ![t].cycles = cycles, ![t].label = label,
                                   ![t].origin = origin]
         /\ Goto(t, IF isErrorCode(cycles) THEN "theoretical" ELSE "recheck")
    ELSE ReturnRun(t, cycles, label, origin)

(* try_nn: without a network an error, and the label is not touched; an    *)
(* extrapolated workload is inferred as its two clones.                    *)
TryNN(t) ==
    LET w == Current(t) IN
    /\ pc[t] = "nn"
    /\ \/ /\ ~is_initialized
          /\ AfterNN(t, ERROR_INFERENCE_NOT_POSSIBLE, frame[t].label, "none")
       \/ /\ is_initialized
          /\ frame' = [frame EXCEPT
                ![t].nn = IF w \in Extrapolated THEN <<Ch32[w], Ch64[w]>> ELSE <<w>>,
                ![t].nnOuts = <<>>, ![t].nnOrigin = "nn",
                ![t].label = Labelled(t, "nn")]
          /\ Goto(t, "context")
    /\ UNCHANGED <<cache, context, buffer, setup, enabled>>

(* get_execution_context: find under the shared lock. *)
FindContext(t) ==
    /\ pc[t] = "context"
    /\ Goto(t, IF t \in context THEN "lookup" ELSE "emplace")
    /\ UNCHANGED <<cache, context, buffer, setup, enabled, frame>>

(* Mutant: the new context is lost and the lookup starts over. *)
EmplaceContextLost(t) ==
    /\ pc[t] = "emplace"
    /\ Goto(t, "context")
    /\ UNCHANGED <<cache, context, buffer, setup, enabled, frame>>

(* get_execution_context: emplace under the unique lock, unless present. *)
EmplaceContext(t) ==
    /\ pc[t] = "emplace"
    /\ context' = context \cup {t}
    /\ Goto(t, "lookup")
    /\ UNCHANGED <<cache, buffer, setup, enabled, frame>>

(* Mutant: one context for all. *)
SharedContext(t) == CHOOSE u \in Threads : TRUE

(* The context that a thread's inference runs in: its own. *)
ContextOf(t) == t

(* infer() of one workload is done: the next clone, or all done. *)
ReturnInfer(t, w, raw, origin) ==
    LET f == frame[t] IN
    /\ frame' = [frame EXCEPT ![t] =
          [f EXCEPT !.nn = Tail(f.nn), !.nnOuts = Append(f.nnOuts, PostProcess(w, raw)),
                    !.nnOrigin = IF origin = "nn" THEN f.nnOrigin ELSE origin]]
    /\ Goto(t, IF Len(f.nn) > 1 THEN "context" ELSE "nn_done")

(* Mutant: the clone is looked up under the workload it was cloned from. *)
LookupRawOriginal(t) ==
    LET w == Current(t) IN
    /\ pc[t] = "lookup"
    /\ IF InCache(w)
       THEN ReturnInfer(t, w, CachedRaw(w), CachedOrigin(w))
       ELSE Goto(t, "predict") /\ UNCHANGED frame
    /\ UNCHANGED <<cache, context, buffer, setup, enabled>>

(* infer_raw_input: a cached value is returned whatever its validity. *)
LookupRaw(t) ==
    LET w == Head(frame[t].nn) IN
    /\ pc[t] = "lookup"
    /\ IF InCache(w)
       THEN ReturnInfer(t, w, CachedRaw(w), CachedOrigin(w))
       ELSE Goto(t, "predict") /\ UNCHANGED frame
    /\ UNCHANGED <<cache, context, buffer, setup, enabled>>

(* The network runs in the buffers of the thread's context. *)
Predict(t) ==
    /\ pc[t] = "predict"
    /\ buffer' = [buffer EXCEPT ![ContextOf(t)] = Head(frame[t].nn)]
    /\ Goto(t, "store")
    /\ UNCHANGED <<cache, context, setup, enabled, frame>>

(* The output is read back and cached raw, even when it is invalid. *)
StoreRaw(t) ==
    LET w == Head(frame[t].nn)
        raw == NNRaw[buffer[ContextOf(t)]]
    IN  /\ pc[t] = "store"
        /\ CacheAdd(w, [raw |-> raw, origin |-> "nn", answer |-> PostProcess(w, raw)])
        /\ ReturnInfer(t, w, raw, "nn")
        /\ UNCHANGED <<context, buffer, setup, enabled>>

(* One inferred value, or the first error of two, or their extrapolation. *)
CombineInferred(w, outs) ==
    IF Len(outs) = 1 THEN outs[1]
    ELSE IF isErrorCode(outs[1]) THEN outs[1]
    ELSE IF isErrorCode(outs[2]) THEN outs[2]
    ELSE extrapolate_cost(Channels[w], 32, outs[1], 64, outs[2])

NNDone(t) ==
    LET f == frame[t]
        origin == IF Current(t) \in Extrapolated /\ f.nnOrigin = "nn" THEN "nn_result" ELSE f.nnOrigin
    IN
    /\ pc[t] = "nn_done"
    /\ AfterNN(t, CombineInferred(Current(t), f.nnOuts), f.label, origin)
    /\ UNCHANGED <<cache, context, buffer, setup, enabled>>

-----------------------------------------------------------------------------
(* Mutant: the wide value is passed on. *)
TheoreticalWide(w) == Theoretical[w]

(* DPUTheoreticalCycles is narrowed from 64 bits to CyclesInterfaceType. *)
TheoreticalCycles(w) == Wrap(Theoretical[w])

TryTheoretical(t) ==
    LET cycles == TheoreticalCycles(Current(t))
        label == Labelled(t, "theoretical")
    IN  /\ pc[t] = "theoretical"
        /\ IF frame[t].hint = "AUTO"
           THEN /\ frame' = [frame EXCEPT ![t].cycles = cycles, ![t].label = label,
                                          ![t].origin = "theoretical"]
                /\ Goto(t, "recheck")
           ELSE ReturnRun(t, cycles, label, "theoretical")
        /\ UNCHANGED <<cache, context, buffer, setup, enabled>>

(* Mutant: whatever was computed is shared. *)
RecheckSharesAll(t) ==
    LET f == frame[t] IN
    /\ pc[t] = "recheck"
    /\ IF isErrorCode(get_cached(Current(t)))
       THEN Goto(t, "share") /\ UNCHANGED frame
       ELSE ReturnRun(t, f.cycles, f.label, f.origin)
    /\ UNCHANGED <<cache, context, buffer, setup, enabled>>

(* AUTO 4: share the result only if the cache has no valid entry. *)
Recheck(t) ==
    LET f == frame[t] IN
    /\ pc[t] = "recheck"
    /\ IF isErrorCode(get_cached(Current(t))) /\ ~isErrorCode(f.cycles)
       THEN Goto(t, "share") /\ UNCHANGED frame
       ELSE ReturnRun(t, f.cycles, f.label, f.origin)
    /\ UNCHANGED <<cache, context, buffer, setup, enabled>>

(* add_to_cache: the cycles are stored as if they were a raw NN value. *)
Share(t) ==
    LET f == frame[t]
        entry == [raw |-> f.cycles, answer |-> f.cycles,
                  origin |-> IF f.origin = "nn" THEN "nn_result" ELSE f.origin]
    IN  /\ pc[t] = "share"
        /\ IF is_initialized THEN CacheAdd(Current(t), entry) ELSE UNCHANGED cache
        /\ ReturnRun(t, f.cycles, f.label, f.origin)
        /\ UNCHANGED <<context, buffer, setup, enabled>>

(* The row with cycles and cost source is closed, and DPU returns. *)
Close(t) ==
    /\ pc[t] = "close"
    /\ Goto(t, "idle")
    /\ frame' = [frame EXCEPT ![t] = NoFrame]
    /\ UNCHANGED <<cache, context, buffer, setup, enabled>>

(* setProfilingEnabledForAutoHint: ignored when the environment decided. *)
SetGate(value) ==
    /\ envState = "NotSet"
    /\ enabled' = value
    /\ UNCHANGED <<cache, context, buffer, setup, pc, frame>>

(* Other keys push w out of the LRU cache. *)
Evict(w) ==
    /\ w \in DOMAIN cache
    /\ cache' = [x \in DOMAIN cache \ {w} |-> cache[x]]
    /\ UNCHANGED <<context, buffer, setup, enabled, pc, frame>>

Step(t) ==
    \/ TryCache(t) \/ CheckGate(t) \/ TryProfiling(t) \/ TryNN(t)
    \/ FindContext(t) \/ EmplaceContext(t) \/ LookupRaw(t) \/ Predict(t) \/ StoreRaw(t)
    \/ NNDone(t) \/ TryTheoretical(t) \/ Recheck(t) \/ Share(t) \/ Close(t)

Next ==
    \/ \E t \in Threads : Step(t) \/ \E w \in Queried, h \in Hints : CallDPU(t, w, h)
    \/ \E value \in BOOLEAN : SetGate(value)
    \/ \E w \in Workloads : Evict(w)

Spec == Init /\ [][Next]_vars

(* Locks are held for a lookup or an insertion only, sockets have          *)
(* timeouts, and nothing else in a query waits: a thread keeps running.    *)
FairSpec == Spec /\ \A t \in Threads : WF_vars(Step(t))

-----------------------------------------------------------------------------
Answered(t) == pc[t] = "close" /\ SanityCode[frame[t].wl] = NO_ERROR

(* The workloads that run_cost_providers is run for. *)
RunsOf(w) == IF w \in DualSparse THEN {NoAct[w], NoWt[w]} ELSE {w}

(* An AUTO query falls back until some provider answers: it fails only     *)
(* when even the theoretical provider has no cost for what it ran,         *)
(* whatever the cache, the service and the other threads do.               *)
AutoFailsLast ==
    \A t \in Threads :
        Answered(t) /\ frame[t].hint = "AUTO" /\ isErrorCode(frame[t].cycles) =>
            \E w \in RunsOf(frame[t].wl) : isErrorCode(TheoreticalCycles(w))

(* What the cache holds in the network's name for a workload is that       *)
(* workload's own output: no two threads mix up their inference buffers.   *)
InferenceIsolated ==
    \A w \in DOMAIN cache : cache[w].origin = "nn" => cache[w].raw = NNRaw[w]

(* No error code is ever shared as a cost: an entry that does not come     *)
(* from the network holds real cycles.                                     *)
NoErrorShared ==
    \A w \in DOMAIN cache : cache[w].origin # "nn" => ~isErrorCode(cache[w].raw)

(* The costs that the providers themselves give for one workload. *)
PlainCosts(w) ==
    {PostProcess(w, NNRaw[w]), TheoreticalCycles(w), Profiled[w]}
        \cup (IF w \in DOMAIN Fixed THEN {PostProcess(w, Fixed[w])} ELSE {})

ProviderCosts(w) ==
    PlainCosts(w) \cup
        (IF w \in Extrapolated
         THEN {CombineInferred(w, <<x, y>>) : x \in PlainCosts(Ch32[w]), y \in PlainCosts(Ch64[w])}
         ELSE {})

(* With a pass-through post-processing, every cost that is returned is one *)
(* that some provider gives for that very workload, although it may have   *)
(* travelled through the shared cache, other threads' queries, clones and  *)
(* evictions before.                                                       *)
AnswerFromProvider ==
    \A t \in Threads :
        Answered(t) /\ ~isErrorCode(frame[t].cycles) =>
            \E w \in RunsOf(frame[t].wl) : frame[t].cycles \in ProviderCosts(w)

(* Every query is answered. *)
QueriesReturn == \A t \in Threads : pc[t] # "idle" ~> pc[t] = "idle"

(* README: the serialized rows show "which cost provider was used for      *)
(* each" workload: a cost labelled as the network's is the network's.      *)
NNLabelTruthful ==
    \A t \in Threads :
        Answered(t) /\ frame[t].label = "nn" => frame[t].origin \in {"nn", "nn_result", "fixed", "none"}

(* "Share result with NN cache": an AUTO answer served from the dynamic    *)
(* cache is the result of the query that filled the entry.                 *)
SharedResultReturned ==
    \A t \in Threads :
        pc[t] = "cache" /\ is_initialized /\ Current(t) \in DOMAIN cache
            /\ ~isErrorCode(get_cached(Current(t)))
        => get_cached(Current(t)) = cache[Current(t)].answer
=============================================================================
