------------------------ MODULE VPUCostModelProofs -------------------------
(***************************************************************************)
(* Proofs about the L1 query of VPUCostModel, for any number of threads    *)
(* and workloads, every width of the cycle type, and whatever the network, *)
(* the service, the theoretical model and the preloaded cache hold.        *)
(***************************************************************************)
EXTENDS VPUCostModel, SequenceTheorems, TLAPS

(* The post-processing leaves every valid raw value as it is. *)
PassesThrough == \A w \in Workloads : Factor[w] = 100

(* The runs that get_cost makes for a workload, in their order. *)
RunSeq(w) == IF w \in DualSparse THEN <<NoAct[w], NoWt[w]>> ELSE <<w>>

(* The inferences that try_nn makes for a workload, in their order. *)
NNSeq(w) == IF w \in Extrapolated THEN <<Ch32[w], Ch64[w]>> ELSE <<w>>

(* What one provider may answer for w. *)
CostOK(w, c) ==
    /\ c \in CyclesInterfaceType
    /\ PassesThrough /\ ~isErrorCode(c) => c \in ProviderCosts(w)

(* What run_cost_providers may answer for w: an AUTO run fails last. *)
OutcomeOK(hint, w, c) ==
    /\ CostOK(w, c)
    /\ hint = "AUTO" /\ isErrorCode(c) => isErrorCode(TheoreticalCycles(w))

(* A query before its first or before its second run. *)
Running(f) ==
    /\ f.wl \in Workloads
    /\ \/ f.outs = <<>> /\ f.todo = RunSeq(f.wl)
       \/ /\ f.wl \in DualSparse /\ f.todo = <<NoWt[f.wl]>>
          /\ f.outs = <<f.outs[1]>> /\ OutcomeOK(f.hint, NoAct[f.wl], f.outs[1])

(* The network query of a run before its first or second inference. *)
Inferring(f) ==
    LET w == Head(f.todo) IN
    \/ f.nnOuts = <<>> /\ f.nn = NNSeq(w)
    \/ /\ w \in Extrapolated /\ f.nn = <<Ch64[w]>>
       /\ f.nnOuts = <<f.nnOuts[1]>> /\ CostOK(Ch32[w], f.nnOuts[1])

(* The answer of a query that the sanitizer let through. *)
Closed(f) ==
    /\ f.wl \in Workloads
    /\ SanityCode[f.wl] = NO_ERROR => \E w \in RunsOf(f.wl) : OutcomeOK(f.hint, w, f.cycles)

(* A thread at p with locals f, whose context holds the output for b. *)
ThreadOK(p, f, b) ==
    /\ p \in PCs /\ f \in Frames /\ b \in Workloads \cup {None}
    /\ p \notin {"idle", "close"} => Running(f)
    /\ p \in {"context", "emplace", "lookup", "predict", "store"} => Inferring(f)
    /\ p = "store" => b = Head(f.nn)
    /\ p = "nn_done" => CostOK(Head(f.todo), CombineInferred(Head(f.todo), f.nnOuts))
    /\ p \in {"recheck", "share"} => OutcomeOK(f.hint, Head(f.todo), f.cycles)
    /\ p = "share" => ~isErrorCode(f.cycles)
    /\ p = "close" => Closed(f)

(* An entry is the network's own output, or a cost that was not an error. *)
EntryOK(w, entry) ==
    /\ entry \in Entries
    /\ entry.origin = "nn" => entry.raw = NNRaw[w]
    /\ entry.origin # "nn" => ~isErrorCode(entry.raw) /\ CostOK(w, entry.raw)

CacheOK ==
    /\ DOMAIN cache \subseteq Workloads
    /\ \A w \in DOMAIN cache : EntryOK(w, cache[w])

ThreadsOK == \A t \in Threads : ThreadOK(pc[t], frame[t], buffer[t])

IInv == TypeOK /\ CacheOK /\ ThreadsOK

-----------------------------------------------------------------------------
(* Zero cycles are no error, and the error codes are in the error range. *)
LEMMA Codes ==
    /\ START_ERROR_RANGE \in Nat /\ MaxV \in Nat /\ START_ERROR_RANGE < MaxV
    /\ NO_ERROR \in CyclesInterfaceType /\ ~isErrorCode(NO_ERROR)
    /\ ERROR_INVALID_OUTPUT_RANGE \in CyclesInterfaceType /\ isErrorCode(ERROR_INVALID_OUTPUT_RANGE)
    /\ ERROR_CACHE_MISS \in CyclesInterfaceType /\ isErrorCode(ERROR_CACHE_MISS)
    /\ ERROR_PROFILING_SERVICE \in CyclesInterfaceType /\ isErrorCode(ERROR_PROFILING_SERVICE)
    /\ ERROR_INFERENCE_NOT_POSSIBLE \in CyclesInterfaceType
    /\ isErrorCode(ERROR_INFERENCE_NOT_POSSIBLE)
    /\ ERROR_INVALID_CONVERSION_TO_CYCLES \in CyclesInterfaceType
    /\ isErrorCode(ERROR_INVALID_CONVERSION_TO_CYCLES)
BY CyclesAssumption DEF CyclesInterfaceType, START_ERROR_RANGE, isErrorCode, NO_ERROR,
    ERROR_INVALID_OUTPUT_RANGE, ERROR_CACHE_MISS, ERROR_PROFILING_SERVICE,
    ERROR_INFERENCE_NOT_POSSIBLE, ERROR_INVALID_CONVERSION_TO_CYCLES

(* A raw value is an error or becomes at most itself, so it never becomes  *)
(* an error code by its value; a factor of 100 percent keeps it.           *)
LEMMA PostProcessed ==
    ASSUME NEW w \in Workloads, NEW raw \in Int
    PROVE  /\ PostProcess(w, raw) \in CyclesInterfaceType
           /\ isErrorCode(PostProcess(w, raw)) <=> is_NN_value_invalid(raw)
           /\ ~isErrorCode(PostProcess(w, raw)) /\ Factor[w] = 100 => PostProcess(w, raw) = raw
<1>1. /\ START_ERROR_RANGE \in Nat /\ MaxV \in Nat /\ START_ERROR_RANGE < MaxV
      /\ HighThreshold \in Nat /\ HighThreshold <= START_ERROR_RANGE
      /\ Factor[w] \in 1..100
  BY Codes, ProviderAssumption
<1>2. CASE is_NN_value_invalid(raw)
  BY <1>2, Codes DEF PostProcess
<1>3. CASE ~is_NN_value_invalid(raw)
  <2>1. raw \in Nat /\ raw <= HighThreshold
    BY <1>1, <1>3 DEF is_NN_value_invalid
  <2>2. PICK n \in Nat : n = raw * Factor[w] /\ n <= raw * 100 /\ (Factor[w] = 100 => n = raw * 100)
    <3>1. /\ raw * Factor[w] \in Nat /\ raw * Factor[w] <= raw * 100
          /\ (Factor[w] = 100 => raw * Factor[w] = raw * 100)
      <4>1. \A x \in 1..100 : raw * x \in Nat /\ raw * x <= raw * 100
        BY <2>1
      <4> QED BY <4>1, <1>1
    <3> QED BY <3>1
  <2>3. PostProcess(w, raw) = -((-n) \div 100)
    BY <1>3, <2>2 DEF PostProcess, CeilDiv
  <2>4. /\ -((-n) \div 100) \in Nat /\ -((-n) \div 100) <= raw
        /\ (Factor[w] = 100 => -((-n) \div 100) = raw)
    BY <2>1, <2>2
  <2> QED BY <1>1, <1>3, <2>1, <2>3, <2>4 DEF CyclesInterfaceType, isErrorCode
<1> QED BY <1>2, <1>3

(* The extrapolation gives cycles or the conversion error. *)
LEMMA ExtrapolationTyped ==
    ASSUME NEW x \in Nat, NEW y1 \in CyclesInterfaceType, NEW y2 \in CyclesInterfaceType
    PROVE  extrapolate_cost(x, 32, y1, 64, y2) \in CyclesInterfaceType
<1>1. PICK n \in Int : n = (y2 - y1) * (x - 32) + y1 * 32
  <2>1. y1 \in Int /\ y2 \in Int
    BY Codes DEF CyclesInterfaceType
  <2> QED BY <2>1
<1>2. extrapolate_cost(x, 32, y1, 64, y2) = toCycleFromReal(n, 32)
  BY <1>1 DEF extrapolate_cost
<1>3. CASE n < 0 \/ n > START_ERROR_RANGE * 32
  BY <1>2, <1>3, Codes DEF toCycleFromReal
<1>4. CASE ~(n < 0 \/ n > START_ERROR_RANGE * 32)
  <2>1. n \in Nat /\ n <= START_ERROR_RANGE * 32
    BY <1>4, Codes
  <2>2. -((-n) \div 32) \in Nat /\ -((-n) \div 32) <= START_ERROR_RANGE
    BY <2>1, Codes
  <2> QED BY <1>2, <1>4, <2>2, Codes DEF toCycleFromReal, CeilDiv, CyclesInterfaceType
<1> QED BY <1>3, <1>4

(* The narrowed theoretical cycles fit the type. *)
LEMMA TheoreticalTyped ==
    ASSUME NEW w \in Workloads
    PROVE  TheoreticalCycles(w) \in CyclesInterfaceType
<1>1. Theoretical[w] \in Nat /\ MaxV \in Nat
  BY ProviderAssumption, Codes
<1> QED BY <1>1 DEF TheoreticalCycles, Wrap, CyclesInterfaceType

-----------------------------------------------------------------------------
(* What a provider gives for a workload is one of its provider costs, and  *)
(* the only ones when it is not extrapolated.                              *)
LEMMA PlainCost ==
    ASSUME NEW w \in Workloads
    PROVE  /\ PlainCosts(w) \subseteq ProviderCosts(w)
           /\ w \notin Extrapolated => ProviderCosts(w) = PlainCosts(w)
           /\ PostProcess(w, NNRaw[w]) \in PlainCosts(w)
           /\ TheoreticalCycles(w) \in PlainCosts(w)
           /\ Profiled[w] \in PlainCosts(w)
           /\ w \in DOMAIN Fixed => PostProcess(w, Fixed[w]) \in PlainCosts(w)
BY DEF PlainCosts, ProviderCosts

(* A raw value that the cache holds becomes a cost of the same workload. *)
LEMMA CachedCost ==
    ASSUME CacheOK, NEW w \in Workloads, InCache(w)
    PROVE  /\ CachedRaw(w) \in Int /\ CachedOrigin(w) \in Origins
           /\ CostOK(w, PostProcess(w, CachedRaw(w)))
<1>1. CASE w \in DOMAIN Fixed
  <2>1. CachedRaw(w) = Fixed[w] /\ Fixed[w] \in Int /\ CachedOrigin(w) = "fixed"
    BY <1>1, ProviderAssumption DEF CachedRaw, CachedOrigin
  <2> QED BY <1>1, <2>1, PlainCost, PostProcessed DEF CostOK, Origins
<1>2. CASE w \notin DOMAIN Fixed
  <2>1. w \in DOMAIN cache /\ EntryOK(w, cache[w])
    BY <1>2 DEF InCache, CacheOK
  <2>2. /\ CachedRaw(w) = cache[w].raw /\ CachedOrigin(w) = cache[w].origin
        /\ cache[w].raw \in Int /\ cache[w].origin \in Origins
    BY <1>2, <2>1 DEF CachedRaw, CachedOrigin, EntryOK, Entries
  <2>3. CASE cache[w].origin = "nn"
    BY <2>1, <2>2, <2>3, PlainCost, PostProcessed DEF CostOK, EntryOK
  <2>4. CASE cache[w].origin # "nn"
    BY <2>1, <2>2, <2>4, PostProcessed DEF CostOK, EntryOK, PassesThrough
  <2> QED BY <2>2, <2>3, <2>4
<1> QED BY <1>1, <1>2

(* A thread that runs a query runs it for a workload of that query. *)
LEMMA CurrentRun ==
    ASSUME NEW f \in Frames, Running(f)
    PROVE  /\ Head(f.todo) \in Workloads /\ Head(f.todo) \in RunsOf(f.wl)
           /\ Len(f.todo) > 1 <=> f.wl \in DualSparse /\ f.outs = <<>>
           /\ f.wl \in Workloads
<1>1. f.wl \in Workloads
  BY DEF Running
<1>2. CASE f.outs = <<>> /\ f.todo = RunSeq(f.wl)
  BY <1>1, <1>2, WorkloadAssumption DEF RunSeq, RunsOf
<1>3. CASE f.wl \in DualSparse /\ f.todo = <<NoWt[f.wl]>> /\ f.outs = <<f.outs[1]>>
  <2>1. f.outs # <<>>
    BY <1>3
  <2> QED BY <1>1, <1>3, <2>1, WorkloadAssumption DEF RunsOf
<1> QED BY <1>1, <1>2, <1>3 DEF Running

(* The inference that a thread makes is of a known workload. *)
LEMMA CurrentInference ==
    ASSUME NEW f \in Frames, Running(f), Inferring(f)
    PROVE  Head(f.nn) \in Workloads
<1>1. Head(f.todo) \in Workloads
  BY CurrentRun
<1>2. CASE f.nnOuts = <<>> /\ f.nn = NNSeq(Head(f.todo))
  BY <1>1, <1>2, WorkloadAssumption DEF NNSeq
<1>3. CASE Head(f.todo) \in Extrapolated /\ f.nn = <<Ch64[Head(f.todo)]>>
  BY <1>1, <1>3, WorkloadAssumption
<1> QED BY <1>2, <1>3 DEF Inferring

(* Appending to a sequence of one element. *)
LEMMA AppendSecond ==
    ASSUME NEW x, NEW y
    PROVE  Append(<<x>>, y) = <<x, y>>
<1> DEFINE s == Append(<<x>>, y)
           u == <<x, y>>
           S == {x, y}
<1>1. <<x>> \in Seq(S) /\ u \in Seq(S)
  OBVIOUS
<1>2. s \in Seq(S) /\ Len(s) = 2 /\ s[1] = x /\ s[2] = y
  BY <1>1
<1>3. Len(u) = 2 /\ u[1] = x /\ u[2] = y
  OBVIOUS
<1> HIDE DEF s, u, S
<1>4. Len(s) = Len(u) /\ \A i \in 1..Len(s) : s[i] = u[i]
  BY <1>2, <1>3
<1>5. s = u
  BY <1>1, <1>2, <1>4, SeqEqual
<1> QED BY <1>5 DEF s, u

(* The combination of two runs is the outcome of one of them. *)
LEMMA CombinedRuns ==
    ASSUME NEW h, NEW v, NEW w, NEW x \in CyclesInterfaceType, NEW y \in CyclesInterfaceType,
           OutcomeOK(h, v, x), OutcomeOK(h, w, y)
    PROVE  \E u \in {v, w} : OutcomeOK(h, u, CombineRuns(<<x, y>>))
<1>1. CombineRuns(<<x, y>>) = x \/ CombineRuns(<<x, y>>) = y
  BY DEF CombineRuns
<1> QED BY <1>1, Zenon

(* The extrapolation from two clones is a cost of the workload. *)
LEMMA CombinedInferences ==
    ASSUME NEW w \in Extrapolated, NEW x, NEW y, CostOK(Ch32[w], x), CostOK(Ch64[w], y)
    PROVE  CostOK(w, CombineInferred(w, <<x, y>>))
<1> DEFINE c == CombineInferred(w, <<x, y>>)
<1>1. /\ w \in Workloads /\ Channels[w] \in Nat
      /\ Ch32[w] \in Workloads \ Extrapolated /\ Ch64[w] \in Workloads \ Extrapolated
  BY WorkloadAssumption
<1>2. x \in CyclesInterfaceType /\ y \in CyclesInterfaceType
  BY DEF CostOK
<1>3. c = IF isErrorCode(x) THEN x ELSE IF isErrorCode(y) THEN y
          ELSE extrapolate_cost(Channels[w], 32, x, 64, y)
  BY DEF CombineInferred
<1>4. c \in CyclesInterfaceType
  BY <1>1, <1>2, <1>3, ExtrapolationTyped
<1>5. ASSUME PassesThrough, ~isErrorCode(c) PROVE c \in ProviderCosts(w)
  <2>1. ~isErrorCode(x) /\ ~isErrorCode(y)
    BY <1>3, <1>5
  <2>2. x \in PlainCosts(Ch32[w]) /\ y \in PlainCosts(Ch64[w])
    BY <1>1, <1>5, <2>1, PlainCost DEF CostOK
  <2> QED BY <2>2 DEF ProviderCosts
<1> QED BY <1>4, <1>5 DEF CostOK

(* ReturnRun: the thread goes on to the second run or closes the query,    *)
(* and a closed query has the outcome of one of its runs.                  *)
LEMMA RunReturns ==
    ASSUME NEW f \in Frames, NEW c, NEW label \in Labels, NEW origin \in Origins,
           NEW b \in Workloads \cup {None},
           Running(f), OutcomeOK(f.hint, Head(f.todo), c)
    PROVE  LET outs == Append(f.outs, c)
               more == Len(f.todo) > 1
           IN  ThreadOK(IF more THEN EntryPoint(f.hint) ELSE "close",
                        [f EXCEPT !.todo = Tail(f.todo), !.outs = outs, !.label = label,
                                  !.origin = IF Len(outs) = 1 THEN origin ELSE f.origin,
                                  !.cycles = IF more THEN NO_ERROR ELSE CombineRuns(outs)],
                        b)
<1> DEFINE outs == Append(f.outs, c)
           more == Len(f.todo) > 1
           cycles == IF more THEN NO_ERROR ELSE CombineRuns(outs)
           g == [f EXCEPT !.todo = Tail(f.todo), !.outs = outs, !.label = label,
                          !.origin = IF Len(outs) = 1 THEN origin ELSE f.origin,
                          !.cycles = cycles]
<1>0. c \in CyclesInterfaceType /\ f.wl \in Workloads /\ f.hint \in Hints
  BY DEF OutcomeOK, CostOK, Running, Frames
<1>1. CASE f.outs = <<>> /\ f.wl \in DualSparse
  <2>1. f.todo = <<NoAct[f.wl], NoWt[f.wl]>>
    BY <1>1 DEF Running, RunSeq
  <2>2. more /\ Tail(f.todo) = <<NoWt[f.wl]>> /\ outs = <<c>> /\ Head(f.todo) = NoAct[f.wl]
    BY <1>1, <2>1
  <2>3. g \in Frames
    <3>1. Tail(f.todo) \in Seq(Workloads) /\ outs \in Seq(CyclesInterfaceType) /\ cycles \in CyclesInterfaceType
      <4>1. NoWt[f.wl] \in Workloads /\ cycles = NO_ERROR
        BY <1>1, <2>2, WorkloadAssumption
      <4>2. <<NoWt[f.wl]>> \in Seq(Workloads) /\ <<c>> \in Seq(CyclesInterfaceType)
        BY <1>0, <4>1
      <4> QED BY <2>2, <4>1, <4>2, Codes
    <3> HIDE DEF outs, cycles
    <3> QED BY <3>1 DEF Frames
  <2>4. g.wl = f.wl /\ g.todo = <<NoWt[f.wl]>> /\ g.outs = <<c>> /\ g.hint = f.hint
    BY <2>2 DEF Frames
  <2>5. Running(g)
    <3>1. g.outs[1] = c
      BY <2>4
    <3> HIDE DEF g
    <3> QED BY <1>0, <1>1, <2>2, <2>4, <3>1 DEF Running
  <2>6. EntryPoint(f.hint) \in {"cache", "profile", "nn", "theoretical"}
    BY <1>0 DEF EntryPoint, Hints
  <2> HIDE DEF g
  <2>7. ThreadOK(EntryPoint(f.hint), g, b)
    BY <2>3, <2>5, <2>6 DEF ThreadOK, PCs
  <2> QED BY <2>2, <2>7 DEF g
<1>2. CASE ~(f.outs = <<>> /\ f.wl \in DualSparse)
  <2>1. ~more
    BY <1>2, CurrentRun
  <2>2. \E w \in RunsOf(f.wl) : OutcomeOK(f.hint, w, CombineRuns(outs))
    <3>1. CASE f.outs = <<>> /\ f.todo = RunSeq(f.wl)
      <4>1. outs = <<c>> /\ CombineRuns(outs) = c
        BY <3>1 DEF CombineRuns
      <4> HIDE DEF outs
      <4> QED BY <4>1, CurrentRun
    <3>2. CASE /\ f.wl \in DualSparse /\ f.todo = <<NoWt[f.wl]>>
               /\ f.outs = <<f.outs[1]>> /\ OutcomeOK(f.hint, NoAct[f.wl], f.outs[1])
      <4>1. outs = <<f.outs[1], c>> /\ Head(f.todo) = NoWt[f.wl]
        <5>1. PICK o : o = f.outs[1]
          OBVIOUS
        <5>2. f.outs = <<o>>
          BY <3>2, <5>1
        <5>3. Append(<<o>>, c) = <<o, c>>
          BY AppendSecond
        <5> QED BY <3>2, <5>1, <5>2, <5>3
      <4>2. f.outs[1] \in CyclesInterfaceType
        BY <3>2 DEF OutcomeOK, CostOK
      <4> HIDE DEF outs
      <4>3. \E u \in {NoAct[f.wl], NoWt[f.wl]} : OutcomeOK(f.hint, u, CombineRuns(outs))
        BY <1>0, <3>2, <4>1, <4>2, CombinedRuns
      <4> QED BY <3>2, <4>3 DEF RunsOf
    <3> QED BY <3>1, <3>2 DEF Running
  <2>3. cycles = CombineRuns(outs) /\ cycles \in CyclesInterfaceType
    BY <2>1, <2>2 DEF OutcomeOK, CostOK
  <2>4. Tail(f.todo) \in Seq(Workloads) /\ outs \in Seq(CyclesInterfaceType)
    <3>1. f.todo \in Seq(Workloads) /\ f.outs \in Seq(CyclesInterfaceType)
      BY DEF Frames
    <3>2. f.todo # <<>>
      BY <1>0 DEF Running, RunSeq
    <3> QED BY <1>0, <3>1, <3>2
  <2>5. g \in Frames /\ g.wl = f.wl /\ g.hint = f.hint /\ g.cycles = cycles
    <3> HIDE DEF outs, cycles
    <3> QED BY <2>3, <2>4 DEF Frames
  <2> HIDE DEF g, outs, cycles
  <2>6. Closed(g)
    BY <1>0, <2>2, <2>3, <2>5 DEF Closed
  <2>7. ThreadOK("close", g, b)
    BY <2>5, <2>6 DEF ThreadOK, PCs
  <2> QED BY <2>1, <2>7 DEF g, outs, cycles
<1> QED BY <1>1, <1>2

(* ReturnInfer: the thread goes on to the second inference, or its run has *)
(* the network's cost.                                                     *)
LEMMA InferReturns ==
    ASSUME NEW f \in Frames, NEW c, NEW origin \in Origins, NEW b \in Workloads \cup {None},
           Running(f), Inferring(f), CostOK(Head(f.nn), c)
    PROVE  ThreadOK(IF Len(f.nn) > 1 THEN "context" ELSE "nn_done",
                    [f EXCEPT !.nn = Tail(f.nn), !.nnOuts = Append(f.nnOuts, c),
                              !.nnOrigin = origin],
                    b)
<1> DEFINE w == Head(f.todo)
           outs == Append(f.nnOuts, c)
           g == [f EXCEPT !.nn = Tail(f.nn), !.nnOuts = outs, !.nnOrigin = origin]
<1>0. c \in CyclesInterfaceType /\ w \in Workloads
  BY CurrentRun DEF CostOK
<1>1. /\ g.wl = f.wl /\ g.hint = f.hint /\ g.todo = f.todo /\ g.outs = f.outs
      /\ g.nn = Tail(f.nn) /\ g.nnOuts = outs
  BY DEF Frames
<1>2. Running(g)
  <2> HIDE DEF g
  <2> QED BY <1>1 DEF Running
<1>3. g \in Frames
  <2>1. f.nn \in Seq(Workloads) /\ f.nnOuts \in Seq(CyclesInterfaceType)
    BY DEF Frames
  <2>2. f.nn # <<>>
    BY DEF Inferring, NNSeq
  <2>3. Tail(f.nn) \in Seq(Workloads) /\ outs \in Seq(CyclesInterfaceType)
    BY <1>0, <2>1, <2>2
  <2> HIDE DEF outs
  <2> QED BY <2>3 DEF Frames
<1>4. CASE f.nnOuts = <<>> /\ w \in Extrapolated
  <2>1. f.nn = <<Ch32[w], Ch64[w]>>
    BY <1>4 DEF Inferring, NNSeq
  <2>2. Len(f.nn) > 1 /\ Tail(f.nn) = <<Ch64[w]>> /\ outs = <<c>> /\ Head(f.nn) = Ch32[w]
    BY <1>4, <2>1
  <2>3. <<c>>[1] = c
    OBVIOUS
  <2> HIDE DEF g, outs
  <2>4. Inferring(g)
    BY <1>1, <1>4, <2>2, <2>3 DEF Inferring
  <2>5. ThreadOK("context", g, b)
    BY <1>2, <1>3, <2>4 DEF ThreadOK, PCs
  <2> QED BY <2>2, <2>5 DEF g, outs
<1>5. CASE f.nnOuts = <<>> /\ w \notin Extrapolated
  <2>1. f.nn = <<w>>
    BY <1>5 DEF Inferring, NNSeq
  <2>2. ~(Len(f.nn) > 1) /\ outs = <<c>> /\ Head(f.nn) = w
    BY <1>5, <2>1
  <2>3. CombineInferred(w, outs) = c
    BY <2>2 DEF CombineInferred
  <2> HIDE DEF g, outs
  <2>4. ThreadOK("nn_done", g, b)
    BY <1>1, <1>2, <1>3, <2>2, <2>3 DEF ThreadOK, PCs
  <2> QED BY <2>2, <2>4 DEF g, outs
<1>6. CASE f.nnOuts # <<>>
  <2>1. PICK o : o = f.nnOuts[1]
    OBVIOUS
  <2>2. /\ w \in Extrapolated /\ f.nn = <<Ch64[w]>>
        /\ f.nnOuts = <<o>> /\ CostOK(Ch32[w], o)
    BY <1>6, <2>1 DEF Inferring
  <2>3. ~(Len(f.nn) > 1) /\ Head(f.nn) = Ch64[w]
    BY <2>2
  <2>4. outs = <<o, c>>
    BY <2>2, AppendSecond
  <2>5. CostOK(w, CombineInferred(w, outs))
    <3> HIDE DEF w, outs
    <3> QED BY <2>2, <2>3, <2>4, CombinedInferences
  <2> HIDE DEF g, outs
  <2>6. ThreadOK("nn_done", g, b)
    BY <1>1, <1>2, <1>3, <2>5 DEF ThreadOK, PCs
  <2> QED BY <2>3, <2>6 DEF g, outs
<1> QED BY <1>4, <1>5, <1>6

(* A step of one thread is harmless when it leaves that thread and the     *)
(* cache as they should be: the threads share nothing else.                *)
LEMMA LocalStep ==
    ASSUME IInv, NEW t \in Threads, CacheOK',
           frame' = [frame EXCEPT ![t] = frame'[t]], pc' = [pc EXCEPT ![t] = pc'[t]],
           buffer' = [buffer EXCEPT ![t] = buffer'[t]],
           ThreadOK(pc'[t], frame'[t], buffer'[t]),
           context' \subseteq Threads, UNCHANGED <<setup, enabled>>
    PROVE  IInv'
<1>1. /\ frame \in [Threads -> Frames] /\ pc \in [Threads -> PCs]
      /\ buffer \in [Threads -> Workloads \cup {None}]
  BY DEF IInv, TypeOK
<1>2. ThreadsOK'
  <2> SUFFICES ASSUME NEW u \in Threads PROVE ThreadOK(pc'[u], frame'[u], buffer'[u])
    BY DEF ThreadsOK
  <2>1. CASE u = t
    BY <2>1
  <2>2. CASE u # t
    <3>1. pc'[u] = pc[u] /\ frame'[u] = frame[u] /\ buffer'[u] = buffer[u]
      BY <1>1, <2>2
    <3> QED BY <3>1 DEF IInv, ThreadsOK
  <2> QED BY <2>1, <2>2
<1>3. /\ frame' \in [Threads -> Frames] /\ pc' \in [Threads -> PCs]
      /\ buffer' \in [Threads -> Workloads \cup {None}]
  <2>1. pc'[t] \in PCs /\ frame'[t] \in Frames /\ buffer'[t] \in Workloads \cup {None}
    BY DEF ThreadOK
  <2> QED BY <1>1, <2>1
<1>4. (DOMAIN cache \subseteq Workloads /\ \A w \in DOMAIN cache : cache[w] \in Entries)'
  BY DEF CacheOK, EntryOK
<1>5. is_initialized' \in BOOLEAN /\ envState' \in EnvStates /\ enabled' \in BOOLEAN
  BY DEF IInv, TypeOK, setup
<1> QED BY <1>2, <1>3, <1>4, <1>5 DEF IInv, TypeOK

(* What the invariant says of one thread, and of its step. *)
LEMMA OneThread ==
    ASSUME IInv, NEW t \in Threads
    PROVE  /\ frame[t] \in Frames /\ pc[t] \in PCs /\ buffer[t] \in Workloads \cup {None}
           /\ ThreadOK(pc[t], frame[t], buffer[t])
           /\ pc \in [Threads -> PCs] /\ frame \in [Threads -> Frames]
           /\ buffer \in [Threads -> Workloads \cup {None}]
           /\ frame = [frame EXCEPT ![t] = frame[t]] /\ buffer = [buffer EXCEPT ![t] = buffer[t]]
           /\ CacheOK /\ context \subseteq Threads
BY DEF IInv, TypeOK, ThreadsOK

-----------------------------------------------------------------------------
(* The steps that end a run keep the invariant. *)
LEMMA ReturnRunStep ==
    ASSUME IInv, NEW t \in Threads, NEW c, NEW label \in Labels, NEW origin \in Origins,
           Running(frame[t]), OutcomeOK(frame[t].hint, Current(t), c),
           ReturnRun(t, c, label, origin), CacheOK', UNCHANGED <<context, buffer, setup, enabled>>
    PROVE  IInv'
<1> DEFINE f == frame[t]
           outs == Append(f.outs, c)
           more == Len(f.todo) > 1
           p == IF more THEN EntryPoint(f.hint) ELSE "close"
           g == [f EXCEPT !.todo = Tail(f.todo), !.outs = outs, !.label = label,
                          !.origin = IF Len(outs) = 1 THEN origin ELSE f.origin,
                          !.cycles = IF more THEN NO_ERROR ELSE CombineRuns(outs)]
<1>1. ThreadOK(p, g, buffer[t])
  BY OneThread, RunReturns DEF Current
<1>2. frame' = [frame EXCEPT ![t] = g] /\ pc' = [pc EXCEPT ![t] = p]
  BY DEF ReturnRun, Goto
<1> HIDE DEF p, g
<1>3. frame'[t] = g /\ pc'[t] = p /\ buffer' = buffer
  BY <1>2, OneThread
<1>4. frame' = [frame EXCEPT ![t] = frame'[t]] /\ pc' = [pc EXCEPT ![t] = pc'[t]]
  BY <1>2, <1>3
<1> QED BY <1>1, <1>3, <1>4, OneThread, LocalStep

(* The steps that end an inference keep the invariant. *)
LEMMA ReturnInferStep ==
    ASSUME IInv, NEW t \in Threads, NEW w, NEW raw, NEW origin \in Origins,
           w = Head(frame[t].nn), Running(frame[t]), Inferring(frame[t]),
           CostOK(w, PostProcess(w, raw)),
           ReturnInfer(t, w, raw, origin), CacheOK', UNCHANGED <<context, buffer, setup, enabled>>
    PROVE  IInv'
<1> DEFINE f == frame[t]
           p == IF Len(f.nn) > 1 THEN "context" ELSE "nn_done"
           nnOrigin == IF origin = "nn" THEN f.nnOrigin ELSE origin
           g == [f EXCEPT !.nn = Tail(f.nn), !.nnOuts = Append(f.nnOuts, PostProcess(w, raw)),
                          !.nnOrigin = nnOrigin]
<1>1. nnOrigin \in Origins
  BY OneThread DEF Frames
<1>2. ThreadOK(p, g, buffer[t])
  <2> HIDE DEF nnOrigin
  <2> QED BY <1>1, OneThread, InferReturns
<1>3. frame' = [frame EXCEPT ![t] = g] /\ pc' = [pc EXCEPT ![t] = p]
  BY DEF ReturnInfer, Goto
<1> HIDE DEF p, g
<1>4. frame'[t] = g /\ pc'[t] = p /\ buffer' = buffer
  BY <1>3, OneThread
<1>5. frame' = [frame EXCEPT ![t] = frame'[t]] /\ pc' = [pc EXCEPT ![t] = pc'[t]]
  BY <1>3, <1>4
<1> QED BY <1>2, <1>4, <1>5, OneThread, LocalStep

(* The answer of the network, or its absence, keeps the invariant. *)
LEMMA AfterNNStep ==
    ASSUME IInv, NEW t \in Threads, NEW c, NEW label \in Labels, NEW origin \in Origins,
           Running(frame[t]), CostOK(Current(t), c), AfterNN(t, c, label, origin),
           UNCHANGED <<cache, context, buffer, setup, enabled>>
    PROVE  IInv'
<1>0. CacheOK'
  BY OneThread DEF CacheOK
<1>1. CASE frame[t].hint # "AUTO"
  BY <1>0, <1>1, ReturnRunStep DEF AfterNN, OutcomeOK
<1>2. CASE frame[t].hint = "AUTO"
  <2> DEFINE p == IF isErrorCode(c) THEN "theoretical" ELSE "recheck"
             g == [frame[t] EXCEPT !.cycles = c, !.label = label, !.origin = origin]
  <2>1. frame' = [frame EXCEPT ![t] = g] /\ pc' = [pc EXCEPT ![t] = p] /\ buffer' = buffer
    BY <1>2, OneThread DEF AfterNN, Goto
  <2>2. /\ g \in Frames /\ g.wl = frame[t].wl /\ g.hint = frame[t].hint
        /\ g.todo = frame[t].todo /\ g.outs = frame[t].outs /\ g.cycles = c
    BY OneThread DEF Frames, CostOK
  <2> HIDE DEF g
  <2>3. Running(g)
    BY <2>2 DEF Running
  <2>4. ThreadOK(p, g, buffer[t])
    BY <2>2, <2>3, OneThread DEF ThreadOK, PCs, OutcomeOK, Current
  <2> HIDE DEF p
  <2>5. frame'[t] = g /\ pc'[t] = p
    BY <2>1, OneThread
  <2> QED BY <1>0, <2>1, <2>4, <2>5, OneThread, LocalStep
<1> QED BY <1>1, <1>2

(* The locals of an idle thread. *)
LEMMA NoFrameTyped == NoFrame \in Frames /\ NoFrame.outs = <<>>
BY Codes DEF NoFrame, Frames, Hints, Labels, Origins

(* A query starts. *)
LEMMA CallDPUStep ==
    ASSUME IInv, NEW t \in Threads, NEW w \in Queried, NEW hint \in Hints, CallDPU(t, w, hint)
    PROVE  IInv'
<1> DEFINE p == IF SanityCode[w] = NO_ERROR THEN EntryPoint(hint) ELSE "close"
           g == [NoFrame EXCEPT !.wl = w, !.hint = hint, !.cycles = SanityCode[w],
                    !.todo = IF w \in DualSparse THEN <<NoAct[w], NoWt[w]>> ELSE <<w>>]
<1>1. w \in Workloads /\ SanityCode[w] \in CyclesInterfaceType /\ RunSeq(w) \in Seq(Workloads)
  BY WorkloadAssumption DEF RunSeq
<1>2. NoFrame \in Frames /\ NoFrame.outs = <<>>
  BY NoFrameTyped
<1>3. frame' = [frame EXCEPT ![t] = g] /\ pc' = [pc EXCEPT ![t] = p] /\ buffer' = buffer
  BY DEF CallDPU, Goto
<1>4. g \in Frames /\ g.wl = w /\ g.outs = <<>> /\ g.todo = RunSeq(w)
  <2>1. g = [NoFrame EXCEPT !.wl = w, !.hint = hint, !.cycles = SanityCode[w], !.todo = RunSeq(w)]
    BY DEF RunSeq
  <2> HIDE DEF g
  <2> QED BY <1>1, <1>2, <2>1 DEF Frames
<1> HIDE DEF g
<1>5. Running(g)
  BY <1>1, <1>4 DEF Running
<1>6. EntryPoint(hint) \in {"cache", "profile", "nn", "theoretical"}
  BY DEF EntryPoint, Hints
<1>7. ThreadOK(p, g, buffer[t])
  BY <1>1, <1>4, <1>5, <1>6, OneThread DEF ThreadOK, PCs, Closed
<1> HIDE DEF p
<1>8. frame'[t] = g /\ pc'[t] = p
  BY <1>3, OneThread
<1>9. CacheOK' /\ context' \subseteq Threads /\ UNCHANGED <<setup, enabled>>
  BY OneThread DEF CallDPU, CacheOK
<1> QED BY <1>3, <1>7, <1>8, <1>9, OneThread, LocalStep

(* The labels that the steps write are labels. *)
LEMMA LabelTyped ==
    ASSUME IInv, NEW t \in Threads, NEW label \in Labels
    PROVE  Labelled(t, label) \in Labels /\ frame[t].label \in Labels
BY OneThread DEF Labelled, Frames

(* The cache is tried. *)
LEMMA TryCacheStep ==
    ASSUME IInv, NEW t \in Threads, TryCache(t)
    PROVE  IInv'
<1> DEFINE w == Current(t)
           cached == get_cached(w)
           label == IF is_initialized /\ InCache(w)
                    THEN Labelled(t, IF w \in DOMAIN Fixed THEN "fixed_cache" ELSE "dyn_cache")
                    ELSE frame[t].label
<1>1. pc[t] = "cache" /\ UNCHANGED <<cache, context, buffer, setup, enabled>>
  BY DEF TryCache
<1>2. Running(frame[t])
  BY <1>1, OneThread DEF ThreadOK
<1>3. w \in Workloads
  BY <1>2, OneThread, CurrentRun DEF Current
<1>4. label \in Labels
  BY LabelTyped DEF Labels
<1>5. CacheOK'
  BY <1>1, OneThread DEF CacheOK
<1>6. CASE isErrorCode(cached)
  <2> DEFINE g == [frame[t] EXCEPT !.label = label]
  <2>1. frame' = [frame EXCEPT ![t] = g] /\ pc' = [pc EXCEPT ![t] = "gate"]
    BY <1>6, OneThread DEF TryCache, Goto
  <2> HIDE DEF label
  <2>2. /\ g \in Frames /\ g.wl = frame[t].wl /\ g.hint = frame[t].hint
        /\ g.todo = frame[t].todo /\ g.outs = frame[t].outs
    BY <1>4, OneThread DEF Frames
  <2> HIDE DEF g
  <2>3. Running(g)
    BY <1>2, <2>2 DEF Running
  <2>4. ThreadOK("gate", g, buffer[t])
    BY <2>2, <2>3, OneThread DEF ThreadOK, PCs
  <2>5. frame'[t] = g /\ pc'[t] = "gate"
    BY <2>1, OneThread
  <2> QED BY <1>1, <1>5, <2>1, <2>4, <2>5, OneThread, LocalStep
<1>7. CASE ~isErrorCode(cached)
  <2>1. is_initialized /\ InCache(w) /\ cached = PostProcess(w, CachedRaw(w))
    BY <1>7, Codes DEF get_cached
  <2>2. OutcomeOK(frame[t].hint, w, cached) /\ CachedOrigin(w) \in Origins
    BY <1>3, <1>7, <2>1, OneThread, CachedCost DEF OutcomeOK
  <2>3. ReturnRun(t, cached, label, CachedOrigin(w))
    BY <1>7 DEF TryCache
  <2> HIDE DEF cached, label
  <2> QED BY <1>1, <1>2, <1>4, <1>5, <2>2, <2>3, ReturnRunStep
<1> QED BY <1>6, <1>7

(* A step of one thread that only moves it and changes its locals. *)
LEMMA FrameStep ==
    ASSUME IInv, NEW t \in Threads, NEW p, NEW g,
           pc' = [pc EXCEPT ![t] = p], frame' = [frame EXCEPT ![t] = g],
           ThreadOK(p, g, buffer[t]), context' \subseteq Threads,
           UNCHANGED <<cache, buffer, setup, enabled>>
    PROVE  IInv'
<1>1. CacheOK'
  BY OneThread DEF CacheOK
<1>2. frame'[t] = g /\ pc'[t] = p /\ buffer' = buffer
  BY OneThread
<1> QED BY <1>1, <1>2, OneThread, LocalStep

(* The gate sends the thread to the service or to the network. *)
LEMMA CheckGateStep ==
    ASSUME IInv, NEW t \in Threads, CheckGate(t)
    PROVE  IInv'
<1> DEFINE p == IF enabled THEN "profile" ELSE "nn"
<1>1. pc[t] = "gate" /\ pc' = [pc EXCEPT ![t] = p] /\ frame' = [frame EXCEPT ![t] = frame[t]]
      /\ UNCHANGED <<cache, context, buffer, setup, enabled>>
  BY OneThread DEF CheckGate, Goto
<1>2. ThreadOK(p, frame[t], buffer[t])
  BY <1>1, OneThread DEF ThreadOK, PCs
<1> HIDE DEF p
<1> QED BY <1>1, <1>2, OneThread, FrameStep

(* The service answers or fails. *)
LEMMA TryProfilingStep ==
    ASSUME IInv, NEW t \in Threads, TryProfiling(t)
    PROVE  IInv'
<1> DEFINE w == Current(t)
           label == IF HasHttp THEN Labelled(t, "profiling_service") ELSE frame[t].label
<1>1. pc[t] = "profile" /\ UNCHANGED <<cache, context, buffer, setup, enabled>>
  BY DEF TryProfiling
<1>2. Running(frame[t])
  BY <1>1, OneThread DEF ThreadOK
<1>3. w \in Workloads
  BY <1>2, OneThread, CurrentRun DEF Current
<1>4. label \in Labels /\ "profiling" \in Origins
  BY LabelTyped DEF Labels, Origins
<1>5. CacheOK'
  BY <1>1, OneThread DEF CacheOK
<1> HIDE DEF w, label
<1>6. PICK cycles \in {ERROR_PROFILING_SERVICE} \cup (IF HasHttp THEN {Profiled[w]} ELSE {}) :
          IF frame[t].hint = "AUTO"
          THEN /\ frame' = [frame EXCEPT ![t].cycles = cycles, ![t].label = label,
                                         ![t].origin = "profiling"]
               /\ Goto(t, IF isErrorCode(cycles) \/ cycles = NO_ERROR THEN "nn" ELSE "recheck")
          ELSE ReturnRun(t, cycles, label, "profiling")
  BY DEF TryProfiling, w, label
<1>7. CostOK(w, cycles)
  BY <1>3, PlainCost, Codes, ProviderAssumption DEF CostOK
<1>8. CASE frame[t].hint # "AUTO"
  BY <1>1, <1>2, <1>4, <1>5, <1>6, <1>7, <1>8, ReturnRunStep DEF OutcomeOK, w
<1>9. CASE frame[t].hint = "AUTO"
  <2> DEFINE p == IF isErrorCode(cycles) \/ cycles = NO_ERROR THEN "nn" ELSE "recheck"
             g == [frame[t] EXCEPT !.cycles = cycles, !.label = label, !.origin = "profiling"]
  <2>1. frame' = [frame EXCEPT ![t] = g] /\ pc' = [pc EXCEPT ![t] = p]
    BY <1>6, <1>9, OneThread DEF Goto
  <2>2. /\ g \in Frames /\ g.wl = frame[t].wl /\ g.hint = frame[t].hint
        /\ g.todo = frame[t].todo /\ g.outs = frame[t].outs /\ g.cycles = cycles
    BY <1>4, <1>7, OneThread DEF Frames, CostOK
  <2> HIDE DEF g
  <2>3. Running(g)
    BY <1>2, <2>2 DEF Running
  <2>4. ThreadOK(p, g, buffer[t])
    BY <1>7, <2>2, <2>3, OneThread DEF ThreadOK, PCs, OutcomeOK, Current, w
  <2> HIDE DEF p
  <2> QED BY <1>1, <2>1, <2>4, OneThread, FrameStep
<1> QED BY <1>8, <1>9

(* The network is asked, or there is none. *)
LEMMA TryNNStep ==
    ASSUME IInv, NEW t \in Threads, TryNN(t)
    PROVE  IInv'
<1> DEFINE w == Current(t)
<1>1. pc[t] = "nn" /\ UNCHANGED <<cache, context, buffer, setup, enabled>>
  BY DEF TryNN
<1>2. Running(frame[t])
  BY <1>1, OneThread DEF ThreadOK
<1>3. w \in Workloads
  BY <1>2, OneThread, CurrentRun DEF Current
<1>4. CASE AfterNN(t, ERROR_INFERENCE_NOT_POSSIBLE, frame[t].label, "none")
  <2>1. CostOK(w, ERROR_INFERENCE_NOT_POSSIBLE) /\ "none" \in Origins /\ frame[t].label \in Labels
    BY Codes, OneThread DEF CostOK, Origins, Frames
  <2> QED BY <1>1, <1>2, <1>4, <2>1, AfterNNStep
<1>5. CASE /\ frame' = [frame EXCEPT
                ![t].nn = IF w \in Extrapolated THEN <<Ch32[w], Ch64[w]>> ELSE <<w>>,
                ![t].nnOuts = <<>>, ![t].nnOrigin = "nn",
                ![t].label = Labelled(t, "nn")]
           /\ Goto(t, "context")
  <2> DEFINE g == [frame[t] EXCEPT !.nn = NNSeq(w), !.nnOuts = <<>>, !.nnOrigin = "nn",
                                   !.label = Labelled(t, "nn")]
  <2>1. frame' = [frame EXCEPT ![t] = g] /\ pc' = [pc EXCEPT ![t] = "context"]
    BY <1>5, OneThread DEF Goto, NNSeq
  <2>2. NNSeq(w) \in Seq(Workloads) /\ Labelled(t, "nn") \in Labels /\ "nn" \in Origins
    BY <1>3, WorkloadAssumption, LabelTyped DEF NNSeq, Labels, Origins
  <2>3. /\ g \in Frames /\ g.wl = frame[t].wl /\ g.hint = frame[t].hint
        /\ g.todo = frame[t].todo /\ g.outs = frame[t].outs
        /\ g.nn = NNSeq(w) /\ g.nnOuts = <<>>
    <3>1. PICK s \in Seq(Workloads), label \in Labels, none \in Seq(CyclesInterfaceType) :
              s = NNSeq(w) /\ label = Labelled(t, "nn") /\ none = <<>>
      <4>1. <<>> \in Seq(CyclesInterfaceType)
        OBVIOUS
      <4> HIDE DEF w
      <4> QED BY <2>2, <4>1, Zenon
    <3>2. g = [frame[t] EXCEPT !.nn = s, !.nnOuts = none, !.nnOrigin = "nn", !.label = label]
      BY <3>1
    <3> HIDE DEF w, g
    <3>3. g \in Frames /\ g.nn = s /\ g.nnOuts = none
      BY <2>2, <3>2, OneThread DEF Frames
    <3>4. /\ g.wl = frame[t].wl /\ g.hint = frame[t].hint
          /\ g.todo = frame[t].todo /\ g.outs = frame[t].outs
      BY <3>2, OneThread DEF Frames
    <3> QED BY <3>1, <3>3, <3>4
  <2> HIDE DEF g
  <2>4. Running(g) /\ Inferring(g)
    BY <1>2, <2>3 DEF Running, Inferring, Current
  <2>5. ThreadOK("context", g, buffer[t])
    BY <2>3, <2>4, OneThread DEF ThreadOK, PCs
  <2> QED BY <1>1, <2>1, <2>5, OneThread, FrameStep
<1> QED BY <1>4, <1>5 DEF TryNN

(* The thread finds its execution context, or makes one. *)
LEMMA ContextStep ==
    ASSUME IInv, NEW t \in Threads, FindContext(t) \/ EmplaceContext(t)
    PROVE  IInv'
<1> DEFINE p == IF pc[t] = "emplace" \/ t \in context THEN "lookup" ELSE "emplace"
<1>1. /\ pc[t] \in {"context", "emplace"} /\ pc' = [pc EXCEPT ![t] = p]
      /\ frame' = [frame EXCEPT ![t] = frame[t]]
      /\ context' \subseteq Threads /\ UNCHANGED <<cache, buffer, setup, enabled>>
  BY OneThread DEF FindContext, EmplaceContext, Goto
<1>2. ThreadOK(p, frame[t], buffer[t])
  BY <1>1, OneThread DEF ThreadOK, PCs
<1> HIDE DEF p
<1> QED BY <1>1, <1>2, OneThread, FrameStep

(* cache_manager.add keeps a good cache good. *)
LEMMA CacheAddOK ==
    ASSUME CacheOK, NEW w \in Workloads, NEW entry, EntryOK(w, entry), CacheAdd(w, entry)
    PROVE  CacheOK'
<1>1. CASE InCache(w)
  BY <1>1 DEF CacheAdd, CacheOK
<1>2. CASE ~InCache(w)
  <2>1. cache' = [x \in DOMAIN cache \cup {w} |-> IF x = w THEN entry ELSE cache[x]]
    BY <1>2 DEF CacheAdd
  <2>2. DOMAIN cache' = DOMAIN cache \cup {w}
    BY <2>1
  <2>3. \A x \in DOMAIN cache' : cache'[x] = IF x = w THEN entry ELSE cache[x]
    BY <2>1
  <2>4. \A x \in DOMAIN cache' : EntryOK(x, cache'[x])
    BY <2>2, <2>3 DEF CacheOK
  <2>5. DOMAIN cache' \subseteq Workloads
    BY <2>2 DEF CacheOK
  <2> QED BY <2>4, <2>5 DEF CacheOK
<1> QED BY <1>1, <1>2

(* infer_raw_input looks the workload up. *)
LEMMA LookupRawStep ==
    ASSUME IInv, NEW t \in Threads, LookupRaw(t)
    PROVE  IInv'
<1> DEFINE w == Head(frame[t].nn)
<1>1. pc[t] = "lookup" /\ UNCHANGED <<cache, context, buffer, setup, enabled>>
  BY DEF LookupRaw
<1>2. Running(frame[t]) /\ Inferring(frame[t])
  BY <1>1, OneThread DEF ThreadOK
<1>3. w \in Workloads
  BY <1>2, OneThread, CurrentInference
<1>4. CASE InCache(w)
  <2>1. ReturnInfer(t, w, CachedRaw(w), CachedOrigin(w))
    BY <1>4 DEF LookupRaw
  <2>2. CachedOrigin(w) \in Origins /\ CostOK(w, PostProcess(w, CachedRaw(w)))
    BY <1>3, <1>4, OneThread, CachedCost
  <2>3. CacheOK'
    BY <1>1, OneThread DEF CacheOK
  <2> QED BY <1>1, <1>2, <2>1, <2>2, <2>3, ReturnInferStep
<1>5. CASE ~InCache(w)
  <2>1. pc' = [pc EXCEPT ![t] = "predict"] /\ frame' = [frame EXCEPT ![t] = frame[t]]
    BY <1>5, OneThread DEF LookupRaw, Goto
  <2>2. ThreadOK("predict", frame[t], buffer[t])
    BY <1>2, OneThread DEF ThreadOK, PCs
  <2> QED BY <1>1, <2>1, <2>2, OneThread, FrameStep
<1> QED BY <1>4, <1>5

(* The network runs in the thread's own context. *)
LEMMA PredictStep ==
    ASSUME IInv, NEW t \in Threads, Predict(t)
    PROVE  IInv'
<1> DEFINE w == Head(frame[t].nn)
<1>1. /\ pc[t] = "predict" /\ UNCHANGED <<cache, context, setup, enabled, frame>>
      /\ buffer' = [buffer EXCEPT ![t] = w] /\ pc' = [pc EXCEPT ![t] = "store"]
  BY DEF Predict, Goto, ContextOf
<1>2. Running(frame[t]) /\ Inferring(frame[t])
  BY <1>1, OneThread DEF ThreadOK
<1>3. w \in Workloads
  BY <1>2, OneThread, CurrentInference
<1>4. ThreadOK("store", frame[t], w)
  BY <1>2, <1>3, OneThread DEF ThreadOK, PCs
<1>5. frame'[t] = frame[t] /\ pc'[t] = "store" /\ buffer'[t] = w
  BY <1>1, OneThread
<1>6. frame' = [frame EXCEPT ![t] = frame'[t]]
  BY <1>1, OneThread
<1>7. CacheOK'
  BY <1>1, OneThread DEF CacheOK
<1> HIDE DEF w
<1> QED BY <1>1, <1>4, <1>5, <1>6, <1>7, OneThread, LocalStep

(* The output of the network is cached and post-processed. *)
LEMMA StoreRawStep ==
    ASSUME IInv, NEW t \in Threads, StoreRaw(t)
    PROVE  IInv'
<1> DEFINE w == Head(frame[t].nn)
           raw == NNRaw[w]
           entry == [raw |-> raw, origin |-> "nn", answer |-> PostProcess(w, raw)]
<1>1. pc[t] = "store" /\ UNCHANGED <<context, buffer, setup, enabled>>
  BY DEF StoreRaw
<1>2. Running(frame[t]) /\ Inferring(frame[t]) /\ buffer[t] = w
  BY <1>1, OneThread DEF ThreadOK
<1>3. w \in Workloads /\ raw \in Int
  BY <1>2, OneThread, CurrentInference, ProviderAssumption
<1>4. CacheAdd(w, entry) /\ ReturnInfer(t, w, raw, "nn")
  BY <1>2 DEF StoreRaw, ContextOf
<1>5. PostProcess(w, raw) \in CyclesInterfaceType
  BY <1>3, PostProcessed
<1>6. EntryOK(w, entry)
  BY <1>3, <1>5, Codes DEF EntryOK, Entries, Origins, CyclesInterfaceType
<1>7. CostOK(w, PostProcess(w, raw))
  BY <1>3, <1>5, PlainCost DEF CostOK
<1> HIDE DEF entry
<1>8. CacheOK'
  BY <1>3, <1>4, <1>6, OneThread, CacheAddOK
<1>9. "nn" \in Origins
  BY DEF Origins
<1> QED BY <1>1, <1>2, <1>4, <1>7, <1>8, <1>9, ReturnInferStep

(* The inferences of a run are combined. *)
LEMMA NNDoneStep ==
    ASSUME IInv, NEW t \in Threads, NNDone(t)
    PROVE  IInv'
<1> DEFINE w == Current(t)
           f == frame[t]
           origin == IF w \in Extrapolated /\ f.nnOrigin = "nn" THEN "nn_result" ELSE f.nnOrigin
<1>1. pc[t] = "nn_done" /\ UNCHANGED <<cache, context, buffer, setup, enabled>>
  BY DEF NNDone
<1>2. Running(f) /\ CostOK(w, CombineInferred(w, f.nnOuts))
  BY <1>1, OneThread DEF ThreadOK, Current
<1>3. AfterNN(t, CombineInferred(w, f.nnOuts), f.label, origin)
  BY DEF NNDone
<1>4. origin \in Origins /\ f.label \in Labels
  BY OneThread DEF Frames, Origins
<1> HIDE DEF origin
<1> QED BY <1>1, <1>2, <1>3, <1>4, AfterNNStep

(* The theoretical provider answers. *)
LEMMA TryTheoreticalStep ==
    ASSUME IInv, NEW t \in Threads, TryTheoretical(t)
    PROVE  IInv'
<1> DEFINE w == Current(t)
           cycles == TheoreticalCycles(w)
           label == Labelled(t, "theoretical")
<1>1. pc[t] = "theoretical" /\ UNCHANGED <<cache, context, buffer, setup, enabled>>
  BY DEF TryTheoretical
<1>2. Running(frame[t])
  BY <1>1, OneThread DEF ThreadOK
<1>3. w \in Workloads
  BY <1>2, OneThread, CurrentRun DEF Current
<1>4. label \in Labels /\ "theoretical" \in Origins
  BY LabelTyped DEF Labels, Origins
<1>5. CacheOK'
  BY <1>1, OneThread DEF CacheOK
<1>6. OutcomeOK(frame[t].hint, w, cycles)
  BY <1>3, PlainCost, TheoreticalTyped DEF OutcomeOK, CostOK
<1>7. CASE frame[t].hint # "AUTO"
  <2>1. ReturnRun(t, cycles, label, "theoretical")
    BY <1>7 DEF TryTheoretical
  <2> HIDE DEF cycles, label
  <2> QED BY <1>1, <1>2, <1>4, <1>5, <1>6, <2>1, ReturnRunStep
<1>8. CASE frame[t].hint = "AUTO"
  <2> DEFINE g == [frame[t] EXCEPT !.cycles = cycles, !.label = label, !.origin = "theoretical"]
  <2>1. frame' = [frame EXCEPT ![t] = g] /\ pc' = [pc EXCEPT ![t] = "recheck"]
    BY <1>8, OneThread DEF TryTheoretical, Goto
  <2> HIDE DEF cycles, label
  <2>2. /\ g \in Frames /\ g.wl = frame[t].wl /\ g.hint = frame[t].hint
        /\ g.todo = frame[t].todo /\ g.outs = frame[t].outs /\ g.cycles = cycles
    BY <1>4, <1>6, OneThread DEF Frames, OutcomeOK, CostOK
  <2> HIDE DEF g
  <2>3. Running(g)
    BY <1>2, <2>2 DEF Running
  <2>4. ThreadOK("recheck", g, buffer[t])
    BY <1>6, <2>2, <2>3, OneThread DEF ThreadOK, PCs, Current
  <2> QED BY <1>1, <2>1, <2>4, OneThread, FrameStep
<1> QED BY <1>7, <1>8

(* The cache is looked up again before the result is shared. *)
LEMMA RecheckStep ==
    ASSUME IInv, NEW t \in Threads, Recheck(t)
    PROVE  IInv'
<1> DEFINE f == frame[t]
<1>1. pc[t] = "recheck" /\ UNCHANGED <<cache, context, buffer, setup, enabled>>
  BY DEF Recheck
<1>2. Running(f) /\ OutcomeOK(f.hint, Current(t), f.cycles)
  BY <1>1, OneThread DEF ThreadOK, Current
<1>3. CacheOK' /\ f.label \in Labels /\ f.origin \in Origins
  BY <1>1, OneThread DEF CacheOK, Frames
<1>4. CASE isErrorCode(get_cached(Current(t))) /\ ~isErrorCode(f.cycles)
  <2>1. pc' = [pc EXCEPT ![t] = "share"] /\ frame' = [frame EXCEPT ![t] = f]
    BY <1>4, OneThread DEF Recheck, Goto
  <2>2. ThreadOK("share", f, buffer[t])
    BY <1>2, <1>4, OneThread DEF ThreadOK, PCs, Current
  <2> QED BY <1>1, <2>1, <2>2, OneThread, FrameStep
<1>5. CASE ~(isErrorCode(get_cached(Current(t))) /\ ~isErrorCode(f.cycles))
  <2>1. ReturnRun(t, f.cycles, f.label, f.origin)
    BY <1>5 DEF Recheck
  <2> QED BY <1>1, <1>2, <1>3, <2>1, ReturnRunStep
<1> QED BY <1>4, <1>5

(* The result is shared with the cache. *)
LEMMA ShareStep ==
    ASSUME IInv, NEW t \in Threads, Share(t)
    PROVE  IInv'
<1> DEFINE f == frame[t]
           w == Current(t)
           origin == IF f.origin = "nn" THEN "nn_result" ELSE f.origin
           entry == [raw |-> f.cycles, answer |-> f.cycles, origin |-> origin]
<1>1. pc[t] = "share" /\ UNCHANGED <<context, buffer, setup, enabled>>
  BY DEF Share
<1>2. Running(f) /\ OutcomeOK(f.hint, w, f.cycles) /\ ~isErrorCode(f.cycles)
  BY <1>1, OneThread DEF ThreadOK, Current
<1>3. w \in Workloads /\ f.label \in Labels /\ f.origin \in Origins
  BY <1>2, OneThread, CurrentRun DEF Frames, Current
<1>4. ReturnRun(t, f.cycles, f.label, f.origin)
  BY DEF Share
<1>5. EntryOK(w, entry)
  <2>1. origin \in Origins /\ origin # "nn"
    BY <1>3 DEF Origins
  <2>2. f.cycles \in Int
    BY <1>2, Codes DEF OutcomeOK, CostOK, CyclesInterfaceType
  <2> HIDE DEF origin
  <2>3. entry.raw = f.cycles /\ entry.origin = origin /\ entry \in Entries
    BY <2>1, <2>2 DEF Entries
  <2> HIDE DEF entry
  <2> QED BY <1>2, <2>1, <2>3 DEF EntryOK, OutcomeOK
<1>6. CacheOK'
  <2>1. CASE is_initialized
    <3>1. CacheAdd(w, entry)
      BY <2>1 DEF Share
    <3> HIDE DEF entry
    <3> QED BY <1>3, <1>5, <3>1, OneThread, CacheAddOK
  <2>2. CASE ~is_initialized
    <3>1. cache' = cache
      BY <2>2 DEF Share
    <3> QED BY <3>1, OneThread DEF CacheOK
  <2> QED BY <2>1, <2>2
<1> QED BY <1>1, <1>2, <1>3, <1>4, <1>6, ReturnRunStep

(* The query returns. *)
LEMMA CloseStep ==
    ASSUME IInv, NEW t \in Threads, Close(t)
    PROVE  IInv'
<1>1. /\ pc' = [pc EXCEPT ![t] = "idle"] /\ frame' = [frame EXCEPT ![t] = NoFrame]
      /\ UNCHANGED <<cache, context, buffer, setup, enabled>>
  BY DEF Close, Goto
<1>2. ThreadOK("idle", NoFrame, buffer[t])
  BY NoFrameTyped, OneThread DEF ThreadOK, PCs
<1> QED BY <1>1, <1>2, OneThread, FrameStep

(* The gate is switched, or an entry is evicted, while queries run. *)
LEMMA EnvironmentStep ==
    ASSUME IInv, (\E value \in BOOLEAN : SetGate(value)) \/ (\E w \in Workloads : Evict(w))
    PROVE  IInv'
<1>1. CASE \E value \in BOOLEAN : SetGate(value)
  <2>1. enabled' \in BOOLEAN /\ UNCHANGED <<cache, context, buffer, setup, pc, frame>>
    BY <1>1 DEF SetGate
  <2> QED BY <2>1 DEF IInv, TypeOK, CacheOK, ThreadsOK, setup
<1>2. CASE \E w \in Workloads : Evict(w)
  <2>1. PICK w \in Workloads : Evict(w)
    BY <1>2
  <2>2. UNCHANGED <<context, buffer, setup, enabled, pc, frame>>
    BY <2>1 DEF Evict
  <2>3. DOMAIN cache' \subseteq DOMAIN cache /\ \A x \in DOMAIN cache' : cache'[x] = cache[x]
    BY <2>1 DEF Evict
  <2>4. CacheOK'
    BY <2>3 DEF IInv, CacheOK
  <2>5. (DOMAIN cache \subseteq Workloads /\ \A x \in DOMAIN cache : cache[x] \in Entries)'
    BY <2>4 DEF CacheOK, EntryOK
  <2> QED BY <2>2, <2>4, <2>5 DEF IInv, TypeOK, ThreadsOK, setup
<1> QED BY <1>1, <1>2

(* The initial state satisfies the inductive invariant. *)
LEMMA InitIInv == Init => IInv
<1> SUFFICES ASSUME Init PROVE IInv
  OBVIOUS
<1>1. DOMAIN cache = {}
  BY DEF Init
<1>2. CacheOK
  BY <1>1 DEF CacheOK
<1>3. \A t \in Threads : pc[t] = "idle" /\ frame[t] = NoFrame /\ buffer[t] = None
  BY DEF Init
<1>4. ThreadsOK
  BY <1>3, NoFrameTyped DEF ThreadsOK, ThreadOK, PCs
<1>5. context \subseteq Threads /\ is_initialized \in BOOLEAN /\ envState \in EnvStates
      /\ enabled \in BOOLEAN
  BY DEF Init
<1>6. /\ buffer \in [Threads -> Workloads \cup {None}] /\ pc \in [Threads -> PCs]
      /\ frame \in [Threads -> Frames]
  BY NoFrameTyped DEF Init, PCs
<1> QED BY <1>1, <1>2, <1>4, <1>5, <1>6 DEF IInv, TypeOK

(* Every step keeps the inductive invariant. *)
LEMMA NextIInv == IInv /\ [Next]_vars => IInv'
<1> SUFFICES ASSUME IInv, [Next]_vars PROVE IInv'
  OBVIOUS
<1>1. CASE UNCHANGED vars
  BY <1>1 DEF vars, setup, IInv, TypeOK, CacheOK, ThreadsOK
<1>2. ASSUME NEW t \in Threads, Step(t) PROVE IInv'
  BY <1>2, TryCacheStep, CheckGateStep, TryProfilingStep, TryNNStep, ContextStep, LookupRawStep,
     PredictStep, StoreRawStep, NNDoneStep, TryTheoreticalStep, RecheckStep, ShareStep, CloseStep
  DEF Step
<1>3. ASSUME NEW t \in Threads, NEW w \in Queried, NEW h \in Hints, CallDPU(t, w, h) PROVE IInv'
  BY <1>3, CallDPUStep
<1> QED BY <1>1, <1>2, <1>3, EnvironmentStep DEF Next

(* The inductive invariant holds in every reachable state. *)
THEOREM Invariance == Spec => []IInv
BY InitIInv, NextIInv, PTL DEF Spec

(* Every variable keeps its type: queries, clones and cached values stay   *)
(* within the widths of the code, whatever the providers answer.           *)
THEOREM TypeCorrect == Spec => []TypeOK
<1>1. IInv => TypeOK
  BY DEF IInv
<1> QED BY <1>1, Invariance, PTL

(* What the cache holds in the network's name for a workload is that       *)
(* workload's own output, however many threads infer at the same time.     *)
THEOREM InferencesDoNotMix == Spec => []InferenceIsolated
<1>1. IInv => InferenceIsolated
  BY DEF IInv, CacheOK, EntryOK, InferenceIsolated
<1> QED BY <1>1, Invariance, PTL

(* No error code of any provider is shared through the cache as a cost. *)
THEOREM ErrorsAreNotShared == Spec => []NoErrorShared
<1>1. IInv => NoErrorShared
  BY DEF IInv, CacheOK, EntryOK, NoErrorShared
<1> QED BY <1>1, Invariance, PTL

(* An AUTO query fails only when the theoretical provider has no cost for  *)
(* a workload that it ran.                                                 *)
THEOREM AutoFallsBack == Spec => []AutoFailsLast
<1>1. ASSUME IInv PROVE AutoFailsLast
  <2> SUFFICES ASSUME NEW t \in Threads, Answered(t), frame[t].hint = "AUTO",
                      isErrorCode(frame[t].cycles)
               PROVE  \E w \in RunsOf(frame[t].wl) : isErrorCode(TheoreticalCycles(w))
    BY DEF AutoFailsLast
  <2>1. Closed(frame[t]) /\ SanityCode[frame[t].wl] = NO_ERROR
    BY <1>1, OneThread DEF Answered, ThreadOK
  <2> QED BY <2>1 DEF Closed, OutcomeOK
<1> QED BY <1>1, Invariance, PTL

(* With a pass-through post-processing, every returned cost is one that a  *)
(* provider gives for a workload that was run, although it may have gone   *)
(* through the shared cache, clones, other threads and evictions.          *)
THEOREM AnswersComeFromProviders ==
    ASSUME PassesThrough
    PROVE  Spec => []AnswerFromProvider
<1>1. IInv => AnswerFromProvider
  <2> SUFFICES ASSUME IInv, NEW t \in Threads, Answered(t), ~isErrorCode(frame[t].cycles)
               PROVE  \E w \in RunsOf(frame[t].wl) : frame[t].cycles \in ProviderCosts(w)
    BY DEF AnswerFromProvider
  <2>1. Closed(frame[t]) /\ SanityCode[frame[t].wl] = NO_ERROR
    BY OneThread DEF Answered, ThreadOK
  <2> QED BY <2>1 DEF Closed, OutcomeOK, CostOK
<1> QED BY <1>1, Invariance, PTL
=============================================================================
