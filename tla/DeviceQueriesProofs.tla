------------------------ MODULE DeviceQueriesProofs ------------------------
(***************************************************************************)
(* Proofs about the SHAVE queries of DeviceQueries, for any number of      *)
(* threads and of calls, every size of the cache, every width of the cycle *)
(* type, and whatever the service measures.                                *)
(***************************************************************************)
EXTENDS DeviceQueries, SequenceTheorems, WellFoundedInduction, TLAPS

None == [api |-> "none"]

(* The kernels that a call asks for. *)
KernelsIn(c) == Range(Workloads(c)) \cup (IF c.api = "shave" THEN {c.wl} ELSE {})

AllKernels == UNION {KernelsIn(c) : c \in SharedCalls \cup AloneCalls}

(* The kernels asked for so far, as far as they may still matter: those of *)
(* the shared calls and those of the calls in fr.                          *)
Known(fr) == OthersWorkloads \cup UNION {KernelsIn(fr[t].call) : t \in Threads}

(* The warm costs that may be found under the key of w, e being the        *)
(* setting of the environment and K the kernels asked for.                 *)
Warm(e, K, w) ==
    LET same == {v \in K : ShaveKey(v) = ShaveKey(w)}
    IN  {createDeviceMappedProvider(v) : v \in same}
        \cup (IF e = "ForcedOff" THEN {} ELSE {ServiceCost(v) : v \in same})

Entries(e, K) == UNION {{[key |-> ShaveKey(v), value |-> x] : x \in Warm(e, K, v)} : v \in K}

Fields == {"call", "todo", "got", "stage", "cost", "visit", "held", "cycles", "answer"}

IsFrame(f) == f = [x \in Fields |-> f[x]]

Labels == {"idle", "work", "gate", "profile", "provide", "create", "use", "add"}

(* The kernel of the request in hand. *)
Kern(f) == f.todo[1].wl

(* The providers asked before the one of this visit all failed. *)
Visiting(w, n) ==
    /\ n \in Nat \ {0}
    /\ \A k \in 1..(n - 1) :
          /\ k <= Len(Visits(w)) /\ w.device \in LegacyDevices
          /\ isErrorCode(KernelCost(Visits(w)[k], w))

(* A SHAVE query before and after its only request. *)
Querying(e, K, p, f) ==
    /\ f.stage = "kernels"
    /\ \/ p # "idle" /\ f.todo = <<Kernel(f.call.wl)>> /\ f.got = <<>> /\ f.answer = NoAnswer
       \/ /\ p \in {"work", "idle"} /\ f.todo = <<>>
          /\ \E c \in Warm(e, K, f.call.wl) : f.got = <<ColdCost(f.call.wl, c)>>
          /\ f.answer \in {NoAnswer, f.got[1]}

(* A thread at p with f in hand. *)
ThreadOK(e, K, p, f) ==
    /\ p \in Labels /\ IsFrame(f)
    /\ f.call \in SharedCalls \cup AloneCalls \cup {None}
    /\ f.call = None => f = Idle /\ p = "idle"
    /\ f.stage \in {"kernels", "transfers"}
    /\ f.stage = "kernels" => f.todo \in Seq({Kernel(v) : v \in KernelsIn(f.call)})
    /\ f.stage = "kernels" /\ p \notin {"idle", "work"} => f.todo # <<>>
    /\ p \in {"create", "use", "add"} => f.stage = "kernels"
    /\ p \in {"idle", "work", "gate", "profile"} => f.visit = 1
    /\ p = "profile" => e # "ForcedOff"
    /\ f.stage = "kernels" /\ p \in {"provide", "create", "use"} => Visiting(Kern(f), f.visit)
    /\ p \in {"create", "use"} => f.visit <= Len(Visits(Kern(f)))
    /\ p = "add" => f.cycles \in Warm(e, K, Kern(f))
    /\ f.call.api = "shave" => Querying(e, K, p, f)

PlaceOf(f) == <<Visits(Kern(f))[f.visit].owner, Kern(f).device>>

(* A selector in use was made, and is the one that was handed out. *)
Holding(s, p, f) == p = "use" => s[PlaceOf(f)] = f.held /\ f.held # 0

(* A call that is not shared is the only one a model ever gets. *)
Alone(fr, n) ==
    /\ n \in Nat
    /\ n = 0 => \A t \in Threads : fr[t] = Idle
    /\ \A t \in Threads : fr[t].call \notin SharedCalls \cup {None} =>
          n >= MaxQueries /\ \A u \in Threads \ {t} : fr[u] = Idle

GatesOK ==
    /\ enabled \in [Models -> BOOLEAN]
    /\ env = "ForcedOff" => \A m \in Models : ~enabled[m]

CacheOK(e, K, c) == c = [m \in Models |-> c[m]] /\ c["shave"] \in Seq(Entries(e, K))

IInv ==
    /\ GatesOK
    /\ selectors \in [Owners \X Devices -> Nat]
    /\ pc \in [Threads -> Labels] /\ frame = [t \in Threads |-> frame[t]]
    /\ CacheOK(env, Known(frame), cache)
    /\ Alone(frame, asked)
    /\ \A t \in Threads : ThreadOK(env, Known(frame), pc[t], frame[t]) /\ Holding(selectors, pc[t], frame[t])

-----------------------------------------------------------------------------
(* What the calls ask for. *)

(* A call of the program is not the absence of one. *)
LEMMA CallsAreCalls ==
    ASSUME NEW c \in SharedCalls \cup AloneCalls
    PROVE  c # None /\ c.api \in {"shave", "layer", "presplit", "descriptor"}
  BY CallsAssumption DEF None

(* Every kernel asked for is a workload with an output. *)
LEMMA KernelsAreKernels ==
    ASSUME NEW c \in SharedCalls \cup AloneCalls, NEW v \in KernelsIn(c)
    PROVE  IsKernel(v)
  <1>1. CASE c.api = "shave"
    <2>1. v = c.wl
      BY <1>1 DEF KernelsIn, Workloads, Range
    <2> QED BY <1>1, <2>1, CallsAssumption
  <1>2. CASE c.api = "layer"
    <2>1. v = c.wl
      BY <1>2 DEF KernelsIn, Workloads, Range
    <2> QED BY <1>2, <2>1, CallsAssumption
  <1>3. CASE c.api = "presplit"
    BY <1>3, CallsAssumption DEF KernelsIn, Workloads
  <1>4. CASE c.api = "descriptor"
    BY <1>4 DEF KernelsIn, Workloads, Range
  <1> QED BY <1>1, <1>2, <1>3, <1>4, CallsAreCalls

(* The absence of a call asks for nothing. *)
LEMMA NoneAsksNothing == KernelsIn(None) = {}
  BY DEF KernelsIn, None, Workloads, Range

(* A call begins with a request for each of its kernels. *)
LEMMA CallKernels ==
    ASSUME NEW c \in SharedCalls \cup AloneCalls
    PROVE  /\ Kernels(c) \in Seq({Kernel(v) : v \in KernelsIn(c)})
           /\ c.api = "shave" => Kernels(c) = <<Kernel(c.wl)>>
  <1>1. CASE c.api = "shave"
    BY <1>1 DEF Kernels, KernelsIn
  <1>2. CASE c.api = "layer"
    BY <1>2 DEF Kernels, KernelsIn, Workloads, Range
  <1>3. CASE c.api = "presplit"
    BY <1>3, CallsAssumption DEF Kernels, KernelsIn, Workloads, Range
  <1>4. CASE c.api = "descriptor"
    BY <1>4 DEF Kernels
  <1> QED BY <1>1, <1>2, <1>3, <1>4, CallsAreCalls

(* The kernels of the shared calls are those of their definition. *)
LEMMA SharedAreOthers ==
    ASSUME NEW c \in SharedCalls
    PROVE  KernelsIn(c) \subseteq OthersWorkloads
  BY DEF KernelsIn, OthersWorkloads

(* What is known was asked for in some call. *)
LEMMA KnownWereAsked ==
    ASSUME NEW fr, \A t \in Threads : fr[t].call \in SharedCalls \cup AloneCalls \cup {None}
    PROVE  Known(fr) \subseteq AllKernels
  <1>1. OthersWorkloads \subseteq AllKernels
    BY DEF OthersWorkloads, AllKernels, KernelsIn
  <1>2. \A t \in Threads : KernelsIn(fr[t].call) \subseteq AllKernels
    BY NoneAsksNothing DEF AllKernels
  <1> QED BY <1>1, <1>2 DEF Known

(* Everything that may ever be asked for is a workload with an output. *)
LEMMA AllAreKernels == \A v \in AllKernels : IsKernel(v)
  BY KernelsAreKernels DEF AllKernels

-----------------------------------------------------------------------------
(* The parts of the invariant only ask for more to be known. *)

(* What may be found under a key depends on the key alone. *)
LEMMA WarmByKey ==
    ASSUME NEW e, NEW K, NEW v, NEW w, ShaveKey(v) = ShaveKey(w)
    PROVE  Warm(e, K, v) = Warm(e, K, w)
  BY DEF Warm

(* The more was asked for, the more may be found. *)
LEMMA WarmGrows ==
    ASSUME NEW e, NEW K, NEW L, K \subseteq L
    PROVE  /\ \A w : Warm(e, K, w) \subseteq Warm(e, L, w)
           /\ Entries(e, K) \subseteq Entries(e, L)
  <1>1. \A w : Warm(e, K, w) \subseteq Warm(e, L, w)
    BY DEF Warm
  <1> QED BY <1>1 DEF Entries

(* A thread is as well off when more is known. *)
LEMMA ThreadGrows ==
    ASSUME NEW e, NEW K, NEW L, K \subseteq L, NEW p, NEW f, ThreadOK(e, K, p, f)
    PROVE  ThreadOK(e, L, p, f)
  <1>1. \A w : Warm(e, K, w) \subseteq Warm(e, L, w)
    BY WarmGrows
  <1>2. f.call.api = "shave" => Querying(e, L, p, f)
    BY <1>1 DEF ThreadOK, Querying
  <1> QED BY <1>1, <1>2 DEF ThreadOK

(* What one thread does while it goes on with its call. *)
LEMMA ThreadSteps ==
    ASSUME IInv, NEW t \in Threads, NEW p, NEW f,
           pc' = [pc EXCEPT ![t] = p], frame' = [frame EXCEPT ![t] = f],
           UNCHANGED <<env, enabled, asked>>,
           f.call = frame[t].call, frame[t].call # None,
           ThreadOK(env, Known(frame), p, f),
           selectors' \in [Owners \X Devices -> Nat], Holding(selectors', p, f),
           \A place \in Owners \X Devices : selectors[place] # 0 => selectors'[place] = selectors[place],
           \A u \in Threads \ {t} : pc[u] = "use" => PlaceOf(frame[u]) \in Owners \X Devices,
           CacheOK(env, Known(frame), cache')
    PROVE  IInv'
  <1> DEFINE K == Known(frame)
  <1>1. /\ frame' = [u \in Threads |-> IF u = t THEN f ELSE frame[u]]
        /\ pc' = [u \in Threads |-> IF u = t THEN p ELSE pc[u]]
    BY DEF IInv
  <1>2. Known(frame') = K
    <2>1. \A u \in Threads : frame'[u].call = frame[u].call
      BY <1>1
    <2> QED BY <2>1 DEF Known
  <1>3. p \in Labels
    BY DEF ThreadOK
  <1>4. GatesOK'
    BY DEF IInv, GatesOK
  <1>5. pc' \in [Threads -> Labels] /\ frame' = [u \in Threads |-> frame'[u]]
    BY <1>1, <1>3 DEF IInv
  <1>6. Alone(frame', asked')
    <2>1. frame[t] # Idle
      BY DEF Idle, None
    <2> QED BY <1>1, <2>1 DEF IInv, Alone
  <1>7. \A u \in Threads : ThreadOK(env, K, pc'[u], frame'[u])
    BY <1>1 DEF IInv
  <1>8. \A u \in Threads : Holding(selectors', pc'[u], frame'[u])
    BY <1>1 DEF IInv, Holding
  <1> QED BY <1>2, <1>4, <1>5, <1>6, <1>7, <1>8 DEF IInv

(* The selectors that are visited are those of the map. *)
LEMMA VisitsHavePlaces ==
    ASSUME NEW w, NEW n \in 1..Len(Visits(w))
    PROVE  <<Visits(w)[n].owner, w.device>> \in Owners \X Devices
  <1>1. LegacyDevices \cup NewDevices \subseteq Devices
    BY DEF LegacyDevices, NewDevices, Devices, VPUDevice, Range
  <1>2. CASE w.device \in LegacyDevices
    <2>1. Visits(w) = <<Visit("old", "old", w.name), Mapped("mapped", w)>>
      BY <1>2 DEF Visits, DeviceMapping, Routes
    <2>2. n \in {1, 2}
      BY <2>1
    <2> QED BY <1>1, <1>2, <2>1, <2>2 DEF Visit, Mapped, Owners
  <1>3. CASE w.device \in NewDevices \ LegacyDevices
    <2>1. Visits(w) = <<OpSetOverride(ExtendedOps, w.name, Mapped("npu5_mapped", w),
                                      Visit("npu5", "heuristic_factors", w.name))>>
      BY <1>3 DEF Visits, DeviceMapping, Routes
    <2>2. n = 1
      BY <2>1
    <2> QED BY <1>1, <1>3, <2>1, <2>2 DEF Visit, Mapped, OpSetOverride, Owners
  <1>4. CASE w.device \notin LegacyDevices \cup NewDevices
    <2>1. Visits(w) = <<>>
      BY <1>4 DEF Visits, DeviceMapping, Routes
    <2> QED BY <2>1
  <1> QED BY <1>2, <1>3, <1>4

(* A thread that makes or uses a selector visits a provider that exists. *)
LEMMA UsedPlaces ==
    ASSUME IInv, NEW u \in Threads, pc[u] \in {"create", "use"}
    PROVE  PlaceOf(frame[u]) \in Owners \X Devices /\ frame[u].visit \in 1..Len(Visits(Kern(frame[u])))
  <1>1. frame[u].visit \in 1..Len(Visits(Kern(frame[u])))
    <2>1. Len(Visits(Kern(frame[u]))) \in Nat
      BY DEF Visits
    <2>2. frame[u].visit \in Nat \ {0} /\ frame[u].visit <= Len(Visits(Kern(frame[u])))
      BY DEF IInv, ThreadOK, Visiting
    <2> QED BY <2>1, <2>2
  <1> QED BY <1>1, VisitsHavePlaces DEF PlaceOf

(* The same when no selector is made. *)
LEMMA ThreadMoves ==
    ASSUME IInv, NEW t \in Threads, NEW p, NEW f,
           pc' = [pc EXCEPT ![t] = p], frame' = [frame EXCEPT ![t] = f],
           UNCHANGED <<env, enabled, asked, selectors>>,
           f.call = frame[t].call, frame[t].call # None,
           ThreadOK(env, Known(frame), p, f), Holding(selectors, p, f),
           CacheOK(env, Known(frame), cache')
    PROVE  IInv'
  BY ThreadSteps, UsedPlaces DEF IInv

-----------------------------------------------------------------------------
(* The cache. *)

(* Moving an entry to the front keeps the kind of the entries. *)
LEMMA ToFrontKeeps ==
    ASSUME NEW S, NEW s \in Seq(S), NEW i \in DOMAIN s
    PROVE  ToFront(s, i) \in Seq(S)
  <1>1. i \in 1..Len(s) /\ s[i] \in S
    OBVIOUS
  <1>2. SubSeq(s, 1, i - 1) \in Seq(S) /\ SubSeq(s, i + 1, Len(s)) \in Seq(S)
    BY <1>1
  <1>3. RemoveAt(s, i) \in Seq(S)
    BY <1>2 DEF RemoveAt
  <1> QED BY <1>1, <1>3 DEF ToFront

(* So does adding one. *)
LEMMA AddedKeeps ==
    ASSUME NEW S, NEW s \in Seq(S), NEW k, NEW x, [key |-> k, value |-> x] \in S
    PROVE  Added(s, k, x) \in Seq(S)
  <1>1. CASE Positions(s, k) # {}
    <2> DEFINE i == CHOOSE i \in Positions(s, k) : TRUE
    <2>1. i \in Positions(s, k)
      BY <1>1
    <2>2. i \in DOMAIN s
      BY <2>1 DEF Positions
    <2> QED BY <1>1, <2>2, ToFrontKeeps DEF Added
  <1>2. CASE Positions(s, k) = {}
    <2> DEFINE longer == <<[key |-> k, value |-> x]>> \o s
               n == IF Len(s) < CacheSize THEN Len(s) + 1 ELSE CacheSize
    <2>1. longer \in Seq(S) /\ Len(longer) = Len(s) + 1
      OBVIOUS
    <2>2. n \in 1..(Len(s) + 1)
      BY DeviceQueriesAssumption
    <2>3. SubSeq(longer, 1, n) \in Seq(S)
      <3> HIDE DEF longer, n
      <3> QED BY <2>1, <2>2
    <2> QED BY <1>2, <2>3 DEF Added
  <1> QED BY <1>1, <1>2

(* An entry under the key of w holds a warm cost of that key. *)
LEMMA FoundIsWarm ==
    ASSUME NEW e, NEW K, NEW s \in Seq(Entries(e, K)), NEW w, NEW i \in Positions(s, ShaveKey(w))
    PROVE  s[i].value \in Warm(e, K, w)
  <1>1. s[i] \in Entries(e, K) /\ s[i].key = ShaveKey(w)
    BY DEF Positions
  <1>2. PICK v \in K : s[i] \in {[key |-> ShaveKey(v), value |-> x] : x \in Warm(e, K, v)}
    BY <1>1 DEF Entries
  <1>3. PICK x \in Warm(e, K, v) : s[i] = [key |-> ShaveKey(v), value |-> x]
    BY <1>2
  <1>4. ShaveKey(v) = ShaveKey(w) /\ s[i].value = x
    BY <1>1, <1>3
  <1> QED BY <1>3, <1>4, WarmByKey

(* A thread with a kernel in hand asks for a kernel of its call. *)
LEMMA InHand ==
    ASSUME IInv, NEW t \in Threads, frame[t].stage = "kernels", frame[t].todo # <<>>
    PROVE  /\ Kern(frame[t]) \in KernelsIn(frame[t].call) /\ Kern(frame[t]) \in Known(frame)
           /\ IsKernel(Kern(frame[t])) /\ frame[t].call # None
           /\ Tail(frame[t].todo) \in Seq({Kernel(v) : v \in KernelsIn(frame[t].call)})
  <1> DEFINE S == {Kernel(v) : v \in KernelsIn(frame[t].call)}
  <1>1. frame[t].todo \in Seq(S) /\ frame[t].call \in SharedCalls \cup AloneCalls \cup {None}
    BY DEF IInv, ThreadOK
  <1>2. frame[t].todo[1] \in S /\ Tail(frame[t].todo) \in Seq(S)
    <2> HIDE DEF S
    <2> QED BY <1>1
  <1>3. Kern(frame[t]) \in KernelsIn(frame[t].call)
    BY <1>2 DEF Kern, Kernel
  <1>4. frame[t].call # None
    BY <1>3, NoneAsksNothing
  <1>5. Kern(frame[t]) \in Known(frame)
    BY <1>3 DEF Known
  <1> QED BY <1>1, <1>2, <1>3, <1>4, <1>5, KernelsAreKernels

(* The costs that the provider and the service give a known kernel. *)
LEMMA AnswersAreWarm ==
    ASSUME NEW e, NEW K, NEW w \in K
    PROVE  /\ createDeviceMappedProvider(w) \in Warm(e, K, w)
           /\ e # "ForcedOff" => ServiceCost(w) \in Warm(e, K, w)
           /\ \A c \in Warm(e, K, w) : [key |-> ShaveKey(w), value |-> c] \in Entries(e, K)
  <1>1. createDeviceMappedProvider(w) \in Warm(e, K, w)
    BY DEF Warm
  <1>2. e # "ForcedOff" => ServiceCost(w) \in Warm(e, K, w)
    BY DEF Warm
  <1>3. \A c \in Warm(e, K, w) : [key |-> ShaveKey(w), value |-> c] \in Entries(e, K)
    BY DEF Entries
  <1> QED BY <1>1, <1>2, <1>3

-----------------------------------------------------------------------------
(* What the providers visited one after the other come to. *)

(* The model's provider, by the kind of device. *)
LEMMA ProviderByDevice ==
    ASSUME NEW w
    PROVE  /\ w.device \in LegacyDevices =>
                 createDeviceMappedProvider(w) = createOldSelectorWithNameMappingProvider(w)
           /\ w.device \in NewDevices \ LegacyDevices =>
                 createDeviceMappedProvider(w) = createHeuristicWithOldNameMappingExtendedOpsOverride(FreqsNPU5, w)
           /\ w.device \notin LegacyDevices \cup NewDevices =>
                 createDeviceMappedProvider(w) = ERROR_SHAVE_OPERATOR_MISSING
  BY DEF createDeviceMappedProvider, DeviceMapping, Routes

(* The visits of a query, by the kind of device. *)
LEMMA VisitsByDevice ==
    ASSUME NEW w
    PROVE  /\ w.device \in LegacyDevices => Visits(w) = <<Visit("old", "old", w.name), Mapped("mapped", w)>>
           /\ w.device \in NewDevices \ LegacyDevices =>
                 Visits(w) = <<OpSetOverride(ExtendedOps, w.name, Mapped("npu5_mapped", w),
                                             Visit("npu5", "heuristic_factors", w.name))>>
           /\ w.device \notin LegacyDevices \cup NewDevices => Visits(w) = <<>>
  BY DEF Visits, DeviceMapping, Routes

(* A visit under the workload's own name or under the translated one costs *)
(* what the provider that makes it answers.                                *)
LEMMA VisitCosts ==
    ASSUME NEW w, IsKernel(w)
    PROVE  /\ KernelCost(Visit("old", "old", w.name), w) = OldShaveCostProvider(w)
           /\ \A owner \in {"mapped", "npu5_mapped"} :
                 KernelCost(Mapped(owner, w), w) = createNameMappingOldProvider(w)
           /\ KernelCost(Visit("npu5", "heuristic_factors", w.name), w) =
                 LegacyShvCompat(HeuristicCostProviderWithFactors(w), FreqsNPU5)
  <1> DEFINE n == Translate(getStandardNameMappings, w.name)
             m == NameMapping(getStandardNameMappings, w)
  <1>1. [w EXCEPT !.name = w.name] = w
    BY DEF IsKernel
  <1>2. m = [w EXCEPT !.name = n] /\ m.name = n /\ m.device = w.device
    BY DEF IsKernel, NameMapping
  <1>3. KernelCost(Visit("old", "old", w.name), w) = OldShaveCostProvider(w)
    BY <1>1 DEF KernelCost, Visit, Converted, OldShaveCostProvider, MathematicalCost
  <1>4. ASSUME NEW owner \in {"mapped", "npu5_mapped"}
        PROVE  KernelCost(Mapped(owner, w), w) = createNameMappingOldProvider(w)
    <2>1. Mapped(owner, w) = [owner |-> owner, kind |-> "old", name |-> n]
      BY DEF Mapped, Visit
    <2>2. KernelCost(Mapped(owner, w), w) = CostOfInstance(get_shave_instance("old", n, w.device), m)
      BY <1>2, <2>1 DEF KernelCost, Converted
    <2> QED BY <1>2, <2>2 DEF createNameMappingOldProvider, OldShaveCostProvider, MathematicalCost
  <1>5. KernelCost(Visit("npu5", "heuristic_factors", w.name), w) =
           LegacyShvCompat(HeuristicCostProviderWithFactors(w), FreqsNPU5)
    BY <1>1 DEF KernelCost, Visit, Converted, HeuristicCostProviderWithFactors, MathematicalCost
  <1> QED BY <1>3, <1>4, <1>5

(* Of two costs the first that is not an error. *)
LEMMA PriorityOfTwo ==
    ASSUME NEW a, NEW b
    PROVE  /\ ~isErrorCode(a) => Priority(<<a, b>>) = a
           /\ isErrorCode(a) /\ ~isErrorCode(b) => Priority(<<a, b>>) = b
           /\ isErrorCode(a) /\ isErrorCode(b) => Priority(<<a, b>>) = ERROR_SHAVE_OPERATOR_MISSING
  <1> DEFINE good == {i \in {1, 2} : ~isErrorCode(<<a, b>>[i])}
  <1>1. DOMAIN <<a, b>> = {1, 2}
    OBVIOUS
  <1>2. Priority(<<a, b>>) = IF good = {} THEN ERROR_SHAVE_OPERATOR_MISSING ELSE <<a, b>>[Min(good)]
    BY <1>1 DEF Priority
  <1>3. CASE ~isErrorCode(a)
    <2>1. 1 \in good /\ good \subseteq {1, 2}
      BY <1>3
    <2>2. Min(good) = 1
      <3>1. good = {1} \/ good = {1, 2}
        BY <2>1
      <3>2. Min({1}) = 1 /\ Min({1, 2}) = 1
        BY DEF Min
      <3> QED BY <3>1, <3>2
    <2> QED BY <1>2, <1>3, <2>1, <2>2
  <1>4. CASE isErrorCode(a) /\ ~isErrorCode(b)
    <2>1. good = {2}
      BY <1>4
    <2>2. Min(good) = 2
      BY <2>1 DEF Min
    <2> QED BY <1>2, <1>4, <2>1, <2>2
  <1>5. CASE isErrorCode(a) /\ isErrorCode(b)
    <2>1. good = {}
      BY <1>5
    <2> QED BY <1>2, <1>5, <2>1
  <1> QED BY <1>3, <1>4, <1>5

(* When every provider before visit n failed, then with nobody left to ask *)
(* the operator is missing, and an answer of visit n that is not passed on *)
(* is the answer of the model's provider.                                  *)
LEMMA VisitsComeToProvider ==
    ASSUME NEW w, IsKernel(w), NEW n, Visiting(w, n)
    PROVE  /\ n > Len(Visits(w)) => createDeviceMappedProvider(w) = ERROR_SHAVE_OPERATOR_MISSING
           /\ n <= Len(Visits(w)) =>
                 LET c == KernelCost(Visits(w)[n], w)
                 IN  ~(isErrorCode(c) /\ w.device \in LegacyDevices) => createDeviceMappedProvider(w) = c
  <1>1. n \in Nat \ {0}
    BY DEF Visiting
  <1>2. CASE w.device \in LegacyDevices
    <2> DEFINE a == OldShaveCostProvider(w)
               b == createNameMappingOldProvider(w)
    <2>1. Visits(w) = <<Visit("old", "old", w.name), Mapped("mapped", w)>>
      BY <1>2, VisitsByDevice
    <2>2. Len(Visits(w)) = 2 /\ KernelCost(Visits(w)[1], w) = a /\ KernelCost(Visits(w)[2], w) = b
      BY <2>1, VisitCosts
    <2>3. createDeviceMappedProvider(w) = Priority(<<a, b>>)
      BY <1>2, ProviderByDevice DEF createOldSelectorWithNameMappingProvider
    <2>4. /\ n > 1 => isErrorCode(a)
          /\ n > 2 => isErrorCode(b)
      BY <1>1, <2>2 DEF Visiting
    <2> HIDE DEF a, b
    <2> QED BY <1>1, <1>2, <2>2, <2>3, <2>4, PriorityOfTwo
  <1>3. CASE w.device \in NewDevices \ LegacyDevices
    <2>1. n = 1
      BY <1>1, <1>3 DEF Visiting
    <2>2. Visits(w) = <<OpSetOverride(ExtendedOps, w.name, Mapped("npu5_mapped", w),
                                      Visit("npu5", "heuristic_factors", w.name))>>
      BY <1>3, VisitsByDevice
    <2>3. Len(Visits(w)) = 1
      BY <2>2
    <2>4. createDeviceMappedProvider(w) =
             OpSetOverride(ExtendedOps, w.name, createNameMappingOldProvider(w),
                           LegacyShvCompat(HeuristicCostProviderWithFactors(w), FreqsNPU5))
      <3>1. FreqsNPU5 # <<>>
        BY DEF FreqsNPU5
      <3> QED BY <1>3, <3>1, ProviderByDevice
              DEF createHeuristicWithOldNameMappingExtendedOpsOverride, createOpSetOverrideWithNameMappingForOps
    <2>5. KernelCost(Visits(w)[1], w) = createDeviceMappedProvider(w)
      BY <2>2, <2>4, VisitCosts DEF OpSetOverride
    <2> QED BY <2>1, <2>3, <2>5
  <1>4. CASE w.device \notin LegacyDevices \cup NewDevices
    <2>1. Len(Visits(w)) = 0
      BY <1>4, VisitsByDevice
    <2> QED BY <1>1, <1>4, <2>1, ProviderByDevice
  <1> QED BY <1>2, <1>3, <1>4

-----------------------------------------------------------------------------
(* The initial states and the steps. *)

LEMMA IInvInit == Init => IInv
  <1> SUFFICES ASSUME Init PROVE IInv
    OBVIOUS
  <1>1. GatesOK
    BY DEF Init, GatesOK, Models
  <1>2. CacheOK(env, Known(frame), cache)
    BY DEF Init, CacheOK, Models
  <1>3. ASSUME NEW t \in Threads
        PROVE  /\ pc[t] = "idle" /\ frame[t] = Idle
               /\ ThreadOK(env, Known(frame), pc[t], frame[t]) /\ Holding(selectors, pc[t], frame[t])
    <2>1. pc[t] = "idle" /\ frame[t] = Idle
      BY DEF Init
    <2> QED BY <2>1 DEF ThreadOK, Holding, Idle, IsFrame, Fields, Labels, None
  <1>4. Alone(frame, asked)
    BY <1>3, DeviceQueriesAssumption DEF Init, Alone, Idle, None
  <1>5. selectors \in [Owners \X Devices -> Nat] /\ pc \in [Threads -> Labels] /\ frame = [t \in Threads |-> frame[t]]
    BY DEF Init, Labels
  <1> QED BY <1>1, <1>2, <1>3, <1>4, <1>5 DEF IInv

(* A new call: what was known stays known, for the calls that end here are *)
(* shared ones.                                                            *)
LEMMA BeginsKeeps ==
    ASSUME IInv, NEW t \in Threads, NEW c \in SharedCalls \cup AloneCalls, Begins(t, c), asked' \in Nat \ {0},
           asked < MaxQueries \/ asked = 0,
           c \in SharedCalls \/ (asked = 0 /\ asked' >= MaxQueries)
    PROVE  IInv'
  <1> DEFINE f == [Idle EXCEPT !.call = c, !.todo = Kernels(c)]
             K == Known(frame)
             L == Known(frame')
  <1>1. /\ frame' = [u \in Threads |-> IF u = t THEN f ELSE frame[u]]
        /\ pc' = [u \in Threads |-> IF u = t THEN "work" ELSE pc[u]]
        /\ UNCHANGED <<env, enabled, cache, selectors>>
    BY DEF Begins, Goto, IInv
  <1>2. \A u \in Threads : frame[u].call \in SharedCalls \cup {None}
    BY DeviceQueriesAssumption DEF IInv, Alone, Idle, None
  <1>3. K \subseteq L
    <2>1. \A u \in Threads : KernelsIn(frame[u].call) \subseteq OthersWorkloads
      BY <1>2, SharedAreOthers, NoneAsksNothing
    <2> QED BY <2>1 DEF Known
  <1>4. /\ IsFrame(f) /\ f.call = c /\ f.todo = Kernels(c) /\ f.got = <<>> /\ f.stage = "kernels"
        /\ f.visit = 1 /\ f.answer = NoAnswer
    <2>1. /\ IsFrame(Idle) /\ Idle.got = <<>> /\ Idle.stage = "kernels" /\ Idle.visit = 1
          /\ Idle.answer = NoAnswer
      BY DEF IsFrame, Idle, Fields
    <2> QED BY <2>1 DEF IsFrame, Fields
  <1> HIDE DEF f, K, L
  <1>5. ThreadOK(env, L, "work", f)
    <2>1. c # None /\ c \in SharedCalls \cup AloneCalls
      BY CallsAreCalls
    <2>2. f.call.api = "shave" => Querying(env, L, "work", f)
      BY <1>4, CallKernels DEF Querying
    <2>3. f.todo \in Seq({Kernel(v) : v \in KernelsIn(f.call)})
      BY <1>4, CallKernels
    <2> QED BY <1>4, <2>1, <2>2, <2>3 DEF ThreadOK, Labels
  <1>6. \A u \in Threads : ThreadOK(env, L, pc'[u], frame'[u])
    <2> SUFFICES ASSUME NEW u \in Threads PROVE ThreadOK(env, L, pc'[u], frame'[u])
      OBVIOUS
    <2>1. ThreadOK(env, K, pc[u], frame[u])
      BY DEF IInv, K
    <2>2. ThreadOK(env, L, pc[u], frame[u])
      BY <1>3, <2>1, ThreadGrows
    <2> QED BY <1>1, <1>5, <2>2
  <1>7. \A u \in Threads : Holding(selectors', pc'[u], frame'[u])
    BY <1>1 DEF IInv, Holding
  <1>8. CacheOK(env, L, cache)
    <2>1. Entries(env, K) \subseteq Entries(env, L)
      BY <1>3, WarmGrows
    <2>2. cache["shave"] \in Seq(Entries(env, K))
      BY DEF IInv, CacheOK, K
    <2>3. cache["shave"] \in Seq(Entries(env, L))
      BY <2>1, <2>2
    <2> QED BY <2>3 DEF IInv, CacheOK
  <1>9. Alone(frame', asked')
    <2>1. asked = 0 => \A u \in Threads : frame[u] = Idle
      BY DEF IInv, Alone
    <2>2. \A u \in Threads : frame'[u].call \notin SharedCalls \cup {None} =>
             u = t /\ asked = 0 /\ asked' >= MaxQueries
      BY <1>1, <1>2, <1>4
    <2> QED BY <1>1, <2>1, <2>2 DEF Alone
  <1>10. GatesOK' /\ pc' \in [Threads -> Labels] /\ frame' = [u \in Threads |-> frame'[u]]
    BY <1>1 DEF IInv, GatesOK, Labels
  <1> QED BY <1>1, <1>6, <1>7, <1>8, <1>9, <1>10 DEF IInv, L

LEMMA AskKeeps ==
    ASSUME IInv, NEW t \in Threads, Ask(t) \/ AskAlone(t)
    PROVE  IInv'
  <1>1. CASE Ask(t)
    <2>1. asked' \in Nat \ {0}
      BY <1>1 DEF Ask, IInv, Alone
    <2>2. PICK c \in SharedCalls : Begins(t, c)
      BY <1>1 DEF Ask
    <2> QED BY <1>1, <2>1, <2>2, BeginsKeeps DEF Ask
  <1>2. CASE AskAlone(t)
    <2>1. asked' \in Nat \ {0} /\ asked' >= MaxQueries
      BY <1>2, DeviceQueriesAssumption DEF AskAlone
    <2> QED BY <1>2, <2>1, BeginsKeeps DEF AskAlone
  <1> QED BY <1>1, <1>2

LEMMA SwitchKeeps ==
    ASSUME IInv, NEW m \in Models, NEW value \in BOOLEAN, setProfilingEnabledForAutoHint(m, value)
    PROVE  IInv'
  <1>1. UNCHANGED <<env, cache, selectors, pc, frame>> /\ env = "NotSet"
    BY DEF setProfilingEnabledForAutoHint
  <1>2. GatesOK'
    BY DEF setProfilingEnabledForAutoHint, GatesOK, IInv
  <1>3. Alone(frame', asked')
    BY <1>1, DeviceQueriesAssumption DEF setProfilingEnabledForAutoHint, IInv, Alone
  <1> QED BY <1>1, <1>2, <1>3 DEF IInv

(* The frame of a thread that goes on: what a step sets, and what it lets be. *)
LEMMA FrameSet ==
    ASSUME NEW f, IsFrame(f), NEW j \in Fields, NEW x, NEW g, g = [f EXCEPT ![j] = x]
    PROVE  IsFrame(g) /\ g[j] = x /\ \A k \in Fields \ {j} : g[k] = f[k]
  BY DEF IsFrame

LEMMA TryCacheKeeps ==
    ASSUME IInv, NEW t \in Threads, TryCache(t)
    PROVE  IInv'
  <1> DEFINE f == frame[t]
             K == Known(frame)
             w == Kern(f)
             s == cache["shave"]
  <1>1. f.stage = "kernels" /\ f.todo # <<>> /\ pc[t] = "work" /\ Request(t).wl = w
    BY DEF TryCache, Model, Request, Kern
  <1>2. ThreadOK(env, K, "work", f) /\ s \in Seq(Entries(env, K)) /\ cache = [m \in Models |-> cache[m]]
    BY <1>1 DEF IInv, CacheOK
  <1>3. f.call # None
    BY <1>1, InHand
  <1>4. UNCHANGED <<env, enabled, asked, selectors>>
    BY DEF TryCache
  <1>5. CASE Positions(s, ShaveKey(w)) = {}
    <2>1. pc' = [pc EXCEPT ![t] = "gate"] /\ UNCHANGED <<cache, frame>>
      BY <1>1, <1>5 DEF TryCache, Goto
    <2>2. frame' = [frame EXCEPT ![t] = f]
      BY <2>1 DEF IInv
    <2>3. ThreadOK(env, K, "gate", f)
      BY <1>1, <1>2 DEF ThreadOK, Querying, Labels
    <2>4. CacheOK(env, K, cache') /\ Holding(selectors, "gate", f)
      BY <2>1 DEF IInv, Holding
    <2> QED BY <1>3, <1>4, <2>1, <2>2, <2>3, <2>4, ThreadMoves
  <1>6. CASE Positions(s, ShaveKey(w)) # {}
    <2>1. PICK i \in Positions(s, ShaveKey(w)) :
             /\ cache' = [cache EXCEPT !["shave"] = ToFront(s, i)]
             /\ frame' = [frame EXCEPT ![t].cycles = s[i].value]
             /\ pc' = [pc EXCEPT ![t] = "add"]
      BY <1>1, <1>6 DEF TryCache, Goto
    <2> DEFINE g == [f EXCEPT !.cycles = s[i].value]
    <2>2. frame' = [frame EXCEPT ![t] = g]
      BY <2>1
    <2>3. IsFrame(g) /\ g.cycles = s[i].value /\ \A k \in Fields \ {"cycles"} : g[k] = f[k]
      <3>1. IsFrame(f) /\ "cycles" \in Fields
        BY <1>2 DEF ThreadOK, Fields
      <3> QED BY <3>1, FrameSet
    <2>4. /\ g.call = f.call /\ g.todo = f.todo /\ g.got = f.got /\ g.stage = f.stage /\ g.visit = f.visit
          /\ g.answer = f.answer /\ Kern(g) = w
      BY <2>3 DEF Fields, Kern
    <2>5. s[i].value \in Warm(env, K, w)
      BY <1>2, FoundIsWarm
    <2>6. ThreadOK(env, K, "add", g) /\ Holding(selectors, "add", g)
      <3> HIDE DEF g, f, w, s, K
      <3>1. g.call.api = "shave" => Querying(env, K, "add", g)
        BY <1>1, <1>2, <2>4 DEF ThreadOK, Querying
      <3> QED BY <1>1, <1>2, <1>3, <2>3, <2>4, <2>5, <3>1 DEF ThreadOK, Labels, Holding
    <2>7. CacheOK(env, K, cache')
      <3>1. ToFront(s, i) \in Seq(Entries(env, K))
        BY <1>2, ToFrontKeeps DEF Positions
      <3> QED BY <1>2, <2>1, <3>1 DEF CacheOK, Models
    <2> HIDE DEF g
    <2> QED BY <1>3, <1>4, <2>1, <2>2, <2>4, <2>6, <2>7, ThreadMoves
  <1> QED BY <1>5, <1>6

LEMMA CheckGateKeeps ==
    ASSUME IInv, NEW t \in Threads, CheckGate(t), frame[t].call # None
    PROVE  IInv'
  <1> DEFINE f == frame[t]
             p == IF enabled[Model(t)] THEN "profile" ELSE "provide"
             K == Known(frame)
  <1>1. pc[t] = "gate" /\ UNCHANGED <<env, enabled, asked, selectors, cache, frame>> /\ pc' = [pc EXCEPT ![t] = p]
    BY DEF CheckGate, Goto
  <1>2. ThreadOK(env, K, "gate", f) /\ frame' = [frame EXCEPT ![t] = f]
    BY <1>1 DEF IInv
  <1>3. env = "ForcedOff" => p = "provide"
    BY DEF IInv, GatesOK, Model, Models
  <1>4. p \in {"profile", "provide"}
    OBVIOUS
  <1> HIDE DEF p
  <1>5. ThreadOK(env, K, p, f)
    BY <1>2, <1>3, <1>4 DEF ThreadOK, Labels, Querying, Visiting
  <1>6. Holding(selectors, p, f) /\ CacheOK(env, K, cache')
    BY <1>1, <1>4 DEF Holding, IInv
  <1> QED BY <1>1, <1>2, <1>5, <1>6, ThreadMoves

(* A thread that is not idle has a call. *)
LEMMA BusyHasCall ==
    ASSUME IInv, NEW t \in Threads, pc[t] # "idle"
    PROVE  /\ frame[t].call # None /\ ThreadOK(env, Known(frame), pc[t], frame[t])
           /\ IsFrame(frame[t])
  BY DEF IInv, ThreadOK

(* A thread that has found a warm cost goes on to the cache. *)
LEMMA CostFound ==
    ASSUME IInv, NEW t \in Threads, pc[t] \notin {"idle", "work"}, frame[t].stage = "kernels",
           NEW c \in Warm(env, Known(frame), Kern(frame[t])), NEW g, IsFrame(g), g.cycles = c,
           \A k \in Fields \ {"cycles", "held"} : g[k] = frame[t][k]
    PROVE  ThreadOK(env, Known(frame), "add", g) /\ Holding(selectors, "add", g) /\ g.call = frame[t].call
  <1> DEFINE f == frame[t]
             K == Known(frame)
  <1>1. f.call # None /\ ThreadOK(env, K, pc[t], f)
    BY BusyHasCall
  <1>2. /\ g.call = f.call /\ g.todo = f.todo /\ g.got = f.got /\ g.stage = f.stage /\ g.visit = f.visit
        /\ g.answer = f.answer
    BY DEF Fields
  <1> HIDE DEF f, K
  <1>3. Kern(g) = Kern(f)
    BY <1>2 DEF Kern
  <1>4. g.call.api = "shave" => Querying(env, K, "add", g)
    BY <1>1, <1>2 DEF ThreadOK, Querying, f
  <1>5. g.cycles \in Warm(env, K, Kern(g)) /\ f.stage = "kernels" /\ pc[t] \notin {"idle", "work"}
    BY <1>3 DEF f, K
  <1>6. ThreadOK(env, K, "add", g)
    BY <1>1, <1>2, <1>4, <1>5 DEF ThreadOK, Labels
  <1> QED BY <1>2, <1>6 DEF K, f, Holding

(* A transfer that is answered makes room for the next one. *)
LEMMA TransferReceived ==
    ASSUME IInv, NEW t \in Threads, pc[t] # "idle", frame[t].stage = "transfers", NEW c, Received(t, c),
           UNCHANGED <<env, enabled, asked, selectors>>, CacheOK(env, Known(frame), cache')
    PROVE  IInv'
  <1> DEFINE f == frame[t]
             g == [f EXCEPT !.todo = Tail(f.todo), !.got = Append(f.got, c), !.visit = 1, !.held = 0]
             K == Known(frame)
  <1>1. frame' = [frame EXCEPT ![t] = g] /\ pc' = [pc EXCEPT ![t] = "work"]
    BY DEF Received, Goto
  <1>2. f.call # None /\ ThreadOK(env, K, pc[t], f) /\ IsFrame(f)
    BY BusyHasCall
  <1>3. IsFrame(g) /\ g.visit = 1 /\ g.call = f.call /\ g.stage = f.stage
    <2>1. g = [f EXCEPT !.todo = Tail(f.todo), !.got = Append(f.got, c), !.visit = 1, !.held = 0]
      OBVIOUS
    <2> HIDE DEF f, g
    <2> QED BY <1>2, <2>1 DEF IsFrame, Fields
  <1> HIDE DEF g
  <1>4. ThreadOK(env, K, "work", g) /\ Holding(selectors, "work", g)
    BY <1>2, <1>3 DEF ThreadOK, Labels, Holding, Querying
  <1> QED BY <1>1, <1>2, <1>3, <1>4, ThreadMoves

LEMMA TryProfilingKeeps ==
    ASSUME IInv, NEW t \in Threads, TryProfiling(t)
    PROVE  IInv'
  <1> DEFINE f == frame[t]
             K == Known(frame)
  <1>1. pc[t] = "profile" /\ UNCHANGED <<env, enabled, asked, selectors, cache>> /\ CacheOK(env, K, cache')
    BY DEF TryProfiling, IInv
  <1>2. f.call # None /\ ThreadOK(env, K, "profile", f) /\ IsFrame(f)
    BY <1>1, BusyHasCall
  <1>3. CASE pc' = [pc EXCEPT ![t] = "provide"] /\ UNCHANGED frame
    <2>1. frame' = [frame EXCEPT ![t] = f]
      BY <1>3 DEF IInv
    <2>2. ThreadOK(env, K, "provide", f) /\ Holding(selectors, "provide", f)
      BY <1>2 DEF ThreadOK, Labels, Querying, Visiting, Holding
    <2> QED BY <1>1, <1>2, <1>3, <2>1, <2>2, ThreadMoves
  <1>4. CASE /\ Model(t) = "shave"
             /\ frame' = [frame EXCEPT ![t].cycles = ServiceCost(Request(t).wl)]
             /\ pc' = [pc EXCEPT ![t] = "add"]
    <2> DEFINE c == ServiceCost(Kern(f))
               g == [f EXCEPT !.cycles = c]
    <2>1. f.stage = "kernels" /\ frame' = [frame EXCEPT ![t] = g]
      BY <1>4 DEF Model, Request, Kern
    <2>2. f.todo # <<>> /\ env # "ForcedOff"
      BY <1>2, <2>1 DEF ThreadOK
    <2>3. c \in Warm(env, K, Kern(f))
      BY <2>1, <2>2, InHand, AnswersAreWarm
    <2>4. IsFrame(g) /\ g.cycles = c /\ \A k \in Fields \ {"cycles", "held"} : g[k] = f[k]
      <3>1. "cycles" \in Fields
        BY DEF Fields
      <3> HIDE DEF f, c
      <3> QED BY <1>2, <3>1, FrameSet
    <2> HIDE DEF g, c
    <2>5. ThreadOK(env, K, "add", g) /\ Holding(selectors, "add", g) /\ g.call = f.call
      BY <1>1, <2>1, <2>3, <2>4, CostFound
    <2> QED BY <1>1, <1>2, <1>4, <2>1, <2>5, ThreadMoves
  <1>5. CASE Model(t) = "dma" /\ Received(t, ServiceCost(Request(t).wl))
    <2>1. f.stage = "transfers"
      BY <1>2, <1>5 DEF Model, ThreadOK
    <2> QED BY <1>1, <1>5, <2>1, TransferReceived
  <1> QED BY <1>3, <1>4, <1>5 DEF TryProfiling, Goto

(* What a thread in search of a kernel's cost has in hand. *)
LEMMA Searching ==
    ASSUME IInv, NEW t \in Threads, pc[t] \in {"provide", "create", "use"}, frame[t].stage = "kernels"
    PROVE  /\ frame[t].call # None /\ IsFrame(frame[t])
           /\ Kern(frame[t]) \in Known(frame) /\ IsKernel(Kern(frame[t]))
           /\ Visiting(Kern(frame[t]), frame[t].visit)
  BY BusyHasCall, InHand DEF ThreadOK

LEMMA FindSelectorKeeps ==
    ASSUME IInv, NEW t \in Threads, FindSelector(t)
    PROVE  IInv'
  <1> DEFINE f == frame[t]
             K == Known(frame)
             w == Kern(f)
  <1>1. /\ pc[t] = "provide" /\ f.stage = "kernels" /\ Request(t).wl = w /\ Place(t) = PlaceOf(f)
        /\ UNCHANGED <<env, enabled, asked, selectors, cache>>
    BY DEF FindSelector, Model, Request, Kern, Place, PlaceOf
  <1>2. /\ f.call # None /\ IsFrame(f) /\ w \in K /\ IsKernel(w) /\ Visiting(w, f.visit)
        /\ ThreadOK(env, K, "provide", f) /\ CacheOK(env, K, cache')
    BY <1>1, Searching DEF IInv
  <1>3. CASE f.visit > Len(Visits(w))
    <2> DEFINE c == ERROR_SHAVE_OPERATOR_MISSING
               g == [f EXCEPT !.cycles = c]
    <2>1. frame' = [frame EXCEPT ![t] = g] /\ pc' = [pc EXCEPT ![t] = "add"]
      BY <1>1, <1>3 DEF FindSelector, Goto
    <2>2. c \in Warm(env, K, w)
      BY <1>2, <1>3, VisitsComeToProvider, AnswersAreWarm
    <2>3. IsFrame(g) /\ g.cycles = c /\ \A k \in Fields \ {"cycles", "held"} : g[k] = f[k]
      <3>1. "cycles" \in Fields
        BY DEF Fields
      <3> HIDE DEF f, c
      <3> QED BY <1>2, <3>1, FrameSet
    <2> HIDE DEF g, c
    <2>4. ThreadOK(env, K, "add", g) /\ Holding(selectors, "add", g) /\ g.call = f.call
      BY <1>1, <2>2, <2>3, CostFound
    <2> QED BY <1>1, <1>2, <2>1, <2>4, ThreadMoves
  <1>4. CASE ~(f.visit > Len(Visits(w))) /\ selectors[PlaceOf(f)] > 0
    <2> DEFINE g == [f EXCEPT !.held = selectors[PlaceOf(f)]]
    <2>1. frame' = [frame EXCEPT ![t] = g] /\ pc' = [pc EXCEPT ![t] = "use"]
      BY <1>1, <1>4 DEF FindSelector, Goto
    <2>2. IsFrame(g) /\ g.held = selectors[PlaceOf(f)] /\ \A k \in Fields \ {"held"} : g[k] = f[k]
      <3>1. "held" \in Fields
        BY DEF Fields
      <3> HIDE DEF f
      <3> QED BY <1>2, <3>1, FrameSet
    <2> HIDE DEF g
    <2>3. ThreadOK(env, K, "use", g) /\ PlaceOf(g) = PlaceOf(f) /\ g.call = f.call
      <3>1. /\ g.call = f.call /\ g.todo = f.todo /\ g.got = f.got /\ g.stage = f.stage /\ g.visit = f.visit
            /\ g.answer = f.answer /\ Kern(g) = w
        BY <2>2 DEF Fields, Kern
      <3>2. f.visit <= Len(Visits(w))
        <4>1. f.visit \in Nat /\ Len(Visits(w)) \in Nat
          BY <1>2 DEF Visiting, Visits
        <4> QED BY <1>4, <4>1
      <3> HIDE DEF f, w, K
      <3>3. g.call.api = "shave" => Querying(env, K, "use", g)
        BY <1>2, <3>1 DEF ThreadOK, Querying
      <3>4. f.stage = "kernels"
        BY <1>1
      <3> QED BY <1>2, <2>2, <3>1, <3>2, <3>3, <3>4 DEF ThreadOK, Labels, PlaceOf, w
    <2>4. Holding(selectors, "use", g)
      BY <1>4, <2>2, <2>3 DEF Holding
    <2> QED BY <1>1, <1>2, <2>1, <2>3, <2>4, ThreadMoves
  <1>5. CASE ~(f.visit > Len(Visits(w))) /\ ~(selectors[PlaceOf(f)] > 0)
    <2>1. pc' = [pc EXCEPT ![t] = "create"] /\ UNCHANGED frame
      BY <1>1, <1>5 DEF FindSelector, Goto
    <2>2. frame' = [frame EXCEPT ![t] = f]
      BY <2>1 DEF IInv
    <2>3. f.visit <= Len(Visits(w))
      <3>1. f.visit \in Nat /\ Len(Visits(w)) \in Nat
        BY <1>2 DEF Visiting, Visits
      <3> QED BY <1>5, <3>1
    <2>4. ThreadOK(env, K, "create", f) /\ Holding(selectors, "create", f)
      BY <1>1, <1>2, <2>3 DEF ThreadOK, Labels, Querying, Holding
    <2> QED BY <1>1, <1>2, <2>1, <2>2, <2>4, ThreadMoves
  <1> QED BY <1>3, <1>4, <1>5

(* The second look under the exclusive lock: a selector that another       *)
(* thread made meanwhile is kept.                                          *)
LEMMA CreateSelectorKeeps ==
    ASSUME IInv, NEW t \in Threads, CreateSelector(t)
    PROVE  IInv'
  <1> DEFINE f == frame[t]
             K == Known(frame)
             g == [f EXCEPT !.held = Made(t)]
  <1>1. /\ pc[t] = "create" /\ Place(t) = PlaceOf(f)
        /\ UNCHANGED <<env, enabled, asked, cache>>
        /\ selectors' = [selectors EXCEPT ![PlaceOf(f)] = Made(t)]
        /\ frame' = [frame EXCEPT ![t] = g] /\ pc' = [pc EXCEPT ![t] = "use"]
    BY DEF CreateSelector, Goto, Request, Kern, Place, PlaceOf
  <1>2. f.stage = "kernels"
    BY <1>1, BusyHasCall DEF ThreadOK
  <1>3. /\ f.call # None /\ IsFrame(f) /\ ThreadOK(env, K, "create", f) /\ CacheOK(env, K, cache')
    BY <1>1, <1>2, Searching DEF IInv
  <1>4. PlaceOf(f) \in Owners \X Devices
    BY <1>1, UsedPlaces
  <1>5. /\ Made(t) \in Nat \ {0}
        /\ selectors[PlaceOf(f)] # 0 => Made(t) = selectors[PlaceOf(f)]
    BY <1>1, <1>4 DEF Made, IInv
  <1>6. /\ selectors' \in [Owners \X Devices -> Nat] /\ selectors'[PlaceOf(f)] = Made(t)
        /\ \A place \in Owners \X Devices : selectors[place] # 0 => selectors'[place] = selectors[place]
    BY <1>1, <1>4, <1>5 DEF IInv
  <1>7. IsFrame(g) /\ g.held = Made(t) /\ \A k \in Fields \ {"held"} : g[k] = f[k]
    <2>1. "held" \in Fields
      BY DEF Fields
    <2> HIDE DEF f
    <2> QED BY <1>3, <2>1, FrameSet
  <1> HIDE DEF g
  <1>8. ThreadOK(env, K, "use", g) /\ PlaceOf(g) = PlaceOf(f) /\ g.call = f.call
    <2>1. /\ g.call = f.call /\ g.todo = f.todo /\ g.got = f.got /\ g.stage = f.stage /\ g.visit = f.visit
          /\ g.answer = f.answer /\ Kern(g) = Kern(f)
      BY <1>7 DEF Fields, Kern
    <2> HIDE DEF f, K
    <2>2. g.call.api = "shave" => Querying(env, K, "use", g)
      BY <1>3, <2>1 DEF ThreadOK, Querying
    <2> QED BY <1>2, <1>3, <1>7, <2>1, <2>2 DEF ThreadOK, Labels, PlaceOf
  <1>9. Holding(selectors', "use", g)
    BY <1>5, <1>6, <1>7, <1>8 DEF Holding
  <1>10. \A u \in Threads \ {t} : pc[u] = "use" => PlaceOf(frame[u]) \in Owners \X Devices
    BY UsedPlaces
  <1> QED BY <1>1, <1>3, <1>6, <1>8, <1>9, <1>10, ThreadSteps

LEMMA UseSelectorKeeps ==
    ASSUME IInv, NEW t \in Threads, UseSelector(t)
    PROVE  IInv'
  <1> DEFINE f == frame[t]
             K == Known(frame)
             w == Kern(f)
             c == KernelCost(Visits(w)[f.visit], w)
  <1>1. /\ pc[t] = "use" /\ Request(t).wl = w
        /\ UNCHANGED <<env, enabled, asked, selectors, cache>>
    BY DEF UseSelector, Request, Kern
  <1>2. f.stage = "kernels" /\ ThreadOK(env, K, "use", f)
    BY <1>1, BusyHasCall DEF ThreadOK
  <1>3. /\ f.call # None /\ IsFrame(f) /\ w \in K /\ IsKernel(w) /\ Visiting(w, f.visit)
        /\ CacheOK(env, K, cache')
    BY <1>1, <1>2, Searching DEF IInv
  <1>4. f.visit \in 1..Len(Visits(w))
    BY <1>1, UsedPlaces
  <1>5. CASE isErrorCode(c) /\ w.device \in LegacyDevices
    <2> DEFINE g == [f EXCEPT !.visit = f.visit + 1, !.held = 0]
    <2>1. frame' = [frame EXCEPT ![t] = g] /\ pc' = [pc EXCEPT ![t] = "provide"]
      BY <1>1, <1>5 DEF UseSelector, Goto
    <2>2. /\ IsFrame(g) /\ g.visit = f.visit + 1 /\ g.call = f.call /\ g.todo = f.todo /\ g.got = f.got
          /\ g.stage = f.stage /\ g.answer = f.answer
      <3>1. g = [f EXCEPT !.visit = f.visit + 1, !.held = 0]
        OBVIOUS
      <3> HIDE DEF f, g
      <3> QED BY <1>3, <3>1 DEF IsFrame, Fields
    <2>3. Kern(g) = w
      BY <2>2 DEF Kern
    <2>4. Visiting(w, f.visit + 1)
      <3> HIDE DEF f, w
      <3>1. \A k \in 1..((f.visit + 1) - 1) : k \in 1..(f.visit - 1) \/ k = f.visit
        BY <1>4
      <3> QED BY <1>3, <1>4, <1>5, <3>1 DEF Visiting, c
    <2> HIDE DEF g, f, w, K, c
    <2>5. g.call.api = "shave" => Querying(env, K, "provide", g)
      BY <1>2, <2>2 DEF ThreadOK, Querying
    <2>6. ThreadOK(env, K, "provide", g) /\ Holding(selectors, "provide", g)
      BY <1>2, <1>3, <2>2, <2>3, <2>4, <2>5 DEF ThreadOK, Labels, Holding
    <2> QED BY <1>1, <1>3, <2>1, <2>2, <2>6, ThreadMoves DEF f, K
  <1>6. CASE ~(isErrorCode(c) /\ w.device \in LegacyDevices)
    <2> DEFINE g == [f EXCEPT !.cycles = c, !.held = 0]
    <2>1. frame' = [frame EXCEPT ![t] = g] /\ pc' = [pc EXCEPT ![t] = "add"]
      BY <1>1, <1>6 DEF UseSelector, Goto
    <2>2. c \in Warm(env, K, w)
      <3>1. createDeviceMappedProvider(w) = c
        BY <1>3, <1>4, <1>6, VisitsComeToProvider
      <3> HIDE DEF c
      <3> QED BY <1>3, <3>1, AnswersAreWarm
    <2>3. IsFrame(g) /\ g.cycles = c /\ \A k \in Fields \ {"cycles", "held"} : g[k] = f[k]
      <3>1. g = [f EXCEPT !.cycles = c, !.held = 0]
        OBVIOUS
      <3> HIDE DEF f, c, g
      <3> QED BY <1>3, <3>1 DEF IsFrame, Fields
    <2> HIDE DEF g, c
    <2>4. ThreadOK(env, K, "add", g) /\ Holding(selectors, "add", g) /\ g.call = f.call
      BY <1>1, <1>2, <2>2, <2>3, CostFound
    <2> QED BY <1>1, <1>3, <2>1, <2>4, ThreadMoves
  <1> QED BY <1>5, <1>6

LEMMA AddToCacheKeeps ==
    ASSUME IInv, NEW t \in Threads, AddToCache(t)
    PROVE  IInv'
  <1> DEFINE f == frame[t]
             K == Known(frame)
             w == Kern(f)
             c == ColdCost(w, f.cycles)
             g == [f EXCEPT !.todo = Tail(f.todo), !.got = Append(f.got, c), !.visit = 1, !.held = 0]
             s == cache["shave"]
  <1>1. /\ pc[t] = "add" /\ Request(t).wl = w
        /\ UNCHANGED <<env, enabled, asked, selectors>>
        /\ frame' = [frame EXCEPT ![t] = g] /\ pc' = [pc EXCEPT ![t] = "work"]
        /\ \/ cache' = [cache EXCEPT !["shave"] = Added(s, ShaveKey(w), f.cycles)]
           \/ cache' = [cache EXCEPT !["shave"] = s]
    BY DEF AddToCache, Request, Kern, Received, Goto, CostToCache
  <1>2. ThreadOK(env, K, "add", f) /\ f.call # None /\ IsFrame(f) /\ f.stage = "kernels" /\ f.todo # <<>>
    BY <1>1, BusyHasCall DEF ThreadOK
  <1>3. /\ w \in K /\ f.cycles \in Warm(env, K, w)
        /\ Tail(f.todo) \in Seq({Kernel(v) : v \in KernelsIn(f.call)})
    BY <1>2, InHand DEF ThreadOK
  <1>4. CacheOK(env, K, cache')
    <2>1. s \in Seq(Entries(env, K)) /\ cache = [m \in Models |-> cache[m]]
      BY DEF IInv, CacheOK
    <2>2. Added(s, ShaveKey(w), f.cycles) \in Seq(Entries(env, K))
      BY <1>3, <2>1, AnswersAreWarm, AddedKeeps
    <2> QED BY <1>1, <2>1, <2>2 DEF CacheOK, Models
  <1>5. /\ IsFrame(g) /\ g.visit = 1 /\ g.call = f.call /\ g.stage = f.stage /\ g.answer = f.answer
        /\ g.todo = Tail(f.todo) /\ g.got = Append(f.got, c)
    <2>1. g = [f EXCEPT !.todo = Tail(f.todo), !.got = Append(f.got, c), !.visit = 1, !.held = 0]
      OBVIOUS
    <2> HIDE DEF f, g, c
    <2> QED BY <1>2, <2>1 DEF IsFrame, Fields
  <1> HIDE DEF g
  <1>6. f.call.api = "shave" => Querying(env, K, "work", g)
    <2> SUFFICES ASSUME f.call.api = "shave" PROVE Querying(env, K, "work", g)
      OBVIOUS
    <2>1. f.todo = <<Kernel(f.call.wl)>> /\ f.got = <<>> /\ f.answer = NoAnswer
      BY <1>2 DEF ThreadOK, Querying
    <2>2. w = f.call.wl
      BY <2>1 DEF Kern, Kernel
    <2>3. g.todo = <<>> /\ g.got = <<c>>
      BY <1>5, <2>1
    <2> QED BY <1>2, <1>3, <1>5, <2>1, <2>2, <2>3 DEF Querying
  <1>7. ThreadOK(env, K, "work", g) /\ Holding(selectors, "work", g)
    BY <1>2, <1>3, <1>5, <1>6 DEF ThreadOK, Labels, Holding
  <1> QED BY <1>1, <1>2, <1>4, <1>5, <1>7, ThreadMoves

(* The transfers leave the cache of the SHAVE model alone. *)
LEMMA OtherCacheKeeps ==
    ASSUME IInv, NEW x, cache' = [cache EXCEPT !["dma"] = x]
    PROVE  CacheOK(env, Known(frame), cache')
  BY DEF IInv, CacheOK, Models

LEMMA DmaTryCacheKeeps ==
    ASSUME IInv, NEW t \in Threads, DmaTryCache(t)
    PROVE  IInv'
  <1> DEFINE f == frame[t]
             K == Known(frame)
             wl == Request(t).wl
             s == cache["dma"]
  <1>1. /\ pc[t] = "work" /\ Model(t) = "dma" /\ UNCHANGED <<env, enabled, asked, selectors>>
        /\ \/ UNCHANGED cache /\ \E c : Received(t, c)
           \/ UNCHANGED <<cache, frame>> /\ pc' = [pc EXCEPT ![t] = "gate"]
           \/ \E i : cache' = [cache EXCEPT !["dma"] = ToFront(@, i)] /\ Received(t, cache["dma"][i].value)
    BY DEF DmaTryCache, Goto
  <1>2. f.call # None /\ ThreadOK(env, K, "work", f) /\ f.stage = "transfers"
    BY <1>1, BusyHasCall DEF Model, ThreadOK
  <1>3. CacheOK(env, K, cache)
    BY DEF IInv
  <1>4. CASE UNCHANGED cache /\ \E c : Received(t, c)
    BY <1>1, <1>2, <1>3, <1>4, TransferReceived
  <1>5. CASE UNCHANGED <<cache, frame>> /\ pc' = [pc EXCEPT ![t] = "gate"]
    <2>1. frame' = [frame EXCEPT ![t] = f]
      BY <1>5 DEF IInv
    <2>2. ThreadOK(env, K, "gate", f) /\ Holding(selectors, "gate", f)
      BY <1>2 DEF ThreadOK, Labels, Querying, Holding
    <2> QED BY <1>1, <1>2, <1>3, <1>5, <2>1, <2>2, ThreadMoves
  <1>6. CASE \E i : cache' = [cache EXCEPT !["dma"] = ToFront(@, i)] /\ Received(t, cache["dma"][i].value)
    <2>1. CacheOK(env, K, cache')
      BY <1>6, OtherCacheKeeps
    <2> QED BY <1>1, <1>2, <1>6, <2>1, TransferReceived
  <1> QED BY <1>1, <1>4, <1>5, <1>6

LEMMA TryPriorityProviderKeeps ==
    ASSUME IInv, NEW t \in Threads, TryPriorityProvider(t)
    PROVE  IInv'
  <1>1. PICK c : /\ \E x : cache' = [cache EXCEPT !["dma"] = x]
                 /\ Received(t, c)
    BY DEF TryPriorityProvider
  <1>2. pc[t] = "provide" /\ Model(t) = "dma" /\ UNCHANGED <<env, enabled, asked, selectors>>
    BY DEF TryPriorityProvider
  <1>3. frame[t].stage = "transfers"
    BY <1>2, BusyHasCall DEF Model, ThreadOK
  <1>4. CacheOK(env, Known(frame), cache')
    BY <1>1, OtherCacheKeeps
  <1> QED BY <1>1, <1>2, <1>3, <1>4, TransferReceived

(* The answer of a call; that of a SHAVE query is the answer of its only   *)
(* request.                                                                *)
LEMMA ReturnsKeeps ==
    ASSUME IInv, NEW t \in Threads, pc[t] = "work", NEW c, Returns(t, c),
           frame[t].call.api = "shave" => frame[t].todo = <<>> /\ c = frame[t].got[1],
           UNCHANGED <<env, enabled, asked, selectors, cache>>
    PROVE  IInv'
  <1> DEFINE f == frame[t]
             K == Known(frame)
             g == [f EXCEPT !.answer = c]
  <1>1. frame' = [frame EXCEPT ![t] = g] /\ pc' = [pc EXCEPT ![t] = "idle"]
    BY DEF Returns, Goto
  <1>2. f.call # None /\ ThreadOK(env, K, "work", f) /\ IsFrame(f) /\ CacheOK(env, K, cache')
    BY BusyHasCall DEF IInv
  <1>3. IsFrame(g) /\ g.answer = c /\ \A k \in Fields \ {"answer"} : g[k] = f[k]
    <2>1. "answer" \in Fields
      BY DEF Fields
    <2> HIDE DEF f
    <2> QED BY <1>2, <2>1, FrameSet
  <1> HIDE DEF g
  <1>4. g.call = f.call /\ g.todo = f.todo /\ g.got = f.got /\ g.stage = f.stage /\ g.visit = f.visit
    BY <1>3 DEF Fields
  <1>5. g.call.api = "shave" => Querying(env, K, "idle", g)
    BY <1>2, <1>3, <1>4 DEF ThreadOK, Querying
  <1>6. ThreadOK(env, K, "idle", g) /\ Holding(selectors, "idle", g)
    BY <1>2, <1>3, <1>4, <1>5 DEF ThreadOK, Labels, Holding
  <1> QED BY <1>1, <1>2, <1>4, <1>6, ThreadMoves

LEMMA MovesOnKeeps ==
    ASSUME IInv, NEW t \in Threads, pc[t] = "work", NEW c, MovesOn(t, c), frame[t].call.api # "shave",
           UNCHANGED <<env, enabled, asked, selectors, cache>>
    PROVE  IInv'
  <1> DEFINE f == frame[t]
             K == Known(frame)
             g == [f EXCEPT !.cost = c, !.stage = "transfers", !.todo = Transfers(f.call)]
  <1>1. frame' = [frame EXCEPT ![t] = g] /\ pc' = [pc EXCEPT ![t] = "work"]
    BY DEF MovesOn, IInv
  <1>2. f.call # None /\ ThreadOK(env, K, "work", f) /\ IsFrame(f) /\ CacheOK(env, K, cache')
    BY BusyHasCall DEF IInv
  <1>3. IsFrame(g) /\ g.stage = "transfers" /\ g.call = f.call /\ g.visit = f.visit
    <2> DEFINE d == Transfers(f.call)
    <2>1. g = [f EXCEPT !.cost = c, !.stage = "transfers", !.todo = d]
      OBVIOUS
    <2> HIDE DEF f, g, d
    <2> QED BY <1>2, <2>1 DEF IsFrame, Fields
  <1> HIDE DEF g
  <1>4. ThreadOK(env, K, "work", g) /\ Holding(selectors, "work", g)
    BY <1>2, <1>3 DEF ThreadOK, Labels, Holding
  <1> QED BY <1>1, <1>2, <1>3, <1>4, ThreadMoves

LEMMA KernelsDoneKeeps ==
    ASSUME IInv, NEW t \in Threads, KernelsDone(t)
    PROVE  IInv'
  <1> DEFINE f == frame[t]
  <1>1. pc[t] = "work" /\ f.todo = <<>> /\ UNCHANGED <<env, enabled, asked, selectors, cache>>
    BY DEF KernelsDone
  <1>2. CASE f.call.api = "shave" /\ Returns(t, f.got[1])
    BY <1>1, <1>2, ReturnsKeeps
  <1>3. CASE f.call.api # "shave" /\ \E c : Returns(t, c)
    BY <1>1, <1>3, ReturnsKeeps
  <1>4. CASE f.call.api # "shave" /\ \E c : MovesOn(t, c)
    BY <1>1, <1>4, MovesOnKeeps
  <1>5. \/ f.call.api = "shave" /\ Returns(t, f.got[1])
        \/ f.call.api # "shave" /\ \E c : Returns(t, c)
        \/ f.call.api # "shave" /\ \E c : MovesOn(t, c)
    BY DEF KernelsDone
  <1> QED BY <1>2, <1>3, <1>4, <1>5

LEMMA TransfersDoneKeeps ==
    ASSUME IInv, NEW t \in Threads, TransfersDone(t)
    PROVE  IInv'
  <1>1. /\ pc[t] = "work" /\ frame[t].stage = "transfers" /\ (\E c : Returns(t, c))
        /\ UNCHANGED <<env, enabled, asked, selectors, cache>>
    BY DEF TransfersDone
  <1>2. frame[t].call.api # "shave"
    BY <1>1, BusyHasCall DEF ThreadOK, Querying
  <1> QED BY <1>1, <1>2, ReturnsKeeps

LEMMA IInvNext == IInv /\ [Next]_vars => IInv'
  <1> SUFFICES ASSUME IInv, [Next]_vars PROVE IInv'
    OBVIOUS
  <1>1. ASSUME NEW t \in Threads, Step(t) PROVE IInv'
    <2>1. CASE Ask(t) \/ AskAlone(t)
      BY <2>1, AskKeeps
    <2>2. CASE TryCache(t)
      BY <2>2, TryCacheKeeps
    <2>3. CASE CheckGate(t)
      <3>1. frame[t].call # None
        BY <2>3, BusyHasCall DEF CheckGate
      <3> QED BY <2>3, <3>1, CheckGateKeeps
    <2>4. CASE TryProfiling(t)
      BY <2>4, TryProfilingKeeps
    <2>5. CASE FindSelector(t)
      BY <2>5, FindSelectorKeeps
    <2>6. CASE CreateSelector(t)
      BY <2>6, CreateSelectorKeeps
    <2>7. CASE UseSelector(t)
      BY <2>7, UseSelectorKeeps
    <2>8. CASE AddToCache(t)
      BY <2>8, AddToCacheKeeps
    <2>9. CASE DmaTryCache(t)
      BY <2>9, DmaTryCacheKeeps
    <2>10. CASE TryPriorityProvider(t)
      BY <2>10, TryPriorityProviderKeeps
    <2>11. CASE KernelsDone(t)
      BY <2>11, KernelsDoneKeeps
    <2>12. CASE TransfersDone(t)
      BY <2>12, TransfersDoneKeeps
    <2> QED BY <1>1, <2>1, <2>2, <2>3, <2>4, <2>5, <2>6, <2>7, <2>8, <2>9, <2>10, <2>11, <2>12 DEF Step
  <1>2. ASSUME NEW m \in Models, NEW value \in BOOLEAN, setProfilingEnabledForAutoHint(m, value) PROVE IInv'
    BY <1>2, SwitchKeeps
  <1>3. CASE UNCHANGED vars
    BY <1>3 DEF vars, IInv, GatesOK
  <1> QED BY <1>1, <1>2, <1>3 DEF Next

(* The inductive invariant holds in every behaviour of the queries.        *)
THEOREM Invariance == Spec => []IInv
  BY IInvInit, IInvNext, PTL DEF Spec

(* A selector that getOrCreate handed out is the one in the map for as     *)
(* long as it is used without a lock (shave_devices.h), whatever the       *)
(* number of threads that make one at the same time.                       *)
THEOREM SelectorsOutliveUse == Spec => []SelectorsStayAlive
  <1>1. IInv => SelectorsStayAlive
    BY DEF IInv, Holding, SelectorsStayAlive, Place, PlaceOf, Request, Kern
  <1> QED BY <1>1, Invariance, PTL

-----------------------------------------------------------------------------
(* The tables of kernels. *)

(* The natural numbers are well ordered. *)
LEMMA MinOfNaturals ==
    ASSUME NEW S \in SUBSET Nat, S # {}
    PROVE  Min(S) \in S /\ \A y \in S : Min(S) <= y
  <1> DEFINE R == {p \in Nat \X Nat : p[1] < p[2]}
  <1>1. R = OpToRel(<, Nat)
    BY Zenon DEF OpToRel
  <1>2. IsWellFoundedOn(R, Nat)
    BY <1>1, NatLessThanWellFounded, Zenon
  <1>3. \E x \in S : \A y \in S : ~(<<y, x>> \in R)
    <2> HIDE DEF R
    <2> QED BY <1>2, WFMin
  <1>4. \E x \in S : \A y \in S : x <= y
    <2>1. PICK x \in S : \A y \in S : ~(<<y, x>> \in R)
      BY <1>3
    <2>2. \A y \in S : ~(y < x)
      BY <2>1
    <2> QED BY <2>2
  <1> QED BY <1>4 DEF Min

(* What is found in a container was registered by one of its entries, and  *)
(* what an entry registers is found.                                       *)
LEMMA ContainerEntries ==
    ASSUME NEW n \in Nat, NEW rows, DOMAIN rows = 1..n
    PROVE  /\ \A i \in 1..n : DOMAIN rows[i] \subseteq DOMAIN Container(rows)
           /\ \A name \in DOMAIN Container(rows) :
                 \E i \in 1..n : name \in DOMAIN rows[i] /\ Container(rows)[name] = rows[i][name]
  <1>1. DOMAIN Container(rows) = UNION {DOMAIN rows[i] : i \in 1..n}
    BY DEF Container
  <1>2. ASSUME NEW name \in DOMAIN Container(rows)
        PROVE  \E i \in 1..n : name \in DOMAIN rows[i] /\ Container(rows)[name] = rows[i][name]
    <2> DEFINE S == {i \in 1..n : name \in DOMAIN rows[i]}
    <2>1. S \in SUBSET Nat /\ S # {}
      BY <1>1, <1>2
    <2>2. Min(S) \in S
      <3> HIDE DEF S
      <3> QED BY <2>1, MinOfNaturals
    <2>3. Container(rows)[name] = rows[Min(S)][name]
      BY <1>1, <1>2 DEF Container
    <2> QED BY <2>2, <2>3
  <1> QED BY <1>1, <1>2

(* A row of a table of kernels of some kinds. *)
IsRow(row, kinds) ==
    \E name, freqs, params, m : \E kind \in kinds : row = Add(name, kind, freqs, params, m)

IsMeasured(e, kinds) == \E freqs, params, m : \E kind \in kinds : e = Measured(kind, freqs, params, m)

(* Of rows of some kinds a table of such executors is made. *)
LEMMA TableOfRows ==
    ASSUME NEW n \in Nat, NEW rows, DOMAIN rows = 1..n, NEW kinds, \A i \in 1..n : IsRow(rows[i], kinds)
    PROVE  \A name \in DOMAIN Container(rows) : IsMeasured(Container(rows)[name], kinds)
  <1> SUFFICES ASSUME NEW name \in DOMAIN Container(rows)
               PROVE  IsMeasured(Container(rows)[name], kinds)
    OBVIOUS
  <1>1. PICK i \in 1..n : name \in DOMAIN rows[i] /\ Container(rows)[name] = rows[i][name]
    BY ContainerEntries
  <1>2. PICK other, freqs, params, m : \E kind \in kinds : rows[i] = Add(other, kind, freqs, params, m)
    BY DEF IsRow
  <1>3. PICK kind \in kinds : rows[i] = Add(other, kind, freqs, params, m)
    BY <1>2
  <1>4. rows[i][name] = Measured(kind, freqs, params, m)
    BY <1>1, <1>3 DEF Add
  <1> QED BY <1>1, <1>3, <1>4 DEF IsMeasured

(* The legacy kernels are all linear ones, and those that the bundle of    *)
(* NPU 5.0 overrides with are among them.                                  *)
LEMMA ClassicTable ==
    /\ \A name \in DOMAIN ShaveInstanceHolder_VPU27CLassic :
          IsMeasured(ShaveInstanceHolder_VPU27CLassic[name], {"classic"})
    /\ {"DepthToSpace", "MVN", "Softmax", "Gelu", "Multiply", "Cos", "Sin"}
          \subseteq DOMAIN ShaveInstanceHolder_VPU27CLassic
  <1>1. DOMAIN ClassicRows = 1..12 /\ 12 \in Nat
    BY DEF ClassicRows
  <1>2. \A name, efficiency, latency : IsRow(ClassicRow(name, efficiency, latency), {"classic"})
    BY DEF ClassicRow, IsRow
  <1>3. \A i \in 1..12 : IsRow(ClassicRows[i], {"classic"})
    <2> SUFFICES ASSUME NEW i \in 1..12 PROVE IsRow(ClassicRows[i], {"classic"})
      OBVIOUS
    <2>1. \E name, efficiency, latency : ClassicRows[i] = ClassicRow(name, efficiency, latency)
      BY DEF ClassicRows
    <2> QED BY <1>2, <2>1
  <1>4. \A name \in {"DepthToSpace", "MVN", "Softmax", "Gelu", "Multiply", "Cos", "Sin"} :
           \E i \in 1..12 : name \in DOMAIN ClassicRows[i]
    <2>1. /\ DOMAIN ClassicRows[3] = {"Softmax"} /\ DOMAIN ClassicRows[5] = {"Sin"}
          /\ DOMAIN ClassicRows[6] = {"Cos"} /\ DOMAIN ClassicRows[7] = {"Gelu"}
          /\ DOMAIN ClassicRows[8] = {"MVN"} /\ DOMAIN ClassicRows[10] = {"Multiply"}
          /\ DOMAIN ClassicRows[11] = {"DepthToSpace"}
      <3>1. /\ ClassicRows[3] = ClassicRow("Softmax", 836, 10043) /\ ClassicRows[5] = ClassicRow("Sin", 17, 5192)
            /\ ClassicRows[6] = ClassicRow("Cos", 1000, 0) /\ ClassicRows[7] = ClassicRow("Gelu", 1000, 0)
            /\ ClassicRows[8] = ClassicRow("MVN", 830, 2810) /\ ClassicRows[10] = ClassicRow("Multiply", 1000, 0)
            /\ ClassicRows[11] = ClassicRow("DepthToSpace", 1000, 0)
        BY DEF ClassicRows
      <3>2. /\ DOMAIN ClassicRow("Softmax", 836, 10043) = {"Softmax"} /\ DOMAIN ClassicRow("Sin", 17, 5192) = {"Sin"}
            /\ DOMAIN ClassicRow("Cos", 1000, 0) = {"Cos"} /\ DOMAIN ClassicRow("Gelu", 1000, 0) = {"Gelu"}
            /\ DOMAIN ClassicRow("MVN", 830, 2810) = {"MVN"}
            /\ DOMAIN ClassicRow("Multiply", 1000, 0) = {"Multiply"}
            /\ DOMAIN ClassicRow("DepthToSpace", 1000, 0) = {"DepthToSpace"}
        BY DEF ClassicRow, Add
      <3> QED BY <3>1, <3>2
    <2> QED BY <2>1
  <1>5. \A name \in DOMAIN Container(ClassicRows) : IsMeasured(Container(ClassicRows)[name], {"classic"})
    BY <1>1, <1>3, TableOfRows, Zenon
  <1>6. \A i \in 1..12 : DOMAIN ClassicRows[i] \subseteq DOMAIN Container(ClassicRows)
    BY <1>1, ContainerEntries, Zenon
  <1> QED BY <1>4, <1>5, <1>6 DEF ShaveInstanceHolder_VPU27CLassic

(* The heuristic table has the two heuristic kinds. *)
LEMMA HeuristicTable ==
    \A name \in DOMAIN ShaveInstanceHolder_HeuristicNPU50 :
       IsMeasured(ShaveInstanceHolder_HeuristicNPU50[name], {"simple", "roofline"})
  <1>1. DOMAIN HeuristicRows = 1..13 /\ 13 \in Nat
    BY DEF HeuristicRows
  <1>2. \A name, a, b, c, d : \A kind \in {"simple", "roofline"} :
           IsRow(HeuristicRow(name, kind, a, b, c, d), {"simple", "roofline"})
    BY DEF HeuristicRow, IsRow
  <1>3. \A i \in 1..13 : IsRow(HeuristicRows[i], {"simple", "roofline"})
    <2> SUFFICES ASSUME NEW i \in 1..13 PROVE IsRow(HeuristicRows[i], {"simple", "roofline"})
      OBVIOUS
    <2>1. \E name, a, b, c, d : \E kind \in {"simple", "roofline"} :
             HeuristicRows[i] = HeuristicRow(name, kind, a, b, c, d)
      BY DEF HeuristicRows
    <2> QED BY <1>2, <2>1
  <1>4. \A name \in DOMAIN Container(HeuristicRows) :
           IsMeasured(Container(HeuristicRows)[name], {"simple", "roofline"})
    BY <1>1, <1>3, TableOfRows, Zenon
  <1> QED BY <1>4 DEF ShaveInstanceHolder_HeuristicNPU50

(* The selectors of the devices that have providers. *)
LEMMA Selectors ==
    ASSUME NEW device \in LegacyDevices \cup NewDevices
    PROVE  /\ Selector("old", device) = ShaveInstanceHolder_VPU27CLassic
           /\ device = "NPU_5_0" =>
                 Selector("heuristic_factors", device) =
                    ShaveInstanceHolderWithFactors(PopulatedFactorsLUT_Heuristic,
                                                   ShaveInstanceHolder_HeuristicNPU50, device)
           /\ device # "NPU_5_0" => Selector("heuristic_factors", device) = ShaveInstanceHolder_VPU27CLassic
  <1>1. device \in {"VPU_2_0", "VPU_2_1", "VPU_2_7", "VPU_4_0", "NPU_5_0", "NPU_5_0_W"}
    BY DEF LegacyDevices, NewDevices
  <1>2. Selector("old", device) = ShaveInstanceHolder_VPU27CLassic
    BY <1>1 DEF Selector, createOldSelectorForDevice
  <1>3. Selector("heuristic_factors", device) = createHeuristicSelectorWithFactorsForDevice(device)
    BY DEF Selector
  <1>4. device = "NPU_5_0" =>
           Selector("heuristic_factors", device) =
              ShaveInstanceHolderWithFactors(PopulatedFactorsLUT_Heuristic, ShaveInstanceHolder_HeuristicNPU50, device)
    BY <1>3 DEF createHeuristicSelectorWithFactorsForDevice
  <1>5. device # "NPU_5_0" => Selector("heuristic_factors", device) = ShaveInstanceHolder_VPU27CLassic
    BY <1>1, <1>3 DEF createHeuristicSelectorWithFactorsForDevice, createHeuristicSelectorForDevice,
                      createOldSelectorForDevice
  <1> QED BY <1>2, <1>4, <1>5

(* A name is found where the selector has it. *)
LEMMA FoundInSelector ==
    ASSUME NEW kind, NEW device, NEW name
    PROVE  get_shave_instance(kind, name, device) # <<>> <=> name \in DOMAIN Selector(kind, device)
  BY DEF get_shave_instance, getShaveFunction, existsShave

(* A listed name is found at one of the visits. *)
LEMMA ListedIsFound ==
    ASSUME NEW w, w.name \in queryDeviceMappedSupportedOperations(w.device)
    PROVE  \E v \in Range(Visits(w)) : get_shave_instance(v.kind, v.name, w.device) # <<>>
  <1> DEFINE old == DOMAIN Selector("old", w.device)
             map == getStandardNameMappings
  <1>1. CASE w.device \in LegacyDevices
    <2>1. Visits(w) = <<Visit("old", "old", w.name), Mapped("mapped", w)>>
      BY <1>1, VisitsByDevice
    <2>2. Visit("old", "old", w.name) \in Range(Visits(w)) /\ Mapped("mapped", w) \in Range(Visits(w))
      BY <2>1 DEF Range
    <2>3. w.name \in old \/ Translate(map, w.name) \in old
      <3>1. w.name \in UNION Range(<<old, NameMappingOps(map, old)>>)
        <4>1. get_shave_supported_ops("old", w.device) = old
          BY DEF get_shave_supported_ops, getShaveList
        <4>2. queryDeviceMappedSupportedOperations(w.device) = PriorityOps(<<old, NameMappingOps(map, old)>>)
          <5> DEFINE ops == get_shave_supported_ops("old", w.device)
          <5>1. queryDeviceMappedSupportedOperations(w.device) =
                   PriorityOps(<<ops, NameMappingOps(getStandardNameMappings, ops)>>)
            BY <1>1 DEF queryDeviceMappedSupportedOperations, LegacyDevices, NewDevices
          <5> QED BY <4>1, <5>1
        <4> QED BY <4>2 DEF PriorityOps
      <3>2. w.name \in old \/ w.name \in NameMappingOps(map, old)
        BY <3>1 DEF Range
      <3>3. CASE w.name \in NameMappingOps(map, old)
        <4> DEFINE back == build_reverse_mapping(map)
        <4>1. PICK n \in old : w.name = Translate(back, n)
          BY <3>3 DEF NameMappingOps
        <4>2. CASE n \notin DOMAIN back
          BY <4>1, <4>2 DEF Translate
        <4>3. CASE n \in DOMAIN back
          <5>1. n \in Range(map) /\ back[n] = CHOOSE k \in DOMAIN map : map[k] = n
            BY <4>3 DEF build_reverse_mapping
          <5>2. \E k \in DOMAIN map : map[k] = n
            BY <5>1 DEF Range
          <5>3. back[n] \in DOMAIN map /\ map[back[n]] = n
            <6> HIDE DEF map, back
            <6> QED BY <5>1, <5>2
          <5>4. w.name = back[n]
            BY <4>1, <4>3 DEF Translate
          <5> QED BY <4>1, <5>3, <5>4 DEF Translate
        <4> QED BY <4>2, <4>3
      <3> QED BY <3>2, <3>3
    <2>4. CASE w.name \in old
      BY <2>2, <2>4, FoundInSelector DEF Visit
    <2>5. CASE Translate(map, w.name) \in old
      BY <2>2, <2>5, FoundInSelector DEF Visit, Mapped
    <2> QED BY <2>3, <2>4, <2>5
  <1>2. CASE w.device \in NewDevices \ LegacyDevices
    <2> DEFINE visit == OpSetOverride(ExtendedOps, w.name, Mapped("npu5_mapped", w),
                                      Visit("npu5", "heuristic_factors", w.name))
    <2>1. visit \in Range(Visits(w))
      <3>1. Visits(w) = <<visit>>
        BY <1>2, VisitsByDevice
      <3> QED BY <3>1 DEF Range
    <2>2. w.name \in DOMAIN Selector("heuristic_factors", w.device)
      BY <1>2 DEF queryDeviceMappedSupportedOperations, get_shave_supported_ops, getShaveList
    <2>3. CASE w.name \notin ExtendedOps
      <3>1. visit.kind = "heuristic_factors" /\ visit.name = w.name
        BY <2>3 DEF OpSetOverride, Visit
      <3> QED BY <2>1, <2>2, <3>1, FoundInSelector
    <2>4. CASE w.name \in ExtendedOps
      <3>1. Translate(map, w.name) \in {"DepthToSpace", "MVN", "Softmax", "Gelu", "Multiply", "Cos", "Sin"}
        BY <2>4 DEF ExtendedOps, CoreOps, Translate, getStandardNameMappings
      <3>2. Translate(map, w.name) \in old
        BY <1>2, <3>1, ClassicTable, Selectors
      <3>3. visit.kind = "old" /\ visit.name = Translate(map, w.name)
        BY <2>4 DEF OpSetOverride, Visit, Mapped
      <3> HIDE DEF map, visit
      <3> QED BY <2>1, <3>2, <3>3, FoundInSelector
    <2> QED BY <2>3, <2>4
  <1>3. CASE w.device \notin LegacyDevices \cup NewDevices
    BY <1>3 DEF queryDeviceMappedSupportedOperations
  <1> QED BY <1>1, <1>2, <1>3

(* An operation that is listed for a device is not missing there: one of   *)
(* the names that the providers of shave_provider_bundles.h translate it   *)
(* to is registered with the selector they ask.                            *)
THEOREM ListedOperationsAreFound == Spec => []ListedIsAnswered
  <1>1. ListedIsAnswered
    BY ListedIsFound DEF ListedIsAnswered
  <1> QED BY <1>1, PTL

-----------------------------------------------------------------------------
(* The key of a workload and its cost.  The key leaves the layouts out; a  *)
(* tensor whose samples are whole bytes takes the same memory in each.     *)

WholeByteTypes ==
    {"INT64", "UINT64", "FLOAT64", "INT32", "UINT32", "FLOAT32", "INT16", "UINT16", "FLOAT16", "BFLOAT16",
     "INT8", "UINT8", "BF8", "HF8"}

InWholeBytes(x) == x.w \in Nat /\ x.h \in Nat /\ x.c \in Nat /\ x.b \in Nat /\ x.dtype \in WholeByteTypes

(* A row of samples of whole bytes is not packed. *)
LEMMA RowOfWholeBytes ==
    ASSUME NEW d \in WholeByteTypes, NEW n \in Nat
    PROVE  dtype_to_bytes(d) \in Nat /\ RowBytes(d, n) = n * dtype_to_bytes(d)
  <1>1. dtype_to_bits(d) \in {8, 16, 32, 64}
    BY DEF WholeByteTypes, dtype_to_bits
  <1>2. dtype_to_bytes(d) \in {1, 2, 4, 8} /\ overflowBits(d) = 8
    BY <1>1 DEF dtype_to_bytes, overflowBits
  <1>3. computeContiguousElementCountAndSize(d) = [elements |-> 1, bytes |-> dtype_to_bytes(d)]
    <2>1. 8 \div overflowBits(d) = 1
      BY <1>2
    <2>2. 1 * (dtype_to_bytes(d) - 1) + 1 = dtype_to_bytes(d)
      BY <1>2
    <2> QED BY <2>1, <2>2 DEF computeContiguousElementCountAndSize
  <1>4. n \div 1 = n /\ n % 1 = 0
    OBVIOUS
  <1>5. computeAlignedSequencesSize_B(d, n) = n * dtype_to_bytes(d)
    BY <1>3, <1>4 DEF computeAlignedSequencesSize_B
  <1>6. sizeOfRemaininElem_B(d, n) = 0
    BY <1>3, <1>4 DEF sizeOfRemaininElem_B
  <1>7. n * dtype_to_bytes(d) \in Nat
    BY <1>2
  <1> QED BY <1>2, <1>5, <1>6, <1>7 DEF RowBytes

(* The size in memory, whatever the order of the dimensions. *)
LEMMA SizeOfWholeBytes ==
    ASSUME NEW x, InWholeBytes(x)
    PROVE  tensor_size(x) = dtype_to_bytes(x.dtype) * x.w * x.h * x.c * x.b
  <1> DEFINE B == dtype_to_bytes(x.dtype)
             o == layout_to_order(x.layout)
  <1>1. /\ B \in Nat /\ x.w \in Nat /\ x.h \in Nat /\ x.c \in Nat /\ x.b \in Nat
        /\ \A n \in Nat : RowBytes(x.dtype, n) = n * B
    BY RowOfWholeBytes DEF InWholeBytes
  <1>2. tensor_size(x) = RowBytes(x.dtype, x[o[1]]) * x[o[2]] * x[o[3]] * x[o[4]]
    BY DEF tensor_size
  <1>3. o \in {<<"w", "h", "c", "b">>, <<"w", "c", "h", "b">>, <<"h", "w", "c", "b">>, <<"h", "c", "w", "b">>,
               <<"c", "h", "w", "b">>, <<"c", "w", "h", "b">>}
    BY DEF layout_to_order
  <1>4. x["w"] = x.w /\ x["h"] = x.h /\ x["c"] = x.c /\ x["b"] = x.b
    OBVIOUS
  <1> HIDE DEF B, o
  <1>5. CASE o = <<"w", "h", "c", "b">>
    BY <1>1, <1>2, <1>4, <1>5 DEF B
  <1>6. CASE o = <<"w", "c", "h", "b">>
    BY <1>1, <1>2, <1>4, <1>6 DEF B
  <1>7. CASE o = <<"h", "w", "c", "b">>
    BY <1>1, <1>2, <1>4, <1>7 DEF B
  <1>8. CASE o = <<"h", "c", "w", "b">>
    BY <1>1, <1>2, <1>4, <1>8 DEF B
  <1>9. CASE o = <<"c", "h", "w", "b">>
    BY <1>1, <1>2, <1>4, <1>9 DEF B
  <1>10. CASE o = <<"c", "w", "h", "b">>
    BY <1>1, <1>2, <1>4, <1>10 DEF B
  <1> QED BY <1>3, <1>5, <1>6, <1>7, <1>8, <1>9, <1>10

(* What the kernels that the model's provider reaches take from a workload. *)
SameSizes(v, w) ==
    /\ tensor_size(v.outputs[1]) = tensor_size(w.outputs[1])
    /\ total_number_of_elements(v) = total_number_of_elements(w)
    /\ total_size_in_bits(v) = total_size_in_bits(w)
    /\ [i \in DOMAIN v.outputs |-> v.outputs[i].c] = [i \in DOMAIN w.outputs |-> w.outputs[i].c]

(* Of these kinds, an executor gives equal sizes equal cycles. *)
LEMMA SameSizesSameCycles ==
    ASSUME NEW e, e.kind \in {"classic", "simple", "roofline"}, NEW v, NEW w, SameSizes(v, w)
    PROVE  dpuCycles(e, v) = dpuCycles(e, w)
  <1>1. ASSUME NEW f PROVE OwnCycles(e, v, f) = OwnCycles(e, w, f)
    <2>1. CASE e.kind = "classic"
      <3>1. \A x : OwnCycles(e, x, f) = ShaveClassicLinear(e, x, f)
        BY <2>1 DEF OwnCycles
      <3>2. ShaveClassicLinear(e, v, f) = ShaveClassicLinear(e, w, f)
        BY DEF ShaveClassicLinear, SHVActivation, SameSizes
      <3> QED BY <3>1, <3>2
    <2>2. CASE e.kind = "simple"
      <3>1. \A x : OwnCycles(e, x, f) = ShaveSimpleHeuristicModelActivation(e, x, f)
        BY <2>2 DEF OwnCycles
      <3>2. ShaveSimpleHeuristicModelActivation(e, v, f) = ShaveSimpleHeuristicModelActivation(e, w, f)
        BY DEF ShaveSimpleHeuristicModelActivation, SameSizes
      <3> QED BY <3>1, <3>2
    <2>3. CASE e.kind = "roofline"
      <3>1. \A x : OwnCycles(e, x, f) = ShaveRooflineHeuristicModelActivation(e, x, f)
        BY <2>3 DEF OwnCycles
      <3>2. ShaveRooflineHeuristicModelActivation(e, v, f) = ShaveRooflineHeuristicModelActivation(e, w, f)
        BY DEF ShaveRooflineHeuristicModelActivation, SumOver, SameSizes
      <3> QED BY <3>1, <3>2
    <2> QED BY <2>1, <2>2, <2>3
  <1>2. e.kind # "mvn"
    OBVIOUS
  <1> QED BY <1>1, <1>2 DEF dpuCycles

(* A legacy kernel found for both gives both the same cost. *)
LEMMA OldProviderSame ==
    ASSUME NEW v, NEW w, v.name = w.name, v.device = w.device, w.device \in LegacyDevices \cup NewDevices,
           SameSizes(v, w)
    PROVE  OldShaveCostProvider(v) = OldShaveCostProvider(w)
  <1> DEFINE found == get_shave_instance("old", w.name, w.device)
             table == ShaveInstanceHolder_VPU27CLassic
  <1>1. /\ OldShaveCostProvider(v) = CostOfInstance(found, v)
        /\ OldShaveCostProvider(w) = CostOfInstance(found, w)
    BY DEF OldShaveCostProvider, MathematicalCost
  <1>2. CASE found = <<>>
    BY <1>1, <1>2 DEF CostOfInstance
  <1>3. CASE found # <<>>
    <2>1. w.name \in DOMAIN table /\ found[1] = table[w.name]
      BY <1>3, Selectors DEF get_shave_instance, getShaveFunction, existsShave
    <2>2. table[w.name].kind = "classic"
      <3>1. IsMeasured(table[w.name], {"classic"})
        BY <2>1, ClassicTable
      <3> QED BY <3>1 DEF IsMeasured, Measured
    <2>3. dpuCycles(found[1], v) = dpuCycles(found[1], w)
      BY <2>1, <2>2, SameSizesSameCycles
    <2> QED BY <1>1, <1>3, <2>3 DEF CostOfInstance
  <1> QED BY <1>2, <1>3

(* So does a heuristic one. *)
LEMMA HeuristicProviderSame ==
    ASSUME NEW v, NEW w, v.name = w.name, v.device = w.device, w.device \in NewDevices, SameSizes(v, w)
    PROVE  HeuristicCostProviderWithFactors(v) = HeuristicCostProviderWithFactors(w)
  <1> DEFINE found == get_shave_instance("heuristic_factors", w.name, w.device)
             s == Selector("heuristic_factors", w.device)
  <1>1. /\ HeuristicCostProviderWithFactors(v) = CostOfInstance(found, v)
        /\ HeuristicCostProviderWithFactors(w) = CostOfInstance(found, w)
    BY DEF HeuristicCostProviderWithFactors, MathematicalCost
  <1>2. CASE found = <<>>
    BY <1>1, <1>2 DEF CostOfInstance
  <1>3. CASE found # <<>>
    <2>1. w.name \in DOMAIN s /\ found[1] = s[w.name]
      BY <1>3 DEF get_shave_instance, getShaveFunction, existsShave
    <2>2. s[w.name].kind \in {"classic", "simple", "roofline"}
      <3>1. CASE w.device # "NPU_5_0"
        <4>1. IsMeasured(s[w.name], {"classic"})
          BY <2>1, <3>1, ClassicTable, Selectors
        <4> QED BY <4>1 DEF IsMeasured, Measured
      <3>2. CASE w.device = "NPU_5_0"
        <4> DEFINE table == ShaveInstanceHolder_HeuristicNPU50
                   e == table[w.name]
        <4>1. s = ShaveInstanceHolderWithFactors(PopulatedFactorsLUT_Heuristic, table, w.device)
          BY <3>2, Selectors
        <4>2. w.name \in DOMAIN table /\ \E freqs, speed : s[w.name] = AddMock(e, freqs, speed)
          <5> HIDE DEF table, s
          <5> QED BY <2>1, <4>1 DEF ShaveInstanceHolderWithFactors, getShaveList
        <4>3. IsMeasured(e, {"simple", "roofline"})
          BY <4>2, HeuristicTable
        <4>4. PICK freqs, params, m : \E kind \in {"simple", "roofline"} : e = Measured(kind, freqs, params, m)
          BY <4>3 DEF IsMeasured
        <4>5. PICK kind \in {"simple", "roofline"} : e = Measured(kind, freqs, params, m)
          BY <4>4
        <4>6. \A fs, speed : AddMock(e, fs, speed).kind = kind
          <5> HIDE DEF e
          <5> QED BY <4>5 DEF AddMock, Measured
        <4> QED BY <4>2, <4>5, <4>6
      <3> QED BY <3>1, <3>2
    <2>3. dpuCycles(found[1], v) = dpuCycles(found[1], w)
      BY <2>1, <2>2, SameSizesSameCycles
    <2> QED BY <1>1, <1>3, <2>3 DEF CostOfInstance
  <1> QED BY <1>2, <1>3

(* The key decides the sizes, if the first outputs are in whole bytes. *)
LEMMA SameKeySameSizes ==
    ASSUME NEW v, NEW w, IsKernel(v), IsKernel(w), ShaveKey(v) = ShaveKey(w),
           InWholeBytes(v.outputs[1]), InWholeBytes(w.outputs[1])
    PROVE  v.name = w.name /\ v.device = w.device /\ SameSizes(v, w)
  <1> DEFINE K(s) == [i \in DOMAIN s |-> TensorKey(s[i])]
             Alike(r, s) == /\ DOMAIN r = DOMAIN s
                            /\ \A i \in DOMAIN s : /\ r[i].w = s[i].w /\ r[i].h = s[i].h /\ r[i].c = s[i].c
                                                   /\ r[i].b = s[i].b /\ r[i].dtype = s[i].dtype
             Vols(s) == [i \in DOMAIN s |-> volume(s[i])]
             Bits(s) == [i \in DOMAIN s |-> volume(s[i]) * dtype_to_bits(s[i].dtype)]
             Chans(s) == [i \in DOMAIN s |-> s[i].c]
  <1>1. v.name = w.name /\ v.device = w.device /\ K(v.inputs) = K(w.inputs) /\ K(v.outputs) = K(w.outputs)
    <2> HIDE DEF K
    <2>1. \A x : ShaveKey(x) = <<x.name, x.device, x.params, K(x.inputs), K(x.outputs)>>
      BY DEF ShaveKey, K
    <2> QED BY <2>1
  <1>2. ASSUME NEW r, NEW s, K(r) = K(s) PROVE Alike(r, s)
    <2>1. DOMAIN K(r) = DOMAIN r /\ DOMAIN K(s) = DOMAIN s
      OBVIOUS
    <2>2. DOMAIN r = DOMAIN s
      BY <1>2, <2>1
    <2>3. ASSUME NEW i \in DOMAIN s
          PROVE  /\ r[i].w = s[i].w /\ r[i].h = s[i].h /\ r[i].c = s[i].c
                 /\ r[i].b = s[i].b /\ r[i].dtype = s[i].dtype
      <3>1. K(r)[i] = TensorKey(r[i]) /\ K(s)[i] = TensorKey(s[i])
        BY <2>2
      <3>2. TensorKey(r[i]) = TensorKey(s[i])
        BY <1>2, <3>1
      <3> QED BY <3>2 DEF TensorKey
    <2> QED BY <2>2, <2>3
  <1>3. Alike(v.inputs, w.inputs) /\ Alike(v.outputs, w.outputs)
    <2> HIDE DEF K, Alike
    <2> QED BY <1>1, <1>2
  <1>4. ASSUME NEW r, NEW s, Alike(r, s) PROVE Vols(r) = Vols(s) /\ Bits(r) = Bits(s) /\ Chans(r) = Chans(s)
    BY <1>4 DEF volume
  <1>5. /\ Vols(v.inputs) = Vols(w.inputs) /\ Bits(v.inputs) = Bits(w.inputs)
        /\ Vols(v.outputs) = Vols(w.outputs) /\ Bits(v.outputs) = Bits(w.outputs)
        /\ Chans(v.outputs) = Chans(w.outputs)
    <2> HIDE DEF Alike, Vols, Bits, Chans
    <2> QED BY <1>3, <1>4
  <1>6. tensor_size(v.outputs[1]) = tensor_size(w.outputs[1])
    <2>1. /\ v.outputs[1].w = w.outputs[1].w /\ v.outputs[1].h = w.outputs[1].h /\ v.outputs[1].c = w.outputs[1].c
          /\ v.outputs[1].b = w.outputs[1].b /\ v.outputs[1].dtype = w.outputs[1].dtype
      BY <1>3 DEF IsKernel
    <2>2. /\ tensor_size(v.outputs[1]) = dtype_to_bytes(v.outputs[1].dtype) * v.outputs[1].w * v.outputs[1].h
                                           * v.outputs[1].c * v.outputs[1].b
          /\ tensor_size(w.outputs[1]) = dtype_to_bytes(w.outputs[1].dtype) * w.outputs[1].w * w.outputs[1].h
                                           * w.outputs[1].c * w.outputs[1].b
      BY SizeOfWholeBytes
    <2> QED BY <2>1, <2>2
  <1>7. \A x : /\ total_number_of_elements(x) = Total(Vols(x.outputs)) + Total(Vols(x.inputs))
               /\ total_size_in_bits(x) = Total(Bits(x.outputs)) + Total(Bits(x.inputs))
    BY DEF total_number_of_elements, total_size_in_bits, SumOver
  <1>8. /\ total_number_of_elements(v) = total_number_of_elements(w)
        /\ total_size_in_bits(v) = total_size_in_bits(w)
    <2> HIDE DEF Vols, Bits
    <2> QED BY <1>5, <1>7
  <1> QED BY <1>1, <1>5, <1>6, <1>8 DEF SameSizes

(* So it does under the translated name. *)
LEMMA MappedProviderSame ==
    ASSUME NEW v, NEW w, IsKernel(v), IsKernel(w), v.name = w.name, v.device = w.device,
           w.device \in LegacyDevices \cup NewDevices, SameSizes(v, w)
    PROVE  createNameMappingOldProvider(v) = createNameMappingOldProvider(w)
  <1> DEFINE M(x) == NameMapping(getStandardNameMappings, x)
  <1>1. ASSUME NEW x, IsKernel(x)
        PROVE  /\ M(x).name = Translate(getStandardNameMappings, x.name) /\ M(x).device = x.device
               /\ M(x).outputs = x.outputs /\ M(x).inputs = x.inputs
    BY <1>1 DEF NameMapping, IsKernel
  <1>2. M(v).name = M(w).name /\ M(v).device = M(w).device /\ M(w).device = w.device
    <2> HIDE DEF M
    <2> QED BY <1>1
  <1>3. SameSizes(M(v), M(w))
    <2>1. /\ M(v).outputs = v.outputs /\ M(v).inputs = v.inputs
          /\ M(w).outputs = w.outputs /\ M(w).inputs = w.inputs
      <3> HIDE DEF M
      <3> QED BY <1>1
    <2>2. /\ \A x, y : x.outputs = y.outputs /\ x.inputs = y.inputs =>
                total_number_of_elements(x) = total_number_of_elements(y)
          /\ \A x, y : x.outputs = y.outputs /\ x.inputs = y.inputs => total_size_in_bits(x) = total_size_in_bits(y)
      BY DEF total_number_of_elements, total_size_in_bits, SumOver
    <2>3. /\ total_number_of_elements(M(v)) = total_number_of_elements(v)
          /\ total_number_of_elements(M(w)) = total_number_of_elements(w)
          /\ total_size_in_bits(M(v)) = total_size_in_bits(v) /\ total_size_in_bits(M(w)) = total_size_in_bits(w)
      <3> HIDE DEF M
      <3> QED BY <2>1, <2>2
    <2> HIDE DEF M
    <2> QED BY <2>1, <2>3 DEF SameSizes
  <1>4. OldShaveCostProvider(M(v)) = OldShaveCostProvider(M(w))
    <2> HIDE DEF M
    <2> QED BY <1>2, <1>3, OldProviderSame
  <1> QED BY <1>4 DEF createNameMappingOldProvider

(* What the model's provider answers depends on the key alone. *)
LEMMA KeyDecidesProvider ==
    ASSUME NEW v, NEW w, IsKernel(v), IsKernel(w), ShaveKey(v) = ShaveKey(w),
           InWholeBytes(v.outputs[1]), InWholeBytes(w.outputs[1])
    PROVE  createDeviceMappedProvider(v) = createDeviceMappedProvider(w)
  <1>1. v.name = w.name /\ v.device = w.device /\ SameSizes(v, w)
    BY SameKeySameSizes
  <1>2. CASE w.device \in LegacyDevices
    <2>1. OldShaveCostProvider(v) = OldShaveCostProvider(w)
      BY <1>1, <1>2, OldProviderSame
    <2>2. createNameMappingOldProvider(v) = createNameMappingOldProvider(w)
      BY <1>1, <1>2, MappedProviderSame
    <2>3. createOldSelectorWithNameMappingProvider(v) = createOldSelectorWithNameMappingProvider(w)
      BY <2>1, <2>2 DEF createOldSelectorWithNameMappingProvider
    <2> QED BY <1>1, <1>2, <2>3, ProviderByDevice
  <1>3. CASE w.device \in NewDevices \ LegacyDevices
    <2>1. HeuristicCostProviderWithFactors(v) = HeuristicCostProviderWithFactors(w)
      BY <1>1, <1>3, HeuristicProviderSame
    <2>2. createNameMappingOldProvider(v) = createNameMappingOldProvider(w)
      BY <1>1, <1>3, MappedProviderSame
    <2>3. createHeuristicWithOldNameMappingExtendedOpsOverride(FreqsNPU5, v)
             = createHeuristicWithOldNameMappingExtendedOpsOverride(FreqsNPU5, w)
      BY <1>1, <2>1, <2>2
         DEF createHeuristicWithOldNameMappingExtendedOpsOverride, createOpSetOverrideWithNameMappingForOps,
             OpSetOverride
    <2> QED BY <1>1, <1>3, <2>3, ProviderByDevice
  <1>4. CASE w.device \notin LegacyDevices \cup NewDevices
    BY <1>1, <1>4, ProviderByDevice
  <1> QED BY <1>2, <1>3, <1>4

-----------------------------------------------------------------------------
(* The answers. *)

(* A SHAVE query that has its answer: what is known is the kernel of its   *)
(* own and those of the shared calls.                                      *)
LEMMA KnownToQuery ==
    ASSUME IInv, NEW t \in Threads, frame[t].call.api = "shave"
    PROVE  /\ frame[t].call \in SharedCalls \cup AloneCalls /\ frame[t].call.wl \in KernelsIn(frame[t].call)
           /\ Known(frame) \subseteq OthersWorkloads \cup {frame[t].call.wl}
  <1> DEFINE w == frame[t].call.wl
  <1>1. \A u \in Threads : frame[u].call \in SharedCalls \cup AloneCalls \cup {None}
    BY DEF IInv, ThreadOK
  <1>2. frame[t].call # None /\ frame[t].call # Idle.call
    BY DEF None, Idle
  <1>3. KernelsIn(frame[t].call) = {w}
    BY DEF KernelsIn, Workloads, Range
  <1>4. ASSUME NEW u \in Threads PROVE KernelsIn(frame[u].call) \subseteq OthersWorkloads \cup {w}
    <2>1. CASE u = t
      BY <1>3, <2>1
    <2>2. CASE u # t
      <3>1. frame[t] # Idle
        BY <1>2
      <3>2. frame[u].call \in SharedCalls \cup {None}
        BY <2>2, <3>1 DEF IInv, Alone
      <3> QED BY <3>2, NoneAsksNothing, SharedAreOthers
    <2> QED BY <2>1, <2>2
  <1>5. Known(frame) \subseteq OthersWorkloads \cup {w}
    BY <1>4 DEF Known
  <1> QED BY <1>1, <1>2, <1>3, <1>5

(* Whatever the layouts and types: the answer is a cost that the provider  *)
(* or, unless the environment forbids it, the service has for a kernel     *)
(* with the key of the workload, its own or one of another call, plus the  *)
(* prefetch if that was asked for.                                         *)
AnswerByKey ==
    \A t \in Threads : Answered(t) /\ frame[t].call.api = "shave" =>
        LET w == frame[t].call.wl
        IN  frame[t].answer \in {ColdCost(w, c) : c \in Warm(env, OthersWorkloads \cup {w}, w)}

LEMMA InvariantAnswersByKey == IInv => AnswerByKey
  <1> SUFFICES ASSUME IInv, NEW t \in Threads, Answered(t), frame[t].call.api = "shave"
               PROVE  frame[t].answer \in {ColdCost(frame[t].call.wl, c) :
                          c \in Warm(env, OthersWorkloads \cup {frame[t].call.wl}, frame[t].call.wl)}
    BY DEF AnswerByKey
  <1> DEFINE w == frame[t].call.wl
  <1>1. Querying(env, Known(frame), "idle", frame[t]) /\ frame[t].answer # NoAnswer
    BY DEF IInv, ThreadOK, Answered
  <1>2. PICK c \in Warm(env, Known(frame), w) : frame[t].got = <<ColdCost(w, c)>>
    BY <1>1 DEF Querying
  <1>3. frame[t].answer = ColdCost(w, c)
    BY <1>1, <1>2 DEF Querying
  <1>4. c \in Warm(env, OthersWorkloads \cup {w}, w)
    <2>1. Known(frame) \subseteq OthersWorkloads \cup {w}
      BY KnownToQuery
    <2>2. Warm(env, Known(frame), w) \subseteq Warm(env, OthersWorkloads \cup {w}, w)
      BY <2>1 DEF Warm
    <2> QED BY <2>2
  <1> QED BY <1>3, <1>4

(* A SHAVE query (SHAVECostModel::computeCycles) is answered with the cost *)
(* of a kernel of the same cache key, whatever other threads cached,       *)
(* evicted or switched meanwhile.                                          *)
THEOREM AnswersAreOfTheSameKey == Spec => []AnswerByKey
  BY Invariance, InvariantAnswersByKey, PTL

(* Every kernel's first output has samples of whole bytes. *)
WholeBytesOut == \A v \in AllKernels : InWholeBytes(v.outputs[1])

LEMMA InvariantAnswers ==
    ASSUME WholeBytesOut, IInv
    PROVE  ShaveAnswer
  <1> SUFFICES ASSUME NEW t \in Threads, Answered(t), frame[t].call.api = "shave"
               PROVE  frame[t].answer \in {ColdCost(frame[t].call.wl, c) : c \in WarmCosts(frame[t].call.wl)}
    BY DEF ShaveAnswer
  <1> DEFINE w == frame[t].call.wl
             K == OthersWorkloads \cup {w}
  <1>1. PICK c \in Warm(env, K, w) : frame[t].answer = ColdCost(w, c)
    BY InvariantAnswersByKey DEF AnswerByKey
  <1>2. K \subseteq AllKernels /\ w \in K
    BY KnownToQuery DEF AllKernels, OthersWorkloads, KernelsIn
  <1>3. PICK v \in K : /\ ShaveKey(v) = ShaveKey(w)
                       /\ c = createDeviceMappedProvider(v) \/ (env # "ForcedOff" /\ c = ServiceCost(v))
    <2> HIDE DEF K
    <2> QED BY DEF Warm
  <1>4. CASE c = createDeviceMappedProvider(v)
    <2>1. c = createDeviceMappedProvider(w)
      BY <1>2, <1>3, <1>4, KeyDecidesProvider, AllAreKernels DEF WholeBytesOut
    <2> QED BY <1>1, <2>1 DEF WarmCosts
  <1>5. CASE env # "ForcedOff" /\ c = ServiceCost(v)
    <2>1. c \in WarmCosts(w)
      BY <1>3, <1>5 DEF WarmCosts
    <2> QED BY <1>1, <2>1
  <1> QED BY <1>3, <1>4, <1>5

(* When the outputs are in whole bytes the key decides what the provider   *)
(* answers, and a SHAVE query costs what its own workload costs: from the  *)
(* cache, the service or the provider, and with the prefetch added once if *)
(* it was asked for (vpu_shave_cost_model.cpp:78).                         *)
THEOREM ShaveAnswers ==
    ASSUME WholeBytesOut
    PROVE  Spec => []ShaveAnswer
  <1>1. IInv => ShaveAnswer
    BY InvariantAnswers
  <1> QED BY <1>1, Invariance, PTL
=============================================================================
