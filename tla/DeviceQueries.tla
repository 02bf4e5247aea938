---------------------------- MODULE DeviceQueries ----------------------------
(***************************************************************************)
(* Queries about SHAVE kernels and DMA transfers, by several threads of    *)
(* one VPULayerCostModel: the SHAVE cost model (vpu_shave_cost_model.cpp), *)
(* the DMA cost model (vpu_dma_cost_model.cpp) and the layer queries that  *)
(* combine them (Layer and LayersPreSplit of vpu_layer_cost_model.cpp).    *)
(*                                                                         *)
(* A call is a record with the field api:                                  *)
(*   "shave"       wl: one kernel;                                         *)
(*   "layer"       wl, nSHV, nTiles, in, out: a kernel and its transfers;  *)
(*   "presplit"    wls, nSHV, in, out: one kernel for each tile;           *)
(*   "descriptor"  desc: a strided transfer, VPUCostModel::DMA.            *)
(* It is a sequence of requests to the two models.  A request takes one    *)
(* step for each access to state that threads share: the cache of its      *)
(* model, the gate of the profiling service, the service, the selectors.   *)
(*                                                                         *)
(* Left out: the log (Serializer has it), the preloaded tables and the     *)
(* locks of a cache (LRUCache has them: a get or an add is one step here). *)
(***************************************************************************)
EXTENDS ShaveProviders, DMACost

CONSTANTS
    Threads,
    MaxQueries,        \* bound on the calls and the switches of a gate
    CacheSize,         \* of each of the two dynamic caches
    SharedCalls,       \* calls that any thread may make at any time
    AloneCalls,        \* calls made of a new model, and then nothing else
    ServiceCost(_),    \* what the profiling service measured for a workload
    PrefetchTables,    \* device -> name -> cycles, the tables of the build
    DmaModels,         \* the DMA models a user may have loaded
    NetworkOutput(_)   \* what the DMA network says of a DMANN workload

ASSUME DeviceQueriesAssumption == MaxQueries \in Nat \ {0} /\ CacheSize \in Nat \ {0}

(* A SHAVEWorkload: every kernel reads the first output. *)
IsKernel(w) ==
    /\ w = [name |-> w.name, device |-> w.device, inputs |-> w.inputs, outputs |-> w.outputs,
            params |-> w.params, prefetch |-> w.prefetch]
    /\ 1 \in DOMAIN w.outputs

ASSUME CallsAssumption ==
    \A c \in SharedCalls \cup AloneCalls :
        /\ c.api \in {"shave", "layer", "presplit", "descriptor"}
        /\ c.api \in {"shave", "layer"} => IsKernel(c.wl)
        /\ c.api = "presplit" => c.wls \in Seq(Range(c.wls)) /\ \A w \in Range(c.wls) : IsKernel(w)

VARIABLES
    env,         \* the environment's setting of the gates
    enabled,     \* model -> its ProfilingAutoHintGate
    dma,         \* the DMA model: its descriptor, "none" without a network
    cache,       \* model -> entries, the most recent first
    selectors,   \* <<owner, device>> -> how often its selector was made
    pc, frame,   \* thread -> its step, and what it has in hand
    asked

vars == <<env, enabled, dma, cache, selectors, pc, frame, asked>>

Models == {"shave", "dma"}

Devices == Range(VPUDevice)

NoAnswer == -1

Idle == [call |-> [api |-> "none"], todo |-> <<>>, got |-> <<>>, stage |-> "kernels", cost |-> 0,
         visit |-> 1, held |-> 0, cycles |-> 0, answer |-> NoAnswer]

Init ==
    /\ env \in {"NotSet", "ForcedOn", "ForcedOff"}
    /\ enabled = [m \in Models |-> env = "ForcedOn"]
    /\ dma \in DmaModels
    /\ cache = [m \in Models |-> <<>>]
    /\ selectors = [place \in Owners \X Devices |-> 0]
    /\ pc = [t \in Threads |-> "idle"]
    /\ frame = [t \in Threads |-> Idle]
    /\ asked = 0

Goto(t, label) == pc' = [pc EXCEPT ![t] = label]

Request(t) == frame[t].todo[1]

(* The model that the requests of a stage go to. *)
Model(t) == IF frame[t].stage = "kernels" THEN "shave" ELSE "dma"

-----------------------------------------------------------------------------
(* Keys.  A SHAVE workload is looked up without its layouts and without    *)
(* the request for the code prefetch, a DMA workload as it is.             *)

TensorKey(x) == <<x.w, x.h, x.c, x.b, x.dtype>>

ShaveKey(w) ==
    <<w.name, w.device, w.params,
      [i \in DOMAIN w.inputs |-> TensorKey(w.inputs[i])], [i \in DOMAIN w.outputs |-> TensorKey(w.outputs[i])]>>

Positions(entries, key) == {i \in DOMAIN entries : entries[i].key = key}

ToFront(entries, i) == <<entries[i]>> \o RemoveAt(entries, i)

(* A known key keeps its value and becomes the most recent one. *)
Added(entries, key, value) ==
    IF Positions(entries, key) # {}
    THEN ToFront(entries, CHOOSE i \in Positions(entries, key) : TRUE)
    ELSE SubSeq(<<[key |-> key, value |-> value]>> \o entries, 1,
                IF Len(entries) < CacheSize THEN Len(entries) + 1 ELSE CacheSize)

-----------------------------------------------------------------------------
(* Calls. *)

Kernel(w) == [wl |-> w]

Transfer(tile, device, tensor, direction) ==
    [tile |-> tile, wl |-> [device |-> device, bytes |-> tensor_size(tensor), direction |-> direction]]

Kernels(c) ==
    CASE c.api \in {"shave", "layer"} -> <<Kernel(c.wl)>>
      [] c.api = "presplit" -> [i \in DOMAIN c.wls |-> Kernel(c.wls[i])]
      [] c.api = "descriptor" -> <<>>

Workloads(c) == IF c.api = "layer" THEN <<c.wl>> ELSE IF c.api = "presplit" THEN c.wls ELSE <<>>

(* What is moved: first everything that is read, then what is written, for *)
(* the device of the first tile.                                           *)
Transfers(c) ==
    LET wls == Workloads(c)
        moved(wanted, tensors(_), direction) ==
            IF ~wanted THEN <<>>
            ELSE FlattenSeq([i \in DOMAIN wls |->
                    [j \in DOMAIN tensors(wls[i]) |-> Transfer(i, wls[1].device, tensors(wls[i])[j], direction)]])
    IN  IF wls = <<>> THEN <<>>
        ELSE moved(c.in, LAMBDA w : w.inputs, "DDR2CMX") \o moved(c.out, LAMBDA w : w.outputs, "CMX2DDR")

Begins(t, c) ==
    /\ frame' = [frame EXCEPT ![t] = [Idle EXCEPT !.call = c, !.todo = Kernels(c)]]
    /\ Goto(t, "work")
    /\ UNCHANGED <<env, enabled, dma, cache, selectors>>

Ask(t) ==
    /\ pc[t] = "idle" /\ asked < MaxQueries
    /\ asked' = asked + 1
    /\ \E c \in SharedCalls : Begins(t, c)

AskAlone(t) ==
    /\ pc[t] = "idle" /\ asked = 0
    /\ asked' = MaxQueries
    /\ \E c \in AloneCalls : Begins(t, c)

(* The environment's setting takes precedence. *)
setProfilingEnabledForAutoHint(m, value) ==
    /\ asked < MaxQueries /\ env = "NotSet" /\ enabled[m] # value
    /\ asked' = asked + 1
    /\ enabled' = [enabled EXCEPT ![m] = value]
    /\ UNCHANGED <<env, dma, cache, selectors, pc, frame>>

(* The request is answered. *)
Received(t, cost) ==
    /\ frame' = [frame EXCEPT ![t] = [frame[t] EXCEPT !.todo = Tail(@), !.got = Append(@, cost), !.visit = 1, !.held = 0]]
    /\ Goto(t, "work")

-----------------------------------------------------------------------------
(* SHAVECostModel::computeCycles. *)

(* try_cache: a hit is added again, which keeps it recent. *)
TryCache(t) ==
    LET found == Positions(cache["shave"], ShaveKey(Request(t).wl))
    IN  /\ pc[t] = "work" /\ frame[t].todo # <<>> /\ Model(t) = "shave"
        /\ IF found = {}
           THEN Goto(t, "gate") /\ UNCHANGED <<cache, frame>>
           ELSE \E i \in found :
                   /\ cache' = [cache EXCEPT !["shave"] = ToFront(@, i)]
                   /\ frame' = [frame EXCEPT ![t].cycles = cache["shave"][i].value]
                   /\ Goto(t, "add")
        /\ UNCHANGED <<env, enabled, dma, selectors, asked>>

(* The gate is read after the cache missed, in both models. *)
CheckGate(t) ==
    /\ pc[t] = "gate"
    /\ Goto(t, IF enabled[Model(t)] THEN "profile" ELSE "provide")
    /\ UNCHANGED <<env, enabled, dma, cache, selectors, frame, asked>>

(* try_profiling: the service has a cost, or it is missing or fails.  A    *)
(* profiled transfer is returned as it is, a profiled kernel is cached.    *)
TryProfiling(t) ==
    /\ pc[t] = "profile"
    /\ \/ Goto(t, "provide") /\ UNCHANGED frame
       \/ /\ Model(t) = "shave"
          /\ frame' = [frame EXCEPT ![t].cycles = ServiceCost(Request(t).wl)]
          /\ Goto(t, "add")
       \/ Model(t) = "dma" /\ Received(t, ServiceCost(Request(t).wl))
    /\ UNCHANGED <<env, enabled, dma, cache, selectors, asked>>

Place(t) == <<Visits(Request(t).wl)[frame[t].visit].owner, Request(t).wl.device>>

(* getOrCreate, the first look under the shared lock; when every provider  *)
(* was asked in vain there is no operator.                                 *)
FindSelector(t) ==
    /\ pc[t] = "provide" /\ Model(t) = "shave"
    /\ IF frame[t].visit > Len(Visits(Request(t).wl))
       THEN frame' = [frame EXCEPT ![t].cycles = ERROR_SHAVE_OPERATOR_MISSING] /\ Goto(t, "add")
       ELSE IF selectors[Place(t)] > 0
            THEN frame' = [frame EXCEPT ![t].held = selectors[Place(t)]] /\ Goto(t, "use")
            ELSE Goto(t, "create") /\ UNCHANGED frame
    /\ UNCHANGED <<env, enabled, dma, cache, selectors, asked>>

(* Mutant: whoever holds the exclusive lock makes a selector. *)
MadeAnyway(t) == selectors[Place(t)] + 1

(* The second look, under the exclusive lock. *)
Made(t) == IF selectors[Place(t)] = 0 THEN 1 ELSE selectors[Place(t)]

CreateSelector(t) ==
    /\ pc[t] = "create"
    /\ selectors' = [selectors EXCEPT ![Place(t)] = Made(t)]
    /\ frame' = [frame EXCEPT ![t].held = Made(t)]
    /\ Goto(t, "use")
    /\ UNCHANGED <<env, enabled, dma, cache, asked>>

KernelCost(visit, w) ==
    Converted(visit, CostOfInstance(get_shave_instance(visit.kind, visit.name, w.device), [w EXCEPT !.name = visit.name]))

(* The reference into the selector is used with no lock held.  An error    *)
(* hands the workload on to the next provider, where there is one.         *)
UseSelector(t) ==
    LET w == Request(t).wl
    IN  /\ pc[t] = "use"
        /\ \E c \in {KernelCost(Visits(w)[frame[t].visit], w)} :
              IF isErrorCode(c) /\ w.device \in LegacyDevices
              THEN frame' = [frame EXCEPT ![t] = [frame[t] EXCEPT !.visit = @ + 1, !.held = 0]] /\ Goto(t, "provide")
              ELSE frame' = [frame EXCEPT ![t] = [frame[t] EXCEPT !.cycles = c, !.held = 0]] /\ Goto(t, "add")
        /\ UNCHANGED <<env, enabled, dma, cache, selectors, asked>>

(* The cost of a first call: the code has to be fetched. *)
ColdCost(w, cycles) ==
    CASE isErrorCode(cycles) \/ ~w.prefetch -> cycles
      [] ~isErrorCode(cycles) /\ w.prefetch ->
            LET p == get_code_prefetch_cost(PrefetchTables, w) IN IF isErrorCode(p) THEN p ELSE cost_adder(cycles, p)

(* Mutant: the cost that is returned is also the one that is kept. *)
ColdCostToCache(w, cycles) == ColdCost(w, cycles)

CostToCache(w, cycles) == cycles

AddToCache(t) ==
    LET w == Request(t).wl
        cycles == frame[t].cycles
    IN  /\ pc[t] = "add"
        /\ cache' = [cache EXCEPT !["shave"] =
              IF cycles < START_ERROR_RANGE THEN Added(@, ShaveKey(w), CostToCache(w, cycles)) ELSE @]
        /\ Received(t, ColdCost(w, cycles))
        /\ UNCHANGED <<env, enabled, dma, selectors, asked>>

-----------------------------------------------------------------------------
(* VPULayerCostModel::compute_dma_cycles and DMACostModel.  The transfer   *)
(* becomes a workload of the loaded model, if that is one for the device.  *)

DeviceOf == [NPU27 |-> {"VPU_2_0", "VPU_2_1", "VPU_2_7"}, NPU40_50 |-> {"VPU_4_0", "NPU_5_0", "NPU_5_0_W"}]

create_workload(transfer) == IF dma.desc = "NPU27" THEN CreateNPU27(transfer) ELSE CreateNPU40_50(transfer)

(* Without a network: the classic or, when enabled, the strided model. *)
TheoreticalTransfer(transfer) ==
    IF dma.math THEN TheoreticalStridedCost(fromDMATransfer1D_to_VPUDMADescriptor(transfer))
    ELSE DMATheoreticalCostProvider(fromDMATransfer1D_to_DMAWorkload(transfer))

DmaTryCache(t) ==
    LET r == Request(t)
        found == Positions(cache["dma"], r.wl)
    IN  /\ pc[t] = "work" /\ frame[t].todo # <<>> /\ Model(t) = "dma"
        /\ CASE dma.desc = "none" -> Received(t, TheoreticalTransfer(r.wl)) /\ UNCHANGED cache
             [] dma.desc # "none" /\ r.wl.device \notin DeviceOf[dma.desc] ->
                   Received(t, ERROR_INVALID_INPUT_DEVICE) /\ UNCHANGED cache
             [] dma.desc # "none" /\ r.wl.device \in DeviceOf[dma.desc] ->
                   IF found = {} THEN Goto(t, "gate") /\ UNCHANGED <<cache, frame>>
                   ELSE \E i \in found :
                           cache' = [cache EXCEPT !["dma"] = ToFront(@, i)] /\ Received(t, cache["dma"][i].value)
        /\ UNCHANGED <<env, enabled, dma, selectors, asked>>

(* The network, then the theoretical model; an output that is out of range *)
(* is an error of the first.                                               *)
ProvidedDMACost(wl) ==
    PriorityDMACost(<<IF dma.direct THEN ConvertFromDirectCycleToDPUCyc(wl, NetworkOutput(wl))
                      ELSE ConvertFromSizeDivCycleToDPUCyc(wl, NetworkOutput(wl)),
                      DMATheoreticalCostProvider(DMANNWorkload_to_DMAWorkload(wl))>>)

TryPriorityProvider(t) ==
    LET wl == Request(t).wl
    IN  /\ pc[t] = "provide" /\ Model(t) = "dma"
        /\ \E c \in {ProvidedDMACost(create_workload(wl))} :
              /\ cache' = [cache EXCEPT !["dma"] = IF isErrorCode(c) THEN @ ELSE Added(@, wl, c)]
              /\ Received(t, c)
        /\ UNCHANGED <<env, enabled, dma, selectors, asked>>

-----------------------------------------------------------------------------
(* The answer of a call, from those of its requests. *)

Returns(t, cost) == frame' = [frame EXCEPT ![t].answer = cost] /\ Goto(t, "idle")

(* The kernels are done: c is their cost, and the transfers follow. *)
MovesOn(t, c) ==
    /\ frame' = [frame EXCEPT ![t] = [frame[t] EXCEPT !.cost = c, !.stage = "transfers", !.todo = Transfers(frame[t].call)]]
    /\ UNCHANGED pc

KernelsOf(f) == SubSeq(f.got, 1, Len(Kernels(f.call)))

TransfersOf(f) == SubSeq(f.got, Len(Kernels(f.call)) + 1, Len(f.got))

(* Mutant: divided first, as in the pre-split query. *)
LayerCostDividedFirst(c, n) == c \div n

(* A layer scales over its SHAVEs and tiles; an error is returned as it is. *)
LayerKernelCost(c, n) == IF isErrorCode(c) THEN c ELSE c \div n

(* The error codes are the last 23 values of the unsigned type, and the    *)
(* nearest float of each is MaxV + 1.                                      *)
AsFloat(c) == IF isErrorCode(c) THEN MaxV + 1 ELSE c

(* The tile's float quotient, converted to the unsigned type before it is  *)
(* tested.  Out of range that is undefined: 0 where the conversion goes    *)
(* through a 64-bit integer (x86-64), MaxV where it saturates.             *)
TileKernelCost(c, nSHV, undefined) ==
    LET q == AsFloat(c) \div nSHV IN IF q > MaxV THEN undefined ELSE q

LOCAL Largest(costs) == FoldLeft(LAMBDA x, y : IF x < y THEN y ELSE x, 0, costs)

(* A tile in error, or no tile with a cost, makes the whole an error. *)
extractLargestTime(costs) ==
    IF Largest(costs) = 0 \/ \E i \in DOMAIN costs : isErrorCode(costs[i]) THEN ERROR_TILE_OUTPUT ELSE Largest(costs)

(* The transfers of one tile are added with +=, the tiles with cost_adder. *)
TileTransfers(c, costs, tile, direction) ==
    LET mine == {i \in DOMAIN costs : Transfers(c)[i].tile = tile /\ Transfers(c)[i].wl.direction = direction}
    IN  FoldLeft(LAMBDA x, i : IF i \in mine THEN Wrap(x + costs[i]) ELSE x, 0, [i \in DOMAIN costs |-> i])

AllTransfers(c, costs, direction) ==
    FoldLeft(cost_adder, 0, [tile \in DOMAIN c.wls |-> TileTransfers(c, costs, tile, direction)])

SplitCost(c, cost, costs) ==
    cost_adder(cost_adder(cost, AllTransfers(c, costs, "DDR2CMX")), AllTransfers(c, costs, "CMX2DDR"))

KernelsDone(t) ==
    LET f == frame[t]
        c == f.call
    IN  /\ pc[t] = "work" /\ f.todo = <<>> /\ f.stage = "kernels"
        /\ \/ c.api = "shave" /\ Returns(t, f.got[1])
           \/ c.api = "descriptor" /\ Returns(t, TheoreticalStridedCost(c.desc))
           \/ c.api = "layer" /\ isErrorCode(LayerKernelCost(f.got[1], c.nSHV * c.nTiles)) /\ Returns(t, f.got[1])
           \/ /\ c.api = "layer" /\ ~isErrorCode(LayerKernelCost(f.got[1], c.nSHV * c.nTiles))
              /\ MovesOn(t, LayerKernelCost(f.got[1], c.nSHV * c.nTiles))
           \/ c.api = "presplit" /\ c.wls = <<>> /\ Returns(t, ERROR_L2_INVALID_PARAMETERS)
           \/ /\ c.api = "presplit" /\ c.wls # <<>>
              /\ \E undefined \in {0, MaxV} :
                    \E cost \in {extractLargestTime([i \in DOMAIN f.got |-> TileKernelCost(f.got[i], c.nSHV, undefined)])} :
                       IF isErrorCode(cost) THEN Returns(t, cost) ELSE MovesOn(t, cost)
        /\ UNCHANGED <<env, enabled, dma, cache, selectors, asked>>

TransfersDone(t) ==
    LET f == frame[t]
    IN  /\ pc[t] = "work" /\ f.todo = <<>> /\ f.stage = "transfers"
        /\ IF f.call.api = "layer" THEN Returns(t, FoldLeft(cost_adder, f.cost, TransfersOf(f)))
           ELSE Returns(t, SplitCost(f.call, f.cost, TransfersOf(f)))
        /\ UNCHANGED <<env, enabled, dma, cache, selectors, asked>>

-----------------------------------------------------------------------------
Step(t) ==
    \/ Ask(t) \/ AskAlone(t)
    \/ TryCache(t) \/ CheckGate(t) \/ TryProfiling(t)
    \/ FindSelector(t) \/ CreateSelector(t) \/ UseSelector(t) \/ AddToCache(t)
    \/ DmaTryCache(t) \/ TryPriorityProvider(t)
    \/ KernelsDone(t) \/ TransfersDone(t)

Next ==
    \/ \E t \in Threads : Step(t)
    \/ \E m \in Models, value \in BOOLEAN : setProfilingEnabledForAutoHint(m, value)

Spec == Init /\ [][Next]_vars

-----------------------------------------------------------------------------
Answered(t) == pc[t] = "idle" /\ frame[t].answer # NoAnswer

(* A reference that getOrCreate handed out (shave_devices.h:113) is used   *)
(* with no lock held: the selector behind it must still be the one in the  *)
(* map, although other threads may be creating it at the same time.        *)
SelectorsStayAlive ==
    \A t \in Threads : pc[t] = "use" => selectors[Place(t)] = frame[t].held

(* The workloads that other calls may have left in the cache. *)
OthersWorkloads == UNION {Range(Workloads(c)) \cup (IF c.api = "shave" THEN {c.wl} ELSE {}) : c \in SharedCalls}

(* What a warm call of w may be said to cost: the provider's cost, or,     *)
(* unless the environment forbids it, one measured for the same key.       *)
WarmCosts(w) ==
    {createDeviceMappedProvider(w)}
    \cup IF env = "ForcedOff" THEN {}
         ELSE {ServiceCost(v) : v \in {v \in OthersWorkloads \cup {w} : ShaveKey(v) = ShaveKey(w)}}

(* Whatever other threads cached, evicted or switched meanwhile, a SHAVE   *)
(* query answers a warm cost of its own workload, and with the prefetch    *)
(* asked for that cost plus the prefetch, once, whether the cost came from *)
(* the cache, the service or the provider (vpu_shave_cost_model.cpp:78).   *)
ShaveAnswer ==
    \A t \in Threads : Answered(t) /\ frame[t].call.api = "shave" =>
        frame[t].answer \in {ColdCost(frame[t].call.wl, c) : c \in WarmCosts(frame[t].call.wl)}

(* An operation that queryDeviceMappedSupportedOperations lists for a      *)
(* device (shave_provider_bundles.h) is not missing when it is asked for:  *)
(* some kernel is found under the names the providers translate it to.     *)
ListedIsAnswered ==
    \A t \in Threads :
        /\ Answered(t) /\ frame[t].call.api = "shave"
        /\ frame[t].answer = ERROR_SHAVE_OPERATOR_MISSING
        /\ frame[t].call.wl.name \in queryDeviceMappedSupportedOperations(frame[t].call.wl.device)
        => \E v \in Range(Visits(frame[t].call.wl)) :
              get_shave_instance(v.kind, v.name, frame[t].call.wl.device) # <<>>

LOCAL Failed(costs) == \E i \in DOMAIN costs : isErrorCode(costs[i])

LOCAL Sum(costs) == FoldLeft(LAMBDA x, y : x + y, 0, costs)

(* The exact costs of a layer whose requests all succeeded. *)
LOCAL ExactKernels(f) ==
    IF f.call.api = "layer" THEN f.got[1] \div (f.call.nSHV * f.call.nTiles)
    ELSE Largest(KernelsOf(f)) \div f.call.nSHV

LOCAL ExactCost(f) == ExactKernels(f) + Sum(TransfersOf(f))

(* Tiles that move at most one tensor each way, where += cannot wrap. *)
LOCAL OneTensorEach(c) == \A w \in Range(Workloads(c)) : Len(w.inputs) <= 1 /\ Len(w.outputs) <= 1

(* A SHAVE layer whose kernel or one of whose transfers fails has an error *)
(* for its cost, and one whose parts all succeed has exactly their sum, or *)
(* an error when that is not a number of cycles.  A pre-split layer gives  *)
(* the same promise about its transfers (vpu_layer_cost_model.cpp:786,     *)
(* 722-757), as long as each tile moves one tensor each way, and is an     *)
(* error when none of its tiles costs anything.                            *)
ShaveLayerExact ==
    \A t \in Threads : LET f == frame[t] IN
        Answered(t) /\ f.call.api \in {"layer", "presplit"} /\ Workloads(f.call) # <<>> =>
            /\ f.call.api = "layer" /\ Failed(f.got) => isErrorCode(f.answer)
            /\ OneTensorEach(f.call) /\ Failed(TransfersOf(f)) => isErrorCode(f.answer)
            /\ ~Failed(f.got) =>
                  IF ExactCost(f) > START_ERROR_RANGE \/ (f.call.api = "presplit" /\ ExactKernels(f) = 0)
                  THEN isErrorCode(f.answer) ELSE f.answer = ExactCost(f)

(* The comment before extractLargestTime in the pre-split SHAVE query      *)
(* (vpu_layer_cost_model.cpp:717): a tile with an error dominates.         *)
TileErrorDominates ==
    \A t \in Threads : Answered(t) /\ frame[t].call.api = "presplit" /\ Failed(KernelsOf(frame[t])) =>
        isErrorCode(frame[t].answer)

(* The forms a strided transfer is converted to on its way to a network or *)
(* to the classic model (dma_descriptor_transformers.h) move as many bytes *)
(* on each side, in the same direction, and are as contiguous.             *)
TransfersConserved ==
    \A t \in Threads : frame[t].call.api = "descriptor" =>
        LET d == frame[t].call.desc
            Same(side, new, back, flat) ==
                /\ getAccessedBytesNPU40_50(new) = getAccessedBytes(side)
                /\ getAccessedBytes(back) = getAccessedBytes(side)
                /\ getContiguousBytesNPU40_50(new) = getContiguousBytes(side)
                /\ getContiguousBytes(back) = getContiguousBytes(side)
                /\ tensor_size(flat) = getAccessedBytes(side)
            Agrees(nn, back, flat) ==
                /\ Same(d.src, nn.src, back.src, flat.input) /\ Same(d.dst, nn.dst, back.dst, flat.output)
                /\ getDirection(back) = getDirection(d)
        IN  checkDescriptorSanity(d) =>
                Agrees(fromStridedTensors_toDMANNWorkload_NPU40_50(d),
                       fromDMANNWorkload_NPU40_50_to_VPUDMADescriptor(fromStridedTensors_toDMANNWorkload_NPU40_50(d)),
                       fromVPUDMADescriptor_to_DMAWorkload(d))
=============================================================================
