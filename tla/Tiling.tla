------------------------------- MODULE Tiling -------------------------------
(***************************************************************************)
(* The intra-tile tiler (src/optimization, include/vpu/optimization): the  *)
(* ways to cut the part of a layer that is on one tile into DPU workloads, *)
(* and their costs.                                                        *)
(*                                                                         *)
(* A layer on a tile and a workload are operations of DPUValidation with   *)
(* one more field: offset ([w, h, c]).                                     *)
(***************************************************************************)
EXTENDS DPUValidation

CONSTANTS
    InferredCycles(_, _),  \* regime, workload: what the cost providers answer
    Exception              \* the L1 query throws

(* The L1 query: an operation that is not valid has the code of its        *)
(* report, the others are inferred as they were sanitized.                 *)
InferIfUsable(regime, checked) ==
    IF checked.report # NO_ERROR THEN checked.report ELSE InferredCycles(regime, checked.wl)

DPU(regime, workload) == InferIfUsable(regime, sanitize_workload(workload))

createIncompleteTile(layer, new_shape, offsets) ==
    [layer EXCEPT !.out = new_shape, !.offset = offsets]

requireMaxZTile(layer) ==
    AtLeast(layer.device, "VPU_2_7") /\ is_dwconv_family_operation(layer.op)

isNoSplitOperation(op) ==
    op \in {"CONVOLUTION", "ELTWISE", "CM_CONVOLUTION", "LAYER_NORM", "ELTWISE_MUL"}

isHWTilingAllowed(layer, options) ==
    /\ ~(options.nDPU = 1 /\ \E i \in DOMAIN options.strategies : options.strategies[i] = "Z_TILING")
    /\ ~requireMaxZTile(layer)

(* The input of a workload from its output; halos stay inside of it. *)
inferInputTensorShape(wl) ==
    LET in == [w |-> helper_input_dim(wl.out.w, wl.kernel.w, wl.pad.left + wl.pad.right, wl.stride.w),
               h |-> helper_input_dim(wl.out.h, wl.kernel.h, wl.pad.top + wl.pad.bottom, wl.stride.h),
               c |-> IF wl.op \in {"CONVOLUTION", "CM_CONVOLUTION"} \/ wl.autopad
                     THEN wl.in.c ELSE wl.out.c]
        h  == wl.halo.input
    IN  [wl EXCEPT !.in = in,
                   !.halo.input = [top   |-> Min({h.top, in.h}),   bottom |-> Min({h.bottom, in.h}),
                                   left  |-> Min({h.left, in.w}),  right  |-> Min({h.right, in.w}),
                                   front |-> Min({h.front, in.c}), back   |-> Min({h.back, in.c})]]

setWorkloadsModeAndInfereInputShape(split, mode) ==
    [i \in DOMAIN split |-> inferInputTensorShape([split[i] EXCEPT !.mode = mode])]

(* A set of positive numbers as an ascending sequence. *)
Ascending(S) == SelectSeq([i \in 1..Max({0} \cup S) |-> i], LAMBDA i : i \in S)

PowersOfTwo == {2^i : i \in 0..13}   \* up to the largest dimension, 8192

getSplitsFromRange(maxSplitRange, maxLimit) ==
    {maxSplitRange \div p : p \in {q \in PowersOfTwo :
        q < maxSplitRange /\ maxSplitRange % q = 0 /\ maxSplitRange \div q <= maxLimit}}

(* The multiples of the number of DPUs up to a limit.  With 0 DPUs the     *)
(* loop of the code does not end.                                          *)
MultiplesOf(numDPU, maxSplits) == {n \in 1..maxSplits : n % numDPU = 0}

createTileZ(layer, channels, offset_channels) ==
    [createIncompleteTile(layer, [layer.out EXCEPT !.c = channels],
                          [w |-> 0, h |-> 0, c |-> offset_channels]) EXCEPT
        !.halo.inbound.front = @ + offset_channels,
        !.halo.inbound.back  = @ + layer.out.c - channels - offset_channels]

-----------------------------------------------------------------------------
(* HWTiling, HTiling and WTiling. *)

HWTiling_generateSplitPool(layer, maxWorkloads, numDPU, mode) ==
    IF numDPU = 1 THEN {1}
    ELSE LET grid == mpe_mode_to_grid(mode)
             maxXY == (layer.out.h \div grid.w) * (layer.out.w \div grid.h)
             maxSplits == Min({maxWorkloads, maxXY})
         IN  {1} \cup MultiplesOf(numDPU, maxSplits) \cup getSplitsFromRange(maxXY, maxSplits)

(* The pairs (n/i, i) and (i, n/i), i from 1. *)
getFactors(n) ==
    LET small == Ascending({i \in 1..n : i * i <= n /\ n % i = 0})
    IN  FlattenSeq([k \in DOMAIN small |-> << <<n \div small[k], small[k]>>,
                                               <<small[k], n \div small[k]>> >>])

(* What the halos of the tile become for the workload in row idx of nH and *)
(* column idy of nW.  The record is made anew for each row only, so the    *)
(* broadcast count of the right side, once cleared in the first column, is *)
(* not there any more in the last one.                                     *)
HaloNow(halo, idx, nH, idy, nW, height, width) ==
    [halo EXCEPT
        !.input.top     = IF idx = 0 THEN @ ELSE 0,
        !.output.top    = IF idx = 0 THEN Min({@, height}) ELSE 0,
        !.broadcast_cnt.top = IF idx = 0 THEN @ ELSE 0,
        !.input.bottom  = IF idx = nH - 1 THEN @ ELSE 0,
        !.output.bottom = IF idx = nH - 1 THEN Min({@, height}) ELSE 0,
        !.broadcast_cnt.bottom = IF idx = nH - 1 THEN @ ELSE 0,
        !.input.left    = IF idy = 0 THEN @ ELSE 0,
        !.output.left   = IF idy = 0 THEN Min({@, width}) ELSE 0,
        !.broadcast_cnt.left = IF idy = 0 THEN @ ELSE 0,
        !.input.right   = IF idy = nW - 1 THEN @ ELSE 0,
        !.output.right  = IF idy = nW - 1 THEN Min({@, width}) ELSE 0,
        !.broadcast_cnt.right = IF nW = 1 THEN @ ELSE 0]

(* Mutant: the other workloads of the tile are not counted. *)
createTileHWAlone(layer, width, height, offset_width, offset_height, halo) ==
    [createIncompleteTile(layer, [layer.out EXCEPT !.w = width, !.h = height],
                          [w |-> offset_width, h |-> offset_height, c |-> 0]) EXCEPT
        !.halo = [halo EXCEPT !.inbound = layer.halo.inbound]]

createTileHW(layer, width, height, offset_width, offset_height, halo) ==
    [createIncompleteTile(layer, [layer.out EXCEPT !.w = width, !.h = height],
                          [w |-> offset_width, h |-> offset_height, c |-> 0]) EXCEPT
        !.halo = [halo EXCEPT
            !.inbound.top    = layer.halo.inbound.top + offset_height,
            !.inbound.bottom = layer.halo.inbound.bottom + layer.out.h - height - offset_height,
            !.inbound.left   = layer.halo.inbound.left + offset_width,
            !.inbound.right  = layer.halo.inbound.right + layer.out.w - width - offset_width]]

(* Mutant: the last row and column are as large as the others. *)
SplitOverHWUntrimmed(layer, widthFactor, heightFactor, mode) ==
    LET grid == mpe_mode_to_grid(mode)
        maxWidth  == round_up(ceil_division(layer.out.w, widthFactor), grid.w)
        maxHeight == round_up(ceil_division(layer.out.h, heightFactor), grid.h)
        nW == ceil_division(layer.out.w, maxWidth)
        nH == ceil_division(layer.out.h, maxHeight)
        Cell(k) == createTileHW(layer, maxWidth, maxHeight, ((k - 1) % nW) * maxWidth,
                                ((k - 1) \div nW) * maxHeight,
                                HaloNow(layer.halo, (k - 1) \div nW, nH, (k - 1) % nW, nW,
                                        maxHeight, maxWidth))
    IN  setWorkloadsModeAndInfereInputShape([k \in 1..(nW * nH) |-> Cell(k)], mode)

(* Rows from the top, in each the columns from the left. *)
splitOverHW(layer, widthFactor, heightFactor, mode) ==
    LET grid == mpe_mode_to_grid(mode)
        maxWidth  == round_up(ceil_division(layer.out.w, widthFactor), grid.w)
        maxHeight == round_up(ceil_division(layer.out.h, heightFactor), grid.h)
        nW == ceil_division(layer.out.w, maxWidth)
        nH == ceil_division(layer.out.h, maxHeight)
        Cell(k) ==
            LET idx == (k - 1) \div nW
                idy == (k - 1) % nW
                height == Slice(layer.out.h, maxHeight, idx + 1)
                width  == Slice(layer.out.w, maxWidth, idy + 1)
            IN  createTileHW(layer, width, height, idy * maxWidth, idx * maxHeight,
                             HaloNow(layer.halo, idx, nH, idy, nW, height, width))
    IN  setWorkloadsModeAndInfereInputShape([k \in 1..(nW * nH) |-> Cell(k)], mode)

(* A variant for each way to write n as columns times rows. *)
HWTiling_tileMultipleWl(layer, mode, n) ==
    LET fit == SelectSeq(getFactors(n), LAMBDA f : f[1] <= layer.out.w /\ f[2] <= layer.out.h)
    IN  [k \in DOMAIN fit |-> splitOverHW(layer, fit[k][1], fit[k][2], mode)]

HTiling_tileMultipleWl(layer, mode, n) == <<splitOverHW(layer, 1, n, mode)>>

WTiling_tileMultipleWl(layer, mode, n) == <<splitOverHW(layer, n, 1, mode)>>

-----------------------------------------------------------------------------
(* ZTiling. *)

ZTiling_generateSplitPool(layer, maxWorkloads, numDPU, mode) ==
    IF \/ numDPU = 1 /\ isNoSplitOperation(layer.op)
       \/ layer.device = "VPU_2_0" /\ mode # "VECTOR" /\ layer.op # "CONVOLUTION"
    THEN {1}
    ELSE LET validZTiles == UNION {{2^i, 2^i + 16} : i \in 4..7}
             maxSplitsInZ == {ceil_division(layer.out.c, z) : z \in validZTiles}
             maxSplits == Min({maxWorkloads, Max(maxSplitsInZ)})
         IN  {1} \cup MultiplesOf(numDPU, maxSplits)
                 \cup UNION {getSplitsFromRange(n, maxSplits) : n \in maxSplitsInZ}

getValidIntraTilesChannelsOptions(device) ==
    IF AtLeast(device, "NPU_RESERVED_1") THEN SmartRange(16, 256, 16, 32)
    ELSE SmartRange(16, 64, 16, 32)

isValidZ(channels, validZTiles) == validZTiles = {} \/ channels \in validZTiles

(* n slices of max_Z channels, the last ones with what is left, which may  *)
(* be nothing where every size is valid.  Empty when there is no split.    *)
splitOverZ(layer, mode, n, validZTiles) ==
    LET grid_z == mpe_mode_to_grid(mode).c
        all == layer.out.c
        max_Z == round_up(ceil_division(all, n), grid_z)
        Channels(i) == Slice(all, max_Z, i)
    IN  IF all < grid_z \/ all % grid_z # 0
           \/ \E i \in 1..n : Channels(i) % grid_z # 0 \/ ~isValidZ(Channels(i), validZTiles)
        THEN <<>>
        ELSE << setWorkloadsModeAndInfereInputShape(
                    [i \in 1..n |-> createTileZ(layer, Channels(i), (i - 1) * max_Z)], mode) >>

(* divideBalanced: bins of almost the same size, all of them in the range; *)
(* <<>> when there are none.                                               *)
divideBalanced(range, toSplit, bins) ==
    LET divide[left \in 0..toSplit, n \in 0..bins] ==
            IF left = 0 \/ n = 0 THEN <<>>
            ELSE LET slice == roundToNextLarger(range, ceil_division(left, n))
                 IN  IF slice = Nullopt \/ slice > left THEN <<>>
                     ELSE IF slice = left /\ n = 1 THEN <<slice>>
                     ELSE LET rest == divide[left - slice, n - 1]
                          IN  IF rest = <<>> THEN <<>> ELSE <<slice>> \o rest
    IN  IF toSplit <= 0 \/ bins <= 0 THEN <<>> ELSE divide[toSplit, bins]

(* The channels before the i-th of the slices. *)
OffsetOf(slices, i) == FoldLeft(LAMBDA a, b : a + b, 0, SubSeq(slices, 1, i - 1))

splitInNOverZ(layer, mode, n, range) ==
    LET bins == divideBalanced(range, layer.out.c, n)
    IN  IF Len(bins) # n THEN <<>>
        ELSE << setWorkloadsModeAndInfereInputShape(
                    [i \in 1..n |-> createTileZ(layer, bins[i], OffsetOf(bins, i))], mode) >>

ZTiling_tileMultipleWl(layer, mode, n) ==
    LET range == getValidIntraTilesChannelsOptions(layer.device)
        max_z == requireMaxZTile(layer)
    IN  IF ~AtLeast(layer.device, "NPU_5_0")
        THEN splitOverZ(layer, mode, n,
                        IF max_z THEN ToSet(transformSmartRangetoVector(range)) ELSE {})
        ELSE splitInNOverZ(layer, mode, n, IF max_z THEN range ELSE SmartRange(1, 8192, 16, NoDivisor))

-----------------------------------------------------------------------------
(* Costs of a split (WorkloadCostEvaluator). *)

(* dpu_schedule: each cost to the least loaded processor, which also pays  *)
(* the overhead; the most loaded one is the result.                        *)
dpu_schedule(n_processors, costs, overhead) ==
    LET Least(q) == CHOOSE p \in DOMAIN q : \A r \in DOMAIN q : q[p] <= q[r]
        Run(q, cost) == [q EXCEPT ![Least(q)] = cost_adder(cost_adder(@, cost), overhead)]
        queue == FoldLeft(Run, [p \in 1..n_processors |-> 0], costs)
    IN  Max(ToSet(queue))

firstError(costs) == SelectInSeq(costs, isErrorCode)

(* 0 for no workload, the first error if there is one, else the schedule.  *)
(* Exception when the query of any workload throws.                        *)
SplitCycles(costs, n_processors, overhead) ==
    IF \E i \in DOMAIN costs : costs[i] = Exception THEN Exception
    ELSE IF firstError(costs) # 0 THEN costs[firstError(costs)]
    ELSE dpu_schedule(n_processors, costs, overhead)

computeSplitCycles(regime, workloads, overhead) ==
    IF workloads = <<>> THEN 0
    ELSE SplitCycles([i \in DOMAIN workloads |-> DPU(regime, workloads[i])],
                     nDPU_per_tile(workloads[1].device), overhead)

(* A layer of some other number of channels; depthwise operations have as  *)
(* many inputs as outputs, but for the alignment of the input.             *)
createTestLayer(layer, channels) ==
    LET in_c == IF channels % 16 = 0 \/ (channels < 16 /\ layer.in_autopad) THEN channels
                ELSE dw_channel_align(channels)
        test == [layer EXCEPT !.out.c = channels]
    IN  IF is_dwconv_family_operation(layer.op) THEN [test EXCEPT !.in.c = in_c] ELSE test

(* The sizes whose cost is regular, with that cost; Exception if one throws. *)
RegularBlocks(blocks) ==
    IF \E i \in DOMAIN blocks : blocks[i].time = Exception THEN Exception
    ELSE SelectSeq(blocks, LAMBDA b : ~isErrorCode(b.time) /\ b.time > 0)

measureCandidateBlocks(regime, layer, mode, sizes) ==
    RegularBlocks([i \in DOMAIN sizes |->
        [size |-> sizes[i],
         time |-> DPU(regime, [createTestLayer(layer, sizes[i]) EXCEPT !.mode = mode])]])

-----------------------------------------------------------------------------
(* EfficiencyBasedSplitter: blocks whose sizes add up to the target, at    *)
(* the least cost, then with the fewest blocks.  Costs are whole numbers   *)
(* of cycles here: the tolerance of 1e-9 only hides rounding.              *)

Unreachable == [cost |-> -1, count |-> 0, choice |-> 0]

(* Mutant: a cheaper way to a size that was reached before is not taken. *)
BetterFirst(cost, count, state) == state = Unreachable

Better(cost, count, state) ==
    \/ state = Unreachable
    \/ cost < state.cost
    \/ cost = state.cost /\ count < state.count

(* The forward pass: every reached size, in order, is extended by every    *)
(* block, in order.  Sizes are in units of 16.                             *)
DynProg(target, blocks) ==
    LET Extend(table, i, block) ==
            LET next == i + block.size \div 16
                cost == table[i].cost + block.time
            IN  IF next <= target /\ Better(cost, table[i].count + 1, table[next])
                THEN [table EXCEPT ![next] = [cost |-> cost, count |-> table[i].count + 1,
                                              choice |-> block.size]]
                ELSE table
        From(table, i) ==
            IF table[i] = Unreachable THEN table
            ELSE FoldLeft(LAMBDA t, b : IF b.size % 16 = 0 THEN Extend(t, i, b) ELSE t, table, blocks)
        start == [i \in 0..target |-> IF i = 0 THEN [cost |-> 0, count |-> 0, choice |-> 0]
                                      ELSE Unreachable]
    IN  FoldLeft(From, start, [i \in 1..target |-> i - 1])

(* The choices that lead to a size, the last one first. *)
Backtrack(table, last) ==
    LET back[i \in DOMAIN table] ==
            IF i = 0 THEN <<>>
            ELSE <<table[i].choice>> \o back[i - table[i].choice \div 16]
    IN  back[last]

divideAligned(blocks, target) ==
    LET table == DynProg(target \div 16, blocks)
    IN  IF table[target \div 16] = Unreachable THEN <<>> ELSE Backtrack(table, target \div 16)

TimeOf(blocks, sizes) ==
    LET Time(s) == blocks[SelectInSeq(blocks, LAMBDA b : b.size = s)].time
    IN  FoldLeft(LAMBDA a, s : a + Time(s), 0, sizes)

(* A target that is no multiple of 16 ends with exactly one remainder. *)
divideEfficiency(blocks, remainders, target) ==
    LET Compatible(r) == r.size % 16 = target % 16 /\ r.size <= target
        Try(best, r) ==
            LET prefix == IF target = r.size THEN <<>> ELSE divideAligned(blocks, target - r.size)
                cost   == TimeOf(blocks, prefix) + r.time
                count  == Len(prefix) + 1
            IN  IF ~Compatible(r) \/ (target > r.size /\ prefix = <<>>) THEN best
                ELSE IF best = Unreachable \/ cost < best.cost
                        \/ (cost = best.cost /\ count < best.count)
                THEN [cost |-> cost, count |-> count, bins |-> prefix \o <<r.size>>]
                ELSE best
        found == FoldLeft(Try, Unreachable, remainders)
    IN  IF target <= 0 THEN <<>>
        ELSE IF target % 16 = 0 THEN divideAligned(blocks, target)
        ELSE IF found = Unreachable THEN <<>> ELSE found.bins

-----------------------------------------------------------------------------
(* ZEffTiling, for the devices from NPU_RESERVED on. *)

is_output_unaligned(layer) == layer.out.c % 16 # 0 /\ layer.autopad

ZEff_generateSplitPool(layer, numDPU) ==
    IF \/ numDPU = 1 /\ isNoSplitOperation(layer.op)
       \/ (layer.in.c < 16 \/ layer.out.c < 16) /\ (layer.in_autopad \/ layer.autopad)
    THEN 1 ELSE 0

CandidateSizes(layer) ==
    LET max_block == IF layer.out.c < 32 THEN 16 ELSE (layer.out.c \div 32) * 32
        isDWLimitedCase == /\ layer.act_sparsity = 0 /\ layer.kernel = [w |-> 1, h |-> 1]
                           /\ layer.out.w <= 16 /\ layer.out.h <= 16
                           /\ is_dwconv_family_operation(layer.op)
        effective == IF isDWLimitedCase THEN Min({32, max_block}) ELSE max_block
    IN  transformSmartRangetoVector(SmartRange(16, Min({256, effective}), 16, 32))

(* All sizes with the residue of the output; for depthwise operations only *)
(* those for which the input has enough channels.                          *)
RemainderSizes(layer) ==
    LET oc == layer.out.c
        all == [k \in 1..(oc \div 16 + 1) |-> (oc % 16) + (k - 1) * 16]
        in_ch(r) == IF r < 16 /\ layer.in_autopad THEN r ELSE dw_channel_align(r)
    IN  IF ~is_output_unaligned(layer) THEN <<>>
        ELSE IF is_dwconv_family_operation(layer.op)
        THEN SelectSeq(all, LAMBDA r : oc - r + in_ch(r) <= layer.in.c)
        ELSE all

(* The workloads of a partition; the remainder is padded.  The input of a  *)
(* padded depthwise remainder is aligned like that of the layer it was     *)
(* measured with.                                                          *)
ZEffWorkloads(layer, mode, bins) ==
    LET last(i) == is_output_unaligned(layer) /\ i = Len(bins)
        Raw(i) == [createTileZ(layer, bins[i], OffsetOf(bins, i)) EXCEPT !.autopad = last(i), !.mode = mode]
        Aligned(wl, i) == IF last(i) /\ is_dwconv_family_operation(layer.op)
                          THEN [wl EXCEPT !.in.c = dw_channel_align(wl.out.c)] ELSE wl
    IN  [i \in DOMAIN bins |-> Aligned(inferInputTensorShape(Raw(i)), i)]

splitOverZEfficiency(layer, mode, blocks, remainders) ==
    LET NoneIfEmpty(bins) == IF bins = <<>> THEN <<>> ELSE <<ZEffWorkloads(layer, mode, bins)>>
    IN  NoneIfEmpty(IF blocks = <<>> THEN <<>> ELSE divideEfficiency(blocks, remainders, layer.out.c))

-----------------------------------------------------------------------------
(* The algorithms and what they produce. *)

getTilingAlgorithms(layer, options) ==
    LET Allowed(s) == s = "Z_TILING" \/ isHWTilingAllowed(layer, options)
        Algo(s) == IF s = "Z_TILING" /\ AtLeast(layer.device, "NPU_RESERVED") THEN "ZEff" ELSE s
        kept == SelectSeq(options.strategies, Allowed)
    IN  [i \in DOMAIN kept |-> Algo(kept[i])]

generateSplitPool(algo, layer, options, mode) ==
    IF algo = "Z_TILING"
    THEN ZTiling_generateSplitPool(layer, options.maxWorkloads, options.nDPU, mode)
    ELSE HWTiling_generateSplitPool(layer, options.maxWorkloads, options.nDPU, mode)

tileMultipleWl(algo, layer, mode, n) ==
    CASE algo = "Z_TILING"  -> ZTiling_tileMultipleWl(layer, mode, n)
      [] algo = "HW_TILING" -> HWTiling_tileMultipleWl(layer, mode, n)
      [] algo = "H_TILING"  -> HTiling_tileMultipleWl(layer, mode, n)
      [] algo = "W_TILING"  -> WTiling_tileMultipleWl(layer, mode, n)

(* One workload is the layer itself, with its input computed again. *)
split_tile_in_workloads(algo, layer, mode, n) ==
    IF n = 1 THEN <<setWorkloadsModeAndInfereInputShape(<<layer>>, mode)>>
    ELSE tileMultipleWl(algo, layer, mode, n)

(* The modes of the device for this operation, shape and data type. *)
ExecutionModes(layer) ==
    getValidTilingExecutionMode(
        layer.device, layer.op,
        is_fp16family_dtype(layer.in_type) \/ is_fp16family_dtype(layer.out_type), layer.out)

(* The variants in the order of the three nested loops. *)
Variants(layer, options) ==
    LET algos == getTilingAlgorithms(layer, options)
        modes == ExecutionModes(layer)
        Pool(a, m) == Ascending(generateSplitPool(a, layer, options, m))
        For(a, m) == [k \in DOMAIN Pool(a, m) |-> [algo |-> a, mode |-> m, n |-> Pool(a, m)[k]]]
    IN  FlattenSeq([i \in DOMAIN algos |->
            FlattenSeq([j \in DOMAIN modes |-> For(algos[i], modes[j])])])

(* Zero cycles are an error, and so is an exception on the usual path. *)
ZeroIsError(cost) == IF cost <= 0 THEN ERROR_TILE_SPLIT_ZERO_CYC_OUTPUT ELSE cost

Caught(cost) == IF cost = Exception THEN ERROR_TILE_SPLIT_EXCEPTION ELSE ZeroIsError(cost)

MeasureSplits(regime, options, splits) ==
    [i \in DOMAIN splits |->
        [cost |-> computeSplitCycles(regime, splits[i], options.runtimeOverhead), workloads |-> splits[i]]]

(* The splits of one variant. *)
CaughtSplits(measured) == [i \in DOMAIN measured |-> [measured[i] EXCEPT !.cost = Caught(@)]]

MeasureVariant(regime, layer, options, v) ==
    CaughtSplits(MeasureSplits(regime, options, split_tile_in_workloads(v.algo, layer, v.mode, v.n)))

(* The efficiency path catches nothing: an exception of the L1 query is    *)
(* the result of the whole call.  Without blocks a mode has no split.      *)
PassedSplits(measured) ==
    IF \E i \in DOMAIN measured : measured[i].cost = Exception THEN Exception
    ELSE [i \in DOMAIN measured |-> [measured[i] EXCEPT !.cost = ZeroIsError(@)]]

ZEffSplits(layer, mode, blocks, rems) ==
    IF blocks = <<>> \/ (is_output_unaligned(layer) /\ rems = <<>>) THEN <<>>
    ELSE splitOverZEfficiency(layer, mode, blocks, rems)

MeasureZEff(regime, layer, options, mode) ==
    LET blocks == measureCandidateBlocks(regime, layer, mode, CandidateSizes(layer))
        rems   == measureCandidateBlocks(regime, layer, mode, RemainderSizes(layer))
        Splits(b, r) == IF b = Exception \/ (b # <<>> /\ r = Exception) THEN Exception
                        ELSE ZEffSplits(layer, mode, b, r)
        Measured(splits) == IF splits = Exception THEN Exception
                            ELSE PassedSplits(MeasureSplits(regime, options, splits))
    IN  Measured(IF ZEff_generateSplitPool(layer, options.nDPU) = 1
                 THEN <<setWorkloadsModeAndInfereInputShape(<<layer>>, mode)>>
                 ELSE Splits(blocks, rems))

(* The comparator of min_element: an error or a zero is less than nothing. *)
Bad(cost) == isErrorCode(cost) \/ cost <= 0

LessThan(a, b) == ~Bad(a) /\ (Bad(b) \/ a < b)

(* min_element: the first that no later one is less than. *)
minimum_split(splits) ==
    FoldLeft(LAMBDA best, i : IF LessThan(splits[i].cost, splits[best].cost) THEN i ELSE best,
             1, [i \in DOMAIN splits |-> i])
=============================================================================
