----------------------------- MODULE ShaveModels ----------------------------
(***************************************************************************)
(* The equations and the performance models of the SHAVE kernels           *)
(* (include/vpu/shave: shave_equations.h, shave_model_basics.h,            *)
(* ShaveModel1to1.h, SoftmaxModel.h, GatherModel.h, NormalizeL2Model.h,    *)
(* MVNModel.h, poly_models.h, VPUEM_*.h, shave_heuristic_models.h).        *)
(*                                                                         *)
(* Real numbers are integers here: times and slopes in nanoseconds,        *)
(* factors and ratios in thousandths, every quotient rounded down.         *)
(***************************************************************************)
EXTENDS Cycles, VPUTensor, FiniteSets

CONSTANT
    exp(_)      \* exp(x): e to the minus x, both in thousandths

LOCAL Smallest(S) == CHOOSE x \in S : \A y \in S : x <= y

LOCAL Largest(S) == CHOOSE x \in S : \A y \in S : y <= x

Shape(t) == <<t.w, t.h, t.c, t.b>>

(* The sizes of a tensor from its innermost to its outermost dimension. *)
InOrder(t) == [i \in 1..4 |-> t[layout_to_order(t.layout)[i]]]

-----------------------------------------------------------------------------
(* From times and SHAVE cycles to DPU cycles. *)

toDPUCycles(ns, dpu) == toCycleFromReal(ns * dpu, 1000)

toDPUCyclesAnotherFreq(ns, nominal_shv, dpu, shv) ==
    toCycleFromReal(((ns * nominal_shv) \div shv) * dpu, 1000)

multiply_by_ratio(cycles, numerator, denominator) ==
    CASE isErrorCode(cycles) -> cycles
      [] ~isErrorCode(cycles) /\ (numerator <= 0 \/ denominator <= 0) -> ERROR_INVALID_CONVERSION_TO_CYCLES
      [] OTHER -> toCycleFromReal((cycles * numerator) \div denominator, 1)

toDPUCyclesFromShaveCycles(shaveCycles, dpu, shv) ==
    IF shaveCycles < 0 \/ dpu <= 0 \/ shv <= 0 \/ shaveCycles > MaxV
    THEN ERROR_INVALID_CONVERSION_TO_CYCLES
    ELSE multiply_by_ratio(shaveCycles, dpu, shv)

HeuristicDPUCycles(shaveCycles, dpu, shv) ==
    IF isErrorCode(shaveCycles) THEN shaveCycles ELSE toDPUCyclesFromShaveCycles(shaveCycles, dpu, shv)

-----------------------------------------------------------------------------
(* Equations. *)

FirstDegreeEquation(eq, size) == eq.slope * size + eq.intercept

(* Undefined for a single element, as the quotient 0/0 of the code is. *)
getCoeff(eq, size, selected) ==
    ((((size - selected) * 1000) \div (size - 1)) * exp(eq.alpha * (selected - 1))) \div (1000 * selected)

VariableSlopeFirstDegreeEquation(eq, size, selected) ==
    (eq.slope + (getCoeff(eq, size, selected) * eq.maximum_diff_slope) \div 1000) * size + eq.intercept

dim_val(d) == IF d > 1 THEN d ELSE 1

volume_ratio(numerator, denominator) ==
    IF numerator > 1 THEN ((numerator - 1) * 1000) \div (denominator - 1) ELSE 0

compute_intermediate_coeff(d) == volume_ratio(d[2] * d[3], d[1] * d[2] * d[3] * d[4])

VariableSlopeMiddleCommonAxesFrstDegEq(eq, size, d) ==
    (eq.best_case_slope
        + (volume_ratio(dim_val(d[4]), size) * eq.worst_case_slope
           + compute_intermediate_coeff(d) * eq.intermediate_case_slope) \div 1000) * size
    + eq.intercept

compute_coef_0(eq, total, selected) ==
    IF selected > 1
    THEN ((1000 - volume_ratio(selected, total)) * exp(eq.alpha * (selected - 1))) \div (1000 * selected)
    ELSE 1000

compute_coef_1(d) == volume_ratio(d[2] * d[3] * d[4], d[1] * d[2] * d[3] * d[4])
compute_coef_2(d) == volume_ratio(d[3] * d[4], d[1] * d[2] * d[3] * d[4])
compute_coef_3(d) == volume_ratio(d[4], d[1] * d[2] * d[3] * d[4])

get_slope(eq, c0, c1, c2, c3) ==
    LET c21  == (c2 * c1) \div 1000
        c321 == (c3 * c21) \div 1000
    IN  eq.best_case_slope
        + (c0 * (eq.worst_case_slope - eq.best_case_slope) + (c1 + c21 + c321) * eq.slope_delta_diff) \div 1000

VariableSlope4MultiAxesFrstDegEq(eq, size, d) ==
    get_slope(eq, compute_coef_0(eq, size, dim_val(d[1]) * dim_val(d[2]) * dim_val(d[3]) * dim_val(d[4])),
              compute_coef_1(d), compute_coef_2(d), compute_coef_3(d)) * size
    + eq.intercept

(* How many elements go through the unrolled loop, the vector loop and the *)
(* scalar loop, each with its elements per cycle in thousandths.           *)
VPUEMPiecewiseEq(f, dtype, bytes, cost_curve_ratio) ==
    LET blk    == compute_elements_count_from_bytes(bytes, dtype)
        vector == compute_elements_count_from_bytes(16, dtype)
        unrolled == blk - (blk % (vector * f.unroll))
        vectored == (blk - unrolled) - ((blk - unrolled) % vector)
        scalar == blk - unrolled - vectored
    IN  (((unrolled * 1000) \div f.slope[1] + (vectored * 1000) \div f.slope[2]
          + (scalar * 1000) \div f.slope[3]) * 1000) \div cost_curve_ratio

(* The three loops of VPUEMSoftmaxEq over c elements, hw times. *)
UnrollCycles(p, unroll_num, vector_num, scalar_num, hw) ==
    p.unroll_offset
    + (p.unroll_slope * unroll_num
       + (IF vector_num = 0 THEN 0 ELSE p.vector_slope0 + p.vector_slope * (vector_num - 1))
       + (IF scalar_num = 0 THEN 0 ELSE p.scalar_slope0 + p.scalar_slope * (scalar_num - 1))) * hw
    + p.unroll_overhead * (hw - 1)

VectorCycles(p, vector_num, scalar_num, hw) ==
    p.vector_offset
    + (p.vector_slope * vector_num
       + (IF scalar_num = 0 THEN 0 ELSE p.scalar_slope0 + p.scalar_slope * (scalar_num - 1))) * hw
    + p.vector_overhead * (hw - 1)

ScalarCycles(p, scalar_num, hw) ==
    p.scalar_offset + p.scalar_slope * scalar_num * hw + p.scalar_overhead * (hw - 1)

LoopCycles(p, vector, c, hw) ==
    LET unroll == vector * p.unroll
        unroll_num == c \div unroll
        vector_num == (c % unroll) \div vector
        scalar_num == (c % unroll) % vector
    IN  CASE unroll_num # 0 -> UnrollCycles(p, unroll_num, vector_num, scalar_num, hw)
          [] unroll_num = 0 /\ vector_num # 0 -> VectorCycles(p, vector_num, scalar_num, hw)
          [] unroll_num = 0 /\ vector_num = 0 /\ scalar_num # 0 -> ScalarCycles(p, scalar_num, hw)
          [] OTHER -> -1

(* With one pixel c is taken for bytes, otherwise for elements. *)
VPUEMSoftmaxEq(f, dtype, h, hw, c) ==
    LET vector == 16 \div dtype_to_bytes(dtype)
        elements == IF hw = 1 THEN c \div dtype_to_bytes(dtype) ELSE c
        lines == IF hw = 1 THEN 1 ELSE h
    IN  IF f.spatial
        THEN LoopCycles(f.params, vector, lines * (hw \div lines) * vector, elements \div vector)
        ELSE LoopCycles(f.params, vector, elements, hw)

VPUEMSpatialEq(slope, dtype, bytes) == (1000 \div slope) * (bytes \div dtype_to_bytes(dtype))

-----------------------------------------------------------------------------
(* Models measured in time.  m holds the coefficients of the kernel. *)

Shave1to1Block(m) == IF m.unroll > 1 THEN m.vector * m.unroll ELSE m.unroll

is_in_first_block_of_operations(m, ops) == m.unroll > 1 /\ ops < Shave1to1Block(m)
is_scalar_value(m, ops) == ops % m.vector # 0
is_first_value_in_block(m, ops) == m.unroll > 1 /\ ops % Shave1to1Block(m) = 0

ShaveModel1to1(m, bytes) ==
    LET ops == compute_elements_count_from_bytes(bytes, m.dtype)
    IN  FirstDegreeEquation(m, bytes)
        - (IF is_in_first_block_of_operations(m, ops) THEN m.offset_unroll ELSE 0)
        + (IF is_scalar_value(m, ops) THEN m.offset_scalar ELSE 0)
        + (IF is_first_value_in_block(m, ops) THEN m.offset_scalar ELSE 0)

(* The output has as many elements as the displacement, at least. *)
calculate_intra_block_offset(m, ops) ==
    IF m.unroll = 1 THEN 0
    ELSE (m.intra_block_offset * (((ops - m.displacement) % (m.vector * m.unroll)) \div m.vector)) \div (m.unroll - 1)

calculate_vector_offset(m, ops) ==
    IF m.vector = 1 THEN 0
    ELSE (m.vector_offset * (((ops - m.displacement) % (m.vector * m.unroll)) % m.vector)) \div (m.vector - 1)

ShaveModel1to1NPU40(m, bytes) ==
    LET ops == compute_elements_count_from_bytes(bytes, m.dtype)
    IN  FirstDegreeEquation(m, bytes)
        - (IF ops <= m.vector * m.unroll THEN m.offset_unroll ELSE 0)
        + calculate_intra_block_offset(m, ops)
        + calculate_vector_offset(m, ops)

(* The largest power of two, up to 32, that divides the size. *)
getEquationType(unselected) == Largest({t \in {1, 2, 4, 8, 16, 32} : unselected % t = 0})

normalizeUnselectedValue(unselected, type) ==
    IF type = 32 THEN unselected ELSE (unselected \div 32) * 32 + type

SoftmaxModel(m, selected, unselected) ==
    IF unselected = 1 THEN FirstDegreeEquation(m.base, selected)
    ELSE LET type == getEquationType(unselected)
         IN  FirstDegreeEquation(m.slopes[type], selected) * normalizeUnselectedValue(unselected, type)
             + FirstDegreeEquation(m.intercepts[type], selected)

compute_vector_offset(m, total, innermost) ==
    m.vector_offset * (IF innermost < m.vector THEN (innermost - 1) % m.vector ELSE innermost % m.vector)
        * (total \div innermost)

GatherModel(m, samples, d) ==
    VariableSlopeMiddleCommonAxesFrstDegEq(m, samples, d) + compute_vector_offset(m, samples, d[1])

baseTimeCalculator(m, channels) ==
    FirstDegreeEquation(m.base, channels) + (channels % 8) * m.baseVectorOffset

wTimeIncrease(m, channels, width, rem) ==
    LET mod16 == width % 16
        inc == FirstDegreeEquation(m.baseW, channels)
               + channels * (CASE mod16 = 8 -> m.slopeW8
                               [] mod16 \in 1..7 -> m.slopeW1
                               [] mod16 \in 9..15 -> m.slopeW9
                               [] mod16 = 0 -> 0)
        vecTime == IF width % 8 = 0 THEN 0 ELSE ((width % 8) - 1) * m.vectorOffsetW * channels
    IN  (IF width < 16 THEN inc + vecTime ELSE (inc * width) \div 16 + vecTime) * rem

NormalizeL2OnlyC(m, channels, width, rem) ==
    baseTimeCalculator(m, channels) + wTimeIncrease(m, channels, width, rem)

MVN6OneAxisModel(m, samples, selected) == VariableSlopeFirstDegreeEquation(m, samples, selected)

MVN6MultiAxisModel(m, samples, d) == VariableSlope4MultiAxesFrstDegEq(m, samples, d)

MVNSimple2and3AxisModel(m, selected, unselected, outermost, thirdmost) ==
    LET block == m.unroll * m.vector
        rest  == selected % m.vector
    IN  FirstDegreeEquation(m, outermost)
        + (thirdmost - 1) * m.thirdMostSupportSlope * outermost
        + (selected \div block) * m.baseSupportSlope * unselected
        + ((selected % block) \div m.vector) * m.mod8SupportSlope * unselected
        + (IF selected > m.vector - 1 THEN rest ELSE rest - 1) * m.vectorSlope * unselected

InterpolateWHModel_1(wi, hi, out_size) ==
    22839 + 1117 * hi + 2001 * wi + 8 * out_size + (7 * out_size) \div wi

-----------------------------------------------------------------------------
(* Models measured in SHAVE cycles. *)

(* How many SIMD words a block may have (VPUEM_OpBaseDSP). *)
DspBlocks(bits, k) ==
    CASE bits <= k -> 8
      [] bits > k /\ bits <= 8 * k -> 16
      [] bits > 16 * k /\ bits <= 32 * k -> 64
      [] bits > 32 * k /\ bits <= 64 * k -> 128
      [] OTHER -> 32

setup_dsp(inputs, outputs, dspArch) ==
    LET all == inputs \o outputs
        bytes[i \in 0..Len(all)] == IF i = 0 THEN 0 ELSE bytes[i - 1] + tensor_size(all[i])
    IN  Smallest({32, DspBlocks(bytes[Len(all)] * 8, 1024 * dspArch) * (IF dspArch = 128 THEN 2 ELSE 1)})

round_dim(d0, d1) == IF d0 < d1 THEN 1 ELSE CeilDiv(d0, d1)

(* As much of a dimension as fits: at most what there is, at least one. *)
ShrunkToFit(size, unit, max_num_data) ==
    Largest({1} \cup {n \in 1..Smallest({round_dim(max_num_data, unit), size}) : n * unit <= max_num_data})

(* The block of a tensor of the four dimensions ts: its sizes along the    *)
(* second, third and fourth.  m is the outermost that is not 1.            *)
Arranged(max_num_data, ts, m, middle, outer) ==
    CASE m = 4 -> <<ShrunkToFit(ts[2], outer * middle, max_num_data), middle, outer>>
      [] m = 3 -> <<middle, outer, 1>>
      [] m = 2 -> <<outer, 1, 1>>

FromOuter(max_num_data, ts, m, outer) ==
    Arranged(max_num_data, ts, m, ShrunkToFit(ts[m - 1], outer, max_num_data), outer)

FromDimension(max_num_data, data_num, ts, m) ==
    FromOuter(max_num_data, ts, m,
              IF ts[m] >= max_num_data THEN max_num_data ELSE data_num * round_dim(ts[m], data_num))

calc_ts_subblk_size(max_num_data, data_num, ts) ==
    FromDimension(max_num_data, data_num, ts, Largest({i \in 1..4 : ts[i] # 1}))

calc_last_subblk_size(dim, ts) ==
    LET Last(i) == IF ts[i + 1] <= dim[i] \/ ts[i + 1] % dim[i] = 0 THEN dim[i] ELSE ts[i + 1] % dim[i]
    IN  <<Last(1), Last(2), dim[3]>>

(* The block, the last block and the number of blocks of an output; the    *)
(* exception for a tensor of one element is Thrown.                        *)
Thrown == [blocks |-> 0, dim |-> <<0, 0, 0>>, last |-> <<0, 0, 0>>]

Blocks(flat, dim) ==
    [blocks |-> CeilDiv(flat[4], dim[3]), dim |-> dim, last |-> calc_last_subblk_size(dim, flat)]

BlocksOf(flat, data_num, max_blk_num) ==
    IF flat[4] = 1 THEN Thrown ELSE Blocks(flat, calc_ts_subblk_size(data_num * max_blk_num, data_num, flat))

calc_dsp_block_unit(inputs, outputs, dspArch) ==
    LET unit(t) == BlocksOf(<<1, 1, 1, volume(t)>>, CeilDiv((dspArch \div 8) * 8, dtype_to_bits(t.dtype)),
                            setup_dsp(inputs, outputs, dspArch))
    IN  IF \E t \in {inputs[i] : i \in DOMAIN inputs} \cup {outputs[i] : i \in DOMAIN outputs} : volume(t) = 1
        THEN Thrown
        ELSE [unit(outputs[1]) EXCEPT !.blocks = unit(outputs[Len(outputs)]).blocks]

(* The unrollings in the order they are looked for, and those that exist. *)
unrollPreferences(m, bytes) ==
    CASE m.unroll_mode # 0 -> <<m.unroll_mode>>
      [] m.unroll_mode = 0 /\ compute_elements_count_from_bytes(bytes, m.dtype) > 256 -> <<32, 16, 8, 64>>
      [] OTHER -> <<8, 16, 32, 64>>

Found(m, preferences) == {i \in DOMAIN preferences : \E f \in m.functions : f.unroll = preferences[i]}

find_VPUEM_CostFunctionObject(m, preferences) ==
    CHOOSE f \in m.functions : f.unroll = preferences[Smallest(Found(m, preferences))]

get_output_size(dim, dtype) == dim[1] * dim[2] * dim[3] * dtype_to_bytes(dtype)

calc_blk_cycles(m, dim, dtype, f) ==
    1 + VPUEMPiecewiseEq(f, m.dtype, get_output_size(dim, dtype), m.cost_curve_ratio)

BlockCycles(m, dtype, f, unit) ==
    IF unit.blocks = 1 THEN calc_blk_cycles(m, unit.last, dtype, f)
    ELSE (unit.blocks - 1) * calc_blk_cycles(m, unit.dim, dtype, f) + f.offset - 1
         + calc_blk_cycles(m, unit.last, dtype, f)

(* Without an unrolling, and for a tensor of one element, the exception is *)
(* caught and the kernel is free.                                          *)
PiecewiseCycles(m, dtype, preferences, unit) ==
    IF Found(m, preferences) = {} \/ unit = Thrown THEN 0
    ELSE BlockCycles(m, dtype, find_VPUEM_CostFunctionObject(m, preferences), unit)

PiecewiseModel(m, inputs, outputs) ==
    PiecewiseCycles(m, outputs[1].dtype, unrollPreferences(m, tensor_size(outputs[1])),
                    calc_dsp_block_unit(inputs, outputs, m.dspArch))

VPUEMSoftmaxModel(m, h, hw, c) == VPUEMSoftmaxEq(m, m.dtype, h, hw, c)

VPUEMSpatialModel(m, bytes) == VPUEMSpatialEq(m.slope, m.dtype, bytes)

OrDefault(x, default) == IF x > 0 THEN x ELSE default

ShaveSimpleHeuristicModel(m, elements) ==
    LET rate == (OrDefault(m.elements_per_cycle, 1000) * OrDefault(m.code_derate, 800) * OrDefault(m.bw_derate, 700))
                    \div 1000000
    IN  toCycleFromReal(OrDefault(m.entry_cost, 2000) * rate + elements * 1000, rate)

(* The same without the check of the range: a plain cast. *)
calculateSimpleHeuristic(m, derate, elements, channels) ==
    CeilDiv((OrDefault(m.entry_cost, 2000) + OrDefault(m.scalar_cost, 0) * channels) * derate + elements * 1000, derate)

(* Both kinds of operations bound the throughput; one that is not given    *)
(* is taken to be the other.                                               *)
calculateTotalCycles(m, derate, bits, channels, ops) ==
    LET bits_per_cycle == (512 * derate) \div (IF m.unaligned THEN OrDefault(m.unalignment_derate, 2) ELSE 1)
    IN  toCycleFromReal(OrDefault(m.entry_cost, 2000) + OrDefault(m.scalar_cost, 0) * channels
                            + CeilDiv(bits * ops * 1000, bits_per_cycle), 1)

ShaveRooflineHeuristicModel(m, bits, elements, channels) ==
    LET derate == (OrDefault(m.code_derate, 800) * OrDefault(m.bw_derate, 700)) \div 1000
        ops == Largest({m.memory_ops, m.arithmetic_ops})
    IN  IF ops <= 0 THEN calculateSimpleHeuristic(m, derate, elements, channels)
        ELSE calculateTotalCycles(m, derate, bits, channels, ops)
=============================================================================
