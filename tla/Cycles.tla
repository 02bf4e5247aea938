------------------------------- MODULE Cycles -------------------------------
(***************************************************************************)
(* CyclesInterfaceType of include/vpu/cycles_interface_types.h: an         *)
(* unsigned integer that is a number of cycles or, close to its maximum,   *)
(* an error code.  In the code MaxV = 2^32 - 1 and ErrorSpan = 1000.       *)
(***************************************************************************)
EXTENDS Integers

CONSTANTS
    MaxV,       \* the largest value of the unsigned type
    ErrorSpan   \* size of the error range below MaxV

(* The 23 error codes fit in the error range, and some values are cycles. *)
ASSUME CyclesAssumption ==
    /\ MaxV \in Nat /\ ErrorSpan \in Nat
    /\ 23 <= ErrorSpan /\ ErrorSpan < MaxV

CyclesInterfaceType == 0..MaxV

NO_ERROR == 0
ERROR_INPUT_TOO_BIG == MaxV
ERROR_INVALID_INPUT_CONFIGURATION == MaxV - 1
ERROR_INVALID_INPUT_DEVICE == MaxV - 2
ERROR_INVALID_INPUT_OPERATION == MaxV - 3
ERROR_INVALID_OUTPUT_RANGE == MaxV - 4
ERROR_TILE_OUTPUT == MaxV - 5
ERROR_TILE_SPLIT_ZERO_CYC_OUTPUT == MaxV - 6
ERROR_TILE_SPLIT_EXCEPTION == MaxV - 7
ERROR_INVALID_LAYER_CONFIGURATION == MaxV - 8
ERROR_CUMULATED_CYCLES_TOO_LARGE == MaxV - 9
ERROR_INVALID_CONVERSION_TO_CYCLES == MaxV - 10
ERROR_SHAVE == MaxV - 11
ERROR_INFERENCE_NOT_POSSIBLE == MaxV - 12
ERROR_SHAVE_PARAMS == MaxV - 13
ERROR_SHAVE_LAYOUT == MaxV - 14
ERROR_SHAVE_INVALID_INPUT == MaxV - 15
ERROR_L2_INVALID_PARAMETERS == MaxV - 16
ERROR_PROFILING_SERVICE == MaxV - 17
ERROR_CACHE_MISS == MaxV - 18
ERROR_SHAVE_OPERATOR_MISSING == MaxV - 19
ERROR_NO_VALID_DMA_COST_PROVIDER == MaxV - 20
ERROR_SHAVE_PREFETCH_NOT_FOUND == MaxV - 21
ERROR_SHAVE_PREFETCH_DEVICE_NOT_COVERED == MaxV - 22

START_ERROR_RANGE == MaxV - ErrorSpan

isErrorCode(v) == v > START_ERROR_RANGE

(* Plain unsigned arithmetic: the sum as the code computes it with +. *)
Wrap(n) == n % (MaxV + 1)

(* Mutant: the sum in a wider type. *)
WideAdder(lhs, rhs) == lhs + rhs

cost_adder(lhs, rhs) ==
    CASE isErrorCode(lhs) -> lhs
      [] ~isErrorCode(lhs) /\ isErrorCode(rhs) -> rhs
      [] ~isErrorCode(lhs) /\ ~isErrorCode(rhs) ->
            IF MaxV - lhs < rhs \/ isErrorCode(Wrap(lhs + rhs))
            THEN ERROR_CUMULATED_CYCLES_TOO_LARGE
            ELSE Wrap(lhs + rhs)

CeilDiv(a, b) == -((-a) \div b)

(* toCycleInterfaceType of the real number a/b (b > 0): a range check,     *)
(* then the ceiling.  The rounding of the float itself is left out.        *)
toCycleFromReal(a, b) ==
    IF a < 0 \/ a > START_ERROR_RANGE * b
    THEN ERROR_INVALID_CONVERSION_TO_CYCLES
    ELSE CeilDiv(a, b)

(* The line through (x1, y1) and (x2, y2) at x, for x1 < x2. *)
extrapolate_cost(x, x1, y1, x2, y2) ==
    toCycleFromReal((y2 - y1) * (x - x1) + y1 * (x2 - x1), x2 - x1)
=============================================================================
