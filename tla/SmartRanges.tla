---------------------------- MODULE SmartRanges ----------------------------
(***************************************************************************)
(* The value ranges of include/vpu/ranges.h: an interval, a divisor, and a *)
(* second divisor that also holds from its own value on.  They say which   *)
(* sizes the validators accept and which sizes the tilers produce.         *)
(***************************************************************************)
EXTENDS Integers, Sequences, FiniteSetsExt

Nullopt == -1    \* no value; every value of a range is >= 0

NoDivisor == 0   \* second_divisor not given

(* The smallest common multiple of two positive numbers. *)
Lcm(a, b) == Min({n \in a..(a * b) : n % a = 0 /\ n % b = 0})

normalize_divisor(d) == IF d = 0 THEN 1 ELSE IF d < 0 THEN -d ELSE d

clamp_negative_to_zero(v) == IF v < 0 THEN 0 ELSE v

(* The constructor: negative bounds become 0, a zero divisor 1. *)
(* second = NoDivisor stands for the optional that is not set. *)
SmartRange(lower, upper, divisor, second) ==
    LET d == normalize_divisor(divisor)
    IN  [lower |-> clamp_negative_to_zero(lower), upper |-> clamp_negative_to_zero(upper),
         divisor |-> d, second |-> second,
         lcm |-> IF second = NoDivisor THEN d ELSE Lcm(d, second)]

getStepForDomain(r, value) ==
    IF r.second # NoDivisor /\ value >= r.second THEN r.lcm ELSE r.divisor

isAcrossSecondDivisorBorder(r, first, second) ==
    r.second # NoDivisor /\ first < r.second /\ second >= r.second

UpTo(value, step) == ((value + step - 1) \div step) * step

alignUnboundedToNextValid(r, value) ==
    LET candidate == UpTo(value, getStepForDomain(r, value))
    IN  IF isAcrossSecondDivisorBorder(r, value, candidate) THEN UpTo(candidate, r.lcm)
        ELSE candidate

is_in(r, value) ==
    /\ value \in r.lower..r.upper
    /\ value % r.divisor = 0
    /\ r.second # NoDivisor /\ value >= r.second => value % r.second = 0

betweenLimits(r, value) == value \in r.lower..r.upper

roundToNextLarger(r, value) ==
    LET candidate == alignUnboundedToNextValid(r, value)
    IN  IF betweenLimits(r, value) /\ candidate <= r.upper THEN candidate ELSE Nullopt

(* Mutant: the step that crosses the threshold keeps the first divisor. *)
StepOverBorder(r, value) ==
    LET next == value + getStepForDomain(r, value)
    IN  IF next <= r.upper THEN next ELSE Nullopt

incrementAssumingIsValid(r, value) ==
    LET step == value + getStepForDomain(r, value)
        next == IF isAcrossSecondDivisorBorder(r, value, step) THEN r.lcm ELSE step
    IN  IF next <= r.upper THEN next ELSE Nullopt

(* The value of an iterator after k steps from begin(), Nullopt at end(). *)
(* Every step makes the value larger, so end() is reached.                *)
Iterator(r) ==
    LET at[k \in 0..(r.upper + 1)] ==
            IF k = 0 THEN roundToNextLarger(r, r.lower)
            ELSE LET before == at[k - 1]
                 IN  IF before = Nullopt THEN Nullopt ELSE incrementAssumingIsValid(r, before)
    IN  at

transformSmartRangetoVector(r) ==
    IF r.lower > r.upper THEN <<>>
    ELSE LET at == Iterator(r)
         IN  [k \in 1..Min({n \in DOMAIN at : at[n] = Nullopt}) |-> at[k - 1]]

multiply_upper(r, n) == SmartRange(r.lower, r.upper * n, r.divisor, r.second)
multiply_lower(r, n) == SmartRange(r.lower * n, r.upper, r.divisor, r.second)
add_upper(r, n) == SmartRange(r.lower, r.upper + n, r.divisor, r.second)
add_lower(r, n) == SmartRange(r.lower + n, r.upper, r.divisor, r.second)

(* MultiSmartRanges: a value that one of the unmasked ranges accepts; a *)
(* mask that is too short leaves the rest out, an empty one selects all. *)
InMulti(ranges, value, mask) ==
    \E i \in DOMAIN ranges :
        /\ mask = <<>> \/ (i <= Len(mask) /\ mask[i])
        /\ is_in(ranges[i], value)

MultiUpperBound(ranges) == Max({0} \cup {ranges[i].upper : i \in DOMAIN ranges})

(* The fold starts from 0, so no range can raise the result above 0. *)
MultiLowerBound(ranges) == Min({0} \cup {ranges[i].lower : i \in DOMAIN ranges})
=============================================================================
