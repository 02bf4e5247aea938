--------------------------- MODULE ShaveProviders ---------------------------
(***************************************************************************)
(* The SHAVE cost providers (shave_cost_providers/) and the bundles made   *)
(* of them (shave_provider_bundles.h), as functions of a workload, and the *)
(* cost of fetching a kernel's code (shave_prefetch_cost_strategy.h).      *)
(*                                                                         *)
(* A provider is what it answers: get_cost is a number of cycles or an     *)
(* error code, get_shave_supported_ops a set of names, get_shave_instance  *)
(* a sequence of at most one executor.  The combining providers take the   *)
(* answers of the providers they hold.                                     *)
(***************************************************************************)
EXTENDS ShaveCollections

-----------------------------------------------------------------------------
(* Providers that look an operation up in a selector. *)

getShaveFunction(selector, name) == IF existsShave(selector, name) THEN <<selector[name]>> ELSE <<>>

get_shave_instance(kind, name, device) == getShaveFunction(Selector(kind, device), name)

CostOfInstance(instance, w) ==
    IF instance = <<>> THEN ERROR_SHAVE_OPERATOR_MISSING ELSE dpuCycles(instance[1], w)

MathematicalCost(kind, w) == CostOfInstance(get_shave_instance(kind, w.name, w.device), w)

get_shave_supported_ops(kind, device) == getShaveList(Selector(kind, device))

ShaveCostProvider(w) == MathematicalCost("new", w)

OldShaveCostProvider(w) == MathematicalCost("old", w)

HeuristicCostProvider(w) == MathematicalCost("heuristic", w)

HeuristicCostProviderWithFactors(w) == MathematicalCost("heuristic_factors", w)

-----------------------------------------------------------------------------
(* Providers that hold others. *)

(* The first cost that is not an error.  The errors themselves are lost. *)
Priority(costs) ==
    LET good == {i \in DOMAIN costs : ~isErrorCode(costs[i])}
    IN  IF good = {} THEN ERROR_SHAVE_OPERATOR_MISSING ELSE costs[Min(good)]

PriorityOps(lists) == UNION Range(lists)

PriorityInstance(found) ==
    LET some == SelectSeq(found, LAMBDA i : i # <<>>) IN IF some = <<>> THEN <<>> ELSE some[1]

getStandardNameMappings ==
    [n \in {"Elu", "Quantize", "SpaceToDepth", "SoftMax", "SquaredDifference"} |->
        CASE n = "Elu" -> "ELU"
          [] n = "Quantize" -> "QuantizeCast"
          [] n = "SpaceToDepth" -> "SpaceToDepthOp"
          [] n = "SoftMax" -> "Softmax"
          [] n = "SquaredDifference" -> "SquaredDiff"]

(* Mutant: the name is handed on as it came. *)
TranslateNothing(mapping, name) == name

Translate(mapping, name) == IF name \in DOMAIN mapping THEN mapping[name] ELSE name

NameMapping(mapping, w) == [w EXCEPT !.name = Translate(mapping, @)]

build_reverse_mapping(mapping) ==
    [p \in Range(mapping) |-> CHOOSE n \in DOMAIN mapping : mapping[n] = p]

NameMappingOps(mapping, ops) == {Translate(build_reverse_mapping(mapping), n) : n \in ops}

(* Whatever an answer, the names listed are those of the default provider. *)
OpSetOverride(ops, name, override, default) == IF name \in ops THEN override ELSE default

Composite(byName, name, default) == IF name \in DOMAIN byName THEN byName[name] ELSE default

LegacyShvCompat(cost, freqs) ==
    CASE isErrorCode(cost) -> cost
      [] ~isErrorCode(cost) /\ (freqs[1] = 0 \/ freqs[2] = 0) -> ERROR_INVALID_CONVERSION_TO_CYCLES
      [] OTHER -> multiply_by_ratio(cost, freqs[2], freqs[1])

DeviceMapping(routes, device, missing) == IF device \in DOMAIN routes THEN routes[device] ELSE missing

-----------------------------------------------------------------------------
(* The bundles. *)

createDefaultProvider(w) == Priority(<<ShaveCostProvider(w), HeuristicCostProviderWithFactors(w)>>)

createNameMappingOldProvider(w) == OldShaveCostProvider(NameMapping(getStandardNameMappings, w))

createOldSelectorWithNameMappingProvider(w) ==
    Priority(<<OldShaveCostProvider(w), createNameMappingOldProvider(w)>>)

CoreOps == {"DepthToSpace", "MVN", "SoftMax"}

ExtendedOps == CoreOps \cup {"Gelu", "Multiply", "Cos", "Sin"}

(* Without frequencies (freqs = <<>>) the base answer is not converted. *)
createOpSetOverrideWithNameMappingForOps(ops, freqs, w) ==
    OpSetOverride(ops, w.name, createNameMappingOldProvider(w),
                  LET base == HeuristicCostProviderWithFactors(w)
                  IN  IF freqs = <<>> THEN base ELSE LegacyShvCompat(base, freqs))

createHeuristicWithOldNameMappingCoreOpsOverride(freqs, w) ==
    createOpSetOverrideWithNameMappingForOps(CoreOps, freqs, w)

createHeuristicWithOldNameMappingExtendedOpsOverride(freqs, w) ==
    createOpSetOverrideWithNameMappingForOps(ExtendedOps, freqs, w)

LegacyDevices == {"VPU_2_0", "VPU_2_1", "VPU_2_7", "VPU_4_0"}

NewDevices == {"NPU_5_0", "NPU_5_0_W"}

FreqsNPU5 ==
    <<mainConfiguration("NPU_5_0").raw.dpu_freq_clk, mainConfiguration("NPU_5_0").raw.cmx_freq_clk>>

(* Which kind of provider a device of the model's default provider has. *)
Routes == [d \in LegacyDevices \cup NewDevices |-> IF d \in LegacyDevices THEN "legacy" ELSE "npu5"]

(* The model's provider: NPU 5.0 W is served by the one built for NPU 5.0. *)
createDeviceMappedProvider(w) ==
    LET route == DeviceMapping(Routes, w.device, "none")
    IN  CASE route = "legacy" -> createOldSelectorWithNameMappingProvider(w)
          [] route = "npu5" -> createHeuristicWithOldNameMappingExtendedOpsOverride(FreqsNPU5, w)
          [] route = "none" -> ERROR_SHAVE_OPERATOR_MISSING

(* The provider built for one device alone. *)
createProviderForDevice(w) ==
    IF w.device \in LegacyDevices THEN createOldSelectorWithNameMappingProvider(w)
    ELSE createHeuristicWithOldNameMappingExtendedOpsOverride(IF w.device = "NPU_5_0" THEN FreqsNPU5 ELSE <<>>, w)

(* A device without a provider makes the factory throw: no names. *)
queryDeviceMappedSupportedOperations(device) ==
    LET old == get_shave_supported_ops("old", device)
    IN  CASE device \in LegacyDevices -> PriorityOps(<<old, NameMappingOps(getStandardNameMappings, old)>>)
          [] device \in NewDevices -> get_shave_supported_ops("heuristic_factors", device)
          [] OTHER -> {}

-----------------------------------------------------------------------------
(* The selectors a query of the model visits, in order: the provider that  *)
(* owns the selector cache, the kind of selector and the name looked up.   *)

Visit(owner, kind, name) == [owner |-> owner, kind |-> kind, name |-> name]

Mapped(owner, w) == Visit(owner, "old", Translate(getStandardNameMappings, w.name))

Visits(w) ==
    LET route == DeviceMapping(Routes, w.device, "none")
    IN  CASE route = "legacy" -> <<Visit("old", "old", w.name), Mapped("mapped", w)>>
          [] route = "npu5" -> <<OpSetOverride(ExtendedOps, w.name, Mapped("npu5_mapped", w),
                                               Visit("npu5", "heuristic_factors", w.name))>>
          [] route = "none" -> <<>>

Owners == {"old", "mapped", "npu5", "npu5_mapped"}

(* What the provider that owns the visited selector makes of its answer. *)
Converted(visit, cost) == IF visit.owner = "npu5" THEN LegacyShvCompat(cost, FreqsNPU5) ELSE cost

-----------------------------------------------------------------------------
(* The cost of fetching the kernel's code.  The table of NPU 5.0 names the *)
(* heuristic kernels, that of NPU 5.0 W is empty.                          *)

get_lut_for_device ==
    ("NPU_5_0" :> [name \in getShaveList(ShaveInstanceHolder_HeuristicNPU50) |-> 0])
    @@ ("NPU_5_0_W" :> [name \in {} |-> 0])

SingleDevicePrefetchCostStrategy(lut, name) ==
    IF name \in DOMAIN lut THEN lut[name] ELSE ERROR_SHAVE_PREFETCH_NOT_FOUND

get_code_prefetch_cost(luts, w) ==
    IF w.device \in DOMAIN luts
    THEN SingleDevicePrefetchCostStrategy(luts[w.device], w.name)
    ELSE ERROR_SHAVE_PREFETCH_DEVICE_NOT_COVERED
=============================================================================
