--------------------------- MODULE ShaveExecutors ---------------------------
(***************************************************************************)
(* The SHAVE kernels of each device and how a workload is given to them    *)
(* (shave_op_executors.h, shave_vpuem_executors.h, shave_collection*.h,    *)
(* shave_collection.cpp, shave_instance_holder_factors.h, shave_devices.*, *)
(* shave_workload.h).                                                      *)
(*                                                                         *)
(* An executor is a record: its kind, the nominal frequencies dpu and shv, *)
(* how many parameters it expects, the coefficients m, and the mocks       *)
(* wrapped around it, innermost first.  Kernels that are the rows of a     *)
(* generated table are represented by the first rows of each table.        *)
(***************************************************************************)
EXTENDS ShaveModels, SequencesExt, HWCharacteristics

-----------------------------------------------------------------------------
(* Frequencies.  A call either names them or takes the nominal ones. *)

Nominal == <<0, 0>>

At(e, f) == IF f = Nominal THEN <<e.dpu, e.shv>> ELSE f

(* ShaveCyclesProvider, VPUEMShaveCyclesProvider, HeuristicShaveCyclesProvider. *)
Timed(e, f, ns) == toDPUCyclesAnotherFreq(ns, e.shv, At(e, f)[1], At(e, f)[2])
Shaved(e, f, cycles) == toDPUCyclesFromShaveCycles(cycles, At(e, f)[1], At(e, f)[2])
Estimated(e, f, cycles) == HeuristicDPUCycles(cycles, At(e, f)[1], At(e, f)[2])

-----------------------------------------------------------------------------
(* Sizes of a workload. *)

Total(sizes) == FoldLeft(LAMBDA x, y : x + y, 0, sizes)

SumOver(ts, Size(_)) == Total([i \in DOMAIN ts |-> Size(ts[i])])

total_number_of_elements(w) == SumOver(w.outputs, volume) + SumOver(w.inputs, volume)

total_size_in_bits(w) ==
    LET Bits(t) == volume(t) * dtype_to_bits(t.dtype) IN SumOver(w.outputs, Bits) + SumOver(w.inputs, Bits)

(* The dimensions from the innermost on; those from n + 1 on count as 1. *)
SelectedAxes(t, n) == [i \in 1..4 |-> IF i <= n THEN InOrder(t)[i] ELSE 1]

LOCAL Product(s, a, b) == FoldLeft(LAMBDA acc, x : acc * x, 1, SubSeq(s, a, b))

-----------------------------------------------------------------------------
(* The executors: what each takes from the workload and what it refuses. *)

ShaveActivation1on1(e, w, f) == Timed(e, f, ShaveModel1to1(e.m, tensor_size(w.outputs[1])))

ShaveActivation1on1NPU40(e, w, f) == Timed(e, f, ShaveModel1to1NPU40(e.m, tensor_size(w.outputs[1])))

SoftmaxActivationExec(e, w, f) ==
    LET out == w.outputs[1]
        axis == w.params[1]
        select == 4 - axis
    IN  CASE Len(w.params) # e.params \/ axis \notin 1..3 -> ERROR_SHAVE_PARAMS
          [] Len(w.params) = e.params /\ axis \in 1..3 /\ out.b > 1 -> ERROR_SHAVE_INVALID_INPUT
          [] OTHER -> Timed(e, f, SoftmaxModel(e.m, Shape(out)[select],
                                               Product([Shape(out) EXCEPT ![select] = 1], 1, 3)))

GatherActivationExec(e, w, f) ==
    IF w.params # <<1, 1>> THEN ERROR_SHAVE_PARAMS
    ELSE Timed(e, f, GatherModel(e.m, volume(w.outputs[1]), InOrder(w.outputs[1])))

NormalizeL2OnlyCActivationExec(e, w, f) ==
    LET out == w.outputs[1]
    IN  CASE w.params # <<1>> -> ERROR_SHAVE_PARAMS
          [] w.params = <<1>> /\ out.layout # "XYZ" -> ERROR_SHAVE_LAYOUT
          [] OTHER -> Timed(e, f, NormalizeL2OnlyC(e.m, out.c, out.w, out.h * out.b))

MVN6OneAxisActivationExec(e, w, f) ==
    Timed(e, f, MVN6OneAxisModel(e.m, volume(w.outputs[1]), InOrder(w.outputs[1])[1]))

MVN6MultiAxisActivationExec(e, w, f) ==
    Timed(e, f, MVN6MultiAxisModel(e.m, volume(w.outputs[1]), SelectedAxes(w.outputs[1], e.axes)))

AxesGiven(e, w) == Len(w.params) >= e.params /\ w.params[1] \in 1..4

MVN6GenericActivationExec(e, w, f) ==
    IF ~AxesGiven(e, w) THEN ERROR_SHAVE_PARAMS
    ELSE LET ns == MVN6MultiAxisModel(e.m[w.params[1]], volume(w.outputs[1]), SelectedAxes(w.outputs[1], w.params[1]))
         IN  IF f = Nominal THEN toDPUCycles(ns, e.dpu) ELSE Timed(e, f, ns)

MVNSimpleNAxisActivationExec(e, w, f) ==
    LET out == w.outputs[1]
        d == InOrder(out)
    IN  Timed(e, f, MVNSimple2and3AxisModel(e.m, Product(d, 1, e.axes), Product(d, e.axes + 1, 4), out.b, out.c))

PiecewiseExec(e, w, f) == Shaved(e, f, PiecewiseModel(e.m, w.inputs, w.outputs))

VPUEMSoftmaxExec(e, w, f) ==
    LET out == w.outputs[1] IN Shaved(e, f, VPUEMSoftmaxModel(e.m, out.h, out.h * out.w, out.c))

VPUEMSpatialExec(e, w, f) == Shaved(e, f, VPUEMSpatialModel(e.m, tensor_size(w.outputs[1])))

ShaveSimpleHeuristicModelActivation(e, w, f) ==
    Estimated(e, f, ShaveSimpleHeuristicModel(e.m, total_number_of_elements(w)))

ShaveRooflineHeuristicModelActivation(e, w, f) ==
    LET Channels(t) == t.c
    IN  Estimated(e, f, ShaveRooflineHeuristicModel(e.m, total_size_in_bits(w), total_number_of_elements(w),
                                                    SumOver(w.outputs, Channels)))

(* The height of the input is read from its width. *)
InterpolateWH_IWHO_ActExec(e, w, f) ==
    LET in == w.inputs[1]
        out == w.outputs[1]
    IN  IF in.layout # out.layout \/ in.layout # "XYZ" THEN ERROR_SHAVE_PARAMS
        ELSE Timed(e, f, InterpolateWHModel_1(in.w, in.w, volume(out)))

(* Rounded to the nearest cycle; the kind of layer does not matter. *)
SHVActivation(efficiencyX1000, latency, t) ==
    (2 * tensor_size(t) * 1000 + efficiencyX1000) \div (2 * efficiencyX1000) + latency

ShaveClassicLinear(e, w, f) ==
    IF f # Nominal THEN ERROR_SHAVE_PARAMS ELSE SHVActivation(e.m.efficiency, e.m.latency, w.outputs[1])

(* Which of its three executors the composite one calls. *)
MVN_GenericActivationExec(e, w) ==
    LET order == layout_to_order(w.outputs[1].layout)
        starts(d) == SubSeq(order, 1, Len(d)) = d
    IN  CASE w.params[1] = 2 /\ starts(<<"w", "h">>) -> e.s2
          [] w.params[1] = 3 /\ starts(<<"w", "h", "c">>) -> e.s3
          [] OTHER -> e.mvn6

OwnCycles(e, w, f) ==
    CASE e.kind = "1on1"       -> ShaveActivation1on1(e, w, f)
      [] e.kind = "1on1NPU40"  -> ShaveActivation1on1NPU40(e, w, f)
      [] e.kind = "softmax"    -> SoftmaxActivationExec(e, w, f)
      [] e.kind = "gather"     -> GatherActivationExec(e, w, f)
      [] e.kind = "normalize"  -> NormalizeL2OnlyCActivationExec(e, w, f)
      [] e.kind = "mvn6one"    -> MVN6OneAxisActivationExec(e, w, f)
      [] e.kind = "mvn6multi"  -> MVN6MultiAxisActivationExec(e, w, f)
      [] e.kind = "mvn6"       -> MVN6GenericActivationExec(e, w, f)
      [] e.kind = "mvnsimple"  -> MVNSimpleNAxisActivationExec(e, w, f)
      [] e.kind = "piecewise"  -> PiecewiseExec(e, w, f)
      [] e.kind = "vpuem_softmax" -> VPUEMSoftmaxExec(e, w, f)
      [] e.kind = "vpuem_spatial" -> VPUEMSpatialExec(e, w, f)
      [] e.kind = "simple"     -> ShaveSimpleHeuristicModelActivation(e, w, f)
      [] e.kind = "roofline"   -> ShaveRooflineHeuristicModelActivation(e, w, f)
      [] e.kind = "interpolate" -> InterpolateWH_IWHO_ActExec(e, w, f)
      [] e.kind = "classic"    -> ShaveClassicLinear(e, w, f)

(* Mocks: the outermost one names its frequencies, each divides the cycles *)
(* by its speed up (thousandths) and lets an error through.                *)
SpedUp(cycles, mock) == IF isErrorCode(cycles) THEN cycles ELSE toCycleFromReal(cycles * 1000, mock.speed)

NPUMockExecutor(e, cycles) == FoldLeft(SpedUp, cycles, e.mocks)

MockFreqs(e, f) ==
    IF f = Nominal /\ e.mocks # <<>> THEN LET m == e.mocks[Len(e.mocks)] IN <<m.dpu, m.shv>> ELSE f

dpuCycles(e, w) ==
    IF e.kind = "mvn" /\ ~AxesGiven(e, w) THEN ERROR_SHAVE_PARAMS
    ELSE NPUMockExecutor(e, OwnCycles(IF e.kind = "mvn" THEN MVN_GenericActivationExec(e, w) ELSE e, w,
                                      MockFreqs(e, Nominal)))

-----------------------------------------------------------------------------
(* Registering kernels: of two with one name the first stays. *)

Container(entries) ==
    [name \in UNION {DOMAIN entries[i] : i \in DOMAIN entries} |->
        entries[Min({i \in DOMAIN entries : name \in DOMAIN entries[i]})][name]]

getShaveList(container) == DOMAIN container

existsShave(container, name) == name \in DOMAIN container

Measured(kind, freqs, params, m) ==
    [kind |-> kind, dpu |-> freqs[1], shv |-> freqs[2], params |-> params, m |-> m, mocks |-> <<>>]

Add(name, kind, freqs, params, m) == [n \in {name} |-> Measured(kind, freqs, params, m)]

AddAxes(name, kind, freqs, axes, m) ==
    name :> (("axes" :> axes) @@ Measured(kind, freqs, 0, m))

AddMVN_CompositeGeneric(container, name, s2, s3, mvn6) ==
    name :> (("s2" :> container[s2]) @@ ("s3" :> container[s3]) @@ ("mvn6" :> container[mvn6])
             @@ Measured("mvn", Nominal, 1, <<>>))

(* A mock expects no parameters of its own. *)
AddMock(e, freqs, speed) ==
    [e EXCEPT !.mocks = Append(@, [dpu |-> freqs[1], shv |-> freqs[2], speed |-> speed])]
=============================================================================
