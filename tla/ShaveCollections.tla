-------------------------- MODULE ShaveCollections --------------------------
(***************************************************************************)
(* The kernels registered for each device (src/shave/shave_collection.cpp, *)
(* shave_collection_*.h) and the selectors built from them                 *)
(* (shave_devices.h).  Of the generated tables (shave_layers_*.csv,        *)
(* layers_perf.csv, shave_*factors_npu5.csv) some rows of each kind.       *)
(***************************************************************************)
EXTENDS ShaveExecutors

LOCAL F27 == <<1300, 975>>
LOCAL F40 == <<1700, 971>>
F50 == <<1950, 1114>>

Clocks(device) == <<mainConfiguration(device).raw.dpu_freq_clk, mainConfiguration(device).raw.cmx_freq_clk>>

MVN6Parameters(slope, intercept, alpha, worst, delta) ==
    [best_case_slope |-> slope, intercept |-> intercept, alpha |-> alpha, worst_case_slope |-> worst,
     slope_delta_diff |-> delta]

LOCAL Simple(slope, intercept, third, base, mod8, vectorSlope, vector) ==
    [slope |-> slope, intercept |-> intercept, thirdMostSupportSlope |-> third, baseSupportSlope |-> base,
     mod8SupportSlope |-> mod8, vectorSlope |-> vectorSlope, vector |-> vector, unroll |-> 8]

LOCAL Line(slope, intercept) == [slope |-> slope, intercept |-> intercept]

(* Per kernel: the offsets and the first slopes by unrolling, the vector   *)
(* and the scalar slope.                                                   *)
PiecewiseTable ==
    LET plain == <<<<125, 141, 141, 141>>, <<2783, 3657, 3200, 1182>>, 492, 47>>
        binary == <<<<125, 141, 141, 141>>, <<2783, 3048, 3325, 1306>>, 561, 81>>
    IN  ("vpuem.sigmoid" :> plain) @@ ("vpuem.softmax" :> plain) @@ ("vpuem.log" :> plain)
        @@ ("vpuem.tanh" :> plain) @@ ("vpuem.add" :> binary) @@ ("vpuem.mul" :> binary)
        @@ ("vpuem.gelu" :> <<<<140, 141, 150, 141>>, <<557, 564, 605, 430>>, 215, 25>>)
        @@ ("vpuem.hswish" :> <<<<140, 141, 148, 142>>, <<1231, 1471, 1695, 786>>, 360, 52>>)
        @@ ("vpuem.swish" :> <<<<200, 200, 208, 201>>, <<1422, 1753, 1910, 810>>, 364, 85>>)

LOCAL Unrollings == <<8, 16, 32, 64>>

AddVPUEM_Piecewise(freqs, dspArch, cost_curve_ratio) ==
    [name \in DOMAIN PiecewiseTable |->
        LET row == PiecewiseTable[name]
        IN  Add(name, "piecewise", freqs, 0,
                [dtype |-> "FLOAT16", unroll_mode |-> 0, dspArch |-> dspArch, cost_curve_ratio |-> cost_curve_ratio,
                 functions |-> {[unroll |-> Unrollings[i], offset |-> row[1][i],
                                 slope |-> <<row[2][i], row[3], row[4]>>] : i \in 1..4}])[name]]

(* Whatever the DSP, the first parameters of the first list are used. *)
AddVPUEM_Softmax(name, freqs, spatial, p) ==
    Add(name, "vpuem_softmax", freqs, 0,
        [dtype |-> "FLOAT16", spatial |-> spatial,
         params |-> [unroll |-> p[1], unroll_offset |-> p[2], unroll_slope |-> p[3], unroll_overhead |-> p[4],
                     vector_offset |-> p[5], vector_slope0 |-> p[6], vector_slope |-> p[7],
                     vector_overhead |-> p[8], scalar_offset |-> p[9], scalar_slope0 |-> p[10],
                     scalar_slope |-> p[11], scalar_overhead |-> p[12]]])

AddVPUEM_Spatial(freqs) == Add("vpuem.mvn", "vpuem_spatial", freqs, 0, [dtype |-> "FLOAT16", slope |-> 888])

LOCAL SoftmaxX == <<8, 283, 57, 158, 245, 29, 46, 120, 244, 26, 44, 119>>

-----------------------------------------------------------------------------
(* VPU 2.7.  The spatial model of vpuem.mvn comes second and is dropped. *)

MVN_VPU27 ==
    LET axes == <<MVN6Parameters(199, 11225, 68, 569, 0), MVN6Parameters(222, 11104, 68, 614, 68),
                  MVN6Parameters(245, 11053, 68, 693, 68), MVN6Parameters(267, 11023, 68, 471, 68)>>
    IN  Container(<<Add("MVN6_onlyOneAx", "mvn6one", F27, 0,
                        [slope |-> 199, intercept |-> 11225, alpha |-> 68, maximum_diff_slope |-> 369]),
                    AddAxes("MVN6_oneAx", "mvn6multi", F27, 1, axes[1]),
                    AddAxes("MVN6_twoAx", "mvn6multi", F27, 2, axes[2]),
                    AddAxes("MVN6_threeAx", "mvn6multi", F27, 3, axes[3]),
                    AddAxes("MVN6_fourAx", "mvn6multi", F27, 4, axes[4]),
                    Add("MVN6", "mvn6", F27, 1, axes),
                    AddAxes("MVN_3Ax", "mvnsimple", F27, 3, Simple(383, 6636, 0, 108, 39, 81, 8)),
                    AddAxes("MVN_2Ax", "mvnsimple", F27, 2, Simple(449, 11191, 385, 109, 32, 96, 8))>>)

SHAVE_V27_inl ==
    LET Row(slope, intercept, scalar, unrolled, unroll) ==
            [dtype |-> "FLOAT16", slope |-> slope, intercept |-> intercept, offset_scalar |-> scalar,
             offset_unroll |-> unrolled, unroll |-> unroll, vector |-> 8]
    IN  Add("abs", "1on1", F27, 0, Row(0, 2568, 157, 205, 8))
        @@ Add("sigmoid", "1on1", F27, 0, Row(0, 3133, 26, 643, 16))
        @@ Add("cos", "1on1", F27, 0, Row(23, 1905, 260, 0, 1))

ShaveInstanceHolder_VPU27 ==
    Container(<<MVN_VPU27,
                AddMVN_CompositeGeneric(MVN_VPU27, "MVN", "MVN_2Ax", "MVN_3Ax", "MVN6"),
                Add("interpolatewh_1", "interpolate", F27, 0, <<>>),
                AddVPUEM_Piecewise(F27, 128, 1000),
                AddVPUEM_Softmax("vpuem.softmax_x", F27, FALSE, SoftmaxX),
                AddVPUEM_Softmax("vpuem.gptq", F27, FALSE, <<8, 258, 26, 121, 213, 38, 30, 106, 219, 36, 22, 82>>),
                AddVPUEM_Softmax("vpuem.mvn", F27, TRUE, <<8, 252, 68, 100, 266, 41, 32, 114, 0, 0, 0, 0>>),
                AddVPUEM_Softmax("vpuem.mvn_fused", F27, TRUE, <<8, 270, 93, 134, 265, 47, 38, 129, 0, 0, 0, 0>>),
                AddVPUEM_Softmax("vpuem.mvn_cw", F27, FALSE,
                                 <<4, 303, 22, 176, 254, 46, 38, 127, 253, 37, 30, 126>>),
                AddVPUEM_Spatial(F27), SHAVE_V27_inl>>)

(* The legacy kernels; a row without figures has efficiency 1, latency 0. *)
ClassicRow(name, efficiency, latency) ==
    Add(name, "classic", Nominal, 0, [efficiency |-> efficiency, latency |-> latency])

ClassicRows ==
    <<ClassicRow("Sigmoid", 4718, 4715), ClassicRow("ELU", 441, 5067), ClassicRow("Softmax", 836, 10043),
      ClassicRow("QuantizeCast", 1000, 0), ClassicRow("Sin", 17, 5192), ClassicRow("Cos", 1000, 0),
      ClassicRow("Gelu", 1000, 0), ClassicRow("MVN", 830, 2810), ClassicRow("SquaredDiff", 1000, 0),
      ClassicRow("Multiply", 1000, 0), ClassicRow("DepthToSpace", 1000, 0), ClassicRow("SpaceToDepthOp", 1000, 0)>>

ShaveInstanceHolder_VPU27CLassic == Container(ClassicRows)

-----------------------------------------------------------------------------
(* NPU 4.0 and NPU 5.0. *)

MVN_NPU40 ==
    LET axes == <<MVN6Parameters(254, 4658, 68, 781, 0), MVN6Parameters(285, 4803, 68, 873, 76),
                  MVN6Parameters(316, 4847, 68, 927, 76), MVN6Parameters(347, 5005, 68, 576, 76)>>
    IN  Container(<<AddAxes("MVN6_oneAx", "mvn6multi", F40, 1, axes[1]),
                    AddAxes("MVN6_twoAx", "mvn6multi", F40, 2, axes[2]),
                    AddAxes("MVN6_threeAx", "mvn6multi", F40, 3, axes[3]),
                    AddAxes("MVN6_fourAx", "mvn6multi", F40, 4, axes[4]),
                    Add("MVN6", "mvn6", F40, 1, axes),
                    AddAxes("MVN_3Ax", "mvnsimple", F40, 3, Simple(952, 2717, 0, 122, 42, 209, 32)),
                    AddAxes("MVN_2Ax", "mvnsimple", F40, 2, Simple(996, 2250, 939, 125, 41, 209, 32))>>)

SoftmaxEquationParams ==
    [base |-> Line(1, 7660),
     slopes |-> (1 :> Line(3, 10)) @@ (2 :> Line(2, 11)) @@ (4 :> Line(2, 10)) @@ (8 :> Line(2, 10))
                @@ (16 :> Line(1, 11)) @@ (32 :> Line(1, 11)),
     intercepts |-> (1 :> Line(94, 12448)) @@ (2 :> Line(85, 12669)) @@ (4 :> Line(84, 12456))
                    @@ (8 :> Line(67, 12478)) @@ (16 :> Line(46, 12425)) @@ (32 :> Line(0, 8729))]

SHAVE_V40_inl ==
    LET Row(intercept, unrolled, intra, vec, displacement) ==
            [dtype |-> "FLOAT16", slope |-> 0, intercept |-> intercept, offset_unroll |-> unrolled,
             intra_block_offset |-> intra, vector_offset |-> vec, displacement |-> displacement,
             unroll |-> 16, vector |-> 32]
    IN  Add("sigmoid", "1on1NPU40", F40, 0, Row(3399, 573, 52, 105, 1))
        @@ Add("relu", "1on1NPU40", F40, 0, Row(2353, 729, 313, 376, 1))
        @@ Add("abs", "1on1NPU40", F40, 0, Row(2238, 729, 312, 677, 0))

ShaveInstanceHolder_NPU40 ==
    Container(<<MVN_NPU40,
                AddMVN_CompositeGeneric(MVN_NPU40, "MVN", "MVN_2Ax", "MVN_3Ax", "MVN6"),
                Add("softmax", "softmax", F40, 1, SoftmaxEquationParams),
                Add("gather", "gather", F40, 2,
                    [best_case_slope |-> 2, intercept |-> 4790, intermediate_case_slope |-> 95,
                     worst_case_slope |-> 220, vector_offset |-> 14, vector |-> 8]),
                AddVPUEM_Piecewise(F40, 512, 2500),
                AddVPUEM_Softmax("vpuem.softmax_x", F40, FALSE, SoftmaxX),
                AddVPUEM_Spatial(F40),
                Add("normalizel2onlyc", "normalize", F40, 1,
                    [base |-> Line(1, 3940), baseVectorOffset |-> 39, baseW |-> Line(10, 312), slopeW1 |-> 7,
                     slopeW8 |-> 3, slopeW9 |-> 13, vectorOffsetW |-> 5]),
                SHAVE_V40_inl>>)

(* Registered but reached by no selector. *)
ShaveInstanceHolder_NPU50 ==
    Container(<<AddVPUEM_Piecewise(F50, 512, 2500), AddVPUEM_Softmax("vpuem.softmax_x", F50, FALSE, SoftmaxX),
                AddVPUEM_Spatial(F50)>>)

ShaveInstanceHolder_Mock(container, device, speed) ==
    [name \in getShaveList(container) |-> AddMock(container[name], Clocks(device), speed)]

ShaveInstanceHolder_Mock_NPU50 == ShaveInstanceHolder_Mock(ShaveInstanceHolder_NPU40, "NPU_5_0", 1000)

ShaveInstanceHolder_Mock_NPU50W == ShaveInstanceHolder_Mock(ShaveInstanceHolder_Mock_NPU50, "NPU_5_0_W", 1000)

HeuristicRow(name, kind, arithmetic, memory, code, scalar) ==
    Add(name, kind, F50, 0,
        [elements_per_cycle |-> 1000, arithmetic_ops |-> arithmetic, memory_ops |-> memory,
         unaligned |-> FALSE, bw_derate |-> 700, code_derate |-> code, scalar_cost |-> scalar,
         entry_cost |-> 1000, unalignment_derate |-> 2])

HeuristicRows ==
    <<HeuristicRow("SoftMax", "roofline", 5, 5, 800, 50), HeuristicRow("MVN", "roofline", 5, 3, 800, 100),
      HeuristicRow("Elu", "simple", 0, 0, 800, 0), HeuristicRow("DepthToSpace", "simple", 0, 0, 800, 0),
      HeuristicRow("SquaredDifference", "simple", 0, 0, 800, 0), HeuristicRow("Add", "roofline", 1, 3, 900, 0),
      HeuristicRow("Multiply", "roofline", 1, 3, 900, 0), HeuristicRow("Divide", "roofline", 32, 3, 800, 0),
      HeuristicRow("Quantize", "roofline", 2, 2, 800, 0), HeuristicRow("Sin", "roofline", 32, 2, 800, 0),
      HeuristicRow("Cos", "roofline", 32, 2, 800, 0), HeuristicRow("Gelu", "roofline", 4, 2, 800, 0),
      HeuristicRow("Abs", "roofline", 1, 2, 800, 0)>>

ShaveInstanceHolder_HeuristicNPU50 == Container(HeuristicRows)

(* Speed up factors; an operation without one has factor 1. *)
PopulatedFactorsLUT_NPU5 == ("sigmoid" :> 1000) @@ ("relu" :> 1000) @@ ("abs" :> 1000)

PopulatedFactorsLUT_Heuristic ==
    ("Cos" :> 1148) @@ ("Divide" :> 508) @@ ("MVN" :> 1274) @@ ("Multiply" :> 310) @@ ("Sin" :> 1172)
    @@ ("SoftMax" :> 3033)

getOperatorFactor(lut, name) == IF name \in DOMAIN lut THEN lut[name] ELSE 1000

ShaveInstanceHolderWithFactors(lut, container, device) ==
    [name \in getShaveList(container) |->
        AddMock(container[name], Clocks(device), getOperatorFactor(lut, name))]

-----------------------------------------------------------------------------
(* The selectors. *)

SelectorKinds == {"new", "old", "factors", "heuristic", "heuristic_factors"}

createSelectorForDevice(device) ==
    CASE device \in {"VPU_2_0", "VPU_2_1"} -> ShaveInstanceHolder_VPU27CLassic
      [] device = "VPU_2_7" -> ShaveInstanceHolder_VPU27
      [] device = "VPU_4_0" -> ShaveInstanceHolder_NPU40
      [] device = "NPU_5_0" -> ShaveInstanceHolder_Mock_NPU50
      [] device = "NPU_5_0_W" -> ShaveInstanceHolder_Mock_NPU50W
      [] OTHER -> <<>>

createOldSelectorForDevice(device) ==
    IF device \in {"VPU_2_0", "VPU_2_1", "VPU_2_7", "VPU_4_0", "NPU_5_0", "NPU_5_0_W"}
    THEN ShaveInstanceHolder_VPU27CLassic ELSE <<>>

createSelectorWithFactorsForDevice(device) ==
    IF device = "NPU_5_0"
    THEN ShaveInstanceHolderWithFactors(PopulatedFactorsLUT_NPU5, ShaveInstanceHolder_Mock_NPU50, device)
    ELSE createSelectorForDevice(device)

createHeuristicSelectorForDevice(device) ==
    IF device = "NPU_5_0" THEN ShaveInstanceHolder_HeuristicNPU50 ELSE createOldSelectorForDevice(device)

createHeuristicSelectorWithFactorsForDevice(device) ==
    IF device = "NPU_5_0"
    THEN ShaveInstanceHolderWithFactors(PopulatedFactorsLUT_Heuristic, ShaveInstanceHolder_HeuristicNPU50, device)
    ELSE createHeuristicSelectorForDevice(device)

Selector(kind, device) ==
    CASE kind = "new" -> createSelectorForDevice(device)
      [] kind = "old" -> createOldSelectorForDevice(device)
      [] kind = "factors" -> createSelectorWithFactorsForDevice(device)
      [] kind = "heuristic" -> createHeuristicSelectorForDevice(device)
      [] kind = "heuristic_factors" -> createHeuristicSelectorWithFactorsForDevice(device)

(* Over the kernels of the new selectors; a mock expects none. *)
get_max_num_params ==
    LET Expected(device) ==
            {IF e.mocks = <<>> THEN e.params ELSE 0 :
                e \in {createSelectorForDevice(device)[n] : n \in getShaveList(createSelectorForDevice(device))}}
        all == {0} \cup UNION {Expected(d) : d \in {"VPU_2_0", "VPU_2_1", "VPU_2_7", "VPU_4_0", "NPU_5_0",
                                                    "NPU_5_0_W"}}
    IN  CHOOSE n \in all : \A k \in all : k <= n
=============================================================================
