--------------------------- MODULE MCDeviceQueries ---------------------------
(* Kernels, layers and transfers on every device, for TLC. *)
EXTENDS DeviceQueries

CONSTANTS t1, t2

T(w, h, c) == [w |-> w, h |-> h, c |-> c, b |-> 1, dtype |-> "FLOAT16", layout |-> "ZXY"]

W(name, device, tensor, prefetch) ==
    [name |-> name, device |-> device, inputs |-> <<tensor>>, outputs |-> <<tensor>>, params |-> <<>>,
     prefetch |-> prefetch]

Shave(w) == [api |-> "shave", wl |-> w]

Layer(w, nSHV, nTiles, in, out) == [api |-> "layer", wl |-> w, nSHV |-> nSHV, nTiles |-> nTiles, in |-> in, out |-> out]

PreSplit(wls, nSHV, in, out) == [api |-> "presplit", wls |-> wls, nSHV |-> nSHV, in |-> in, out |-> out]

(* Called by two threads: a kernel, the same when its code is cold and     *)
(* with another layout, one whose selectors are visited twice, and a layer *)
(* with transfers.                                                         *)
MCSharedCalls ==
    {Shave(W("SoftMax", "NPU_5_0", T(8, 4, 16), FALSE)), Shave(W("SoftMax", "NPU_5_0", T(8, 4, 16), TRUE)),
     Shave(W("SoftMax", "NPU_5_0", [T(8, 4, 16) EXCEPT !.layout = "XYZ"], FALSE)),
     Shave(W("SoftMax", "VPU_2_7", T(8, 4, 16), FALSE)),
     Layer(W("Elu", "VPU_4_0", T(8, 4, 16), FALSE), 2, 2, TRUE, FALSE)}

Tested == {"VPU_2_0", "VPU_2_7", "VPU_4_0", "NPU_5_0", "NPU_5_0_W", "NPU_RESERVED"}

(* Every operation of every device, and one that nobody knows. *)
Names(device) == queryDeviceMappedSupportedOperations(device) \cup ExtendedOps \cup {"Unknown", "Elu"}

KernelCalls ==
    UNION {{Shave(W(n, d, x, p)) : n \in Names(d), x \in {T(8, 4, 16), T(10, 6, 8)}, p \in BOOLEAN} : d \in Tested}

(* Two inputs. *)
TwoInputs(w) == [w EXCEPT !.inputs = <<T(8, 4, 16), T(5, 3, 7)>>]

LayerCalls ==
    {Layer(w, n, tiles, in, out) :
        w \in {W(o, d, T(8, 4, 16), p) : o \in {"Elu", "Unknown"}, d \in {"VPU_2_7", "VPU_4_0", "NPU_5_0"}, p \in BOOLEAN}
              \cup {TwoInputs(W("Elu", "VPU_2_7", T(8, 4, 16), FALSE))},
        n \in {1, 2}, tiles \in {1, 2}, in \in BOOLEAN, out \in BOOLEAN}

PreSplitCalls ==
    {PreSplit(wls, n, in, out) :
        wls \in {<<>>}
            \cup {<<W(o, d, T(8, 4, 16), FALSE), W(p, d, T(8, 2, 16), FALSE)>> :
                     o \in {"Elu", "Unknown"}, p \in {"Elu"}, d \in {"VPU_2_7", "VPU_4_0", "NPU_5_0"}}
            \cup {<<TwoInputs(W("Elu", "VPU_2_7", T(8, 4, 16), FALSE))>>, <<W("vpuem.gelu", "VPU_2_7", T(1, 1, 1), FALSE)>>},
        n \in {1, 2}, in \in BOOLEAN, out \in BOOLEAN}

(* A tensor of up to three dimensions, packed or with a gap, and one of    *)
(* six dimensions that all have gaps.                                      *)
Sides ==
    {[dtype |-> type, layout |-> "none",
      dims |-> <<[n |-> n1, stride |-> n2 * n3 * b + g1], [n |-> n2, stride |-> n3 * b + g2], [n |-> n3, stride |-> b]>>] :
        type \in {"UINT8"}, b \in {1}, n1 \in {1, 3}, n2 \in {1, 2}, n3 \in {1, 4}, g1 \in {0, 5}, g2 \in {0, 5}}
    \cup {[dtype |-> "FLOAT16", layout |-> "none",
           dims |-> [i \in 1..6 |-> [n |-> IF i = k THEN 1 ELSE 2, stride |-> 4 * 3 ^ (6 - i)]]] : k \in 0..6}
    \cup {[dtype |-> "UINT8", layout |-> "none", dims |-> <<[n |-> n, stride |-> 1]>>] : n \in {1, 300}}
    \cup {[dtype |-> "INT4", layout |-> "none", dims |-> <<[n |-> 8, stride |-> 1]>>]}

DescriptorCalls ==
    {[api |-> "descriptor", desc |-> [device |-> d, src |-> x, dst |-> y, src_location |-> l[1], dst_location |-> l[2]]] :
        d \in {"VPU_4_0", "NPU_5_0"}, x \in Sides, y \in {CHOOSE s \in Sides : Len(s.dims) = 6, CHOOSE s \in Sides : Len(s.dims) = 3},
        l \in {<<"DRAM", "CMX">>, <<"CMX", "CMX">>, <<"UPA", "CMX">>}}

MCAloneCalls == KernelCalls \cup LayerCalls \cup PreSplitCalls \cup DescriptorCalls

(* The layouts and the sizes make a difference to the service. *)
MCServiceCost(w) ==
    IF "name" \in DOMAIN w THEN 5000 + w.inputs[1].w + (IF w.inputs[1].layout = "XYZ" THEN 1000 ELSE 0) ELSE 700 + w.bytes

MCPrefetchTables ==
    ("NPU_5_0" :> [n \in {"SoftMax", "MVN", "Elu", "Cos"} |-> 900]) @@ ("NPU_5_0_W" :> <<>>)

MCDmaModels ==
    {[desc |-> "none", math |-> FALSE, direct |-> FALSE], [desc |-> "none", math |-> TRUE, direct |-> FALSE],
     [desc |-> "NPU27", math |-> FALSE, direct |-> FALSE],
     [desc |-> "NPU40_50", math |-> FALSE, direct |-> FALSE], [desc |-> "NPU40_50", math |-> FALSE, direct |-> TRUE]}

(* What is written comes out of range, and the theoretical cost is used. *)
MCNetworkOutput(wl) == IF wl.direction = "CMX2DDR" THEN -500 ELSE 600

MCexp(x) == IF x = 0 THEN 1000 ELSE IF x < 700 THEN 1000 - x + (x * x) \div 2000 ELSE 400

MCThreads == {t1, t2}

Symmetry == Permutations(MCThreads)
=============================================================================
