--------------------------- MODULE MCDPUPipeline ----------------------------
(* Small layers on every device, for TLC. *)
EXTENDS DPUPipeline, TLC

MkLayer(device, op, in, oc, k, s, pads) ==
    LET out(dim, a, b) == Max({0, (in[dim] + pads[a] + pads[b] - k) \div s + 1})
        type == IF op = "MAXPOOL" THEN "FLOAT16" ELSE "UINT8"
        layout == IF device \in {"VPU_2_0", "VPU_2_1"} THEN "ZMAJOR" ELSE "ZXY"
    IN  [op |-> op, device |-> device, in |-> in,
         out |-> [w |-> out("w", "left", "right"), h |-> out("h", "top", "bottom"), c |-> oc],
         kernel |-> [w |-> k, h |-> k], stride |-> [w |-> s, h |-> s], pad |-> pads,
         owt |-> 1, isi |-> "CLUSTERING", autopad |-> FALSE, in_autopad |-> FALSE,
         halo |-> HaloWorkload, offset |-> [w |-> 0, h |-> 0, c |-> 0],
         sep |-> [enabled |-> FALSE, no_sparse_map |-> FALSE,
                  pointers |-> [w |-> 0, h |-> 0, c |-> 0], actual |-> [w |-> 0, h |-> 0, c |-> 0]],
         mode |-> "CUBOID_16x16", in_type |-> type, wt_type |-> type, out_type |-> type,
         in_layout |-> layout, out_layout |-> layout,
         swizzling |-> [in |-> "KEY_5", wt |-> "KEY_5", out |-> "KEY_5"],
         in_sparse |-> FALSE, wt_sparse |-> FALSE, out_sparse |-> FALSE,
         act_sparsity |-> 0, wt_sparsity |-> 0, in_place |-> Unset, weightless |-> Unset,
         superdense |-> FALSE, engine |-> "SCL"]

Ask(l, strategy, nTiles, nDPU, regime) ==
    [layer |-> l, strategy |-> strategy, nTiles |-> nTiles, nDPU |-> nDPU, regime |-> regime]

Pads(a, b) == [top |-> a, bottom |-> b, left |-> a, right |-> b]

In(w, h, c) == [w |-> w, h |-> h, c |-> c]

(* Every small height, kernel, stride and padding, with each split of the  *)
(* activations.                                                            *)
GeometryQueries ==
    {Ask(MkLayer("VPU_2_7", "CONVOLUTION", In(8, h, 16), 16, k, s, Pads(a, b)), st, n, 1, "volume") :
        h \in 3..10, k \in {1, 2, 3, 5}, s \in 1..3, a \in 0..2, b \in 0..2,
        st \in {"SOH_Overlapped", "SOH_HaloRead"}, n \in {2, 3}}
    \cup
    {Ask(MkLayer("VPU_4_0", "MAXPOOL", In(d, d, 16), 16, 3, s, Pads(a, b)), st, n, 1, "volume") :
        d \in {4, 7, 9}, s \in 1..2, a \in 0..1, b \in 0..1, st \in {"SOHO_K_SWITCH", "SOW"}, n \in {2, 4}}

(* Channels, across the tiles and inside of them. *)
ChannelQueries ==
    {Ask(MkLayer(dev, op, In(4, 4, c), c, 1, 1, Pads(0, 0)), st, n, dpus, r) :
        dev \in {"VPU_4_0", "NPU_5_0"}, op \in {"CONVOLUTION", "DW_CONVOLUTION", "ELTWISE", "AVEPOOL"},
        c \in {16, 48, 80, 144}, st \in {"NONE", "SOK", "SOK_NO_BROADCAST"}, n \in {2, 3},
        dpus \in {1, 2}, r \in {"volume", "fussy"}}

(* A layer that is broadcast as it is asked for, and one with SEP. *)
SpecialQueries ==
    {Ask([MkLayer("VPU_4_0", "CONVOLUTION", In(8, h, 16), 16, 3, s, Pads(1, 1)) EXCEPT !.owt = 2],
         st, 2, 1, "volume") :
        h \in {5, 8}, s \in 1..2, st \in {"SOH_Overlapped", "SOH_HaloRead"}}
    \cup
    {Ask([MkLayer("VPU_4_0", "CONVOLUTION", In(8, h, 16), 16, 3, 1, Pads(1, 1)) EXCEPT
             !.sep = [enabled |-> TRUE, no_sparse_map |-> FALSE, pointers |-> In(4, 4, 1), actual |-> In(4, 3, 16)]],
         st, 3, 1, "volume") : h \in {5, 8}, st \in {"SOH_Overlapped", "SOW"}}

(* Several DPUs on a tile: rows and columns. *)
GridQueries ==
    {Ask(MkLayer("VPU_2_0", op, In(w, h, 32), 32, 1, 1, Pads(0, 0)), "NONE", 1, dpus, r) :
        op \in {"CONVOLUTION", "MAXPOOL"}, w \in {5, 18}, h \in {3, 7, 12}, dpus \in {2, 5},
        r \in {"volume", "zero"}}
    \cup
    {Ask(MkLayer("VPU_2_0", "CONVOLUTION", In(4, 4, 16), c, 1, 1, Pads(0, 0)), "NONE", 1, dpus, "volume") :
        c \in {32, 48, 80, 144}, dpus \in {1, 2, 5}}

(* What is refused: no tiles, an unknown device, a strategy that is not    *)
(* implemented, and a layer that does not fit.                             *)
RefusedQueries ==
    {Ask(MkLayer(dev, "CONVOLUTION", In(8, 8, c), 64, 1, 1, Pads(0, 0)), st, n, 1, "volume") :
        dev \in {"VPU_2_1", "VPU_4_0", "NPU_RESERVED"}, c \in {3, 64}, st \in {"NONE", "SOHW"}, n \in {0, 1}}
    \cup {Ask(MkLayer("VPU_2_7", "CONVOLUTION", In(200, 200, 64), 64, 1, 1, Pads(0, 0)), "NONE", 1, 1, "volume")}

MCQueries == GeometryQueries \cup ChannelQueries \cup SpecialQueries \cup GridQueries \cup RefusedQueries

MCRanges == {SmartRange(lo, hi, d, s) : lo \in {0, 1, 5}, hi \in {0, 12, 31}, d \in {0, 1, 3, 4}, s \in {0, 2, 4, 6, 9}}

MCDivisions == {[blocks |-> <<[size |-> 16, time |-> a], [size |-> 32, time |-> b], [size |-> 64, time |-> c]>>,
                 remainders |-> <<[size |-> 8, time |-> 2], [size |-> 24, time |-> e]>>, target |-> t] :
                a \in 1..3, b \in {2, 5}, c \in {3, 6, 9}, e \in {1, 6}, t \in {16, 48, 56, 72, 80, 96}}

(* What L1 answers: by size, nothing at all, or errors and exceptions. *)
MCCycles(regime, wl) ==
    CASE regime = "volume" -> 5 + size(wl.out) \div 16
      [] regime = "zero"   -> 0
      [] regime = "fussy"  -> CASE wl.mode = "CUBOID_4x16" -> Exception
                                [] wl.mode # "CUBOID_4x16" /\ wl.out.c > 64 -> ERROR_INFERENCE_NOT_POSSIBLE
                                [] OTHER -> 20 + wl.out.h
=============================================================================
