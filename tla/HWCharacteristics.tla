-------------------------- MODULE HWCharacteristics --------------------------
(***************************************************************************)
(* What the cost model knows about each device: the clocks, widths and     *)
(* counts of include/vpu/hw_characteristics, and the execution modes and   *)
(* tiling strategies of include/vpu/device_layer_properties.               *)
(*                                                                         *)
(* The profiling clocks are left out: no cost depends on them.             *)
(***************************************************************************)
EXTENDS Integers, Sequences, FiniteSetsExt

LOCAL CeilDiv(a, b) == (a + b - 1) \div b

(* The devices in the order of the enumeration. *)
VPUDevice == <<"VPU_2_0", "VPU_2_1", "VPU_2_7", "VPU_4_0",
               "NPU_5_0", "NPU_5_0_W", "NPU_RESERVED", "NPU_RESERVED_1">>

DeviceIndex(device) == CHOOSE i \in DOMAIN VPUDevice : VPUDevice[i] = device

AtLeast(device, other) == DeviceIndex(device) >= DeviceIndex(other)

-----------------------------------------------------------------------------
(* One record per class of characteristics.  dram_MBps is the bandwidth of *)
(* the DRAM, DMA_engine_B the bytes per cycle of the engine; the latencies *)
(* are in ns for the DRAM and in CMX cycles for the others; eff is the     *)
(* efficiency of a transfer between DRAM and CMX, in millionths.           *)

HWCharacteristicsRawData(dpu, cmx, word, engine, ports, dram, macs, fp, ppe, inch, ndpu, dma) ==
    [dpu_freq_clk |-> dpu, cmx_freq_clk |-> cmx, cmx_word_size_B |-> word,
     DMA_engine_B |-> engine, dpu_cmx_num_read_ports |-> ports, dram_MBps |-> dram,
     nr_macs |-> macs, fp_ratio |-> fp, nr_ppe |-> ppe, input_channels_mac |-> inch,
     nDPU_per_tile |-> ndpu, dma_ports |-> dma]

LatencyValuesRawData(dram, cmx, post, eff) ==
    [dramLatency_ns |-> dram, cmxLatency |-> cmx, postTimeLatency |-> post, eff |-> eff]

Perfect == 1000000

Characteristics(raw, latency) == [raw |-> raw, latency |-> latency]

VPU2_0_HWCharacteristics ==
    Characteristics(HWCharacteristicsRawData(700, 700, 16, 32, 4, 20000, 256, 4, 16, 1, 5, 2),
                    LatencyValuesRawData(0, 0, 0, Perfect))

VPU2_1_HWCharacteristics ==
    Characteristics(HWCharacteristicsRawData(850, 850, 16, 32, 4, 20000, 256, 4, 16, 1, 5, 2),
                    LatencyValuesRawData(0, 0, 0, Perfect))

(* The legacy class of this device has the same values. *)
VPU2_7_HWCharacteristics ==
    Characteristics(HWCharacteristicsRawData(1300, 975, 16, 32, 8, 27000, 2048, 2, 64, 8, 1, 2),
                    LatencyValuesRawData(956, 16, 0, Perfect))

VPU4_0_HWCharacteristics_v0 ==
    Characteristics(HWCharacteristicsRawData(1700, 971, 32, 64, 8, 136000, 2048, 2, 64, 8, 1, 2),
                    LatencyValuesRawData(300, 32, 0, Perfect))

VPU4_0_HWCharacteristics_v1 ==
    [VPU4_0_HWCharacteristics_v0 EXCEPT !.latency = LatencyValuesRawData(300, 32, 50, 958589)]

VPU4_0_HWCharacteristics_legacy ==
    Characteristics(HWCharacteristicsRawData(1700, 975, 32, 64, 8, 45000, 2048, 2, 64, 8, 1, 2),
                    LatencyValuesRawData(956, 16, 0, Perfect))

VPU5_0_HWCharacteristics_v0 ==
    Characteristics(HWCharacteristicsRawData(1950, 1114, 32, 64, 8, 136000, 4096, 2, 32, 8, 1, 2),
                    LatencyValuesRawData(300, 32, 0, Perfect))

VPU5_0_HWCharacteristics_v1 ==
    [VPU5_0_HWCharacteristics_v0 EXCEPT !.latency = LatencyValuesRawData(300, 32, 50, 958589)]

VPU5_0_HWCharacteristics_legacy ==
    Characteristics(HWCharacteristicsRawData(1950, 1114, 32, 64, 8, 45000, 4096, 2, 32, 8, 1, 2),
                    LatencyValuesRawData(956, 16, 0, Perfect))

Default_HWCharacteristics ==
    Characteristics(HWCharacteristicsRawData(1, 1, 16, -1, 8, 1, 2048, 2, 64, 8, 1, 1),
                    LatencyValuesRawData(0, 0, 0, Perfect))

(* The tuples have an entry for the first six devices and a default. *)
IndexMap(device, tuple) == tuple[Min({DeviceIndex(device), Len(tuple)})]

MainEvo0(device) ==
    IndexMap(device, <<VPU2_0_HWCharacteristics, VPU2_1_HWCharacteristics,
                       VPU2_7_HWCharacteristics, VPU4_0_HWCharacteristics_v0,
                       VPU5_0_HWCharacteristics_v0, VPU5_0_HWCharacteristics_v0,
                       Default_HWCharacteristics>>)

MainEvo1(device) ==
    IndexMap(device, <<VPU2_0_HWCharacteristics, VPU2_1_HWCharacteristics,
                       VPU2_7_HWCharacteristics, VPU4_0_HWCharacteristics_v1,
                       VPU5_0_HWCharacteristics_v1, VPU5_0_HWCharacteristics_v1,
                       Default_HWCharacteristics>>)

LegacySet(device) ==
    IndexMap(device, <<VPU2_0_HWCharacteristics, VPU2_1_HWCharacteristics,
                       VPU2_7_HWCharacteristics, VPU4_0_HWCharacteristics_legacy,
                       VPU5_0_HWCharacteristics_legacy, VPU5_0_HWCharacteristics_legacy,
                       Default_HWCharacteristics>>)

(* The set that is active by default. *)
mainConfiguration(device) == MainEvo0(device)

nDPU_per_tile(device) == mainConfiguration(device).raw.nDPU_per_tile

(* The latency of a transfer, in DPU cycles; the divisions are integer. *)
get_DMA_latency(hw, location) ==
    LET l == hw.latency
        dpu == hw.raw.dpu_freq_clk
        cmx == hw.raw.cmx_freq_clk
    IN  IF location = "DRAM"
        THEN (l.dramLatency_ns * dpu) \div 1000 + (l.postTimeLatency * dpu) \div cmx
        ELSE ((l.cmxLatency + l.postTimeLatency) * dpu) \div cmx

(* Input and output efficiency: the CMX side of a mixed transfer pays. *)
getDMATransferEfficiency(hw, s, d) ==
    [in  |-> IF s = "CMX" /\ d = "DRAM" THEN hw.latency.eff ELSE Perfect,
     out |-> IF s = "DRAM" /\ d = "CMX" THEN hw.latency.eff ELSE Perfect]

-----------------------------------------------------------------------------
(* Execution modes, in the order in which the tiler tries them. *)

AllCuboids == <<"CUBOID_16x16", "CUBOID_8x16", "CUBOID_4x16">>

(* VPU 2.0 and 2.1: by data type, then by the number of grid cells. *)
Device20_modes(fp16, out) ==
    IF fp16 THEN <<"VECTOR_FP16">>
    ELSE IF CeilDiv(out.w, 16) * out.h <= CeilDiv(out.w, 4) * CeilDiv(out.h, 4)
    THEN <<"VECTOR">> ELSE <<"MATRIX">>

VPU2_7_op_to_exec_mode(op) ==
    CASE op \in {"CM_CONVOLUTION", "DW_CONVOLUTION", "AVEPOOL", "MAXPOOL"} -> <<"CUBOID_16x16">>
      [] op = "ELTWISE" -> <<"CUBOID_8x16">>
      [] OTHER -> AllCuboids

VPU4_0_op_to_exec_mode(op) ==
    CASE op \in {"CM_CONVOLUTION", "DW_CONVOLUTION", "AVEPOOL", "MAXPOOL"} -> <<"CUBOID_16x16">>
      [] op = "ELTWISE" -> <<"CUBOID_8x16">>
      [] OTHER -> AllCuboids

VPU5_0_op_to_exec_mode(op) ==
    CASE op \in {"DW_CONVOLUTION", "AVEPOOL", "MAXPOOL"} -> <<"CUBOID_16x16">>
      [] op \in {"ELTWISE", "ELTWISE_MUL"} -> <<"CUBOID_8x16">>
      [] OTHER -> AllCuboids

(* The engine DCIM has no mode on any of these devices; what is not listed *)
(* for a device gets all three cuboids.                                    *)
getValidTilingExecutionMode(device, op, fp16, out) ==
    CASE device \in {"VPU_2_0", "VPU_2_1"} -> Device20_modes(fp16, out)
      [] device = "VPU_2_7" -> VPU2_7_op_to_exec_mode(op)
      [] device = "VPU_4_0" -> VPU4_0_op_to_exec_mode(op)
      [] device \in {"NPU_5_0", "NPU_5_0_W"} -> VPU5_0_op_to_exec_mode(op)
      [] OTHER -> AllCuboids

getValidTilingStrategies(device) ==
    CASE device \in {"VPU_2_0", "VPU_2_1", "VPU_2_7"} -> <<"NONE", "SOH_Overlapped", "SOK">>
      [] device \in {"VPU_4_0", "NPU_5_0", "NPU_5_0_W"} ->
            <<"NONE", "SOH_Overlapped", "SOK", "SOW", "SOHW", "SOHK", "SOHO_K_SWITCH">>
      [] OTHER -> <<>>

(* The grid of an execution mode. *)
mpe_mode_to_grid(mode) ==
    CASE mode = "VECTOR"      -> [w |-> 16, h |-> 1, c |-> 16]
      [] mode = "VECTOR_FP16" -> [w |-> 4,  h |-> 1, c |-> 16]
      [] OTHER                -> [w |-> 4,  h |-> 4, c |-> 16]
=============================================================================
