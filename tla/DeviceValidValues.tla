------------------------- MODULE DeviceValidValues -------------------------
(***************************************************************************)
(* What a device accepts (interface_valid_values.h and the                 *)
(* device_valid_values*.h files of include/vpu/validation).                *)
(*                                                                         *)
(* A configuration is a device at one of three levels: "layer" (before the *)
(* split), "on_tile" (the part on one tile) and "workload" (what the DPU   *)
(* executes).  `o` is an operation as DPUValidation describes it.          *)
(***************************************************************************)
EXTENDS SmartRanges, VPUTensor, HWCharacteristics

Levels == {"layer", "on_tile", "workload"}

input_spatial_dim_max == 8192
cm_conv_channels_max == 16
kernel_max == 15
stride_max == 8

Eight_Sixteen_bits == {"INT8", "UINT8", "FLOAT16", "BFLOAT16"}

(* The tables: one record per family of devices. *)
VPU2_0_WorkloadValidValues ==
    [ops |-> {"CONVOLUTION", "DW_CONVOLUTION", "CM_CONVOLUTION", "ELTWISE", "MAXPOOL"},
     swizzlings |-> {"KEY_0"}, layouts |-> {"ZMAJOR", "CMAJOR"}, cmx_KB |-> 1024, owt |-> {1},
     isi |-> {"CLUSTERING"}, weights_alignment_B |-> 16, legacy_samples |-> FALSE,
     out_innermost_B |-> 1, page_B |-> 16384,
     in_types |-> Eight_Sixteen_bits, out_types |-> Eight_Sixteen_bits, wt_types |-> Eight_Sixteen_bits]

VPU2_7_WorkloadValidValues ==
    [VPU2_0_WorkloadValidValues EXCEPT
        !.swizzlings = {"KEY_0", "KEY_1", "KEY_2", "KEY_3", "KEY_4", "KEY_5"},
        !.layouts = {"ZXY", "XYZ", "XZY", "YXZ", "YZX", "ZYX"}, !.cmx_KB = 2048, !.owt = {1, 2},
        !.isi = {"CLUSTERING", "SPLIT_OVER_H", "SPLIT_OVER_K"}, !.legacy_samples = TRUE,
        !.wt_types = @ \cup {"INT4", "UINT4"}]

VPU4_0_WorkloadValidValues ==
    [VPU2_7_WorkloadValidValues EXCEPT !.cmx_KB = 1536, !.owt = 1..8, !.weights_alignment_B = 32,
        !.out_types = @ \cup {"FLOAT32"}]

VPU5_0_WorkloadValidValues ==
    [VPU2_7_WorkloadValidValues EXCEPT
        !.ops = @ \cup {"ELTWISE_MUL", "LAYER_NORM", "AVEPOOL"}, !.cmx_KB = 1536, !.owt = 1..8,
        !.isi = {"CLUSTERING", "SPLIT_OVER_K"}, !.legacy_samples = FALSE,
        !.out_innermost_B = 16, !.page_B = 32,
        !.in_types = @ \cup {"HF8", "BF8"}, !.out_types = @ \cup {"HF8", "BF8", "INT32", "FLOAT32"},
        !.wt_types = @ \cup {"INT2", "UINT2", "HF8", "BF8"}]

(* The configuration of a device; devices that are not listed are refused. *)
is_supported(device) == ~AtLeast(device, "NPU_RESERVED")

config(device) ==
    CASE device \in {"VPU_2_0", "VPU_2_1"} -> VPU2_0_WorkloadValidValues
      [] device = "VPU_2_7"   -> VPU2_7_WorkloadValidValues
      [] device = "VPU_4_0"   -> VPU4_0_WorkloadValidValues
      [] device = "NPU_5_0"   -> VPU5_0_WorkloadValidValues
      [] device = "NPU_5_0_W" -> [VPU5_0_WorkloadValidValues EXCEPT !.cmx_KB = 2048]

valid_execution_order(device, op) ==
    CASE device \in {"VPU_2_0", "VPU_2_1"} -> {"VECTOR_FP16", "VECTOR", "MATRIX"}
      [] device \in {"NPU_5_0", "NPU_5_0_W"} ->
            CASE op \in {"DW_CONVOLUTION", "MAXPOOL", "AVEPOOL"} -> {"CUBOID_16x16"}
              [] op \in {"ELTWISE", "ELTWISE_MUL"} -> {"CUBOID_8x16"}
              [] OTHER -> {AllCuboids[i] : i \in DOMAIN AllCuboids}
      [] OTHER -> {AllCuboids[i] : i \in DOMAIN AllCuboids}

-----------------------------------------------------------------------------
(* Channels, as lists of ranges.  Depthwise operations are limited to a    *)
(* few channels at the level of a workload only.                           *)

LOCAL Sixteens == SmartRange(16, input_spatial_dim_max, 16, NoDivisor)

LOCAL Depthwise == {"DW_CONVOLUTION", "MAXPOOL", "AVEPOOL"}

LOCAL Compressed(max) == SmartRange(1, max, 1, NoDivisor)

VPU2_0_input_channels(op) ==
    IF op = "CM_CONVOLUTION" THEN Compressed(cm_conv_channels_max) ELSE Sixteens

(* The three newer families share the rule for depthwise operations. *)
LOCAL Since_2_7(level, op, compressed) ==
    CASE op = "CM_CONVOLUTION" -> Compressed(compressed)
      [] op \in Depthwise /\ level = "workload" -> SmartRange(16, 64, 16, 32)
      [] OTHER -> Sixteens

VPU2_7_input_channels(level, op) ==
    Since_2_7(level, op, IF level = "workload" THEN cm_conv_channels_max ELSE cm_conv_channels_max - 1)

VPU4_0_input_channels(level, op) == Since_2_7(level, op, cm_conv_channels_max - 1)

VPU5_0_input_channels(level, op) == Since_2_7(level, op, cm_conv_channels_max - 1)

base_input_channels(device, level, op) ==
    CASE device \in {"VPU_2_0", "VPU_2_1"} -> VPU2_0_input_channels(op)
      [] device = "VPU_2_7" -> VPU2_7_input_channels(level, op)
      [] device = "VPU_4_0" -> VPU4_0_input_channels(level, op)
      [] OTHER              -> VPU5_0_input_channels(level, op)

get_input_channels_restriction(level, o) ==
    LET base == base_input_channels(o.device, level, o.op)
        padded == /\ AtLeast(o.device, "NPU_5_0") /\ o.in_autopad
                  /\ o.op \in {"CONVOLUTION", "CM_CONVOLUTION"}
    IN  CASE padded /\ is_fp16family_dtype(o.in_type) -> <<base, SmartRange(1, 9, 1, NoDivisor)>>
          [] padded /\ o.in_type \in {"INT8", "UINT8", "HF8", "BF8"} ->
                <<base, SmartRange(1, 15, 1, NoDivisor)>>
          [] OTHER -> <<base>>

get_output_channels_restriction(level, o) ==
    LET padded == AtLeast(o.device, "NPU_5_0") /\ o.autopad
        ranges == IF padded THEN <<SmartRange(1, 15, 1, NoDivisor), Sixteens>> ELSE <<Sixteens>>
    IN  IF level = "layer" /\ o.isi = "SPLIT_OVER_K"
        THEN [i \in DOMAIN ranges |-> multiply_lower(ranges[i], 2)] ELSE ranges

mustExecuteHWLowLevelChecks(level) == level = "workload"

-----------------------------------------------------------------------------
(* Ranges that depend on the rest of the operation. *)

spatial_start_factor(level) == IF level = "layer" THEN 2 ELSE 1

get_input_interval(level, kernel, pad_begin, pad_end, use_extra_start) ==
    LET extra == IF use_extra_start THEN spatial_start_factor(level) - 1 ELSE 0
    IN  Max({1, kernel - (pad_begin + pad_end) + extra})..input_spatial_dim_max

get_padMax(kernel_dim) == kernel_dim \div 2

get_pad_range(kernel_dim) == 0..get_padMax(kernel_dim)

get_maximum_kernel_size(op) == IF op = "ELTWISE" THEN 1 ELSE kernel_max

get_maximum_kernel_stride(op) == IF op = "ELTWISE" THEN 1 ELSE stride_max

(* At the level of a layer a stride may not leave the padded input. *)
get_strides_range(op, input, pads) == 1..Min({get_maximum_kernel_stride(op), input + pads})

get_dpu_strides_range(op) == 1..get_maximum_kernel_stride(op)

(* Below the layer, splitting over the channels needs a broadcast. *)
get_ISI_Strategy_Range(level, o) ==
    LET all == config(o.device).isi
        own_rule == level = "layer" /\ AtLeast(o.device, "VPU_2_7")
    IN  IF o.owt <= 1 /\ ~own_rule THEN all \ {"SPLIT_OVER_K"} ELSE all

(* The unsigned division truncates toward zero. *)
compute_output_dim(input, pad, pad_opposite, kernel, stride) ==
    LET a == input + pad + pad_opposite - kernel
    IN  IF stride = 0 THEN 0
        ELSE (IF a >= 0 THEN a \div stride ELSE -((-a) \div stride)) + 1

align_to(x, multiple) == IF x % multiple = 0 THEN x ELSE x + multiple - (x % multiple)

check_trailing_padding(in_dim, out_dim, leading_pad, kernel_radix, stride) ==
    Max({0, stride * (out_dim - 1) + kernel_radix - leading_pad - in_dim})

restrict_datatype(dtype) ==
    CASE dtype = "INT8" -> "UINT8" [] dtype = "INT4" -> "UINT4" [] dtype = "INT2" -> "UINT2"
      [] dtype = "INT1" -> "UINT1" [] dtype = "BFLOAT16" -> "FLOAT16" [] dtype = "BF8" -> "HF8"
      [] dtype = "INT16" -> "UINT16" [] OTHER -> dtype

adapt_device_comaptible_tensor_layout(device, layout) ==
    IF ~AtLeast(device, "VPU_2_7")
    THEN CASE layout = "ZXY" -> "ZMAJOR" [] layout = "XYZ" -> "CMAJOR" [] OTHER -> layout
    ELSE CASE layout = "ZMAJOR" -> "ZXY" [] layout = "CMAJOR" -> "XYZ" [] OTHER -> layout

adapt_device_comaptible_swizzling(device, swizzling) ==
    IF ~AtLeast(device, "VPU_2_7") THEN "KEY_0" ELSE swizzling

get_cmx_size(device) == config(device).cmx_KB * 1024
=============================================================================
