--------------------------- MODULE DPUValidation ---------------------------
(***************************************************************************)
(* The checks before a cost is computed (include/vpu/validation): does the *)
(* operation fit in the memory of a tile, and is every size, type and      *)
(* strategy one that the device accepts.                                   *)
(*                                                                         *)
(* An operation is a layer of DPULayer with the fields device, mode        *)
(* (execution_order), in_type, wt_type, out_type, in_layout, out_layout,   *)
(* swizzling (a record in, wt, out), in_sparse, wt_sparse, out_sparse      *)
(* (the flags), act_sparsity and wt_sparsity (in hundredths), in_autopad,  *)
(* in_place and weightless (TRUE, FALSE or Unset), superdense, engine.     *)
(***************************************************************************)
EXTENDS Cycles, DPULayer, DeviceValidValues

Unset == "unset"   \* an optional without a value

is_elementwise_like_operation(op) == op \in {"ELTWISE", "ELTWISE_MUL"}

Tensor(shape, dtype, layout) ==
    [w |-> shape.w, h |-> shape.h, c |-> shape.c, b |-> 1, dtype |-> dtype, layout |-> layout]

input_0(o) == Tensor(o.in, o.in_type, o.in_layout)
output_0(o) == Tensor(o.out, o.out_type, o.out_layout)

is_preconditions_for_inplace_output(o) ==
    o.in_layout = o.out_layout /\ is_same_datatype_footprint(o.in_type, o.out_type)

is_special_No_weights_situation(o) == ~is_preconditions_for_inplace_output(o)

is_inplace_output_memory(o) ==
    /\ is_elementwise_like_operation(o.op)
    /\ IF o.in_place = Unset THEN is_preconditions_for_inplace_output(o) ELSE o.in_place

is_weightless_operation(o) ==
    /\ is_elementwise_like_operation(o.op)
    /\ IF o.weightless = Unset THEN is_special_No_weights_situation(o) ELSE o.weightless

-----------------------------------------------------------------------------
(* The tensors as they are in memory.  The input halo is in the memory of  *)
(* the neighbours; what the neighbours write here is added to the output.  *)

compute_dense_input_memory_tensor(o) ==
    LET h == o.halo.input
        t == input_0(o)
    IN  [t EXCEPT !.h = Max({0, @ - h.top - h.bottom}), !.w = Max({0, @ - h.left - h.right}),
                  !.c = Max({0, @ - h.front - h.back})]

(* A negative inbound halo drops lines, at most those that there are. *)
newDimensionWithInbound(dim, one, other) ==
    LET a == Max({one, -dim})
        b == Max({other, -dim})
    IN  Max({0, IF a < 0 /\ b < 0 /\ -(a + b) >= dim THEN 0 ELSE dim + a + b})

compute_dense_output_memory_tensor(o) ==
    LET h == o.halo.inbound
        t == output_0(o)
    IN  [t EXCEPT !.h = newDimensionWithInbound(@, h.top, h.bottom),
                  !.w = newDimensionWithInbound(@, h.left, h.right),
                  !.c = newDimensionWithInbound(@, h.front, h.back)]

SparsityMap(samples) == align_to(samples \div 8, 16)

(* CM convolutions store 4 or 16 channels. *)
input_0_volume(o) ==
    IF o.op = "CM_CONVOLUTION" THEN o.in.w * o.in.h * (IF o.in.c < 5 THEN 4 ELSE 16)
    ELSE volume(input_0(o))

(* The bytes of a tensor whose rows are aligned. *)
TensorBytes(t, alignment) ==
    align_to(get_tensor_innermost_dim_B(t), alignment) * numberOfElementsExcludingInnermost(t)

(* With SEP the activators are those that are stored, and there is a table *)
(* of pointers of four bytes each.                                         *)
input_0_contiguous_size_bytes(o) ==
    LET dense == compute_dense_input_memory_tensor(o)
        t == [dense EXCEPT !.w = IF o.sep.enabled THEN o.sep.actual.w ELSE @,
                           !.h = IF o.sep.enabled THEN o.sep.actual.h ELSE @,
                           !.c = IF o.sep.enabled THEN o.sep.actual.c ELSE @]
        mapped == o.in_sparse \/ (o.sep.enabled /\ ~o.sep.no_sparse_map)
    IN  TensorBytes(t, 1)
            + (IF mapped THEN SparsityMap(input_0_volume(o)) ELSE 0)
            + (IF o.sep.enabled THEN 4 * size(o.sep.pointers) ELSE 0)

output_0_contiguous_size_bytes(o) ==
    LET t == compute_dense_output_memory_tensor(o)
    IN  TensorBytes(t, IF o.superdense THEN 1 ELSE config(o.device).out_innermost_B)
            + (IF o.out_sparse THEN SparsityMap(volume(t)) ELSE 0)

(* The samples of one weight mask. *)
wts_mask_alignment_samples(dtype) == IF dtype_to_bytes(dtype) > 1 THEN 8 ELSE 16

(* The weights of convolutions: one mask for each output channel. *)
WeightMasks(o, mask, multiple) ==
    LET samples == config(o.device).legacy_samples
    IN  [w |-> 1, h |-> 1, c |-> align_to(mask, IF samples THEN multiple ELSE 1), b |-> o.out.c,
         dtype |-> o.wt_type, layout |-> IF samples THEN o.in_layout ELSE "ZXY"]

CONVOLUTION_input_1(o) ==
    WeightMasks(o, o.in.c * o.kernel.h * o.kernel.w,
                IF o.wt_sparse \/ dtype_to_bytes(o.wt_type) > 1 THEN 16
                ELSE config(o.device).weights_alignment_B)

DW_CONVOLUTION_input_1(o) ==
    WeightMasks(o, o.kernel.h * o.kernel.w,
                IF dtype_to_bytes(o.wt_type) > 1 THEN 16 ELSE config(o.device).weights_alignment_B)

CM_CONVOLUTION_input_1(o) ==
    WeightMasks(o, o.in.c * o.kernel.h * o.kernel.w, wts_mask_alignment_samples(o.wt_type))

(* The dimensions are permuted as the older networks were trained with. *)
ELTWISE_input_1(o) ==
    Tensor(IF AtLeast(o.device, "NPU_5_0") THEN o.in ELSE [w |-> o.in.h, h |-> o.in.c, c |-> o.in.w],
           o.wt_type, o.in_layout)

deduce_input_1_shape_and_layout(o) ==
    CASE o.op \in {"CONVOLUTION", "LAYER_NORM"}  -> CONVOLUTION_input_1(o)
      [] o.op = "CM_CONVOLUTION"                 -> CM_CONVOLUTION_input_1(o)
      [] is_elementwise_like_operation(o.op)     -> ELTWISE_input_1(o)
      [] OTHER                                   -> DW_CONVOLUTION_input_1(o)

(* The weights of a convolution are a mask and a table entry of 16 bytes   *)
(* for each output channel; t is their tensor.                             *)
MaskBytes(o, t) ==
    t.b * align_to(get_tensor_innermost_dim_B(t),
                   IF config(o.device).legacy_samples THEN 1 ELSE config(o.device).weights_alignment_B)

SparseBytes(o, t, masks) ==
    IF o.wt_sparse THEN masks - (masks * o.wt_sparsity) \div 100 + t.b * align_to(t.c \div 8, 16)
    ELSE masks

WeightsBytes(o, t) ==
    IF is_elementwise_like_operation(o.op) THEN TensorBytes(t, 1)
    ELSE SparseBytes(o, t, MaskBytes(o, t)) + 16 * o.out.c

(* Pooling has no weights. *)
input_1_contiguous_size_bytes(o) ==
    IF o.op \in {"MAXPOOL", "AVEPOOL"} THEN 0 ELSE WeightsBytes(o, deduce_input_1_shape_and_layout(o))

compute_memory(o) ==
    LET aligned(bytes) == align_to(bytes, config(o.device).page_B)
    IN  aligned(input_0_contiguous_size_bytes(o))
            + (IF is_weightless_operation(o) THEN 0 ELSE aligned(input_1_contiguous_size_bytes(o)))
            + (IF is_inplace_output_memory(o) THEN 0 ELSE aligned(output_0_contiguous_size_bytes(o)))

-----------------------------------------------------------------------------
(* The rules of the single operations. *)

No_sparsity_at_all(o) == ~o.in_sparse /\ o.act_sparsity = 0 /\ ~o.wt_sparse /\ o.wt_sparsity = 0

CONVOLUTION_sparsity(o) == (o.in_sparse \/ o.act_sparsity = 0) /\ (o.wt_sparse \/ o.wt_sparsity = 0)

ELTWISE_sparsity(o) == (o.in_sparse \/ o.act_sparsity = 0) /\ (o.wt_sparse \/ o.wt_sparsity = 0)

check_sparsity_rules(o) ==
    CASE o.op \in {"CONVOLUTION", "LAYER_NORM"} -> CONVOLUTION_sparsity(o)
      [] is_elementwise_like_operation(o.op)    -> ELTWISE_sparsity(o)
      [] OTHER                                  -> No_sparsity_at_all(o)

has_autopad_channel_coupling == FALSE   \* on every device of this build

check_dw_autopad_channel_coupling(o) == o.out.c <= o.in.c /\ o.in.c = dw_channel_align(o.out.c)

check_eltwise_autopad_channel_coupling(o) ==
    o.out.c <= o.in.c /\ o.in.c = eltwise_channel_align(o.out.c)

(* Operations without depth keep their channels, unless the output alone   *)
(* is padded.                                                              *)
KeepsChannels(o, coupled) ==
    IF ~o.autopad \/ o.in_autopad THEN o.out.c = o.in.c
    ELSE has_autopad_channel_coupling => coupled

check_input_output_tensor_corelation(o) ==
    CASE is_dwconv_family_operation(o.op) -> KeepsChannels(o, check_dw_autopad_channel_coupling(o))
      [] is_elementwise_like_operation(o.op) ->
            KeepsChannels(o, check_eltwise_autopad_channel_coupling(o))
      [] OTHER -> TRUE

check_halo(o) ==
    /\ \A side \in {"top", "bottom", "left", "right"} :
          ~(o.pad[side] > 0 /\ o.halo.input[side] > 0)
    /\ \A side \in DOMAIN NoHalo : o.halo.output[side] >= 0 /\ o.halo.broadcast_cnt[side] >= 0

(* What the validators of layers and of workloads both check. *)
CommonChecks(level, o) ==
    LET c == config(o.device)
    IN  /\ o.engine = "SCL"
        /\ o.owt \in c.owt
        /\ o.isi \in get_ISI_Strategy_Range(level, o)
        /\ {o.kernel.w, o.kernel.h} \subseteq 1..get_maximum_kernel_size(o.op)
        /\ {o.pad.left, o.pad.right} \subseteq get_pad_range(o.kernel.w)
        /\ {o.pad.top, o.pad.bottom} \subseteq get_pad_range(o.kernel.h)
        /\ o.in_type \in c.in_types /\ o.out_type \in c.out_types /\ o.wt_type \in c.wt_types
        /\ {o.in_layout, o.out_layout} \subseteq c.layouts
        /\ {o.swizzling.in, o.swizzling.out} \subseteq c.swizzlings
        /\ {o.act_sparsity, o.wt_sparsity} \subseteq 0..100
        /\ o.in_sparse => o.act_sparsity >= 1
        /\ check_sparsity_rules(o)
        /\ check_input_output_tensor_corelation(o)
        /\ o.out.w = compute_output_dim(o.in.w, o.pad.left, o.pad.right, o.kernel.w, o.stride.w)

(* With input halos a tile of a height split has more lines than it stores. *)
check_workload_consistency(level, o) ==
    LET extension == IF o.isi # "SPLIT_OVER_H" THEN 0
                     ELSE (IF o.pad.top = 0 THEN o.kernel.h ELSE 0)
                            + (IF o.pad.bottom = 0 THEN o.kernel.h ELSE 0)
        Height(lines) == compute_output_dim(lines, o.pad.top, o.pad.bottom, o.kernel.h, o.stride.h)
    IN  /\ CommonChecks(level, o)
        /\ o.in.h \in get_input_interval(level, o.kernel.h, o.pad.top, o.pad.bottom, FALSE)
        /\ o.in.w \in get_input_interval(level, o.kernel.w, o.pad.left, o.pad.right, FALSE)
        /\ InMulti(get_input_channels_restriction(level, o), o.in.c, <<>>)
        /\ {o.stride.w, o.stride.h} \subseteq get_dpu_strides_range(o.op)
        /\ o.out.h \in Height(o.in.h)..Height(o.in.h + extension)
        /\ InMulti(get_output_channels_restriction(level, o), o.out.c, <<>>)
        /\ mustExecuteHWLowLevelChecks(level) => o.mode \in valid_execution_order(o.device, o.op)
        /\ check_halo(o)

isVerticalTiling(strategy) ==
    strategy \in {"SOHW", "SOHK", "SOH_HaloRead", "SOHO_K_SWITCH", "SOH_Overlapped"}

isHorizontalTiling(strategy) == strategy \in {"SOHW", "SOW"}

(* A layer may be as many times larger as it will be cut. *)
border_coeff(strategy, nTiles) ==
    [w |-> IF strategy \in {"SOW", "SOHW"} THEN nTiles ELSE 1,
     h |-> IF strategy \in {"SOH_Overlapped", "SOHW", "SOHK", "SOH_HaloRead", "SOHO_K_SWITCH",
                            "SOH_K_SWITCH"} THEN nTiles ELSE 1,
     c |-> IF strategy \in {"SOK", "SOHK", "SOK_NO_BROADCAST", "SOK_H_SWITCH", "SOK_W_SWITCH"}
           THEN nTiles ELSE 1]

check_layer_consistency(o, nTiles, strategy) ==
    LET coeff == border_coeff(strategy, nTiles)
        Least(k, a, b, extra) == Min(get_input_interval("layer", k, a, b, extra))
        Wider(ranges) == [i \in DOMAIN ranges |-> multiply_upper(ranges[i], coeff.c)]
    IN  /\ CommonChecks("layer", o)
        /\ o.in.h >= Least(o.kernel.h, o.pad.top, o.pad.bottom, isVerticalTiling(strategy))
        /\ o.in.h <= input_spatial_dim_max * coeff.h
        /\ o.in.w >= Least(o.kernel.w, o.pad.left, o.pad.right, isHorizontalTiling(strategy))
        /\ o.in.w <= input_spatial_dim_max * coeff.w
        /\ InMulti(Wider(get_input_channels_restriction("layer", o)), o.in.c, <<>>)
        /\ o.stride.w \in get_strides_range(o.op, o.in.w, o.pad.left + o.pad.right)
        /\ o.stride.h \in get_strides_range(o.op, o.in.h, o.pad.top + o.pad.bottom)
        /\ o.out.h = compute_output_dim(o.in.h, o.pad.top, o.pad.bottom, o.kernel.h, o.stride.h)
        /\ InMulti(Wider(get_output_channels_restriction("layer", o)), o.out.c, <<>>)
        /\ isVerticalTiling(strategy) => o.out.h > 1
        /\ isHorizontalTiling(strategy) => o.out.w > 1

-----------------------------------------------------------------------------
(* The entry points.  NO_ERROR or the code of the report. *)

Supported(o) ==
    CASE ~is_supported(o.device) -> ERROR_INVALID_INPUT_DEVICE
      [] is_supported(o.device) /\ o.op \notin config(o.device).ops -> ERROR_INVALID_INPUT_OPERATION
      [] OTHER -> NO_ERROR

check_completeLayer_consistency(o, isi, nTiles, strategy) ==
    LET w == [o EXCEPT !.isi = isi, !.owt = nTiles]
    IN  IF Supported(o) # NO_ERROR THEN Supported(o)
        ELSE IF check_layer_consistency(w, nTiles, strategy) THEN NO_ERROR
        ELSE ERROR_INVALID_LAYER_CONFIGURATION

CheckMemoryAndValues(level, o) ==
    IF Supported(o) # NO_ERROR THEN Supported(o)
    ELSE IF o.engine # "SCL" THEN ERROR_INVALID_INPUT_CONFIGURATION
    ELSE IF get_cmx_size(o.device) < compute_memory(o) THEN ERROR_INPUT_TOO_BIG
    ELSE IF check_workload_consistency(level, o) THEN NO_ERROR
    ELSE ERROR_INVALID_INPUT_CONFIGURATION

check_splitLayer_consistency(o) == CheckMemoryAndValues("on_tile", o)

SwizzlingAdapted(o) ==
    [side \in DOMAIN o.swizzling |-> adapt_device_comaptible_swizzling(o.device, o.swizzling[side])]

sanitize_preconditions(o) ==
    IF is_supported(o.device) THEN [o EXCEPT !.swizzling = SwizzlingAdapted(o)] ELSE o

(* The types, layouts and swizzlings of a workload become the equivalent   *)
(* ones that the device (and the network) knows.                           *)
Sanitized(o) ==
    LET Adapt(t) == set_if_same_layout(
                        change_datatype_superficial(t, restrict_datatype(t.dtype)),
                        adapt_device_comaptible_tensor_layout(o.device, t.layout))
        in == Adapt(input_0(o))
        out == Adapt(output_0(o))
    IN  IF Supported(o) # NO_ERROR \/ o.engine # "SCL" THEN o
        ELSE [o EXCEPT !.in_type = in.dtype, !.in_layout = in.layout, !.out_type = out.dtype,
                       !.out_layout = out.layout, !.swizzling = SwizzlingAdapted(o)]

Reported(o) == [wl |-> o, report |-> CheckMemoryAndValues("workload", o)]

check_and_sanitize(o) == Reported(Sanitized(o))

check_data_consistency(o) ==
    IF Supported(o) # NO_ERROR THEN Supported(o)
    ELSE IF o.engine = "SCL" /\ check_workload_consistency("workload", o) THEN NO_ERROR
    ELSE ERROR_INVALID_INPUT_CONFIGURATION

-----------------------------------------------------------------------------
(* What VPUCostModel changes in a workload before it is checked. *)

avgpool_replace_by(o) ==
    IF o.op = "AVEPOOL" /\ ~AtLeast(o.device, "NPU_5_0") THEN [o EXCEPT !.op = "DW_CONVOLUTION"] ELSE o

compressConv_replace_by_CM_CONV_VPU27(o) ==
    IF AtLeast(o.device, "VPU_2_7") /\ o.op = "CONVOLUTION" /\ o.in.c \in 1..15 /\ ~o.in_autopad
    THEN [o EXCEPT !.op = "CM_CONVOLUTION"] ELSE o

swizzling_turn_OFF(o) ==
    IF AtLeast(o.device, "NPU_5_0")
    THEN [o EXCEPT !.swizzling = [side \in DOMAIN @ |-> "KEY_0"]] ELSE o

is_alignment_required_operation(op) == is_dwconv_family_operation(op) \/ op = "ELTWISE"

channels_preserving_operations_consistency_check(o) ==
    IF is_alignment_required_operation(o.op) /\ ~o.autopad /\ o.out.c >= 16
    THEN [o EXCEPT !.in.c = o.out.c] ELSE o

operation_sanitisation(o) == compressConv_replace_by_CM_CONV_VPU27(avgpool_replace_by(o))

(* The whole sanitization of an L1 query. *)
sanitize_workload(o) ==
    check_and_sanitize(channels_preserving_operations_consistency_check(
        operation_sanitisation(swizzling_turn_OFF(o))))
=============================================================================
