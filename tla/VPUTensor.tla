----------------------------- MODULE VPUTensor -----------------------------
(***************************************************************************)
(* Data types, layouts and the memory a tensor takes (vpu_tensor.h,        *)
(* dpu_dtypes_dimension_info.h, dpu_dtypes_category_info.h,                *)
(* dpu_types_info.h, serializable_tensor.h).                               *)
(*                                                                         *)
(* A tensor is a record with the dimensions w, h, c, b and with dtype and  *)
(* layout.                                                                 *)
(***************************************************************************)
EXTENDS Integers, Sequences

(* In the order of the enumeration. *)
DataType == <<"UINT8", "INT8", "FLOAT16", "BFLOAT16", "BF8", "HF8", "UINT4", "INT4", "UINT2",
              "INT2", "UINT1", "INT1", "INT32", "FLOAT32", "UINT16", "INT16", "FLOAT4",
              "INT64", "UINT64", "FLOAT64", "UINT32">>

dtype_to_bits(dtype) ==
    CASE dtype \in {"INT64", "UINT64", "FLOAT64"} -> 64
      [] dtype \in {"INT32", "UINT32", "FLOAT32"} -> 32
      [] dtype \in {"INT16", "UINT16", "FLOAT16", "BFLOAT16"} -> 16
      [] dtype \in {"INT8", "UINT8", "BF8", "HF8"} -> 8
      [] dtype \in {"INT4", "UINT4", "FLOAT4"} -> 4
      [] dtype \in {"INT2", "UINT2"} -> 2
      [] dtype \in {"INT1", "UINT1"} -> 1

dtype_to_bytes(dtype) == (dtype_to_bits(dtype) + 7) \div 8

types_per_byte(dtype) == IF dtype_to_bits(dtype) <= 8 THEN 8 \div dtype_to_bits(dtype) ELSE 0

is_same_datatype_footprint(d1, d2) == dtype_to_bits(d1) = dtype_to_bits(d2)

is_fp16family_dtype(dtype) == dtype \in {"FLOAT16", "BFLOAT16"}
is_fp8family_dtype(dtype) == dtype \in {"BF8", "HF8"}
is_i16family_dtype(dtype) == dtype \in {"UINT16", "INT16"}
is_i8family_dtype(dtype) ==
    dtype \in {"UINT8", "INT8", "UINT4", "INT4", "UINT2", "INT2", "UINT1", "INT1"}
is_any_float_dtype(dtype) ==
    dtype \in {"FLOAT64", "FLOAT32", "FLOAT16", "BFLOAT16", "BF8", "HF8", "FLOAT4"}
is_any_int_dtype(dtype) ==
    \/ is_i8family_dtype(dtype) \/ is_i16family_dtype(dtype)
    \/ dtype \in {"INT32", "UINT32", "INT64", "UINT64"}

(* The dimensions from the innermost on. *)
layout_to_order(layout) ==
    CASE layout \in {"CMAJOR", "XYZ"} -> <<"w", "h", "c", "b">>
      [] layout = "XZY" -> <<"w", "c", "h", "b">>
      [] layout = "YXZ" -> <<"h", "w", "c", "b">>
      [] layout = "YZX" -> <<"h", "c", "w", "b">>
      [] layout = "ZYX" -> <<"c", "h", "w", "b">>
      [] OTHER -> <<"c", "w", "h", "b">>   \* ZMAJOR, ZXY, INVALID

volume(t) == t.w * t.h * t.c * t.b

set_if_same_layout(t, layout) ==
    IF layout_to_order(t.layout) = layout_to_order(layout) THEN [t EXCEPT !.layout = layout] ELSE t

change_datatype_superficial(t, dtype) ==
    IF is_same_datatype_footprint(dtype, t.dtype) THEN [t EXCEPT !.dtype = dtype] ELSE t

-----------------------------------------------------------------------------
(* Packing.  Whole bytes come first; the bits of a sample that go beyond   *)
(* its last whole byte share a byte with those of its neighbours.          *)

overflowBits(dtype) == dtype_to_bits(dtype) - 8 * (dtype_to_bytes(dtype) - 1)

computeContiguousElementCountAndSize(dtype) ==
    LET elements == 8 \div overflowBits(dtype)
    IN  [elements |-> elements, bytes |-> elements * (dtype_to_bytes(dtype) - 1) + 1]

computeAlignedSequencesSize_B(dtype, elem) ==
    LET seq == computeContiguousElementCountAndSize(dtype)
    IN  (elem \div seq.elements) * seq.bytes

sizeOfRemaininElem_B(dtype, elem) ==
    LET rest == elem % computeContiguousElementCountAndSize(dtype).elements
    IN  IF rest = 0 THEN 0 ELSE (rest * dtype_to_bits(dtype)) \div 8 + 1

RowBytes(dtype, elem) == computeAlignedSequencesSize_B(dtype, elem) + sizeOfRemaininElem_B(dtype, elem)

(* Pack mode 0, the one that is compiled in: every row of the innermost    *)
(* dimension starts in a byte of its own.                                  *)
tensor_size(t) ==
    LET order == layout_to_order(t.layout)
    IN  RowBytes(t.dtype, t[order[1]]) * t[order[2]] * t[order[3]] * t[order[4]]

is_tensor_valid(t) ==
    t[layout_to_order(t.layout)[1]] % computeContiguousElementCountAndSize(t.dtype).elements = 0

get_tensor_innermost_dim_B(t) == RowBytes(t.dtype, t[layout_to_order(t.layout)[1]])

numberOfElementsExcludingInnermost(t) ==
    LET order == layout_to_order(t.layout) IN t[order[2]] * t[order[3]] * t[order[4]]

compute_size_in_bytes(elements, dtype) ==
    IF dtype_to_bytes(dtype) > 1 THEN elements * dtype_to_bytes(dtype)
    ELSE (elements + types_per_byte(dtype) - 1) \div types_per_byte(dtype)

compute_elements_count_from_bytes(bytes, dtype) ==
    IF dtype_to_bytes(dtype) = 1 THEN bytes * types_per_byte(dtype) ELSE bytes \div dtype_to_bytes(dtype)
=============================================================================
