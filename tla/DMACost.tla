------------------------------- MODULE DMACost -------------------------------
(***************************************************************************)
(* DMA transfers: the descriptors and the conversions between them         *)
(* (dma_types.h, dma_workload.h, dma_descriptors.h,                        *)
(* dma_descriptor_transformers.h) and the cost providers                   *)
(* (dma_cost_providers/, dma_postprocessing_mocks.h).                      *)
(*                                                                         *)
(* One side of a strided transfer is the record [dtype, dims, layout]:     *)
(* dims has the elements n and the byte stride of each dimension,          *)
(* outermost first, and the layout "none" is std::nullopt.  A conversion   *)
(* that throws is Thrown.  Cycles are exact quotients, rounded as the code *)
(* rounds them at the end.                                                 *)
(***************************************************************************)
EXTENDS Cycles, VPUTensor, HWCharacteristics, SequencesExt, TLC

MemoryLocation == {"DRAM", "CMX", "CSRAM", "UPA"}

MemoryDirection == {"DDR2CMX", "CMX2CMX", "CMX2DDR", "DDR2DDR"}

MaxExtraDimensions == 5

VPU_DMA_MAX_DIMS == 6

DmaThrown == "exception"

LOCAL RatioToCycles(a, b) == toCycleFromReal(CeilDiv(a, b), 1)

LOCAL LargerOf(x, y) == IF x < y THEN y ELSE x

LOCAL SmallerOf(x, y) == IF x < y THEN x ELSE y

LOCAL Product(s) == FoldSeq(LAMBDA x, y : x * y, 1, s)

-----------------------------------------------------------------------------
(* Places and directions. *)

memoryLocation(device) ==
    CASE device = "VPU_2_0" -> {"DRAM", "CMX", "UPA"}
      [] device = "VPU_2_1" -> {"DRAM", "CMX", "UPA", "CSRAM"}
      [] OTHER -> {"DRAM", "CMX"}

create_locations(direction) ==
    CASE direction = "DDR2DDR" -> <<"DRAM", "DRAM">>
      [] direction = "DDR2CMX" -> <<"DRAM", "CMX">>
      [] direction = "CMX2DDR" -> <<"CMX", "DRAM">>
      [] direction = "CMX2CMX" -> <<"CMX", "CMX">>

create_direction(from, to) ==
    IF \E d \in MemoryDirection : create_locations(d) = <<from, to>>
    THEN CHOOSE d \in MemoryDirection : create_locations(d) = <<from, to>>
    ELSE "none"

getDirection(desc) == create_direction(desc.src_location, desc.dst_location)

-----------------------------------------------------------------------------
(* Strided tensors. *)

getAccessedBytes(t) ==
    IF t.dims = <<>> THEN 0
    ELSE compute_size_in_bytes(Last(t.dims).n, t.dtype) * Product([i \in 1..(Len(t.dims) - 1) |-> t.dims[i].n])

(* One dimension more of the walk from the innermost on: what is packed so *)
(* far, and whether it can still grow.                                     *)
Absorb(dim, walk) ==
    CASE ~walk.grows \/ dim.n = 1 -> walk
      [] walk.grows /\ dim.n = 0 -> [bytes |-> 0, grows |-> FALSE]
      [] walk.grows /\ dim.n > 1 /\ dim.stride # walk.bytes -> [walk EXCEPT !.grows = FALSE]
      [] walk.grows /\ dim.n > 1 /\ dim.stride = walk.bytes -> [walk EXCEPT !.bytes = @ * dim.n]

getContiguousBytes(t) ==
    IF t.dims = <<>> THEN 0
    ELSE FoldRight(Absorb, t.dims, [bytes |-> dtype_to_bytes(t.dtype), grows |-> TRUE]).bytes

(* The ceiling of the quotient, and nothing for an empty chunk. *)
getNumContiguousChunks(total, contiguous) == IF contiguous = 0 THEN 0 ELSE CeilDiv(total, contiguous)

LOCAL Abs(x) == IF x < 0 THEN -x ELSE x

(* The innermost dimension keeps the gap behind its last element, the      *)
(* others do not.                                                          *)
getMemoryFootprintBytes(t) ==
    IF t.dims = <<>> \/ \E i \in DOMAIN t.dims : t.dims[i].n = 0 THEN 0
    ELSE LET inner == Last(t.dims)
             steps == [i \in 1..(Len(t.dims) - 1) |-> (t.dims[i].n - 1) * Abs(t.dims[i].stride)]
         IN  FoldSeq(LAMBDA x, y : x + y, 0, steps)
             + (IF inner.stride = 0 \/ inner.n = 1 THEN dtype_to_bytes(t.dtype) ELSE inner.n * Abs(inner.stride))

LOCAL ByteAligned(dtype) == dtype_to_bits(dtype) % 8 = 0

LOCAL SaneSide(t) ==
    ByteAligned(t.dtype) /\ Len(t.dims) <= VPU_DMA_MAX_DIMS /\ \A i \in DOMAIN t.dims : t.dims[i].n >= 0

checkDescriptorSanity(desc) ==
    SaneSide(desc.src) /\ SaneSide(desc.dst) /\ desc.device \in Range(VPUDevice) /\ getDirection(desc) # "none"

-----------------------------------------------------------------------------
(* From a strided tensor to the width and the extra dimensions of the HW   *)
(* descriptor, innermost first, their sizes counted from 0.                *)

Empty == [width |-> 0, dims |-> <<>>]

(* Mutant: what has no slot of its own is left out. *)
FoldedIntoNothing(dims) == SubSeq(dims, 1, SmallerOf(Len(dims), MaxExtraDimensions))

(* Dimensions that have no slot of their own multiply the last slot.       *)
FoldedIntoLast(dims) ==
    IF Len(dims) <= MaxExtraDimensions THEN dims
    ELSE LET over == [i \in 1..(Len(dims) - MaxExtraDimensions) |-> dims[MaxExtraDimensions + i].size + 1]
         IN  [SubSeq(dims, 1, MaxExtraDimensions)
                 EXCEPT ![MaxExtraDimensions].size = (@ + 1) * Product(over) - 1]

(* The walk of Absorb, and the dimensions it did not take in. *)
collapse_side(t) ==
    IF t.dims = <<>> \/ \E i \in DOMAIN t.dims : t.dims[i].n = 0 THEN Empty
    ELSE LET step(dim, w) ==
                 LET next == Absorb(dim, w.walk)
                 IN  [walk |-> next,
                      dims |-> IF next.grows \/ dim.n = 1 THEN w.dims
                               ELSE Append(w.dims, [stride |-> dim.stride, size |-> dim.n - 1])]
             out == FoldRight(step, t.dims, [walk |-> [bytes |-> dtype_to_bytes(t.dtype), grows |-> TRUE], dims |-> <<>>])
         IN  [width |-> out.walk.bytes, dims |-> FoldedIntoLast(out.dims)]

LOCAL Slot(side, i) == IF i <= Len(side.dims) THEN side.dims[i] ELSE [stride |-> 0, size |-> 0]

fromStridedTensors_toDMANNWorkload_NPU40_50(desc) ==
    LET src == collapse_side(desc.src)
        dst == collapse_side(desc.dst)
        n == LargerOf(Len(src.dims), Len(dst.dims))
    IN  [device |-> desc.device, direction |-> getDirection(desc),
         src |-> [width |-> src.width, dims |-> [i \in 1..n |-> Slot(src, i)]],
         dst |-> [width |-> dst.width, dims |-> [i \in 1..n |-> Slot(dst, i)]]]

(* The same questions to one side of the HW descriptor (NPU40_50). *)
getAccessedBytesNPU40_50(side) == side.width * Product([i \in DOMAIN side.dims |-> side.dims[i].size + 1])

getContiguousBytesNPU40_50(side) ==
    FoldLeft(LAMBDA walk, dim :
                CASE ~walk.grows \/ dim.size = 0 -> walk
                  [] walk.grows /\ dim.size # 0 /\ dim.stride # walk.bytes -> [walk EXCEPT !.grows = FALSE]
                  [] OTHER -> [walk EXCEPT !.bytes = @ * (dim.size + 1)],
             [bytes |-> side.width, grows |-> TRUE], side.dims).bytes

getAccessedBytesNPU27(wl) == (wl.num_planes + 1) * wl.length

(* Back: bytes, the outermost dimension first. *)
fill_side(side) ==
    [dtype |-> "UINT8", layout |-> "none",
     dims |-> Reverse(<<[n |-> side.width, stride |-> 1]>>
                      \o [i \in DOMAIN side.dims |-> [n |-> side.dims[i].size + 1, stride |-> side.dims[i].stride]])]

fromDMANNWorkload_NPU40_50_to_VPUDMADescriptor(wl) ==
    [device |-> wl.device, src |-> fill_side(wl.src), dst |-> fill_side(wl.dst),
     src_location |-> create_locations(wl.direction)[1], dst_location |-> create_locations(wl.direction)[2]]

-----------------------------------------------------------------------------
(* Between tensors and 1D sides. *)

to_byte_aligned_dtype(dtype) ==
    CASE ByteAligned(dtype) -> dtype
      [] dtype \in {"INT1", "INT2", "INT4"} -> "INT8"
      [] dtype = "FLOAT4" -> "BF8"
      [] OTHER -> "UINT8"

(* The elements of so many bytes: of the aligned type when they divide     *)
(* evenly, otherwise the bytes themselves.                                 *)
LOCAL Elements(bytes, dtype) ==
    IF bytes % dtype_to_bytes(dtype) = 0
    THEN [dtype |-> dtype, n |-> bytes \div dtype_to_bytes(dtype), stride |-> dtype_to_bytes(dtype)]
    ELSE [dtype |-> "UINT8", n |-> bytes, stride |-> 1]

make_side(t) ==
    LET e == Elements(tensor_size(t), to_byte_aligned_dtype(t.dtype))
    IN  [dtype |-> e.dtype, dims |-> <<[n |-> e.n, stride |-> e.stride]>>, layout |-> t.layout]

fromDMAWorkload_to_VPUDMADescriptor(wl) ==
    [device |-> wl.device, src |-> make_side(wl.input), dst |-> make_side(wl.output),
     src_location |-> wl.input_location, dst_location |-> wl.output_location]

LOCAL Flat(n, dtype, layout) == [w |-> n, h |-> 1, c |-> 1, b |-> 1, dtype |-> dtype, layout |-> layout]

make_tensor(side) ==
    LET e == Elements(getAccessedBytes(side), to_byte_aligned_dtype(side.dtype))
    IN  Flat(e.n, e.dtype, IF side.layout = "none" THEN "ZXY" ELSE side.layout)

fromVPUDMADescriptor_to_DMAWorkload(desc) ==
    [device |-> desc.device, input |-> make_tensor(desc.src), output |-> make_tensor(desc.dst),
     input_location |-> desc.src_location, output_location |-> desc.dst_location]

fromDMATransfer1D_to_DMAWorkload(dma) ==
    [device |-> dma.device, input |-> Flat(dma.bytes, "UINT8", "ZXY"), output |-> Flat(dma.bytes, "UINT8", "ZXY"),
     input_location |-> create_locations(dma.direction)[1], output_location |-> create_locations(dma.direction)[2]]

fromDMATransfer1D_to_VPUDMADescriptor(dma) ==
    fromDMAWorkload_to_VPUDMADescriptor(fromDMATransfer1D_to_DMAWorkload(dma))

(* DMANNWorkloadCreator: everything in one plane, or in the width. *)
CreateNPU27(dma) ==
    [device |-> dma.device, direction |-> dma.direction, num_planes |-> 0, length |-> dma.bytes]

CreateNPU40_50(dma) ==
    [device |-> dma.device, direction |-> dma.direction,
     src |-> [width |-> dma.bytes, dims |-> <<>>], dst |-> [width |-> dma.bytes, dims |-> <<>>]]

(* The first generation takes nothing that changes on its way. *)
DMAWorkload_to_NPU27(wl) ==
    IF \/ tensor_size(wl.input) # tensor_size(wl.output)
       \/ wl.input.dtype # wl.output.dtype \/ wl.input.layout # wl.output.layout
       \/ create_direction(wl.input_location, wl.output_location) = "none"
    THEN DmaThrown
    ELSE CreateNPU27([device |-> wl.device, bytes |-> tensor_size(wl.input),
                      direction |-> create_direction(wl.input_location, wl.output_location)])

DMAWorkload_to_NPU40_50(wl) ==
    IF create_direction(wl.input_location, wl.output_location) = "none" THEN DmaThrown
    ELSE [device |-> wl.device, direction |-> create_direction(wl.input_location, wl.output_location),
          src |-> [width |-> tensor_size(wl.input), dims |-> <<>>],
          dst |-> [width |-> tensor_size(wl.output), dims |-> <<>>]]

LOCAL BytesRead(wl) == IF "num_planes" \in DOMAIN wl THEN getAccessedBytesNPU27(wl) ELSE getAccessedBytesNPU40_50(wl.src)

(* Both sides get the bytes read, whatever is written. *)
DMANNWorkload_to_DMAWorkload(wl) ==
    IF \E i \in 1..2 : create_locations(wl.direction)[i] \notin memoryLocation(wl.device) THEN DmaThrown
    ELSE fromDMATransfer1D_to_DMAWorkload([device |-> wl.device, bytes |-> BytesRead(wl), direction |-> wl.direction])

-----------------------------------------------------------------------------
(* The theoretical cost before NPU 5.0.  Cycles per byte are a pair        *)
(* <<cycles, bytes>>.                                                      *)

get_sram_word_sizeLegacy(t, compression, permute, half_duplex) ==
    IF permute THEN dtype_to_bytes(t.dtype)
    ELSE SmallerOf(tensor_size(t), (IF compression THEN 64 ELSE 32) \div (IF half_duplex THEN 2 ELSE 1))

get_bandwidth_cycles_per_bytesLegacy(hw, t, location, word) ==
    IF location = "DRAM" THEN <<hw.raw.dpu_freq_clk, hw.raw.dram_MBps>>
    ELSE <<hw.raw.dpu_freq_clk, hw.raw.cmx_freq_clk * word>>

LegacySideCycles(hw, t, location, word) ==
    LET bw == get_bandwidth_cycles_per_bytesLegacy(hw, t, location, word)
    IN  RatioToCycles(tensor_size(t) * bw[1], bw[2])

DMATheoreticalCyclesLegacyLNL(wl) ==
    LET hw == LegacySet(wl.device)
        half == ~AtLeast(wl.device, "VPU_4_0") /\ wl.input_location = "CMX" /\ wl.output_location = "CMX"
        permuted == wl.input.layout # wl.output.layout
        resized == tensor_size(wl.input) # tensor_size(wl.output)
        side(t, location) ==
            LegacySideCycles(hw, t, location,
                get_sram_word_sizeLegacy(t, resized /\ location = "CMX", permuted /\ location = "CMX", half))
    IN  cost_adder(LargerOf(get_DMA_latency(hw, wl.input_location), get_DMA_latency(hw, wl.output_location)),
                   LargerOf(side(wl.input, wl.input_location), side(wl.output, wl.output_location)))

-----------------------------------------------------------------------------
(* The theoretical cost since NPU 5.0, in bytes per CMX cycle. *)

compute_DRAM_bandwith_BytesPerCyc(hw) == SmallerOf(hw.raw.dram_MBps \div hw.raw.cmx_freq_clk, hw.raw.DMA_engine_B)

(* Decompression writes faster than it reads, up to twice the engine. *)
cmx_agregated_bytes_per_cycle_bw(hw, t, permute, compression, read, wrote, bw) ==
    CASE permute -> dtype_to_bytes(t.dtype)
      [] ~permute /\ compression -> IF read = 0 THEN 2 * hw.raw.DMA_engine_B
                                    ELSE SmallerOf(2 * hw.raw.DMA_engine_B, (bw * wrote) \div read)
      [] ~permute /\ ~compression -> hw.raw.DMA_engine_B

get_bytes_per_cycle_read_bw(hw, location) ==
    IF location = "DRAM" THEN compute_DRAM_bandwith_BytesPerCyc(hw) ELSE hw.raw.DMA_engine_B

get_bytes_per_cycle_write_bw(hw, location, aggregated) ==
    IF location = "DRAM" THEN compute_DRAM_bandwith_BytesPerCyc(hw) ELSE aggregated

LOCAL Paced(hw, bytes, bw, efficiency) ==
    RatioToCycles(((bytes * 1000) \div (efficiency \div 1000)) * hw.raw.dpu_freq_clk, bw * hw.raw.cmx_freq_clk)

DMATheoreticalCyclesPTL_ON(wl) ==
    LET hw == mainConfiguration(wl.device)
        read == tensor_size(wl.input)
        wrote == tensor_size(wl.output)
        permutation == wl.input.layout # wl.output.layout /\ wl.input_location = "CMX" /\ wl.output_location = "CMX"
        decompression == read < wrote /\ wl.input_location = "DRAM" /\ wl.output_location = "CMX"
        eff == getDMATransferEfficiency(hw, wl.input_location, wl.output_location)
        in_bw == get_bytes_per_cycle_read_bw(hw, wl.input_location)
        out_bw == get_bytes_per_cycle_write_bw(hw, wl.output_location,
                      cmx_agregated_bytes_per_cycle_bw(hw, wl.output, permutation, decompression, read, wrote, in_bw))
    IN  cost_adder(LargerOf(get_DMA_latency(hw, wl.input_location), get_DMA_latency(hw, wl.output_location)),
                   LargerOf(Paced(hw, read, in_bw, eff.in), Paced(hw, wrote, out_bw, eff.out)))

forceLegacy_G4 == TRUE

forceLegacy_G5 == FALSE

DMATheoreticalCostProvider(wl) ==
    IF \/ ~AtLeast(wl.device, "VPU_4_0")
       \/ wl.device = "VPU_4_0" /\ forceLegacy_G4
       \/ AtLeast(wl.device, "NPU_5_0") /\ forceLegacy_G5
    THEN DMATheoreticalCyclesLegacyLNL(wl) ELSE DMATheoreticalCyclesPTL_ON(wl)

-----------------------------------------------------------------------------
(* The strided cost: a line per direction, its slope and its intercept in  *)
(* millionths, and the thresholds of the source and the destination.       *)

DirectionModelingEntry(k, b, src, dst) == [k |-> k, b |-> b, src |-> src, dst |-> dst]

get_modeling_function_map ==
    ("DDR2CMX" :> DirectionModelingEntry(18580, 324777500, 256, 64))
    @@ ("CMX2DDR" :> DirectionModelingEntry(18588, 276831600, 64, 256))
    @@ ("CMX2CMX" :> DirectionModelingEntry(15625, 19990900, 64, 64))
    @@ ("DDR2DDR" :> DirectionModelingEntry(18580, 324777500, 256, 256))

is_stride_penalty_enabled(device) == device \in {"NPU_5_0", "NPU_5_0_W"}

(* The two devices that have an entry have the same one. *)
find_entry(device, direction) ==
    IF device \in {"NPU_5_0", "NPU_5_0_W"} THEN <<get_modeling_function_map[direction]>> ELSE <<>>

threshold_bytes(direction, is_source) ==
    IF create_locations(direction)[IF is_source THEN 1 ELSE 2] = "DRAM" THEN 256 ELSE 64

get_stride_threshold_bytes(entry, direction, is_source) ==
    IF entry = <<>> THEN threshold_bytes(direction, is_source)
    ELSE IF is_source THEN entry[1].src ELSE entry[1].dst

cycles_by_bandwidth(bytes, device) ==
    LET bw == mainConfiguration(device).raw.DMA_engine_B IN LargerOf(1, bytes \div (IF bw > 0 THEN bw ELSE 1))

query_dma_cost_by_size(entry, bytes, device) ==
    IF entry = <<>> THEN cycles_by_bandwidth(bytes, device)
    ELSE (entry[1].k * bytes + entry[1].b) \div 1000000

(* The cycles times the penalty: the blocks that a chunk touches, over the *)
(* bytes of the chunk.                                                     *)
get_penalty_factor_for_stride_dma(cycles, contiguous, threshold) ==
    IF contiguous <= 0 THEN cycles
    ELSE (cycles * threshold * CeilDiv(contiguous, threshold)) \div contiguous

computeCyclesWithStridePenalty(contiguous, total, device, direction, is_source) ==
    LET entry == find_entry(device, direction)
        base == query_dma_cost_by_size(entry, total, device)
    IN  IF is_stride_penalty_enabled(device) /\ contiguous < total
        THEN get_penalty_factor_for_stride_dma(base, contiguous, get_stride_threshold_bytes(entry, direction, is_source))
        ELSE base

DMAStridedCycles(desc) ==
    LET hw == mainConfiguration(desc.device)
        side(t, is_source) ==
            computeCyclesWithStridePenalty(getContiguousBytes(t), getAccessedBytes(t), desc.device,
                                           getDirection(desc), is_source)
    IN  RatioToCycles(LargerOf(side(desc.src, TRUE), side(desc.dst, FALSE)) * hw.raw.dpu_freq_clk, hw.raw.cmx_freq_clk)

(* DMATheoreticalCostModel::DMA for a descriptor. *)
TheoreticalStridedCost(desc) ==
    IF checkDescriptorSanity(desc) THEN DMAStridedCycles(desc) ELSE ERROR_INVALID_INPUT_CONFIGURATION

-----------------------------------------------------------------------------
(* The network.  raw is its output in thousandths: the share of the        *)
(* engine's bandwidth, or the cycles themselves.                           *)

ConvertFromSizeDivCycleToDPUCyc(wl, raw) ==
    LET hw == mainConfiguration(wl.device)
        clamped == LargerOf(5, SmallerOf(raw * hw.raw.DMA_engine_B, 1000 * hw.raw.DMA_engine_B))
    IN  IF raw > 1100 \/ raw < -100 THEN ERROR_INVALID_OUTPUT_RANGE
        ELSE RatioToCycles(((BytesRead(wl) * hw.raw.dpu_freq_clk) \div hw.raw.cmx_freq_clk) * 1000, clamped)

ConvertFromDirectCycleToDPUCyc(wl, raw) ==
    IF raw > 1000000000 \/ raw < 0 THEN ERROR_INVALID_OUTPUT_RANGE ELSE toCycleFromReal(CeilDiv(raw, 1000), 1)

(* The first provider without an error; the errors themselves are lost. *)
PriorityDMACost(costs) ==
    LET good == SelectSeq(costs, LAMBDA c : ~isErrorCode(c))
    IN  IF good = <<>> THEN ERROR_NO_VALID_DMA_COST_PROVIDER ELSE good[1]
=============================================================================
