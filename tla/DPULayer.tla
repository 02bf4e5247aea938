------------------------------ MODULE DPULayer ------------------------------
(***************************************************************************)
(* A DPU layer and its split across the tiles of the device                *)
(* (include/vpu/layer.h, with the halo and SEP records of dpu_halo.h and   *)
(* sep_mode.h and the integer helpers of vpu/utils.h).                     *)
(*                                                                         *)
(* A layer is a record: op, in and out (the compute tensors, each          *)
(* [w, h, c]), kernel and stride ([w, h]), pad ([top, bottom, left,        *)
(* right]), owt (output_write_tiles), isi, autopad (output_autopad), halo  *)
(* and sep.  Data types, sparsity and swizzling are copied to every tile   *)
(* unread, so they are left out here.  Batches are 1.                      *)
(***************************************************************************)
EXTENDS Integers, Sequences, FiniteSets, SequencesExt, FiniteSetsExt

ceil_division(a, b) == (a + b - 1) \div b

round_up(a, b) == ((a + b - 1) \div b) * b

dw_channel_align(channels) == IF channels <= 16 THEN 16 ELSE round_up(channels, 32)

eltwise_channel_align(channels) == round_up(channels, 16)

is_dwconv_family_operation(op) == op \in {"DW_CONVOLUTION", "AVEPOOL", "MAXPOOL"}

(* The input that `output` elements need; 0 where nothing is produced. *)
helper_input_dim(output, kernel, total_padding, stride) ==
    LET raw == (output - 1) * stride - total_padding + kernel
    IN  IF raw <= 0 \/ output = 0 THEN 0 ELSE raw

-----------------------------------------------------------------------------
(* Halos. *)

NoHalo == [top |-> 0, bottom |-> 0, left |-> 0, right |-> 0, front |-> 0, back |-> 0]

HaloWorkload == [input |-> NoHalo, output |-> NoHalo, broadcast_cnt |-> NoHalo, inbound |-> NoHalo]

setVerticalNoHalo(halo) ==
    [part \in DOMAIN halo |-> [halo[part] EXCEPT !.top = 0, !.bottom = 0]]

setHorizontalNoHalo(halo) ==
    [part \in DOMAIN halo |-> [halo[part] EXCEPT !.left = 0, !.right = 0]]

(* What the other tiles write before and after this one's slice. *)
setInboundHaloVerticalForBroadcastAll(halo, full, remaining, dim) ==
    [halo EXCEPT !.inbound.top = full - remaining, !.inbound.bottom = remaining - dim]

setInboundHaloHorizontalForBroadcastAll(halo, full, remaining, dim) ==
    [halo EXCEPT !.inbound.left = full - remaining, !.inbound.right = remaining - dim]

-----------------------------------------------------------------------------
(* The two axes along which activations are split. *)

Axis_H == [dim |-> "h", begin |-> "top", end |-> "bottom"]
Axis_W == [dim |-> "w", begin |-> "left", end |-> "right"]

size(tensor) == tensor.w * tensor.h * tensor.c

(* The tiles that produce something, in their order. *)
remove_empty_tiles(tiles) ==
    LET kept   == {i \in DOMAIN tiles : size(tiles[i].out) # 0}
        Nth(k) == CHOOSE i \in kept : Cardinality({j \in kept : j <= i}) = k
    IN  [k \in 1..Cardinality(kept) |-> tiles[Nth(k)]]

redimension_tile(tile, axis, input_tile_dim, output_tile_dim) ==
    [tile EXCEPT !.out[axis.dim] = output_tile_dim, !.in[axis.dim] = input_tile_dim]

(* One dimension of a SEP tensor, scaled to the share of the tile; at least 1. *)
rescale_tensor(tensor, axis, part, whole) ==
    [tensor EXCEPT ![axis.dim] = Max({1, ceil_division(tensor[axis.dim] * part, whole)})]

RescaleSEP(sep, axis, part, whole) ==
    IF sep.enabled
    THEN [sep EXCEPT !.pointers = rescale_tensor(@, axis, part, whole),
                     !.actual   = rescale_tensor(@, axis, part, whole)]
    ELSE sep

-----------------------------------------------------------------------------
(* Clustering: every tile has the whole layer. *)

clustering(layer, nTiles) == [i \in 1..nTiles |-> [layer EXCEPT !.isi = "CLUSTERING"]]

(* The slices of one output dimension, in order: equal but for the last    *)
(* ones, which get what is left, possibly nothing.                         *)
Remaining(output_size, desired, i) == Max({0, output_size - (i - 1) * desired})

Slice(output_size, desired, i) == Min({desired, Remaining(output_size, desired, i)})

(* Mutant: every tile has the padding of the end. *)
TileContextPadAll(layer, axis, nTiles) ==
    LET k == layer.kernel[axis.dim]
        s == layer.stride[axis.dim]
        output_size == layer.out[axis.dim]
        desired == ceil_division(output_size, nTiles)
    IN  [i \in 1..nTiles |->
           LET remaining == Remaining(output_size, desired, i)
               out       == Slice(output_size, desired, i)
               consumed  == (output_size - remaining) * s
               available == layer.in[axis.dim] + layer.pad[axis.begin] - consumed
               pad_begin == Max({0, layer.pad[axis.begin] - consumed})
               last      == remaining = out
               required  == helper_input_dim(out, k, 0, s)
               need_more == required - available
               from_end  == IF need_more > 0 THEN Min({need_more, layer.pad[axis.end]}) ELSE 0
           IN  [remaining |-> remaining, out |-> out, available |-> available, last |-> last,
                required |-> required, pad_begin |-> pad_begin,
                pad_end |-> layer.pad[axis.end],
                in |-> Max({0, required - pad_begin - from_end})]]

(* The loop variables of the overlapped and of the halo split at tile i.   *)
(* A slice of `out` outputs consumes out * stride of the padded input; the *)
(* padding at the beginning is used up first.                              *)
TileContext(layer, axis, nTiles) ==
    LET k == layer.kernel[axis.dim]
        s == layer.stride[axis.dim]
        output_size == layer.out[axis.dim]
        desired == ceil_division(output_size, nTiles)
    IN  [i \in 1..nTiles |->
           LET remaining == Remaining(output_size, desired, i)
               out       == Slice(output_size, desired, i)
               consumed  == (output_size - remaining) * s
               available == layer.in[axis.dim] + layer.pad[axis.begin] - consumed
               pad_begin == Max({0, layer.pad[axis.begin] - consumed})
               last      == remaining = out
               required  == helper_input_dim(out, k, 0, s)
               need_more == required - available
               from_end  == IF need_more > 0 THEN Min({need_more, layer.pad[axis.end]}) ELSE 0
           IN  [remaining |-> remaining, out |-> out, available |-> available, last |-> last,
                required |-> required, pad_begin |-> pad_begin,
                pad_end |-> IF last THEN layer.pad[axis.end] ELSE from_end,
                in |-> Max({0, required - pad_begin - from_end})]]

(* Mutant: the tiles that are missing are written to all the same. *)
KeepBroadcast(tiles, force_broadcast, nTiles) == tiles

(* Where fewer tiles came out than were asked for, a forced broadcast      *)
(* reaches the tiles that there are.                                       *)
LimitBroadcast(tiles, force_broadcast, nTiles) ==
    IF force_broadcast /\ Len(tiles) < nTiles
    THEN [i \in DOMAIN tiles |-> [tiles[i] EXCEPT !.owt = Len(tiles)]]
    ELSE tiles

(* What the neighbours of a tile write: nothing, unless the output is      *)
(* broadcast.                                                              *)
overlapped_halo(layer, axis, owt, c) ==
    LET clear == IF axis = Axis_H THEN setVerticalNoHalo(layer.halo)
                                  ELSE setHorizontalNoHalo(layer.halo)
    IN  IF owt <= 1 THEN clear
        ELSE IF axis = Axis_H
        THEN setInboundHaloVerticalForBroadcastAll(clear, layer.out.h, c.remaining, c.out)
        ELSE setInboundHaloHorizontalForBroadcastAll(clear, layer.out.w, c.remaining, c.out)

overlapped_tile(layer, axis, owt, c) ==
    [redimension_tile(layer, axis, c.in, c.out) EXCEPT
         !.pad[axis.begin] = c.pad_begin, !.pad[axis.end] = c.pad_end,
         !.isi = "CLUSTERING", !.owt = owt, !.halo = overlapped_halo(layer, axis, owt, c),
         !.sep = RescaleSEP(@, axis, c.in, layer.in[axis.dim])]

WrittenTiles(layer, nTiles, force_broadcast) == IF force_broadcast THEN nTiles ELSE layer.owt

(* SOH_overlapped_inputs and SOW_overlapped_inputs: the same algorithm on  *)
(* the two axes.  Neighbouring tiles hold the input lines both need.       *)
overlapped_inputs(layer, axis, nTiles, force_broadcast) ==
    LET ctx == TileContext(layer, axis, nTiles)
        owt == WrittenTiles(layer, nTiles, force_broadcast)
    IN  LimitBroadcast(remove_empty_tiles([i \in 1..nTiles |-> overlapped_tile(layer, axis, owt, ctx[i])]),
                       force_broadcast, nTiles)

SOH_overlapped_inputs(layer, nTiles, force_broadcast) ==
    overlapped_inputs(layer, Axis_H, nTiles, force_broadcast)

SOW_overlapped_inputs(layer, nTiles, force_broadcast) ==
    overlapped_inputs(layer, Axis_W, nTiles, force_broadcast)

(* Mutant: the last line in the memory of the previous tile is stored in   *)
(* this one too.                                                           *)
NotStoredHereOffByOne(prev_memory_end, compute_start) ==
    Max({prev_memory_end, compute_start}) - compute_start

(* The first lines of a tile that are in the memory of the previous one. *)
NotStoredHere(prev_memory_end, compute_start) ==
    Max({prev_memory_end + 1, compute_start}) - compute_start

(* SOH_HALO_inputs: the lines two neighbours both need are stored half and *)
(* half, and each reads the other half as input halo.  Positions count     *)
(* from the end of the input, -available being the first line of a tile.   *)
compute_start(ctx, i) == 0 - ctx[i].available

compute_end(ctx, i) == compute_start(ctx, i) + ctx[i].required - 1

halo_bottom(layer, ctx, i) ==
    LET overlap == ctx[i].required - ctx[i].out * layer.stride.h
    IN  IF ctx[i].pad_end = 0 /\ ~ctx[i].last /\ overlap > 0
        THEN overlap - ceil_division(overlap, 2) ELSE 0

(* The last line in the memory of tile i; before the first tile there is *)
(* none.                                                                 *)
memory_end(layer, ctx, i) ==
    IF i = 0 THEN 0 - layer.in.h - 1
    ELSE compute_end(ctx, i) - halo_bottom(layer, ctx, i) - ctx[i].pad_end

halo_top(layer, ctx, i) ==
    IF ctx[i].pad_begin = 0 THEN NotStoredHere(memory_end(layer, ctx, i - 1), compute_start(ctx, i)) ELSE 0

HALO_halo(layer, ctx, i) ==
    LET halo == [setVerticalNoHalo(layer.halo) EXCEPT
                     !.input.top = halo_top(layer, ctx, i), !.input.bottom = halo_bottom(layer, ctx, i)]
    IN  IF layer.owt > 1
        THEN setInboundHaloVerticalForBroadcastAll(halo, layer.out.h, ctx[i].remaining, ctx[i].out)
        ELSE halo

HALO_tile(layer, ctx, i) ==
    [redimension_tile(layer, Axis_H, ctx[i].in, ctx[i].out) EXCEPT
         !.pad.top = ctx[i].pad_begin, !.pad.bottom = ctx[i].pad_end,
         !.isi = "SPLIT_OVER_H", !.halo = HALO_halo(layer, ctx, i)]

SOH_HALO_tiles(layer, ctx) == remove_empty_tiles([i \in DOMAIN ctx |-> HALO_tile(layer, ctx, i)])

SOH_HALO_inputs(layer, nTiles) == SOH_HALO_tiles(layer, TileContext(layer, Axis_H, nTiles))

-----------------------------------------------------------------------------
(* The input that belongs to an output that was changed: kernels with      *)
(* depth keep the input channels, the others follow the output.            *)
recomputeInputTensorShape(layer) ==
    [layer EXCEPT
        !.in = [w |-> (layer.out.w - 1) * layer.stride.w + layer.kernel.w
                          - layer.pad.left - layer.pad.right,
                h |-> (layer.out.h - 1) * layer.stride.h + layer.kernel.h
                          - layer.pad.top - layer.pad.bottom,
                c |-> IF layer.op \in {"CONVOLUTION", "CM_CONVOLUTION"}
                      THEN layer.in.c ELSE layer.out.c]]

(* A slice of the output channels, the rest of which the others write. *)
SOK_tile(layer, owt, isi, remaining, channels) ==
    [recomputeInputTensorShape([layer EXCEPT !.out.c = channels]) EXCEPT
         !.isi = isi, !.owt = owt,
         !.halo.inbound.front = IF owt > 1 THEN layer.out.c - remaining ELSE 0,
         !.halo.inbound.back  = IF owt > 1 THEN remaining - channels ELSE 0]

(* SOK: the output channels in slices that are multiples of the rounding,  *)
(* of 1 when the output is padded by the hardware.                         *)
SOK_Variants(layer, nTiles, force_broadcast, rounding) ==
    LET output_size == layer.out.c
        effective_rounding == IF layer.autopad THEN 1 ELSE rounding
        max_tile == round_up(ceil_division(output_size, nTiles), effective_rounding)
        isi == IF force_broadcast THEN "SPLIT_OVER_K" ELSE "CLUSTERING"
    IN  LimitBroadcast(remove_empty_tiles(
            [i \in 1..nTiles |-> SOK_tile(layer, WrittenTiles(layer, nTiles, force_broadcast), isi,
                                          Remaining(output_size, max_tile, i),
                                          Slice(output_size, max_tile, i))]), force_broadcast, nTiles)

SOK(layer, nTiles) == SOK_Variants(layer, nTiles, TRUE, 16)

SOK_no_broadcast(layer, nTiles) == SOK_Variants(layer, nTiles, FALSE, 16)

VPUTilingStrategies == {"NONE", "SOH_Overlapped", "SOHO_K_SWITCH", "SOK", "SOK_NO_BROADCAST",
                        "SOH_HaloRead", "SOW", "SOHW", "SOHK", "SOH_K_SWITCH",
                        "SOK_H_SWITCH", "SOK_W_SWITCH", "UNKNOWN"}

(* A strategy that is not supported gives no tiles at all. *)
splitAcrossTiles(layer, strategy, nTiles) ==
    CASE strategy = "NONE"             -> clustering(layer, nTiles)
      [] strategy = "SOH_Overlapped"   -> SOH_overlapped_inputs(layer, nTiles, FALSE)
      [] strategy = "SOHO_K_SWITCH"    -> SOH_overlapped_inputs(layer, nTiles, TRUE)
      [] strategy = "SOK"              -> SOK(layer, nTiles)
      [] strategy = "SOK_NO_BROADCAST" -> SOK_no_broadcast(layer, nTiles)
      [] strategy = "SOH_HaloRead"     -> SOH_HALO_inputs(layer, nTiles)
      [] strategy = "SOW"              -> SOW_overlapped_inputs(layer, nTiles, FALSE)
      [] OTHER                         -> <<>>

(* The ISI strategy the layer check assumes for a tiling strategy. *)
mapTilingStrategiesToWorkload(strategy) ==
    CASE strategy = "SOH_HaloRead" -> "SPLIT_OVER_H"
      [] strategy \in {"SOK", "SOK_NO_BROADCAST"} -> "SPLIT_OVER_K"
      [] OTHER -> "CLUSTERING"
=============================================================================
