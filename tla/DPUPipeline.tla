----------------------------- MODULE DPUPipeline -----------------------------
(***************************************************************************)
(* What VPULayerCostModel does with a DPU layer before any transfer is     *)
(* added: the layer is sanitized and checked, split across the tiles, each *)
(* tile is checked and cut into the cheapest workloads.  A second query    *)
(* may hand in the tiles instead (LayersPreSplit).  LayerCost models what  *)
(* follows, with the costs of the tiles as its inputs.                     *)
(*                                                                         *)
(* The module also runs two algorithms by themselves: the iteration of a   *)
(* SmartRanges and the splitter of channels of the latest devices.         *)
(***************************************************************************)
EXTENDS Tiling, FiniteSets

CONSTANTS
    Queries,       \* records layer, strategy, nTiles, nDPU, regime
    Ranges,        \* the ranges to iterate over
    Divisions,     \* records blocks, remainders, target
    maxWorkloads   \* maxWorkloadsPerIntraTileSplit

(* A record with the fields that preparing and splitting a layer read. *)
Fields == {"op", "swizzling", "device", "in", "out", "kernel", "stride", "pad", "owt", "isi", "halo",
           "sep", "autopad", "in_autopad"}

IsRecord(l) == l = [f \in DOMAIN l |-> l[f]] /\ Fields \subseteq DOMAIN l

(* A layer as a caller can write it down: sizes, kernels, strides and      *)
(* paddings are unsigned, halos may be negative.                           *)
IsDPULayer(l) ==
    /\ IsRecord(l)
    /\ {l.in, l.out} \subseteq [w : Nat, h : Nat, c : Nat]
    /\ {l.kernel, l.stride} \subseteq [w : Nat, h : Nat]
    /\ l.pad \in [top : Nat, bottom : Nat, left : Nat, right : Nat]
    /\ l.owt \in Nat /\ {l.autopad, l.in_autopad} \subseteq BOOLEAN
    /\ l.halo \in [DOMAIN HaloWorkload -> [DOMAIN NoHalo -> Int]]

(* A range that the constructor made: the bounds are clamped, the divisors *)
(* positive, and the common multiple is that of the two divisors.          *)
IsRange(r) ==
    /\ r = [lower |-> r.lower, upper |-> r.upper, divisor |-> r.divisor, second |-> r.second, lcm |-> r.lcm]
    /\ {r.lower, r.upper, r.second} \subseteq Nat /\ r.divisor \in Nat \ {0}
    /\ r.lcm = IF r.second = NoDivisor THEN r.divisor ELSE Lcm(r.divisor, r.second)

ASSUME RangesAssumption == \A r \in Ranges : IsRange(r)

ASSUME QueriesAssumption == \A q \in Queries : IsDPULayer(q.layer) /\ q.nTiles \in Nat

VARIABLES
    query,         \* the arguments of the call, or Idle
    layer,         \* the layer as the model sanitized it
    stage,         \* where the call is
    tiles_layer,   \* the layers on the tiles
    detailed,      \* for each tile done: cost, workloads and all the splits
    verdict,       \* the result of the call
    first,         \* the result of the Layer call whose tiles were handed in
    algorithm      \* the last call of one of the two algorithms

vars == <<query, layer, stage, tiles_layer, detailed, verdict, first, algorithm>>

Idle == [idle |-> TRUE]
NoResult == -1

SplitOptions(q) ==
    [maxWorkloads |-> maxWorkloads, nDPU |-> q.nDPU, runtimeOverhead |-> 0,
     strategies |-> <<"HW_TILING", "Z_TILING">>]

(* The first report of the tiles that is no success; none at all is an     *)
(* error of its own.                                                       *)
CheckTiles(tiles) ==
    LET bad == SelectInSeq(tiles, LAMBDA t : check_splitLayer_consistency(t) # NO_ERROR)
    IN  IF tiles = <<>> THEN ERROR_TILE_OUTPUT
        ELSE IF bad # 0 THEN check_splitLayer_consistency(tiles[bad]) ELSE NO_ERROR

(* generateSplits, and the path of its own of ZEffTiling. *)
Joined(per_mode) ==
    IF \E i \in DOMAIN per_mode : per_mode[i] = Exception THEN Exception ELSE FlattenSeq(per_mode)

processZEffTilingSplits(regime, tile, options, modes) ==
    Joined([i \in DOMAIN modes |-> MeasureZEff(regime, tile, options, modes[i])])

MeasureAll(regime, tile, options, variants) ==
    FlattenSeq([i \in DOMAIN variants |-> MeasureVariant(regime, tile, options, variants[i])])

generateSplits(regime, tile, options) ==
    IF "ZEff" \in ToSet(getTilingAlgorithms(tile, options))
    THEN processZEffTilingSplits(regime, tile, options, ExecutionModes(tile))
    ELSE MeasureAll(regime, tile, options, Variants(tile, options))

(* intraTileSplit with the try block around it: without any split it throws. *)
ChosenSplit(splits) ==
    IF splits = Exception \/ splits = <<>>
    THEN [cost |-> ERROR_TILE_SPLIT_EXCEPTION, workloads |-> <<>>, splits |-> <<>>]
    ELSE [cost |-> splits[minimum_split(splits)].cost,
          workloads |-> splits[minimum_split(splits)].workloads, splits |-> splits]

intraTileSplit(regime, tile, options) == ChosenSplit(generateSplits(regime, tile, options))

(* The slowest tile; a tile that failed, or costs of zero only, are an     *)
(* error of the layer.                                                     *)
extractLargestTime(costs) ==
    IF costs \subseteq {0} \/ \E c \in costs : isErrorCode(c) THEN ERROR_TILE_OUTPUT
    ELSE Max(costs)

-----------------------------------------------------------------------------
Init ==
    /\ query = Idle /\ layer = Idle /\ stage = "idle" /\ tiles_layer = <<>> /\ detailed = <<>>
    /\ verdict = NoResult /\ first = NoResult /\ algorithm = Idle

Answer(v) == stage' = "done" /\ verdict' = v

AnswerIfError(report, otherwise) ==
    IF report # NO_ERROR THEN Answer(report) ELSE stage' = otherwise /\ UNCHANGED verdict

TakeTiles(tiles) == tiles_layer' = tiles /\ AnswerIfError(CheckTiles(tiles), "tiling")

Prepared(l) == sanitize_preconditions(operation_sanitisation(swizzling_turn_OFF(l)))

(* Layer, up to the check of the whole layer. *)
CheckLayer(q, l) ==
    /\ query' = q /\ layer' = l
    /\ AnswerIfError(IF q.nTiles = 0 THEN ERROR_L2_INVALID_PARAMETERS
                     ELSE check_completeLayer_consistency(
                              l, mapTilingStrategiesToWorkload(q.strategy), q.nTiles, q.strategy),
                     "split")

Layer ==
    /\ stage = "idle" /\ algorithm = Idle
    /\ \E q \in Queries : CheckLayer(q, Prepared(q.layer))
    /\ UNCHANGED <<tiles_layer, detailed, first, algorithm>>

SplitLayer ==
    /\ stage = "split"
    /\ TakeTiles(splitAcrossTiles(layer, query.strategy, query.nTiles))
    /\ UNCHANGED <<query, layer, detailed, first, algorithm>>

SplitTile ==
    /\ stage = "tiling" /\ Len(detailed) < Len(tiles_layer)
    /\ detailed' = Append(detailed, intraTileSplit(query.regime, tiles_layer[Len(detailed) + 1],
                                                   SplitOptions(query)))
    /\ UNCHANGED <<query, layer, stage, tiles_layer, verdict, first, algorithm>>

LargestTime ==
    /\ stage = "tiling" /\ Len(detailed) = Len(tiles_layer)
    /\ Answer(extractLargestTime({detailed[i].cost : i \in DOMAIN detailed}))
    /\ UNCHANGED <<query, layer, tiles_layer, detailed, first, algorithm>>

(* Mutant: the layers that were handed in are used as they are. *)
LayersPreSplitRaw ==
    /\ stage = "done" /\ first = NoResult /\ detailed # <<>>
    /\ TakeTiles(splitAcrossTiles(query.layer, query.strategy, query.nTiles))
    /\ first' = verdict /\ detailed' = <<>>
    /\ UNCHANGED <<query, layer, algorithm>>

(* The caller splits the layer itself, as it is before the sanitization,   *)
(* and hands in the tiles.                                                 *)
HandIn(tiles) == TakeTiles([i \in DOMAIN tiles |-> Prepared(tiles[i])])

LayersPreSplit ==
    /\ stage = "done" /\ first = NoResult /\ detailed # <<>>
    /\ HandIn(splitAcrossTiles(query.layer, query.strategy, query.nTiles))
    /\ first' = verdict /\ detailed' = <<>>
    /\ UNCHANGED <<query, layer, algorithm>>

(* The caller goes on with another layer. *)
Return ==
    /\ stage = "done"
    /\ query' = Idle /\ layer' = Idle /\ stage' = "idle" /\ tiles_layer' = <<>> /\ detailed' = <<>>
    /\ verdict' = NoResult /\ first' = NoResult
    /\ UNCHANGED algorithm

IterateRange ==
    /\ stage = "idle" /\ algorithm = Idle
    /\ \E r \in Ranges :
          algorithm' = [name |-> "range", range |-> r, result |-> transformSmartRangetoVector(r)]
    /\ UNCHANGED <<query, layer, stage, tiles_layer, detailed, verdict, first>>

DivideChannels ==
    /\ stage = "idle" /\ algorithm = Idle
    /\ \E d \in Divisions :
          algorithm' = [name |-> "divide", args |-> d,
                        result |-> divideEfficiency(d.blocks, d.remainders, d.target)]
    /\ UNCHANGED <<query, layer, stage, tiles_layer, detailed, verdict, first>>

EndAlgorithm ==
    /\ algorithm # Idle /\ algorithm' = Idle
    /\ UNCHANGED <<query, layer, stage, tiles_layer, detailed, verdict, first>>

Next ==
    \/ Layer \/ SplitLayer \/ SplitTile \/ LargestTime \/ LayersPreSplit \/ Return
    \/ IterateRange \/ DivideChannels \/ EndAlgorithm

Spec == Init /\ [][Next]_vars

-----------------------------------------------------------------------------
(* Properties *)

(* The outputs of the tiles before tile i, in one dimension. *)
OutputBefore(i, dim) ==
    LET sum[k \in 0..Len(tiles_layer)] == IF k = 0 THEN 0 ELSE sum[k - 1] + tiles_layer[k].out[dim]
    IN  sum[i - 1]

IsSplit == stage \in {"tiling", "done"} /\ tiles_layer # <<>>

AxisOf(strategy) ==
    CASE strategy \in {"SOH_Overlapped", "SOHO_K_SWITCH", "SOH_HaloRead"} -> {Axis_H}
      [] strategy = "SOW" -> {Axis_W}
      [] OTHER -> {}

(* The lines of the padded input that the outputs from..to-1 read; those   *)
(* of the input itself are 0..size-1.                                      *)
LinesRead(axis, from, to) ==
    UNION {(o * layer.stride[axis.dim] - layer.pad[axis.begin])
               ..(o * layer.stride[axis.dim] - layer.pad[axis.begin] + layer.kernel[axis.dim] - 1) :
           o \in from..(to - 1)}

(* From the first to the last element. *)
Span(S) == IF S = {} THEN {} ELSE Min(S)..Max(S)

(* A split of the activations (SOH_overlapped_inputs,                      *)
(* SOW_overlapped_inputs and SOH_HALO_inputs): the tiles cut the output,   *)
(* in order, into parts that are not empty; the input of a tile is exactly *)
(* the lines of the layer's input from the first to the last that its      *)
(* outputs read, and its padding those that lie outside; the last tile     *)
(* keeps the padding of the end, whether it is read or not.                *)
TileGeometry ==
    IsSplit => \A axis \in AxisOf(query.strategy) :
        LET n == Len(tiles_layer)
            all == 0..(layer.in[axis.dim] - 1)
        IN  /\ OutputBefore(n + 1, axis.dim) = layer.out[axis.dim]
            /\ \A i \in 1..n :
                  LET t == tiles_layer[i]
                      from == OutputBefore(i, axis.dim)
                      lines == Span(LinesRead(axis, from, from + t.out[axis.dim]))
                  IN  /\ t.out[axis.dim] > 0
                      /\ t.in[axis.dim] = Cardinality(lines \cap all)
                      /\ t.pad[axis.begin] = Cardinality({l \in lines : l < 0})
                      /\ t.pad[axis.end] = IF i = n THEN layer.pad[axis.end]
                                           ELSE Cardinality({l \in lines : l > Max(all)})

(* The lines that tile i has in its own memory under SOH_HaloRead. *)
LinesStored(i) ==
    LET from == OutputBefore(i, "h")
        t == tiles_layer[i]
        lines == Span(LinesRead(Axis_H, from, from + t.out.h))
                     \cap 0..(layer.in.h - 1)
    IN  {l \in lines : l >= Min(lines) + t.halo.input.top /\ l <= Max(lines) - t.halo.input.bottom}

(* SOH_HALO_inputs: a line that a tile reads from a neighbour is in the    *)
(* memory of some tile; no line is in the memory of two, unless the second *)
(* of them still begins with padding, which switches its halo off.         *)
HaloLinesStoredOnce ==
    IsSplit /\ query.strategy = "SOH_HaloRead" =>
        LET n == Len(tiles_layer)
            stored == UNION {LinesStored(i) : i \in 1..n}
            read(i) == LinesRead(Axis_H, OutputBefore(i, "h"), OutputBefore(i + 1, "h"))
        IN  /\ \A i, j \in 1..n : i < j /\ tiles_layer[j].pad.top = 0
                                      => LinesStored(i) \cap LinesStored(j) = {}
            /\ \A i \in 1..n : read(i) \cap 0..(layer.in.h - 1) \subseteq stored

Shape(t) == [w |-> t.w, h |-> t.h, c |-> t.c]

OutputMemory(o) == Shape(compute_dense_output_memory_tensor(o))

(* Broadcasting, for a layer that nobody else writes into: a tile that     *)
(* writes to several tiles holds the output of all of them, which is the   *)
(* output of the layer, and any other tile its own output only; and a      *)
(* split that forces the broadcast has a tile for every copy, also where   *)
(* fewer tiles came out than were asked for.                               *)
OutputMemoryWhole ==
    IsSplit /\ layer.halo.inbound = NoHalo =>
        \A i \in DOMAIN tiles_layer :
            LET t == tiles_layer[i]
            IN  /\ OutputMemory(t) = IF t.owt > 1 THEN layer.out ELSE t.out
                /\ query.strategy \in {"SOK", "SOHO_K_SWITCH"} => t.owt = Len(tiles_layer)

(* intraTileSplit: however a tile is cut into workloads, by rows, columns  *)
(* or channels, each of them addresses the memory of its whole tile.       *)
WorkloadsAddressTile ==
    \A i \in DOMAIN detailed : ~isErrorCode(detailed[i].cost) =>
        \A k \in DOMAIN detailed[i].workloads :
            OutputMemory(detailed[i].workloads[k]) = OutputMemory(tiles_layer[i])

(* The elements of the tile's output that a workload computes. *)
Box(wl) ==
    {[w |-> x, h |-> y, c |-> z] :
        x \in wl.offset.w..(wl.offset.w + wl.out.w - 1),
        y \in wl.offset.h..(wl.offset.h + wl.out.h - 1),
        z \in {c \in wl.offset.c..(wl.offset.c + wl.out.c - 1) : c % 16 = wl.offset.c % 16}}

(* intraTileSplit: a split that is chosen with a cost computes every       *)
(* element of the tile's output once and nothing else, although some of    *)
(* the splits that are tried do not; channels come in groups of 16.        *)
SplitCoversTile ==
    \A i \in DOMAIN detailed :
        LET t == tiles_layer[i]
            wls == detailed[i].workloads
            whole == Box([t EXCEPT !.offset = [w |-> 0, h |-> 0, c |-> 0]])
        IN  ~isErrorCode(detailed[i].cost) =>
              /\ UNION {Box(wls[k]) : k \in DOMAIN wls} = whole
              /\ FoldLeft(LAMBDA a, w : a + size(w.out), 0, wls) = size(t.out)
              /\ \A k \in DOMAIN wls : size(wls[k].out) > 0

(* Layer and LayersPreSplit: tiles that the caller made from the layer as  *)
(* it was before Layer sanitized it have the cost that Layer found: to     *)
(* split and to sanitize commute.                                          *)
PreSplitAgrees == stage = "done" /\ first # NoResult => verdict = first

(* SmartRanges: the iteration of a range gives every value that is_in      *)
(* accepts, in order, and no other one.                                    *)
RangeEnumeratesMembers ==
    algorithm # Idle /\ algorithm.name = "range" =>
        LET r == algorithm.range
            s == algorithm.result
        IN  /\ ToSet(s) = {v \in r.lower..r.upper : is_in(r, v)}
            /\ \A i \in 2..Len(s) : s[i - 1] < s[i]

-----------------------------------------------------------------------------
(* All the ways to make `target` of blocks, as functions from the index of *)
(* a block to how often it is taken.                                       *)
Partitions(blocks, target) ==
    {f \in [DOMAIN blocks -> 0..(target \div 16)] :
        FoldFunctionOnSet(LAMBDA a, b : a + b, 0,
                          [i \in DOMAIN blocks |-> f[i] * blocks[i].size], DOMAIN blocks) = target}

CostOf(blocks, f) ==
    FoldFunctionOnSet(LAMBDA a, b : a + b, 0, [i \in DOMAIN f |-> f[i] * blocks[i].time], DOMAIN f)

CountOf(f) == FoldFunctionOnSet(LAMBDA a, b : a + b, 0, f, DOMAIN f)

(* Cost and number of blocks of every partition, with one remainder if the *)
(* target is not aligned.                                                  *)
Achievable(d) ==
    IF d.target % 16 = 0
    THEN {<<CostOf(d.blocks, f), CountOf(f)>> : f \in Partitions(d.blocks, d.target)}
    ELSE UNION {{<<CostOf(d.blocks, f) + r.time, CountOf(f) + 1>> :
                    f \in Partitions(d.blocks, d.target - r.size)} :
                r \in {x \in ToSet(d.remainders) : x.size <= d.target}}

(* EfficiencyBasedSplitter: the sizes add up to the target, no partition   *)
(* is cheaper, none as cheap has fewer blocks, and there is a result       *)
(* whenever there is a partition.                                          *)
CheapestPartition ==
    algorithm # Idle /\ algorithm.name = "divide" =>
        LET d == algorithm.args
            r == algorithm.result
            all == Achievable(d)
            price(blocks, sizes) == TimeOf(blocks, sizes)
            cost == IF d.target % 16 = 0 THEN price(d.blocks, r)
                    ELSE price(d.blocks, Front(r)) + price(d.remainders, <<Last(r)>>)
        IN  /\ r = <<>> <=> all = {}
            /\ r # <<>> =>
                  /\ FoldLeft(LAMBDA a, b : a + b, 0, r) = d.target
                  /\ \A p \in all : cost < p[1] \/ (cost = p[1] /\ Len(r) <= p[2])
=============================================================================
