----------------------------- MODULE LayerCost ------------------------------
(***************************************************************************)
(* The L2 queries for DPU layers, VPULayerCostModel::layer_cycles and      *)
(* layer_pre_split_cycles of src/vpu_layer_cost_model.cpp, with the three  *)
(* ways callers use them: one layer, the best of all tiling strategies,    *)
(* and a batch.  What the validators, the intra-tile tiler and the DMA     *)
(* model answer is any of the constants' values.                           *)
(*                                                                         *)
(* The loops run one element a step.  The ghosts follow the same loops in  *)
(* unbounded integers: exact, xqueue and xacc are the true sums, failed    *)
(* says that an answer used by the call was an error.                      *)
(***************************************************************************)
EXTENDS Cycles, Sequences

CONSTANTS
    MaxTiles,      \* most tiles of a call
    MaxCalls,      \* most layers of a batch, and strategies of a device
    Ports,         \* the DMA channels
    TileOutcomes,  \* what intraTileSplit returns, exceptions aside
    DmaOutcomes,   \* what compute_dma_cycles returns
    InvalidCodes   \* what the validators report

ASSUME LayerAssumption ==
    /\ MaxTiles \in Nat /\ MaxCalls \in Nat
    /\ Ports # {}
    /\ TileOutcomes \subseteq CyclesInterfaceType /\ DmaOutcomes \subseteq CyclesInterfaceType
    /\ InvalidCodes \subseteq {v \in CyclesInterfaceType : isErrorCode(v)}

Flags == [prefetching : BOOLEAN, input_in_ddr : BOOLEAN, output_in_ddr : BOOLEAN]

Requests == [api : {"layer", "presplit"}, nTiles : 0..MaxTiles, flags : Flags]

VARIABLES
    driver,    \* how the caller asks: "single", "optimal" or "batch"
    calls,     \* layer queries still to make
    results,   \* their costs so far
    answer,    \* the caller's result: cost and isValid
    pc,
    req,       \* the current layer query
    tiles,     \* number of split layers
    left,      \* elements left in the current loop
    cost,
    queue,     \* dpu_schedule: DMA channel -> cycles scheduled on it
    acc,       \* std::accumulate of the transfers
    detailed,  \* the caller's LayerSplitInfo: cycles of each tile
    exact, xqueue, xacc, heaviest, failed,   \* ghosts of a query
    asked, sound   \* ghosts of the caller: its layers, and whether all went well

driverVars == <<driver, calls, results, answer, asked, sound>>
ghosts == <<exact, xqueue, xacc, heaviest, failed>>
vars == <<driver, calls, results, answer, pc, req, tiles, left, cost, queue, acc, detailed,
          exact, xqueue, xacc, heaviest, failed, asked, sound>>

TypeOK ==
    /\ driver \in {"single", "optimal", "batch"}
    /\ calls \in 0..MaxCalls
    /\ results \in Seq(CyclesInterfaceType)
    /\ answer \in [cost : CyclesInterfaceType, isValid : BOOLEAN]
    /\ pc \in {"idle", "call", "validate", "split", "tile", "weights", "input", "output", "return"}
    /\ req \in Requests
    /\ tiles \in 0..MaxTiles /\ left \in 0..MaxTiles
    /\ cost \in CyclesInterfaceType /\ acc \in CyclesInterfaceType
    /\ queue \in [Ports -> CyclesInterfaceType]
    /\ detailed \in Seq(CyclesInterfaceType)
    /\ exact \in Nat /\ xacc \in Nat /\ heaviest \in Nat
    /\ xqueue \in [Ports -> Nat]
    /\ failed \in BOOLEAN
    /\ asked \in 0..MaxCalls /\ sound \in BOOLEAN

-----------------------------------------------------------------------------
Larger(x, y) == IF x < y THEN y ELSE x

(* Mutant: tiles with an error are skipped. *)
SkipErrorTiles(largest, tile) == IF isErrorCode(tile) THEN largest ELSE Larger(largest, tile)

(* One iteration of extractLargestTime: an error of a tile stays. *)
extractLargestTime(largest, tile) ==
    IF isErrorCode(tile) THEN ERROR_TILE_OUTPUT
    ELSE IF isErrorCode(largest) THEN largest ELSE Larger(largest, tile)

(* Where a call goes on after the given stage. *)
AfterInput(flags) == IF flags.output_in_ddr THEN "output" ELSE "return"
AfterWeights(flags) == IF flags.input_in_ddr THEN "input" ELSE AfterInput(flags)
AfterTiles(flags) == IF ~flags.prefetching THEN "weights" ELSE AfterWeights(flags)

(* Mutant: the next channel whatever its load. *)
AnyChannel == Ports

(* The top of dpu_schedule's priority queue. *)
LeastLoaded == {p \in Ports : \A q \in Ports : queue[p] <= queue[q]}

(* Mutant: the top of the queue is the result. *)
TopOfQueue == LeastLoaded

(* The last element of the queue. *)
CriticalPath == {p \in Ports : \A q \in Ports : queue[q] <= queue[p]}

(* The caller's LayerSplitInfo; the query over all strategies has none. *)
Details(split) == IF driver = "optimal" THEN detailed ELSE split

(* Mutant: a reused split is not cleared. *)
KeepsOldTiles(r) == detailed

(* The start of a query clears the split, in layer_cycles only after the   *)
(* check for zero tiles.                                                   *)
Cleared(r) == IF r.nTiles = 0 /\ r.api = "layer" THEN detailed ELSE Details(<<>>)

(* Mutant: the last strategy instead of the cheapest. *)
LastResult == {Len(results)}

(* std::min_element of the costs: any good value dominates an error code. *)
Cheapest == {i \in 1..Len(results) : \A j \in 1..Len(results) : results[i] <= results[j]}

(* layer_cycles moves one input and one output tensor, the pre-split query *)
(* those of each tile.                                                     *)
Transfers == IF req.api = "layer" THEN 1 ELSE tiles

(* Loop counters and accumulators at the start of a stage. *)
Enter(stage) ==
    /\ pc' = stage
    /\ left' = CASE stage = "weights" -> tiles
                 [] stage \in {"input", "output"} -> Transfers
                 [] OTHER -> 0
    /\ queue' = [p \in Ports |-> 0] /\ xqueue' = [p \in Ports |-> 0] /\ heaviest' = 0
    /\ acc' = 0 /\ xacc' = 0

Init ==
    /\ driver = "single" /\ calls = 0 /\ results = <<>>
    /\ answer = [cost |-> NO_ERROR, isValid |-> FALSE]
    /\ pc = "idle"
    /\ req = [api |-> "layer", nTiles |-> 0,
              flags |-> [prefetching |-> TRUE, input_in_ddr |-> FALSE, output_in_ddr |-> FALSE]]
    /\ tiles = 0 /\ left = 0 /\ cost = 0 /\ acc = 0 /\ detailed = <<>>
    /\ queue = [p \in Ports |-> 0] /\ xqueue = [p \in Ports |-> 0]
    /\ exact = 0 /\ xacc = 0 /\ heaviest = 0 /\ failed = FALSE
    /\ asked = 0 /\ sound = TRUE

(* Layer(layer, strategy), Layer over all strategies, or LayerBatched and  *)
(* LayersPreSplitBatched.  The caller passes an empty split or one that it *)
(* used before; a batch of references may name one element several times,  *)
(* so its queries use one split.                                           *)
Ask(d, n) ==
    /\ pc = "idle"
    /\ d = "single" => n = 1
    /\ d = "optimal" => n > 0
    /\ driver' = d /\ calls' = n /\ results' = <<>>
    /\ detailed' \in IF d = "optimal" THEN {<<>>} ELSE {<<>>, detailed}
    /\ answer' = [cost |-> NO_ERROR, isValid |-> FALSE]
    /\ asked' = n /\ sound' = TRUE
    /\ pc' = "call"
    /\ UNCHANGED <<req, tiles, left, cost, queue, acc, ghosts>>

(* A layer query starts; zero tiles are refused. *)
Call(r) ==
    /\ pc = "call" /\ calls > 0
    /\ driver = "optimal" => r.api = "layer" /\ (results # <<>> => r = req)
    /\ req' = r
    /\ detailed' = Cleared(r)
    /\ cost' = IF r.nTiles = 0 THEN ERROR_L2_INVALID_PARAMETERS ELSE 0
    /\ failed' = (r.nTiles = 0)
    /\ exact' = 0
    /\ Enter(CASE r.nTiles = 0 -> "return"
               [] r.nTiles > 0 /\ r.api = "layer" -> "validate"
               [] r.nTiles > 0 /\ r.api = "presplit" -> "split")
    /\ UNCHANGED <<driverVars, tiles>>

Finish(code) ==
    /\ cost' = code /\ failed' = TRUE
    /\ pc' = "return"
    /\ UNCHANGED <<left, queue, acc, exact, xqueue, xacc, heaviest>>

(* A query's local variables end with it. *)
DropLocals ==
    /\ tiles' = 0 /\ left' = 0 /\ cost' = 0 /\ acc' = 0
    /\ queue' = [p \in Ports |-> 0] /\ xqueue' = [p \in Ports |-> 0]
    /\ exact' = 0 /\ xacc' = 0 /\ heaviest' = 0 /\ failed' = FALSE

(* The whole layer is checked. *)
Validate ==
    /\ pc = "validate"
    /\ \/ pc' = "split" /\ UNCHANGED <<left, cost, queue, acc, ghosts>>
       \/ \E code \in InvalidCodes : Finish(code)
    /\ UNCHANGED <<driverVars, req, tiles, detailed>>

(* A validator or the split throws: an error result for a batch, otherwise *)
(* the caller's problem.                                                   *)
Throw ==
    /\ pc \in {"validate", "split"}
    /\ IF driver = "batch"
       THEN Finish(ERROR_TILE_SPLIT_EXCEPTION) /\ UNCHANGED <<calls, results>>
            /\ UNCHANGED tiles
       ELSE pc' = "idle" /\ calls' = 0 /\ results' = <<>> /\ DropLocals
    /\ UNCHANGED <<driver, answer, asked, sound, req, detailed>>

(* The layer is split across at most nTiles tiles, or comes split, and     *)
(* every split layer is checked.                                           *)
Split ==
    /\ pc = "split"
    /\ \E n \in IF req.api = "layer" THEN 0..req.nTiles ELSE {req.nTiles} :
          /\ tiles' = n
          /\ \/ /\ n > 0
                /\ pc' = "tile" /\ left' = n
                /\ UNCHANGED <<cost, queue, acc, detailed, ghosts>>
             \/ \E code \in InvalidCodes \cup {ERROR_TILE_OUTPUT} :
                  /\ n = 0 <=> code = ERROR_TILE_OUTPUT
                  /\ detailed' = Details([i \in 1..n |-> NO_ERROR])
                  /\ Finish(code)
    /\ UNCHANGED <<driverVars, req>>

(* The tiler's best split of one tile; an exception is an error cost. *)
Tile(c) ==
    /\ pc = "tile" /\ left > 0
    /\ cost' = extractLargestTime(cost, c)
    /\ detailed' = Details(Append(detailed, c))
    /\ left' = left - 1
    /\ exact' = Larger(exact, c)
    /\ failed' = (failed \/ isErrorCode(c))
    /\ UNCHANGED <<driverVars, pc, req, tiles, queue, acc, xqueue, xacc, heaviest>>

(* All tiles done: a cost of zero is an error, and an error ends the query. *)
TilesDone ==
    /\ pc = "tile" /\ left = 0
    /\ cost' = IF cost = 0 THEN ERROR_TILE_OUTPUT ELSE cost
    /\ failed' = (failed \/ cost = 0)
    /\ Enter(IF isErrorCode(cost') THEN "return" ELSE AfterTiles(req.flags))
    /\ UNCHANGED <<driverVars, req, tiles, detailed, exact>>

(* dpu_schedule: the weights of the next tile go to a least loaded channel. *)
Weights(w) ==
    /\ pc = "weights" /\ left > 0
    /\ \E p \in LeastLoaded :
          /\ queue' = [queue EXCEPT ![p] = cost_adder(cost_adder(queue[p], w), 0)]
          /\ xqueue' = [xqueue EXCEPT ![p] = xqueue[p] + w]
    /\ left' = left - 1
    /\ heaviest' = Larger(heaviest, w)
    /\ failed' = (failed \/ isErrorCode(w))
    /\ UNCHANGED <<driverVars, pc, req, tiles, cost, acc, detailed, exact, xacc>>

(* The longest channel is added to the cost. *)
WeightsDone ==
    /\ pc = "weights" /\ left = 0
    /\ \E p \in CriticalPath : cost' = cost_adder(cost, queue[p])
    /\ \E p \in Ports : /\ \A q \in Ports : xqueue[q] <= xqueue[p]
                       /\ exact' = exact + xqueue[p]
    /\ Enter(AfterWeights(req.flags))
    /\ UNCHANGED <<driverVars, req, tiles, detailed, failed>>

(* One transfer of input or output activations. *)
Transfer(c) ==
    /\ pc \in {"input", "output"} /\ left > 0
    /\ acc' = cost_adder(acc, c) /\ xacc' = xacc + c
    /\ left' = left - 1
    /\ failed' = (failed \/ isErrorCode(c))
    /\ UNCHANGED <<driverVars, pc, req, tiles, cost, queue, detailed, exact, xqueue, heaviest>>

TransfersDone ==
    /\ pc \in {"input", "output"} /\ left = 0
    /\ cost' = cost_adder(cost, acc) /\ exact' = exact + xacc
    /\ Enter(IF pc = "input" THEN AfterInput(req.flags) ELSE "return")
    /\ UNCHANGED <<driverVars, req, tiles, detailed, failed>>

Return ==
    /\ pc = "return"
    /\ results' = Append(results, cost)
    /\ calls' = calls - 1
    /\ pc' = "call"
    /\ sound' = (sound /\ ~failed /\ exact <= START_ERROR_RANGE)
    /\ DropLocals
    /\ UNCHANGED <<driver, answer, asked, req, detailed>>

(* The caller's result: the smallest cost, or whether all are valid. *)
Answer ==
    /\ pc = "call" /\ calls = 0
    /\ pc' = "idle"
    /\ \/ /\ driver = "batch"
          /\ answer' = [cost |-> NO_ERROR,
                        isValid |-> results # <<>> /\ \A i \in 1..Len(results) : ~isErrorCode(results[i])]
       \/ /\ driver # "batch"
          /\ \E i \in Cheapest : answer' = [cost |-> results[i], isValid |-> FALSE]
    /\ UNCHANGED <<driver, calls, results, asked, sound, req, tiles, left, cost, queue, acc, detailed, ghosts>>

Next ==
    \/ \E d \in {"single", "optimal", "batch"}, n \in 0..MaxCalls : Ask(d, n)
    \/ \E r \in Requests : Call(r)
    \/ Validate \/ Throw \/ Split
    \/ \E c \in TileOutcomes \cup {ERROR_TILE_SPLIT_EXCEPTION} : Tile(c)
    \/ TilesDone
    \/ \E w \in DmaOutcomes : Weights(w)
    \/ WeightsDone
    \/ \E c \in DmaOutcomes : Transfer(c)
    \/ TransfersDone \/ Return \/ Answer

Spec == Init /\ [][Next]_vars

-----------------------------------------------------------------------------
(* A cost that is returned as valid is the true one: the slowest tile plus *)
(* the longest DMA channel plus the transfers, in unbounded arithmetic,    *)
(* and nothing it was computed from was an error.                          *)
CostExact == pc = "return" /\ ~isErrorCode(cost) => cost = exact /\ ~failed

(* "the largest error code will dominate any regular value": an error of   *)
(* any tile or transfer of the call is never lost, and the other way round *)
(* a call without errors fails only when the true cost does not fit.       *)
FailureSurfaces ==
    pc = "return" => /\ failed => isErrorCode(cost)
                     /\ ~failed /\ exact <= START_ERROR_RANGE => ~isErrorCode(cost)

(* dpu_schedule balances the channels: no two differ by more than the      *)
(* heaviest transfer.                                                      *)
ChannelsBalanced ==
    ~failed => \A p, q \in Ports : queue[p] <= START_ERROR_RANGE /\ queue[q] <= START_ERROR_RANGE
                                     => queue[p] <= queue[q] + heaviest

(* The caller's LayerSplitInfo has the tiles of this very call, however    *)
(* often it is reused: one entry per tile, the slowest of them within the  *)
(* layer's cost.                                                           *)
DetailedFresh ==
    pc = "return" /\ driver # "optimal" /\ ~isErrorCode(cost) =>
        /\ Len(detailed) = tiles
        /\ \A i \in 1..Len(detailed) : ~isErrorCode(detailed[i]) /\ detailed[i] <= cost

(* "Any good value will dominate any error code": over all strategies the  *)
(* answer is an error only when each strategy failed, and no valid         *)
(* strategy is cheaper.                                                    *)
BestStrategyWins ==
    pc = "idle" /\ driver = "optimal" /\ calls = 0 =>
        \A i \in 1..Len(results) : ~isErrorCode(results[i]) =>
            (answer.cost <= results[i] /\ ~isErrorCode(answer.cost))

(* An exception of one layer leaves the rest of the batch alone: there is  *)
(* one result per layer, and the batch is valid exactly when it is not     *)
(* empty, nothing any layer used was an error and every true cost fits.    *)
BatchVerdict ==
    pc = "idle" /\ driver = "batch" =>
        /\ Len(results) = asked
        /\ answer.isValid <=> asked > 0 /\ sound
=============================================================================
