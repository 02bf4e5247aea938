-------------------------- MODULE LayerCostProofs ---------------------------
(***************************************************************************)
(* Proofs about the layer queries of LayerCost, for every width of the     *)
(* cycle type, every number of tiles and DMA channels, and whatever the    *)
(* validators, the tiler and the DMA model answer.                         *)
(***************************************************************************)
EXTENDS LayerCost, TLAPS

(* The accumulator v follows the true sum x: they are equal until v is an  *)
(* error, and unless an answer was bad v is an error only for a large x.   *)
Tracks(v, x, bad) ==
    /\ ~isErrorCode(v) => v = x
    /\ isErrorCode(v) /\ ~bad => x > START_ERROR_RANGE

Tracking ==
    /\ Tracks(cost, exact, failed) /\ Tracks(acc, xacc, failed)
    /\ \A p \in Ports : Tracks(queue[p], xqueue[p], failed)

(* A failure is in one of the accumulators until it is in the cost. *)
Lossless ==
    failed => \/ isErrorCode(cost) \/ isErrorCode(acc)
              \/ \E p \in Ports : isErrorCode(queue[p])

(* Which accumulators are in use at which stage. *)
Stages ==
    /\ pc # "weights" => \A p \in Ports : queue[p] = 0 /\ xqueue[p] = 0
    /\ pc \notin {"input", "output"} => acc = 0 /\ xacc = 0
    /\ pc \in {"idle", "call", "validate", "split"} => cost = 0 /\ exact = 0 /\ ~failed
    /\ pc \notin {"idle", "call"} => calls > 0
    /\ pc \notin {"idle", "call", "return"} => req.nTiles > 0
    /\ pc \in {"validate", "split"} /\ driver # "optimal" => detailed = <<>>

(* The caller's split grows with the tile loop and stays within the cost. *)
SplitFollows ==
    pc \in {"tile", "weights", "input", "output", "return"} /\ driver # "optimal" /\ ~isErrorCode(cost) =>
        /\ Len(detailed) = IF pc = "tile" THEN tiles - left ELSE tiles
        /\ \A i \in 1..Len(detailed) : ~isErrorCode(detailed[i]) /\ detailed[i] <= cost

(* The results of a batch so far. *)
BatchFollows ==
    driver = "batch" =>
        /\ Len(results) = asked - calls
        /\ sound <=> \A i \in 1..Len(results) : ~isErrorCode(results[i])
        /\ pc = "idle" => calls = 0 /\ (answer.isValid <=> asked > 0 /\ sound)

IInv == /\ TypeOK /\ Stages /\ Tracking /\ Lossless
        /\ SplitFollows /\ BatchFollows /\ ChannelsBalanced /\ BestStrategyWins

-----------------------------------------------------------------------------
(* Zero cycles are no error, and the error codes are in the error range. *)
LEMMA Codes ==
    /\ START_ERROR_RANGE \in Nat /\ MaxV \in Nat
    /\ 0 \in CyclesInterfaceType /\ ~isErrorCode(0)
    /\ ERROR_TILE_OUTPUT \in CyclesInterfaceType /\ isErrorCode(ERROR_TILE_OUTPUT)
    /\ ERROR_TILE_SPLIT_EXCEPTION \in CyclesInterfaceType /\ isErrorCode(ERROR_TILE_SPLIT_EXCEPTION)
    /\ ERROR_L2_INVALID_PARAMETERS \in CyclesInterfaceType /\ isErrorCode(ERROR_L2_INVALID_PARAMETERS)
    /\ ERROR_CUMULATED_CYCLES_TOO_LARGE \in CyclesInterfaceType
    /\ isErrorCode(ERROR_CUMULATED_CYCLES_TOO_LARGE)
BY CyclesAssumption DEF CyclesInterfaceType, START_ERROR_RANGE, isErrorCode, ERROR_TILE_OUTPUT,
    ERROR_TILE_SPLIT_EXCEPTION, ERROR_L2_INVALID_PARAMETERS, ERROR_CUMULATED_CYCLES_TOO_LARGE

(* cost_adder is the exact sum or an error: it passes errors on, adds one  *)
(* only when the sum does not fit, and never wraps around.                 *)
LEMMA Adder ==
    ASSUME NEW a \in CyclesInterfaceType, NEW b \in CyclesInterfaceType
    PROVE  /\ cost_adder(a, b) \in CyclesInterfaceType
           /\ isErrorCode(a) \/ isErrorCode(b) => isErrorCode(cost_adder(a, b))
           /\ ~isErrorCode(cost_adder(a, b)) => cost_adder(a, b) = a + b
           /\ isErrorCode(cost_adder(a, b)) /\ ~isErrorCode(a) /\ ~isErrorCode(b)
                 => a + b > START_ERROR_RANGE
<1>0. a \in 0..MaxV /\ b \in 0..MaxV /\ MaxV \in Nat /\ START_ERROR_RANGE \in Nat
  BY Codes DEF CyclesInterfaceType
<1>1. CASE isErrorCode(a)
  BY <1>1 DEF cost_adder
<1>2. CASE ~isErrorCode(a) /\ isErrorCode(b)
  BY <1>2 DEF cost_adder
<1>3. CASE ~isErrorCode(a) /\ ~isErrorCode(b)
  <2>1. cost_adder(a, b) = IF MaxV - a < b \/ isErrorCode(Wrap(a + b))
                           THEN ERROR_CUMULATED_CYCLES_TOO_LARGE ELSE Wrap(a + b)
    BY <1>3 DEF cost_adder
  <2>2. CASE MaxV - a < b
    <3>1. a + b > START_ERROR_RANGE
      BY <1>0, <2>2, CyclesAssumption DEF START_ERROR_RANGE
    <3> QED BY <2>1, <2>2, <3>1, Codes, <1>3
  <2>3. CASE ~(MaxV - a < b)
    <3>1. a + b \in 0..MaxV
      BY <1>0, <2>3
    <3>2. Wrap(a + b) = a + b
      BY <3>1, <1>0 DEF Wrap
    <3> QED BY <2>1, <2>3, <3>1, <3>2, Codes, <1>3, <1>0 DEF CyclesInterfaceType, isErrorCode
  <2> QED BY <2>2, <2>3
<1> QED BY <1>1, <1>2, <1>3

(* The sum of two accumulators follows the sum of what they follow. *)
LEMMA SumTracks ==
    ASSUME NEW a \in CyclesInterfaceType, NEW b \in CyclesInterfaceType,
           NEW x \in Nat, NEW y \in Nat, NEW bad,
           Tracks(a, x, bad), Tracks(b, y, bad)
    PROVE  Tracks(cost_adder(a, b), x + y, bad)
<1>1. a \in Nat /\ b \in Nat /\ START_ERROR_RANGE \in Nat
  BY Codes DEF CyclesInterfaceType
<1>2. CASE ~isErrorCode(a) /\ ~isErrorCode(b)
  BY <1>2, Adder DEF Tracks
<1>3. CASE isErrorCode(a) \/ isErrorCode(b)
  <2>1. isErrorCode(cost_adder(a, b))
    BY <1>3, Adder
  <2>2. ~bad => x + y > START_ERROR_RANGE
    BY <1>1, <1>3 DEF Tracks
  <2> QED BY <2>1, <2>2 DEF Tracks
<1> QED BY <1>2, <1>3

(* Zero is in the range of every counter. *)
LEMMA Bounds == 0 \in 0..MaxTiles /\ 0 \in 0..MaxCalls
BY LayerAssumption

(* The initial state satisfies the inductive invariant. *)
LEMMA InitIInv == Init => IInv
<1> SUFFICES ASSUME Init PROVE IInv
  OBVIOUS
<1>1. TypeOK
  <2>1. results \in Seq(CyclesInterfaceType) /\ detailed \in Seq(CyclesInterfaceType)
    BY DEF Init
  <2>2. req \in Requests /\ answer \in [cost : CyclesInterfaceType, isValid : BOOLEAN]
    BY LayerAssumption, Codes DEF Init, Requests, Flags, NO_ERROR
  <2>3. queue \in [Ports -> CyclesInterfaceType] /\ xqueue \in [Ports -> Nat]
    BY Codes DEF Init
  <2>4. /\ calls \in 0..MaxCalls /\ asked \in 0..MaxCalls
        /\ tiles \in 0..MaxTiles /\ left \in 0..MaxTiles
        /\ cost \in CyclesInterfaceType /\ acc \in CyclesInterfaceType
        /\ exact \in Nat /\ xacc \in Nat /\ heaviest \in Nat
    BY LayerAssumption, Codes DEF Init
  <2> QED BY <2>1, <2>2, <2>3, <2>4 DEF Init, TypeOK
<1>2. Stages /\ Tracking /\ Lossless
  BY Codes DEF Init, Stages, Tracking, Tracks, Lossless
<1>3. SplitFollows /\ BatchFollows /\ BestStrategyWins
  BY DEF Init, SplitFollows, BatchFollows, BestStrategyWins
<1>4. ChannelsBalanced
  BY DEF Init, ChannelsBalanced
<1> QED BY <1>1, <1>2, <1>3, <1>4 DEF IInv

(* A caller starts a query, a batch or a search over the strategies. *)
LEMMA AskStep ==
    ASSUME IInv, NEW d \in {"single", "optimal", "batch"}, NEW n \in 0..MaxCalls, Ask(d, n)
    PROVE  IInv'
<1> USE DEF IInv, Ask, ghosts
<1>1. TypeOK'
  <2>1. detailed' \in Seq(CyclesInterfaceType) /\ results' \in Seq(CyclesInterfaceType)
    <3>1. <<>> \in Seq(CyclesInterfaceType)
      OBVIOUS
    <3>2. detailed \in Seq(CyclesInterfaceType)
      BY DEF TypeOK
    <3>3. results' = <<>> /\ (detailed' = <<>> \/ detailed' = detailed)
      BY Zenon
    <3> HIDE DEF Ask, IInv
    <3> QED BY <3>1, <3>2, <3>3, Zenon
  <2>2. answer' \in [cost : CyclesInterfaceType, isValid : BOOLEAN]
    BY Codes DEF NO_ERROR
  <2>3. driver' \in {"single", "optimal", "batch"} /\ calls' \in 0..MaxCalls
        /\ pc' = "call" /\ asked' \in 0..MaxCalls /\ sound' \in BOOLEAN
    OBVIOUS
  <2>4. UNCHANGED <<req, tiles, left, cost, queue, acc, exact, xqueue, xacc, heaviest, failed>>
    OBVIOUS
  <2> HIDE DEF Ask
  <2> QED BY <2>1, <2>2, <2>3, <2>4 DEF TypeOK
<1>2. Stages' /\ Tracking' /\ Lossless'
  BY DEF Stages, Tracking, Tracks, Lossless, TypeOK
<1>3. SplitFollows' /\ BatchFollows' /\ BestStrategyWins'
  BY DEF SplitFollows, BatchFollows, BestStrategyWins
<1>4. ChannelsBalanced'
  BY DEF ChannelsBalanced
<1> QED BY <1>1, <1>2, <1>3, <1>4

(* A query starts with clean accumulators, or with an error. *)
LEMMA CallStep ==
    ASSUME IInv, NEW r \in Requests, Call(r)
    PROVE  IInv'
<1> USE DEF IInv, Call, Enter, ghosts, driverVars
<1>0. r.nTiles \in 0..MaxTiles /\ r.api \in {"layer", "presplit"} /\ calls \in Nat
  BY DEF Requests, TypeOK
<1>1. TypeOK'
  <2>1. detailed' \in Seq(CyclesInterfaceType)
    BY DEF TypeOK, Cleared, Details
  <2>2. pc' \in {"return", "validate", "split"} /\ left' = 0
    BY <1>0
  <2>3. queue' \in [Ports -> CyclesInterfaceType] /\ xqueue' \in [Ports -> Nat]
    BY Codes
  <2>4. cost' \in CyclesInterfaceType /\ acc' \in CyclesInterfaceType /\ failed' \in BOOLEAN
    BY Codes
  <2>5. left' \in 0..MaxTiles
    BY <2>2, Bounds
  <2> QED BY <2>1, <2>2, <2>3, <2>4, <2>5 DEF TypeOK
<1>2. Stages'
  BY <1>0, Codes DEF Stages, TypeOK, Cleared, Details
<1>3. Tracking' /\ Lossless'
  BY <1>0, Codes DEF Tracking, Tracks, Lossless
<1>4. SplitFollows' /\ BatchFollows' /\ BestStrategyWins'
  BY <1>0, Codes DEF SplitFollows, BatchFollows, BestStrategyWins
<1>5. ChannelsBalanced'
  BY DEF ChannelsBalanced
<1> QED BY <1>1, <1>2, <1>3, <1>4, <1>5

(* The checks pass, or end the query with their code. *)
LEMMA ValidateStep ==
    ASSUME IInv, Validate
    PROVE  IInv'
<1> USE DEF IInv, Validate, Finish, ghosts, driverVars
<1>0. \A c \in InvalidCodes : c \in CyclesInterfaceType /\ isErrorCode(c)
  BY LayerAssumption
<1>1. TypeOK'
  BY <1>0 DEF TypeOK
<1>2. Stages' /\ Tracking' /\ Lossless'
  BY <1>0, Codes DEF Stages, Tracking, Tracks, Lossless, TypeOK
<1>3. SplitFollows' /\ BatchFollows' /\ BestStrategyWins'
  BY <1>0, Codes DEF SplitFollows, BatchFollows, BestStrategyWins
<1>4. ChannelsBalanced'
  BY <1>0 DEF ChannelsBalanced, Stages
<1> QED BY <1>1, <1>2, <1>3, <1>4

(* An exception ends the query with an error, or the whole call. *)
LEMMA ThrowStep ==
    ASSUME IInv, Throw
    PROVE  IInv'
<1> USE DEF IInv, Throw, Finish, DropLocals, ghosts, driverVars
<1>1. TypeOK'
  <2>1. CASE driver = "batch"
    BY <2>1, Codes DEF TypeOK
  <2>2. CASE driver # "batch"
    <3>1. results' \in Seq(CyclesInterfaceType)
      BY <2>2
    <3>2. queue' \in [Ports -> CyclesInterfaceType] /\ xqueue' \in [Ports -> Nat]
      BY <2>2, Codes
    <3>3. calls' \in 0..MaxCalls /\ tiles' \in 0..MaxTiles /\ left' \in 0..MaxTiles
      BY <2>2, LayerAssumption
    <3>4. cost' \in CyclesInterfaceType /\ acc' \in CyclesInterfaceType
      BY <2>2, Codes
    <3>5. exact' \in Nat /\ xacc' \in Nat /\ heaviest' \in Nat
      BY <2>2
    <3>6. pc' = "idle" /\ failed' = FALSE
      BY <2>2
    <3> QED BY <3>1, <3>2, <3>3, <3>4, <3>5, <3>6 DEF TypeOK
  <2> QED BY <2>1, <2>2
<1>2. Stages' /\ Tracking' /\ Lossless'
  BY Codes DEF Stages, Tracking, Tracks, Lossless, TypeOK
<1>3. SplitFollows' /\ BatchFollows' /\ BestStrategyWins'
  BY Codes DEF SplitFollows, BatchFollows, BestStrategyWins
<1>4. ChannelsBalanced'
  BY DEF ChannelsBalanced, Stages
<1> QED BY <1>1, <1>2, <1>3, <1>4

(* The split layers are checked and the tile loop starts, or an error.     *)
LEMMA SplitStep ==
    ASSUME IInv, Split
    PROVE  IInv'
<1> USE DEF IInv, Split, Finish, ghosts, driverVars
<1>0. \A c \in InvalidCodes \cup {ERROR_TILE_OUTPUT} : c \in CyclesInterfaceType /\ isErrorCode(c)
  BY LayerAssumption, Codes
<1>1. PICK n \in IF req.api = "layer" THEN 0..req.nTiles ELSE {req.nTiles} :
        /\ tiles' = n
        /\ \/ /\ n > 0
              /\ pc' = "tile" /\ left' = n
              /\ UNCHANGED <<cost, queue, acc, detailed, ghosts>>
           \/ \E code \in InvalidCodes \cup {ERROR_TILE_OUTPUT} :
                /\ n = 0 <=> code = ERROR_TILE_OUTPUT
                /\ detailed' = Details([i \in 1..n |-> NO_ERROR])
                /\ Finish(code)
  OBVIOUS
<1>2. n \in 0..MaxTiles /\ n \in Nat
  BY LayerAssumption DEF TypeOK, Requests
<1>3. CASE /\ n > 0
           /\ pc' = "tile" /\ left' = n
           /\ UNCHANGED <<cost, queue, acc, detailed, ghosts>>
  <2>1. TypeOK'
    BY <1>1, <1>2, <1>3 DEF TypeOK
  <2>2. Stages' /\ Tracking' /\ Lossless'
    BY <1>1, <1>3 DEF Stages, Tracking, Tracks, Lossless, TypeOK
  <2>3. SplitFollows'
    BY <1>1, <1>2, <1>3 DEF SplitFollows, Stages
  <2>4. BatchFollows' /\ BestStrategyWins' /\ ChannelsBalanced'
    BY <1>3 DEF BatchFollows, BestStrategyWins, ChannelsBalanced
  <2> QED BY <2>1, <2>2, <2>3, <2>4
<1>4. CASE \E code \in InvalidCodes \cup {ERROR_TILE_OUTPUT} :
                /\ n = 0 <=> code = ERROR_TILE_OUTPUT
                /\ detailed' = Details([i \in 1..n |-> NO_ERROR])
                /\ Finish(code)
  <2>0. cost' \in CyclesInterfaceType /\ isErrorCode(cost') /\ failed' = TRUE /\ pc' = "return"
    BY <1>4, <1>0
  <2>1. detailed' \in Seq(CyclesInterfaceType)
    <3>1. [i \in 1..n |-> NO_ERROR] \in Seq(CyclesInterfaceType)
      BY <1>2, Codes DEF NO_ERROR
    <3> QED BY <1>4, <3>1 DEF Details, TypeOK
  <2>2. TypeOK'
    BY <1>1, <1>2, <1>4, <2>0, <2>1 DEF TypeOK
  <2>3. Stages' /\ Tracking' /\ Lossless'
    BY <1>1, <1>4, <2>0, Codes DEF Stages, Tracking, Tracks, Lossless, TypeOK
  <2>4. SplitFollows' /\ BatchFollows' /\ BestStrategyWins'
    BY <1>4, <2>0 DEF SplitFollows, BatchFollows, BestStrategyWins
  <2>5. ChannelsBalanced'
    BY <2>0 DEF ChannelsBalanced
  <2> QED BY <2>2, <2>3, <2>4, <2>5
<1> QED BY <1>1, <1>3, <1>4

(* One iteration of extractLargestTime. *)
LEMMA Largest ==
    ASSUME NEW a \in CyclesInterfaceType, NEW c \in CyclesInterfaceType
    PROVE  /\ extractLargestTime(a, c) \in CyclesInterfaceType
           /\ isErrorCode(extractLargestTime(a, c)) <=> isErrorCode(a) \/ isErrorCode(c)
           /\ ~isErrorCode(extractLargestTime(a, c)) =>
                 /\ extractLargestTime(a, c) = Larger(a, c)
                 /\ a <= extractLargestTime(a, c) /\ c <= extractLargestTime(a, c)
BY Codes DEF extractLargestTime, Larger, CyclesInterfaceType, isErrorCode

(* One tile: its error stays in the cost, its cycles are within it. *)
LEMMA TileStep ==
    ASSUME IInv, NEW c \in TileOutcomes \cup {ERROR_TILE_SPLIT_EXCEPTION}, Tile(c)
    PROVE  IInv'
<1>0. c \in CyclesInterfaceType /\ c \in Nat
  BY LayerAssumption, Codes DEF CyclesInterfaceType
<1>1. TypeOK /\ Stages /\ Tracking /\ Lossless /\ SplitFollows
  BY DEF IInv
<1>2. /\ pc = "tile" /\ left > 0 /\ left' = left - 1
      /\ cost' = extractLargestTime(cost, c)
      /\ detailed' = Details(Append(detailed, c))
      /\ exact' = Larger(exact, c)
      /\ failed' = (failed \/ isErrorCode(c))
      /\ UNCHANGED <<driver, calls, results, answer, asked, sound, pc, req, tiles, queue, acc,
                     xqueue, xacc, heaviest>>
  BY DEF Tile, driverVars
<1>3. cost \in CyclesInterfaceType /\ exact \in Nat /\ failed \in BOOLEAN
  BY <1>1 DEF TypeOK
<1>4. /\ cost' \in CyclesInterfaceType
      /\ isErrorCode(cost') <=> isErrorCode(cost) \/ isErrorCode(c)
      /\ ~isErrorCode(cost') => cost' = Larger(cost, c) /\ cost <= cost' /\ c <= cost'
  BY <1>0, <1>2, <1>3, Largest
<1>5. TypeOK'
  <2>1. detailed' \in Seq(CyclesInterfaceType)
    BY <1>0, <1>1, <1>2 DEF TypeOK, Details
  <2>2. left' \in 0..MaxTiles
    BY <1>1, <1>2, LayerAssumption DEF TypeOK
  <2>3. exact' \in Nat
    BY <1>0, <1>2, <1>3 DEF Larger
  <2>4. failed' \in BOOLEAN
    BY <1>2, <1>3, Zenon DEF isErrorCode
  <2> QED BY <1>1, <1>2, <1>4, <2>1, <2>2, <2>3, <2>4 DEF TypeOK
<1>6. Stages' /\ Lossless'
  BY <1>1, <1>2, <1>4 DEF Stages, Lossless
<1>7. Tracking'
  <2>1. Tracks(cost, exact, failed)
    BY <1>1 DEF Tracking
  <2>2. exact <= exact' /\ START_ERROR_RANGE \in Nat
    BY <1>0, <1>2, <1>3, Codes DEF Larger
  <2>3. ~isErrorCode(cost') => cost' = exact'
    BY <1>2, <1>4, <2>1 DEF Tracks
  <2>4. isErrorCode(cost') /\ ~failed' => exact' > START_ERROR_RANGE
    <3>1. isErrorCode(cost') /\ ~failed' => exact > START_ERROR_RANGE
      BY <1>2, <1>4, <2>1 DEF Tracks
    <3>2. exact' \in Nat
      BY <1>0, <1>2, <1>3 DEF Larger
    <3> QED BY <3>1, <3>2, <2>2, <1>3
  <2>5. Tracks(acc, xacc, failed') /\ \A p \in Ports : Tracks(queue[p], xqueue[p], failed')
    BY <1>1, <1>2 DEF Tracking, Tracks
  <2> QED BY <2>3, <2>4, <2>5, <1>2 DEF Tracking, Tracks
<1>8. SplitFollows'
  <2> SUFFICES ASSUME driver # "optimal", ~isErrorCode(cost')
               PROVE  /\ Len(detailed') = tiles - left'
                      /\ \A i \in 1..Len(detailed') : ~isErrorCode(detailed'[i]) /\ detailed'[i] <= cost'
    BY <1>2 DEF SplitFollows
  <2>1. detailed' = Append(detailed, c) /\ detailed \in Seq(CyclesInterfaceType)
    BY <1>1, <1>2 DEF Details, TypeOK
  <2>2. /\ Len(detailed) = tiles - left
        /\ \A i \in 1..Len(detailed) : ~isErrorCode(detailed[i]) /\ detailed[i] <= cost
    BY <1>1, <1>2, <1>4 DEF SplitFollows
  <2>3. tiles \in Nat /\ left \in Nat
    BY <1>1, LayerAssumption DEF TypeOK
  <2>3a. Len(detailed') = Len(detailed) + 1
    BY <2>1, <1>0
  <2>4. Len(detailed') = tiles - left'
    BY <2>3a, <2>2, <2>3, <1>2
  <2>5. ASSUME NEW i \in 1..Len(detailed')
        PROVE  ~isErrorCode(detailed'[i]) /\ detailed'[i] <= cost'
    <3>1. CASE i = Len(detailed) + 1
      BY <3>1, <2>1, <1>0, <1>4
    <3>2. CASE i \in 1..Len(detailed)
      <4>0. detailed'[i] = detailed[i] /\ detailed[i] \in CyclesInterfaceType
        BY <3>2, <2>1, <1>0
      <4>1. detailed'[i] = detailed[i] /\ detailed[i] \in Nat
        BY <4>0 DEF CyclesInterfaceType
      <4>2. cost \in Nat /\ cost' \in Nat
        BY <1>3, <1>4 DEF CyclesInterfaceType
      <4> QED BY <4>1, <4>2, <3>2, <2>2, <1>4
    <3> QED BY <3>1, <3>2, <2>1, <1>0
  <2> QED BY <2>4, <2>5
<1>9. BatchFollows' /\ BestStrategyWins' /\ ChannelsBalanced'
  BY <1>1, <1>2, Codes DEF IInv, BatchFollows, BestStrategyWins, ChannelsBalanced
<1> QED BY <1>5, <1>6, <1>7, <1>8, <1>9 DEF IInv

(* Where the stages of a query lead. *)
LEMMA NextStage ==
    ASSUME TypeOK
    PROVE  /\ AfterInput(req.flags) \in {"output", "return"}
           /\ AfterWeights(req.flags) \in {"input", "output", "return"}
           /\ AfterTiles(req.flags) \in {"weights", "input", "output", "return"}
BY DEF AfterInput, AfterWeights, AfterTiles

(* Entering a stage keeps the types, if the cost and the flags have theirs. *)
LEMMA EnterTypes ==
    ASSUME TypeOK, req.nTiles > 0, NEW stage \in {"weights", "input", "output", "return"},
           Enter(stage),
           cost' \in CyclesInterfaceType, exact' \in Nat, failed' \in BOOLEAN,
           UNCHANGED <<driverVars, req, tiles, detailed>>
    PROVE  /\ TypeOK'
           /\ pc' = stage /\ acc' = 0 /\ xacc' = 0
           /\ \A p \in Ports : queue'[p] = 0 /\ xqueue'[p] = 0
<1>1. req.nTiles \in 0..MaxTiles /\ tiles \in 0..MaxTiles /\ 1 \in 0..MaxTiles
  BY LayerAssumption DEF TypeOK, Requests
<1>2. left' \in 0..MaxTiles
  BY <1>1, Bounds DEF Enter, Transfers
<1>3. queue' \in [Ports -> CyclesInterfaceType] /\ xqueue' \in [Ports -> Nat]
  BY Codes DEF Enter
<1>4. acc' \in CyclesInterfaceType /\ xacc' \in Nat /\ heaviest' \in Nat
  BY Codes DEF Enter
<1>5. pc' = stage /\ acc' = 0 /\ xacc' = 0 /\ \A p \in Ports : queue'[p] = 0 /\ xqueue'[p] = 0
  BY DEF Enter
<1> QED BY <1>2, <1>3, <1>4, <1>5 DEF TypeOK, driverVars

(* The rest of the invariant when a stage has added to the cost. *)
LEMMA EnterStep ==
    ASSUME IInv, req.nTiles > 0, pc \in {"tile", "weights", "input", "output"},
           pc = "tile" => left = 0,
           NEW stage \in {"weights", "input", "output", "return"}, Enter(stage),
           cost' \in CyclesInterfaceType, exact' \in Nat, failed' \in BOOLEAN,
           UNCHANGED <<driverVars, req, tiles, detailed>>,
           Tracks(cost', exact', failed'), failed' => isErrorCode(cost'),
           ~isErrorCode(cost') => ~isErrorCode(cost) /\ cost <= cost'
    PROVE  IInv'
<1>1. TypeOK
  BY DEF IInv
<1>2. /\ TypeOK'
      /\ pc' = stage /\ acc' = 0 /\ xacc' = 0
      /\ \A p \in Ports : queue'[p] = 0 /\ xqueue'[p] = 0
  BY <1>1, EnterTypes
<1>3. Stages'
  BY <1>2 DEF IInv, Stages, driverVars
<1>4. Tracking' /\ Lossless'
  BY <1>2, Codes DEF Tracking, Lossless, Tracks
<1>5. SplitFollows'
  <2> SUFFICES ASSUME driver # "optimal", ~isErrorCode(cost')
               PROVE  /\ Len(detailed) = tiles
                      /\ \A i \in 1..Len(detailed) : ~isErrorCode(detailed[i]) /\ detailed[i] <= cost'
    BY <1>2 DEF SplitFollows, driverVars
  <2>1. /\ Len(detailed) = IF pc = "tile" THEN tiles - left ELSE tiles
        /\ \A i \in 1..Len(detailed) : ~isErrorCode(detailed[i]) /\ detailed[i] <= cost
    BY DEF IInv, SplitFollows
  <2>2. Len(detailed) = tiles
    BY <2>1, <1>1 DEF TypeOK
  <2>3. ASSUME NEW i \in 1..Len(detailed)
        PROVE  detailed[i] <= cost'
    <3>1. detailed[i] \in CyclesInterfaceType /\ cost \in CyclesInterfaceType
      BY <1>1 DEF TypeOK
    <3> QED BY <3>1, <2>1 DEF CyclesInterfaceType
  <2> QED BY <2>1, <2>2, <2>3
<1>6. BatchFollows' /\ BestStrategyWins'
  BY <1>2 DEF IInv, BatchFollows, BestStrategyWins, driverVars
<1>7. ChannelsBalanced'
  BY DEF ChannelsBalanced, Enter
<1> QED BY <1>2, <1>3, <1>4, <1>5, <1>6, <1>7 DEF IInv

(* The end of the tile loop. *)
LEMMA TilesDoneStep ==
    ASSUME IInv, TilesDone
    PROVE  IInv'
<1>1. TypeOK /\ Stages /\ Tracking /\ Lossless
  BY DEF IInv
<1>2. /\ pc = "tile" /\ left = 0
      /\ cost' = IF cost = 0 THEN ERROR_TILE_OUTPUT ELSE cost
      /\ failed' = (failed \/ cost = 0)
      /\ Enter(IF isErrorCode(cost') THEN "return" ELSE AfterTiles(req.flags))
      /\ UNCHANGED <<driverVars, req, tiles, detailed, exact>>
  BY DEF TilesDone
<1>3. cost \in CyclesInterfaceType /\ exact \in Nat /\ failed \in BOOLEAN
  BY <1>1 DEF TypeOK
<1>4. cost' \in CyclesInterfaceType /\ exact' \in Nat /\ failed' \in BOOLEAN
  <2>1. cost' \in CyclesInterfaceType /\ exact' \in Nat
    BY <1>2, <1>3, Codes
  <2>2. failed' \in BOOLEAN
    BY <1>2, <1>3, Zenon
  <2> QED BY <2>1, <2>2
<1>5. Tracks(cost', exact', failed') /\ (failed' => isErrorCode(cost'))
  BY <1>1, <1>2, <1>3, Codes DEF Tracking, Tracks, Lossless, Stages
<1>6. ~isErrorCode(cost') => ~isErrorCode(cost) /\ cost <= cost'
  BY <1>2, <1>3, Codes DEF CyclesInterfaceType
<1>7. req.nTiles > 0
  BY <1>1, <1>2 DEF Stages
<1>8. (IF isErrorCode(cost') THEN "return" ELSE AfterTiles(req.flags))
         \in {"weights", "input", "output", "return"}
  BY <1>1, NextStage
<1> QED BY <1>2, <1>4, <1>5, <1>6, <1>7, <1>8, EnterStep

(* Adding nothing changes nothing. *)
LEMMA AddZero ==
    ASSUME NEW a \in CyclesInterfaceType
    PROVE  cost_adder(a, 0) = a
<1>1. CASE isErrorCode(a)
  BY <1>1 DEF cost_adder
<1>2. CASE ~isErrorCode(a)
  <2>1. ~isErrorCode(cost_adder(a, 0)) => cost_adder(a, 0) = a + 0
    BY Adder, Codes
  <2>2. isErrorCode(cost_adder(a, 0)) => a + 0 > START_ERROR_RANGE
    BY Adder, Codes, <1>2
  <2> QED BY <1>2, <2>1, <2>2 DEF isErrorCode, CyclesInterfaceType
<1> QED BY <1>1, <1>2

(* One tile's weights on a least loaded channel. *)
LEMMA WeightsStep ==
    ASSUME IInv, NEW w \in DmaOutcomes, Weights(w)
    PROVE  IInv'
<1>0. w \in CyclesInterfaceType /\ w \in Nat
  BY LayerAssumption, Codes DEF CyclesInterfaceType
<1>1. TypeOK /\ Stages /\ Tracking /\ Lossless /\ SplitFollows /\ ChannelsBalanced
  BY DEF IInv
<1>2. PICK p \in LeastLoaded :
        /\ queue' = [queue EXCEPT ![p] = cost_adder(cost_adder(queue[p], w), 0)]
        /\ xqueue' = [xqueue EXCEPT ![p] = xqueue[p] + w]
  BY DEF Weights
<1>3. /\ pc = "weights" /\ left > 0 /\ left' = left - 1
      /\ heaviest' = Larger(heaviest, w)
      /\ failed' = (failed \/ isErrorCode(w))
      /\ UNCHANGED <<driver, calls, results, answer, asked, sound, pc, req, tiles, cost, acc,
                     detailed, exact, xacc>>
  BY DEF Weights, driverVars
<1>4. /\ p \in Ports /\ \A q \in Ports : queue[p] <= queue[q]
      /\ queue \in [Ports -> CyclesInterfaceType] /\ xqueue \in [Ports -> Nat]
      /\ heaviest \in Nat /\ failed \in BOOLEAN
  BY <1>1 DEF LeastLoaded, TypeOK
<1>5. DEFINE sum == cost_adder(queue[p], w)
<1>6. /\ sum \in CyclesInterfaceType
      /\ isErrorCode(queue[p]) \/ isErrorCode(w) => isErrorCode(sum)
      /\ ~isErrorCode(sum) => sum = queue[p] + w
      /\ cost_adder(sum, 0) = sum
  BY <1>0, <1>4, Adder, AddZero
<1> HIDE DEF sum
<1>7. /\ queue' \in [Ports -> CyclesInterfaceType] /\ xqueue' \in [Ports -> Nat]
      /\ queue'[p] = sum /\ xqueue'[p] = xqueue[p] + w
      /\ \A q \in Ports \ {p} : queue'[q] = queue[q] /\ xqueue'[q] = xqueue[q]
  <2>1. queue' = [queue EXCEPT ![p] = sum]
    BY <1>2, <1>6 DEF sum
  <2> QED BY <2>1, <1>0, <1>2, <1>4, <1>6
<1>8. TypeOK'
  <2>1. left' \in 0..MaxTiles
    BY <1>1, <1>3, LayerAssumption DEF TypeOK
  <2>2. heaviest' \in Nat
    BY <1>0, <1>3, <1>4 DEF Larger
  <2>3. failed' \in BOOLEAN
    BY <1>3, <1>4, Zenon DEF isErrorCode
  <2> QED BY <1>1, <1>3, <1>7, <2>1, <2>2, <2>3 DEF TypeOK
<1>9. Stages'
  BY <1>1, <1>3 DEF Stages
<1>10. Tracking'
  <2>1. Tracks(cost, exact, failed') /\ Tracks(acc, xacc, failed')
    BY <1>1, <1>3 DEF Tracking, Tracks
  <2>2. \A q \in Ports \ {p} : Tracks(queue'[q], xqueue'[q], failed')
    BY <1>1, <1>3, <1>7 DEF Tracking, Tracks
  <2>3. Tracks(queue'[p], xqueue'[p], failed')
    <3>1. Tracks(queue[p], xqueue[p], failed') /\ Tracks(w, w, failed')
      BY <1>1, <1>3, <1>4 DEF Tracking, Tracks
    <3>2. queue[p] \in CyclesInterfaceType /\ xqueue[p] \in Nat
      BY <1>4
    <3>3. Tracks(sum, xqueue[p] + w, failed')
      BY <3>1, <3>2, <1>0, SumTracks DEF sum
    <3> QED BY <3>3, <1>7
  <2> QED BY <2>1, <2>2, <2>3, <1>3 DEF Tracking
<1>11. Lossless'
  <2> SUFFICES ASSUME failed', ~isErrorCode(cost), ~isErrorCode(acc)
               PROVE  \E q \in Ports : isErrorCode(queue'[q])
    BY <1>3 DEF Lossless
  <2>1. CASE isErrorCode(w)
    BY <2>1, <1>4, <1>6, <1>7
  <2>2. CASE failed
    <3>1. PICK q \in Ports : isErrorCode(queue[q])
      BY <2>2, <1>1 DEF Lossless
    <3> QED BY <3>1, <1>4, <1>6, <1>7
  <2> QED BY <2>1, <2>2, <1>3
<1>12. SplitFollows'
  BY <1>1, <1>3 DEF SplitFollows
<1>13. BatchFollows' /\ BestStrategyWins'
  BY <1>3 DEF IInv, BatchFollows, BestStrategyWins
<1>14. ChannelsBalanced'
  <2> SUFFICES ASSUME ~failed', NEW r \in Ports, NEW q \in Ports,
                      queue'[r] <= START_ERROR_RANGE, queue'[q] <= START_ERROR_RANGE
               PROVE  queue'[r] <= queue'[q] + heaviest'
    BY DEF ChannelsBalanced
  <2>0. heaviest' \in Nat /\ heaviest <= heaviest' /\ w <= heaviest' /\ START_ERROR_RANGE \in Nat
    BY <1>0, <1>3, <1>4, Codes DEF Larger
  <2>1. /\ queue[p] \in Nat /\ queue[q] \in Nat /\ queue[r] \in Nat
        /\ queue'[p] \in Nat /\ queue'[q] \in Nat /\ queue'[r] \in Nat
    BY <1>4, <1>7 DEF CyclesInterfaceType
  <2>2. queue'[p] <= START_ERROR_RANGE => queue'[p] = queue[p] + w /\ queue[p] <= START_ERROR_RANGE
    BY <1>6, <1>7, <2>0, <2>1 DEF isErrorCode
  <2>3. \A s, t \in Ports : queue[s] <= START_ERROR_RANGE /\ queue[t] <= START_ERROR_RANGE
                               => queue[s] <= queue[t] + heaviest
    BY <1>1, <1>3 DEF ChannelsBalanced
  <2>4. CASE r = p /\ q = p
    BY <2>0, <2>1, <2>4
  <2>5. CASE r = p /\ q # p
    <3>1. queue'[q] = queue[q] /\ queue[p] <= queue[q]
      BY <2>5, <1>4, <1>7
    <3>2. queue'[r] = queue[p] + w
      BY <2>2, <2>5
    <3> QED BY <3>1, <3>2, <2>0, <2>1, <1>0
  <2>6. CASE r # p /\ q = p
    <3>1. queue'[r] = queue[r]
      BY <2>6, <1>7
    <3>2. queue[r] <= queue[p] + heaviest
      BY <3>1, <2>2, <2>3, <2>6, <1>4
    <3>3. queue'[q] = queue[p] + w
      BY <2>2, <2>6
    <3> QED BY <3>1, <3>2, <3>3, <2>0, <2>1, <1>0, <1>4
  <2>7. CASE r # p /\ q # p
    <3>1. queue'[r] = queue[r] /\ queue'[q] = queue[q]
      BY <2>7, <1>7
    <3> QED BY <3>1, <2>0, <2>1, <2>3, <1>4
  <2> QED BY <2>4, <2>5, <2>6, <2>7
<1> QED BY <1>8, <1>9, <1>10, <1>11, <1>12, <1>13, <1>14 DEF IInv

(* The longest channel joins the cost: an error on any channel is on it. *)
LEMMA WeightsDoneStep ==
    ASSUME IInv, WeightsDone
    PROVE  IInv'
<1>1. TypeOK /\ Stages /\ Tracking /\ Lossless
  BY DEF IInv
<1>2. PICK p \in CriticalPath : cost' = cost_adder(cost, queue[p])
  BY DEF WeightsDone
<1>3. PICK m \in Ports : (\A q \in Ports : xqueue[q] <= xqueue[m]) /\ exact' = exact + xqueue[m]
  BY DEF WeightsDone
<1>4. /\ pc = "weights" /\ left = 0
      /\ Enter(AfterWeights(req.flags))
      /\ UNCHANGED <<driverVars, req, tiles, detailed, failed>>
  BY DEF WeightsDone
<1>5. /\ cost \in CyclesInterfaceType /\ exact \in Nat /\ failed \in BOOLEAN
      /\ p \in Ports /\ queue[p] \in CyclesInterfaceType /\ xqueue[m] \in Nat
      /\ \A q \in Ports : queue[q] <= queue[p] /\ queue[q] \in Nat /\ xqueue[q] \in Nat
  BY <1>1 DEF TypeOK, CriticalPath, CyclesInterfaceType
<1>6. \A q \in Ports : isErrorCode(queue[q]) => isErrorCode(queue[p])
  BY <1>5, Codes DEF isErrorCode
<1>7. Tracks(queue[p], xqueue[m], failed)
  <2>1. CASE isErrorCode(queue[p])
    <3>1. ~failed => xqueue[p] > START_ERROR_RANGE
      BY <2>1, <1>1, <1>5 DEF Tracking, Tracks
    <3>2. xqueue[p] <= xqueue[m] /\ xqueue[p] \in Nat /\ START_ERROR_RANGE \in Nat
      BY <1>3, <1>5, Codes
    <3> QED BY <2>1, <3>1, <3>2, <1>5 DEF Tracks
  <2>2. CASE ~isErrorCode(queue[p])
    <3>1. queue[p] = xqueue[p] /\ queue[m] = xqueue[m]
      BY <2>2, <1>1, <1>5, <1>6 DEF Tracking, Tracks
    <3>2. xqueue[p] <= xqueue[m] /\ queue[m] <= queue[p]
      BY <1>3, <1>5
    <3>3. queue[p] = xqueue[m]
      BY <3>1, <3>2, <1>5
    <3> QED BY <2>2, <3>3 DEF Tracks
  <2> QED BY <2>1, <2>2
<1>8. /\ cost' \in CyclesInterfaceType
      /\ isErrorCode(cost) \/ isErrorCode(queue[p]) => isErrorCode(cost')
      /\ ~isErrorCode(cost') => cost' = cost + queue[p]
  BY <1>2, <1>5, Adder
<1>9. Tracks(cost', exact', failed')
  <2>1. Tracks(cost, exact, failed)
    BY <1>1 DEF Tracking
  <2> QED BY <2>1, <1>2, <1>3, <1>4, <1>5, <1>7, SumTracks
<1>10. failed' => isErrorCode(cost')
  BY <1>1, <1>4, <1>6, <1>8, Codes DEF Lossless, Stages
<1>11. ~isErrorCode(cost') => ~isErrorCode(cost) /\ cost <= cost'
  BY <1>5, <1>8 DEF CyclesInterfaceType
<1>12. req.nTiles > 0
  BY <1>1, <1>4 DEF Stages
<1>13. AfterWeights(req.flags) \in {"weights", "input", "output", "return"}
  BY <1>1, NextStage
<1>14. exact' \in Nat /\ failed' \in BOOLEAN
  BY <1>3, <1>4, <1>5
<1> QED BY <1>4, <1>8, <1>9, <1>10, <1>11, <1>12, <1>13, <1>14, EnterStep

(* One transfer joins the running sum. *)
LEMMA TransferStep ==
    ASSUME IInv, NEW c \in DmaOutcomes, Transfer(c)
    PROVE  IInv'
<1>0. c \in CyclesInterfaceType /\ c \in Nat
  BY LayerAssumption, Codes DEF CyclesInterfaceType
<1>1. TypeOK /\ Stages /\ Tracking /\ Lossless /\ SplitFollows
  BY DEF IInv
<1>2. /\ pc \in {"input", "output"} /\ left > 0 /\ left' = left - 1
      /\ acc' = cost_adder(acc, c) /\ xacc' = xacc + c
      /\ failed' = (failed \/ isErrorCode(c))
      /\ UNCHANGED <<driver, calls, results, answer, asked, sound, pc, req, tiles, cost, queue,
                     detailed, exact, xqueue, heaviest>>
  BY DEF Transfer, driverVars
<1>3. acc \in CyclesInterfaceType /\ xacc \in Nat /\ failed \in BOOLEAN
  BY <1>1 DEF TypeOK
<1>4. /\ acc' \in CyclesInterfaceType
      /\ isErrorCode(acc) \/ isErrorCode(c) => isErrorCode(acc')
  BY <1>0, <1>2, <1>3, Adder
<1>5. TypeOK'
  <2>1. left' \in 0..MaxTiles
    BY <1>1, <1>2, LayerAssumption DEF TypeOK
  <2>2. failed' \in BOOLEAN
    BY <1>2, <1>3, Zenon
  <2>3. xacc' \in Nat
    BY <1>0, <1>2, <1>3
  <2> QED BY <1>1, <1>2, <1>4, <2>1, <2>2, <2>3 DEF TypeOK
<1>6. Stages' /\ Lossless'
  BY <1>1, <1>2, <1>4 DEF Stages, Lossless
<1>7. Tracking'
  <2>1. /\ Tracks(cost, exact, failed') /\ Tracks(acc, xacc, failed') /\ Tracks(c, c, failed')
        /\ \A p \in Ports : Tracks(queue[p], xqueue[p], failed')
    BY <1>1, <1>2 DEF Tracking, Tracks
  <2>2. Tracks(acc', xacc', failed')
    BY <2>1, <1>0, <1>2, <1>3, SumTracks
  <2> QED BY <2>1, <2>2, <1>2 DEF Tracking
<1>8. SplitFollows'
  BY <1>1, <1>2 DEF SplitFollows
<1>9. BatchFollows' /\ BestStrategyWins' /\ ChannelsBalanced'
  BY <1>2 DEF IInv, BatchFollows, BestStrategyWins, ChannelsBalanced
<1> QED BY <1>5, <1>6, <1>7, <1>8, <1>9 DEF IInv

(* The transfers join the cost. *)
LEMMA TransfersDoneStep ==
    ASSUME IInv, TransfersDone
    PROVE  IInv'
<1>1. TypeOK /\ Stages /\ Tracking /\ Lossless
  BY DEF IInv
<1>2. /\ pc \in {"input", "output"} /\ left = 0
      /\ cost' = cost_adder(cost, acc) /\ exact' = exact + xacc
      /\ Enter(IF pc = "input" THEN AfterInput(req.flags) ELSE "return")
      /\ UNCHANGED <<driverVars, req, tiles, detailed, failed>>
  BY DEF TransfersDone
<1>3. /\ cost \in CyclesInterfaceType /\ exact \in Nat /\ failed \in BOOLEAN
      /\ acc \in CyclesInterfaceType /\ xacc \in Nat
  BY <1>1 DEF TypeOK
<1>4. /\ cost' \in CyclesInterfaceType
      /\ isErrorCode(cost) \/ isErrorCode(acc) => isErrorCode(cost')
      /\ ~isErrorCode(cost') => cost' = cost + acc
  BY <1>2, <1>3, Adder
<1>5. Tracks(cost', exact', failed')
  <2>1. Tracks(cost, exact, failed) /\ Tracks(acc, xacc, failed)
    BY <1>1 DEF Tracking
  <2> QED BY <2>1, <1>2, <1>3, SumTracks
<1>6. failed' => isErrorCode(cost')
  BY <1>1, <1>2, <1>4, Codes DEF Lossless, Stages
<1>7. ~isErrorCode(cost') => ~isErrorCode(cost) /\ cost <= cost'
  BY <1>3, <1>4 DEF CyclesInterfaceType
<1>8. req.nTiles > 0
  BY <1>1, <1>2 DEF Stages
<1>9. (IF pc = "input" THEN AfterInput(req.flags) ELSE "return") \in {"weights", "input", "output", "return"}
  BY <1>1, NextStage
<1>10. exact' \in Nat /\ failed' \in BOOLEAN
  BY <1>2, <1>3
<1> QED BY <1>2, <1>4, <1>5, <1>6, <1>7, <1>8, <1>9, <1>10, EnterStep

(* At the end of a query the cost alone tells whether all went well. *)
LEMMA Verdict ==
    ASSUME IInv, pc = "return"
    PROVE  /\ ~isErrorCode(cost) => cost = exact
           /\ ~isErrorCode(cost) <=> ~failed /\ exact <= START_ERROR_RANGE
<1>1. ~isErrorCode(cost) => cost = exact /\ ~failed
  BY Codes DEF IInv, Tracking, Tracks, Lossless, Stages
<1>2. isErrorCode(cost) /\ ~failed => exact > START_ERROR_RANGE
  BY DEF IInv, Tracking, Tracks
<1>3. exact \in Nat /\ START_ERROR_RANGE \in Nat
  BY Codes DEF IInv, TypeOK
<1> QED BY <1>1, <1>2, <1>3 DEF isErrorCode

(* A query returns its cost and its locals end. *)
LEMMA ReturnStep ==
    ASSUME IInv, Return
    PROVE  IInv'
<1>1. TypeOK /\ Stages /\ BatchFollows
  BY DEF IInv
<1>2. /\ pc = "return" /\ pc' = "call" /\ calls' = calls - 1
      /\ results' = Append(results, cost)
      /\ sound' = (sound /\ ~failed /\ exact <= START_ERROR_RANGE)
      /\ UNCHANGED <<driver, answer, asked, req, detailed>>
  BY DEF Return
<1>3. /\ tiles' = 0 /\ left' = 0 /\ cost' = 0 /\ acc' = 0
      /\ queue' = [p \in Ports |-> 0] /\ xqueue' = [p \in Ports |-> 0]
      /\ exact' = 0 /\ xacc' = 0 /\ heaviest' = 0 /\ failed' = FALSE
  BY DEF Return, DropLocals
<1>4. /\ results \in Seq(CyclesInterfaceType) /\ cost \in CyclesInterfaceType
      /\ calls \in 0..MaxCalls /\ asked \in Nat /\ calls > 0 /\ MaxCalls \in Nat
  BY <1>1, <1>2, LayerAssumption DEF TypeOK, Stages
<1>5. TypeOK'
  <2>1. results' \in Seq(CyclesInterfaceType) /\ calls' \in 0..MaxCalls
    BY <1>2, <1>4
  <2>2. sound' \in BOOLEAN
    BY <1>2, Zenon
  <2>3. queue' \in [Ports -> CyclesInterfaceType] /\ xqueue' \in [Ports -> Nat]
    BY <1>3, Codes
  <2>4. /\ tiles' \in 0..MaxTiles /\ left' \in 0..MaxTiles
        /\ cost' \in CyclesInterfaceType /\ acc' \in CyclesInterfaceType
    BY <1>3, Codes, Bounds
  <2> QED BY <1>1, <1>2, <1>3, <2>1, <2>2, <2>3, <2>4 DEF TypeOK
<1>6. Stages' /\ Tracking' /\ Lossless'
  BY <1>2, <1>3, Codes DEF Stages, Tracking, Tracks, Lossless
<1>7. SplitFollows' /\ BestStrategyWins' /\ ChannelsBalanced'
  BY <1>2, <1>3 DEF SplitFollows, BestStrategyWins, ChannelsBalanced
<1>8. BatchFollows'
  <2> SUFFICES ASSUME driver = "batch"
               PROVE  /\ Len(results') = asked - calls'
                      /\ sound' <=> \A i \in 1..Len(results') : ~isErrorCode(results'[i])
    BY <1>2 DEF BatchFollows
  <2>1. /\ Len(results) = asked - calls
        /\ sound <=> \A i \in 1..Len(results) : ~isErrorCode(results[i])
    BY <1>1 DEF BatchFollows
  <2>2. /\ Len(results') = Len(results) + 1 /\ results'[Len(results) + 1] = cost
        /\ \A i \in 1..Len(results) : results'[i] = results[i]
        /\ Len(results) \in Nat
    BY <1>2, <1>4
  <2>3. Len(results') = asked - calls'
    BY <2>1, <2>2, <1>2, <1>4
  <2>4. sound' <=> sound /\ ~isErrorCode(cost)
    BY <1>2, Verdict
  <2>5. 1..Len(results') = 1..Len(results) \cup {Len(results) + 1}
    BY <2>2
  <2> QED BY <2>1, <2>2, <2>3, <2>4, <2>5
<1> QED BY <1>5, <1>6, <1>7, <1>8 DEF IInv

(* The caller gets the cheapest cost or the verdict of the batch. *)
LEMMA AnswerStep ==
    ASSUME IInv, Answer
    PROVE  IInv'
<1>1. TypeOK /\ Stages /\ BatchFollows
  BY DEF IInv
<1>2. /\ pc = "call" /\ calls = 0 /\ pc' = "idle"
      /\ UNCHANGED <<driver, calls, results, asked, sound, req, tiles, left, cost, queue, acc, detailed,
                     exact, xqueue, xacc, heaviest, failed>>
  BY DEF Answer, ghosts
<1>3. \/ /\ driver = "batch"
         /\ answer' = [cost |-> NO_ERROR,
                       isValid |-> results # <<>> /\ \A i \in 1..Len(results) : ~isErrorCode(results[i])]
      \/ /\ driver # "batch"
         /\ \E i \in Cheapest : answer' = [cost |-> results[i], isValid |-> FALSE]
  BY DEF Answer
<1> DEFINE good == results # <<>> /\ \A i \in 1..Len(results) : ~isErrorCode(results[i])
<1> HIDE DEF good
<1>3a. good \in BOOLEAN /\ (driver = "batch" => answer' = [cost |-> NO_ERROR, isValid |-> good])
  BY <1>3, Zenon DEF good
<1>4. results \in Seq(CyclesInterfaceType) /\ asked \in Nat
  BY <1>1, LayerAssumption DEF TypeOK
<1>5. TypeOK'
  <2>1. answer' \in [cost : CyclesInterfaceType, isValid : BOOLEAN]
    <3>1. CASE driver = "batch"
      BY <3>1, <1>3a, Codes DEF NO_ERROR
    <3>2. CASE driver # "batch"
      <4>1. PICK i \in Cheapest : answer' = [cost |-> results[i], isValid |-> FALSE]
        BY <3>2, <1>3
      <4>2. results[i] \in CyclesInterfaceType
        BY <4>1, <1>4 DEF Cheapest
      <4> QED BY <4>1, <4>2
    <3> QED BY <3>1, <3>2
  <2> QED BY <1>1, <1>2, <2>1 DEF TypeOK
<1>6. Stages' /\ Tracking' /\ Lossless'
  BY <1>2 DEF IInv, Stages, Tracking, Tracks, Lossless
<1>7. SplitFollows' /\ ChannelsBalanced'
  BY <1>2 DEF IInv, SplitFollows, ChannelsBalanced
<1>8. BatchFollows'
  <2> SUFFICES ASSUME driver = "batch"
               PROVE  answer'.isValid <=> asked > 0 /\ sound
    BY <1>1, <1>2 DEF BatchFollows
  <2>1. Len(results) = asked /\ (sound <=> \A i \in 1..Len(results) : ~isErrorCode(results[i]))
    BY <1>1, <1>2, <1>4 DEF BatchFollows
  <2>2. results # <<>> <=> asked > 0
    BY <2>1, <1>4
  <2>3. answer'.isValid = good
    BY <1>3a
  <2>4. good <=> results # <<>> /\ \A i \in 1..Len(results) : ~isErrorCode(results[i])
    BY DEF good
  <2> QED BY <2>1, <2>2, <2>3, <2>4
<1>9. BestStrategyWins'
  <2> SUFFICES ASSUME driver = "optimal", NEW j \in 1..Len(results), ~isErrorCode(results[j])
               PROVE  answer'.cost <= results[j] /\ ~isErrorCode(answer'.cost)
    BY <1>2 DEF BestStrategyWins
  <2>1. PICK i \in Cheapest : answer' = [cost |-> results[i], isValid |-> FALSE]
    BY <1>3
  <2>2. i \in 1..Len(results) /\ results[i] <= results[j]
    BY <2>1 DEF Cheapest
  <2>3. results[i] \in CyclesInterfaceType /\ results[j] \in CyclesInterfaceType
    BY <1>4, <2>2
  <2>4. results[i] \in Nat /\ results[j] \in Nat
    BY <2>3 DEF CyclesInterfaceType
  <2> QED BY <2>1, <2>2, <2>4, Codes DEF isErrorCode
<1> QED BY <1>5, <1>6, <1>7, <1>8, <1>9 DEF IInv

-----------------------------------------------------------------------------
(* The invariant is inductive. *)
LEMMA NextIInv == IInv /\ [Next]_vars => IInv'
<1> SUFFICES ASSUME IInv, [Next]_vars PROVE IInv'
  OBVIOUS
<1>1. CASE Next
  BY <1>1, AskStep, CallStep, ValidateStep, ThrowStep, SplitStep, TileStep, TilesDoneStep,
     WeightsStep, WeightsDoneStep, TransferStep, TransfersDoneStep, ReturnStep, AnswerStep DEF Next
<1>2. CASE UNCHANGED vars
  <2>1. TypeOK' /\ Stages' /\ Tracking' /\ Lossless'
    BY <1>2 DEF vars, IInv, TypeOK, Stages, Tracking, Tracks, Lossless
  <2>2. SplitFollows' /\ BatchFollows' /\ ChannelsBalanced' /\ BestStrategyWins'
    BY <1>2 DEF vars, IInv, SplitFollows, BatchFollows, ChannelsBalanced, BestStrategyWins
  <2> QED BY <2>1, <2>2 DEF IInv
<1> QED BY <1>1, <1>2

(* Every reachable state of the layer queries satisfies the invariant. *)
THEOREM Inductive == Spec => []IInv
PROOF BY InitIInv, NextIInv, PTL DEF Spec

(* The type invariant: no accumulator leaves the unsigned type. *)
THEOREM TypeCorrect == Spec => []TypeOK
<1>1. IInv => TypeOK
  BY DEF IInv
<1> QED BY <1>1, Inductive, PTL

(* A valid cost of layer_cycles or layer_pre_split_cycles is the true sum, *)
(* whatever the number of tiles, channels and the width of the type.       *)
THEOREM CostAlwaysExact == Spec => []CostExact
<1>1. IInv => CostExact
  BY Verdict DEF CostExact
<1> QED BY <1>1, Inductive, PTL

(* No error of a tile or a transfer is lost on the way to the result, and  *)
(* none appears without a cause.                                           *)
THEOREM FailureAlwaysSurfaces == Spec => []FailureSurfaces
<1>1. IInv => FailureSurfaces
  BY Verdict DEF FailureSurfaces
<1> QED BY <1>1, Inductive, PTL

(* dpu_schedule keeps the DMA channels within one transfer of each other. *)
THEOREM ChannelsAlwaysBalanced == Spec => []ChannelsBalanced
<1>1. IInv => ChannelsBalanced
  BY DEF IInv
<1> QED BY <1>1, Inductive, PTL

(* The split returned to the caller is the one of this very query. *)
THEOREM SplitAlwaysFresh == Spec => []DetailedFresh
<1>1. IInv => DetailedFresh
  BY DEF IInv, SplitFollows, DetailedFresh
<1> QED BY <1>1, Inductive, PTL

(* The search over the strategies never misses a valid cheaper one. *)
THEOREM BestAlwaysWins == Spec => []BestStrategyWins
<1>1. IInv => BestStrategyWins
  BY DEF IInv
<1> QED BY <1>1, Inductive, PTL

(* A batch is reported valid exactly when every layer went well. *)
THEOREM BatchAlwaysJudged == Spec => []BatchVerdict
<1>1. IInv => BatchVerdict
  BY LayerAssumption DEF IInv, BatchFollows, BatchVerdict, TypeOK
<1> QED BY <1>1, Inductive, PTL
=============================================================================
