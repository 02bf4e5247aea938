--------------------------- MODULE MCVPUCostModel ---------------------------
(* Small instances of VPUCostModel for TLC. *)
EXTENDS VPUCostModel, TLC

CONSTANTS t1, t2,
    a,    \* plain workload
    b,    \* the network's raw output is out of range
    c,    \* 64-channel clone of e
    d,    \* dual-sparse, cloned to a and b
    e,    \* extrapolated from a and c
    p,    \* preloaded in the fixed cache
    s,    \* refused by the sanitizer
    z     \* no provider but the service has a cost for it

MCThreads == {t1, t2}
OneThread == {t1}
MCWorkloads == {a, b, c, d, e, p, s, z}
MCSanity == [w \in MCWorkloads |-> IF w = s THEN ERROR_INPUT_TOO_BIG ELSE NO_ERROR]
MCNoAct == d :> a
MCNoWt == d :> b
MCCh32 == e :> a
MCCh64 == e :> c
MCChannels == e :> 96
MCNNRaw == a :> 40 @@ b :> (-7) @@ c :> 60 @@ d :> 10 @@ e :> 11 @@ p :> 12 @@ s :> 13
    @@ z :> 141
MCTheoretical == a :> 31 @@ b :> 33 @@ c :> 51 @@ d :> 34 @@ e :> 71 @@ p :> 35 @@ s :> 36
    @@ z :> 382   \* 64 bits; narrowed it is in the error range
MCProfiled == a :> 42 @@ b :> 0 @@ c :> 62 @@ d :> 44 @@ e :> 84 @@ p :> 45 @@ s :> 46
    @@ z :> 47
MCFixed == p :> 15
PassThrough == [w \in MCWorkloads |-> 100]
(* The adapter that halves the cost of a depth-wise convolution. *)
Adapter == [PassThrough EXCEPT ![a] = 50]

Symmetry == Permutations(MCThreads)
=============================================================================
