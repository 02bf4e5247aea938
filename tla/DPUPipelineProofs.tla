-------------------------- MODULE DPUPipelineProofs --------------------------
(***************************************************************************)
(* Proofs about DPUPipeline, for any layers a caller can write down, any   *)
(* strategies, numbers of tiles, ranges and answers of the cost providers: *)
(*  - tiles that the caller split have the cost of the whole call;         *)
(*  - the tiles of a split fit together, their halos cover the input, and  *)
(*    their memories hold the whole output;                                *)
(*  - a range is iterated over completely;                                 *)
(*  - rows and columns, or channels, of a tile compute all of it once.     *)
(***************************************************************************)
EXTENDS DPUPipeline, DPULayerProofs, WellFoundedInduction

-----------------------------------------------------------------------------
(* Sanitizing and splitting commute. *)

(* What Prepared changes in a layer: the operation and the swizzlings. *)
Disguised(l, o, z) == [l EXCEPT !.op = o, !.swizzling = z]

(* The operation of the prepared layer: average pooling and small          *)
(* convolutions are replaced.                                              *)
OpOf(l) ==
    LET o == IF l.op = "AVEPOOL" /\ ~AtLeast(l.device, "NPU_5_0") THEN "DW_CONVOLUTION" ELSE l.op
    IN  IF AtLeast(l.device, "VPU_2_7") /\ o = "CONVOLUTION" /\ l.in.c \in 1..15 /\ ~l.in_autopad
        THEN "CM_CONVOLUTION" ELSE o

(* Its swizzlings. *)
SwizzlingOf(l) == sanitize_preconditions(swizzling_turn_OFF(l)).swizzling

(* Prepared changes these two and nothing else. *)
LEMMA PreparedIs ==
    ASSUME NEW l, IsRecord(l)
    PROVE  Prepared(l) = Disguised(l, OpOf(l), SwizzlingOf(l))
  <1> DEFINE z == SwizzlingOf(l)
             a == swizzling_turn_OFF(l)
             o == IF l.op = "AVEPOOL" /\ ~AtLeast(l.device, "NPU_5_0") THEN "DW_CONVOLUTION" ELSE l.op
             b == avgpool_replace_by(a)
             c == compressConv_replace_by_CM_CONV_VPU27(b)
  <1>1. PICK y : a = [l EXCEPT !.swizzling = y]
    <2>1. CASE AtLeast(l.device, "NPU_5_0")
      <3> DEFINE y == [side \in DOMAIN l.swizzling |-> "KEY_0"]
      <3>1. a = [l EXCEPT !.swizzling = y]
        BY <2>1, Zenon DEF swizzling_turn_OFF
      <3> QED BY <3>1
    <2>2. CASE ~AtLeast(l.device, "NPU_5_0")
      <3>1. a = l
        BY <2>2 DEF swizzling_turn_OFF
      <3>2. l = [l EXCEPT !.swizzling = l.swizzling]
        BY DEF IsRecord, Fields
      <3> QED BY <3>1, <3>2
    <2> QED BY <2>1, <2>2
  <1>2. b = [l EXCEPT !.op = o, !.swizzling = y]
    BY <1>1 DEF avgpool_replace_by, IsRecord, Fields
  <1>3. c = [l EXCEPT !.op = OpOf(l), !.swizzling = y]
    BY <1>2 DEF compressConv_replace_by_CM_CONV_VPU27, OpOf, IsRecord, Fields
  <1>4. Prepared(l) = sanitize_preconditions(c)
    BY DEF Prepared, operation_sanitisation
  <1> HIDE DEF c
  <1>5. c.device = l.device /\ a.device = l.device /\ c.swizzling = a.swizzling
    BY <1>1, <1>3 DEF IsRecord, Fields
  <1>6. SwizzlingAdapted(c) = SwizzlingAdapted(a)
    BY <1>5 DEF SwizzlingAdapted
  <1>7. CASE is_supported(l.device)
    <2>1. Prepared(l) = [c EXCEPT !.swizzling = SwizzlingAdapted(a)]
      BY <1>4, <1>5, <1>6, <1>7 DEF sanitize_preconditions
    <2>2. z = SwizzlingAdapted(a)
      <3>1. sanitize_preconditions(a) = [a EXCEPT !.swizzling = SwizzlingAdapted(a)]
        BY <1>5, <1>7 DEF sanitize_preconditions
      <3> QED BY <1>1, <3>1 DEF SwizzlingOf, IsRecord, Fields
    <2> HIDE DEF z, a
    <2> QED BY <1>3, <2>1, <2>2 DEF Disguised, z
  <1>8. CASE ~is_supported(l.device)
    <2>1. Prepared(l) = c
      BY <1>4, <1>5, <1>8 DEF sanitize_preconditions
    <2>2. z = y
      <3>1. sanitize_preconditions(a) = a
        BY <1>5, <1>8 DEF sanitize_preconditions
      <3> QED BY <1>1, <3>1 DEF SwizzlingOf, IsRecord, Fields
    <2> HIDE DEF z, a
    <2> QED BY <1>3, <2>1, <2>2 DEF Disguised, z
  <1> QED BY <1>7, <1>8

(* Records are equal when their fields are. *)
LEMMA SameFields ==
    ASSUME NEW a, NEW b, a = [f \in DOMAIN a |-> a[f]], b = [f \in DOMAIN b |-> b[f]],
           DOMAIN a = DOMAIN b, \A f \in DOMAIN a : a[f] = b[f]
    PROVE  a = b
  OBVIOUS

(* A disguise is a record, and every other field is as before. *)
LEMMA DisguiseKeeps ==
    ASSUME NEW l, IsRecord(l), NEW o, NEW z
    PROVE  LET d == Disguised(l, o, z)
           IN  /\ IsRecord(d) /\ DOMAIN d = DOMAIN l /\ d.op = o /\ d.swizzling = z
               /\ d.in = l.in /\ d.out = l.out /\ d.kernel = l.kernel /\ d.stride = l.stride /\ d.pad = l.pad
               /\ d.owt = l.owt /\ d.halo = l.halo /\ d.sep = l.sep /\ d.autopad = l.autopad
               /\ d.in_autopad = l.in_autopad /\ d.device = l.device /\ d.isi = l.isi
  BY DEF Disguised, IsRecord, Fields

(* What redimension_tile and the loop of an overlapped split make of a     *)
(* layer, field by field.                                                  *)
OverlappedForm(l, axis, owt, c, halo, sep) ==
    [l EXCEPT !.out = [l.out EXCEPT ![axis.dim] = c.out], !.in = [l.in EXCEPT ![axis.dim] = c.in],
              !.pad = [[l.pad EXCEPT ![axis.begin] = c.pad_begin] EXCEPT ![axis.end] = c.pad_end],
              !.isi = "CLUSTERING", !.owt = owt, !.halo = halo, !.sep = sep]

(* What a tile with overlapped input has of its layer, field by field. *)
LEMMA OverlappedFields ==
    ASSUME NEW l, IsRecord(l), NEW axis, NEW owt, NEW c
    PROVE  overlapped_tile(l, axis, owt, c) =
               OverlappedForm(l, axis, owt, c, overlapped_halo(l, axis, owt, c),
                              RescaleSEP(l.sep, axis, c.in, l.in[axis.dim]))
  <1> DEFINE h == overlapped_halo(l, axis, owt, c)
             s == RescaleSEP(l.sep, axis, c.in, l.in[axis.dim])
             r == redimension_tile(l, axis, c.in, c.out)
             x == [l.out EXCEPT ![axis.dim] = c.out]
             y == [l.in EXCEPT ![axis.dim] = c.in]
  <1>1. r = [l EXCEPT !.out = x, !.in = y]
    BY DEF redimension_tile, IsRecord, Fields
  <1>2. r.pad = l.pad /\ r.sep = l.sep /\ DOMAIN r = DOMAIN l
    BY <1>1 DEF IsRecord, Fields
  <1>3. overlapped_tile(l, axis, owt, c) =
            [r EXCEPT !.pad = [[l.pad EXCEPT ![axis.begin] = c.pad_begin] EXCEPT ![axis.end] = c.pad_end],
                      !.isi = "CLUSTERING", !.owt = owt, !.halo = h, !.sep = s]
    <2> HIDE DEF r, h
    <2> QED BY <1>2 DEF overlapped_tile, r, h, IsRecord, Fields
  <1> HIDE DEF r, h, s, x, y
  <1>4. overlapped_tile(l, axis, owt, c) =
            [l EXCEPT !.out = x, !.in = y,
                      !.pad = [[l.pad EXCEPT ![axis.begin] = c.pad_begin] EXCEPT ![axis.end] = c.pad_end],
                      !.isi = "CLUSTERING", !.owt = owt, !.halo = h, !.sep = s]
    BY <1>1, <1>3 DEF IsRecord, Fields
  <1> QED BY <1>4, Zenon DEF OverlappedForm, h, s, x, y

(* The same for the split with halos. *)
HaloForm(l, c, halo) ==
    [l EXCEPT !.out = [l.out EXCEPT !["h"] = c.out], !.in = [l.in EXCEPT !["h"] = c.in],
              !.pad = [[l.pad EXCEPT !.top = c.pad_begin] EXCEPT !.bottom = c.pad_end],
              !.isi = "SPLIT_OVER_H", !.halo = halo]

(* What the tile of a halo split has of it. *)
LEMMA HaloFields ==
    ASSUME NEW l, IsRecord(l), NEW ctx, NEW i
    PROVE  HALO_tile(l, ctx, i) = HaloForm(l, ctx[i], HALO_halo(l, ctx, i))
  <1> DEFINE h == HALO_halo(l, ctx, i)
             c == ctx[i]
             r == redimension_tile(l, Axis_H, c.in, c.out)
             x == [l.out EXCEPT !["h"] = c.out]
             y == [l.in EXCEPT !["h"] = c.in]
  <1>1. r = [l EXCEPT !.out = x, !.in = y]
    BY DEF redimension_tile, Axis_H, IsRecord, Fields
  <1>2. r.pad = l.pad /\ DOMAIN r = DOMAIN l
    BY <1>1 DEF IsRecord, Fields
  <1>3. HALO_tile(l, ctx, i) =
            [r EXCEPT !.pad = [[l.pad EXCEPT !.top = c.pad_begin] EXCEPT !.bottom = c.pad_end],
                      !.isi = "SPLIT_OVER_H", !.halo = h]
    <2> HIDE DEF r, h
    <2> QED BY <1>2 DEF HALO_tile, r, h, IsRecord, Fields
  <1> HIDE DEF r, h, x, y
  <1>4. HALO_tile(l, ctx, i) =
            [l EXCEPT !.out = x, !.in = y,
                      !.pad = [[l.pad EXCEPT !.top = c.pad_begin] EXCEPT !.bottom = c.pad_end],
                      !.isi = "SPLIT_OVER_H", !.halo = h]
    BY <1>1, <1>3 DEF IsRecord, Fields
  <1> QED BY <1>4, Zenon DEF HaloForm, h, x, y

(* The input of a slice of channels. *)
SliceInput(l, channels) ==
    [w |-> (l.out.w - 1) * l.stride.w + l.kernel.w - l.pad.left - l.pad.right,
     h |-> (l.out.h - 1) * l.stride.h + l.kernel.h - l.pad.top - l.pad.bottom,
     c |-> IF l.op \in {"CONVOLUTION", "CM_CONVOLUTION"} THEN l.in.c ELSE channels]

(* Its halo: what the other tiles write comes before and after it. *)
SliceHalo(l, owt, remaining, channels) ==
    [l.halo EXCEPT !.inbound = [[@ EXCEPT !.front = IF owt > 1 THEN l.out.c - remaining ELSE 0]
                                   EXCEPT !.back = IF owt > 1 THEN remaining - channels ELSE 0]]

(* The slice as a whole. *)
SliceForm(l, owt, isi, channels, in, halo) ==
    [l EXCEPT !.out = [l.out EXCEPT !.c = channels], !.in = in, !.isi = isi, !.owt = owt, !.halo = halo]

(* A tile of a split over the channels is such a slice. *)
LEMMA SOKFields ==
    ASSUME NEW l, IsRecord(l), {"w", "h", "c"} \subseteq DOMAIN l.out, "inbound" \in DOMAIN l.halo,
           NEW owt, NEW isi, NEW remaining, NEW channels
    PROVE  SOK_tile(l, owt, isi, remaining, channels) =
               SliceForm(l, owt, isi, channels, SliceInput(l, channels), SliceHalo(l, owt, remaining, channels))
  <1> DEFINE x == [l.out EXCEPT !.c = channels]
             y == SliceInput(l, channels)
             p == [l EXCEPT !.out = x]
             r == recomputeInputTensorShape(p)
             f == IF owt > 1 THEN l.out.c - remaining ELSE 0
             b == IF owt > 1 THEN remaining - channels ELSE 0
             h == SliceHalo(l, owt, remaining, channels)
  <1>1. /\ p.out = x /\ p.in = l.in /\ p.op = l.op /\ p.kernel = l.kernel /\ p.stride = l.stride /\ p.pad = l.pad
        /\ x.w = l.out.w /\ x.h = l.out.h /\ x.c = channels
    BY DEF IsRecord, Fields
  <1>2. r = [p EXCEPT !.in = y]
    <2> HIDE DEF p, x
    <2> QED BY <1>1 DEF recomputeInputTensorShape, SliceInput
  <1> HIDE DEF x, y
  <1>3. r = [l EXCEPT !.out = x, !.in = y]
    BY <1>2 DEF IsRecord, Fields
  <1>4. r.halo = l.halo /\ DOMAIN r = DOMAIN l
    BY <1>3 DEF IsRecord, Fields
  <1> HIDE DEF r, f, b, h
  <1>5. SOK_tile(l, owt, isi, remaining, channels) = [r EXCEPT !.isi = isi, !.owt = owt, !.halo = h]
    BY <1>4, ZenonT(30) DEF SOK_tile, r, p, x, h, f, b, SliceHalo, IsRecord, Fields
  <1>6. SOK_tile(l, owt, isi, remaining, channels) = [l EXCEPT !.out = x, !.in = y, !.isi = isi, !.owt = owt, !.halo = h]
    BY <1>3, <1>5 DEF IsRecord, Fields
  <1> QED BY <1>6, Zenon DEF SliceForm, x, y, h

(* The tile of a layer in disguise is the tile of the layer in disguise.   *)
LEMMA TilesDisguised ==
    ASSUME NEW l, IsRecord(l), {"w", "h", "c"} \subseteq DOMAIN l.out, "inbound" \in DOMAIN l.halo,
           NEW o, NEW z, o \in {"CONVOLUTION", "CM_CONVOLUTION"} <=> l.op \in {"CONVOLUTION", "CM_CONVOLUTION"}
    PROVE  LET d == Disguised(l, o, z)
           IN  /\ \A axis, owt, c : overlapped_tile(d, axis, owt, c) = Disguised(overlapped_tile(l, axis, owt, c), o, z)
               /\ \A ctx, i : HALO_tile(d, ctx, i) = Disguised(HALO_tile(l, ctx, i), o, z)
               /\ \A owt, isi, remaining, channels :
                     SOK_tile(d, owt, isi, remaining, channels)
                         = Disguised(SOK_tile(l, owt, isi, remaining, channels), o, z)
               /\ \A axis, n : TileContext(d, axis, n) = TileContext(l, axis, n)
  <1> DEFINE d == Disguised(l, o, z)
  <1>1. /\ IsRecord(d) /\ d.in = l.in /\ d.out = l.out /\ d.kernel = l.kernel /\ d.stride = l.stride /\ d.pad = l.pad
        /\ d.owt = l.owt /\ d.halo = l.halo /\ d.sep = l.sep /\ d.op = o
    BY DisguiseKeeps
  <1>2. d = [l EXCEPT !.op = o, !.swizzling = z]
    BY DEF Disguised
  <1> HIDE DEF d
  <1>3. ASSUME NEW axis, NEW owt, NEW c
        PROVE  overlapped_tile(d, axis, owt, c) = Disguised(overlapped_tile(l, axis, owt, c), o, z)
    <2> DEFINE h == overlapped_halo(l, axis, owt, c)
               s == RescaleSEP(l.sep, axis, c.in, l.in[axis.dim])
    <2>1. overlapped_halo(d, axis, owt, c) = h
      BY <1>1 DEF overlapped_halo
    <2>2. overlapped_tile(l, axis, owt, c) = OverlappedForm(l, axis, owt, c, h, s)
      BY OverlappedFields
    <2>3. overlapped_tile(d, axis, owt, c) = OverlappedForm(d, axis, owt, c, h, s)
      BY <1>1, <2>1, OverlappedFields
    <2> HIDE DEF h, s
    <2>4. OverlappedForm(d, axis, owt, c, h, s) = Disguised(OverlappedForm(l, axis, owt, c, h, s), o, z)
      BY <1>1, <1>2 DEF OverlappedForm, Disguised, IsRecord, Fields
    <2> QED BY <2>2, <2>3, <2>4
  <1>4. ASSUME NEW ctx, NEW i
        PROVE  HALO_tile(d, ctx, i) = Disguised(HALO_tile(l, ctx, i), o, z)
    <2> DEFINE h == HALO_halo(l, ctx, i)
               c == ctx[i]
    <2>1. HALO_halo(d, ctx, i) = h
      BY <1>1 DEF HALO_halo, halo_top, halo_bottom, memory_end
    <2>2. HALO_tile(l, ctx, i) = HaloForm(l, c, h)
      BY HaloFields
    <2>3. HALO_tile(d, ctx, i) = HaloForm(d, c, h)
      BY <1>1, <2>1, HaloFields
    <2> HIDE DEF h, c
    <2>4. HaloForm(d, c, h) = Disguised(HaloForm(l, c, h), o, z)
      BY <1>1, <1>2 DEF HaloForm, Disguised, IsRecord, Fields
    <2> QED BY <2>2, <2>3, <2>4
  <1>5. ASSUME NEW owt, NEW isi, NEW remaining, NEW channels
        PROVE  SOK_tile(d, owt, isi, remaining, channels) = Disguised(SOK_tile(l, owt, isi, remaining, channels), o, z)
    <2> DEFINE y == SliceInput(l, channels)
               h == SliceHalo(l, owt, remaining, channels)
    <2>1. SliceInput(d, channels) = y /\ SliceHalo(d, owt, remaining, channels) = h
      BY <1>1 DEF SliceInput, SliceHalo
    <2>2. SOK_tile(l, owt, isi, remaining, channels) = SliceForm(l, owt, isi, channels, y, h)
      BY SOKFields
    <2>3. SOK_tile(d, owt, isi, remaining, channels) = SliceForm(d, owt, isi, channels, y, h)
      BY <1>1, <2>1, SOKFields
    <2> HIDE DEF y, h
    <2>4. SliceForm(d, owt, isi, channels, y, h) = Disguised(SliceForm(l, owt, isi, channels, y, h), o, z)
      BY <1>1, <1>2 DEF SliceForm, Disguised, IsRecord, Fields
    <2> QED BY <2>2, <2>3, <2>4
  <1>6. ASSUME NEW axis, NEW n
        PROVE  TileContext(d, axis, n) = TileContext(l, axis, n)
    BY <1>1 DEF TileContext
  <1> QED BY <1>3, <1>4, <1>5, <1>6 DEF d

-----------------------------------------------------------------------------
(* Sets of numbers. *)

(* A set of natural numbers has a least one. *)
LEMMA LeastNumber ==
    ASSUME NEW S \in SUBSET Nat, S # {}
    PROVE  Min(S) \in S /\ \A y \in S : Min(S) <= y
  <1> DEFINE R == {p \in Nat \X Nat : p[1] < p[2]}
  <1>1. R = OpToRel(<, Nat)
    BY Zenon DEF OpToRel
  <1>2. IsWellFoundedOn(R, Nat)
    BY <1>1, NatLessThanWellFounded, Zenon
  <1>3. \E x \in S : \A y \in S : ~(<<y, x>> \in R)
    <2> HIDE DEF R
    <2> QED BY <1>2, WFMin
  <1>4. \E x \in S : \A y \in S : x <= y
    <2>1. PICK x \in S : \A y \in S : ~(<<y, x>> \in R)
      BY <1>3
    <2>2. \A y \in S : ~(y < x)
      BY <2>1
    <2> QED BY <2>2
  <1> QED BY <1>4 DEF Min

(* Induction, for the numbers up to n. *)
LEMMA UpTo_n ==
    ASSUME NEW n \in Nat, NEW S, 0 \in S, \A m \in 0..(n - 1) : m \in S => m + 1 \in S
    PROVE  0..n \subseteq S
  <1> DEFINE T == {m \in 0..n : m \notin S}
  <1>1. SUFFICES ASSUME T # {}
                 PROVE  FALSE
    OBVIOUS
  <1>2. T \in SUBSET Nat
    OBVIOUS
  <1> DEFINE m == Min(T)
  <1>3. m \in T /\ \A y \in T : m <= y
    <2> HIDE DEF T
    <2> QED BY <1>1, <1>2, LeastNumber
  <1> HIDE DEF m
  <1>4. m # 0 /\ m - 1 \in 0..(n - 1) /\ m - 1 \notin T
    BY <1>3
  <1>5. m - 1 \in S /\ m - 1 + 1 = m
    BY <1>3, <1>4
  <1> QED BY <1>3, <1>4, <1>5

(* Sets of some of the numbers 1..n are finite. *)
LEMMA SomeOf ==
    ASSUME NEW n \in Nat, NEW S \in SUBSET (1..n)
    PROVE  IsFiniteSet(S) /\ Cardinality(S) \in Nat
  <1>1. IsFiniteSet(1..n)
    BY FS_Interval
  <1>2. IsFiniteSet(S)
    BY <1>1, FS_Subset
  <1> QED BY <1>2, FS_CardinalityType

(* Among some of the numbers 1..n there is a k-th one. *)
LEMMA NthExists ==
    ASSUME NEW n \in Nat, NEW S \in SUBSET (1..n), NEW k \in 1..Cardinality(S)
    PROVE  \E i \in S : Cardinality({j \in S : j <= i}) = k
  <1> DEFINE B(m) == {j \in S : j <= m}
             T == {m \in Nat : Cardinality(B(m)) >= k}
  <1>1. \A j \in S : j \in Nat /\ 1 <= j /\ j <= n
    OBVIOUS
  <1>2. Cardinality(S) \in Nat /\ k \in Nat /\ 1 <= k /\ k <= Cardinality(S)
    BY SomeOf
  <1>3. ASSUME NEW m
        PROVE  IsFiniteSet(B(m)) /\ Cardinality(B(m)) \in Nat
    <2>1. B(m) \in SUBSET (1..n)
      OBVIOUS
    <2> HIDE DEF B
    <2> QED BY <2>1, SomeOf
  <1>4. B(n) = S
    BY <1>1
  <1>5. Cardinality(B(0)) = 0
    <2>0. \A j \in S : ~(j <= 0)
      BY <1>1
    <2>1. B(0) = {}
      BY <2>0
    <2> HIDE DEF B
    <2> QED BY <2>1, FS_EmptySet
  <1>6. ASSUME NEW m \in Nat \ {0}
        PROVE  /\ m \notin S => B(m) = B(m - 1)
               /\ m \in S => B(m) = B(m - 1) \cup {m} /\ m \notin B(m - 1)
    <2>1. \A j \in S : j <= m <=> j <= m - 1 \/ j = m
      BY <1>1
    <2>2. ~(m <= m - 1)
      OBVIOUS
    <2> QED BY <2>1, <2>2
  <1> HIDE DEF B
  <1>7. T \in SUBSET Nat /\ n \in T
    BY <1>2, <1>4
  <1> DEFINE m == Min(T)
  <1>8. m \in T /\ \A y \in T : m <= y
    <2> HIDE DEF T
    <2> QED BY <1>7, LeastNumber
  <1> HIDE DEF m
  <1>9. m \in Nat /\ m # 0 /\ Cardinality(B(m)) >= k
    <2>1. 0 \notin T
      BY <1>2, <1>5
    <2> QED BY <1>8, <2>1
  <1>10. m - 1 \in Nat /\ Cardinality(B(m - 1)) < k
    <2>1. m - 1 \in Nat /\ m - 1 \notin T
      BY <1>8, <1>9
    <2>2. Cardinality(B(m - 1)) \in Nat
      BY <1>3
    <2> QED BY <1>2, <2>1, <2>2
  <1>11. m \in S
    <2>1. CASE m \notin S
      <3>1. B(m) = B(m - 1)
        BY <1>6, <1>9, <2>1
      <3>2. Cardinality(B(m)) \in Nat /\ Cardinality(B(m - 1)) = Cardinality(B(m))
        BY <1>3, <3>1
      <3> QED BY <1>2, <1>9, <1>10, <3>2
    <2> QED BY <2>1
  <1>12. Cardinality(B(m)) = Cardinality(B(m - 1)) + 1
    <2> DEFINE C == B(m - 1)
    <2>1. B(m) = C \cup {m} /\ m \notin C /\ IsFiniteSet(C)
      BY <1>3, <1>6, <1>9, <1>11
    <2> HIDE DEF C
    <2> QED BY <2>1, FS_AddElement DEF C
  <1>13. Cardinality(B(m)) = k
    <2>1. Cardinality(B(m)) \in Nat /\ Cardinality(B(m - 1)) \in Nat
      BY <1>3
    <2> QED BY <1>2, <1>9, <1>10, <1>12, <2>1
  <1> QED BY <1>11, <1>13 DEF B

-----------------------------------------------------------------------------
(* The tiles that are left. *)

(* The tiles that produce something. *)
Kept(tiles) == {i \in DOMAIN tiles : size(tiles[i].out) # 0}

(* Of n tiles those that produce something are left, in a sequence.        *)
LEMMA TilesLeft ==
    ASSUME NEW n \in Nat, NEW tiles, DOMAIN tiles = 1..n
    PROVE  LET left == remove_empty_tiles(tiles)
           IN  /\ Cardinality(Kept(tiles)) \in Nat
               /\ DOMAIN left = 1..Cardinality(Kept(tiles)) /\ Len(left) = Cardinality(Kept(tiles))
               /\ left = [k \in DOMAIN left |-> left[k]]
               /\ \A k \in DOMAIN left : \E i \in Kept(tiles) : left[k] = tiles[i]
  <1> DEFINE kept == Kept(tiles)
             Nth(k) == CHOOSE i \in kept : Cardinality({j \in kept : j <= i}) = k
             left == remove_empty_tiles(tiles)
  <1>1. kept \in SUBSET (1..n)
    BY DEF Kept
  <1>2. Cardinality(kept) \in Nat
    <2> HIDE DEF kept
    <2> QED BY <1>1, SomeOf
  <1>3. left = [k \in 1..Cardinality(kept) |-> tiles[Nth(k)]]
    BY DEF remove_empty_tiles, Kept
  <1> HIDE DEF kept
  <1>4. ASSUME NEW k \in 1..Cardinality(kept)
        PROVE  Nth(k) \in kept
    <2>1. \E i \in kept : Cardinality({j \in kept : j <= i}) = k
      BY <1>1, <1>4, NthExists
    <2> QED BY <2>1
  <1> HIDE DEF Nth, left
  <1>5. DOMAIN left = 1..Cardinality(kept) /\ Len(left) = Cardinality(kept)
    BY <1>2, <1>3
  <1>6. \A k \in DOMAIN left : left[k] = tiles[Nth(k)]
    BY <1>3
  <1> QED BY <1>2, <1>3, <1>4, <1>5, <1>6 DEF kept, left

(* Where the empty tiles are the last ones, the others are left as they are. *)
LEMMA FirstTilesLeft ==
    ASSUME NEW n \in Nat, NEW tiles, DOMAIN tiles = 1..n, NEW m \in 0..n, Kept(tiles) = 1..m
    PROVE  remove_empty_tiles(tiles) = [k \in 1..m |-> tiles[k]]
  <1> DEFINE kept == Kept(tiles)
             Nth(k) == CHOOSE i \in kept : Cardinality({j \in kept : j <= i}) = k
  <1>1. Cardinality(1..m) = m
    BY FS_Interval
  <1>2. remove_empty_tiles(tiles) = [k \in 1..m |-> tiles[Nth(k)]]
    BY <1>1 DEF remove_empty_tiles, Kept
  <1>3. ASSUME NEW k \in 1..m
        PROVE  Nth(k) = k
    <2>1. \A i \in 1..m : {j \in 1..m : j <= i} = 1..i
      OBVIOUS
    <2>2. \A i \in 1..m : Cardinality(1..i) = i
      BY FS_Interval
    <2>3. \A i \in kept : Cardinality({j \in kept : j <= i}) = i
      BY <2>1, <2>2
    <2>4. k \in kept /\ \A i \in kept : Cardinality({j \in kept : j <= i}) = k <=> i = k
      BY <2>3
    <2>5. \E i \in kept : Cardinality({j \in kept : j <= i}) = k
      BY <2>4
    <2>6. Nth(k) \in kept /\ Cardinality({j \in kept : j <= Nth(k)}) = k
      BY <2>5, Zenon
    <2> HIDE DEF Nth, kept
    <2> QED BY <2>4, <2>6
  <1> HIDE DEF Nth
  <1> QED BY <1>2, <1>3

-----------------------------------------------------------------------------
(* Splits of a layer in disguise. *)

(* The same operation and swizzlings in every tile. *)
InDisguise(tiles, o, z) == [k \in DOMAIN tiles |-> Disguised(tiles[k], o, z)]

(* To remove the empty tiles does not depend on the disguise. *)
LEMMA RemovalDisguised ==
    ASSUME NEW n \in Nat, NEW tiles, DOMAIN tiles = 1..n, \A i \in 1..n : IsRecord(tiles[i]), NEW o, NEW z
    PROVE  remove_empty_tiles(InDisguise(tiles, o, z)) = InDisguise(remove_empty_tiles(tiles), o, z)
  <1> DEFINE d == InDisguise(tiles, o, z)
             kept == Kept(tiles)
             Nth(k) == CHOOSE i \in kept : Cardinality({j \in kept : j <= i}) = k
             left == remove_empty_tiles(tiles)
  <1>1. DOMAIN d = 1..n /\ \A i \in 1..n : d[i] = Disguised(tiles[i], o, z) /\ d[i].out = tiles[i].out
    BY DisguiseKeeps DEF InDisguise
  <1>2. Kept(d) = kept /\ kept \in SUBSET (1..n)
    <2> HIDE DEF d
    <2> QED BY <1>1 DEF Kept
  <1>3. left = [k \in 1..Cardinality(kept) |-> tiles[Nth(k)]]
    BY DEF remove_empty_tiles, Kept
  <1>4. remove_empty_tiles(d) = [k \in 1..Cardinality(kept) |-> d[Nth(k)]]
    <2> HIDE DEF d, kept
    <2>1. remove_empty_tiles(d) =
              [k \in 1..Cardinality(Kept(d)) |->
                  d[CHOOSE i \in Kept(d) : Cardinality({j \in Kept(d) : j <= i}) = k]]
      BY DEF remove_empty_tiles, Kept
    <2> QED BY <1>2, <2>1, Zenon
  <1> HIDE DEF d, kept
  <1>5. ASSUME NEW k \in 1..Cardinality(kept)
        PROVE  Nth(k) \in 1..n
    <2>1. \E i \in kept : Cardinality({j \in kept : j <= i}) = k
      BY <1>2, <1>5, NthExists
    <2>2. Nth(k) \in kept
      BY <2>1
    <2> QED BY <1>2, <2>2
  <1> HIDE DEF Nth, left
  <1>6. InDisguise(left, o, z) = [k \in 1..Cardinality(kept) |-> Disguised(tiles[Nth(k)], o, z)]
    BY <1>3 DEF InDisguise
  <1>7. \A k \in 1..Cardinality(kept) : d[Nth(k)] = Disguised(tiles[Nth(k)], o, z)
    BY <1>1, <1>5
  <1>8. remove_empty_tiles(d) = InDisguise(left, o, z)
    BY <1>4, <1>6, <1>7
  <1> QED BY <1>8 DEF d, left

(* Nor does the limit of the broadcast. *)
LEMMA BroadcastDisguised ==
    ASSUME NEW m \in Nat, NEW tiles, DOMAIN tiles = 1..m, Len(tiles) = m,
           \A i \in 1..m : IsRecord(tiles[i]), NEW o, NEW z, NEW force, NEW n
    PROVE  LimitBroadcast(InDisguise(tiles, o, z), force, n) = InDisguise(LimitBroadcast(tiles, force, n), o, z)
  <1> DEFINE d == InDisguise(tiles, o, z)
  <1>1. DOMAIN d = 1..m /\ d = [i \in 1..m |-> Disguised(tiles[i], o, z)]
    BY DEF InDisguise
  <1>2. Len(d) = m
    BY <1>1
  <1> HIDE DEF d
  <1>3. CASE force /\ m < n
    <2>1. LimitBroadcast(d, force, n) = [i \in 1..m |-> [d[i] EXCEPT !.owt = m]]
      BY <1>1, <1>2, <1>3 DEF LimitBroadcast
    <2>2. LimitBroadcast(tiles, force, n) = [i \in 1..m |-> [tiles[i] EXCEPT !.owt = m]]
      BY <1>3 DEF LimitBroadcast
    <2>3. \A i \in 1..m : [d[i] EXCEPT !.owt = m] = Disguised([tiles[i] EXCEPT !.owt = m], o, z)
      <3> TAKE i \in 1..m
      <3> DEFINE t == tiles[i]
      <3>1. d[i] = [t EXCEPT !.op = o, !.swizzling = z] /\ IsRecord(t)
        BY <1>1 DEF Disguised
      <3> HIDE DEF t
      <3> QED BY <3>1 DEF Disguised, t, IsRecord, Fields
    <2>4. InDisguise(LimitBroadcast(tiles, force, n), o, z) = [i \in 1..m |-> Disguised([tiles[i] EXCEPT !.owt = m], o, z)]
      BY <2>2 DEF InDisguise
    <2> QED BY <2>1, <2>3, <2>4 DEF d
  <1>4. CASE ~(force /\ m < n)
    BY <1>2, <1>4 DEF LimitBroadcast, d
  <1> QED BY <1>3, <1>4

(* A layer whose tensors and halo are records too. *)
IsLayer(l) ==
    /\ IsRecord(l) /\ {"w", "h", "c"} \subseteq DOMAIN l.in /\ {"w", "h", "c"} \subseteq DOMAIN l.out
    /\ "inbound" \in DOMAIN l.halo

(* The strategies that splitAcrossTiles has a splitter for, but for NONE. *)
Supports(strategy) ==
    strategy \in {"SOH_Overlapped", "SOHO_K_SWITCH", "SOK", "SOK_NO_BROADCAST", "SOH_HaloRead", "SOW"}

(* Those that force the broadcast. *)
Forces(strategy) == strategy \in {"SOHO_K_SWITCH", "SOK"}

(* The channels of a slice. *)
MaxSlice(l, n) == round_up(ceil_division(l.out.c, n), IF l.autopad THEN 1 ELSE 16)

(* The tiles of a split before the empty ones are removed. *)
RawTile(l, strategy, n, i) ==
    CASE strategy = "SOH_HaloRead" -> HALO_tile(l, TileContext(l, Axis_H, n), i)
      [] strategy \in {"SOK", "SOK_NO_BROADCAST"} ->
            SOK_tile(l, WrittenTiles(l, n, Forces(strategy)),
                     IF Forces(strategy) THEN "SPLIT_OVER_K" ELSE "CLUSTERING",
                     Remaining(l.out.c, MaxSlice(l, n), i), Slice(l.out.c, MaxSlice(l, n), i))
      [] strategy = "SOW" ->
            overlapped_tile(l, Axis_W, WrittenTiles(l, n, FALSE), TileContext(l, Axis_W, n)[i])
      [] OTHER ->
            overlapped_tile(l, Axis_H, WrittenTiles(l, n, Forces(strategy)), TileContext(l, Axis_H, n)[i])

(* All n of them. *)
RawTiles(l, strategy, n) == [i \in 1..n |-> RawTile(l, strategy, n, i)]

(* Every split makes its tiles, drops the empty ones and limits the        *)
(* broadcast (splitAcrossTiles).                                           *)
LEMMA SplitIs ==
    ASSUME NEW l, NEW strategy, NEW n
    PROVE  splitAcrossTiles(l, strategy, n) =
               IF strategy = "NONE" THEN [i \in 1..n |-> [l EXCEPT !.isi = "CLUSTERING"]]
               ELSE IF Supports(strategy)
               THEN LimitBroadcast(remove_empty_tiles(RawTiles(l, strategy, n)), Forces(strategy), n)
               ELSE <<>>
  <1>1. CASE strategy = "NONE"
    BY <1>1 DEF splitAcrossTiles, clustering
  <1>2. CASE strategy = "SOH_Overlapped"
    <2>0. Forces(strategy) = FALSE
      BY <1>2 DEF Forces
    <2>1. RawTiles(l, strategy, n)
              = [i \in 1..n |-> overlapped_tile(l, Axis_H, WrittenTiles(l, n, FALSE), TileContext(l, Axis_H, n)[i])]
      BY <1>2, <2>0 DEF RawTiles, RawTile
    <2>2. Supports(strategy) /\ strategy # "NONE"
      BY <1>2 DEF Supports
    <2> QED BY <1>2, <2>0, <2>1, <2>2 DEF splitAcrossTiles, SOH_overlapped_inputs, overlapped_inputs
  <1>3. CASE strategy = "SOHO_K_SWITCH"
    <2>1. RawTiles(l, strategy, n)
              = [i \in 1..n |-> overlapped_tile(l, Axis_H, WrittenTiles(l, n, TRUE), TileContext(l, Axis_H, n)[i])]
      BY <1>3 DEF RawTiles, RawTile, Forces
    <2> QED BY <1>3, <2>1 DEF splitAcrossTiles, SOH_overlapped_inputs, overlapped_inputs, Supports, Forces
  <1>4. CASE strategy = "SOK"
    <2>1. RawTiles(l, strategy, n)
              = [i \in 1..n |-> SOK_tile(l, WrittenTiles(l, n, TRUE), "SPLIT_OVER_K",
                                         Remaining(l.out.c, MaxSlice(l, n), i), Slice(l.out.c, MaxSlice(l, n), i))]
      BY <1>4 DEF RawTiles, RawTile, Forces
    <2> QED BY <1>4, <2>1 DEF splitAcrossTiles, SOK, SOK_Variants, MaxSlice, Supports, Forces
  <1>5. CASE strategy = "SOK_NO_BROADCAST"
    <2>0. Forces(strategy) = FALSE
      BY <1>5 DEF Forces
    <2>1. RawTiles(l, strategy, n)
              = [i \in 1..n |-> SOK_tile(l, WrittenTiles(l, n, FALSE), "CLUSTERING",
                                         Remaining(l.out.c, MaxSlice(l, n), i), Slice(l.out.c, MaxSlice(l, n), i))]
      BY <1>5, <2>0 DEF RawTiles, RawTile
    <2>2. Supports(strategy) /\ strategy # "NONE"
      BY <1>5 DEF Supports
    <2> QED BY <1>5, <2>0, <2>1, <2>2 DEF splitAcrossTiles, SOK_no_broadcast, SOK_Variants, MaxSlice
  <1>6. CASE strategy = "SOH_HaloRead"
    <2> DEFINE ctx == TileContext(l, Axis_H, n)
    <2>1. DOMAIN ctx = 1..n
      BY DEF TileContext
    <2> HIDE DEF ctx
    <2>2. RawTiles(l, strategy, n) = [i \in DOMAIN ctx |-> HALO_tile(l, ctx, i)]
      BY <1>6, <2>1 DEF RawTiles, RawTile, ctx
    <2>3. splitAcrossTiles(l, strategy, n) = remove_empty_tiles([i \in DOMAIN ctx |-> HALO_tile(l, ctx, i)])
      BY <1>6 DEF splitAcrossTiles, SOH_HALO_inputs, SOH_HALO_tiles, ctx
    <2> QED BY <1>6, <2>2, <2>3 DEF LimitBroadcast, Supports, Forces
  <1>7. CASE strategy = "SOW"
    <2>0. Forces(strategy) = FALSE
      BY <1>7 DEF Forces
    <2>1. RawTiles(l, strategy, n)
              = [i \in 1..n |-> overlapped_tile(l, Axis_W, WrittenTiles(l, n, FALSE), TileContext(l, Axis_W, n)[i])]
      BY <1>7, <2>0 DEF RawTiles, RawTile
    <2>2. Supports(strategy) /\ strategy # "NONE"
      BY <1>7 DEF Supports
    <2> QED BY <1>7, <2>0, <2>1, <2>2 DEF splitAcrossTiles, SOW_overlapped_inputs, overlapped_inputs
  <1>8. CASE strategy # "NONE" /\ ~Supports(strategy)
    BY <1>8 DEF splitAcrossTiles, Supports
  <1> QED BY <1>1, <1>2, <1>3, <1>4, <1>5, <1>6, <1>7, <1>8 DEF Supports

(* What a tile has from its layer. *)
Inherits(t, l) ==
    /\ IsRecord(t) /\ DOMAIN t = DOMAIN l
    /\ t.op = l.op /\ t.swizzling = l.swizzling /\ t.device = l.device /\ t.in_autopad = l.in_autopad
    /\ l.op = "CONVOLUTION" => t.in.c = l.in.c

(* Every tile inherits what Prepared looks at from its layer. *)
LEMMA RawTilesInherit ==
    ASSUME NEW l, IsLayer(l), NEW strategy, NEW n, NEW i
    PROVE  Inherits(RawTile(l, strategy, n, i), l)
  <1>1. ASSUME NEW axis \in {Axis_H, Axis_W}, NEW owt, NEW c
        PROVE  Inherits(overlapped_tile(l, axis, owt, c), l)
    <2> DEFINE h == overlapped_halo(l, axis, owt, c)
               s == RescaleSEP(l.sep, axis, c.in, l.in[axis.dim])
    <2>1. overlapped_tile(l, axis, owt, c) = OverlappedForm(l, axis, owt, c, h, s)
      BY OverlappedFields DEF IsLayer
    <2>2. axis.dim \in {"w", "h"}
      BY DEF Axis_H, Axis_W
    <2> HIDE DEF h, s
    <2> DEFINE d == axis.dim
               y == [l.in EXCEPT ![d] = c.in]
    <2>3. y.c = l.in.c
      BY <2>2 DEF IsLayer
    <2> HIDE DEF y
    <2>4. /\ OverlappedForm(l, axis, owt, c, h, s).in = y
          /\ IsRecord(OverlappedForm(l, axis, owt, c, h, s))
          /\ DOMAIN OverlappedForm(l, axis, owt, c, h, s) = DOMAIN l
          /\ OverlappedForm(l, axis, owt, c, h, s).op = l.op
          /\ OverlappedForm(l, axis, owt, c, h, s).swizzling = l.swizzling
          /\ OverlappedForm(l, axis, owt, c, h, s).device = l.device
          /\ OverlappedForm(l, axis, owt, c, h, s).in_autopad = l.in_autopad
      BY DEF OverlappedForm, y, IsLayer, IsRecord, Fields
    <2> QED BY <2>1, <2>3, <2>4 DEF Inherits
  <1>2. ASSUME NEW ctx
        PROVE  Inherits(HALO_tile(l, ctx, i), l)
    <2> DEFINE h == HALO_halo(l, ctx, i)
               c == ctx[i]
               y == [l.in EXCEPT !["h"] = c.in]
    <2>1. HALO_tile(l, ctx, i) = HaloForm(l, c, h)
      BY HaloFields DEF IsLayer
    <2>2. y.c = l.in.c
      BY DEF IsLayer
    <2> HIDE DEF h, c
    <2>3. HaloForm(l, c, h).in = y
      BY DEF HaloForm, IsLayer, IsRecord, Fields
    <2> HIDE DEF y
    <2>4. /\ IsRecord(HaloForm(l, c, h)) /\ DOMAIN HaloForm(l, c, h) = DOMAIN l
          /\ HaloForm(l, c, h).op = l.op /\ HaloForm(l, c, h).swizzling = l.swizzling
          /\ HaloForm(l, c, h).device = l.device /\ HaloForm(l, c, h).in_autopad = l.in_autopad
      BY DEF HaloForm, IsLayer, IsRecord, Fields
    <2> QED BY <2>1, <2>2, <2>3, <2>4 DEF Inherits
  <1>3. ASSUME NEW owt, NEW isi, NEW remaining, NEW channels
        PROVE  Inherits(SOK_tile(l, owt, isi, remaining, channels), l)
    <2> DEFINE y == SliceInput(l, channels)
               h == SliceHalo(l, owt, remaining, channels)
    <2>1. SOK_tile(l, owt, isi, remaining, channels) = SliceForm(l, owt, isi, channels, y, h)
      BY SOKFields DEF IsLayer
    <2>2. l.op = "CONVOLUTION" => y.c = l.in.c
      BY DEF SliceInput
    <2> HIDE DEF y, h
    <2>3. /\ IsRecord(SliceForm(l, owt, isi, channels, y, h)) /\ DOMAIN SliceForm(l, owt, isi, channels, y, h) = DOMAIN l
          /\ SliceForm(l, owt, isi, channels, y, h).op = l.op
          /\ SliceForm(l, owt, isi, channels, y, h).swizzling = l.swizzling
          /\ SliceForm(l, owt, isi, channels, y, h).device = l.device
          /\ SliceForm(l, owt, isi, channels, y, h).in_autopad = l.in_autopad
          /\ SliceForm(l, owt, isi, channels, y, h).in = y
      BY DEF SliceForm, IsLayer, IsRecord, Fields
    <2> QED BY <2>1, <2>2, <2>3 DEF Inherits
  <1> QED BY <1>1, <1>2, <1>3 DEF RawTile

(* A sequence of m elements. *)
IsSequence(s, m) == s = [i \in 1..m |-> s[i]] /\ DOMAIN s = 1..m /\ Len(s) = m

(* The tiles of a split: a sequence of tiles of the layer. *)
LEMMA SplitInherits ==
    ASSUME NEW l, IsLayer(l), NEW strategy, NEW n \in Nat
    PROVE  LET tiles == splitAcrossTiles(l, strategy, n)
           IN  \E m \in Nat : IsSequence(tiles, m) /\ \A i \in 1..m : Inherits(tiles[i], l)
  <1> DEFINE tiles == splitAcrossTiles(l, strategy, n)
  <1> USE DEF IsSequence
  <1> SUFFICES \E m \in Nat : IsSequence(tiles, m) /\ \A i \in 1..m : Inherits(tiles[i], l)
    OBVIOUS
  <1>1. CASE strategy = "NONE"
    <2>1. tiles = [i \in 1..n |-> [l EXCEPT !.isi = "CLUSTERING"]]
      BY <1>1, SplitIs
    <2> DEFINE t == [l EXCEPT !.isi = "CLUSTERING"]
    <2>2. Inherits(t, l)
      BY DEF Inherits, IsLayer, IsRecord, Fields
    <2> HIDE DEF t, tiles
    <2>3. /\ tiles = [i \in 1..n |-> tiles[i]] /\ DOMAIN tiles = 1..n /\ Len(tiles) = n
          /\ \A i \in 1..n : tiles[i] = t
      BY <2>1 DEF t
    <2> QED BY <2>2, <2>3
  <1>2. CASE strategy # "NONE" /\ Supports(strategy)
    <2> DEFINE raw == RawTiles(l, strategy, n)
               left == remove_empty_tiles(raw)
               m == Cardinality(Kept(raw))
    <2>1. tiles = LimitBroadcast(left, Forces(strategy), n)
      BY <1>2, SplitIs
    <2>2. DOMAIN raw = 1..n /\ \A i \in 1..n : Inherits(raw[i], l)
      BY RawTilesInherit DEF RawTiles
    <2> HIDE DEF raw
    <2>3. /\ m \in Nat /\ DOMAIN left = 1..m /\ Len(left) = m /\ left = [k \in DOMAIN left |-> left[k]]
          /\ \A k \in DOMAIN left : \E i \in Kept(raw) : left[k] = raw[i]
      BY <2>2, TilesLeft
    <2>4. \A k \in 1..m : Inherits(left[k], l)
      BY <2>2, <2>3 DEF Kept
    <2> HIDE DEF left, m, tiles
    <2>5. CASE Forces(strategy) /\ m < n
      <3>1. tiles = [i \in 1..m |-> [left[i] EXCEPT !.owt = m]]
        BY <2>1, <2>3, <2>5 DEF LimitBroadcast
      <3>2. ASSUME NEW i \in 1..m
            PROVE  Inherits(tiles[i], l)
        <4> DEFINE t == left[i]
        <4>1. tiles[i] = [t EXCEPT !.owt = m] /\ Inherits(t, l)
          BY <2>4, <3>1
        <4> HIDE DEF t
        <4>2. "owt" # "in" /\ [t EXCEPT !.owt = m].in = t.in
          BY <4>1 DEF Inherits, IsRecord, Fields
        <4>3. IsRecord([t EXCEPT !.owt = m]) /\ DOMAIN [t EXCEPT !.owt = m] = DOMAIN l
          BY <4>1 DEF Inherits, IsRecord
        <4> QED BY <4>1, <4>2, <4>3 DEF Inherits, IsRecord, Fields
      <3>3. tiles = [i \in 1..m |-> tiles[i]] /\ DOMAIN tiles = 1..m /\ Len(tiles) = m
        BY <2>3, <3>1
      <3> QED BY <2>3, <3>2, <3>3
    <2>6. CASE ~(Forces(strategy) /\ m < n)
      <3>1. tiles = left
        BY <2>1, <2>3, <2>6 DEF LimitBroadcast
      <3> QED BY <2>3, <2>4, <3>1
    <2> QED BY <2>5, <2>6
  <1>3. CASE strategy # "NONE" /\ ~Supports(strategy)
    <2>1. tiles = <<>>
      BY <1>3, SplitIs
    <2> HIDE DEF tiles
    <2>2. /\ tiles = [i \in 1..0 |-> tiles[i]] /\ DOMAIN tiles = 1..0 /\ Len(tiles) = 0
          /\ \A i \in 1..0 : Inherits(tiles[i], l)
      BY <2>1
    <2> QED BY <2>2
  <1> QED BY <1>1, <1>2, <1>3

(* A split of the layer in disguise is the split of the layer, in disguise. *)
LEMMA SplitDisguised ==
    ASSUME NEW l, IsLayer(l), NEW strategy, NEW n \in Nat, NEW o, NEW z,
           o \in {"CONVOLUTION", "CM_CONVOLUTION"} <=> l.op \in {"CONVOLUTION", "CM_CONVOLUTION"}
    PROVE  splitAcrossTiles(Disguised(l, o, z), strategy, n) = InDisguise(splitAcrossTiles(l, strategy, n), o, z)
  <1> DEFINE d == Disguised(l, o, z)
  <1>1. CASE strategy = "NONE"
    <2> DEFINE t == [l EXCEPT !.isi = "CLUSTERING"]
    <2>1. splitAcrossTiles(d, strategy, n) = [i \in 1..n |-> [d EXCEPT !.isi = "CLUSTERING"]]
      BY <1>1, SplitIs
    <2>2. splitAcrossTiles(l, strategy, n) = [i \in 1..n |-> t]
      BY <1>1, SplitIs
    <2>3. [d EXCEPT !.isi = "CLUSTERING"] = Disguised(t, o, z)
      BY DEF Disguised, IsLayer, IsRecord, Fields
    <2> HIDE DEF d, t
    <2>4. InDisguise(splitAcrossTiles(l, strategy, n), o, z) = [i \in 1..n |-> Disguised(t, o, z)]
      BY <2>2 DEF InDisguise
    <2>5. splitAcrossTiles(d, strategy, n) = InDisguise(splitAcrossTiles(l, strategy, n), o, z)
      BY <2>1, <2>3, <2>4
    <2> QED BY <2>5 DEF d
  <1>2. CASE strategy # "NONE" /\ Supports(strategy)
    <2> DEFINE raw == RawTiles(l, strategy, n)
               left == remove_empty_tiles(raw)
               m == Cardinality(Kept(raw))
               f == Forces(strategy)
    <2>1. /\ splitAcrossTiles(l, strategy, n) = LimitBroadcast(left, f, n)
          /\ splitAcrossTiles(d, strategy, n) = LimitBroadcast(remove_empty_tiles(RawTiles(d, strategy, n)), f, n)
      BY <1>2, SplitIs
    <2>2. RawTiles(d, strategy, n) = InDisguise(raw, o, z)
      <3>1. /\ \A axis, owt, c : overlapped_tile(d, axis, owt, c) = Disguised(overlapped_tile(l, axis, owt, c), o, z)
            /\ \A ctx, i : HALO_tile(d, ctx, i) = Disguised(HALO_tile(l, ctx, i), o, z)
            /\ \A owt, isi, remaining, channels :
                  SOK_tile(d, owt, isi, remaining, channels)
                      = Disguised(SOK_tile(l, owt, isi, remaining, channels), o, z)
            /\ \A axis : TileContext(d, axis, n) = TileContext(l, axis, n)
        BY TilesDisguised DEF IsLayer
      <3>2. d.out = l.out /\ d.autopad = l.autopad /\ d.owt = l.owt
        BY DisguiseKeeps DEF IsLayer
      <3> HIDE DEF d
      <3>3. MaxSlice(d, n) = MaxSlice(l, n) /\ \A g : WrittenTiles(d, n, g) = WrittenTiles(l, n, g)
        BY <3>2 DEF MaxSlice, WrittenTiles
      <3>4. ASSUME NEW i
            PROVE  RawTile(d, strategy, n, i) = Disguised(RawTile(l, strategy, n, i), o, z)
        <4>1. CASE strategy = "SOH_HaloRead"
          BY <3>1, <4>1 DEF RawTile
        <4>2. CASE strategy \in {"SOK", "SOK_NO_BROADCAST"}
          <5> DEFINE S(x) == SOK_tile(x, WrittenTiles(x, n, Forces(strategy)),
                                      IF Forces(strategy) THEN "SPLIT_OVER_K" ELSE "CLUSTERING",
                                      Remaining(x.out.c, MaxSlice(x, n), i), Slice(x.out.c, MaxSlice(x, n), i))
          <5>1. strategy # "SOH_HaloRead"
            BY <4>2
          <5>2. RawTile(d, strategy, n, i) = S(d) /\ RawTile(l, strategy, n, i) = S(l)
            BY <4>2, <5>1 DEF RawTile
          <5>3. S(d) = Disguised(S(l), o, z)
            <6> DEFINE w == WrittenTiles(l, n, Forces(strategy))
                       e == IF Forces(strategy) THEN "SPLIT_OVER_K" ELSE "CLUSTERING"
                       r == Remaining(l.out.c, MaxSlice(l, n), i)
                       c == Slice(l.out.c, MaxSlice(l, n), i)
            <6>1. S(d) = SOK_tile(d, w, e, r, c) /\ S(l) = SOK_tile(l, w, e, r, c)
              BY <3>2, <3>3
            <6> HIDE DEF w, e, r, c
            <6>2. SOK_tile(d, w, e, r, c) = Disguised(SOK_tile(l, w, e, r, c), o, z)
              BY <3>1
            <6> QED BY <6>1, <6>2
          <5> QED BY <5>2, <5>3
        <4>3. CASE strategy = "SOW"
          BY <3>1, <3>3, <4>3 DEF RawTile
        <4>4. CASE strategy \notin {"SOH_HaloRead", "SOK", "SOK_NO_BROADCAST", "SOW"}
          BY <3>1, <3>3, <4>4 DEF RawTile
        <4> QED BY <4>1, <4>2, <4>3, <4>4
      <3> QED BY <3>4 DEF RawTiles, InDisguise
    <2>3. DOMAIN raw = 1..n /\ \A i \in 1..n : Inherits(raw[i], l)
      BY RawTilesInherit DEF RawTiles
    <2>4. \A i \in 1..n : IsRecord(raw[i])
      BY <2>3 DEF Inherits
    <2> HIDE DEF raw, d
    <2>5. remove_empty_tiles(InDisguise(raw, o, z)) = InDisguise(left, o, z)
      BY <2>3, <2>4, RemovalDisguised
    <2>6. /\ m \in Nat /\ DOMAIN left = 1..m /\ Len(left) = m
          /\ \A k \in DOMAIN left : \E i \in Kept(raw) : left[k] = raw[i]
      BY <2>3, TilesLeft
    <2>7. \A k \in 1..m : IsRecord(left[k])
      BY <2>3, <2>4, <2>6 DEF Kept
    <2> HIDE DEF left, m, f
    <2>8. LimitBroadcast(InDisguise(left, o, z), f, n) = InDisguise(LimitBroadcast(left, f, n), o, z)
      BY <2>6, <2>7, BroadcastDisguised
    <2>9. splitAcrossTiles(d, strategy, n) = InDisguise(splitAcrossTiles(l, strategy, n), o, z)
      BY <2>1, <2>2, <2>5, <2>8 DEF left
    <2> QED BY <2>9 DEF d
  <1>3. CASE strategy # "NONE" /\ ~Supports(strategy)
    <2>1. splitAcrossTiles(l, strategy, n) = <<>> /\ splitAcrossTiles(d, strategy, n) = <<>>
      BY <1>3, SplitIs
    <2>2. InDisguise(<<>>, o, z) = <<>>
      BY DEF InDisguise
    <2> QED BY <2>1, <2>2
  <1> QED BY <1>1, <1>2, <1>3

(* Layer sanitizes and then splits, the caller of LayersPreSplit splits    *)
(* and has the tiles sanitized: the tiles are the same.                    *)
LEMMA PreparingCommutes ==
    ASSUME NEW l, IsLayer(l), NEW strategy, NEW n \in Nat
    PROVE  LET tiles == splitAcrossTiles(l, strategy, n)
           IN  [i \in DOMAIN tiles |-> Prepared(tiles[i])] = splitAcrossTiles(Prepared(l), strategy, n)
  <1> DEFINE tiles == splitAcrossTiles(l, strategy, n)
             o == OpOf(l)
             z == SwizzlingOf(l)
  <1>1. \A i \in DOMAIN tiles : Inherits(tiles[i], l)
    BY SplitInherits DEF IsSequence
  <1>2. Prepared(l) = Disguised(l, o, z)
    BY PreparedIs DEF IsLayer
  <1>3. o \in {"CONVOLUTION", "CM_CONVOLUTION"} <=> l.op \in {"CONVOLUTION", "CM_CONVOLUTION"}
    BY DEF OpOf
  <1>4. splitAcrossTiles(Prepared(l), strategy, n) = InDisguise(tiles, o, z)
    <2> HIDE DEF o, z
    <2> QED BY <1>2, <1>3, SplitDisguised
  <1>5. ASSUME NEW t, Inherits(t, l)
        PROVE  Prepared(t) = Disguised(t, o, z)
    <2>1. OpOf(t) = o
      BY <1>5 DEF OpOf, Inherits
    <2>2. SwizzlingOf(t) = z
      <3> DEFINE a(x) == IF AtLeast(x.device, "NPU_5_0") THEN [side \in DOMAIN x.swizzling |-> "KEY_0"] ELSE x.swizzling
                 b(x) == IF is_supported(x.device)
                         THEN [side \in DOMAIN a(x) |-> adapt_device_comaptible_swizzling(x.device, a(x)[side])]
                         ELSE a(x)
      <3>1. ASSUME NEW x, IsRecord(x)
            PROVE  SwizzlingOf(x) = b(x)
        <4> DEFINE y == swizzling_turn_OFF(x)
        <4>1. y.swizzling = a(x) /\ y.device = x.device /\ DOMAIN y = DOMAIN x
          BY <3>1 DEF swizzling_turn_OFF, IsRecord, Fields
        <4> HIDE DEF y, a
        <4>2. CASE is_supported(x.device)
          <5>1. SwizzlingAdapted(y) = [side \in DOMAIN a(x) |-> adapt_device_comaptible_swizzling(x.device, a(x)[side])]
            BY <4>1 DEF SwizzlingAdapted
          <5>2. sanitize_preconditions(y).swizzling = SwizzlingAdapted(y)
            BY <3>1, <4>1, <4>2 DEF sanitize_preconditions, IsRecord, Fields
          <5> QED BY <4>2, <5>1, <5>2 DEF SwizzlingOf, y
        <4>3. CASE ~is_supported(x.device)
          <5>1. sanitize_preconditions(y) = y
            BY <4>1, <4>3 DEF sanitize_preconditions
          <5> QED BY <4>1, <4>3, <5>1 DEF SwizzlingOf, y
        <4> QED BY <4>2, <4>3
      <3>2. b(t) = b(l)
        BY <1>5 DEF Inherits
      <3>3. IsRecord(t) /\ IsRecord(l)
        BY <1>5 DEF Inherits, IsLayer
      <3> QED BY <3>1, <3>2, <3>3
    <2> QED BY <1>5, <2>1, <2>2, PreparedIs DEF Inherits
  <1> HIDE DEF tiles, o, z
  <1>6. [i \in DOMAIN tiles |-> Prepared(tiles[i])] = InDisguise(tiles, o, z)
    BY <1>1, <1>5 DEF InDisguise
  <1> QED BY <1>4, <1>6 DEF tiles

-----------------------------------------------------------------------------
(* The inductive invariant of a call. *)

(* What intraTileSplit makes of a tile of the query. *)
TileResult(q, t) == intraTileSplit(q.regime, t, SplitOptions(q))

(* What a call that reaches its end answers. *)
LayerResult(q, tiles) == extractLargestTime({TileResult(q, tiles[i]).cost : i \in DOMAIN tiles})

(* The check of the whole layer. *)
Report(q, l) ==
    check_completeLayer_consistency(l, mapTilingStrategiesToWorkload(q.strategy), q.nTiles, q.strategy)

(* The layer is the sanitized one of the query, and one that has tiles was *)
(* found to be in order.                                                   *)
AskedAndChecked ==
    /\ stage \in {"idle", "split", "tiling", "done"}
    /\ stage # "idle" => query \in Queries /\ layer = Prepared(query.layer)
    /\ stage \in {"split", "tiling"} \/ tiles_layer # <<>> =>
          stage # "idle" /\ query.nTiles # 0 /\ Report(query, layer) = NO_ERROR

(* The tiles are those of the split, whoever made them. *)
TilesOfTheSplit ==
    /\ stage \in {"idle", "split"} => tiles_layer = <<>>
    /\ stage = "tiling" \/ tiles_layer # <<>> =>
          tiles_layer = splitAcrossTiles(layer, query.strategy, query.nTiles)

(* The tiles done so far, and what the whole call makes of them. *)
ResultsOfTheTiles ==
    /\ detailed \in Seq({TileResult(query, tiles_layer[i]) : i \in DOMAIN tiles_layer})
    /\ Len(detailed) <= Len(tiles_layer)
    /\ \A i \in 1..Len(detailed) : detailed[i] = TileResult(query, tiles_layer[i])
    /\ stage \in {"idle", "split"} => detailed = <<>> /\ first = NoResult
    /\ stage = "tiling" \/ detailed # <<>> \/ first # NoResult =>
          CheckTiles(tiles_layer) = NO_ERROR /\ tiles_layer # <<>>
    /\ stage = "done" /\ detailed # <<>> =>
          Len(detailed) = Len(tiles_layer) /\ verdict = LayerResult(query, tiles_layer)
    /\ first # NoResult => first = LayerResult(query, tiles_layer) /\ (stage = "done" => detailed # <<>>)

(* Needed for every property of the tiles: it says which layer, strategy   *)
(* and number of tiles those in the state come from, and that the check of *)
(* the layer let them pass.                                                *)
CallInv == AskedAndChecked /\ TilesOfTheSplit /\ ResultsOfTheTiles

(* A layer that a caller can write down is one in the sense of the lemmas, *)
(* before and after it is sanitized.                                       *)
LEMMA QueriesAreLayers ==
    ASSUME NEW l, IsDPULayer(l)
    PROVE  /\ IsLayer(l) /\ IsDPULayer(Prepared(l)) /\ IsLayer(Prepared(l))
           /\ Prepared(l).kernel = l.kernel /\ Prepared(l).out = l.out /\ Prepared(l).in = l.in
           /\ Prepared(l).halo = l.halo
  <1>1. ASSUME NEW x, IsDPULayer(x)
        PROVE  IsLayer(x)
    <2>1. IsRecord(x) /\ x.in \in [w : Nat, h : Nat, c : Nat] /\ x.out \in [w : Nat, h : Nat, c : Nat]
      BY <1>1 DEF IsDPULayer
    <2>2. "inbound" \in DOMAIN x.halo
      BY <1>1 DEF IsDPULayer, HaloWorkload
    <2> QED BY <2>1, <2>2 DEF IsLayer
  <1> DEFINE o == OpOf(l)
             z == SwizzlingOf(l)
             d == Disguised(l, o, z)
  <1>2. IsRecord(l)
    BY DEF IsDPULayer
  <1>3. Prepared(l) = d
    BY <1>2, PreparedIs
  <1> HIDE DEF o, z
  <1>4. /\ IsRecord(d) /\ d.in = l.in /\ d.out = l.out /\ d.kernel = l.kernel /\ d.stride = l.stride /\ d.pad = l.pad
        /\ d.owt = l.owt /\ d.halo = l.halo /\ d.autopad = l.autopad /\ d.in_autopad = l.in_autopad
    BY <1>2, DisguiseKeeps
  <1> HIDE DEF d
  <1>5. IsDPULayer(d)
    BY <1>4 DEF IsDPULayer
  <1> QED BY <1>1, <1>3, <1>4, <1>5

(* No tiles at all are an error. *)
LEMMA NoTilesIsAnError ==
    ASSUME NEW tiles, CheckTiles(tiles) = NO_ERROR
    PROVE  tiles # <<>>
  BY CyclesAssumption DEF CheckTiles, NO_ERROR, ERROR_TILE_OUTPUT

(* The tiles of any state are numbered from 1. *)
LEMMA TilesAreASequence ==
    ASSUME CallInv
    PROVE  Len(tiles_layer) \in Nat /\ DOMAIN tiles_layer = 1..Len(tiles_layer)
  <1>1. CASE tiles_layer = <<>>
    BY <1>1
  <1>2. CASE tiles_layer # <<>>
    <2>1. /\ query \in Queries /\ layer = Prepared(query.layer)
          /\ tiles_layer = splitAcrossTiles(layer, query.strategy, query.nTiles)
      BY <1>2 DEF CallInv, AskedAndChecked, TilesOfTheSplit
    <2>2. IsLayer(layer) /\ query.nTiles \in Nat
      BY <2>1, QueriesAssumption, QueriesAreLayers
    <2> QED BY <2>1, <2>2, SplitInherits DEF IsSequence
  <1> QED BY <1>1, <1>2

(* CallInv is inductive. *)
LEMMA CallInvInit == Init => CallInv
  BY DEF Init, CallInv, AskedAndChecked, TilesOfTheSplit, ResultsOfTheTiles

(* Every step keeps it, that of LayersPreSplit because the tiles the       *)
(* caller made are those that Layer made.                                  *)
LEMMA CallInvNext == CallInv /\ [Next]_vars => CallInv'
  <1> SUFFICES ASSUME CallInv, [Next]_vars
               PROVE  CallInv'
    OBVIOUS
  <1> USE DEF CallInv
  <1>0. Len(tiles_layer) \in Nat /\ DOMAIN tiles_layer = 1..Len(tiles_layer)
    BY TilesAreASequence
  <1>1. CASE Layer
    <2>1. stage = "idle" /\ tiles_layer' = <<>> /\ detailed' = <<>> /\ first' = NoResult
      BY <1>1 DEF Layer, TilesOfTheSplit, ResultsOfTheTiles
    <2>2. PICK q \in Queries : CheckLayer(q, Prepared(q.layer))
      BY <1>1 DEF Layer
    <2>3. query' = q /\ layer' = Prepared(query'.layer)
      BY <2>2 DEF CheckLayer
    <2>4. stage' = "done" \/ (stage' = "split" /\ query'.nTiles # 0 /\ Report(query', layer') = NO_ERROR)
      <3>1. ERROR_L2_INVALID_PARAMETERS # NO_ERROR
        BY CyclesAssumption DEF ERROR_L2_INVALID_PARAMETERS, NO_ERROR
      <3> QED BY <2>2, <2>3, <3>1 DEF CheckLayer, AnswerIfError, Answer, Report
    <2>5. AskedAndChecked'
      BY <2>1, <2>3, <2>4 DEF AskedAndChecked, Report
    <2>6. TilesOfTheSplit'
      BY <2>1, <2>4 DEF TilesOfTheSplit
    <2>7. ResultsOfTheTiles'
      BY <2>1, <2>4 DEF ResultsOfTheTiles
    <2> QED BY <2>5, <2>6, <2>7
  <1>2. CASE SplitLayer
    <2>1. /\ stage = "split" /\ tiles_layer' = splitAcrossTiles(layer, query.strategy, query.nTiles)
          /\ query' = query /\ layer' = layer /\ detailed' = <<>> /\ first' = NoResult
      BY <1>2 DEF SplitLayer, TakeTiles, ResultsOfTheTiles
    <2>2. stage' = "done" \/ (stage' = "tiling" /\ CheckTiles(tiles_layer') = NO_ERROR)
      BY <1>2 DEF SplitLayer, TakeTiles, AnswerIfError, Answer
    <2>3. AskedAndChecked'
      BY <2>1, <2>2 DEF AskedAndChecked, Report
    <2>4. TilesOfTheSplit'
      BY <2>1, <2>2 DEF TilesOfTheSplit
    <2>5. CheckTiles(tiles_layer') = NO_ERROR => tiles_layer' # <<>>
      BY NoTilesIsAnError
    <2>6. Len(tiles_layer') \in Nat
      <3>1. query \in Queries /\ layer = Prepared(query.layer)
        BY <2>1 DEF AskedAndChecked
      <3>2. IsLayer(layer) /\ query.nTiles \in Nat
        BY <3>1, QueriesAssumption, QueriesAreLayers
      <3> QED BY <2>1, <3>2, SplitInherits DEF IsSequence
    <2>8. ResultsOfTheTiles'
      BY <2>1, <2>2, <2>5, <2>6 DEF ResultsOfTheTiles
    <2> QED BY <2>3, <2>4, <2>8
  <1>3. CASE SplitTile
    <2> DEFINE x == TileResult(query, tiles_layer[Len(detailed) + 1])
               S == {TileResult(query, tiles_layer[i]) : i \in DOMAIN tiles_layer}
    <2>1. /\ stage = "tiling" /\ Len(detailed) < Len(tiles_layer) /\ detailed' = Append(detailed, x)
          /\ UNCHANGED <<query, layer, stage, tiles_layer, verdict, first>>
      BY <1>3 DEF SplitTile, TileResult
    <2>2. detailed \in Seq(S) /\ \A i \in 1..Len(detailed) : detailed[i] = TileResult(query, tiles_layer[i])
      BY DEF ResultsOfTheTiles
    <2>3. Len(detailed) \in Nat /\ Len(detailed) + 1 \in DOMAIN tiles_layer
      BY <1>0, <2>1, <2>2
    <2>4. x \in S
      BY <2>3
    <2> HIDE DEF x, S
    <2>5. /\ detailed' \in Seq(S) /\ Len(detailed') = Len(detailed) + 1 /\ detailed'[Len(detailed) + 1] = x
          /\ \A i \in 1..Len(detailed) : detailed'[i] = detailed[i]
      BY <2>1, <2>2, <2>4
    <2>6. \A i \in 1..Len(detailed') : detailed'[i] = TileResult(query, tiles_layer[i])
      BY <2>2, <2>3, <2>5 DEF x
    <2>7. AskedAndChecked' /\ TilesOfTheSplit'
      BY <2>1 DEF AskedAndChecked, TilesOfTheSplit, Report
    <2>8. ResultsOfTheTiles'
      <3>1. CheckTiles(tiles_layer) = NO_ERROR /\ tiles_layer # <<>>
        BY <2>1 DEF ResultsOfTheTiles
      <3>2. first # NoResult => first = LayerResult(query, tiles_layer)
        BY DEF ResultsOfTheTiles
      <3>3. Len(detailed') <= Len(tiles_layer)
        BY <1>0, <2>1, <2>3, <2>5
      <3> QED BY <2>1, <2>5, <2>6, <3>1, <3>2, <3>3 DEF ResultsOfTheTiles, S
    <2> QED BY <2>7, <2>8
  <1>4. CASE LargestTime
    <2>1. /\ stage = "tiling" /\ Len(detailed) = Len(tiles_layer) /\ stage' = "done"
          /\ verdict' = extractLargestTime({detailed[i].cost : i \in DOMAIN detailed})
          /\ UNCHANGED <<query, layer, tiles_layer, detailed, first>>
      BY <1>4 DEF LargestTime, Answer
    <2>2. /\ CheckTiles(tiles_layer) = NO_ERROR /\ tiles_layer # <<>>
          /\ \A i \in 1..Len(detailed) : detailed[i] = TileResult(query, tiles_layer[i])
          /\ detailed \in Seq({TileResult(query, tiles_layer[i]) : i \in DOMAIN tiles_layer})
      BY <2>1 DEF ResultsOfTheTiles
    <2>3. DOMAIN detailed = DOMAIN tiles_layer
      BY <1>0, <2>1, <2>2
    <2>4. {detailed[i].cost : i \in DOMAIN detailed}
              = {TileResult(query, tiles_layer[i]).cost : i \in DOMAIN tiles_layer}
      BY <1>0, <2>1, <2>2, <2>3
    <2>5. verdict' = LayerResult(query, tiles_layer)
      BY <2>1, <2>4 DEF LayerResult
    <2>6. AskedAndChecked' /\ TilesOfTheSplit'
      BY <2>1 DEF AskedAndChecked, TilesOfTheSplit, Report
    <2>7. detailed # <<>>
      <3>1. CASE detailed = <<>>
        <4>1. DOMAIN tiles_layer = 1..0
          BY <1>0, <2>1, <3>1
        <4>2. tiles_layer = <<>>
          <5>1. /\ query \in Queries /\ layer = Prepared(query.layer)
                /\ tiles_layer = splitAcrossTiles(layer, query.strategy, query.nTiles)
            BY <2>1 DEF AskedAndChecked, TilesOfTheSplit
          <5>2. IsLayer(layer) /\ query.nTiles \in Nat
            BY <5>1, QueriesAssumption, QueriesAreLayers
          <5> DEFINE split == splitAcrossTiles(layer, query.strategy, query.nTiles)
          <5>3. PICK m \in Nat : IsSequence(split, m)
            BY <5>2, SplitInherits
          <5>4. tiles_layer = split
            BY <5>1
          <5> HIDE DEF split
          <5> QED BY <4>1, <5>3, <5>4 DEF IsSequence
        <4> QED BY <2>2, <4>2
      <3> QED BY <3>1
    <2>8. ResultsOfTheTiles'
      BY <2>1, <2>2, <2>5, <2>7 DEF ResultsOfTheTiles
    <2> QED BY <2>6, <2>8
  <1>5. CASE LayersPreSplit
    <2> DEFINE tiles == splitAcrossTiles(query.layer, query.strategy, query.nTiles)
    <2>1. /\ stage = "done" /\ detailed # <<>> /\ first' = verdict /\ detailed' = <<>>
          /\ tiles_layer' = [i \in DOMAIN tiles |-> Prepared(tiles[i])]
          /\ query' = query /\ layer' = layer
      BY <1>5 DEF LayersPreSplit, HandIn, TakeTiles
    <2>2. stage' = "done" \/ (stage' = "tiling" /\ CheckTiles(tiles_layer') = NO_ERROR)
      BY <1>5 DEF LayersPreSplit, HandIn, TakeTiles, AnswerIfError, Answer
    <2>3. stage' = "done" => CheckTiles(tiles_layer') # NO_ERROR
      BY <1>5 DEF LayersPreSplit, HandIn, TakeTiles, AnswerIfError, Answer
    <2>4. /\ CheckTiles(tiles_layer) = NO_ERROR /\ tiles_layer # <<>> /\ verdict = LayerResult(query, tiles_layer)
      BY <2>1 DEF ResultsOfTheTiles
    <2>5. /\ query \in Queries /\ layer = Prepared(query.layer)
          /\ tiles_layer = splitAcrossTiles(layer, query.strategy, query.nTiles)
      BY <2>1, <2>4 DEF AskedAndChecked, TilesOfTheSplit
    <2>6. tiles_layer' = tiles_layer
      <3>1. IsLayer(query.layer) /\ query.nTiles \in Nat
        BY <2>5, QueriesAssumption, QueriesAreLayers
      <3>2. [i \in DOMAIN tiles |-> Prepared(tiles[i])]
                = splitAcrossTiles(Prepared(query.layer), query.strategy, query.nTiles)
        BY <3>1, PreparingCommutes
      <3> QED BY <2>1, <2>5, <3>2
    <2>7. stage' = "tiling"
      BY <2>2, <2>3, <2>4, <2>6
    <2>8. AskedAndChecked' /\ TilesOfTheSplit'
      BY <2>1, <2>4, <2>6, <2>7 DEF AskedAndChecked, TilesOfTheSplit, Report
    <2>9. ResultsOfTheTiles'
      BY <1>0, <2>1, <2>4, <2>6, <2>7 DEF ResultsOfTheTiles
    <2> QED BY <2>8, <2>9
  <1>6. CASE Return
    <2>1. stage' = "idle" /\ tiles_layer' = <<>> /\ detailed' = <<>> /\ first' = NoResult
      BY <1>6 DEF Return
    <2> QED BY <2>1 DEF AskedAndChecked, TilesOfTheSplit, ResultsOfTheTiles
  <1>7. CASE IterateRange \/ DivideChannels \/ EndAlgorithm \/ UNCHANGED vars
    <2>1. UNCHANGED <<query, layer, stage, tiles_layer, detailed, verdict, first>>
      BY <1>7 DEF IterateRange, DivideChannels, EndAlgorithm, vars
    <2> QED BY <2>1 DEF AskedAndChecked, TilesOfTheSplit, ResultsOfTheTiles, Report
  <1> QED BY <1>1, <1>2, <1>3, <1>4, <1>5, <1>6, <1>7 DEF Next

(* Layer and LayersPreSplit, with any layers, devices, strategies and      *)
(* numbers of tiles and any answers of L1: a caller that splits the layer  *)
(* itself before it is sanitized has the cost that Layer finds.            *)
THEOREM PreSplitGivesTheSameCost == Spec => []PreSplitAgrees
  <1>1. CallInv => PreSplitAgrees
    BY DEF CallInv, ResultsOfTheTiles, PreSplitAgrees
  <1> QED BY <1>1, CallInvInit, CallInvNext, PTL DEF Spec

-----------------------------------------------------------------------------
(* The tiles along the axis of their split. *)

(* A layer that passes check_completeLayer_consistency makes sense along   *)
(* the axis of its strategy.                                               *)
LEMMA CheckedIsWellFormed ==
    ASSUME NEW q, NEW l, IsDPULayer(l), NEW axis \in AxisOf(q.strategy), Report(q, l) = NO_ERROR
    PROVE  WellFormed(l, axis)
  <1> DEFINE w == [l EXCEPT !.isi = mapTilingStrategiesToWorkload(q.strategy), !.owt = q.nTiles]
  <1>1. check_layer_consistency(w, q.nTiles, q.strategy)
    <2>1. ERROR_INVALID_LAYER_CONFIGURATION # NO_ERROR
      BY CyclesAssumption DEF ERROR_INVALID_LAYER_CONFIGURATION, NO_ERROR
    <2> HIDE DEF w
    <2> QED BY <2>1 DEF Report, check_completeLayer_consistency, w
  <1>2. w.kernel = l.kernel /\ w.stride = l.stride /\ w.pad = l.pad /\ w.in = l.in /\ w.out = l.out /\ w.op = l.op
    BY DEF IsDPULayer, IsRecord, Fields
  <1> HIDE DEF w
  <1>3. CommonChecks("layer", w)
    BY <1>1 DEF check_layer_consistency
  <1>4. /\ {l.kernel.w, l.kernel.h} \subseteq 1..get_maximum_kernel_size(l.op)
        /\ {l.pad.left, l.pad.right} \subseteq get_pad_range(l.kernel.w)
        /\ {l.pad.top, l.pad.bottom} \subseteq get_pad_range(l.kernel.h)
        /\ l.out.w = compute_output_dim(l.in.w, l.pad.left, l.pad.right, l.kernel.w, l.stride.w)
    BY <1>2, <1>3 DEF CommonChecks
  <1>5. /\ l.stride.w \in get_strides_range(l.op, l.in.w, l.pad.left + l.pad.right)
        /\ l.stride.h \in get_strides_range(l.op, l.in.h, l.pad.top + l.pad.bottom)
        /\ l.out.h = compute_output_dim(l.in.h, l.pad.top, l.pad.bottom, l.kernel.h, l.stride.h)
        /\ isVerticalTiling(q.strategy) => l.out.h > 1
        /\ isHorizontalTiling(q.strategy) => l.out.w > 1
    BY <1>1, <1>2 DEF check_layer_consistency
  <1>6. /\ l.in \in [w : Nat, h : Nat, c : Nat] /\ l.out \in [w : Nat, h : Nat, c : Nat]
        /\ l.kernel \in [w : Nat, h : Nat] /\ l.stride \in [w : Nat, h : Nat]
        /\ l.pad \in [top : Nat, bottom : Nat, left : Nat, right : Nat]
    BY DEF IsDPULayer
  <1>7. (axis = Axis_H /\ l.out.h > 1) \/ (axis = Axis_W /\ l.out.w > 1)
    <2>1. CASE q.strategy \in {"SOH_Overlapped", "SOHO_K_SWITCH", "SOH_HaloRead"}
      <3>1. AxisOf(q.strategy) = {Axis_H}
        BY <2>1 DEF AxisOf
      <3>2. isVerticalTiling(q.strategy)
        BY <2>1 DEF isVerticalTiling
      <3> QED BY <1>5, <3>1, <3>2
    <2>2. CASE q.strategy = "SOW"
      <3>1. AxisOf(q.strategy) = {Axis_W}
        BY <2>2 DEF AxisOf
      <3>2. isHorizontalTiling(q.strategy)
        BY <2>2 DEF isHorizontalTiling
      <3> QED BY <1>5, <3>1, <3>2
    <2>3. CASE q.strategy \notin {"SOH_Overlapped", "SOHO_K_SWITCH", "SOH_HaloRead", "SOW"}
      BY <2>3 DEF AxisOf
    <2> QED BY <2>1, <2>2, <2>3
  <1>8. ASSUME NEW I \in Nat, NEW O \in Nat, NEW k \in Nat, NEW s \in Nat, NEW a \in Nat, NEW b \in Nat,
               k \in 1..get_maximum_kernel_size(l.op), a \in get_pad_range(k), b \in get_pad_range(k),
               s \in get_strides_range(l.op, I, a + b), O = compute_output_dim(I, a, b, k, s), O > 1
        PROVE  /\ I \in Nat \ {0} /\ O \in Nat \ {0} /\ k \in Nat \ {0} /\ s \in Nat \ {0}
               /\ a \in 0..(k - 1) /\ b \in 0..(k - 1) /\ (O - 1) * s + k <= I + a + b
    <2>1. k >= 1
      BY <1>8 DEF get_maximum_kernel_size, kernel_max
    <2>2. k \div 2 <= k - 1 /\ k \div 2 \in Nat /\ k - 2 * (k \div 2) >= 0
      BY <2>1
    <2>3. a <= k \div 2 /\ b <= k \div 2
      BY <1>8, <2>2 DEF get_pad_range, get_padMax
    <2>4. s # 0
      <3>1. get_maximum_kernel_stride(l.op) \in Int
        BY DEF get_maximum_kernel_stride, stride_max
      <3>2. Min({get_maximum_kernel_stride(l.op), I + (a + b)}) \in Int
        <4> DEFINE x == get_maximum_kernel_stride(l.op)
                   y == I + (a + b)
        <4>1. x \in Int /\ y \in Int
          BY <3>1
        <4> HIDE DEF x, y
        <4>2. Min({x, y}) \in Int
          BY <4>1, LargerSmaller
        <4> QED BY <4>2 DEF x, y
      <3> QED BY <1>8, <3>2 DEF get_strides_range
    <2> DEFINE c == I + a + b - k
               e == c \div s
               f == (0 - c) \div s
    <2>5. c \in Int /\ s \in Nat \ {0}
      BY <2>4
    <2>6. O = (IF c >= 0 THEN e ELSE 0 - f) + 1
      BY <1>8, <2>4 DEF compute_output_dim
    <2> HIDE DEF c
    <2>7. c < 0 => f \in Nat
      <3>1. c < 0 => 0 - c \in Nat
        BY <2>5
      <3> QED BY <2>5, <3>1
    <2>8. c >= 0 => e \in Nat /\ s * e <= c
      <3> SUFFICES ASSUME c >= 0
                   PROVE  e \in Nat /\ s * e <= c
        OBVIOUS
      <3> DEFINE r == c % s
      <3>0. c \in Nat
        BY <2>5
      <3>1. e \in Nat /\ r \in 0..(s - 1) /\ c = s * e + r
        BY <2>5, <3>0
      <3> HIDE DEF e, r
      <3>2. s * e \in Nat
        BY <2>5, <3>1
      <3> QED BY <2>5, <3>0, <3>1, <3>2
    <2> HIDE DEF e, f
    <2>9. c >= 0 /\ O - 1 = e
      BY <1>8, <2>5, <2>6, <2>7, <2>8
    <2>10. s * e = e * s /\ e * s \in Nat
      BY <2>5, <2>8, <2>9
    <2>11. (O - 1) * s <= c
      BY <2>5, <2>8, <2>9, <2>10
    <2>12. c >= s /\ s >= 1
      <3>1. e >= 1 /\ e \in Nat
        BY <1>8, <2>8, <2>9
      <3>2. 1 * s <= e * s /\ 1 * s = s
        BY <2>5, <3>1, ProductGrows
      <3> QED BY <2>5, <2>8, <2>9, <2>10, <3>2
    <2>13. I >= 1
      BY <2>2, <2>3, <2>5, <2>12 DEF c
    <2>14. (O - 1) * s \in Int
      BY <2>9, <2>10
    <2> QED BY <1>8, <2>1, <2>2, <2>3, <2>4, <2>11, <2>13, <2>14 DEF c
  <1>9. CASE axis = Axis_H /\ l.out.h > 1
    <2>1. /\ l.in.h \in Nat \ {0} /\ l.out.h \in Nat \ {0} /\ l.kernel.h \in Nat \ {0} /\ l.stride.h \in Nat \ {0}
          /\ l.pad.top \in 0..(l.kernel.h - 1) /\ l.pad.bottom \in 0..(l.kernel.h - 1)
          /\ (l.out.h - 1) * l.stride.h + l.kernel.h <= l.in.h + l.pad.top + l.pad.bottom
      BY <1>4, <1>5, <1>6, <1>8, <1>9, ZenonT(30)
    <2> QED BY <1>9, <2>1 DEF WellFormed, Axis_H
  <1>10. CASE axis = Axis_W /\ l.out.w > 1
    <2>1. /\ l.in.w \in Nat \ {0} /\ l.out.w \in Nat \ {0} /\ l.kernel.w \in Nat \ {0} /\ l.stride.w \in Nat \ {0}
          /\ l.pad.left \in 0..(l.kernel.w - 1) /\ l.pad.right \in 0..(l.kernel.w - 1)
          /\ (l.out.w - 1) * l.stride.w + l.kernel.w <= l.in.w + l.pad.left + l.pad.right
      BY <1>4, <1>5, <1>6, <1>8, <1>10, ZenonT(30)
    <2> QED BY <1>10, <2>1 DEF WellFormed, Axis_W
  <1> QED BY <1>7, <1>9, <1>10

(* The slices that are not empty are the first ones. *)
LEMMA SlicesKept ==
    ASSUME NEW O \in Nat \ {0}, NEW n \in Nat \ {0}
    PROVE  LET d == ceil_division(O, n)
           IN  \E m \in 1..n : /\ \A i \in 1..n : Slice(O, d, i) # 0 <=> i <= m
                               /\ \A i \in 1..m : Remaining(O, d, i) > 0
                               /\ Remaining(O, d, m + 1) = 0
  <1> DEFINE d == ceil_division(O, n)
             T == {i \in Nat : i >= 1 /\ i * d >= O}
             m == Min(T)
  <1>1. d \in Nat \ {0} /\ d * n >= O
    BY CeilDivision
  <1> HIDE DEF d
  <1>2. d * n = n * d
    BY <1>1
  <1>3. T \in SUBSET Nat /\ n \in T
    BY <1>1, <1>2
  <1>4. m \in T /\ \A y \in T : m <= y
    <2> HIDE DEF T
    <2> QED BY <1>3, LeastNumber
  <1> HIDE DEF m
  <1>5. m \in 1..n /\ m * d >= O
    BY <1>3, <1>4
  <1>6. \A i \in Nat \ {0} : Remaining(O, d, i) = IF 0 >= O - (i - 1) * d THEN 0 ELSE O - (i - 1) * d
    <2> TAKE i \in Nat \ {0}
    <2> DEFINE x == O - (i - 1) * d
    <2>1. x \in Int
      BY <1>1
    <2> HIDE DEF x
    <2>2. Max({0, x}) = IF 0 >= x THEN 0 ELSE x
      BY <2>1, LargerSmaller
    <2> QED BY <2>2 DEF Remaining, x
  <1>7. \A i \in 1..m : Remaining(O, d, i) > 0
    <2> TAKE i \in 1..m
    <2> DEFINE j == i - 1
               x == j * d
    <2>1. j \in Nat /\ i \in Nat \ {0} /\ j < m
      BY <1>5
    <2>2. x \in Nat
      BY <1>1, <2>1
    <2>3. j = 0 => x = 0
      BY <1>1
    <2>4. j \notin T
      BY <1>4, <1>5, <2>1
    <2>5. x < O
      <3>1. CASE j = 0
        BY <2>3, <3>1
      <3>2. CASE j # 0
        <4>1. ~(x >= O)
          BY <2>1, <2>4, <3>2
        <4> HIDE DEF x, T
        <4> QED BY <2>2, <4>1
      <3> QED BY <3>1, <3>2
    <2>6. Remaining(O, d, i) = IF 0 >= O - x THEN 0 ELSE O - x
      BY <1>6, <2>1
    <2> HIDE DEF x
    <2> QED BY <2>2, <2>5, <2>6
  <1>8. \A i \in Nat : i > m => Remaining(O, d, i) = 0
    <2> SUFFICES ASSUME NEW i \in Nat, i > m
                 PROVE  Remaining(O, d, i) = 0
      OBVIOUS
    <2> DEFINE j == i - 1
               x == j * d
    <2>1. j \in Nat /\ m \in Nat /\ m <= j /\ i \in Nat \ {0}
      BY <1>5
    <2>2. m * d <= x /\ m * d \in Nat /\ x \in Nat
      <3> HIDE DEF j
      <3> QED BY <1>1, <2>1, ProductGrows
    <2>3. Remaining(O, d, i) = IF 0 >= O - x THEN 0 ELSE O - x
      BY <1>6, <2>1
    <2> HIDE DEF x
    <2> QED BY <1>5, <2>2, <2>3
  <1>9. \A i \in 1..n : Slice(O, d, i) # 0 <=> i <= m
    <2> TAKE i \in 1..n
    <2>1. O \in Nat /\ i \in Nat \ {0}
      OBVIOUS
    <2>2. Slice(O, d, i) > 0 <=> Remaining(O, d, i) > 0
      BY <1>1, <2>1, Slices
    <2>3. Slice(O, d, i) \in 0..d /\ Remaining(O, d, i) \in 0..O
      BY <1>1, <2>1, Slices
    <2>4. i <= m => Remaining(O, d, i) > 0
      BY <1>7
    <2>5. i > m => Remaining(O, d, i) = 0
      BY <1>8
    <2> QED BY <1>1, <1>5, <2>2, <2>3, <2>4, <2>5
  <1>10. Remaining(O, d, m + 1) = 0
    BY <1>5, <1>8
  <1> QED BY <1>5, <1>7, <1>9, <1>10 DEF d

(* A tile before the empty ones are removed, seen along the axis: the      *)
(* context of the loop is what it has.                                     *)
IsTileOf(t, l, strategy, n, axis, i) ==
    LET c == TileContext(l, axis, n)[i]
    IN  /\ t.out = [l.out EXCEPT ![axis.dim] = c.out] /\ t.in[axis.dim] = c.in
        /\ t.pad[axis.begin] = c.pad_begin /\ t.pad[axis.end] = c.pad_end
        /\ strategy = "SOH_HaloRead" => t.halo = HALO_halo(l, TileContext(l, Axis_H, n), i)

(* Before the empty ones are removed, the i-th tile is the i-th of its     *)
(* split.                                                                  *)
LEMMA RawTileAlong ==
    ASSUME NEW l, IsDPULayer(l), NEW strategy, NEW axis \in AxisOf(strategy), NEW n, NEW i
    PROVE  IsTileOf(RawTile(l, strategy, n, i), l, strategy, n, axis, i)
  <1>1. /\ IsRecord(l) /\ l.in \in [w : Nat, h : Nat, c : Nat]
        /\ l.pad \in [top : Nat, bottom : Nat, left : Nat, right : Nat]
    BY DEF IsDPULayer
  <1>2. ASSUME axis \in {Axis_H, Axis_W}, NEW owt, NEW c
        PROVE  LET t == overlapped_tile(l, axis, owt, c)
               IN  /\ t.out = [l.out EXCEPT ![axis.dim] = c.out] /\ t.in[axis.dim] = c.in
                   /\ t.pad[axis.begin] = c.pad_begin /\ t.pad[axis.end] = c.pad_end
    <2> DEFINE h == overlapped_halo(l, axis, owt, c)
               s == RescaleSEP(l.sep, axis, c.in, l.in[axis.dim])
               d == axis.dim
               a == axis.begin
               b == axis.end
               x == [l.out EXCEPT ![d] = c.out]
               y == [l.in EXCEPT ![d] = c.in]
               p == [[l.pad EXCEPT ![a] = c.pad_begin] EXCEPT ![b] = c.pad_end]
               t == OverlappedForm(l, axis, owt, c, h, s)
    <2>1. overlapped_tile(l, axis, owt, c) = t
      BY <1>1, OverlappedFields
    <2>2. d \in {"w", "h"} /\ a \in {"top", "left"} /\ b \in {"bottom", "right"}
      BY <1>2 DEF Axis_H, Axis_W
    <2> HIDE DEF h, s
    <2>3. t = [l EXCEPT !.out = x, !.in = y, !.pad = p, !.isi = "CLUSTERING", !.owt = owt, !.halo = h, !.sep = s]
      BY DEF OverlappedForm
    <2> HIDE DEF t, d, a, b
    <2>4. y[d] = c.in /\ p[a] = c.pad_begin /\ p[b] = c.pad_end
      BY <1>1, <2>2
    <2> HIDE DEF x, y, p
    <2>5. t.out = x /\ t.in = y /\ t.pad = p
      BY <1>1, <2>3 DEF IsRecord, Fields
    <2> QED BY <2>1, <2>4, <2>5 DEF d, a, b, x
  <1>3. CASE strategy \in {"SOH_Overlapped", "SOHO_K_SWITCH"}
    <2>1. axis = Axis_H
      <3>1. AxisOf(strategy) = {Axis_H}
        BY <1>3 DEF AxisOf
      <3> QED BY <3>1
    <2>2. RawTile(l, strategy, n, i) = overlapped_tile(l, axis, WrittenTiles(l, n, Forces(strategy)), TileContext(l, axis, n)[i])
      BY <1>3, <2>1 DEF RawTile
    <2> QED BY <1>2, <1>3, <2>1, <2>2 DEF IsTileOf
  <1>4. CASE strategy = "SOW"
    <2>1. axis = Axis_W
      <3>1. AxisOf(strategy) = {Axis_W}
        BY <1>4 DEF AxisOf
      <3> QED BY <3>1
    <2>2. RawTile(l, strategy, n, i) = overlapped_tile(l, axis, WrittenTiles(l, n, FALSE), TileContext(l, axis, n)[i])
      BY <1>4, <2>1 DEF RawTile
    <2> DEFINE c == TileContext(l, axis, n)[i]
               owt == WrittenTiles(l, n, FALSE)
               t == overlapped_tile(l, axis, owt, c)
    <2> HIDE DEF c, owt
    <2>3. /\ t.out = [l.out EXCEPT ![axis.dim] = c.out] /\ t.in[axis.dim] = c.in
          /\ t.pad[axis.begin] = c.pad_begin /\ t.pad[axis.end] = c.pad_end
      BY <1>2, <2>1
    <2> HIDE DEF t
    <2>4. strategy # "SOH_HaloRead"
      BY <1>4
    <2>5. RawTile(l, strategy, n, i) = t
      BY <2>2 DEF t, c, owt
    <2> QED BY <2>3, <2>4, <2>5 DEF IsTileOf, c
  <1>5. CASE strategy = "SOH_HaloRead"
    <2>1. axis = Axis_H
      <3>1. AxisOf(strategy) = {Axis_H}
        BY <1>5 DEF AxisOf
      <3> QED BY <3>1
    <2> DEFINE ctx == TileContext(l, Axis_H, n)
               c == ctx[i]
               h == HALO_halo(l, ctx, i)
               x == [l.out EXCEPT !["h"] = c.out]
               y == [l.in EXCEPT !["h"] = c.in]
               p == [[l.pad EXCEPT !.top = c.pad_begin] EXCEPT !.bottom = c.pad_end]
               t == HaloForm(l, c, h)
    <2>2. RawTile(l, strategy, n, i) = t
      BY <1>1, <1>5, HaloFields DEF RawTile
    <2>3. t = [l EXCEPT !.out = x, !.in = y, !.pad = p, !.isi = "SPLIT_OVER_H", !.halo = h]
      BY DEF HaloForm
    <2> HIDE DEF t, h
    <2>4. y.h = c.in /\ p.top = c.pad_begin /\ p.bottom = c.pad_end
      BY <1>1
    <2>5. x = [l.out EXCEPT !["h"] = c.out]
      OBVIOUS
    <2> HIDE DEF x, y, p
    <2>6. t.out = x /\ t.in = y /\ t.pad = p /\ t.halo = h
      BY <1>1, <2>3 DEF IsRecord, Fields
    <2> QED BY <2>1, <2>2, <2>4, <2>5, <2>6 DEF IsTileOf, Axis_H, h, x
  <1>6. CASE strategy \notin {"SOH_Overlapped", "SOHO_K_SWITCH", "SOH_HaloRead", "SOW"}
    BY <1>6 DEF AxisOf
  <1> QED BY <1>3, <1>4, <1>5, <1>6

(* A size is zero only where a dimension is. *)
LEMMA NonzeroProduct ==
    ASSUME NEW a \in Nat, NEW b \in Nat, NEW c \in Nat
    PROVE  a * b * c # 0 <=> a # 0 /\ b # 0 /\ c # 0
  <1>1. \A x, y \in Nat : x * y \in Nat /\ (x # 0 /\ y # 0 => x * y # 0) /\ 0 * y = 0 /\ x * 0 = 0
    <2> SUFFICES ASSUME NEW x \in Nat, NEW y \in Nat
                 PROVE  x * y \in Nat /\ (x # 0 /\ y # 0 => x * y # 0) /\ 0 * y = 0 /\ x * 0 = 0
      OBVIOUS
    <2>1. x # 0 => 1 * y <= x * y /\ 1 * y = y /\ x * y \in Nat
      BY ProductGrows
    <2>2. x * y \in Nat /\ 0 * y = 0 /\ x * 0 = 0
      OBVIOUS
    <2> QED BY <2>1, <2>2
  <1> DEFINE p == a * b
  <1>2. p \in Nat /\ (p # 0 <=> a # 0 /\ b # 0)
    BY <1>1
  <1> HIDE DEF p
  <1>3. p * c # 0 <=> p # 0 /\ c # 0
    BY <1>1, <1>2
  <1> QED BY <1>2, <1>3 DEF p

(* The tiles that are left of a split along an axis: the first m, with     *)
(* everything of the layer's output in them.                               *)
LEMMA SplitAlong ==
    ASSUME NEW l, IsDPULayer(l), NEW strategy, NEW axis \in AxisOf(strategy), NEW n \in Nat \ {0},
           WellFormed(l, axis), splitAcrossTiles(l, strategy, n) # <<>>
    PROVE  LET tiles == splitAcrossTiles(l, strategy, n)
               O == l.out[axis.dim]
               d == ceil_division(O, n)
           IN  \E m \in 1..n : /\ DOMAIN tiles = 1..m /\ Len(tiles) = m
                               /\ Remaining(O, d, m + 1) = 0
                               /\ \A i \in 1..m : /\ Remaining(O, d, i) > 0
                                                  /\ IsTileOf(tiles[i], l, strategy, n, axis, i)
                               /\ size(l.out) # 0
  <1> DEFINE tiles == splitAcrossTiles(l, strategy, n)
             O == l.out[axis.dim]
             d == ceil_division(O, n)
             raw == RawTiles(l, strategy, n)
             left == remove_empty_tiles(raw)
             f == Forces(strategy)
             Size(i) == size(raw[i].out)
  <1>1. Supports(strategy) /\ strategy # "NONE" /\ axis.dim \in {"w", "h"}
    <2>1. CASE strategy \in {"SOH_Overlapped", "SOHO_K_SWITCH", "SOH_HaloRead"}
      BY <2>1 DEF AxisOf, Supports, Axis_H
    <2>2. CASE strategy = "SOW"
      BY <2>2 DEF AxisOf, Supports, Axis_W
    <2>3. CASE strategy \notin {"SOH_Overlapped", "SOHO_K_SWITCH", "SOH_HaloRead", "SOW"}
      BY <2>3 DEF AxisOf
    <2> QED BY <2>1, <2>2, <2>3
  <1>2. tiles = LimitBroadcast(left, f, n)
    BY <1>1, SplitIs
  <1>3. /\ DOMAIN raw = 1..n
        /\ \A i \in 1..n : IsRecord(raw[i]) /\ IsTileOf(raw[i], l, strategy, n, axis, i)
    <2>1. IsLayer(l)
      BY QueriesAreLayers
    <2>2. \A i : Inherits(RawTile(l, strategy, n, i), l) /\ IsTileOf(RawTile(l, strategy, n, i), l, strategy, n, axis, i)
      BY <2>1, RawTilesInherit, RawTileAlong
    <2> QED BY <2>2 DEF RawTiles, Inherits
  <1> HIDE DEF raw
  <1>4. O \in Nat \ {0} /\ d \in Nat \ {0} /\ l.out \in [w : Nat, h : Nat, c : Nat]
    <2>1. O \in Nat \ {0}
      BY DEF WellFormed
    <2> QED BY <2>1, SlicesSuffice DEF IsDPULayer
  <1>5. PICK m \in 1..n : /\ \A i \in 1..n : Slice(O, d, i) # 0 <=> i <= m
                          /\ \A i \in 1..m : Remaining(O, d, i) > 0
                          /\ Remaining(O, d, m + 1) = 0
    BY <1>4, SlicesKept
  <1> DEFINE u == IF axis.dim = "w" THEN l.out.h ELSE l.out.w
  <1>6. ASSUME NEW i \in 1..n
        PROVE  Size(i) # 0 <=> Slice(O, d, i) # 0 /\ u # 0 /\ l.out.c # 0
    <2> DEFINE s == Slice(O, d, i)
    <2>1. TileContext(l, axis, n)[i].out = s
      BY DEF TileContext
    <2>2. raw[i].out = [l.out EXCEPT ![axis.dim] = s]
      BY <1>3, <2>1 DEF IsTileOf
    <2>3. s \in Nat
      <3>1. O \in Nat /\ i \in Nat \ {0}
        BY <1>4
      <3>2. Slice(O, d, i) \in 0..d
        BY <1>4, <3>1, Slices
      <3> QED BY <1>4, <3>2
    <2> HIDE DEF s, O
    <2>4. CASE axis.dim = "w"
      <3>1. raw[i].out.w = s /\ raw[i].out.h = u /\ raw[i].out.c = l.out.c
        BY <1>4, <2>2, <2>4
      <3>2. s * u * l.out.c # 0 <=> s # 0 /\ u # 0 /\ l.out.c # 0
        BY <1>4, <2>3, NonzeroProduct
      <3>3. Size(i) = s * u * l.out.c
        BY <3>1, Zenon DEF size
      <3> QED BY <3>2, <3>3, Zenon DEF s
    <2>5. CASE axis.dim = "h"
      <3>0. u = l.out.w
        BY <2>5
      <3>1. raw[i].out.w = u /\ raw[i].out.h = s /\ raw[i].out.c = l.out.c
        BY <1>4, <2>2, <2>5
      <3>2. u * s * l.out.c # 0 <=> u # 0 /\ s # 0 /\ l.out.c # 0
        BY <1>4, <2>3, <3>0, NonzeroProduct
      <3>3. Size(i) = u * s * l.out.c
        BY <3>1, Zenon DEF size
      <3> QED BY <3>2, <3>3, Zenon DEF s
    <2> QED BY <1>1, <2>4, <2>5
  <1>7. Kept(raw) = {i \in 1..n : Size(i) # 0}
    BY <1>3 DEF Kept
  <1> HIDE DEF Size
  <1>8. u # 0 /\ l.out.c # 0
    <2> SUFFICES ASSUME ~(u # 0 /\ l.out.c # 0)
                 PROVE  FALSE
      OBVIOUS
    <2>1. Kept(raw) = 1..0
      BY <1>6, <1>7
    <2>2. left = [k \in 1..0 |-> raw[k]]
      <3>1. 0 \in 0..n /\ n \in Nat
        OBVIOUS
      <3> QED BY <1>3, <2>1, <3>1, FirstTilesLeft, ZenonT(30)
    <2>3. left = <<>>
      BY <2>2
    <2> HIDE DEF left, f
    <2>4. tiles = <<>>
      <3> HIDE DEF tiles
      <3> QED BY <1>2, <2>3 DEF LimitBroadcast
    <2> QED BY <2>4
  <1>9. Kept(raw) = 1..m
    BY <1>5, <1>6, <1>7, <1>8
  <1>10. left = [k \in 1..m |-> raw[k]]
    BY <1>3, <1>5, <1>9, FirstTilesLeft
  <1> HIDE DEF left, f, tiles, O, d
  <1>11. DOMAIN left = 1..m /\ Len(left) = m
    BY <1>10
  <1>12. /\ DOMAIN tiles = 1..m /\ Len(tiles) = m
         /\ \A i \in 1..m : IsTileOf(tiles[i], l, strategy, n, axis, i)
    <2>1. CASE f /\ m < n
      <3>1. tiles = [i \in 1..m |-> [left[i] EXCEPT !.owt = m]]
        BY <1>2, <1>11, <2>1 DEF LimitBroadcast
      <3>2. ASSUME NEW i \in 1..m
            PROVE  IsTileOf(tiles[i], l, strategy, n, axis, i)
        <4> DEFINE t == raw[i]
        <4>1. tiles[i] = [t EXCEPT !.owt = m] /\ IsRecord(t) /\ IsTileOf(t, l, strategy, n, axis, i)
          BY <1>3, <1>10, <3>1
        <4> HIDE DEF t
        <4>2. /\ tiles[i].out = t.out /\ tiles[i].in = t.in /\ tiles[i].pad = t.pad /\ tiles[i].halo = t.halo
          BY <4>1 DEF IsRecord, Fields
        <4> QED BY <4>1, <4>2 DEF IsTileOf
      <3> QED BY <3>1, <3>2
    <2>2. CASE ~(f /\ m < n)
      <3>1. tiles = left
        BY <1>2, <1>11, <2>2 DEF LimitBroadcast
      <3> QED BY <1>3, <1>10, <1>11, <3>1
    <2> QED BY <2>1, <2>2
  <1>13. size(l.out) # 0
    <2>1. O # 0 /\ u # 0 /\ l.out.c # 0
      BY <1>4, <1>8
    <2>2. l.out.w # 0 /\ l.out.h # 0 /\ l.out.c # 0
      BY <1>1, <2>1 DEF O
    <2> QED BY <1>4, <2>2, NonzeroProduct DEF size
  <1> QED BY <1>5, <1>12, <1>13 DEF tiles, O, d

(* What Slices says, for all the slices at once. *)
LEMMA AllSlices ==
    ASSUME NEW O \in Nat \ {0}, NEW d \in Nat \ {0}
    PROVE  /\ Remaining(O, d, 1) = O
           /\ \A i \in Nat \ {0} : /\ Remaining(O, d, i) \in Nat /\ Slice(O, d, i) \in Nat
                                   /\ Slice(O, d, i) <= Remaining(O, d, i)
                                   /\ Remaining(O, d, i + 1) = Remaining(O, d, i) - Slice(O, d, i)
                                   /\ Slice(O, d, i) > 0 <=> Remaining(O, d, i) > 0
                                   /\ Remaining(O, d, i + 1) > 0 => Slice(O, d, i) = d
  <1>1. O \in Nat
    OBVIOUS
  <1>2. Remaining(O, d, 1) = O
    <2>1. 1 \in Nat \ {0}
      OBVIOUS
    <2> QED BY <1>1, <2>1, Slices
  <1>3. ASSUME NEW i \in Nat \ {0}
        PROVE  /\ Remaining(O, d, i) \in Nat /\ Slice(O, d, i) \in Nat
               /\ Slice(O, d, i) <= Remaining(O, d, i)
               /\ Remaining(O, d, i + 1) = Remaining(O, d, i) - Slice(O, d, i)
               /\ Slice(O, d, i) > 0 <=> Remaining(O, d, i) > 0
               /\ Remaining(O, d, i + 1) > 0 => Slice(O, d, i) = d
    <2>1. /\ Remaining(O, d, i) \in 0..O /\ Slice(O, d, i) \in 0..d
          /\ Slice(O, d, i) <= Remaining(O, d, i)
          /\ Remaining(O, d, i + 1) = Remaining(O, d, i) - Slice(O, d, i)
          /\ Slice(O, d, i) > 0 <=> Remaining(O, d, i) > 0
          /\ Remaining(O, d, i + 1) > 0 => Slice(O, d, i) = d
      BY <1>1, Slices
    <2>2. \A x, y \in Nat : x \in 0..y => x \in Nat
      OBVIOUS
    <2>3. d \in Nat
      OBVIOUS
    <2> QED BY <1>1, <2>1, <2>2, <2>3
  <1> QED BY <1>2, <1>3

(* The outputs of the tiles before, given a function that adds them up. *)
LEMMA OutputBeforeIs ==
    ASSUME NEW m \in Nat, Len(tiles_layer) = m, NEW dim, NEW G, G[0] = 0,
           \A k \in 1..m : G[k] = G[k - 1] + tiles_layer[k].out[dim], NEW i \in 1..(m + 1)
    PROVE  OutputBefore(i, dim) = G[i - 1]
  <1> DEFINE P(s) == s = [k \in 0..m |-> IF k = 0 THEN 0 ELSE s[k - 1] + tiles_layer[k].out[dim]]
             sum == CHOOSE s : P(s)
             g == [k \in 0..m |-> G[k]]
  <1>1. OutputBefore(i, dim) = sum[i - 1]
    BY DEF OutputBefore
  <1>2. P(g)
    <2>1. \A k \in 0..m : g[k] = IF k = 0 THEN 0 ELSE g[k - 1] + tiles_layer[k].out[dim]
      <3> TAKE k \in 0..m
      <3>1. k # 0 => k \in 1..m /\ k - 1 \in 0..m
        OBVIOUS
      <3> QED BY <3>1
    <2> QED BY <2>1
  <1>3. P(sum)
    <2> HIDE DEF P, g
    <2> QED BY <1>2, Zenon
  <1> HIDE DEF sum
  <1> DEFINE S == {k \in 0..m : sum[k] = G[k]}
  <1>4. sum[0] = 0 /\ \A k \in 1..m : sum[k] = sum[k - 1] + tiles_layer[k].out[dim]
    <2>1. \A k \in 0..m : sum[k] = IF k = 0 THEN 0 ELSE sum[k - 1] + tiles_layer[k].out[dim]
      BY <1>3
    <2> HIDE DEF P
    <2>2. 0 \in 0..m /\ \A k \in 1..m : k \in 0..m /\ k # 0
      OBVIOUS
    <2> QED BY <2>1, <2>2
  <1>5. \A j \in 0..(m - 1) : j \in S => j + 1 \in S
    <2> SUFFICES ASSUME NEW j \in 0..(m - 1), j \in S
                 PROVE  j + 1 \in S
      OBVIOUS
    <2>1. j + 1 \in 1..m /\ j + 1 \in 0..m /\ j + 1 - 1 = j
      OBVIOUS
    <2>2. sum[j + 1] = sum[j] + tiles_layer[j + 1].out[dim]
      BY <1>4, <2>1
    <2>3. G[j + 1] = G[j] + tiles_layer[j + 1].out[dim]
      BY <2>1
    <2> QED BY <2>1, <2>2, <2>3
  <1>6. 0 \in S
    BY <1>4
  <1>7. 0..m \subseteq S
    <2> HIDE DEF S
    <2> QED BY <1>5, <1>6, UpTo_n
  <1>8. i - 1 \in 0..m
    OBVIOUS
  <1> QED BY <1>1, <1>7, <1>8

(* What TileGeometry and HaloLinesStoredOnce say of a split: the tiles     *)
(* that there are, and the outputs before each of them.                    *)
LEMMA SplitOfTheState ==
    ASSUME CallInv, IsSplit, NEW axis \in AxisOf(query.strategy)
    PROVE  LET m == Len(tiles_layer)
               n == query.nTiles
               O == layer.out[axis.dim]
               d == ceil_division(O, n)
           IN  /\ IsDPULayer(layer) /\ WellFormed(layer, axis) /\ n \in Nat \ {0} /\ m \in 1..n
               /\ axis \in {Axis_H, Axis_W}
               /\ \A i \in 1..m : /\ Remaining(O, d, i) > 0
                                  /\ IsTileOf(tiles_layer[i], layer, query.strategy, n, axis, i)
               /\ \A i \in 1..m : tiles_layer[i].out[axis.dim] = Slice(O, d, i)
               /\ \A i \in 1..(m + 1) : OutputBefore(i, axis.dim) = O - Remaining(O, d, i)
               /\ Remaining(O, d, m + 1) = 0
  <1> DEFINE m == Len(tiles_layer)
             n == query.nTiles
             st == query.strategy
             total == layer.out[axis.dim]
             part == ceil_division(total, n)
             G == [k \in 0..m |-> total - Remaining(total, part, k + 1)]
  <1>1. /\ query \in Queries /\ layer = Prepared(query.layer)
        /\ n # 0 /\ Report(query, layer) = NO_ERROR
        /\ tiles_layer = splitAcrossTiles(layer, query.strategy, n) /\ tiles_layer # <<>>
    BY DEF CallInv, AskedAndChecked, TilesOfTheSplit, IsSplit
  <1>2. IsDPULayer(layer) /\ n \in Nat \ {0}
    BY <1>1, QueriesAssumption, QueriesAreLayers
  <1>3. WellFormed(layer, axis)
    <2> DEFINE q == query
               l == layer
    <2>1. axis \in AxisOf(q.strategy) /\ IsDPULayer(l) /\ Report(q, l) = NO_ERROR
      BY <1>1, <1>2
    <2> HIDE DEF q, l
    <2>2. WellFormed(l, axis)
      BY <2>1, CheckedIsWellFormed
    <2> QED BY <2>2 DEF l
  <1>4. axis \in {Axis_H, Axis_W} /\ axis.dim \in {"w", "h"}
    <2>1. CASE st \in {"SOH_Overlapped", "SOHO_K_SWITCH", "SOH_HaloRead"}
      BY <2>1 DEF AxisOf, Axis_H
    <2>2. CASE st = "SOW"
      BY <2>2 DEF AxisOf, Axis_W
    <2>3. CASE st \notin {"SOH_Overlapped", "SOHO_K_SWITCH", "SOH_HaloRead", "SOW"}
      BY <2>3 DEF AxisOf
    <2> QED BY <2>1, <2>2, <2>3
  <1>5. /\ m \in 1..n /\ DOMAIN tiles_layer = 1..m /\ Remaining(total, part, m + 1) = 0
        /\ \A i \in 1..m : Remaining(total, part, i) > 0 /\ IsTileOf(tiles_layer[i], layer, st, n, axis, i)
    <2> DEFINE tiles == splitAcrossTiles(layer, st, n)
    <2>1. /\ axis \in AxisOf(st) /\ tiles # <<>>
      BY <1>1
    <2>2. \E mm \in 1..n : /\ DOMAIN tiles = 1..mm /\ Len(tiles) = mm
                           /\ Remaining(total, part, mm + 1) = 0
                           /\ \A i \in 1..mm : /\ Remaining(total, part, i) > 0
                                               /\ IsTileOf(tiles[i], layer, st, n, axis, i)
      <3> HIDE DEF n, st
      <3> QED BY <1>2, <1>3, <2>1, SplitAlong
    <2>3. tiles_layer = tiles
      BY <1>1
    <2> HIDE DEF tiles, total, part, n, st
    <2> QED BY <2>2, <2>3
  <1>6. total \in Nat \ {0} /\ part \in Nat \ {0}
    <2>1. total \in Nat \ {0}
      BY <1>3 DEF WellFormed
    <2> QED BY <1>2, <2>1, SlicesSuffice
  <1>7. \A i \in 1..m : tiles_layer[i].out[axis.dim] = Slice(total, part, i)
    <2> TAKE i \in 1..m
    <2> DEFINE c == TileContext(layer, axis, n)[i]
               s == Slice(total, part, i)
    <2>1. i \in 1..n
      BY <1>2, <1>5
    <2>2. c.out = s
      BY <2>1 DEF TileContext
    <2>3. tiles_layer[i].out = [layer.out EXCEPT ![axis.dim] = c.out]
      BY <1>5 DEF IsTileOf
    <2> HIDE DEF c, s
    <2>4. layer.out \in [w : Nat, h : Nat, c : Nat]
      BY <1>2 DEF IsDPULayer
    <2> QED BY <1>4, <2>2, <2>3, <2>4 DEF s
  <1>8. \A i \in 1..(m + 1) : OutputBefore(i, axis.dim) = G[i - 1]
    <2>0. m \in Nat
      BY <1>2, <1>5
    <2> HIDE DEF total, part
    <2>1. /\ Remaining(total, part, 1) = total
          /\ \A i \in Nat \ {0} : /\ Remaining(total, part, i) \in Nat /\ Slice(total, part, i) \in Nat
                                  /\ Remaining(total, part, i + 1) = Remaining(total, part, i) - Slice(total, part, i)
      <3>1. PICK o \in Nat \ {0}, e \in Nat \ {0} : o = total /\ e = part
        BY <1>6
      <3>2. Remaining(o, e, 1) = o
        BY AllSlices
      <3>3. ASSUME NEW i \in Nat \ {0}
            PROVE  /\ Remaining(o, e, i) \in Nat /\ Slice(o, e, i) \in Nat
                   /\ Remaining(o, e, i + 1) = Remaining(o, e, i) - Slice(o, e, i)
        BY AllSlices
      <3> QED BY <3>1, <3>2, <3>3
    <2>2. 1 \in 1..(m + 1) /\ 0 \in 0..m
      BY <2>0
    <2>3. G[0] = 0
      <3>1. G[0] = total - Remaining(total, part, 1)
        BY <2>2
      <3> QED BY <1>6, <2>1, <2>2, <3>1
    <2>4. \A k \in 1..m : G[k] = G[k - 1] + tiles_layer[k].out[axis.dim]
      <3> TAKE k \in 1..m
      <3>1. k \in 0..m /\ k - 1 \in 0..m /\ k \in Nat \ {0} /\ k - 1 + 1 = k
        BY <2>0
      <3>2. G[k] = total - Remaining(total, part, k + 1) /\ G[k - 1] = total - Remaining(total, part, k)
        BY <3>1
      <3>3. tiles_layer[k].out[axis.dim] = Slice(total, part, k)
        BY <1>7
      <3>4. /\ Remaining(total, part, k) \in Nat /\ Slice(total, part, k) \in Nat
            /\ Remaining(total, part, k + 1) = Remaining(total, part, k) - Slice(total, part, k)
        BY <2>1, <3>1
      <3>5. total \in Nat
        BY <1>6
      <3> HIDE DEF G
      <3> QED BY <3>2, <3>3, <3>4, <3>5
    <2> DEFINE dim == axis.dim
    <2> HIDE DEF G, m
    <2>5. \A i \in 1..(m + 1) : OutputBefore(i, dim) = G[i - 1]
      BY <2>0, <2>3, <2>4, OutputBeforeIs DEF m
    <2> QED BY <2>5
  <1>9. \A i \in 1..(m + 1) : OutputBefore(i, axis.dim) = total - Remaining(total, part, i)
    <2> TAKE i \in 1..(m + 1)
    <2>1. m \in Nat
      BY <1>2, <1>5
    <2>2. i - 1 \in 0..m /\ i - 1 + 1 = i
      BY <2>1
    <2> HIDE DEF total, part, m
    <2> QED BY <1>8, <2>2
  <1> QED BY <1>2, <1>3, <1>4, <1>5, <1>7, <1>9

(* For every layer, strategy and number of tiles: the inputs, outputs and  *)
(* paddings of the tiles fit together, and the tiles cut the output.       *)
LEMMA GeometryHolds == CallInv => TileGeometry
  <1> SUFFICES ASSUME CallInv, IsSplit, NEW axis \in AxisOf(query.strategy)
               PROVE  LET n == Len(tiles_layer)
                          all == 0..(layer.in[axis.dim] - 1)
                      IN  /\ OutputBefore(n + 1, axis.dim) = layer.out[axis.dim]
                          /\ \A i \in 1..n :
                                LET t == tiles_layer[i]
                                    from == OutputBefore(i, axis.dim)
                                    lines == Span(LinesRead(axis, from, from + t.out[axis.dim]))
                                IN  /\ t.out[axis.dim] > 0
                                    /\ t.in[axis.dim] = Cardinality(lines \cap all)
                                    /\ t.pad[axis.begin] = Cardinality({l \in lines : l < 0})
                                    /\ t.pad[axis.end] = IF i = n THEN layer.pad[axis.end]
                                                         ELSE Cardinality({l \in lines : l > Max(all)})
    BY DEF TileGeometry
  <1> DEFINE m == Len(tiles_layer)
             n == query.nTiles
             total == layer.out[axis.dim]
             part == ceil_division(total, n)
             I == layer.in[axis.dim]
             all == 0..(I - 1)
  <1>1. /\ IsDPULayer(layer) /\ WellFormed(layer, axis) /\ n \in Nat \ {0} /\ m \in 1..n
        /\ \A i \in 1..m : /\ Remaining(total, part, i) > 0
                           /\ IsTileOf(tiles_layer[i], layer, query.strategy, n, axis, i)
        /\ \A i \in 1..m : tiles_layer[i].out[axis.dim] = Slice(total, part, i)
        /\ \A i \in 1..(m + 1) : OutputBefore(i, axis.dim) = total - Remaining(total, part, i)
        /\ Remaining(total, part, m + 1) = 0
    BY SplitOfTheState
  <1>2. total \in Nat \ {0} /\ part \in Nat \ {0} /\ I \in Nat \ {0}
    <2>1. total \in Nat \ {0} /\ I \in Nat \ {0}
      BY <1>1 DEF WellFormed
    <2> QED BY <1>1, <2>1, SlicesSuffice
  <1>3. Max(all) = I - 1
    <2> HIDE DEF I
    <2>1. 0..(I - 1) \in SUBSET Int /\ I - 1 \in 0..(I - 1)
      BY <1>2
    <2>2. \A y \in 0..(I - 1) : I - 1 >= y
      BY <1>2
    <2>3. \A x \in 0..(I - 1) : (\A y \in 0..(I - 1) : x >= y) => x = I - 1
      BY <1>2, <2>1
    <2> QED BY <2>1, <2>2, <2>3, Zenon DEF Max
  <1>4. OutputBefore(m + 1, axis.dim) = total
    <2>1. m + 1 \in 1..(m + 1)
      BY <1>1
    <2> HIDE DEF total, part, m
    <2>2. OutputBefore(m + 1, axis.dim) = total - Remaining(total, part, m + 1)
      BY <1>1, <2>1
    <2> QED BY <1>1, <1>2, <2>2
  <1>5. ASSUME NEW i \in 1..m
        PROVE  LET t == tiles_layer[i]
                   from == OutputBefore(i, axis.dim)
                   lines == Span(LinesRead(axis, from, from + t.out[axis.dim]))
               IN  /\ t.out[axis.dim] > 0
                   /\ t.in[axis.dim] = Cardinality(lines \cap all)
                   /\ t.pad[axis.begin] = Cardinality({l \in lines : l < 0})
                   /\ t.pad[axis.end] = IF i = m THEN layer.pad[axis.end]
                                        ELSE Cardinality({l \in lines : l > Max(all)})
    <2> DEFINE t == tiles_layer[i]
               c == TileContext(layer, axis, n)[i]
               from == total - c.remaining
               hull == Hull(Reads(layer, axis, from, from + c.out))
               lines == Span(LinesRead(axis, OutputBefore(i, axis.dim), OutputBefore(i, axis.dim) + t.out[axis.dim]))
    <2>0. i \in 1..n /\ i \in 1..(m + 1) /\ i \in Nat \ {0}
      BY <1>1
    <2>1. c.remaining = Remaining(total, part, i) /\ c.out = Slice(total, part, i) /\ (c.last <=> c.remaining = c.out)
      BY <2>0 DEF TileContext
    <2>2. /\ Slice(total, part, i) > 0 <=> Remaining(total, part, i) > 0
          /\ Remaining(total, part, i + 1) = Remaining(total, part, i) - Slice(total, part, i)
          /\ Remaining(total, part, i) \in Nat /\ Slice(total, part, i) \in Nat
      <3> HIDE DEF total, part
      <3>1. PICK o \in Nat \ {0}, e \in Nat \ {0} : o = total /\ e = part
        BY <1>2
      <3>2. Slice(o, e, i) > 0 <=> Remaining(o, e, i) > 0
        BY <2>0, AllSlices
      <3>3. Remaining(o, e, i + 1) = Remaining(o, e, i) - Slice(o, e, i)
        BY <2>0, AllSlices
      <3>4. Remaining(o, e, i) \in Nat /\ Slice(o, e, i) \in Nat
        BY <2>0, AllSlices
      <3> QED BY <3>1, <3>2, <3>3, <3>4
    <2>3. c.out > 0 /\ t.out[axis.dim] = c.out /\ OutputBefore(i, axis.dim) = from
      BY <1>1, <2>0, <2>1, <2>2
    <2>4. c.last <=> i = m
      <3>1. Remaining(total, part, i + 1) = 0 <=> i = m
        <4>1. i # m => i + 1 \in 1..m
          BY <1>1
        <4> HIDE DEF total, part
        <4>2. i # m => Remaining(total, part, i + 1) > 0
          BY <1>1, <4>1
        <4> QED BY <1>1, <4>2
      <3> HIDE DEF total, part, c
      <3> QED BY <2>1, <2>2, <3>1
    <2>5. TileHasItsLines(layer, axis, n, i)
      <3> DEFINE ll == layer
                 nn == n
      <3>1. WellFormed(ll, axis) /\ nn \in Nat \ {0} /\ i \in 1..nn
        BY <1>1, <2>0
      <3> HIDE DEF ll, nn
      <3>2. TileHasItsLines(ll, axis, nn, i)
        BY <3>1, TilesHaveTheirLines
      <3> QED BY <3>2 DEF ll, nn
    <2>6. /\ c.in = Cardinality(hull \cap (0..(I - 1)))
          /\ c.pad_begin = Cardinality({l \in hull : l < 0})
          /\ c.pad_end = IF c.last THEN layer.pad[axis.end] ELSE Cardinality({l \in hull : l > I - 1})
      BY <2>3, <2>5 DEF TileHasItsLines
    <2>7. hull = lines
      BY <2>3 DEF Hull, Span, Reads, LinesRead
    <2>8. t.in[axis.dim] = c.in /\ t.pad[axis.begin] = c.pad_begin /\ t.pad[axis.end] = c.pad_end
      BY <1>1 DEF IsTileOf
    <2>9. \A l : l > Max(all) <=> l > I - 1
      BY <1>3
    <2> HIDE DEF hull, lines, t, c, I, m
    <2>10. t.in[axis.dim] = Cardinality(lines \cap all)
      BY <2>6, <2>7, <2>8
    <2>11. t.pad[axis.begin] = Cardinality({l \in lines : l < 0})
      BY <2>6, <2>7, <2>8
    <2>12. t.pad[axis.end] = IF i = m THEN layer.pad[axis.end] ELSE Cardinality({l \in lines : l > Max(all)})
      BY <1>3, <2>4, <2>6, <2>7, <2>8
    <2> QED BY <2>3, <2>10, <2>11, <2>12 DEF lines, t
  <1> QED BY <1>4, <1>5

(* In every behaviour, for every layer that passes the check of the        *)
(* complete layer and any number of tiles: the tiles that                  *)
(* SOH_overlapped_inputs, SOW_overlapped_inputs and SOH_HALO_inputs make   *)
(* cut the output into parts that are not empty, and each has exactly the  *)
(* input lines and the padding that its outputs read.                      *)
THEOREM TilesFitTogether == Spec => []TileGeometry
  BY GeometryHolds, CallInvInit, CallInvNext, PTL DEF Spec

-----------------------------------------------------------------------------
(* The halos of SOH_HALO_inputs.  For tile i of m: the first and the last  *)
(* line that it reads of the padded input, how many of the lines that it   *)
(* shares with the next tile are left to that one, and the lines in its    *)
(* own memory.                                                             *)

OutputFrom(l, n, i) == l.out.h - Remaining(l.out.h, ceil_division(l.out.h, n), i)

OutputCount(l, n, i) == Slice(l.out.h, ceil_division(l.out.h, n), i)

Start(l, n, i) == OutputFrom(l, n, i) * l.stride.h - l.pad.top

End(l, n, i) == Start(l, n, i) + (OutputCount(l, n, i) - 1) * l.stride.h + l.kernel.h - 1

Shared(l) ==
    LET overlap == l.kernel.h - l.stride.h
    IN  IF overlap > 0 THEN overlap - ceil_division(overlap, 2) ELSE 0

LastStored(l, n, m, i) ==
    IF i = 0 THEN 0 - 1
    ELSE IF End(l, n, i) >= l.in.h THEN l.in.h - 1
    ELSE IF i = m THEN End(l, n, i) ELSE End(l, n, i) - Shared(l)

FirstStored(l, n, m, i) ==
    LET next == LastStored(l, n, m, i - 1) + 1
    IN  IF Start(l, n, i) < 0 THEN 0 ELSE IF next >= Start(l, n, i) THEN next ELSE Start(l, n, i)

(* The first m of n tiles share the output. *)
ShareTheOutput(l, n, m) ==
    LET d == ceil_division(l.out.h, n)
    IN  /\ m \in 1..n /\ Remaining(l.out.h, d, m + 1) = 0
        /\ \A i \in 1..m : Remaining(l.out.h, d, i) > 0

(* What is known of the sizes of a layer. *)
LEMMA HeightSizes ==
    ASSUME NEW l, WellFormed(l, Axis_H)
    PROVE  /\ l.in.h \in Nat \ {0} /\ l.out.h \in Nat \ {0} /\ l.kernel.h \in Nat \ {0}
           /\ l.stride.h \in Nat \ {0} /\ l.pad.top \in 0..(l.kernel.h - 1) /\ l.pad.bottom \in 0..(l.kernel.h - 1)
           /\ (l.out.h - 1) * l.stride.h + l.kernel.h <= l.in.h + l.pad.top + l.pad.bottom
  BY DEF WellFormed, Axis_H

(* The outputs of a tile begin where those of the one before end. *)
LEMMA OutputsInOrder ==
    ASSUME NEW l, WellFormed(l, Axis_H), NEW n \in Nat \ {0}, NEW m, ShareTheOutput(l, n, m)
    PROVE  /\ OutputFrom(l, n, 1) = 0
           /\ \A i \in 1..m : /\ OutputFrom(l, n, i) \in Nat /\ OutputCount(l, n, i) \in Nat \ {0}
                              /\ OutputFrom(l, n, i + 1) = OutputFrom(l, n, i) + OutputCount(l, n, i)
                              /\ OutputFrom(l, n, i + 1) <= l.out.h
           /\ \A i, j \in 1..m : i <= j => OutputFrom(l, n, i) <= OutputFrom(l, n, j)
           /\ \A i, j \in 1..m : i < j => OutputFrom(l, n, i + 1) <= OutputFrom(l, n, j)
  <1> DEFINE total == l.out.h
             part == ceil_division(total, n)
  <1>1. total \in Nat \ {0}
    BY HeightSizes
  <1>2. part \in Nat \ {0}
    <2> HIDE DEF total
    <2> QED BY <1>1, SlicesSuffice
  <1>3. m \in 1..n /\ \A i \in 1..m : Remaining(total, part, i) > 0
    BY DEF ShareTheOutput
  <1>4. \A i : OutputFrom(l, n, i) = total - Remaining(total, part, i) /\ OutputCount(l, n, i) = Slice(total, part, i)
    BY DEF OutputFrom, OutputCount
  <1> HIDE DEF total, part
  <1>5. OutputFrom(l, n, 1) = 0
    <2>1. Remaining(total, part, 1) = total
      BY <1>1, <1>2, AllSlices
    <2> QED BY <1>1, <1>4, <2>1
  <1>6. ASSUME NEW i \in 1..m
        PROVE  /\ OutputFrom(l, n, i) \in Nat /\ OutputCount(l, n, i) \in Nat \ {0}
               /\ OutputFrom(l, n, i + 1) = OutputFrom(l, n, i) + OutputCount(l, n, i)
               /\ OutputFrom(l, n, i + 1) <= total /\ OutputFrom(l, n, i) = (i - 1) * part
    <2>1. i \in Nat \ {0} /\ total \in Nat
      BY <1>1
    <2>2. Remaining(total, part, i) \in Nat /\ Slice(total, part, i) \in Nat
      BY <1>1, <1>2, <2>1, AllSlices
    <2>3. Remaining(total, part, i + 1) = Remaining(total, part, i) - Slice(total, part, i)
      BY <1>1, <1>2, <2>1, AllSlices
    <2>4. Slice(total, part, i) <= Remaining(total, part, i)
      BY <1>1, <1>2, <2>1, AllSlices
    <2>5. Slice(total, part, i) > 0 <=> Remaining(total, part, i) > 0
      BY <1>1, <1>2, <2>1, AllSlices
    <2>6. Remaining(total, part, i) > 0
      BY <1>3
    <2>7. total - Remaining(total, part, i) = (i - 1) * part
      BY <1>2, <2>1, <2>6, Slices
    <2>8. Remaining(total, part, i) <= total
      <3>1. Remaining(total, part, i) \in 0..total
        BY <1>2, <2>1, Slices
      <3> QED BY <1>1, <3>1
    <2> QED BY <1>1, <1>4, <2>2, <2>3, <2>4, <2>5, <2>6, <2>7, <2>8
  <1>7. ASSUME NEW i \in 1..m, NEW j \in 1..m, i <= j
        PROVE  OutputFrom(l, n, i) <= OutputFrom(l, n, j)
    <2> DEFINE x == i - 1
               y == j - 1
    <2>1. x \in Nat /\ y \in Nat /\ x <= y
      BY <1>7
    <2> HIDE DEF x, y
    <2>2. x * part <= y * part
      BY <1>2, <2>1, ProductGrows
    <2> QED BY <1>6, <2>2 DEF x, y
  <1>8. ASSUME NEW i \in 1..m, NEW j \in 1..m, i < j
        PROVE  OutputFrom(l, n, i + 1) <= OutputFrom(l, n, j)
    <2>1. i + 1 \in 1..m /\ i + 1 <= j
      BY <1>3, <1>8
    <2> QED BY <1>7, <2>1
  <1> QED BY <1>5, <1>6, <1>7, <1>8 DEF total

(* The lines of the tiles come in order too, and every tile reads a line   *)
(* of the input.                                                           *)
LEMMA LinesInOrder ==
    ASSUME NEW l, WellFormed(l, Axis_H), NEW n \in Nat \ {0}, NEW m, ShareTheOutput(l, n, m)
    PROVE  /\ Start(l, n, 1) <= 0
           /\ \A i \in 1..m : /\ Start(l, n, i) \in Int /\ End(l, n, i) \in Int
                              /\ Start(l, n, i) <= l.in.h - 1 /\ End(l, n, i) >= 0
                              /\ End(l, n, i) = (OutputFrom(l, n, i) + OutputCount(l, n, i) - 1) * l.stride.h
                                                   - l.pad.top + l.kernel.h - 1
           /\ \A i, j \in 1..m : i <= j => Start(l, n, i) <= Start(l, n, j)
           /\ \A i, j \in 1..m : i <= j => End(l, n, i) <= End(l, n, j)
           /\ \A i \in 1..(m - 1) : Start(l, n, i + 1) = End(l, n, i) + l.stride.h - l.kernel.h + 1
  <1> DEFINE total == l.out.h
             s == l.stride.h
             k == l.kernel.h
             I == l.in.h
             p == l.pad.top
             pe == l.pad.bottom
             f(i) == OutputFrom(l, n, i)
             c(i) == OutputCount(l, n, i)
             g(i) == f(i) + c(i) - 1
             a(i) == Start(l, n, i)
             b(i) == End(l, n, i)
  <1>1. /\ I \in Nat \ {0} /\ total \in Nat \ {0} /\ k \in Nat \ {0} /\ s \in Nat \ {0} /\ p \in Nat /\ p <= k - 1
        /\ pe \in Nat /\ pe <= k - 1 /\ (total - 1) * s + k <= I + p + pe
    BY HeightSizes
  <1>2. /\ f(1) = 0
        /\ \A i \in 1..m : f(i) \in Nat /\ c(i) \in Nat \ {0} /\ f(i + 1) = f(i) + c(i) /\ f(i + 1) <= total
        /\ \A i, j \in 1..m : i <= j => f(i) <= f(j)
        /\ \A i, j \in 1..m : i < j => f(i + 1) <= f(j)
    BY OutputsInOrder
  <1>3. \A i : a(i) = f(i) * s - p /\ b(i) = a(i) + (c(i) - 1) * s + k - 1
    BY DEF Start, End
  <1>m. m \in Nat \ {0} /\ m \in 1..n
    BY DEF ShareTheOutput
  <1> HIDE DEF total, s, k, I, p, pe, f, c, a, b
  <1>4. ASSUME NEW i \in 1..m
        PROVE  /\ g(i) \in Nat /\ g(i) <= total - 1 /\ f(i) * s \in Nat /\ g(i) * s \in Nat
               /\ f(i) * s <= g(i) * s /\ g(i) * s <= (total - 1) * s /\ (total - 1) * s \in Nat
               /\ g(i) * s = f(i) * s + (c(i) - 1) * s /\ (c(i) - 1) * s \in Nat
    <2> DEFINE x == f(i)
               e == c(i) - 1
               y == g(i)
               z == total - 1
    <2>1. x \in Nat /\ e \in Nat /\ y = x + e /\ y \in Nat /\ x <= y /\ y <= z /\ z \in Nat
      BY <1>1, <1>2
    <2> HIDE DEF x, e, y, z
    <2>2. x * s \in Nat /\ y * s \in Nat /\ x * s <= y * s
      BY <1>1, <2>1, ProductGrows
    <2>3. y * s <= z * s /\ z * s \in Nat
      BY <1>1, <2>1, ProductGrows
    <2>4. y * s = x * s + e * s /\ e * s \in Nat
      BY <1>1, <2>1
    <2>5. y <= total - 1
      BY <2>1 DEF z
    <2> QED BY <2>1, <2>2, <2>3, <2>4, <2>5 DEF x, e, y, z
  <1>5. ASSUME NEW i \in 1..m
        PROVE  /\ a(i) \in Int /\ b(i) \in Int /\ a(i) <= I - 1 /\ b(i) >= 0
               /\ b(i) = g(i) * s - p + k - 1
    <2> DEFINE x == f(i) * s
               y == g(i) * s
               z == (total - 1) * s
               e == (c(i) - 1) * s
    <2>1. x \in Nat /\ y \in Nat /\ z \in Nat /\ x <= y /\ y <= z /\ y = x + e /\ e \in Nat
      BY <1>4
    <2>2. a(i) = x - p /\ b(i) = a(i) + e + k - 1 /\ z + k <= I + p + pe
      BY <1>1, <1>3
    <2>3. (f(i) + c(i) - 1) * s = y
      OBVIOUS
    <2> HIDE DEF x, y, z, e
    <2> QED BY <1>1, <2>1, <2>2, <2>3
  <1>6. a(1) <= 0
    <2>1. f(1) * s = 0
      BY <1>1, <1>2
    <2>2. a(1) = f(1) * s - p
      BY <1>3
    <2> QED BY <1>1, <2>1, <2>2
  <1>7. ASSUME NEW i \in 1..m, NEW j \in 1..m, i <= j
        PROVE  a(i) <= a(j) /\ b(i) <= b(j)
    <2> DEFINE x == f(i)
               y == f(j)
               u == g(i)
               v == g(j)
    <2>1. x \in Nat /\ y \in Nat /\ x <= y /\ u \in Nat /\ v \in Nat
      BY <1>2, <1>4, <1>7
    <2>2. u <= v
      <3>1. CASE i = j
        BY <2>1, <3>1
      <3>2. CASE i # j
        <4>1. i < j
          BY <1>7, <3>2
        <4>2. f(i + 1) <= f(j) /\ f(i + 1) = f(i) + c(i) /\ c(j) \in Nat \ {0} /\ c(i) \in Nat
          BY <1>2, <4>1
        <4> QED BY <2>1, <4>2
      <3> QED BY <3>1, <3>2
    <2>3. a(i) = x * s - p /\ a(j) = y * s - p /\ b(i) = u * s - p + k - 1 /\ b(j) = v * s - p + k - 1
      BY <1>3, <1>5
    <2> HIDE DEF x, y, u, v
    <2>4. x * s <= y * s /\ x * s \in Nat /\ y * s \in Nat
      BY <1>1, <2>1, ProductGrows
    <2>5. u * s <= v * s /\ u * s \in Nat /\ v * s \in Nat
      BY <1>1, <2>1, <2>2, ProductGrows
    <2> QED BY <1>1, <2>3, <2>4, <2>5
  <1>8. ASSUME NEW i \in 1..(m - 1)
        PROVE  a(i + 1) = b(i) + s - k + 1
    <2>1. i \in 1..m /\ i + 1 \in 1..m
      BY <1>m
    <2> DEFINE x == g(i)
    <2>2. x \in Nat /\ f(i + 1) = x + 1 /\ b(i) = x * s - p + k - 1
      BY <1>2, <1>4, <1>5, <2>1
    <2>3. a(i + 1) = f(i + 1) * s - p
      BY <1>3
    <2> HIDE DEF x
    <2>4. (x + 1) * s = x * s + s /\ x * s \in Nat
      BY <1>1, <2>2
    <2> QED BY <1>1, <2>2, <2>3, <2>4
  <1> QED BY <1>5, <1>6, <1>7, <1>8 DEF total, s, k, I, p, f, c, a, b

(* The loop variables of SOH_HALO_inputs, by these lines. *)
LEMMA HaloContext ==
    ASSUME NEW l, WellFormed(l, Axis_H), NEW n \in Nat \ {0}, NEW m, ShareTheOutput(l, n, m), NEW i \in 1..m
    PROVE  LET c == TileContext(l, Axis_H, n)[i]
           IN  /\ c.available = l.in.h - Start(l, n, i)
               /\ c.required \in Int /\ c.required = End(l, n, i) - Start(l, n, i) + 1
               /\ c.required - c.out * l.stride.h = l.kernel.h - l.stride.h
               /\ c.last <=> i = m
               /\ c.pad_begin = 0 <=> Start(l, n, i) >= 0
               /\ i # m => c.pad_end = IF End(l, n, i) >= l.in.h THEN End(l, n, i) + 1 - l.in.h ELSE 0
  <1> DEFINE c == TileContext(l, Axis_H, n)[i]
             total == l.out.h
             d == ceil_division(total, n)
             s == l.stride.h
             k == l.kernel.h
             I == l.in.h
             p == l.pad.top
             pe == l.pad.bottom
             a == Start(l, n, i)
             b == End(l, n, i)
             begin == (total - c.remaining) * s - p
             need == begin + c.required - I
             taken == IF need <= 0 THEN 0 ELSE IF need <= pe THEN need ELSE pe
  <1>1. /\ I \in Nat \ {0} /\ total \in Nat \ {0} /\ k \in Nat \ {0} /\ s \in Nat \ {0} /\ p \in Nat
        /\ pe \in Nat /\ (total - 1) * s + k <= I + p + pe
    BY HeightSizes
  <1>2. m \in 1..n /\ \A j \in 1..m : Remaining(total, d, j) > 0
    BY DEF ShareTheOutput
  <1>3. i \in 1..n /\ i \in Nat \ {0} /\ i + 1 \in Nat
    BY <1>2
  <1>4. d \in Nat \ {0}
    <2> HIDE DEF total
    <2> QED BY <1>1, SlicesSuffice
  <1>5. /\ Remaining(total, d, i) \in Nat /\ Slice(total, d, i) \in Nat /\ Slice(total, d, i) > 0
        /\ Remaining(total, d, i + 1) = Remaining(total, d, i) - Slice(total, d, i)
    <2> HIDE DEF total, d
    <2>1. Remaining(total, d, i) \in Nat /\ Slice(total, d, i) \in Nat
      BY <1>1, <1>3, <1>4, AllSlices
    <2>2. Slice(total, d, i) > 0 <=> Remaining(total, d, i) > 0
      BY <1>1, <1>3, <1>4, AllSlices
    <2>3. Remaining(total, d, i + 1) = Remaining(total, d, i) - Slice(total, d, i)
      BY <1>1, <1>3, <1>4, AllSlices
    <2> QED BY <1>2, <2>1, <2>2, <2>3
  <1>6. c.out > 0 /\ c.remaining = Remaining(total, d, i) /\ c.out = Slice(total, d, i)
    <2>1. c.remaining = Remaining(total, d, i) /\ c.out = Slice(total, d, i)
      BY <1>3 DEF TileContext, Axis_H
    <2> HIDE DEF c
    <2> QED BY <1>5, <2>1
  <1>7. /\ c.required = (c.out - 1) * s + k /\ c.required \in Nat
        /\ begin \in Int /\ c.available = I - begin
        /\ c.last <=> c.remaining = c.out
        /\ c.pad_begin = IF begin >= 0 THEN 0 ELSE 0 - begin
        /\ c.pad_end = IF c.last THEN pe ELSE taken
    BY <1>3, <1>6, ContextOf, SMTT(30) DEF Axis_H
  <1>8. begin = a
    BY <1>6 DEF Start, OutputFrom
  <1>9. b = a + (c.out - 1) * s + k - 1
    BY <1>6 DEF End, OutputCount
  <1>10. /\ a \in Int /\ b \in Int /\ b = (OutputFrom(l, n, i) + OutputCount(l, n, i) - 1) * s - p + k - 1
         /\ OutputFrom(l, n, i) \in Nat /\ OutputCount(l, n, i) \in Nat \ {0}
         /\ OutputFrom(l, n, i + 1) = OutputFrom(l, n, i) + OutputCount(l, n, i) /\ OutputFrom(l, n, i + 1) <= total
    <2>1. a \in Int /\ b \in Int /\ b = (OutputFrom(l, n, i) + OutputCount(l, n, i) - 1) * s - p + k - 1
      BY LinesInOrder
    <2>2. OutputFrom(l, n, i) \in Nat /\ OutputCount(l, n, i) \in Nat \ {0}
      BY OutputsInOrder
    <2>3. OutputFrom(l, n, i + 1) = OutputFrom(l, n, i) + OutputCount(l, n, i) /\ OutputFrom(l, n, i + 1) <= total
      BY OutputsInOrder
    <2> QED BY <2>1, <2>2, <2>3
  <1>11. b <= I + pe - 1
    <2> DEFINE x == OutputFrom(l, n, i) + OutputCount(l, n, i) - 1
               z == total - 1
    <2>1. x \in Nat /\ z \in Nat /\ x <= z
      BY <1>1, <1>10
    <2>2. b = x * s - p + k - 1 /\ z * s + k <= I + p + pe
      BY <1>1, <1>10
    <2> HIDE DEF x, z, b
    <2>3. x * s <= z * s /\ x * s \in Nat /\ z * s \in Nat
      BY <1>1, <2>1, ProductGrows
    <2> QED BY <1>1, <2>2, <2>3
  <1>12. c.last <=> i = m
    <2>1. Remaining(total, d, i + 1) = 0 <=> i = m
      <3>1. i # m => i + 1 \in 1..m
        BY <1>2
      <3>2. Remaining(total, d, m + 1) = 0
        BY DEF ShareTheOutput
      <3> HIDE DEF total, d
      <3>3. i # m => Remaining(total, d, i + 1) > 0
        BY <1>2, <3>1
      <3> QED BY <3>2, <3>3
    <2> HIDE DEF total, d, c
    <2> QED BY <1>5, <1>6, <1>7, <2>1
  <1>13. need = b + 1 - I /\ c.required = b - a + 1
    <2> DEFINE w == (c.out - 1) * s
    <2>1. w + k \in Nat /\ c.required = w + k /\ b = a + w + k - 1
      BY <1>7, <1>9
    <2>2. w \in Int
      <3>1. c.out \in Nat
        BY <1>5, <1>6
      <3> HIDE DEF c
      <3> QED BY <1>1, <3>1
    <2> HIDE DEF w, c, a, b
    <2> QED BY <1>1, <1>8, <1>10, <2>1, <2>2
  <1>14. c.required - c.out * s = k - s
    <2> DEFINE e == c.out
    <2>1. e \in Nat /\ c.required = (e - 1) * s + k
      BY <1>5, <1>6, <1>7
    <2> HIDE DEF e
    <2>2. (e - 1) * s = e * s - s
      BY <1>1, <2>1
    <2>3. e * s \in Int /\ (e - 1) * s \in Int
      BY <1>1, <2>1
    <2> QED BY <1>1, <2>1, <2>2, <2>3 DEF e
  <1> HIDE DEF c, a, b, begin, need, I, s, k, total, d, p, pe
  <1>15. c.pad_begin = 0 <=> a >= 0
    BY <1>7, <1>8, <1>10
  <1>16. i # m => c.pad_end = IF b >= I THEN b + 1 - I ELSE 0
    BY <1>1, <1>7, <1>10, <1>11, <1>12, <1>13
  <1>17. c.available = I - a
    BY <1>7, <1>8
  <1>18. c.required \in Int
    BY <1>7
  <1> QED BY <1>12, <1>13, <1>14, <1>15, <1>16, <1>17, <1>18 DEF c, a, b, I, s, k

(* How many of the lines two tiles share are left to the second of them:   *)
(* none, unless both read lines that the other does.                       *)
LEMMA SharedIs ==
    ASSUME NEW l, WellFormed(l, Axis_H)
    PROVE  /\ Shared(l) \in Nat
           /\ Shared(l) > 0 => Shared(l) <= l.kernel.h - l.stride.h
           /\ Shared(l) = LET overlap == l.kernel.h - l.stride.h
                          IN  IF overlap > 0 THEN overlap - ceil_division(overlap, 2) ELSE 0
  <1> DEFINE o == l.kernel.h - l.stride.h
             q == ceil_division(o, 2)
  <1>1. o \in Int
    BY HeightSizes
  <1>2. Shared(l) = IF o > 0 THEN o - q ELSE 0
    BY DEF Shared
  <1>3. o > 0 => q \in Nat /\ q <= o
    <2> SUFFICES ASSUME o > 0
                 PROVE  q \in Nat /\ q <= o
      OBVIOUS
    <2> HIDE DEF o
    <2>1. o \in Nat /\ 2 \in Nat \ {0}
      BY <1>1
    <2>2. q \in Nat /\ q * 2 < o + 2
      BY <2>1, CeilDivision
    <2> HIDE DEF q
    <2> QED BY <1>1, <2>1, <2>2
  <1> HIDE DEF o, q
  <1>4. Shared(l) \in Nat /\ (Shared(l) > 0 => Shared(l) <= o)
    BY <1>1, <1>2, <1>3
  <1> QED BY <1>2, <1>4 DEF o, q

(* Where the memory of a tile ends, and what it reads of its neighbours.   *)
HaloLines(l, n, m, i) ==
    LET ctx == TileContext(l, Axis_H, n)
    IN  /\ halo_bottom(l, ctx, i) = (IF i = m \/ End(l, n, i) >= l.in.h THEN 0 ELSE Shared(l))
        /\ i < m => memory_end(l, ctx, i) = LastStored(l, n, m, i) - l.in.h
        /\ halo_top(l, ctx, i) = IF Start(l, n, i) < 0 THEN 0
                                 ELSE FirstStored(l, n, m, i) - Start(l, n, i)

(* The halos of every tile are those of its lines. *)
LEMMA HaloLinesAre ==
    ASSUME NEW l, WellFormed(l, Axis_H), NEW n \in Nat \ {0}, NEW m, ShareTheOutput(l, n, m), NEW i \in 1..m
    PROVE  HaloLines(l, n, m, i)
  <1> DEFINE ctx == TileContext(l, Axis_H, n)
             a(j) == Start(l, n, j)
             b(j) == End(l, n, j)
             I == l.in.h
             sh == Shared(l)
             ov == l.kernel.h - l.stride.h
             bottom(j) == halo_bottom(l, ctx, j)
             last(j) == LastStored(l, n, m, j)
  <1>1. I \in Nat \ {0} /\ m \in Nat \ {0} /\ ov \in Int
    BY HeightSizes DEF ShareTheOutput
  <1>2. ASSUME NEW j \in 1..m
        PROVE  /\ ctx[j].available = I - a(j) /\ ctx[j].required \in Int /\ ctx[j].required = b(j) - a(j) + 1
               /\ ctx[j].required - ctx[j].out * l.stride.h = ov
               /\ ctx[j].last <=> j = m
               /\ ctx[j].pad_begin = 0 <=> a(j) >= 0
               /\ j # m => ctx[j].pad_end = IF b(j) >= I THEN b(j) + 1 - I ELSE 0
    BY HaloContext
  <1>3. ASSUME NEW j \in 1..m
        PROVE  a(j) \in Int /\ b(j) \in Int
    BY LinesInOrder
  <1>4. sh \in Nat /\ sh = IF ov > 0 THEN ov - ceil_division(ov, 2) ELSE 0
    BY SharedIs
  <1>5. ASSUME NEW j \in 1..m
        PROVE  bottom(j) = IF j = m \/ b(j) >= I THEN 0 ELSE sh
    <2>1. bottom(j) = IF ctx[j].pad_end = 0 /\ ~ctx[j].last /\ ov > 0 THEN ov - ceil_division(ov, 2) ELSE 0
      BY <1>2 DEF halo_bottom
    <2> HIDE DEF ctx, a, b, I, ov, bottom, sh
    <2>2. CASE j = m
      BY <1>2, <2>1, <2>2
    <2>3. CASE j # m /\ b(j) >= I
      <3>1. ctx[j].pad_end # 0
        BY <1>1, <1>2, <1>3, <2>3
      <3> QED BY <2>1, <2>3, <3>1
    <2>4. CASE j # m /\ ~(b(j) >= I)
      <3>1. ctx[j].pad_end = 0 /\ ~ctx[j].last
        BY <1>2, <2>4
      <3> QED BY <1>4, <2>1, <2>4, <3>1
    <2> QED BY <2>2, <2>3, <2>4
  <1>6. ASSUME NEW j \in 0..m, j < m
        PROVE  memory_end(l, ctx, j) = last(j) - I /\ last(j) \in Int
    <2>1. CASE j = 0
      <3>1. memory_end(l, ctx, j) = 0 - I - 1
        BY <2>1 DEF memory_end
      <3>2. last(j) = 0 - 1
        BY <2>1 DEF LastStored
      <3> QED BY <1>1, <3>1, <3>2
    <2>2. CASE j # 0
      <3>1. j \in 1..m /\ j # m
        BY <1>1, <1>6, <2>2
      <3>2. memory_end(l, ctx, j) = (0 - ctx[j].available + ctx[j].required - 1) - bottom(j) - ctx[j].pad_end
        <4>1. bottom(j) = halo_bottom(l, ctx, j)
          OBVIOUS
        <4> HIDE DEF bottom, ctx
        <4> QED BY <2>2, <4>1 DEF memory_end, compute_end, compute_start
      <3>3. last(j) = IF b(j) >= I THEN I - 1 ELSE b(j) - sh
        BY <2>2, <3>1 DEF LastStored
      <3> HIDE DEF ctx, a, b, I, ov, bottom, sh, last
      <3>4. bottom(j) = IF b(j) >= I THEN 0 ELSE sh
        BY <1>5, <3>1
      <3>5. ctx[j].pad_end = IF b(j) >= I THEN b(j) + 1 - I ELSE 0
        BY <1>2, <3>1
      <3>6. ctx[j].available = I - a(j) /\ ctx[j].required = b(j) - a(j) + 1
        BY <1>2, <3>1
      <3>7. a(j) \in Int /\ b(j) \in Int
        BY <1>3, <3>1
      <3> QED BY <1>1, <1>4, <3>2, <3>3, <3>4, <3>5, <3>6, <3>7
    <2> QED BY <2>1, <2>2
  <1>7. halo_top(l, ctx, i) = IF a(i) < 0 THEN 0 ELSE FirstStored(l, n, m, i) - a(i)
    <2> DEFINE x == last(i - 1) - I + 1
               y == a(i) - I
    <2>1. i - 1 \in 0..m /\ i - 1 < m
      BY <1>1
    <2>2. memory_end(l, ctx, i - 1) = last(i - 1) - I /\ last(i - 1) \in Int
      BY <1>6, <2>1
    <2>3. 0 - ctx[i].available = y /\ a(i) \in Int
      <3>1. ctx[i].available = I - a(i) /\ a(i) \in Int
        BY <1>2, <1>3
      <3> HIDE DEF ctx, a, I
      <3> QED BY <1>1, <3>1
    <2>4. halo_top(l, ctx, i) = IF ctx[i].pad_begin = 0 THEN Max({memory_end(l, ctx, i - 1) + 1, y}) - y ELSE 0
      BY <2>3 DEF halo_top, compute_start, NotStoredHere
    <2>5. halo_top(l, ctx, i) = IF a(i) >= 0 THEN Max({x, y}) - y ELSE 0
      BY <1>2, <2>2, <2>4
    <2>6. FirstStored(l, n, m, i) = IF a(i) < 0 THEN 0 ELSE IF last(i - 1) + 1 >= a(i) THEN last(i - 1) + 1 ELSE a(i)
      BY DEF FirstStored
    <2>7. x \in Int /\ y \in Int
      BY <1>1, <2>2, <2>3
    <2>8. Max({x, y}) = IF x >= y THEN x ELSE y
      <3> HIDE DEF x, y
      <3> QED BY <2>7, LargerSmaller
    <2> HIDE DEF a, last, I
    <2> QED BY <1>1, <2>2, <2>3, <2>5, <2>6, <2>8
  <1>8. bottom(i) = IF i = m \/ b(i) >= I THEN 0 ELSE sh
    BY <1>5
  <1>9. i < m => memory_end(l, ctx, i) = last(i) - I
    <2>1. i \in 0..m
      BY <1>1
    <2> QED BY <1>6, <2>1
  <1> QED BY <1>7, <1>8, <1>9 DEF HaloLines

(* The lines in the memories of the tiles are numbers; those of a tile are *)
(* among the lines that it reads.                                          *)
LEMMA StoredAreRead ==
    ASSUME NEW l, WellFormed(l, Axis_H), NEW n \in Nat \ {0}, NEW m, ShareTheOutput(l, n, m)
    PROVE  /\ \A i \in 0..m : LastStored(l, n, m, i) \in Int
           /\ \A i \in 1..m : FirstStored(l, n, m, i) \in Int
           /\ \A i \in 1..m : LastStored(l, n, m, i) = IF End(l, n, i) >= l.in.h THEN l.in.h - 1
                                                       ELSE IF i = m THEN End(l, n, i)
                                                       ELSE End(l, n, i) - Shared(l)
           /\ \A i \in 1..m : FirstStored(l, n, m, i) =
                                 IF Start(l, n, i) < 0 THEN 0
                                 ELSE IF LastStored(l, n, m, i - 1) + 1 >= Start(l, n, i)
                                 THEN LastStored(l, n, m, i - 1) + 1 ELSE Start(l, n, i)
  <1>1. l.in.h \in Nat \ {0} /\ m \in Nat /\ Shared(l) \in Nat
    BY HeightSizes, SharedIs DEF ShareTheOutput
  <1>2. \A i \in 1..m : Start(l, n, i) \in Int /\ End(l, n, i) \in Int
    BY LinesInOrder
  <1>3. ASSUME NEW i \in 1..m
        PROVE  LastStored(l, n, m, i) = IF End(l, n, i) >= l.in.h THEN l.in.h - 1
                                        ELSE IF i = m THEN End(l, n, i)
                                        ELSE End(l, n, i) - Shared(l)
    BY <1>1 DEF LastStored
  <1>4. ASSUME NEW i \in 0..m
        PROVE  LastStored(l, n, m, i) \in Int
    <2>1. CASE i = 0
      BY <2>1 DEF LastStored
    <2>2. CASE i # 0
      BY <1>1, <1>2, <1>3, <2>2
    <2> QED BY <2>1, <2>2
  <1>5. ASSUME NEW i \in 1..m
        PROVE  FirstStored(l, n, m, i) = IF Start(l, n, i) < 0 THEN 0
                                         ELSE IF LastStored(l, n, m, i - 1) + 1 >= Start(l, n, i)
                                         THEN LastStored(l, n, m, i - 1) + 1 ELSE Start(l, n, i)
    BY DEF FirstStored
  <1>6. ASSUME NEW i \in 1..m
        PROVE  FirstStored(l, n, m, i) \in Int
    <2>1. i - 1 \in 0..m
      BY <1>1
    <2> QED BY <1>2, <1>4, <1>5, <2>1
  <1> QED BY <1>3, <1>4, <1>5, <1>6

(* What a tile stores begins behind what the ones before it store, unless  *)
(* it begins with padding.                                                 *)
LEMMA NoneStoredTwice ==
    ASSUME NEW l, WellFormed(l, Axis_H), NEW n \in Nat \ {0}, NEW m, ShareTheOutput(l, n, m),
           NEW i \in 1..m, NEW j \in 1..m, i < j, Start(l, n, j) >= 0
    PROVE  LastStored(l, n, m, i) < FirstStored(l, n, m, j)
  <1> DEFINE p == j - 1
             b(x) == End(l, n, x)
             last(x) == LastStored(l, n, m, x)
             I == l.in.h
             sh == Shared(l)
  <1>1. I \in Nat \ {0} /\ sh \in Nat /\ m \in Nat
    BY HeightSizes, SharedIs DEF ShareTheOutput
  <1>2. p \in 1..m /\ i <= p /\ p # m /\ i # m
    BY <1>1
  <1>3. b(i) \in Int /\ b(p) \in Int
    BY <1>2, LinesInOrder
  <1>4. b(i) <= b(p)
    BY <1>2, LinesInOrder
  <1>5. last(i) = IF b(i) >= I THEN I - 1 ELSE b(i) - sh
    BY <1>2, StoredAreRead
  <1>6. last(p) = IF b(p) >= I THEN I - 1 ELSE b(p) - sh
    BY <1>2, StoredAreRead
  <1>7. FirstStored(l, n, m, j) = IF Start(l, n, j) < 0 THEN 0
                                  ELSE IF last(p) + 1 >= Start(l, n, j) THEN last(p) + 1 ELSE Start(l, n, j)
    BY StoredAreRead
  <1>8. Start(l, n, j) \in Int
    BY LinesInOrder
  <1> HIDE DEF b, last, I, sh, p
  <1>9. last(i) <= last(p) /\ last(p) \in Int /\ last(i) \in Int
    BY <1>1, <1>3, <1>4, <1>5, <1>6
  <1> QED BY <1>7, <1>8, <1>9 DEF last

(* A line of the input that a tile reads is stored by some tile.           *)
LEMMA EveryLineStored ==
    ASSUME NEW l, WellFormed(l, Axis_H), NEW n \in Nat \ {0}, NEW m, ShareTheOutput(l, n, m),
           NEW i \in 1..m, NEW x \in 0..(l.in.h - 1), Start(l, n, i) <= x, x <= End(l, n, i)
    PROVE  \E j \in 1..m : FirstStored(l, n, m, j) <= x /\ x <= LastStored(l, n, m, j)
  <1> DEFINE a(y) == Start(l, n, y)
             b(y) == End(l, n, y)
             last(y) == LastStored(l, n, m, y)
             I == l.in.h
             sh == Shared(l)
             s == l.stride.h
             k == l.kernel.h
             T == {y \in Nat : y >= 1 /\ y <= m /\ x <= last(y)}
             j == Min(T)
             p == j - 1
  <1>1. I \in Nat \ {0} /\ sh \in Nat /\ m \in Nat \ {0} /\ s \in Int /\ k \in Int /\ x \in Int
    BY HeightSizes, SharedIs DEF ShareTheOutput
  <1>2. \A y \in 1..m : a(y) \in Int /\ b(y) \in Int
    BY LinesInOrder
  <1>3. \A y \in 1..m : last(y) = IF b(y) >= I THEN I - 1 ELSE IF y = m THEN b(y) ELSE b(y) - sh
    BY StoredAreRead
  <1>4. m \in T
    <2>1. b(i) <= b(m) /\ m \in 1..m
      BY <1>1, LinesInOrder
    <2>2. last(m) = IF b(m) >= I THEN I - 1 ELSE b(m)
      BY <1>3, <2>1
    <2> HIDE DEF last
    <2> QED BY <1>1, <1>2, <2>1, <2>2
  <1>5. j \in T /\ \A y \in T : j <= y
    <2>1. T \in SUBSET Nat
      OBVIOUS
    <2> HIDE DEF T
    <2> QED BY <1>4, <2>1, LeastNumber
  <1> HIDE DEF j
  <1>6. j \in 1..m /\ x <= last(j) /\ last(j) \in Int
    <2>1. j \in 1..m /\ x <= last(j)
      BY <1>1, <1>5
    <2> HIDE DEF last
    <2> QED BY <1>1, <1>2, <1>3, <2>1
  <1>7. FirstStored(l, n, m, j) = IF a(j) < 0 THEN 0 ELSE IF last(p) + 1 >= a(j) THEN last(p) + 1 ELSE a(j)
    BY <1>6, StoredAreRead
  <1>8. FirstStored(l, n, m, j) <= x
    <2>1. CASE j = 1
      <3>1. last(p) = 0 - 1
        BY <2>1 DEF LastStored
      <3>2. a(1) <= 0 /\ a(1) \in Int
        BY <1>1, <1>2, LinesInOrder
      <3> HIDE DEF a, last
      <3> QED BY <1>1, <1>7, <2>1, <3>1, <3>2
    <2>2. CASE j # 1
      <3>1. p \in 1..m /\ p # m /\ p \in Nat /\ p < j /\ p + 1 = j /\ p \in 1..(m - 1)
        BY <1>1, <1>6, <2>2
      <3>2. last(p) = IF b(p) >= I THEN I - 1 ELSE b(p) - sh
        BY <1>3, <3>1
      <3>3. b(p) \in Int /\ a(j) \in Int
        BY <1>2, <1>6, <3>1
      <3>4. last(p) \in Int
        BY <1>1, <3>2, <3>3
      <3>5. ~(x <= last(p))
        <4>1. p \notin T
          <5> HIDE DEF T
          <5> QED BY <1>5, <1>6, <3>1
        <4> HIDE DEF last
        <4> QED BY <3>1, <4>1
      <3>6. a(j) <= x
        <4>1. CASE j <= i
          <5>1. a(j) <= a(i)
            BY <1>6, <4>1, LinesInOrder
          <5> QED BY <1>1, <1>2, <1>6, <5>1
        <4>2. CASE ~(j <= i)
          <5>1. i <= p
            BY <1>6, <3>1, <4>2
          <5>2. b(i) <= b(p)
            BY <3>1, <5>1, LinesInOrder
          <5>3. a(j) = b(p) + s - k + 1
            BY <3>1, LinesInOrder
          <5>4. sh > 0 => sh <= k - s
            BY SharedIs
          <5>5. x <= b(i) /\ x <= I - 1 /\ b(i) \in Int
            BY <1>1, <1>2
          <5> HIDE DEF a, b, last, I, sh, s, k, T, p
          <5> QED BY <1>1, <3>2, <3>3, <3>4, <3>5, <5>2, <5>3, <5>4, <5>5
        <4> QED BY <4>1, <4>2
      <3> HIDE DEF a, last, p
      <3> QED BY <1>1, <1>7, <3>3, <3>4, <3>5, <3>6
    <2> QED BY <2>1, <2>2
  <1> QED BY <1>6, <1>8

(* What SOH_HALO_inputs writes to the input halo of a tile. *)
LEMMA InputHalo ==
    ASSUME NEW l, IsDPULayer(l), NEW ctx, NEW i
    PROVE  /\ HALO_halo(l, ctx, i).input.top = halo_top(l, ctx, i)
           /\ HALO_halo(l, ctx, i).input.bottom = halo_bottom(l, ctx, i)
  <1> DEFINE t == halo_top(l, ctx, i)
             u == halo_bottom(l, ctx, i)
             v == setVerticalNoHalo(l.halo)
             w == [v EXCEPT !.input.top = t, !.input.bottom = u]
             r == ctx[i].remaining
             o == ctx[i].out
  <1>1. l.halo \in [{"input", "output", "broadcast_cnt", "inbound"} ->
                       [{"top", "bottom", "left", "right", "front", "back"} -> Int]]
    <2>1. DOMAIN HaloWorkload = {"input", "output", "broadcast_cnt", "inbound"}
      BY DEF HaloWorkload
    <2>2. DOMAIN NoHalo = {"top", "bottom", "left", "right", "front", "back"}
      BY DEF NoHalo
    <2> QED BY <2>1, <2>2 DEF IsDPULayer
  <1>2. v.input = [l.halo["input"] EXCEPT !.top = 0, !.bottom = 0] /\ "input" \in DOMAIN v
    BY <1>1 DEF setVerticalNoHalo
  <1>3. DOMAIN v.input = {"top", "bottom", "left", "right", "front", "back"}
    BY <1>1, <1>2
  <1> HIDE DEF t, u, v
  <1>4. w.input.top = t /\ w.input.bottom = u
    BY <1>2, <1>3
  <1> HIDE DEF w, r, o
  <1>5. setInboundHaloVerticalForBroadcastAll(w, l.out.h, r, o).input = w.input
    BY DEF setInboundHaloVerticalForBroadcastAll
  <1>6. HALO_halo(l, ctx, i) = IF l.owt > 1 THEN setInboundHaloVerticalForBroadcastAll(w, l.out.h, r, o) ELSE w
    BY DEF HALO_halo, w, v, t, u, r, o
  <1>7. HALO_halo(l, ctx, i).input = w.input
    BY <1>5, <1>6
  <1> QED BY <1>4, <1>7 DEF t, u

(* The part of an interval of lines that is in the input, without some at  *)
(* each end.                                                               *)
KeptLines(lines, t, u) == {z \in lines : z >= Min(lines) + t /\ z <= Max(lines) - u}

(* The first and the last line of the input that an interval reaches. *)
FirstIn(a) == IF a >= 0 THEN a ELSE 0

LastIn(b, I) == IF b <= I - 1 THEN b ELSE I - 1

(* What is kept of an interval of lines lies between these two. *)
LEMMA PartOfLines ==
    ASSUME NEW a \in Int, NEW b \in Int, NEW I \in Nat \ {0}, a <= b, a <= I - 1, b >= 0,
           NEW t \in Int, NEW u \in Int
    PROVE  \A z : z \in KeptLines((a..b) \cap (0..(I - 1)), t, u)
                     <=> z \in FirstIn(a)..LastIn(b, I) /\ z >= FirstIn(a) + t /\ z <= LastIn(b, I) - u
  <1> DEFINE x == FirstIn(a)
             y == LastIn(b, I)
             lines == (a..b) \cap (0..(I - 1))
  <1>1. lines = x..y /\ x \in Int /\ y \in Int /\ x <= y
    BY DEF FirstIn, LastIn
  <1> HIDE DEF x, y, lines
  <1>2. Min(lines) = x
    <2>1. x \in lines /\ \A z \in lines : x <= z
      BY <1>1
    <2>2. \A v \in lines : (\A z \in lines : v <= z) => v = x
      BY <1>1, <2>1
    <2> QED BY <2>1, <2>2, Zenon DEF Min
  <1>3. Max(lines) = y
    <2>1. y \in lines /\ \A z \in lines : y >= z
      BY <1>1
    <2>2. \A v \in lines : (\A z \in lines : v >= z) => v = y
      BY <1>1, <2>1
    <2> QED BY <2>1, <2>2, Zenon DEF Max
  <1> QED BY <1>1, <1>2, <1>3 DEF x, y, lines, KeptLines

(* The lines in the memory of tile i, for constants. *)
Stored(l, n, m, i) ==
    LET lines == (Start(l, n, i)..End(l, n, i)) \cap (0..(l.in.h - 1))
        halo == HALO_halo(l, TileContext(l, Axis_H, n), i)
    IN  KeptLines(lines, halo.input.top, halo.input.bottom)

(* The lines in the memory of a tile go from FirstStored to LastStored. *)
LEMMA StoredIs ==
    ASSUME NEW l, IsDPULayer(l), WellFormed(l, Axis_H), NEW n \in Nat \ {0}, NEW m, ShareTheOutput(l, n, m),
           NEW i \in 1..m
    PROVE  /\ \A x \in Stored(l, n, m, i) : x \in Int /\ FirstStored(l, n, m, i) <= x /\ x <= LastStored(l, n, m, i)
           /\ \A x \in 0..(l.in.h - 1) :
                 FirstStored(l, n, m, i) <= x /\ x <= LastStored(l, n, m, i) => x \in Stored(l, n, m, i)
  <1> DEFINE ctx == TileContext(l, Axis_H, n)
             a == Start(l, n, i)
             b == End(l, n, i)
             I == l.in.h
             t == HALO_halo(l, ctx, i).input.top
             u == HALO_halo(l, ctx, i).input.bottom
             lo == FirstStored(l, n, m, i)
             hi == LastStored(l, n, m, i)
             prev == LastStored(l, n, m, i - 1)
             sh == Shared(l)
             lines == (a..b) \cap (0..(I - 1))
             x0 == FirstIn(a)
             y0 == LastIn(b, I)
  <1>1. I \in Nat \ {0} /\ m \in Nat /\ sh \in Nat
    BY HeightSizes, SharedIs DEF ShareTheOutput
  <1>2. a \in Int /\ b \in Int /\ a <= I - 1 /\ b >= 0
    BY LinesInOrder
  <1>3. a <= b
    <2>1. /\ OutputFrom(l, n, i) \in Nat /\ OutputCount(l, n, i) \in Nat \ {0}
      BY OutputsInOrder
    <2>2. l.stride.h \in Nat /\ l.kernel.h \in Nat \ {0}
      BY HeightSizes
    <2> DEFINE e == OutputCount(l, n, i) - 1
    <2>3. e \in Nat
      BY <2>1
    <2>4. b = a + e * l.stride.h + l.kernel.h - 1
      BY DEF End
    <2> HIDE DEF e, a, b
    <2>5. e * l.stride.h \in Nat
      BY <2>2, <2>3
    <2> QED BY <1>2, <2>2, <2>4, <2>5
  <1>4. HaloLines(l, n, m, i)
    BY HaloLinesAre
  <1>5. t = IF a < 0 THEN 0 ELSE lo - a
    BY <1>4, InputHalo DEF HaloLines
  <1>6. u = IF i = m \/ b >= I THEN 0 ELSE sh
    BY <1>4, InputHalo DEF HaloLines
  <1>7. hi = IF b >= I THEN I - 1 ELSE IF i = m THEN b ELSE b - sh
    BY StoredAreRead
  <1>8. lo \in Int /\ hi \in Int
    <2>1. i \in 0..m
      BY <1>1
    <2> QED BY <2>1, StoredAreRead
  <1>9. lo = IF a < 0 THEN 0 ELSE IF prev + 1 >= a THEN prev + 1 ELSE a
    BY StoredAreRead
  <1>10. prev \in Int
    <2>1. i - 1 \in 0..m
      BY <1>1
    <2> QED BY <2>1, StoredAreRead
  <1>11. Stored(l, n, m, i) = KeptLines(lines, t, u)
    BY DEF Stored
  <1> HIDE DEF a, b, I, t, u, lo, hi, prev, sh
  <1>12. t \in Int /\ u \in Int
    BY <1>1, <1>2, <1>5, <1>6, <1>8
  <1>13. \A z : z \in KeptLines(lines, t, u) <=> z \in x0..y0 /\ z >= x0 + t /\ z <= y0 - u
    BY <1>1, <1>2, <1>3, <1>12, PartOfLines
  <1>14. x0 + t = lo /\ y0 - u = hi
    BY <1>1, <1>2, <1>5, <1>6, <1>7, <1>8, <1>9 DEF FirstIn, LastIn
  <1>15. lo >= x0 /\ hi <= y0 /\ x0 \in Int /\ y0 \in Int
    BY <1>1, <1>2, <1>7, <1>9, <1>10 DEF FirstIn, LastIn
  <1> HIDE DEF lines, x0, y0
  <1>16. \A x : x \in Stored(l, n, m, i) <=> x \in Int /\ lo <= x /\ x <= hi
    <2>1. \A x : x \in Stored(l, n, m, i) <=> x \in x0..y0 /\ x >= lo /\ x <= hi
      BY <1>11, <1>13, <1>14
    <2> QED BY <1>8, <1>15, <2>1
  <1> QED BY <1>16 DEF lo, hi, I

(* The first and the last line that a tile reads, as HaloLinesStoredOnce   *)
(* has them.                                                               *)
LEMMA LinesOfTile ==
    ASSUME NEW l, WellFormed(l, Axis_H), NEW n \in Nat \ {0}, NEW m, ShareTheOutput(l, n, m), NEW i \in 1..m
    PROVE  /\ Hull(Reads(l, Axis_H, OutputFrom(l, n, i), OutputFrom(l, n, i) + OutputCount(l, n, i)))
                  = Start(l, n, i)..End(l, n, i)
           /\ \A x \in Reads(l, Axis_H, OutputFrom(l, n, i), OutputFrom(l, n, i + 1)) :
                 x \in Int /\ Start(l, n, i) <= x /\ x <= End(l, n, i)
  <1> DEFINE from == OutputFrom(l, n, i)
             to == OutputFrom(l, n, i) + OutputCount(l, n, i)
             a == Start(l, n, i)
             b == End(l, n, i)
             s == l.stride.h
             k == l.kernel.h
             p == l.pad.top
  <1>1. from \in Nat /\ to \in Nat /\ from < to /\ OutputFrom(l, n, i + 1) = to
    BY OutputsInOrder
  <1>2. a \in Int /\ b \in Int /\ b = (to - 1) * s - p + k - 1
    <2>1. a \in Int /\ b \in Int
      BY LinesInOrder
    <2>2. b = (OutputFrom(l, n, i) + OutputCount(l, n, i) - 1) * s - p + k - 1
      BY LinesInOrder
    <2>3. OutputFrom(l, n, i) + OutputCount(l, n, i) - 1 = to - 1
      <3>1. OutputFrom(l, n, i) \in Nat /\ OutputCount(l, n, i) \in Nat
        BY OutputsInOrder
      <3> QED BY <3>1
    <2> HIDE DEF a, b, s, k, p, to
    <2> QED BY <2>1, <2>2, <2>3
  <1>3. a = from * s - p
    BY DEF Start
  <1>4. s \in Nat /\ k \in Nat \ {0} /\ p \in Nat
    BY HeightSizes
  <1>5. l.stride[Axis_H.dim] = s /\ l.kernel[Axis_H.dim] = k /\ l.pad[Axis_H.begin] = p
    BY DEF Axis_H
  <1> HIDE DEF from, to, a, b, s, k, p
  <1>6. Hull(Reads(l, Axis_H, from, to)) = a..b
    <2>1. Hull(Reads(l, Axis_H, from, to)) =
              (from * l.stride[Axis_H.dim] - l.pad[Axis_H.begin])
              ..((to - 1) * l.stride[Axis_H.dim] - l.pad[Axis_H.begin] + l.kernel[Axis_H.dim] - 1)
      BY <1>1, HullOfReads, ZenonT(30)
    <2> QED BY <1>2, <1>3, <1>5, <2>1
  <1>7. ASSUME NEW x \in Reads(l, Axis_H, from, to)
        PROVE  x \in Int /\ a <= x /\ x <= b
    <2>1. PICK o \in from..(to - 1) : x \in (o * s - p)..(o * s - p + k - 1)
      BY <1>5 DEF Reads
    <2>2. o \in Nat /\ to - 1 \in Nat /\ from <= o /\ o <= to - 1
      BY <1>1
    <2>3. from * s <= o * s /\ from * s \in Nat /\ o * s \in Nat
      BY <1>1, <1>4, <2>2, ProductGrows
    <2>4. o * s <= (to - 1) * s /\ (to - 1) * s \in Nat
      BY <1>4, <2>2, ProductGrows
    <2> QED BY <1>2, <1>3, <1>4, <2>1, <2>3, <2>4
  <1> QED BY <1>1, <1>6, <1>7 DEF from, to, a, b

(* The halos of the tiles in any state of the invariant. *)
LEMMA HalosHold == CallInv => HaloLinesStoredOnce
  <1> SUFFICES ASSUME CallInv, IsSplit, query.strategy = "SOH_HaloRead"
               PROVE  LET n == Len(tiles_layer)
                          stored == UNION {LinesStored(i) : i \in 1..n}
                          read(i) == LinesRead(Axis_H, OutputBefore(i, "h"), OutputBefore(i + 1, "h"))
                      IN  /\ \A i, j \in 1..n : i < j /\ tiles_layer[j].pad.top = 0
                                                    => LinesStored(i) \cap LinesStored(j) = {}
                          /\ \A i \in 1..n : read(i) \cap 0..(layer.in.h - 1) \subseteq stored
    BY DEF HaloLinesStoredOnce
  <1>1. PICK l, n, m : l = layer /\ n = query.nTiles /\ m = Len(tiles_layer)
    OBVIOUS
  <1>2. Axis_H \in AxisOf(query.strategy) /\ Axis_H.dim = "h" /\ Axis_H.begin = "top"
    BY DEF AxisOf, Axis_H
  <1>3. /\ IsDPULayer(l) /\ WellFormed(l, Axis_H) /\ n \in Nat \ {0} /\ m \in 1..n
        /\ \A i \in 1..m : Remaining(l.out.h, ceil_division(l.out.h, n), i) > 0
        /\ \A i \in 1..m : IsTileOf(tiles_layer[i], l, query.strategy, n, Axis_H, i)
        /\ \A i \in 1..m : tiles_layer[i].out.h = OutputCount(l, n, i)
        /\ \A i \in 1..(m + 1) : OutputBefore(i, "h") = OutputFrom(l, n, i)
        /\ Remaining(l.out.h, ceil_division(l.out.h, n), m + 1) = 0
    BY <1>1, <1>2, SplitOfTheState DEF OutputCount, OutputFrom
  <1>4. ShareTheOutput(l, n, m)
    BY <1>3 DEF ShareTheOutput
  <1>5. ASSUME NEW i \in 1..m
        PROVE  /\ LinesStored(i) = Stored(l, n, m, i)
               /\ tiles_layer[i].pad.top = 0 => Start(l, n, i) >= 0
    <2>1. /\ tiles_layer[i].halo = HALO_halo(l, TileContext(l, Axis_H, n), i)
          /\ tiles_layer[i].pad.top = TileContext(l, Axis_H, n)[i].pad_begin
      BY <1>2, <1>3 DEF IsTileOf
    <2>2. TileContext(l, Axis_H, n)[i].pad_begin = 0 <=> Start(l, n, i) >= 0
      BY <1>3, <1>4, HaloContext
    <2> DEFINE from == OutputFrom(l, n, i)
               to == OutputFrom(l, n, i) + OutputCount(l, n, i)
               lines == (Start(l, n, i)..End(l, n, i)) \cap (0..(l.in.h - 1))
               h == HALO_halo(l, TileContext(l, Axis_H, n), i)
    <2>3. Hull(Reads(l, Axis_H, from, to)) = Start(l, n, i)..End(l, n, i)
      BY <1>3, <1>4, LinesOfTile
    <2>4. Span(LinesRead(Axis_H, from, to)) = Hull(Reads(l, Axis_H, from, to))
      BY <1>1 DEF Span, LinesRead, Hull, Reads
    <2>5. OutputBefore(i, "h") = from /\ tiles_layer[i].out.h = OutputCount(l, n, i)
      <3>1. i \in 1..(m + 1)
        BY <1>3
      <3> QED BY <1>3, <3>1
    <2>6. LinesStored(i) = LET found == Span(LinesRead(Axis_H, from, to)) \cap 0..(layer.in.h - 1)
                           IN  {x \in found : x >= Min(found) + h.input.top /\ x <= Max(found) - h.input.bottom}
      BY <2>1, <2>5 DEF LinesStored
    <2>7. Span(LinesRead(Axis_H, from, to)) \cap 0..(layer.in.h - 1) = lines
      BY <1>1, <2>3, <2>4
    <2>8. LinesStored(i) = KeptLines(lines, h.input.top, h.input.bottom)
      <3> HIDE DEF from, to, lines, h
      <3> QED BY <2>6, <2>7 DEF KeptLines
    <2> QED BY <2>1, <2>2, <2>8 DEF Stored
  <1>6. ASSUME NEW i \in 1..m, NEW j \in 1..m, i < j, tiles_layer[j].pad.top = 0
        PROVE  LinesStored(i) \cap LinesStored(j) = {}
    <2>1. LastStored(l, n, m, i) < FirstStored(l, n, m, j)
      BY <1>3, <1>4, <1>5, <1>6, NoneStoredTwice
    <2>2. i \in 0..m /\ m \in Nat
      BY <1>3
    <2>3. LastStored(l, n, m, i) \in Int /\ FirstStored(l, n, m, j) \in Int
      BY <1>3, <1>4, <2>2, StoredAreRead
    <2>4. \A x \in Stored(l, n, m, i) : x \in Int /\ x <= LastStored(l, n, m, i)
      BY <1>3, <1>4, StoredIs
    <2>5. \A x \in Stored(l, n, m, j) : x \in Int /\ FirstStored(l, n, m, j) <= x
      BY <1>3, <1>4, StoredIs
    <2>6. \A x : ~(x \in Stored(l, n, m, i) /\ x \in Stored(l, n, m, j))
      BY <2>1, <2>3, <2>4, <2>5
    <2> QED BY <1>5, <2>6
  <1>7. ASSUME NEW i \in 1..m,
               NEW x \in LinesRead(Axis_H, OutputBefore(i, "h"), OutputBefore(i + 1, "h")), x \in 0..(layer.in.h - 1)
        PROVE  \E j \in 1..m : x \in LinesStored(j)
    <2>1. OutputBefore(i, "h") = OutputFrom(l, n, i) /\ OutputBefore(i + 1, "h") = OutputFrom(l, n, i + 1)
      <3>1. i \in 1..(m + 1) /\ i + 1 \in 1..(m + 1)
        BY <1>3
      <3> QED BY <1>3, <3>1
    <2>2. x \in Reads(l, Axis_H, OutputFrom(l, n, i), OutputFrom(l, n, i + 1))
      BY <1>1, <2>1 DEF Reads, LinesRead
    <2>3. Start(l, n, i) <= x /\ x <= End(l, n, i)
      BY <1>3, <1>4, <2>2, LinesOfTile
    <2>4. x \in 0..(l.in.h - 1)
      BY <1>1, <1>7
    <2>5. \E j \in 1..m : FirstStored(l, n, m, j) <= x /\ x <= LastStored(l, n, m, j)
      BY <1>3, <1>4, <2>3, <2>4, EveryLineStored
    <2>6. PICK j \in 1..m : FirstStored(l, n, m, j) <= x /\ x <= LastStored(l, n, m, j)
      BY <2>5
    <2>7. x \in Stored(l, n, m, j)
      BY <1>3, <1>4, <2>4, <2>6, StoredIs
    <2> QED BY <1>5, <2>7
  <1>8. \A i \in 1..m : LinesRead(Axis_H, OutputBefore(i, "h"), OutputBefore(i + 1, "h")) \cap 0..(layer.in.h - 1)
                           \subseteq UNION {LinesStored(j) : j \in 1..m}
    <2> SUFFICES ASSUME NEW i \in 1..m,
                        NEW x \in LinesRead(Axis_H, OutputBefore(i, "h"), OutputBefore(i + 1, "h")) \cap 0..(layer.in.h - 1)
                 PROVE  x \in UNION {LinesStored(j) : j \in 1..m}
      OBVIOUS
    <2>1. \E j \in 1..m : x \in LinesStored(j)
      BY <1>7
    <2> QED BY <2>1
  <1> QED BY <1>1, <1>6, <1>8

(* In every behaviour, for every layer that passes the check of the        *)
(* complete layer and any number of tiles: under SOH_HALO_inputs a line of *)
(* the input that a tile reads is in the memory of some tile, and in the   *)
(* memory of two only if the second begins with padding.                   *)
THEOREM HalosCoverTheInput == Spec => []HaloLinesStoredOnce
  BY HalosHold, CallInvInit, CallInvNext, PTL DEF Spec

-----------------------------------------------------------------------------
(* The iteration of a range. *)

(* n is a multiple of a. *)
Multiple(n, a) == \E k \in Nat : n = k * a

(* No remainder is the same as a multiple. *)
LEMMA RemainderZero ==
    ASSUME NEW n \in Nat, NEW a \in Nat \ {0}
    PROVE  n % a = 0 <=> Multiple(n, a)
  <1> DEFINE q == n \div a
             r == n % a
  <1>1. q \in Nat /\ r \in 0..(a - 1) /\ n = a * q + r
    OBVIOUS
  <1> HIDE DEF q, r
  <1>2. a * q = q * a /\ q * a \in Nat
    BY <1>1
  <1>3. r = 0 => Multiple(n, a)
    BY <1>1, <1>2 DEF Multiple
  <1>4. ASSUME Multiple(n, a)
        PROVE  r = 0
    <2>1. PICK k \in Nat : n = k * a
      BY <1>4 DEF Multiple
    <2>2. CASE k <= q
      <3>1. k * a <= q * a /\ k * a \in Nat
        BY <1>1, <2>2, ProductGrows
      <3> QED BY <1>1, <1>2, <2>1, <3>1
    <2>3. CASE k > q
      <3>1. q + 1 \in Nat /\ q + 1 <= k
        BY <1>1, <2>3
      <3>2. (q + 1) * a <= k * a /\ (q + 1) * a \in Nat /\ k * a \in Nat
        BY <3>1, ProductGrows
      <3>3. (q + 1) * a = q * a + a
        BY <1>1
      <3> QED BY <1>1, <1>2, <2>1, <3>2, <3>3
    <2> QED BY <1>1, <2>2, <2>3
  <1> QED BY <1>3, <1>4 DEF r

(* Sums, differences and multiples of multiples are multiples. *)
LEMMA Multiples ==
    ASSUME NEW a \in Nat, NEW x \in Nat, Multiple(x, a)
    PROVE  /\ Multiple(0, a) /\ Multiple(a, a)
           /\ \A y \in Nat : Multiple(y, a) => Multiple(x + y, a)
           /\ \A y \in Nat : Multiple(y, a) /\ y <= x => Multiple(x - y, a)
           /\ \A y \in Nat : Multiple(y, x) => Multiple(y, a)
  <1>1. PICK k \in Nat : x = k * a
    BY DEF Multiple
  <1>2. Multiple(0, a) /\ Multiple(a, a)
    <2>1. 0 = 0 * a /\ a = 1 * a
      OBVIOUS
    <2> QED BY <2>1 DEF Multiple
  <1>3. ASSUME NEW y \in Nat, Multiple(y, a)
        PROVE  Multiple(x + y, a)
    <2>1. PICK j \in Nat : y = j * a
      BY <1>3 DEF Multiple
    <2>2. x + y = (k + j) * a /\ k + j \in Nat
      BY <1>1, <2>1
    <2> QED BY <2>2 DEF Multiple
  <1>4. ASSUME NEW y \in Nat, Multiple(y, a), y <= x
        PROVE  Multiple(x - y, a)
    <2>1. PICK j \in Nat : y = j * a
      BY <1>4 DEF Multiple
    <2>2. CASE j <= k
      <3>1. k - j \in Nat /\ x - y = (k - j) * a
        BY <1>1, <2>1, <2>2
      <3> QED BY <3>1 DEF Multiple
    <2>3. CASE j > k
      <3>1. k * a <= j * a
        BY <2>3, ProductGrows
      <3>2. x - y = 0
        BY <1>1, <1>4, <2>1, <3>1
      <3> QED BY <1>2, <3>2
    <2> QED BY <2>2, <2>3
  <1>5. ASSUME NEW y \in Nat, Multiple(y, x)
        PROVE  Multiple(y, a)
    <2>1. PICK j \in Nat : y = j * x
      BY <1>5 DEF Multiple
    <2>2. j * (k * a) = (j * k) * a /\ j * k \in Nat
      OBVIOUS
    <2>3. y = (j * k) * a
      BY <1>1, <2>1, <2>2
    <2> QED BY <2>2, <2>3 DEF Multiple
  <1> QED BY <1>2, <1>3, <1>4, <1>5

(* Two multiples are at least the number apart. *)
LEMMA MultiplesApart ==
    ASSUME NEW a \in Nat, NEW x \in Nat, NEW y \in Nat, Multiple(x, a), Multiple(y, a), x < y
    PROVE  x + a <= y
  <1>1. PICK k \in Nat : x = k * a
    BY DEF Multiple
  <1>2. PICK j \in Nat : y = j * a
    BY DEF Multiple
  <1>3. k < j
    <2>1. SUFFICES ASSUME j <= k
                   PROVE  FALSE
      BY <1>1
    <2>2. j * a <= k * a
      BY <2>1, ProductGrows
    <2> QED BY <1>1, <1>2, <2>2
  <1>4. k + 1 \in Nat /\ k + 1 <= j /\ (k + 1) * a = k * a + a
    BY <1>3
  <1>5. (k + 1) * a <= j * a
    BY <1>4, ProductGrows
  <1> QED BY <1>1, <1>2, <1>4, <1>5

(* The smallest common multiple divides every other one. *)
LEMMA LcmIs ==
    ASSUME NEW a \in Nat \ {0}, NEW b \in Nat \ {0}
    PROVE  /\ Lcm(a, b) \in Nat \ {0} /\ Lcm(a, b) >= a /\ Lcm(a, b) >= b
           /\ Multiple(Lcm(a, b), a) /\ Multiple(Lcm(a, b), b)
           /\ \A n \in Nat : Multiple(n, a) /\ Multiple(n, b) => Multiple(n, Lcm(a, b))
  <1> DEFINE S == {n \in a..(a * b) : n % a = 0 /\ n % b = 0}
             c == Min(S)
  <1>1. a * b \in Nat /\ a * b >= a /\ a * b = b * a
    <2>1. 1 * a <= b * a /\ 1 * a = a
      BY ProductGrows
    <2>2. a * b = b * a /\ b * a \in Nat
      OBVIOUS
    <2> QED BY <2>1, <2>2
  <1>2. S \in SUBSET Nat /\ \A n \in Nat : n \in S <=> n >= a /\ n <= a * b /\ Multiple(n, a) /\ Multiple(n, b)
    BY <1>1, RemainderZero
  <1>3. a * b \in S
    <2>1. Multiple(a * b, a) /\ Multiple(a * b, b)
      BY <1>1 DEF Multiple
    <2> HIDE DEF S
    <2> QED BY <1>1, <1>2, <2>1
  <1>4. c \in S /\ \A y \in S : c <= y
    <2> HIDE DEF S
    <2> QED BY <1>2, <1>3, LeastNumber
  <1> HIDE DEF S, c
  <1>5. c \in Nat /\ c >= a /\ c <= a * b /\ Multiple(c, a) /\ Multiple(c, b)
    BY <1>2, <1>4
  <1>6. c >= b
    <2>1. Multiple(0, b)
      BY <1>5, Multiples
    <2>2. 0 + b <= c
      BY <1>5, <2>1, MultiplesApart
    <2> QED BY <1>5, <2>2
  <1>7. ASSUME NEW n \in Nat, Multiple(n, a), Multiple(n, b)
        PROVE  Multiple(n, c)
    <2> DEFINE q == n \div c
               r == n % c
    <2>1. c \in Nat \ {0}
      BY <1>5
    <2>2. q \in Nat /\ r \in 0..(c - 1) /\ n = c * q + r
      BY <2>1
    <2> HIDE DEF q, r
    <2>3. c * q = q * c /\ q * c \in Nat /\ r \in Nat
      BY <2>1, <2>2
    <2>4. Multiple(q * c, c) /\ q * c <= n /\ n - q * c = r
      BY <2>2, <2>3 DEF Multiple
    <2>5. Multiple(q * c, a) /\ Multiple(q * c, b)
      BY <1>5, <2>3, <2>4, Multiples
    <2>6. Multiple(r, a) /\ Multiple(r, b)
      BY <1>7, <2>3, <2>4, <2>5, Multiples
    <2>7. r = 0
      <3> SUFFICES ASSUME r # 0
                   PROVE  FALSE
        OBVIOUS
      <3>1. Multiple(0, a) /\ 0 < r
        BY <2>2, <2>6, Multiples
      <3>2. 0 + a <= r
        BY <2>3, <2>6, <3>1, MultiplesApart
      <3>3. r \in S
        BY <1>1, <1>2, <1>5, <2>2, <2>3, <2>6, <3>2
      <3> QED BY <1>4, <1>5, <2>2, <3>3
    <2> QED BY <2>2, <2>3, <2>7 DEF Multiple
  <1> QED BY <1>5, <1>6, <1>7 DEF Lcm, c, S

(* UpTo is the first multiple from a value on. *)
LEMMA UpToIs ==
    ASSUME NEW v \in Nat, NEW s \in Nat \ {0}
    PROVE  /\ UpTo(v, s) \in Nat /\ UpTo(v, s) >= v /\ Multiple(UpTo(v, s), s)
           /\ \A w \in Nat : Multiple(w, s) /\ w >= v => UpTo(v, s) <= w
  <1> DEFINE q == ceil_division(v, s)
             u == UpTo(v, s)
  <1>1. q \in Nat /\ q * s >= v /\ q * s < v + s
    BY CeilDivision
  <1>2. u = q * s
    BY DEF UpTo, ceil_division
  <1> HIDE DEF q, u
  <1>3. q * s \in Nat
    BY <1>1
  <1>4. Multiple(u, s) /\ u \in Nat
    BY <1>1, <1>2, <1>3 DEF Multiple
  <1>5. ASSUME NEW w \in Nat, Multiple(w, s), w >= v
        PROVE  u <= w
    <2>1. SUFFICES ASSUME w < u
                   PROVE  FALSE
      BY <1>4
    <2>2. w + s <= u
      BY <1>4, <1>5, <2>1, MultiplesApart
    <2> QED BY <1>1, <1>2, <1>5, <2>2
  <1> QED BY <1>1, <1>2, <1>4, <1>5 DEF u

(* What is_in asks of a value between the bounds, in one piece: from the   *)
(* second divisor on, a multiple of the common multiple.                   *)
Valid(r, v) ==
    /\ v \in Nat /\ Multiple(v, r.divisor)
    /\ r.second # 0 /\ v >= r.second => Multiple(v, r.lcm)

(* Next is the first valid value that is `from` or larger. *)
FirstFrom(r, from, next) ==
    Valid(r, next) /\ next >= from /\ \A w \in Nat : Valid(r, w) /\ w >= from => next <= w

(* What the constructor's bounds and divisors amount to. *)
LEMMA RangeSizes ==
    ASSUME NEW r, IsRange(r)
    PROVE  /\ r.lower \in Nat /\ r.upper \in Nat /\ r.second \in Nat
           /\ r.divisor \in Nat \ {0} /\ r.lcm \in Nat \ {0}
           /\ Multiple(r.lcm, r.divisor)
           /\ r.second # 0 => r.lcm >= r.second /\ Multiple(r.lcm, r.second)
           /\ r.second # 0 => \A n \in Nat : Multiple(n, r.divisor) /\ Multiple(n, r.second) => Multiple(n, r.lcm)
           /\ \A n \in Nat : Multiple(n, r.lcm) => Multiple(n, r.divisor)
           /\ r.second # 0 => \A n \in Nat : Multiple(n, r.lcm) => Multiple(n, r.second)
  <1> DEFINE d == r.divisor
             e == r.second
             c == r.lcm
  <1>1. r.lower \in Nat /\ r.upper \in Nat /\ e \in Nat /\ d \in Nat \ {0} /\ c = IF e = 0 THEN d ELSE Lcm(d, e)
    BY DEF IsRange, NoDivisor
  <1> HIDE DEF d, e, c
  <1>2. CASE e = 0
    <2>1. Multiple(d, d)
      <3>1. d = 1 * d
        BY <1>1
      <3> QED BY <3>1 DEF Multiple
    <2> QED BY <1>1, <1>2, <2>1 DEF d, e, c
  <1>3. CASE e # 0
    <2>1. /\ c \in Nat \ {0} /\ c >= e /\ Multiple(c, d) /\ Multiple(c, e)
          /\ \A n \in Nat : Multiple(n, d) /\ Multiple(n, e) => Multiple(n, c)
      BY <1>1, <1>3, LcmIs
    <2>2. \A n \in Nat : Multiple(n, c) => Multiple(n, d)
      BY <1>1, <2>1, Multiples
    <2>3. \A n \in Nat : Multiple(n, c) => Multiple(n, e)
      BY <1>1, <2>1, Multiples
    <2> QED BY <1>1, <2>1, <2>2, <2>3 DEF d, e, c
  <1> QED BY <1>2, <1>3

(* is_in accepts the values between the bounds that are valid. *)
LEMMA ValidIsIn ==
    ASSUME NEW r, IsRange(r), NEW v \in r.lower..r.upper
    PROVE  is_in(r, v) <=> Valid(r, v)
  <1>1. v \in Nat /\ r.divisor \in Nat \ {0} /\ r.second \in Nat
    BY RangeSizes
  <1>2. v % r.divisor = 0 <=> Multiple(v, r.divisor)
    BY <1>1, RemainderZero
  <1>3. r.second # 0 => (v % r.second = 0 <=> Multiple(v, r.second))
    <2> DEFINE e == r.second
    <2>1. e # 0 => e \in Nat \ {0}
      BY <1>1
    <2> HIDE DEF e
    <2>2. e # 0 => (v % e = 0 <=> Multiple(v, e))
      BY <1>1, <2>1, RemainderZero
    <2> QED BY <2>2 DEF e
  <1>4. r.second # 0 /\ Multiple(v, r.divisor) => (Multiple(v, r.second) <=> Multiple(v, r.lcm))
    BY <1>1, RangeSizes
  <1> QED BY <1>1, <1>2, <1>3, <1>4 DEF is_in, Valid, NoDivisor

(* The first value of a range, and the one after a valid value, when the   *)
(* upper bound is left aside.                                              *)
LEMMA AlignedIsFirst ==
    ASSUME NEW r, IsRange(r), NEW v \in Nat
    PROVE  FirstFrom(r, v, alignUnboundedToNextValid(r, v))
  <1> DEFINE d == r.divisor
             e == r.second
             c == r.lcm
             a == UpTo(v, d)
             b == UpTo(v, c)
             n == alignUnboundedToNextValid(r, v)
  <1>1. /\ e \in Nat /\ d \in Nat \ {0} /\ c \in Nat \ {0}
        /\ \A x \in Nat : Multiple(x, c) => Multiple(x, d)
    BY RangeSizes
  <1>2. \A w : Valid(r, w) <=> w \in Nat /\ Multiple(w, d) /\ (e # 0 /\ w >= e => Multiple(w, c))
    BY DEF Valid
  <1>3. /\ a \in Nat /\ a >= v /\ Multiple(a, d)
        /\ \A w \in Nat : Multiple(w, d) /\ w >= v => a <= w
    BY <1>1, UpToIs
  <1>4. /\ b \in Nat /\ b >= v /\ Multiple(b, c)
        /\ \A w \in Nat : Multiple(w, c) /\ w >= v => b <= w
    BY <1>1, UpToIs
  <1> DEFINE f == UpTo(a, c)
             g == UpTo(b, c)
  <1>5. /\ f \in Nat /\ f >= a /\ Multiple(f, c)
        /\ \A w \in Nat : Multiple(w, c) /\ w >= a => f <= w
    <2> HIDE DEF a
    <2> QED BY <1>1, <1>3, UpToIs
  <1>6. n = IF e # 0 /\ v >= e THEN b
            ELSE IF e # 0 /\ a >= e THEN f ELSE a
    <2>1. CASE e # 0 /\ v >= e
      <3>1. getStepForDomain(r, v) = c
        BY <2>1 DEF getStepForDomain, NoDivisor
      <3>2. ~(v < e)
        BY <1>1, <2>1
      <3> QED BY <2>1, <3>1, <3>2 DEF alignUnboundedToNextValid, isAcrossSecondDivisorBorder
    <2>2. CASE ~(e # 0 /\ v >= e)
      <3>1. getStepForDomain(r, v) = d
        BY <2>2 DEF getStepForDomain, NoDivisor
      <3>2. e # 0 => v < e
        BY <1>1, <2>2
      <3> QED BY <2>2, <3>1, <3>2 DEF alignUnboundedToNextValid, isAcrossSecondDivisorBorder, NoDivisor
    <2> QED BY <2>1, <2>2
  <1> HIDE DEF a, b, f, g, n, d, e, c
  <1>7. Valid(r, n) /\ n >= v
    BY <1>1, <1>2, <1>3, <1>4, <1>5, <1>6
  <1>8. ASSUME NEW w \in Nat, Valid(r, w), w >= v
        PROVE  n <= w
    BY <1>1, <1>2, <1>3, <1>4, <1>5, <1>6, <1>8
  <1> QED BY <1>7, <1>8 DEF FirstFrom, n

(* The value that incrementAssumingIsValid tries. *)
Following(r, v) ==
    LET step == v + getStepForDomain(r, v)
    IN  IF isAcrossSecondDivisorBorder(r, v, step) THEN r.lcm ELSE step

(* From a valid value it is the next one. *)
LEMMA FollowingIsNext ==
    ASSUME NEW r, IsRange(r), NEW v, Valid(r, v)
    PROVE  FirstFrom(r, v + 1, Following(r, v))
  <1> DEFINE d == r.divisor
             e == r.second
             c == r.lcm
             n == Following(r, v)
  <1>1. /\ e \in Nat /\ d \in Nat \ {0} /\ c \in Nat \ {0} /\ (e # 0 => c >= e) /\ Multiple(c, d)
        /\ \A x \in Nat : Multiple(x, c) => Multiple(x, d)
    BY RangeSizes
  <1>2. \A w : Valid(r, w) <=> w \in Nat /\ Multiple(w, d) /\ (e # 0 /\ w >= e => Multiple(w, c))
    BY DEF Valid
  <1>3. v \in Nat /\ Multiple(v, d)
    BY <1>2
  <1>4. n = IF e # 0 /\ v >= e THEN v + c ELSE IF e # 0 /\ v + d >= e THEN c ELSE v + d
    <2>1. CASE e # 0 /\ v >= e
      <3>1. getStepForDomain(r, v) = c /\ ~(v < e)
        BY <1>1, <1>3, <2>1 DEF getStepForDomain, NoDivisor
      <3> QED BY <2>1, <3>1 DEF Following, isAcrossSecondDivisorBorder
    <2>2. CASE ~(e # 0 /\ v >= e)
      <3>1. getStepForDomain(r, v) = d /\ (e # 0 => v < e)
        BY <1>1, <1>3, <2>2 DEF getStepForDomain, NoDivisor
      <3> QED BY <2>2, <3>1 DEF Following, isAcrossSecondDivisorBorder, NoDivisor
    <2> QED BY <2>1, <2>2
  <1> HIDE DEF d, e, c, n
  <1>5. Multiple(d, d) /\ Multiple(v + d, d)
    BY <1>1, <1>3, Multiples
  <1>6. Multiple(v, c) => Multiple(c, c) /\ Multiple(v + c, c)
    BY <1>1, <1>3, Multiples
  <1>c. Multiple(c, c)
    <2>1. c = 1 * c
      BY <1>1
    <2> QED BY <2>1 DEF Multiple
  <1>7. ASSUME NEW w \in Nat, w > v, Multiple(w, d)
        PROVE  v + d <= w
    BY <1>1, <1>3, <1>7, MultiplesApart
  <1>8. ASSUME NEW w \in Nat, w > v, Multiple(w, c), Multiple(v, c)
        PROVE  v + c <= w
    BY <1>1, <1>3, <1>8, MultiplesApart
  <1>9. ASSUME NEW w \in Nat, w > 0, Multiple(w, c)
        PROVE  c <= w
    <2>1. Multiple(0, c)
      BY <1>1, <1>9, Multiples
    <2>2. 0 + c <= w
      BY <1>1, <1>9, <2>1, MultiplesApart
    <2> QED BY <1>1, <2>2
  <1>10. Valid(r, n) /\ n >= v + 1
    <2>1. CASE e # 0 /\ v >= e
      BY <1>1, <1>2, <1>3, <1>4, <1>6, <2>1
    <2>2. CASE ~(e # 0 /\ v >= e)
      BY <1>1, <1>2, <1>3, <1>4, <1>5, <1>c, <2>2
    <2> QED BY <2>1, <2>2
  <1>11. ASSUME NEW w \in Nat, Valid(r, w), w >= v + 1
         PROVE  n <= w
    <2>1. w > v /\ w > 0 /\ Multiple(w, d) /\ (e # 0 /\ w >= e => Multiple(w, c))
      BY <1>2, <1>3, <1>11
    <2>2. v + d <= w
      BY <1>7, <2>1
    <2>3. CASE e # 0 /\ v >= e
      <3>1. Multiple(v, c) /\ Multiple(w, c)
        BY <1>1, <1>2, <1>3, <2>1, <2>3
      <3> QED BY <1>4, <1>8, <2>1, <2>3, <3>1
    <2>4. CASE ~(e # 0 /\ v >= e) /\ e # 0 /\ v + d >= e
      <3>1. Multiple(w, c)
        BY <1>1, <1>3, <2>1, <2>2, <2>4
      <3> QED BY <1>4, <1>9, <2>1, <2>4, <3>1
    <2>5. CASE ~(e # 0 /\ v >= e) /\ ~(e # 0 /\ v + d >= e)
      BY <1>4, <2>2, <2>5
    <2> QED BY <2>3, <2>4, <2>5
  <1> QED BY <1>10, <1>11 DEF FirstFrom, n

(* Where the iterator stands after every step. *)
LEMMA IteratorSteps ==
    ASSUME NEW r, IsRange(r)
    PROVE  /\ DOMAIN Iterator(r) = 0..(r.upper + 1)
           /\ Iterator(r)[0] = roundToNextLarger(r, r.lower)
           /\ \A k \in 1..(r.upper + 1) :
                 Iterator(r)[k] = IF Iterator(r)[k - 1] = Nullopt THEN Nullopt
                                  ELSE incrementAssumingIsValid(r, Iterator(r)[k - 1])
  <1> DEFINE A == roundToNextLarger(r, r.lower)
             N == r.upper + 1
             T(x) == IF x = Nullopt THEN Nullopt ELSE incrementAssumingIsValid(r, x)
             P(n, g) == g = [k \in 0..n |-> IF k = 0 THEN A ELSE T(g[k - 1])]
             at == CHOOSE g : P(N, g)
             S == {n \in 0..N : \E g : P(n, g)}
  <1>1. N \in Nat
    BY RangeSizes
  <1>2. Iterator(r) = at
    BY DEF Iterator
  <1> HIDE DEF A, N, T
  <1>3. 0 \in S
    <2>1. P(0, [k \in 0..0 |-> A])
      OBVIOUS
    <2>2. \E g : P(0, g)
      <3> HIDE DEF P
      <3> QED BY <2>1
    <2> QED BY <1>1, <2>2
  <1>4. \A n \in 0..(N - 1) : n \in S => n + 1 \in S
    <2> SUFFICES ASSUME NEW n \in 0..(N - 1), n \in S
                 PROVE  n + 1 \in S
      OBVIOUS
    <2>1. PICK g : P(n, g)
      OBVIOUS
    <2> DEFINE h == [k \in 0..(n + 1) |-> IF k = n + 1 THEN T(g[n]) ELSE g[k]]
    <2>2. \A k \in 0..n : g[k] = IF k = 0 THEN A ELSE T(g[k - 1])
      BY <2>1
    <2>3. n \in Nat /\ n + 1 \in 0..N
      BY <1>1
    <2>4. \A k \in 0..(n + 1) : h[k] = IF k = 0 THEN A ELSE T(h[k - 1])
      <3> TAKE k \in 0..(n + 1)
      <3>1. CASE k = n + 1
        <4>1. h[k] = T(g[n]) /\ h[k - 1] = g[n] /\ k # 0
          BY <2>3, <3>1
        <4> QED BY <4>1
      <3>2. CASE k # n + 1
        <4>1. k \in 0..n /\ h[k] = g[k]
          BY <2>3, <3>2
        <4>2. k # 0 => h[k - 1] = g[k - 1]
          BY <2>3, <4>1
        <4> QED BY <2>2, <4>1, <4>2
      <3> QED BY <3>1, <3>2
    <2>5. P(n + 1, h)
      BY <2>4
    <2>6. \E x : P(n + 1, x)
      <3> HIDE DEF P, h
      <3> QED BY <2>5
    <2> HIDE DEF P
    <2> QED BY <2>3, <2>6
  <1>5. N \in S
    <2> HIDE DEF S
    <2>1. 0..N \subseteq S
      BY <1>1, <1>3, <1>4, UpTo_n
    <2> QED BY <1>1, <2>1
  <1>6. P(N, at)
    <2>1. \E g : P(N, g)
      BY <1>5
    <2> HIDE DEF P
    <2> QED BY <2>1, Zenon
  <1> HIDE DEF at
  <1>7. DOMAIN at = 0..N /\ \A k \in 0..N : at[k] = IF k = 0 THEN A ELSE T(at[k - 1])
    BY <1>6
  <1>8. at[0] = A /\ \A k \in 1..N : at[k] = T(at[k - 1])
    <2> HIDE DEF P, S
    <2> QED BY <1>1, <1>7
  <1> QED BY <1>2, <1>7, <1>8 DEF A, N, T

(* The vector of a range: its valid values, in order. *)
LEMMA RangeListed ==
    ASSUME NEW r, IsRange(r)
    PROVE  LET s == transformSmartRangetoVector(r)
           IN  /\ ToSet(s) = {v \in r.lower..r.upper : is_in(r, v)}
               /\ \A i \in 2..Len(s) : s[i - 1] < s[i]
  <1> DEFINE s == transformSmartRangetoVector(r)
             V == {v \in r.lower..r.upper : is_in(r, v)}
             u == r.upper
             at == Iterator(r)
             N == u + 1
             Q(k) == /\ at[k] = Nullopt \/ (at[k] \in V /\ at[k] >= k)
                     /\ \A v \in V : at[k] = Nullopt \/ v < at[k] => \E j \in 0..(k - 1) : at[j] = v
             S == {k \in 0..N : Q(k)}
             Z == {n \in DOMAIN at : at[n] = Nullopt}
             M == Min(Z)
  <1>1. r.lower \in Nat /\ u \in Nat /\ N \in Nat
    BY RangeSizes
  <1>2. CASE r.lower > u
    <2>1. s = <<>>
      BY <1>2 DEF transformSmartRangetoVector
    <2>2. V = {} /\ ToSet(s) = {} /\ Len(s) = 0
      BY <1>1, <1>2, <2>1 DEF ToSet
    <2> QED BY <2>2
  <1>3. CASE r.lower <= u
    <2>1. \A v : v \in V <=> v \in r.lower..u /\ Valid(r, v)
      BY ValidIsIn
    <2>2. /\ DOMAIN at = 0..N /\ at[0] = roundToNextLarger(r, r.lower)
          /\ \A k \in 1..N : at[k] = IF at[k - 1] = Nullopt THEN Nullopt ELSE incrementAssumingIsValid(r, at[k - 1])
      BY IteratorSteps
    <2> DEFINE c == alignUnboundedToNextValid(r, r.lower)
    <2>3. FirstFrom(r, r.lower, c)
      BY <1>1, AlignedIsFirst
    <2>4. at[0] = IF c <= u THEN c ELSE Nullopt
      BY <1>1, <1>3, <2>2 DEF roundToNextLarger, betweenLimits
    <2>5. \A k \in 1..N : at[k - 1] # Nullopt => at[k] = IF Following(r, at[k - 1]) <= u THEN Following(r, at[k - 1]) ELSE Nullopt
      BY <2>2 DEF incrementAssumingIsValid, Following
    <2>n. \A v \in V : v # Nullopt /\ v \in Int
      BY <1>1, <2>1 DEF Nullopt
    <2>6. s = [k \in 1..M |-> at[k - 1]]
      BY <1>1, <1>3 DEF transformSmartRangetoVector
    <2> HIDE DEF s, V, at, c, N
    <2>7. 0 \in S
      <3>1. CASE c <= u
        <4>1. at[0] = c /\ c \in V /\ c \in Nat
          BY <1>1, <2>1, <2>3, <2>4, <3>1 DEF FirstFrom, Valid
        <4>2. \A v \in V : ~(v < c)
          BY <1>1, <2>1, <2>3, <4>1 DEF FirstFrom
        <4>3. Q(0)
          BY <2>n, <4>1, <4>2
        <4> QED BY <1>1, <4>3
      <3>2. CASE ~(c <= u)
        <4>1. at[0] = Nullopt /\ c \in Nat
          BY <2>3, <2>4, <3>2 DEF FirstFrom, Valid
        <4>2. \A v : v \notin V
          <5> SUFFICES ASSUME NEW v \in V
                       PROVE  FALSE
            OBVIOUS
          <5>1. v \in Nat /\ v >= r.lower /\ v <= u /\ Valid(r, v)
            BY <1>1, <2>1
          <5>2. c <= v
            BY <2>3, <5>1 DEF FirstFrom
          <5> QED BY <1>1, <3>2, <4>1, <5>1, <5>2
        <4>3. Q(0)
          BY <4>1, <4>2
        <4> QED BY <1>1, <4>3
      <3> QED BY <3>1, <3>2
    <2>8. \A k \in 0..(N - 1) : k \in S => k + 1 \in S
      <3> SUFFICES ASSUME NEW k \in 0..(N - 1), k \in S
                   PROVE  k + 1 \in S
        OBVIOUS
      <3>1. k \in Nat /\ k + 1 \in 1..N /\ k + 1 \in 0..N /\ k + 1 - 1 = k /\ 0..k = 0..(k - 1) \cup {k}
        BY <1>1
      <3>2. Q(k)
        OBVIOUS
      <3>3. CASE at[k] = Nullopt
        <4>1. at[k + 1] = Nullopt
          BY <2>2, <3>1, <3>3
        <4>2. \A v \in V : \E j \in 0..k : at[j] = v
          BY <3>1, <3>2, <3>3
        <4>3. Q(k + 1)
          BY <3>1, <4>1, <4>2
        <4> QED BY <3>1, <4>3
      <3>4. CASE at[k] # Nullopt
        <4> DEFINE x == at[k]
                   n == Following(r, x)
        <4>1. x \in V /\ x >= k /\ x \in Nat /\ x <= u /\ x >= r.lower /\ Valid(r, x)
          BY <1>1, <2>1, <3>2, <3>4
        <4>2. FirstFrom(r, x + 1, n)
          <5> HIDE DEF x
          <5> QED BY <4>1, FollowingIsNext
        <4>3. at[k + 1] = IF n <= u THEN n ELSE Nullopt
          BY <2>5, <3>1, <3>4
        <4>4. \A v \in V : v <= x => \E j \in 0..k : at[j] = v
          <5> TAKE v \in V
          <5>1. v < x => \E j \in 0..(k - 1) : at[j] = v
            BY <3>2
          <5>2. v = x => at[k] = v /\ k \in 0..k
            BY <3>1
          <5>3. v \in Int
            BY <2>n
          <5> HIDE DEF Q, S
          <5> QED BY <3>1, <4>1, <5>1, <5>2, <5>3
        <4> HIDE DEF x, n, Q, S
        <4>5. \A v \in V : ~(v <= x) => n <= v
          BY <1>1, <2>1, <4>1, <4>2 DEF FirstFrom
        <4>6. n \in Nat /\ n >= x + 1 /\ Valid(r, n)
          BY <4>2 DEF FirstFrom, Valid
        <4>7. CASE n <= u
          <5>1. at[k + 1] = n /\ n \in V /\ n >= k + 1
            BY <1>1, <2>1, <3>1, <4>1, <4>3, <4>6, <4>7
          <5>2. \A v \in V : v < n => v <= x
            BY <2>n, <4>1, <4>5, <4>6
          <5>3. \A v \in V : v < n => \E j \in 0..k : at[j] = v
            BY <4>4, <5>2
          <5>4. n # Nullopt
            BY <2>n, <5>1
          <5>5. Q(k + 1)
            BY <3>1, <5>1, <5>3, <5>4 DEF Q
          <5> QED BY <3>1, <5>5 DEF S
        <4>8. CASE ~(n <= u)
          <5>1. at[k + 1] = Nullopt
            BY <4>3, <4>8
          <5>2. \A v \in V : v <= x
            BY <1>1, <2>1, <4>1, <4>5, <4>6, <4>8
          <5>3. \A v \in V : \E j \in 0..k : at[j] = v
            BY <4>4, <5>2
          <5>4. Q(k + 1)
            BY <3>1, <5>1, <5>3 DEF Q
          <5> QED BY <3>1, <5>4 DEF S
        <4> QED BY <4>7, <4>8
      <3> QED BY <3>3, <3>4
    <2>9. 0..N \subseteq S
      <3> HIDE DEF S
      <3> QED BY <1>1, <2>7, <2>8, UpTo_n DEF N
    <2>10. \A k \in 0..N : Q(k)
      BY <2>9
    <2> HIDE DEF S
    <2>11. N \in Z
      <3>1. N \in 0..N /\ N = u + 1
        BY <1>1 DEF N
      <3>2. at[N] = Nullopt \/ (at[N] \in V /\ at[N] >= N)
        BY <2>10, <3>1
      <3>3. ~(at[N] \in V /\ at[N] >= N)
        BY <1>1, <2>1, <3>1
      <3> QED BY <2>2, <3>1, <3>2, <3>3
    <2>12. Z \in SUBSET Nat
      BY <1>1, <2>2
    <2>13. M \in Z /\ \A y \in Z : M <= y
      <3> HIDE DEF Z
      <3> QED BY <2>11, <2>12, LeastNumber
    <2>14. M \in 0..N /\ at[M] = Nullopt
      BY <2>2, <2>13
    <2>15. \A j \in 0..(M - 1) : j \in 0..N /\ at[j] # Nullopt /\ at[j] \in V
      <3> TAKE j \in 0..(M - 1)
      <3>1. j \in 0..N /\ j < M /\ j \in Nat
        BY <1>1, <2>14 DEF N
      <3>2. j \notin Z
        <4> HIDE DEF Z
        <4> QED BY <2>13, <2>14, <3>1
      <3>3. at[j] # Nullopt
        BY <2>2, <3>1, <3>2
      <3> QED BY <2>10, <3>1, <3>3
    <2>16. \A v \in V : \E j \in 0..(M - 1) : at[j] = v
      BY <2>10, <2>14
    <2> HIDE DEF M, Q, Z
    <2>17. M \in Nat /\ DOMAIN s = 1..M /\ Len(s) = M
      BY <1>1, <2>6, <2>14 DEF N
    <2>18. ToSet(s) = V
      <3>1. ASSUME NEW v \in ToSet(s) PROVE v \in V
        <4>1. PICK i \in 1..M : v = at[i - 1]
          BY <2>6, <2>17 DEF ToSet
        <4>2. i - 1 \in 0..(M - 1)
          BY <2>17
        <4> QED BY <2>15, <4>1, <4>2
      <3>2. ASSUME NEW v \in V PROVE v \in ToSet(s)
        <4>1. PICK j \in 0..(M - 1) : at[j] = v
          BY <2>16
        <4>2. j + 1 \in 1..M /\ s[j + 1] = v
          BY <2>6, <2>17, <4>1
        <4> QED BY <2>17, <4>2 DEF ToSet
      <3> QED BY <3>1, <3>2
    <2>19. ASSUME NEW i \in 2..Len(s) PROVE s[i - 1] < s[i]
      <3>1. /\ i \in 1..M /\ i - 1 \in 1..M /\ i - 1 \in 0..(M - 1) /\ i - 1 - 1 \in 0..(M - 1) /\ i - 1 \in 1..N
        BY <1>1, <2>14, <2>17 DEF N
      <3> DEFINE x == at[i - 1 - 1]
                 y == at[i - 1]
      <3>2. s[i - 1] = x /\ s[i] = y /\ x # Nullopt /\ y # Nullopt /\ x \in V /\ y \in V
        BY <2>6, <2>15, <3>1
      <3>3. y = Following(r, x)
        BY <2>5, <3>1, <3>2
      <3>4. Valid(r, x)
        BY <2>1, <3>2
      <3> HIDE DEF x, y
      <3>5. FirstFrom(r, x + 1, y)
        BY <3>3, <3>4, FollowingIsNext
      <3> QED BY <2>n, <3>2, <3>5 DEF FirstFrom
    <2> QED BY <2>18, <2>19 DEF V, s
  <1> QED BY <1>1, <1>2, <1>3

(* The algorithm that was called last, and what it answered. *)
RangeCalled ==
    algorithm # Idle /\ algorithm.name = "range" =>
        algorithm.range \in Ranges /\ algorithm.result = transformSmartRangetoVector(algorithm.range)

(* RangeCalled is inductive. *)
LEMMA RangeCalledKept == RangeCalled /\ [Next]_vars => RangeCalled'
  <1> SUFFICES ASSUME RangeCalled, [Next]_vars
               PROVE  RangeCalled'
    OBVIOUS
  <1>1. CASE IterateRange
    <2>1. PICK r \in Ranges : algorithm' = [name |-> "range", range |-> r, result |-> transformSmartRangetoVector(r)]
      BY <1>1 DEF IterateRange
    <2> DEFINE x == transformSmartRangetoVector(r)
    <2> HIDE DEF x
    <2>2. algorithm'.range = r /\ algorithm'.result = x
      BY <2>1 DEF x
    <2>3. algorithm'.range \in Ranges /\ algorithm'.result = transformSmartRangetoVector(algorithm'.range)
      BY <2>2 DEF x
    <2> QED BY <2>3 DEF RangeCalled
  <1>2. CASE DivideChannels
    <2>1. algorithm'.name = "divide"
      BY <1>2 DEF DivideChannels
    <2> QED BY <2>1 DEF RangeCalled
  <1>3. CASE EndAlgorithm
    <2>1. algorithm' = Idle
      BY <1>3 DEF EndAlgorithm
    <2> QED BY <2>1 DEF RangeCalled, Idle
  <1>4. CASE UNCHANGED algorithm
    BY <1>4 DEF RangeCalled
  <1>5. CASE Layer \/ SplitLayer \/ SplitTile \/ LargestTime \/ LayersPreSplit \/ Return \/ UNCHANGED vars
    <2>1. UNCHANGED algorithm
      BY <1>5 DEF Layer, SplitLayer, SplitTile, LargestTime, LayersPreSplit, Return, vars
    <2> QED BY <1>4, <2>1
  <1> QED BY <1>1, <1>2, <1>3, <1>5 DEF Next

(* For every range that the constructor of SmartRanges makes: the begin,   *)
(* the steps and the end of its iterator give every value that is_in       *)
(* accepts, in order, and no other one; crossing the second divisor is no  *)
(* exception.                                                              *)
THEOREM RangesAreEnumerated == Spec => []RangeEnumeratesMembers
  <1>1. Init => RangeCalled
    BY DEF Init, RangeCalled
  <1>2. RangeCalled => RangeEnumeratesMembers
    <2> SUFFICES ASSUME RangeCalled, algorithm # Idle, algorithm.name = "range"
                 PROVE  /\ ToSet(algorithm.result) = {v \in algorithm.range.lower..algorithm.range.upper : is_in(algorithm.range, v)}
                        /\ \A i \in 2..Len(algorithm.result) : algorithm.result[i - 1] < algorithm.result[i]
      BY DEF RangeEnumeratesMembers
    <2>1. PICK r : r = algorithm.range
      OBVIOUS
    <2>2. PICK s : s = algorithm.result
      OBVIOUS
    <2>3. r \in Ranges /\ s = transformSmartRangetoVector(r)
      BY <2>1, <2>2 DEF RangeCalled
    <2>4. IsRange(r)
      BY <2>3, RangesAssumption
    <2>5. ToSet(s) = {v \in r.lower..r.upper : is_in(r, v)} /\ \A i \in 2..Len(s) : s[i - 1] < s[i]
      BY <2>3, <2>4, RangeListed
    <2> QED BY <2>1, <2>2, <2>5
  <1> QED BY <1>1, <1>2, RangeCalledKept, PTL DEF Spec

-----------------------------------------------------------------------------
(* The output memory of the tiles. *)

(* The channels as a direction to split in. *)
Axis_C == [dim |-> "c", begin |-> "front", end |-> "back"]

(* The direction in which a strategy cuts the output, and the size of its  *)
(* slices.                                                                 *)
SplitAxis(strategy) ==
    CASE strategy = "SOW" -> Axis_W
      [] strategy \in {"SOK", "SOK_NO_BROADCAST"} -> Axis_C
      [] OTHER -> Axis_H

SliceSize(l, strategy, n) ==
    IF SplitAxis(strategy) = Axis_C THEN MaxSlice(l, n) ELSE ceil_division(l.out[SplitAxis(strategy).dim], n)

(* What a tile holds beyond its own outputs: where it writes to others     *)
(* they write to it, and their outputs come before and after its own.      *)
Others(axis, whole, remaining, part) ==
    [[NoHalo EXCEPT ![axis.begin] = whole - remaining] EXCEPT ![axis.end] = remaining - part]

(* Nothing where it writes to itself only. *)
InboundOf(l, axis, owt, remaining, part) ==
    IF owt > 1 THEN Others(axis, l.out[axis.dim], remaining, part) ELSE NoHalo

(* A tile with a part of the outputs of its layer. *)
IsPart(t, l, axis, owt, remaining, part) ==
    /\ IsRecord(t) /\ t.owt = owt
    /\ t.out = [l.out EXCEPT ![axis.dim] = part]
    /\ t.halo.inbound = InboundOf(l, axis, owt, remaining, part)

(* Lines that others write are added. *)
LEMMA InboundIsAdded ==
    ASSUME NEW x \in Nat, NEW a \in Nat, NEW b \in Nat
    PROVE  newDimensionWithInbound(x, a, b) = a + x + b
  <1> DEFINE y == 0 - x
             z == x + a + b
  <1>1. y \in Int /\ y <= 0 /\ z \in Nat /\ z >= 0 /\ -x = y
    OBVIOUS
  <1> HIDE DEF y, z
  <1>2. Max({a, y}) = a /\ Max({b, y}) = b
    <2>1. a \in Int /\ b \in Int
      OBVIOUS
    <2>2. Max({a, y}) = IF a >= y THEN a ELSE y
      BY <1>1, <2>1, LargerSmaller
    <2>3. Max({b, y}) = IF b >= y THEN b ELSE y
      BY <1>1, <2>1, LargerSmaller
    <2> QED BY <1>1, <2>2, <2>3
  <1>3. newDimensionWithInbound(x, a, b) = Max({0, z})
    <2>1. newDimensionWithInbound(x, a, b) =
              Max({0, IF Max({a, y}) < 0 /\ Max({b, y}) < 0 /\ -(Max({a, y}) + Max({b, y})) >= x THEN 0
                      ELSE x + Max({a, y}) + Max({b, y})})
      BY <1>1 DEF newDimensionWithInbound
    <2> QED BY <1>2, <2>1 DEF z
  <1>4. Max({0, z}) = IF 0 >= z THEN 0 ELSE z
    BY <1>1, LargerSmaller
  <1>5. z = a + x + b
    BY DEF z
  <1> QED BY <1>1, <1>3, <1>4, <1>5

(* The output memory depends on the output and on what others write. *)
LEMMA MemoryIs ==
    ASSUME NEW t
    PROVE  OutputMemory(t) =
               [w |-> newDimensionWithInbound(t.out.w, t.halo.inbound.left, t.halo.inbound.right),
                h |-> newDimensionWithInbound(t.out.h, t.halo.inbound.top, t.halo.inbound.bottom),
                c |-> newDimensionWithInbound(t.out.c, t.halo.inbound.front, t.halo.inbound.back)]
  <1> DEFINE x == newDimensionWithInbound(t.out.w, t.halo.inbound.left, t.halo.inbound.right)
             y == newDimensionWithInbound(t.out.h, t.halo.inbound.top, t.halo.inbound.bottom)
             z == newDimensionWithInbound(t.out.c, t.halo.inbound.front, t.halo.inbound.back)
             m == compute_dense_output_memory_tensor(t)
  <1>1. m = [output_0(t) EXCEPT !.h = y, !.w = x, !.c = z]
    BY DEF compute_dense_output_memory_tensor, output_0, Tensor
  <1> HIDE DEF x, y, z
  <1>2. m.w = x /\ m.h = y /\ m.c = z
    BY <1>1 DEF output_0, Tensor
  <1> HIDE DEF m
  <1> QED BY <1>2 DEF OutputMemory, Shape, m, x, y, z

(* A tile that is written to has the whole output in its memory. *)
LEMMA MemoryOfPart ==
    ASSUME NEW l, l.out \in [w : Nat, h : Nat, c : Nat], NEW axis \in {Axis_H, Axis_W, Axis_C}, NEW t,
           NEW owt, NEW r \in Nat, NEW s \in Nat, s <= r, r <= l.out[axis.dim],
           t.out = [l.out EXCEPT ![axis.dim] = s], t.halo.inbound = InboundOf(l, axis, owt, r, s)
    PROVE  OutputMemory(t) = IF owt > 1 THEN l.out ELSE t.out
  <1> DEFINE D(x, a, b) == newDimensionWithInbound(x, a, b)
             i == t.halo.inbound
  <1>1. OutputMemory(t) = [w |-> D(t.out.w, i.left, i.right), h |-> D(t.out.h, i.top, i.bottom),
                           c |-> D(t.out.c, i.front, i.back)]
    BY MemoryIs
  <1>2. \A x, a, b \in Nat : D(x, a, b) = a + x + b
    BY InboundIsAdded
  <1> HIDE DEF D
  <1>3. \A x \in Nat : D(x, 0, 0) = x
    BY <1>2
  <1>4. CASE ~(owt > 1)
    <2>1. i = NoHalo
      BY <1>4 DEF InboundOf
    <2>2. t.out \in [w : Nat, h : Nat, c : Nat]
      BY DEF Axis_H, Axis_W, Axis_C
    <2> HIDE DEF i
    <2>3. OutputMemory(t) = [w |-> t.out.w, h |-> t.out.h, c |-> t.out.c]
      BY <1>1, <1>3, <2>1, <2>2 DEF NoHalo
    <2> QED BY <1>4, <2>2, <2>3
  <1>5. CASE owt > 1
    <2> DEFINE O == l.out[axis.dim]
               f == O - r
               g == r - s
    <2>0. O \in Nat /\ f \in Nat /\ g \in Nat /\ D(s, f, g) = O
      <3>1. O \in Nat
        BY DEF Axis_H, Axis_W, Axis_C
      <3>2. f \in Nat /\ g \in Nat /\ f + s + g = O
        BY <3>1
      <3> HIDE DEF f, g
      <3>3. D(s, f, g) = f + s + g
        BY <1>2, <3>2
      <3> QED BY <3>1, <3>2, <3>3
    <2>1. i = [[NoHalo EXCEPT ![axis.begin] = f] EXCEPT ![axis.end] = g]
      BY <1>5 DEF InboundOf, Others
    <2> HIDE DEF i, f, g
    <2>2. CASE axis = Axis_H
      <3>1. i.top = f /\ i.bottom = g /\ i.left = 0 /\ i.right = 0 /\ i.front = 0 /\ i.back = 0
        BY <2>1, <2>2 DEF NoHalo, Axis_H
      <3>2. t.out.h = s /\ t.out.w = l.out.w /\ t.out.c = l.out.c /\ O = l.out.h
        BY <2>2 DEF Axis_H
      <3> HIDE DEF O
      <3>3. OutputMemory(t) = [w |-> l.out.w, h |-> l.out.h, c |-> l.out.c]
        BY <1>1, <1>3, <2>0, <3>1, <3>2
      <3> QED BY <1>5, <3>3
    <2>3. CASE axis = Axis_W
      <3>1. i.top = 0 /\ i.bottom = 0 /\ i.left = f /\ i.right = g /\ i.front = 0 /\ i.back = 0
        BY <2>1, <2>3 DEF NoHalo, Axis_W
      <3>2. t.out.w = s /\ t.out.h = l.out.h /\ t.out.c = l.out.c /\ O = l.out.w
        BY <2>3 DEF Axis_W
      <3> HIDE DEF O
      <3>3. OutputMemory(t) = [w |-> l.out.w, h |-> l.out.h, c |-> l.out.c]
        BY <1>1, <1>3, <2>0, <3>1, <3>2
      <3> QED BY <1>5, <3>3
    <2>4. CASE axis = Axis_C
      <3>1. i.top = 0 /\ i.bottom = 0 /\ i.left = 0 /\ i.right = 0 /\ i.front = f /\ i.back = g
        BY <2>1, <2>4 DEF NoHalo, Axis_C
      <3>2. t.out.c = s /\ t.out.w = l.out.w /\ t.out.h = l.out.h /\ O = l.out.c
        BY <2>4 DEF Axis_C
      <3> HIDE DEF O
      <3>3. OutputMemory(t) = [w |-> l.out.w, h |-> l.out.h, c |-> l.out.c]
        BY <1>1, <1>3, <2>0, <3>1, <3>2
      <3> QED BY <1>5, <3>3
    <2> QED BY <2>2, <2>3, <2>4
  <1> QED BY <1>4, <1>5

(* Every tile that a split makes of a layer that nobody else writes into. *)
LEMMA RawTileIsPart ==
    ASSUME NEW l, IsDPULayer(l), l.halo.inbound = NoHalo, NEW strategy, Supports(strategy),
           NEW n \in Nat \ {0}, NEW i \in 1..n
    PROVE  LET axis == SplitAxis(strategy)
               O == l.out[axis.dim]
               d == SliceSize(l, strategy, n)
           IN  IsPart(RawTile(l, strategy, n, i), l, axis, WrittenTiles(l, n, Forces(strategy)),
                      Remaining(O, d, i), Slice(O, d, i))
  <1>1. /\ IsRecord(l) /\ l.in \in [w : Nat, h : Nat, c : Nat] /\ l.out \in [w : Nat, h : Nat, c : Nat]
        /\ l.halo \in [DOMAIN HaloWorkload -> [DOMAIN NoHalo -> Int]]
    BY DEF IsDPULayer
  <1>2. DOMAIN l.halo = {"input", "output", "broadcast_cnt", "inbound"}
    BY <1>1 DEF HaloWorkload
  <1>3. ASSUME NEW halo, DOMAIN halo = {"input", "output", "broadcast_cnt", "inbound"}, halo.inbound = NoHalo
        PROVE  /\ setVerticalNoHalo(halo).inbound = NoHalo /\ setHorizontalNoHalo(halo).inbound = NoHalo
               /\ DOMAIN setVerticalNoHalo(halo) = DOMAIN halo /\ DOMAIN setHorizontalNoHalo(halo) = DOMAIN halo
    <2>1. [NoHalo EXCEPT !.top = 0] = NoHalo /\ [NoHalo EXCEPT !.bottom = 0] = NoHalo
      BY DEF NoHalo
    <2>2. [NoHalo EXCEPT !.left = 0] = NoHalo /\ [NoHalo EXCEPT !.right = 0] = NoHalo
      BY DEF NoHalo
    <2>3. [NoHalo EXCEPT !.top = 0, !.bottom = 0] = NoHalo
      BY <2>1
    <2>4. [NoHalo EXCEPT !.left = 0, !.right = 0] = NoHalo
      BY <2>2
    <2> QED BY <1>3, <2>3, <2>4 DEF setVerticalNoHalo, setHorizontalNoHalo
  <1>4. ASSUME NEW halo, DOMAIN halo = {"input", "output", "broadcast_cnt", "inbound"}, halo.inbound = NoHalo,
               NEW f, NEW r, NEW s
        PROVE  /\ setInboundHaloVerticalForBroadcastAll(halo, f, r, s).inbound =
                      Others(Axis_H, f, r, s)
               /\ setInboundHaloHorizontalForBroadcastAll(halo, f, r, s).inbound =
                      Others(Axis_W, f, r, s)
    <2> DEFINE x == f - r
               y == r - s
    <2> HIDE DEF x, y
    <2>1. setInboundHaloVerticalForBroadcastAll(halo, f, r, s).inbound = [[NoHalo EXCEPT !["top"] = x] EXCEPT !["bottom"] = y]
      BY <1>4 DEF setInboundHaloVerticalForBroadcastAll, x, y
    <2>2. setInboundHaloHorizontalForBroadcastAll(halo, f, r, s).inbound =
              [[NoHalo EXCEPT !["left"] = x] EXCEPT !["right"] = y]
      BY <1>4 DEF setInboundHaloHorizontalForBroadcastAll, x, y
    <2> QED BY <2>1, <2>2 DEF x, y, Others, Axis_H, Axis_W
  <1>5. ASSUME NEW axis \in {Axis_H, Axis_W}, NEW owt \in Nat, NEW c
        PROVE  LET t == overlapped_tile(l, axis, owt, c)
               IN  IsPart(t, l, axis, owt, c.remaining, c.out)
    <2> DEFINE h == overlapped_halo(l, axis, owt, c)
               s == RescaleSEP(l.sep, axis, c.in, l.in[axis.dim])
               x == [l.out EXCEPT ![axis.dim] = c.out]
               y == [l.in EXCEPT ![axis.dim] = c.in]
               p == [[l.pad EXCEPT ![axis.begin] = c.pad_begin] EXCEPT ![axis.end] = c.pad_end]
               t == OverlappedForm(l, axis, owt, c, h, s)
    <2>1. overlapped_tile(l, axis, owt, c) = t
      BY <1>1, OverlappedFields
    <2>2. h.inbound = InboundOf(l, axis, owt, c.remaining, c.out)
      <3> DEFINE clear == IF axis = Axis_H THEN setVerticalNoHalo(l.halo) ELSE setHorizontalNoHalo(l.halo)
      <3>1. clear.inbound = NoHalo /\ DOMAIN clear = {"input", "output", "broadcast_cnt", "inbound"}
        BY <1>2, <1>3
      <3>2. h = IF owt <= 1 THEN clear
                ELSE IF axis = Axis_H THEN setInboundHaloVerticalForBroadcastAll(clear, l.out.h, c.remaining, c.out)
                ELSE setInboundHaloHorizontalForBroadcastAll(clear, l.out.w, c.remaining, c.out)
        BY DEF overlapped_halo
      <3> HIDE DEF clear, h
      <3>3. owt <= 1 <=> ~(owt > 1)
        OBVIOUS
      <3>4. CASE owt <= 1
        BY <3>1, <3>2, <3>3, <3>4 DEF InboundOf
      <3>5. CASE owt > 1 /\ axis = Axis_H
        <4>1. h.inbound = Others(Axis_H, l.out.h, c.remaining, c.out)
          BY <1>4, <3>1, <3>2, <3>3, <3>5
        <4> QED BY <3>5, <4>1 DEF InboundOf, Axis_H
      <3>6. CASE owt > 1 /\ axis = Axis_W
        <4>0. axis # Axis_H
          BY <3>6 DEF Axis_H, Axis_W
        <4>1. h.inbound = Others(Axis_W, l.out.w, c.remaining, c.out)
          BY <1>4, <3>1, <3>2, <3>3, <3>6, <4>0
        <4> QED BY <3>6, <4>1 DEF InboundOf, Axis_W
      <3> QED BY <3>3, <3>4, <3>5, <3>6
    <2> HIDE DEF h, s
    <2>3. t = [l EXCEPT !.out = x, !.in = y, !.pad = p, !.isi = "CLUSTERING", !.owt = owt, !.halo = h, !.sep = s]
      BY DEF OverlappedForm
    <2> HIDE DEF t, x, y, p
    <2>4. t.out = x /\ t.owt = owt /\ t.halo = h /\ IsRecord(t)
      BY <1>1, <2>3 DEF IsRecord, Fields
    <2> QED BY <2>1, <2>2, <2>4 DEF IsPart, x
  <1>6. ASSUME NEW ctx
        PROVE  IsPart(HALO_tile(l, ctx, i), l, Axis_H, l.owt, ctx[i].remaining, ctx[i].out)
    <2> DEFINE c == ctx[i]
               h == HALO_halo(l, ctx, i)
               x == [l.out EXCEPT !["h"] = c.out]
               y == [l.in EXCEPT !["h"] = c.in]
               p == [[l.pad EXCEPT !.top = c.pad_begin] EXCEPT !.bottom = c.pad_end]
               t == HaloForm(l, c, h)
    <2>1. HALO_tile(l, ctx, i) = t
      BY <1>1, HaloFields
    <2>2. h.inbound = InboundOf(l, Axis_H, l.owt, c.remaining, c.out)
      <3> DEFINE a == halo_top(l, ctx, i)
                 b == halo_bottom(l, ctx, i)
                 v == setVerticalNoHalo(l.halo)
                 w == [v EXCEPT !.input.top = a, !.input.bottom = b]
      <3>1. v.inbound = NoHalo /\ DOMAIN v = {"input", "output", "broadcast_cnt", "inbound"}
        BY <1>2, <1>3
      <3> HIDE DEF a, b, v
      <3>2. w.inbound = NoHalo /\ DOMAIN w = {"input", "output", "broadcast_cnt", "inbound"}
        BY <3>1
      <3>3. h = IF l.owt > 1 THEN setInboundHaloVerticalForBroadcastAll(w, l.out.h, c.remaining, c.out) ELSE w
        BY DEF HALO_halo, w, v, a, b
      <3> HIDE DEF w, h
      <3>4. CASE ~(l.owt > 1)
        BY <3>2, <3>3, <3>4 DEF InboundOf
      <3>5. CASE l.owt > 1
        <4>1. h.inbound = Others(Axis_H, l.out.h, c.remaining, c.out)
          BY <1>4, <3>2, <3>3, <3>5
        <4> QED BY <3>5, <4>1 DEF InboundOf, Axis_H
      <3> QED BY <3>4, <3>5
    <2> HIDE DEF h
    <2>3. t = [l EXCEPT !.out = x, !.in = y, !.pad = p, !.isi = "SPLIT_OVER_H", !.halo = h]
      BY DEF HaloForm
    <2> HIDE DEF t, x, y, p
    <2>4. t.out = x /\ t.owt = l.owt /\ t.halo = h /\ IsRecord(t)
      BY <1>1, <2>3 DEF IsRecord, Fields
    <2> QED BY <2>1, <2>2, <2>4 DEF IsPart, x, Axis_H
  <1>7. ASSUME NEW owt \in Nat, NEW isi, NEW r, NEW s
        PROVE  IsPart(SOK_tile(l, owt, isi, r, s), l, Axis_C, owt, r, s)
    <2> DEFINE y == SliceInput(l, s)
               h == SliceHalo(l, owt, r, s)
               x == [l.out EXCEPT !.c = s]
               t == SliceForm(l, owt, isi, s, y, h)
    <2>1. SOK_tile(l, owt, isi, r, s) = t
      <3>1. IsLayer(l)
        BY QueriesAreLayers
      <3> QED BY <3>1, SOKFields DEF IsLayer
    <2>2. h.inbound = InboundOf(l, Axis_C, owt, r, s)
      <3> DEFINE f == IF owt > 1 THEN l.out.c - r ELSE 0
                 b == IF owt > 1 THEN r - s ELSE 0
      <3>1. h.inbound = [[NoHalo EXCEPT !["front"] = f] EXCEPT !["back"] = b]
        <4> HIDE DEF f, b
        <4> QED BY <1>2 DEF SliceHalo, f, b
      <3>2. CASE owt > 1
        BY <3>1, <3>2 DEF InboundOf, Others, Axis_C
      <3>3. CASE ~(owt > 1)
        BY <3>1, <3>3 DEF InboundOf, NoHalo
      <3> QED BY <3>2, <3>3
    <2> HIDE DEF h, y
    <2>3. t = [l EXCEPT !.out = x, !.in = y, !.isi = isi, !.owt = owt, !.halo = h]
      BY DEF SliceForm
    <2> HIDE DEF t, x
    <2>4. t.out = x /\ t.owt = owt /\ t.halo = h /\ IsRecord(t)
      BY <1>1, <2>3 DEF IsRecord, Fields
    <2> QED BY <2>1, <2>2, <2>4 DEF IsPart, x, Axis_C
  <1>8. ASSUME NEW axis
        PROVE  LET c == TileContext(l, axis, n)[i]
                   d == ceil_division(l.out[axis.dim], n)
               IN  c.remaining = Remaining(l.out[axis.dim], d, i) /\ c.out = Slice(l.out[axis.dim], d, i)
    BY DEF TileContext
  <1>9. \A force \in BOOLEAN : WrittenTiles(l, n, force) \in Nat
    BY DEF WrittenTiles, IsDPULayer
  <1>10. Axis_C # Axis_H /\ Axis_C # Axis_W
    BY DEF Axis_C, Axis_H, Axis_W
  <1>11. CASE strategy \in {"SOH_Overlapped", "SOHO_K_SWITCH"}
    <2>1. SplitAxis(strategy) = Axis_H /\ Forces(strategy) \in BOOLEAN
      BY <1>11 DEF SplitAxis, Forces
    <2>2. SliceSize(l, strategy, n) = ceil_division(l.out[Axis_H.dim], n)
      BY <1>10, <2>1 DEF SliceSize
    <2>3. RawTile(l, strategy, n, i) =
              overlapped_tile(l, Axis_H, WrittenTiles(l, n, Forces(strategy)), TileContext(l, Axis_H, n)[i])
      BY <1>11 DEF RawTile
    <2>4. WrittenTiles(l, n, Forces(strategy)) \in Nat
      BY <1>9, <2>1
    <2> QED BY <1>5, <1>8, <2>1, <2>2, <2>3, <2>4
  <1>12. CASE strategy = "SOW"
    <2>1. SplitAxis(strategy) = Axis_W /\ Forces(strategy) = FALSE
      BY <1>12 DEF SplitAxis, Forces
    <2>2. SliceSize(l, strategy, n) = ceil_division(l.out[Axis_W.dim], n)
      BY <1>10, <2>1 DEF SliceSize
    <2>3. RawTile(l, strategy, n, i) =
              overlapped_tile(l, Axis_W, WrittenTiles(l, n, FALSE), TileContext(l, Axis_W, n)[i])
      BY <1>12 DEF RawTile
    <2>4. WrittenTiles(l, n, FALSE) \in Nat
      BY <1>9
    <2> QED BY <1>5, <1>8, <2>1, <2>2, <2>3, <2>4
  <1>13. CASE strategy = "SOH_HaloRead"
    <2>1. SplitAxis(strategy) = Axis_H /\ Forces(strategy) = FALSE
      BY <1>13 DEF SplitAxis, Forces
    <2>2. SliceSize(l, strategy, n) = ceil_division(l.out[Axis_H.dim], n)
      BY <1>10, <2>1 DEF SliceSize
    <2>3. RawTile(l, strategy, n, i) = HALO_tile(l, TileContext(l, Axis_H, n), i)
      BY <1>13 DEF RawTile
    <2>4. WrittenTiles(l, n, FALSE) = l.owt
      BY DEF WrittenTiles
    <2> QED BY <1>6, <1>8, <2>1, <2>2, <2>3, <2>4
  <1>14. CASE strategy \in {"SOK", "SOK_NO_BROADCAST"}
    <2>1. SplitAxis(strategy) = Axis_C /\ Forces(strategy) \in BOOLEAN
      BY <1>14 DEF SplitAxis, Forces
    <2>2. SliceSize(l, strategy, n) = MaxSlice(l, n) /\ l.out[Axis_C.dim] = l.out.c
      BY <2>1 DEF SliceSize, Axis_C
    <2>3. RawTile(l, strategy, n, i) =
              SOK_tile(l, WrittenTiles(l, n, Forces(strategy)),
                       IF Forces(strategy) THEN "SPLIT_OVER_K" ELSE "CLUSTERING",
                       Remaining(l.out.c, MaxSlice(l, n), i), Slice(l.out.c, MaxSlice(l, n), i))
      BY <1>14 DEF RawTile
    <2>4. WrittenTiles(l, n, Forces(strategy)) \in Nat
      BY <1>9, <2>1
    <2> QED BY <1>7, <2>1, <2>2, <2>3, <2>4
  <1> QED BY <1>11, <1>12, <1>13, <1>14 DEF Supports

(* The slices of every strategy suffice for the whole output. *)
LEMMA SliceSizeSuffices ==
    ASSUME NEW l, IsDPULayer(l), NEW strategy, NEW n \in Nat \ {0}, l.out[SplitAxis(strategy).dim] # 0
    PROVE  LET O == l.out[SplitAxis(strategy).dim]
               d == SliceSize(l, strategy, n)
           IN  O \in Nat \ {0} /\ d \in Nat \ {0} /\ Remaining(O, d, n + 1) = 0
  <1> DEFINE O == l.out[SplitAxis(strategy).dim]
             d == SliceSize(l, strategy, n)
  <1>1. O \in Nat \ {0}
    <2>1. SplitAxis(strategy).dim \in {"w", "h", "c"}
      BY DEF SplitAxis, Axis_H, Axis_W, Axis_C
    <2> QED BY <2>1 DEF IsDPULayer
  <1>2. CASE SplitAxis(strategy) # Axis_C
    BY <1>1, <1>2, SlicesSuffice DEF SliceSize
  <1>3. CASE SplitAxis(strategy) = Axis_C
    <2> DEFINE b == IF l.autopad THEN 1 ELSE 16
               x == ceil_division(O, n)
               y == ceil_division(x, b)
    <2>1. O = l.out.c
      BY <1>3 DEF Axis_C
    <2> HIDE DEF O
    <2>2. b \in Nat \ {0}
      OBVIOUS
    <2>3. d = y * b
      BY <1>3, <2>1 DEF SliceSize, MaxSlice, round_up, ceil_division
    <2>4. x \in Nat \ {0} /\ x * n >= O
      <3>1. O \in Nat /\ O > 0
        BY <1>1
      <3>2. ceil_division(O, n) \in Nat
        BY <3>1, CeilDivision
      <3>3. ceil_division(O, n) * n >= O
        BY <3>1, CeilDivision
      <3>4. ceil_division(O, n) > 0
        BY <3>1, CeilDivision
      <3> QED BY <3>2, <3>3, <3>4
    <2> HIDE DEF x, b
    <2>5. y \in Nat /\ y * b >= x
      BY <2>2, <2>4, CeilDivision
    <2> HIDE DEF y, d
    <2>6. y * b \in Nat
      BY <2>2, <2>5
    <2>7. d \in Nat \ {0} /\ x <= d /\ x \in Nat /\ n \in Nat
      BY <2>3, <2>4, <2>5, <2>6
    <2>8. x * n \in Nat /\ d * n \in Nat /\ x * n <= d * n
      BY <2>7, ProductGrows
    <2>9. (n + 1 - 1) * d = d * n
      BY <2>7
    <2> DEFINE z == O - d * n
    <2>10. z \in Int /\ z <= 0
      BY <1>1, <2>4, <2>8
    <2>11. Remaining(O, d, n + 1) = Max({0, z})
      BY <2>9 DEF Remaining
    <2> HIDE DEF z
    <2>12. Max({0, z}) = IF 0 >= z THEN 0 ELSE z
      BY <2>10, LargerSmaller
    <2>13. Remaining(O, d, n + 1) = 0
      BY <2>10, <2>11, <2>12
    <2> QED BY <1>1, <2>7, <2>13 DEF O, d
  <1> QED BY <1>2, <1>3

(* A slice that is not the whole is not the only one. *)
LEMMA AnotherSlice ==
    ASSUME NEW O \in Nat \ {0}, NEW d \in Nat \ {0}, NEW n \in Nat \ {0}, Remaining(O, d, n + 1) = 0,
           NEW i \in 1..n, Slice(O, d, i) > 0, Slice(O, d, i) # O
    PROVE  \E j \in 1..n : j # i /\ Slice(O, d, j) > 0
  <1>1. i \in Nat \ {0} /\ i + 1 \in Nat \ {0} /\ 1 \in Nat \ {0}
    OBVIOUS
  <1>2. Remaining(O, d, 1) = O /\ Remaining(O, d, i + 1) = Remaining(O, d, i) - Slice(O, d, i)
    BY <1>1, AllSlices
  <1>3. /\ Slice(O, d, 1) > 0 <=> Remaining(O, d, 1) > 0
        /\ Slice(O, d, i + 1) > 0 <=> Remaining(O, d, i + 1) > 0
    BY <1>1, AllSlices
  <1>4. Remaining(O, d, i) \in Nat /\ Slice(O, d, i) \in Nat /\ Remaining(O, d, i + 1) \in Nat
    BY <1>1, AllSlices
  <1>5. CASE i # 1
    <2>1. 1 \in 1..n
      OBVIOUS
    <2>2. Slice(O, d, 1) > 0
      BY <1>2, <1>3
    <2> QED BY <1>5, <2>1, <2>2
  <1>6. CASE i = 1
    <2>1. Remaining(O, d, i + 1) > 0
      BY <1>2, <1>4, <1>6
    <2>2. i # n
      BY <2>1
    <2>3. i + 1 \in 1..n /\ i + 1 # i
      BY <2>2
    <2> QED BY <1>3, <2>1, <2>3
  <1> QED BY <1>5, <1>6

(* Whether a tile is empty is a matter of its slice. *)
LEMMA SizesAlike ==
    ASSUME NEW out \in [w : Nat, h : Nat, c : Nat], NEW dim \in {"w", "h", "c"}, NEW s \in Nat, NEW u \in Nat,
           size([out EXCEPT ![dim] = s]) # 0
    PROVE  s # 0 /\ (u # 0 => size([out EXCEPT ![dim] = u]) # 0)
  <1>1. CASE dim = "w"
    <2>1. size([out EXCEPT ![dim] = s]) = s * out.h * out.c /\ size([out EXCEPT ![dim] = u]) = u * out.h * out.c
      BY <1>1 DEF size
    <2>2. s * out.h * out.c # 0 <=> s # 0 /\ out.h # 0 /\ out.c # 0
      BY NonzeroProduct
    <2>3. u * out.h * out.c # 0 <=> u # 0 /\ out.h # 0 /\ out.c # 0
      BY NonzeroProduct
    <2> QED BY <1>1, <2>1, <2>2, <2>3
  <1>2. CASE dim = "h"
    <2>1. size([out EXCEPT ![dim] = s]) = out.w * s * out.c /\ size([out EXCEPT ![dim] = u]) = out.w * u * out.c
      BY <1>2 DEF size
    <2>2. out.w * s * out.c # 0 <=> out.w # 0 /\ s # 0 /\ out.c # 0
      BY NonzeroProduct
    <2>3. out.w * u * out.c # 0 <=> out.w # 0 /\ u # 0 /\ out.c # 0
      BY NonzeroProduct
    <2> QED BY <1>2, <2>1, <2>2, <2>3
  <1>3. CASE dim = "c"
    <2>1. size([out EXCEPT ![dim] = s]) = out.w * out.h * s /\ size([out EXCEPT ![dim] = u]) = out.w * out.h * u
      BY <1>3 DEF size
    <2>2. out.w * out.h * s # 0 <=> out.w # 0 /\ out.h # 0 /\ s # 0
      BY NonzeroProduct
    <2>3. out.w * out.h * u # 0 <=> out.w # 0 /\ out.h # 0 /\ u # 0
      BY NonzeroProduct
    <2> QED BY <1>3, <2>1, <2>2, <2>3
  <1> QED BY <1>1, <1>2, <1>3

(* Every tile that is left has its memory right: the whole output if it    *)
(* writes to others, its own otherwise.                                    *)
MemoryWhole(t, l) == OutputMemory(t) = IF t.owt > 1 THEN l.out ELSE t.out

(* An output of nothing is cut into slices of nothing. *)
LEMMA NothingToCut ==
    ASSUME NEW d \in Nat, NEW i \in Nat \ {0}
    PROVE  Slice(0, d, i) = 0
  <1> DEFINE x == (i - 1) * d
             y == 0 - x
  <1>1. x \in Nat
    OBVIOUS
  <1> HIDE DEF x
  <1>2. y \in Int /\ y <= 0
    BY <1>1
  <1>3. Remaining(0, d, i) = Max({0, y})
    BY DEF Remaining, x
  <1> HIDE DEF y
  <1>4. Max({0, y}) = IF 0 >= y THEN 0 ELSE y
    BY <1>2, LargerSmaller
  <1>5. Remaining(0, d, i) = 0
    BY <1>2, <1>3, <1>4
  <1>6. Min({d, 0}) = IF d <= 0 THEN d ELSE 0
    BY LargerSmaller
  <1> QED BY <1>5, <1>6 DEF Slice

(* The size of a slice is a number. *)
LEMMA SliceSizeIsNat ==
    ASSUME NEW l, IsDPULayer(l), NEW strategy, NEW n \in Nat \ {0}
    PROVE  SliceSize(l, strategy, n) \in Nat
  <1>1. SplitAxis(strategy).dim \in {"w", "h", "c"}
    BY DEF SplitAxis, Axis_H, Axis_W, Axis_C
  <1>2. l.out[SplitAxis(strategy).dim] \in Nat /\ l.out.c \in Nat
    BY <1>1 DEF IsDPULayer
  <1>3. ceil_division(l.out[SplitAxis(strategy).dim], n) \in Nat
    BY <1>2, CeilDivision
  <1> DEFINE b == IF l.autopad THEN 1 ELSE 16
             x == ceil_division(l.out.c, n)
             y == ceil_division(x, b)
  <1>4. x \in Nat
    BY <1>2, CeilDivision
  <1>5. MaxSlice(l, n) = y * b
    BY DEF MaxSlice, round_up, ceil_division
  <1> HIDE DEF x
  <1>6. b \in Nat \ {0}
    OBVIOUS
  <1> HIDE DEF b
  <1>7. y \in Nat
    BY <1>4, <1>6, CeilDivision
  <1> HIDE DEF y
  <1>8. y * b \in Nat
    BY <1>6, <1>7
  <1> QED BY <1>3, <1>5, <1>8 DEF SliceSize

(* A tile that is left has a slice of the output, and every tile with a    *)
(* slice is left.                                                          *)
LEMMA KeptTile ==
    ASSUME NEW l, IsDPULayer(l), l.halo.inbound = NoHalo, NEW strategy, Supports(strategy),
           NEW n \in Nat \ {0}, NEW i \in Kept(RawTiles(l, strategy, n))
    PROVE  LET t == RawTile(l, strategy, n, i)
               dim == SplitAxis(strategy).dim
               O == l.out[dim]
               d == SliceSize(l, strategy, n)
           IN  /\ i \in 1..n /\ IsRecord(t) /\ t.owt = WrittenTiles(l, n, Forces(strategy))
               /\ O \in Nat \ {0} /\ d \in Nat \ {0} /\ Remaining(O, d, n + 1) = 0
               /\ Slice(O, d, i) > 0 /\ t.out = [l.out EXCEPT ![dim] = Slice(O, d, i)]
               /\ MemoryWhole(t, l)
               /\ \A j \in 1..n : Slice(O, d, j) > 0 => j \in Kept(RawTiles(l, strategy, n))
  <1> DEFINE axis == SplitAxis(strategy)
             dim == axis.dim
             O == l.out[dim]
             d == SliceSize(l, strategy, n)
             t == RawTile(l, strategy, n, i)
             raw == RawTiles(l, strategy, n)
  <1>1. axis \in {Axis_H, Axis_W, Axis_C} /\ dim \in {"w", "h", "c"}
    BY DEF SplitAxis, Axis_H, Axis_W, Axis_C
  <1>2. l.out \in [w : Nat, h : Nat, c : Nat]
    BY DEF IsDPULayer
  <1>3. O \in Nat
    BY <1>1, <1>2
  <1>4. DOMAIN raw = 1..n /\ \A j \in 1..n : raw[j] = RawTile(l, strategy, n, j)
    BY DEF RawTiles
  <1>5. i \in 1..n /\ size(t.out) # 0
    <2>1. i \in DOMAIN raw /\ size(raw[i].out) # 0
      BY DEF Kept
    <2> HIDE DEF raw
    <2> QED BY <1>4, <2>1
  <1>6. \A j \in 1..n : IsPart(RawTile(l, strategy, n, j), l, axis, WrittenTiles(l, n, Forces(strategy)),
                              Remaining(O, d, j), Slice(O, d, j))
    BY RawTileIsPart
  <1>7. d \in Nat
    BY SliceSizeIsNat
  <1> HIDE DEF axis, d, t, raw
  <1>8. O # 0
    <2> SUFFICES ASSUME O = 0
                 PROVE  FALSE
      OBVIOUS
    <2>1. Slice(0, d, i) = 0
      BY <1>5, <1>7, NothingToCut
    <2>2. t.out = [l.out EXCEPT ![dim] = 0]
      BY <1>5, <1>6, <2>1 DEF IsPart, t
    <2>3. size([l.out EXCEPT ![dim] = 0]) # 0
      BY <1>5, <2>2
    <2>4. 0 # 0
      BY <1>1, <1>2, <2>3, SizesAlike
    <2> QED BY <2>4
  <1>9. O \in Nat \ {0} /\ d \in Nat \ {0} /\ Remaining(O, d, n + 1) = 0
    BY <1>8, SliceSizeSuffices DEF axis, d
  <1>10. /\ Remaining(O, d, 1) = O
         /\ \A j \in Nat \ {0} : /\ Remaining(O, d, j) \in Nat /\ Slice(O, d, j) \in Nat
                                 /\ Slice(O, d, j) <= Remaining(O, d, j)
    BY <1>9, AllSlices
  <1>11. Remaining(O, d, i) <= O
    <2>1. i \in Nat \ {0} /\ d \in Nat \ {0}
      BY <1>5, <1>9
    <2>2. Remaining(O, d, i) \in 0..O
      BY <1>3, <2>1, Slices
    <2> QED BY <1>3, <2>2
  <1>12. /\ IsRecord(t) /\ t.owt = WrittenTiles(l, n, Forces(strategy)) /\ t.out = [l.out EXCEPT ![dim] = Slice(O, d, i)]
         /\ t.halo.inbound = InboundOf(l, axis, WrittenTiles(l, n, Forces(strategy)), Remaining(O, d, i), Slice(O, d, i))
    BY <1>5, <1>6 DEF IsPart, t
  <1>13. i \in Nat \ {0}
    BY <1>5
  <1>14. Slice(O, d, i) \in Nat /\ Remaining(O, d, i) \in Nat /\ Slice(O, d, i) <= Remaining(O, d, i)
    BY <1>10, <1>13
  <1>15. size([l.out EXCEPT ![dim] = Slice(O, d, i)]) # 0
    BY <1>5, <1>12
  <1>16. Slice(O, d, i) # 0
    BY <1>1, <1>2, <1>14, <1>15, SizesAlike
  <1>17. MemoryWhole(t, l)
    <2> DEFINE s == Slice(O, d, i)
               r == Remaining(O, d, i)
               owt == WrittenTiles(l, n, Forces(strategy))
    <2>1. s \in Nat /\ r \in Nat /\ s <= r /\ r <= l.out[axis.dim]
      BY <1>11, <1>14
    <2>2. t.out = [l.out EXCEPT ![axis.dim] = s] /\ t.halo.inbound = InboundOf(l, axis, owt, r, s) /\ t.owt = owt
      BY <1>12
    <2> HIDE DEF s, r, owt
    <2>3. OutputMemory(t) = IF owt > 1 THEN l.out ELSE t.out
      BY <1>1, <1>2, <2>1, <2>2, MemoryOfPart
    <2> QED BY <2>2, <2>3 DEF MemoryWhole
  <1>18. ASSUME NEW j \in 1..n, Slice(O, d, j) > 0
         PROVE  j \in Kept(raw)
    <2>1. Slice(O, d, j) \in Nat /\ Slice(O, d, j) # 0
      BY <1>10, <1>18
    <2>2. size([l.out EXCEPT ![dim] = Slice(O, d, j)]) # 0
      BY <1>1, <1>2, <1>14, <1>15, <2>1, SizesAlike
    <2>3. raw[j].out = [l.out EXCEPT ![dim] = Slice(O, d, j)]
      BY <1>4, <1>6 DEF IsPart
    <2> QED BY <1>4, <2>2, <2>3 DEF Kept
  <1>19. Slice(O, d, i) > 0
    BY <1>14, <1>16
  <1> QED BY <1>5, <1>9, <1>12, <1>17, <1>18, <1>19 DEF axis, d, t, raw

(* Where one tile only is left, it has the whole output. *)
LEMMA OnlyTile ==
    ASSUME NEW l, IsDPULayer(l), l.halo.inbound = NoHalo, NEW strategy, Supports(strategy),
           NEW n \in Nat \ {0}, NEW i, Kept(RawTiles(l, strategy, n)) = {i}
    PROVE  RawTile(l, strategy, n, i).out = l.out
  <1> DEFINE t == RawTile(l, strategy, n, i)
             dim == SplitAxis(strategy).dim
             O == l.out[dim]
             d == SliceSize(l, strategy, n)
             kept == Kept(RawTiles(l, strategy, n))
  <1>1. i \in kept
    OBVIOUS
  <1>2. /\ i \in 1..n /\ O \in Nat \ {0} /\ d \in Nat \ {0} /\ Remaining(O, d, n + 1) = 0
        /\ Slice(O, d, i) > 0 /\ t.out = [l.out EXCEPT ![dim] = Slice(O, d, i)]
        /\ \A j \in 1..n : Slice(O, d, j) > 0 => j \in kept
    BY <1>1, KeptTile
  <1> HIDE DEF t, d, kept
  <1>3. Slice(O, d, i) = O
    <2> SUFFICES ASSUME Slice(O, d, i) # O
                 PROVE  FALSE
      OBVIOUS
    <2>1. PICK j \in 1..n : j # i /\ Slice(O, d, j) > 0
      BY <1>2, AnotherSlice
    <2>2. j \in kept
      BY <1>2, <2>1
    <2> QED BY <2>1, <2>2 DEF kept
  <1>4. l.out = [l.out EXCEPT ![dim] = l.out[dim]]
    <2>1. l.out \in [w : Nat, h : Nat, c : Nat]
      BY DEF IsDPULayer
    <2> QED BY <2>1
  <1> QED BY <1>2, <1>3, <1>4 DEF t

(* The memory of the tiles of any split. *)
LEMMA MemoryOfSplit ==
    ASSUME NEW l, IsDPULayer(l), l.halo.inbound = NoHalo, NEW strategy, NEW n \in Nat
    PROVE  LET tiles == splitAcrossTiles(l, strategy, n)
           IN  \A k \in DOMAIN tiles : /\ MemoryWhole(tiles[k], l)
                                       /\ Forces(strategy) => tiles[k].owt = Len(tiles)
  <1> DEFINE tiles == splitAcrossTiles(l, strategy, n)
  <1>0. l.out \in [w : Nat, h : Nat, c : Nat] /\ IsRecord(l)
    BY DEF IsDPULayer
  <1>1. SUFFICES ASSUME NEW k \in DOMAIN tiles
                 PROVE  /\ MemoryWhole(tiles[k], l)
                        /\ Forces(strategy) => tiles[k].owt = Len(tiles)
    OBVIOUS
  <1>2. CASE strategy = "NONE"
    <2> DEFINE t == [l EXCEPT !.isi = "CLUSTERING"]
    <2>1. tiles[k] = t
      <3>1. tiles = [j \in 1..n |-> t]
        BY <1>2, SplitIs
      <3> HIDE DEF t
      <3> QED BY <3>1
    <2>2. t.out = l.out /\ t.halo.inbound = NoHalo
      BY <1>0 DEF IsRecord, Fields
    <2> HIDE DEF t, tiles
    <2>3. OutputMemory(t) = [w |-> newDimensionWithInbound(t.out.w, 0, 0), h |-> newDimensionWithInbound(t.out.h, 0, 0),
                             c |-> newDimensionWithInbound(t.out.c, 0, 0)]
      BY <2>2, MemoryIs DEF NoHalo
    <2>4. \A x \in Nat : newDimensionWithInbound(x, 0, 0) = x
      <3>1. \A x \in Nat : newDimensionWithInbound(x, 0, 0) = 0 + x + 0
        BY InboundIsAdded
      <3> QED BY <3>1
    <2>5. OutputMemory(t) = [w |-> l.out.w, h |-> l.out.h, c |-> l.out.c]
      BY <1>0, <2>2, <2>3, <2>4
    <2>6. OutputMemory(t) = l.out
      BY <1>0, <2>5
    <2>7. ~Forces(strategy)
      BY <1>2 DEF Forces
    <2> QED BY <2>1, <2>2, <2>6, <2>7 DEF MemoryWhole
  <1>3. CASE strategy # "NONE" /\ ~Supports(strategy)
    <2>1. tiles = <<>>
      BY <1>3, SplitIs
    <2> HIDE DEF tiles
    <2> QED BY <2>1
  <1>4. CASE strategy # "NONE" /\ Supports(strategy)
    <2> DEFINE raw == RawTiles(l, strategy, n)
               left == remove_empty_tiles(raw)
               kept == Kept(raw)
               m == Cardinality(kept)
    <2>1. tiles = LimitBroadcast(left, Forces(strategy), n)
      BY <1>4, SplitIs
    <2>2. DOMAIN raw = 1..n /\ kept \in SUBSET (1..n) /\ \A i \in 1..n : raw[i] = RawTile(l, strategy, n, i)
      BY DEF RawTiles, Kept
    <2>3. /\ m \in Nat /\ DOMAIN left = 1..m /\ Len(left) = m
          /\ \A j \in DOMAIN left : \E i \in kept : left[j] = raw[i]
      <3> HIDE DEF raw
      <3> QED BY <2>2, TilesLeft
    <2> HIDE DEF raw, left, m, tiles
    <2>4. DOMAIN tiles = 1..m /\ Len(tiles) = m
      BY <2>1, <2>3 DEF LimitBroadcast
    <2>5. k \in 1..m
      BY <1>1, <2>4 DEF tiles
    <2>6. PICK i \in kept : left[k] = raw[i]
      BY <2>3, <2>5
    <2>7. i \in 1..n /\ n \in Nat \ {0} /\ raw[i] = RawTile(l, strategy, n, i) /\ i \in Kept(RawTiles(l, strategy, n))
      BY <2>2, <2>6 DEF raw
    <2> DEFINE t == RawTile(l, strategy, n, i)
    <2>8. IsRecord(t) /\ t.owt = WrittenTiles(l, n, Forces(strategy)) /\ MemoryWhole(t, l)
      <3>0. Supports(strategy) /\ n \in Nat \ {0} /\ i \in Kept(RawTiles(l, strategy, n))
        BY <1>4, <2>7
      <3>1. IsRecord(t)
        BY <3>0, KeptTile
      <3>2. t.owt = WrittenTiles(l, n, Forces(strategy))
        <4> DEFINE O == l.out[SplitAxis(strategy).dim]
                   d == SliceSize(l, strategy, n)
        <4>1. IsPart(t, l, SplitAxis(strategy), WrittenTiles(l, n, Forces(strategy)),
                     Remaining(O, d, i), Slice(O, d, i))
          BY <2>7, <3>0, RawTileIsPart
        <4> HIDE DEF t, O, d
        <4> QED BY <4>1 DEF IsPart
      <3>3. MemoryWhole(t, l)
        BY <3>0, KeptTile
      <3> QED BY <3>1, <3>2, <3>3
    <2>9. left[k] = t
      BY <2>6, <2>7
    <2>10. m <= n
      <3>1. IsFiniteSet(1..n) /\ Cardinality(1..n) = n
        BY FS_Interval
      <3> HIDE DEF kept
      <3>2. Cardinality(kept) <= Cardinality(1..n)
        BY <2>2, <3>1, FS_Subset
      <3> QED BY <3>1, <3>2 DEF m
    <2> HIDE DEF t, kept
    <2>11. CASE Forces(strategy) /\ m < n
      <3>1. tiles[k] = [t EXCEPT !.owt = m]
        BY <2>1, <2>3, <2>5, <2>9, <2>11 DEF LimitBroadcast
      <3>2. tiles[k].owt = m /\ tiles[k].out = t.out /\ tiles[k].halo = t.halo
        BY <2>8, <3>1 DEF IsRecord, Fields
      <3>3. OutputMemory(tiles[k]) = OutputMemory(t)
        BY <3>2, MemoryIs
      <3>4. t.owt = n /\ n > 1
        BY <2>3, <2>5, <2>7, <2>8, <2>11 DEF WrittenTiles
      <3>5. OutputMemory(tiles[k]) = l.out
        BY <2>8, <3>3, <3>4 DEF MemoryWhole
      <3>6. CASE m > 1
        BY <2>4, <3>2, <3>5, <3>6 DEF MemoryWhole
      <3>7. CASE ~(m > 1)
        <4>1. m = 1
          BY <2>3, <2>5, <3>7
        <4>2. kept = {i}
          <5>1. IsFiniteSet(kept) /\ Cardinality(kept) = 1
            BY <2>2, <2>7, <4>1, SomeOf DEF m
          <5>2. \E x : kept = {x}
            BY <5>1, FS_Singleton
          <5> QED BY <2>6, <5>2
        <4>3. t.out = l.out
          BY <1>4, <2>7, <4>2, OnlyTile DEF t, kept, raw
        <4> QED BY <2>4, <3>2, <3>5, <4>3 DEF MemoryWhole
      <3> QED BY <3>6, <3>7
    <2>12. CASE ~(Forces(strategy) /\ m < n)
      <3>1. tiles = left
        BY <2>1, <2>3, <2>12 DEF LimitBroadcast
      <3>2. Forces(strategy) => t.owt = n /\ m = n
        BY <2>3, <2>7, <2>8, <2>10, <2>12 DEF WrittenTiles
      <3> QED BY <2>4, <2>8, <2>9, <3>1, <3>2
    <2> QED BY <2>11, <2>12 DEF tiles
  <1> QED BY <1>2, <1>3, <1>4

(* The memory of the tiles in any state of the invariant. *)
LEMMA OutputMemoryHolds == CallInv => OutputMemoryWhole
  <1> SUFFICES ASSUME CallInv, IsSplit, layer.halo.inbound = NoHalo, NEW i \in DOMAIN tiles_layer
               PROVE  LET t == tiles_layer[i]
                      IN  /\ OutputMemory(t) = IF t.owt > 1 THEN layer.out ELSE t.out
                          /\ query.strategy \in {"SOK", "SOHO_K_SWITCH"} => t.owt = Len(tiles_layer)
    BY DEF OutputMemoryWhole
  <1>1. /\ query \in Queries /\ layer = Prepared(query.layer)
        /\ tiles_layer = splitAcrossTiles(layer, query.strategy, query.nTiles)
    BY DEF CallInv, AskedAndChecked, TilesOfTheSplit, IsSplit
  <1>2. IsDPULayer(layer) /\ query.nTiles \in Nat
    BY <1>1, QueriesAssumption, QueriesAreLayers
  <1>3. PICK n \in Nat : n = query.nTiles
    BY <1>2
  <1> DEFINE tiles == splitAcrossTiles(layer, query.strategy, n)
  <1>4. \A k \in DOMAIN tiles : MemoryWhole(tiles[k], layer) /\ (Forces(query.strategy) => tiles[k].owt = Len(tiles))
    BY <1>2, <1>3, MemoryOfSplit
  <1>5. tiles_layer = tiles
    BY <1>1, <1>3
  <1> HIDE DEF tiles
  <1>6. MemoryWhole(tiles_layer[i], layer) /\ (Forces(query.strategy) => tiles_layer[i].owt = Len(tiles_layer))
    BY <1>3, <1>4, <1>5
  <1> QED BY <1>6 DEF MemoryWhole, Forces

(* splitAcrossTiles, with any layers that nobody else writes into, devices *)
(* and numbers of tiles: a tile that writes to several has the whole       *)
(* output in its memory, any other its own; and a forced broadcast reaches *)
(* as many tiles as came out of the split.                                 *)
THEOREM TilesHoldTheirOutput == Spec => []OutputMemoryWhole
  BY OutputMemoryHolds, CallInvInit, CallInvNext, PTL DEF Spec

-----------------------------------------------------------------------------
(* The workloads of a tile. *)

(* A workload, whatever its sizes. *)
IsWorkload(t) ==
    t = [f \in DOMAIN t |-> t[f]] /\ {"in", "out", "halo", "mode", "offset"} \subseteq DOMAIN t

(* A layer on a tile, with something to compute. *)
IsTile(t) ==
    /\ IsWorkload(t)
    /\ t.out \in [w : Nat \ {0}, h : Nat \ {0}, c : Nat \ {0}]

(* The part of the output that a workload computes. *)
Computes(wl, x, y, z) ==
    /\ wl.offset.w <= x /\ x < wl.offset.w + wl.out.w
    /\ wl.offset.h <= y /\ y < wl.offset.h + wl.out.h
    /\ wl.offset.c <= z /\ z < wl.offset.c + wl.out.c

(* Every element of an output is computed once. *)
EachOnce(split, out) ==
    \A x \in 0..(out.w - 1), y \in 0..(out.h - 1), z \in 0..(out.c - 1) :
        \E k \in DOMAIN split : /\ Computes(split[k], x, y, z)
                                /\ \A j \in DOMAIN split : Computes(split[j], x, y, z) => j = k

(* Nothing else is. *)
NothingElse(split, out) ==
    \A k \in DOMAIN split, x \in Int, y \in Int, z \in Int :
        Computes(split[k], x, y, z) => x \in 0..(out.w - 1) /\ y \in 0..(out.h - 1) /\ z \in 0..(out.c - 1)

(* The i-th slice of an output, by its positions. *)
InSlice(O, d, i, o) == (i - 1) * d <= o /\ o < (i - 1) * d + Slice(O, d, i)

(* Those positions of its d that are in the output. *)
LEMMA SlicePositions ==
    ASSUME NEW O \in Nat \ {0}, NEW d \in Nat \ {0}, NEW i \in Nat \ {0}, NEW o \in Int
    PROVE  InSlice(O, d, i, o) <=> o < O /\ (i - 1) * d <= o /\ o < (i - 1) * d + d
  <1> DEFINE x == (i - 1) * d
             rem == Remaining(O, d, i)
             out == Slice(O, d, i)
             y == O - x
  <1>1. x \in Nat
    OBVIOUS
  <1>2. O \in Nat /\ d \in Nat /\ d > 0 /\ O > 0
    OBVIOUS
  <1>3. rem \in Nat /\ out \in Nat
    BY AllSlices
  <1>4. rem = Max({0, y})
    BY DEF Remaining
  <1>5. InSlice(O, d, i, o) <=> x <= o /\ o < x + out
    BY DEF InSlice
  <1>6. out = Min({d, rem})
    BY DEF Slice
  <1> HIDE DEF x, rem, out
  <1>7. y \in Int
    BY <1>1
  <1>8. rem = IF 0 >= y THEN 0 ELSE y
    <2> HIDE DEF y
    <2> QED BY <1>4, <1>7, LargerSmaller
  <1>9. out = IF d <= rem THEN d ELSE rem
    BY <1>2, <1>3, <1>6, LargerSmaller, SMTT(30)
  <1>10. x <= o /\ o < x + out <=> o < O /\ x <= o /\ o < x + d
    BY <1>1, <1>2, <1>3, <1>8, <1>9
  <1> QED BY <1>5, <1>10 DEF x

(* Slices that suffice have each position once. *)
LEMMA OneSlice ==
    ASSUME NEW O \in Nat \ {0}, NEW d \in Nat \ {0}, NEW n \in Nat \ {0}, n * d >= O, NEW o \in 0..(O - 1)
    PROVE  \E i \in 1..n : InSlice(O, d, i, o) /\ \A j \in 1..n : InSlice(O, d, j, o) => j = i
  <1> DEFINE q == o \div d
             r == o % d
  <1>1. o \in Nat /\ o \in Int /\ o < O
    OBVIOUS
  <1>2. q \in Nat /\ r \in 0..(d - 1) /\ o = d * q + r
    BY <1>1
  <1> HIDE DEF q, r
  <1>3. d * q = q * d /\ q * d \in Nat /\ n * d \in Nat
    BY <1>2
  <1>4. q * d <= o /\ o < q * d + d
    BY <1>1, <1>2, <1>3
  <1>5. \A p \in Nat : p * d <= o /\ o < p * d + d => p = q
    <2> SUFFICES ASSUME NEW p \in Nat, p * d <= o, o < p * d + d
                 PROVE  p = q
      OBVIOUS
    <2>1. p * d \in Nat /\ (p + 1) * d = p * d + d /\ (q + 1) * d = q * d + d
      BY <1>2
    <2>2. ~ (p + 1 <= q)
      <3>1. p + 1 <= q => (p + 1) * d <= q * d
        BY <1>2, ProductGrows
      <3> QED BY <1>1, <1>3, <1>4, <2>1, <3>1
    <2>3. ~ (q + 1 <= p)
      <3>1. q + 1 <= p => (q + 1) * d <= p * d
        BY <1>2, ProductGrows
      <3> QED BY <1>1, <1>3, <1>4, <2>1, <3>1
    <2> QED BY <1>2, <2>2, <2>3
  <1>6. q + 1 \in 1..n
    <2>1. n <= q => n * d <= q * d
      BY <1>2, ProductGrows
    <2> QED BY <1>1, <1>2, <1>3, <1>4, <2>1
  <1>7. ASSUME NEW j \in 1..n
        PROVE  InSlice(O, d, j, o) <=> j = q + 1
    <2> DEFINE p == j - 1
               x == p * d
    <2>1. p \in Nat /\ j = p + 1 /\ j \in Nat \ {0}
      OBVIOUS
    <2>2. InSlice(O, d, j, o) <=> o < O /\ x <= o /\ o < x + d
      BY <1>1, <2>1, SlicePositions
    <2> HIDE DEF p
    <2>3. x <= o /\ o < x + d => p = q
      BY <1>5, <2>1
    <2>4. p = q => x <= o /\ o < x + d
      BY <1>4
    <2> HIDE DEF x
    <2> QED BY <1>1, <1>2, <2>1, <2>2, <2>3, <2>4
  <1> QED BY <1>6, <1>7

(* Rows of cells, one after the other. *)
LEMMA Cells ==
    ASSUME NEW nW \in Nat \ {0}, NEW nH \in Nat \ {0}
    PROVE  /\ \A k \in 1..(nW * nH) : /\ (k - 1) \div nW \in 0..(nH - 1) /\ (k - 1) % nW \in 0..(nW - 1)
                                      /\ k = ((k - 1) \div nW) * nW + ((k - 1) % nW) + 1
           /\ \A b \in 0..(nH - 1), a \in 0..(nW - 1) :
                 \E k \in 1..(nW * nH) : (k - 1) \div nW = b /\ (k - 1) % nW = a
  <1>0. nW * nH \in Nat /\ nH * nW = nW * nH
    OBVIOUS
  <1>1. ASSUME NEW m \in Nat
        PROVE  /\ m \div nW \in Nat /\ m % nW \in 0..(nW - 1) /\ m = (m \div nW) * nW + (m % nW)
               /\ m < nH * nW => m \div nW < nH
    <2> DEFINE q == m \div nW
               r == m % nW
    <2>1. q \in Nat /\ r \in 0..(nW - 1) /\ m = nW * q + r
      OBVIOUS
    <2> HIDE DEF q, r
    <2>2. nW * q = q * nW /\ q * nW \in Nat
      BY <2>1
    <2>3. nH <= q => nH * nW <= q * nW
      BY <2>1, ProductGrows
    <2>4. m < nH * nW => q < nH
      BY <1>0, <2>1, <2>2, <2>3
    <2> QED BY <2>1, <2>2, <2>4 DEF q, r
  <1>2. ASSUME NEW k \in 1..(nW * nH)
        PROVE  /\ (k - 1) \div nW \in 0..(nH - 1) /\ (k - 1) % nW \in 0..(nW - 1)
               /\ k = ((k - 1) \div nW) * nW + ((k - 1) % nW) + 1
    <2> DEFINE m == k - 1
               q == m \div nW
               r == m % nW
    <2>1. m \in Nat /\ k = m + 1 /\ m < nH * nW
      BY <1>0
    <2> HIDE DEF m
    <2>2. q \in Nat /\ r \in 0..(nW - 1) /\ m = q * nW + r /\ q < nH
      BY <1>1, <2>1
    <2> HIDE DEF q, r
    <2>3. q \in 0..(nH - 1) /\ r \in 0..(nW - 1) /\ k = q * nW + r + 1
      BY <2>1, <2>2
    <2> QED BY <2>3 DEF q, r, m
  <1>3. ASSUME NEW b \in 0..(nH - 1), NEW a \in 0..(nW - 1)
        PROVE  \E k \in 1..(nW * nH) : (k - 1) \div nW = b /\ (k - 1) % nW = a
    <2> DEFINE m == b * nW + a
               q == m \div nW
               r == m % nW
    <2>1. b \in Nat /\ b + 1 <= nH /\ b + 1 \in Nat /\ a \in Nat /\ a < nW
      OBVIOUS
    <2>2. b * nW \in Nat /\ (b + 1) * nW = b * nW + nW
      BY <2>1
    <2>3. (b + 1) * nW <= nH * nW
      BY <2>1, ProductGrows
    <2>4. m \in Nat /\ m < nW * nH
      BY <1>0, <2>1, <2>2, <2>3
    <2> DEFINE p == b * nW
    <2>5. p \in Nat /\ m = p + a
      BY <2>2
    <2> HIDE DEF m
    <2>6. q \in Nat /\ r \in 0..(nW - 1) /\ m = q * nW + r
      BY <1>1, <2>4
    <2> HIDE DEF q, r
    <2>7. q * nW \in Nat /\ (q + 1) * nW = q * nW + nW
      BY <2>6
    <2>8. q + 1 <= b => (q + 1) * nW <= p
      BY <2>1, <2>6, ProductGrows DEF p
    <2>9. b + 1 <= q => (b + 1) * nW <= q * nW
      BY <2>1, <2>6, ProductGrows
    <2>10. (b + 1) * nW = p + nW
      BY <2>2
    <2> DEFINE u == q * nW
               v == (q + 1) * nW
               w == (b + 1) * nW
    <2>11. /\ u \in Nat /\ v = u + nW /\ w = p + nW /\ m = u + r /\ m = p + a
           /\ (q + 1 <= b => v <= p) /\ (b + 1 <= q => w <= u)
      BY <2>5, <2>6, <2>7, <2>8, <2>9, <2>10
    <2>12. q = b => u = p
      BY DEF p
    <2> HIDE DEF p, u, v, w
    <2>13. q = b
      BY <2>1, <2>5, <2>6, <2>11
    <2>14. r = a
      BY <2>1, <2>5, <2>6, <2>11, <2>12, <2>13
    <2>15. m + 1 \in 1..(nW * nH) /\ m + 1 - 1 = m
      BY <1>0, <2>4
    <2> DEFINE k == m + 1
    <2>16. k \in 1..(nW * nH) /\ k - 1 = m
      BY <2>4, <2>15
    <2> HIDE DEF k
    <2>17. (k - 1) \div nW = b /\ (k - 1) % nW = a
      BY <2>13, <2>14, <2>16 DEF q, r
    <2> QED BY <2>16, <2>17
  <1> QED BY <1>2, <1>3

(* What becomes of the output and the offset of a workload: nothing more. *)
LEMMA WorkloadKeeps ==
    ASSUME NEW t, IsWorkload(t), NEW mode
    PROVE  LET wl == inferInputTensorShape([t EXCEPT !.mode = mode])
           IN  wl.out = t.out /\ wl.offset = t.offset
  <1> DEFINE u == [t EXCEPT !.mode = mode]
  <1>1. u = [f \in DOMAIN u |-> u[f]] /\ DOMAIN u = DOMAIN t /\ u.out = t.out /\ u.offset = t.offset
    BY DEF IsWorkload
  <1>2. {"in", "out", "halo", "mode", "offset"} \subseteq DOMAIN u
    BY <1>1 DEF IsWorkload
  <1> HIDE DEF u
  <1>3. PICK in, input : inferInputTensorShape(u) = [u EXCEPT !.in = in, !.halo.input = input]
    BY DEF inferInputTensorShape
  <1>4. inferInputTensorShape(u).out = u.out /\ inferInputTensorShape(u).offset = u.offset
    BY <1>2, <1>3
  <1> QED BY <1>1, <1>4 DEF u

(* A workload of some rows and columns. *)
Piece(t, width, height, x, y, halo, mode) ==
    inferInputTensorShape([createTileHW(t, width, height, x, y, halo) EXCEPT !.mode = mode])

(* It has the output and the offset it was made for. *)
LEMMA RowsAndColumns ==
    ASSUME NEW t, IsTile(t), NEW mode, NEW halo,
           NEW width \in Nat \ {0}, NEW height \in Nat \ {0}, NEW x \in Nat, NEW y \in Nat
    PROVE  /\ Piece(t, width, height, x, y, halo, mode).out = [w |-> width, h |-> height, c |-> t.out.c]
           /\ Piece(t, width, height, x, y, halo, mode).offset = [w |-> x, h |-> y, c |-> 0]
  <1> DEFINE out == [t.out EXCEPT !.w = width, !.h = height]
             offset == [w |-> x, h |-> y, c |-> 0]
             a == createIncompleteTile(t, out, offset)
             u == createTileHW(t, width, height, x, y, halo)
  <1>1. out = [w |-> width, h |-> height, c |-> t.out.c]
    <2> DEFINE o == t.out
    <2>1. o \in [w : Nat \ {0}, h : Nat \ {0}, c : Nat \ {0}]
      BY DEF IsTile
    <2> HIDE DEF o
    <2>2. o = [w |-> o.w, h |-> o.h, c |-> o.c]
      BY <2>1
    <2>3. [o EXCEPT !.w = width] = [w |-> width, h |-> o.h, c |-> o.c]
      BY <2>2
    <2> DEFINE o1 == [o EXCEPT !.w = width]
    <2>4. [o EXCEPT !.w = width, !.h = height] = [o1 EXCEPT !.h = height]
      OBVIOUS
    <2>5. o1 = [w |-> width, h |-> o.h, c |-> o.c]
      BY <2>3
    <2> HIDE DEF o1
    <2>6. [o1 EXCEPT !.h = height] = [w |-> width, h |-> height, c |-> o.c]
      BY <2>5
    <2> QED BY <2>4, <2>6 DEF o
  <1>2. out \in [w : Nat \ {0}, h : Nat \ {0}, c : Nat \ {0}]
    BY <1>1 DEF IsTile
  <1>3. PICK z : u = [a EXCEPT !.halo = z]
    BY DEF createTileHW
  <1> HIDE DEF out, offset, u
  <1>4. a = [t EXCEPT !.out = out, !.offset = offset]
    BY DEF createIncompleteTile
  <1> HIDE DEF a
  <1>5. IsWorkload(u) /\ u.out = out /\ u.offset = offset
    BY <1>3, <1>4 DEF IsTile, IsWorkload
  <1>6. /\ inferInputTensorShape([u EXCEPT !.mode = mode]).out = u.out
        /\ inferInputTensorShape([u EXCEPT !.mode = mode]).offset = u.offset
    BY <1>5, WorkloadKeeps
  <1>7. Piece(t, width, height, x, y, halo, mode) = inferInputTensorShape([u EXCEPT !.mode = mode])
    BY DEF Piece, u
  <1> QED BY <1>1, <1>5, <1>6, <1>7 DEF offset

(* The rounded sizes and numbers of rows or columns suffice. *)
LEMMA GridSuffices ==
    ASSUME NEW O \in Nat \ {0}, NEW factor \in Nat \ {0}, NEW g \in Nat \ {0}
    PROVE  LET d == round_up(ceil_division(O, factor), g)
               n == ceil_division(O, d)
           IN  /\ d \in Nat \ {0} /\ n \in Nat \ {0} /\ n * d >= O /\ factor * d >= O
               /\ \A i \in 1..n : Slice(O, d, i) \in Nat \ {0}
  <1> DEFINE x == ceil_division(O, factor)
             y == ceil_division(x, g)
             d == round_up(x, g)
             n == ceil_division(O, d)
  <1>1. O \in Nat /\ O > 0
    OBVIOUS
  <1>2. x \in Nat /\ x * factor >= O /\ x > 0
    <2>1. x \in Nat
      BY <1>1, CeilDivision
    <2>2. x * factor >= O
      BY <1>1, CeilDivision
    <2>3. x > 0
      BY <1>1, CeilDivision
    <2> QED BY <2>1, <2>2, <2>3
  <1>3. d = y * g
    BY DEF round_up, ceil_division
  <1> HIDE DEF x, d
  <1>4. y \in Nat /\ y * g >= x /\ y > 0
    <2>1. y \in Nat
      BY <1>2, CeilDivision
    <2>2. y * g >= x
      BY <1>2, CeilDivision
    <2>3. y > 0
      BY <1>2, CeilDivision
    <2> QED BY <2>1, <2>2, <2>3
  <1> HIDE DEF y
  <1>5. d \in Nat \ {0} /\ x <= d
    <2>1. y * g \in Nat
      BY <1>4
    <2> QED BY <1>2, <1>3, <1>4, <2>1
  <1>6. factor * d >= O
    <2>1. x * factor \in Nat /\ d * factor \in Nat /\ x * factor <= d * factor
      BY <1>2, <1>5, ProductGrows
    <2>2. factor * d = d * factor
      BY <1>5
    <2> QED BY <1>1, <1>2, <2>1, <2>2
  <1>7. n \in Nat /\ n * d >= O /\ n * d < O + d /\ n > 0
    <2>1. n \in Nat
      BY <1>1, <1>5, CeilDivision
    <2>2. n * d >= O
      BY <1>1, <1>5, CeilDivision
    <2>3. n * d < O + d
      BY <1>1, <1>5, CeilDivision
    <2>4. n > 0
      BY <1>1, <1>5, CeilDivision
    <2> QED BY <2>1, <2>2, <2>3, <2>4
  <1> HIDE DEF n
  <1>8. ASSUME NEW i \in 1..n
        PROVE  Slice(O, d, i) \in Nat \ {0}
    <2> DEFINE p == i - 1
               z == p * d
               s == Slice(O, d, i)
    <2>1. p \in Nat /\ p + 1 \in Nat /\ p + 1 <= n /\ i \in Nat \ {0}
      BY <1>7
    <2>2. s \in Nat
      BY <1>5, <2>1, AllSlices
    <2>3. (p + 1) * d = z + d /\ z \in Nat
      BY <1>5, <2>1
    <2>4. (p + 1) * d <= n * d /\ n * d \in Nat
      BY <1>5, <1>7, <2>1, ProductGrows
    <2> HIDE DEF s
    <2>5. z < O
      BY <1>1, <1>5, <1>7, <2>3, <2>4
    <2>6. InSlice(O, d, i, z) <=> z < O /\ z <= z /\ z < z + d
      <3>1. z \in Int
        BY <2>3
      <3>2. InSlice(O, d, i, z) <=> z < O /\ (i - 1) * d <= z /\ z < (i - 1) * d + d
        BY <1>5, <2>1, <3>1, SlicePositions
      <3> QED BY <3>2
    <2>7. InSlice(O, d, i, z) <=> z <= z /\ z < z + s
      BY DEF InSlice, s
    <2> HIDE DEF z
    <2>8. s > 0
      BY <1>5, <2>2, <2>3, <2>5, <2>6, <2>7
    <2> QED BY <2>2, <2>8 DEF s
  <1> QED BY <1>5, <1>6, <1>7, <1>8 DEF x, d, n

(* The grids of the MPE modes. *)
LEMMA GridIsPositive ==
    ASSUME NEW mode
    PROVE  mpe_mode_to_grid(mode) \in [w : Nat \ {0}, h : Nat \ {0}, c : Nat \ {0}]
  <1>1. \/ mpe_mode_to_grid(mode) = [w |-> 16, h |-> 1, c |-> 16]
        \/ mpe_mode_to_grid(mode) = [w |-> 4,  h |-> 1, c |-> 16]
        \/ mpe_mode_to_grid(mode) = [w |-> 4,  h |-> 4, c |-> 16]
    BY DEF mpe_mode_to_grid
  <1> QED BY <1>1

(* A workload as large as a slice of the columns and one of the rows. *)
IsCell(wl, out, dw, dh, a, b) ==
    /\ wl.out = [w |-> Slice(out.w, dw, a + 1), h |-> Slice(out.h, dh, b + 1), c |-> out.c]
    /\ wl.offset = [w |-> a * dw, h |-> b * dh, c |-> 0]

(* The workloads of splitOverHW are cells, row after row. *)
AreCells(split, out, dw, dh, nW, nH) ==
    /\ nW * dw >= out.w /\ nH * dh >= out.h
    /\ \A i \in 1..nW : Slice(out.w, dw, i) \in Nat \ {0}
    /\ \A i \in 1..nH : Slice(out.h, dh, i) \in Nat \ {0}
    /\ DOMAIN split = 1..(nW * nH)
    /\ \A k \in 1..(nW * nH) : IsCell(split[k], out, dw, dh, (k - 1) % nW, (k - 1) \div nW)

(* splitOverHW makes cells that suffice, for some sizes. *)
LEMMA SplitIntoCells ==
    ASSUME NEW t, IsTile(t), NEW widthFactor \in Nat \ {0}, NEW heightFactor \in Nat \ {0}, NEW mode
    PROVE  \E dw \in Nat \ {0}, dh \in Nat \ {0}, nW \in Nat \ {0}, nH \in Nat \ {0} :
               AreCells(splitOverHW(t, widthFactor, heightFactor, mode), t.out, dw, dh, nW, nH)
  <1> DEFINE out == t.out
             grid == mpe_mode_to_grid(mode)
             dw == round_up(ceil_division(out.w, widthFactor), grid.w)
             dh == round_up(ceil_division(out.h, heightFactor), grid.h)
             nW == ceil_division(out.w, dw)
             nH == ceil_division(out.h, dh)
             idx(k) == (k - 1) \div nW
             idy(k) == (k - 1) % nW
             height(k) == Slice(out.h, dh, idx(k) + 1)
             width(k) == Slice(out.w, dw, idy(k) + 1)
             halo(k) == HaloNow(t.halo, idx(k), nH, idy(k), nW, height(k), width(k))
             cell(k) == createTileHW(t, width(k), height(k), idy(k) * dw, idx(k) * dh, halo(k))
             wl(k) == inferInputTensorShape([cell(k) EXCEPT !.mode = mode])
             split == splitOverHW(t, widthFactor, heightFactor, mode)
  <1>1. out.w \in Nat \ {0} /\ out.h \in Nat \ {0}
    BY DEF IsTile
  <1>2. grid.w \in Nat \ {0} /\ grid.h \in Nat \ {0}
    BY GridIsPositive
  <1>3. /\ dw \in Nat \ {0} /\ nW \in Nat \ {0} /\ nW * dw >= out.w
        /\ \A i \in 1..nW : Slice(out.w, dw, i) \in Nat \ {0}
    <2> HIDE DEF grid, out
    <2> QED BY <1>1, <1>2, GridSuffices
  <1>4. /\ dh \in Nat \ {0} /\ nH \in Nat \ {0} /\ nH * dh >= out.h
        /\ \A i \in 1..nH : Slice(out.h, dh, i) \in Nat \ {0}
    <2> HIDE DEF grid, out
    <2> QED BY <1>1, <1>2, GridSuffices
  <1>5. split = [k \in 1..(nW * nH) |-> wl(k)]
    <2> DEFINE parts == [k \in 1..(nW * nH) |-> cell(k)]
    <2>1. split = setWorkloadsModeAndInfereInputShape(parts, mode)
      BY Zenon DEF splitOverHW
    <2>2. DOMAIN parts = 1..(nW * nH) /\ \A k \in 1..(nW * nH) : parts[k] = cell(k)
      OBVIOUS
    <2> HIDE DEF parts, cell, nW, nH
    <2> QED BY <2>1, <2>2 DEF setWorkloadsModeAndInfereInputShape
  <1> HIDE DEF dw, dh, nW, nH, split
  <1>6. DOMAIN split = 1..(nW * nH) /\ \A k \in 1..(nW * nH) : split[k] = wl(k)
    <2> HIDE DEF wl
    <2> QED BY <1>5
  <1>7. ASSUME NEW k \in 1..(nW * nH)
        PROVE  IsCell(split[k], out, dw, dh, (k - 1) % nW, (k - 1) \div nW)
    <2> DEFINE a == idy(k)
               b == idx(k)
               x == a * dw
               y == b * dh
    <2>1. b \in 0..(nH - 1) /\ a \in 0..(nW - 1)
      BY <1>3, <1>4, Cells
    <2> HIDE DEF a, b
    <2>2. a + 1 \in 1..nW /\ b + 1 \in 1..nH /\ a \in Nat /\ b \in Nat
      BY <1>3, <1>4, <2>1
    <2>3. x \in Nat /\ y \in Nat
      BY <1>3, <1>4, <2>2
    <2>4. Slice(out.w, dw, a + 1) \in Nat \ {0} /\ Slice(out.h, dh, b + 1) \in Nat \ {0}
      BY <1>3, <1>4, <2>2
    <2> DEFINE wd == Slice(out.w, dw, a + 1)
               ht == Slice(out.h, dh, b + 1)
               ha == halo(k)
    <2>5. wl(k) = inferInputTensorShape([createTileHW(t, wd, ht, x, y, ha) EXCEPT !.mode = mode])
      BY Zenon DEF a, b
    <2>6. wd \in Nat \ {0} /\ ht \in Nat \ {0}
      BY <2>4
    <2> HIDE DEF x, y, wd, ht, ha, out, halo, idx, idy, height, width, cell, wl
    <2> DEFINE piece == Piece(t, wd, ht, x, y, ha, mode)
    <2>p. piece.out = [w |-> wd, h |-> ht, c |-> t.out.c] /\ piece.offset = [w |-> x, h |-> y, c |-> 0]
      BY <2>3, <2>6, RowsAndColumns
    <2> HIDE DEF piece
    <2>7. /\ wl(k).out = [w |-> wd, h |-> ht, c |-> t.out.c]
          /\ wl(k).offset = [w |-> x, h |-> y, c |-> 0]
      BY <2>5, <2>p DEF piece, Piece
    <2>8. split[k] = wl(k)
      BY <1>6
    <2>9. IsCell(split[k], out, dw, dh, a, b)
      BY <2>7, <2>8 DEF IsCell, x, y, wd, ht, out
    <2> QED BY <2>9 DEF a, b, idx, idy
  <1>8. AreCells(split, out, dw, dh, nW, nH)
    <2> HIDE DEF out
    <2> QED BY <1>3, <1>4, <1>6, <1>7 DEF AreCells
  <1> QED BY <1>3, <1>4, <1>8 DEF split

(* What a cell computes: a slice of the columns, one of the rows. *)
LEMMA CellComputes ==
    ASSUME NEW wl, NEW O \in [w : Nat \ {0}, h : Nat \ {0}, c : Nat \ {0}],
           NEW dw \in Nat \ {0}, NEW dh \in Nat \ {0}, NEW a \in Nat, NEW b \in Nat,
           IsCell(wl, O, dw, dh, a, b), NEW x \in Int, NEW y \in Int, NEW z \in Int
    PROVE  Computes(wl, x, y, z) <=> /\ InSlice(O.w, dw, a + 1, x) /\ InSlice(O.h, dh, b + 1, y)
                                     /\ z \in 0..(O.c - 1)
  <1> DEFINE wd == Slice(O.w, dw, a + 1)
             ht == Slice(O.h, dh, b + 1)
             p == a * dw
             q == b * dh
  <1>1. /\ wl.out.w = wd /\ wl.out.h = ht /\ wl.out.c = O.c
        /\ wl.offset.w = p /\ wl.offset.h = q /\ wl.offset.c = 0
    BY DEF IsCell
  <1>2. (a + 1) - 1 = a /\ (b + 1) - 1 = b
    OBVIOUS
  <1>3. InSlice(O.w, dw, a + 1, x) <=> p <= x /\ x < p + wd
    BY <1>2 DEF InSlice
  <1>4. InSlice(O.h, dh, b + 1, y) <=> q <= y /\ y < q + ht
    BY <1>2 DEF InSlice
  <1>5. z \in 0..(O.c - 1) <=> 0 <= z /\ z < 0 + O.c
    <2>1. O.c \in Nat
      OBVIOUS
    <2> QED BY <2>1
  <1> HIDE DEF wd, ht, p, q
  <1>6. Computes(wl, x, y, z) <=> /\ p <= x /\ x < p + wd /\ q <= y /\ y < q + ht
                                  /\ 0 <= z /\ z < 0 + O.c
    BY <1>1 DEF Computes
  <1> QED BY <1>3, <1>4, <1>5, <1>6

(* splitOverHW, the split that the height, width and mixed tilings share:  *)
(* with any numbers of rows and columns and any sizes, each element of the *)
(* output of the tile is computed by one workload, no workload goes beyond *)
(* the tile, and none is empty.                                            *)
THEOREM RowsAndColumnsCoverTheTile ==
    ASSUME NEW t, IsTile(t), NEW widthFactor \in Nat \ {0}, NEW heightFactor \in Nat \ {0}, NEW mode
    PROVE  LET split == splitOverHW(t, widthFactor, heightFactor, mode)
           IN  /\ EachOnce(split, t.out) /\ NothingElse(split, t.out)
               /\ \A k \in DOMAIN split : split[k].out \in [w : Nat \ {0}, h : Nat \ {0}, c : Nat \ {0}]
  <1> DEFINE split == splitOverHW(t, widthFactor, heightFactor, mode)
             O == t.out
  <1>1. PICK dw \in Nat \ {0}, dh \in Nat \ {0}, nW \in Nat \ {0}, nH \in Nat \ {0} :
             AreCells(split, O, dw, dh, nW, nH)
    BY SplitIntoCells
  <1>2. O \in [w : Nat \ {0}, h : Nat \ {0}, c : Nat \ {0}]
    BY DEF IsTile
  <1> HIDE DEF split, O
  <1> DEFINE idx(k) == (k - 1) \div nW
             idy(k) == (k - 1) % nW
  <1>3. DOMAIN split = 1..(nW * nH) /\ nW * dw >= O.w /\ nH * dh >= O.h
    BY <1>1 DEF AreCells
  <1>4. \A k \in DOMAIN split : /\ idx(k) \in 0..(nH - 1) /\ idy(k) \in 0..(nW - 1)
                                /\ k = idx(k) * nW + idy(k) + 1
    BY <1>3, Cells
  <1>5. \A b \in 0..(nH - 1), a \in 0..(nW - 1) : \E k \in DOMAIN split : idx(k) = b /\ idy(k) = a
    <2>1. \A b \in 0..(nH - 1), a \in 0..(nW - 1) :
             \E k \in 1..(nW * nH) : (k - 1) \div nW = b /\ (k - 1) % nW = a
      BY Cells
    <2> QED BY <1>3, <2>1, Zenon
  <1>6. \A k \in DOMAIN split : IsCell(split[k], O, dw, dh, idy(k), idx(k))
    BY <1>1 DEF AreCells
  <1> HIDE DEF idx, idy
  <1>7. ASSUME NEW k \in DOMAIN split, NEW x \in Int, NEW y \in Int, NEW z \in Int
        PROVE  Computes(split[k], x, y, z) <=> /\ InSlice(O.w, dw, idy(k) + 1, x)
                                               /\ InSlice(O.h, dh, idx(k) + 1, y)
                                               /\ z \in 0..(O.c - 1)
    <2>1. idy(k) \in Nat /\ idx(k) \in Nat
      BY <1>4
    <2>2. IsCell(split[k], O, dw, dh, idy(k), idx(k))
      BY <1>6
    <2> QED BY <1>2, <2>1, <2>2, CellComputes
  <1>8. O.w \in Nat \ {0} /\ O.h \in Nat \ {0} /\ O.c \in Nat \ {0}
    BY <1>2
  <1>9. EachOnce(split, O)
    <2> SUFFICES ASSUME NEW x \in 0..(O.w - 1), NEW y \in 0..(O.h - 1), NEW z \in 0..(O.c - 1)
                 PROVE  \E k \in DOMAIN split : /\ Computes(split[k], x, y, z)
                                                /\ \A j \in DOMAIN split : Computes(split[j], x, y, z) => j = k
      BY DEF EachOnce
    <2>1. PICK i \in 1..nW : InSlice(O.w, dw, i, x) /\ \A j \in 1..nW : InSlice(O.w, dw, j, x) => j = i
      BY <1>3, <1>8, OneSlice
    <2>2. PICK r \in 1..nH : InSlice(O.h, dh, r, y) /\ \A j \in 1..nH : InSlice(O.h, dh, j, y) => j = r
      BY <1>3, <1>8, OneSlice
    <2>3. r - 1 \in 0..(nH - 1) /\ i - 1 \in 0..(nW - 1)
      OBVIOUS
    <2>4. PICK k \in DOMAIN split : idx(k) = r - 1 /\ idy(k) = i - 1
      BY <1>5, <2>3
    <2>5. x \in Int /\ y \in Int /\ z \in Int
      BY <1>8
    <2>6. idx(k) + 1 = r /\ idy(k) + 1 = i
      BY <2>4
    <2>7. Computes(split[k], x, y, z)
      BY <1>7, <2>1, <2>2, <2>5, <2>6
    <2>8. ASSUME NEW j \in DOMAIN split, Computes(split[j], x, y, z)
          PROVE  j = k
      <3>1. InSlice(O.w, dw, idy(j) + 1, x) /\ InSlice(O.h, dh, idx(j) + 1, y)
        BY <1>7, <2>5, <2>8
      <3>2. idy(j) + 1 \in 1..nW /\ idx(j) + 1 \in 1..nH
        BY <1>4
      <3>3. idy(j) + 1 = i /\ idx(j) + 1 = r
        BY <2>1, <2>2, <3>1, <3>2
      <3>4. idy(j) = idy(k) /\ idx(j) = idx(k)
        BY <1>4, <2>4, <3>3
      <3> QED BY <1>4, <3>4
    <2> QED BY <2>7, <2>8
  <1>10. NothingElse(split, O)
    <2> SUFFICES ASSUME NEW k \in DOMAIN split, NEW x \in Int, NEW y \in Int, NEW z \in Int,
                        Computes(split[k], x, y, z)
                 PROVE  x \in 0..(O.w - 1) /\ y \in 0..(O.h - 1) /\ z \in 0..(O.c - 1)
      BY DEF NothingElse
    <2>1. /\ InSlice(O.w, dw, idy(k) + 1, x) /\ InSlice(O.h, dh, idx(k) + 1, y) /\ z \in 0..(O.c - 1)
      BY <1>7
    <2>2. ASSUME NEW n \in Nat \ {0}, NEW d \in Nat \ {0}, NEW a \in Nat, NEW o \in Int, InSlice(n, d, a + 1, o)
          PROVE  o \in 0..(n - 1)
      <3> DEFINE p == ((a + 1) - 1) * d
      <3>1. o < n /\ p <= o
        BY <2>2, SlicePositions
      <3>2. p \in Nat
        OBVIOUS
      <3> HIDE DEF p
      <3> QED BY <3>1, <3>2
    <2>3. idy(k) \in Nat /\ idx(k) \in Nat
      BY <1>4
    <2> QED BY <1>8, <2>1, <2>2, <2>3
  <1>11. ASSUME NEW k \in DOMAIN split
         PROVE  split[k].out \in [w : Nat \ {0}, h : Nat \ {0}, c : Nat \ {0}]
    <2> DEFINE wd == Slice(O.w, dw, idy(k) + 1)
               ht == Slice(O.h, dh, idx(k) + 1)
    <2>1. split[k].out = [w |-> wd, h |-> ht, c |-> O.c]
      BY <1>6 DEF IsCell
    <2>2. idy(k) + 1 \in 1..nW /\ idx(k) + 1 \in 1..nH
      BY <1>4
    <2>3. wd \in Nat \ {0} /\ ht \in Nat \ {0}
      BY <1>1, <2>2 DEF AreCells
    <2> HIDE DEF wd, ht
    <2> QED BY <1>8, <2>1, <2>3
  <1> QED BY <1>9, <1>10, <1>11 DEF split, O

(* A workload of some channels. *)
LEMMA SomeChannels ==
    ASSUME NEW t, IsTile(t), NEW mode, NEW channels, NEW z
    PROVE  LET wl == inferInputTensorShape([createTileZ(t, channels, z) EXCEPT !.mode = mode])
           IN  /\ wl.out = [w |-> t.out.w, h |-> t.out.h, c |-> channels]
               /\ wl.offset = [w |-> 0, h |-> 0, c |-> z]
  <1> DEFINE out == [t.out EXCEPT !.c = channels]
             offset == [w |-> 0, h |-> 0, c |-> z]
             a == createIncompleteTile(t, out, offset)
             u == createTileZ(t, channels, z)
  <1>1. out = [w |-> t.out.w, h |-> t.out.h, c |-> channels]
    <2> DEFINE o == t.out
    <2>1. o \in [w : Nat \ {0}, h : Nat \ {0}, c : Nat \ {0}]
      BY DEF IsTile
    <2> HIDE DEF o
    <2>2. [o EXCEPT !.c = channels] = [w |-> o.w, h |-> o.h, c |-> channels]
      BY <2>1
    <2> QED BY <2>2 DEF o
  <1>2. PICK halo : u = [a EXCEPT !.halo = halo]
    BY ZenonT(30) DEF createTileZ
  <1> HIDE DEF out, offset, u
  <1>3. a = [t EXCEPT !.out = out, !.offset = offset]
    BY DEF createIncompleteTile
  <1> HIDE DEF a
  <1>4. IsWorkload(u) /\ u.out = out /\ u.offset = offset
    BY <1>2, <1>3 DEF IsTile, IsWorkload
  <1>5. /\ inferInputTensorShape([u EXCEPT !.mode = mode]).out = u.out
        /\ inferInputTensorShape([u EXCEPT !.mode = mode]).offset = u.offset
    BY <1>4, WorkloadKeeps
  <1> QED BY <1>1, <1>4, <1>5 DEF u, offset

(* splitOverZ, where it splits: with any number of slices and any sizes,   *)
(* each element of the output of the tile is computed by one workload and  *)
(* no workload goes beyond the tile, although the rounded slices may leave *)
(* nothing to the last ones.                                               *)
THEOREM ChannelsCoverTheTile ==
    ASSUME NEW t, IsTile(t), NEW mode, NEW n \in Nat \ {0}, NEW validZTiles
    PROVE  \A v \in DOMAIN splitOverZ(t, mode, n, validZTiles) :
               LET split == splitOverZ(t, mode, n, validZTiles)[v]
               IN  EachOnce(split, t.out) /\ NothingElse(split, t.out)
  <1> DEFINE O == t.out
             grid == mpe_mode_to_grid(mode)
             d == round_up(ceil_division(O.c, n), grid.c)
             wl(i) == inferInputTensorShape([createTileZ(t, Slice(O.c, d, i), (i - 1) * d) EXCEPT !.mode = mode])
             parts == [i \in 1..n |-> createTileZ(t, Slice(O.c, d, i), (i - 1) * d)]
             split == setWorkloadsModeAndInfereInputShape(parts, mode)
  <1>1. \A v \in DOMAIN splitOverZ(t, mode, n, validZTiles) : splitOverZ(t, mode, n, validZTiles)[v] = split
    <2>1. splitOverZ(t, mode, n, validZTiles) \in {<<>>, <<split>>}
      BY Zenon DEF splitOverZ
    <2> HIDE DEF split
    <2> QED BY <2>1
  <1>2. O.w \in Nat \ {0} /\ O.h \in Nat \ {0} /\ O.c \in Nat \ {0}
    BY DEF IsTile
  <1>3. d \in Nat \ {0} /\ n * d >= O.c
    <2>1. grid.c \in Nat \ {0}
      BY GridIsPositive
    <2> HIDE DEF grid, O
    <2> QED BY <1>2, <2>1, GridSuffices
  <1>4. DOMAIN split = 1..n /\ \A i \in 1..n : split[i] = wl(i)
    <2>1. DOMAIN parts = 1..n /\ \A i \in 1..n : parts[i] = createTileZ(t, Slice(O.c, d, i), (i - 1) * d)
      OBVIOUS
    <2> HIDE DEF parts, d, O
    <2> QED BY <2>1 DEF setWorkloadsModeAndInfereInputShape
  <1> HIDE DEF split, d
  <1>5. ASSUME NEW i \in 1..n, NEW x \in Int, NEW y \in Int, NEW z \in Int
        PROVE  Computes(split[i], x, y, z) <=>
                   x \in 0..(O.w - 1) /\ y \in 0..(O.h - 1) /\ InSlice(O.c, d, i, z)
    <2> DEFINE s == Slice(O.c, d, i)
               p == (i - 1) * d
    <2>1. InSlice(O.c, d, i, z) <=> p <= z /\ z < p + s
      BY DEF InSlice
    <2>2. wl(i).out = [w |-> O.w, h |-> O.h, c |-> s] /\ wl(i).offset = [w |-> 0, h |-> 0, c |-> p]
      <3> HIDE DEF s, p
      <3>1. wl(i) = inferInputTensorShape([createTileZ(t, s, p) EXCEPT !.mode = mode])
        BY DEF s, p
      <3> HIDE DEF wl
      <3> QED BY <3>1, SomeChannels
    <2>3. split[i] = wl(i)
      BY <1>4
    <2> HIDE DEF s, p, wl, O
    <2>4. /\ split[i].out.w = O.w /\ split[i].out.h = O.h /\ split[i].out.c = s
          /\ split[i].offset.w = 0 /\ split[i].offset.h = 0 /\ split[i].offset.c = p
      BY <2>2, <2>3
    <2>5. Computes(split[i], x, y, z) <=> /\ 0 <= x /\ x < 0 + O.w /\ 0 <= y /\ y < 0 + O.h
                                          /\ p <= z /\ z < p + s
      BY <2>4 DEF Computes
    <2> QED BY <1>2, <2>1, <2>5
  <1> HIDE DEF O
  <1>6. EachOnce(split, O)
    <2> SUFFICES ASSUME NEW x \in 0..(O.w - 1), NEW y \in 0..(O.h - 1), NEW z \in 0..(O.c - 1)
                 PROVE  \E k \in DOMAIN split : /\ Computes(split[k], x, y, z)
                                                /\ \A j \in DOMAIN split : Computes(split[j], x, y, z) => j = k
      BY DEF EachOnce
    <2>1. PICK k \in 1..n : InSlice(O.c, d, k, z) /\ \A j \in 1..n : InSlice(O.c, d, j, z) => j = k
      BY <1>2, <1>3, OneSlice
    <2>2. x \in Int /\ y \in Int /\ z \in Int
      BY <1>2
    <2> QED BY <1>4, <1>5, <2>1, <2>2
  <1>7. NothingElse(split, O)
    <2> SUFFICES ASSUME NEW k \in DOMAIN split, NEW x \in Int, NEW y \in Int, NEW z \in Int,
                        Computes(split[k], x, y, z)
                 PROVE  x \in 0..(O.w - 1) /\ y \in 0..(O.h - 1) /\ z \in 0..(O.c - 1)
      BY DEF NothingElse
    <2>1. k \in 1..n /\ k \in Nat \ {0}
      BY <1>4
    <2>2. x \in 0..(O.w - 1) /\ y \in 0..(O.h - 1) /\ InSlice(O.c, d, k, z)
      BY <1>5, <2>1
    <2> DEFINE p == (k - 1) * d
    <2>3. z < O.c /\ p <= z
      BY <1>2, <1>3, <2>1, <2>2, SlicePositions
    <2>4. p \in Nat
      BY <1>3, <2>1
    <2> HIDE DEF p
    <2> QED BY <1>2, <2>2, <2>3, <2>4
  <1> QED BY <1>1, <1>6, <1>7 DEF O
=============================================================================
