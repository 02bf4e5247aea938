--------------------------- MODULE DPULayerProofs ---------------------------
(***************************************************************************)
(* Proofs about the split of a layer along one axis (the loop of           *)
(* SOH_overlapped_inputs, SOW_overlapped_inputs and SOH_HALO_inputs), for  *)
(* layers, kernels, strides and paddings of every size and any number of   *)
(* tiles.                                                                  *)
(***************************************************************************)
EXTENDS DPULayer, FiniteSetTheorems, TLAPS

(* A layer that makes sense along an axis: its outputs read lines of the   *)
(* padded input only, and there is less padding than kernel on each side.  *)
WellFormed(layer, axis) ==
    /\ layer.in[axis.dim] \in Nat \ {0} /\ layer.out[axis.dim] \in Nat \ {0}
    /\ layer.kernel[axis.dim] \in Nat \ {0} /\ layer.stride[axis.dim] \in Nat \ {0}
    /\ layer.pad[axis.begin] \in 0..(layer.kernel[axis.dim] - 1)
    /\ layer.pad[axis.end] \in 0..(layer.kernel[axis.dim] - 1)
    /\ (layer.out[axis.dim] - 1) * layer.stride[axis.dim] + layer.kernel[axis.dim]
          <= layer.in[axis.dim] + layer.pad[axis.begin] + layer.pad[axis.end]

-----------------------------------------------------------------------------
(* Numbers. *)

(* The larger and the smaller of two numbers. *)
LEMMA LargerSmaller ==
    ASSUME NEW a \in Int, NEW b \in Int
    PROVE  /\ Max({a, b}) = IF a >= b THEN a ELSE b
           /\ Min({a, b}) = IF a <= b THEN a ELSE b
  <1>1. CASE a > b
    BY <1>1 DEF Max, Min
  <1>2. CASE a < b
    BY <1>2 DEF Max, Min
  <1>3. CASE a = b
    BY <1>3 DEF Max, Min
  <1> QED BY <1>1, <1>2, <1>3

(* Division rounded up is the least number of parts that suffices. *)
LEMMA CeilDivision ==
    ASSUME NEW a \in Nat, NEW b \in Nat \ {0}
    PROVE  /\ ceil_division(a, b) \in Nat
           /\ ceil_division(a, b) * b >= a /\ ceil_division(a, b) * b < a + b
           /\ a > 0 => ceil_division(a, b) > 0
  <1> DEFINE n == a + b - 1
             q == n \div b
             r == n % b
  <1>1. n \in Nat /\ q \in Nat /\ r \in 0..(b - 1) /\ n = b * q + r
    OBVIOUS
  <1> HIDE DEF q, r
  <1>2. b * q = q * b /\ q * b \in Nat
    BY <1>1
  <1>3. q * b >= a /\ q * b < a + b
    BY <1>1, <1>2
  <1>4. a > 0 => q > 0
    BY <1>1, <1>3
  <1> QED BY <1>1, <1>3, <1>4 DEF ceil_division, q

-----------------------------------------------------------------------------
(* The slices of an output. *)

(* Each slice takes its part of what the ones before have left, the full   *)
(* part until the last but one that is not empty.                          *)
LEMMA Slices ==
    ASSUME NEW O \in Nat, NEW d \in Nat \ {0}, NEW i \in Nat \ {0}
    PROVE  /\ Remaining(O, d, i) \in 0..O /\ Slice(O, d, i) \in 0..d
           /\ Slice(O, d, i) <= Remaining(O, d, i)
           /\ Remaining(O, d, 1) = O
           /\ Remaining(O, d, i + 1) = Remaining(O, d, i) - Slice(O, d, i)
           /\ Slice(O, d, i) > 0 <=> Remaining(O, d, i) > 0
           /\ Remaining(O, d, i + 1) > 0 => Slice(O, d, i) = d
           /\ Remaining(O, d, i) > 0 => O - Remaining(O, d, i) = (i - 1) * d
  <1> DEFINE x == (i - 1) * d
             y == O - x
  <1>1. x \in Nat /\ (i + 1 - 1) * d = x + d /\ (1 - 1) * d = 0
    OBVIOUS
  <1>2. /\ Remaining(O, d, i) = Max({0, y}) /\ Remaining(O, d, i + 1) = Max({0, y - d})
        /\ Remaining(O, d, 1) = Max({0, O})
    <2> HIDE DEF x
    <2>1. O - (i + 1 - 1) * d = y - d /\ O - (1 - 1) * d = O
      BY <1>1
    <2> QED BY <2>1 DEF Remaining, x
  <1> HIDE DEF x
  <1>3. y \in Int
    BY <1>1
  <1> HIDE DEF y
  <1>4. /\ Max({0, y}) = (IF 0 >= y THEN 0 ELSE y)
        /\ Max({0, y - d}) = (IF 0 >= y - d THEN 0 ELSE y - d)
        /\ Max({0, O}) = (IF 0 >= O THEN 0 ELSE O)
    BY <1>3, LargerSmaller
  <1>5. Remaining(O, d, i) \in Int
    BY <1>2, <1>3, <1>4
  <1>6. Slice(O, d, i) = IF d <= Remaining(O, d, i) THEN d ELSE Remaining(O, d, i)
    <2> DEFINE r == Remaining(O, d, i)
    <2>1. Slice(O, d, i) = Min({d, r}) /\ r \in Int /\ d \in Int
      BY <1>5 DEF Slice
    <2> HIDE DEF r
    <2>2. Min({d, r}) = IF d <= r THEN d ELSE r
      BY <2>1, LargerSmaller
    <2> QED BY <2>1, <2>2 DEF r
  <1> QED BY <1>1, <1>2, <1>3, <1>4, <1>6 DEF x, y

(* The slices of n tiles take the whole output. *)
LEMMA SlicesSuffice ==
    ASSUME NEW O \in Nat \ {0}, NEW n \in Nat \ {0}
    PROVE  /\ ceil_division(O, n) \in Nat \ {0}
           /\ Remaining(O, ceil_division(O, n), n + 1) = 0
  <1> DEFINE d == ceil_division(O, n)
  <1>1. d \in Nat \ {0} /\ d * n >= O
    BY CeilDivision
  <1> HIDE DEF d
  <1>2. (n + 1 - 1) * d = d * n /\ d * n \in Nat
    BY <1>1
  <1>3. Remaining(O, d, n + 1) = Max({0, O - d * n})
    BY <1>2 DEF Remaining
  <1>4. Max({0, O - d * n}) = 0
    BY <1>1, <1>2, LargerSmaller
  <1> QED BY <1>1, <1>3, <1>4 DEF d

-----------------------------------------------------------------------------
(* The lines that outputs read. *)

(* Those that outputs from..to-1 read of the padded input; the lines of    *)
(* the input itself are 0..size-1.                                         *)
Reads(layer, axis, from, to) ==
    UNION {(o * layer.stride[axis.dim] - layer.pad[axis.begin])
               ..(o * layer.stride[axis.dim] - layer.pad[axis.begin] + layer.kernel[axis.dim] - 1) :
           o \in from..(to - 1)}

(* From the first to the last of them. *)
Hull(S) == IF S = {} THEN {} ELSE Min(S)..Max(S)

LEMMA ProductGrows ==
    ASSUME NEW a \in Nat, NEW b \in Nat, NEW s \in Nat, a <= b
    PROVE  a * s \in Nat /\ b * s \in Nat /\ a * s <= b * s
  <1>1. PICK e \in Nat : b = a + e
    <2>1. b - a \in Nat /\ b = a + (b - a)
      OBVIOUS
    <2> QED BY <2>1
  <1>2. (a + e) * s = a * s + e * s /\ a * s \in Nat /\ e * s \in Nat
    BY <1>1
  <1> QED BY <1>1, <1>2

(* Smallest and largest element, given. *)
LEMMA Extremes ==
    ASSUME NEW S \in SUBSET Int, NEW a \in S, NEW b \in S, \A y \in S : a <= y /\ y <= b
    PROVE  Hull(S) = a..b
  <1>1. Min(S) = a
    <2>1. \A x \in S : (\A y \in S : x <= y) => x = a
      OBVIOUS
    <2>2. \A y \in S : a <= y
      OBVIOUS
    <2> QED BY <2>1, <2>2, Zenon DEF Min
  <1>2. Max(S) = b
    <2>1. \A x \in S : (\A y \in S : x >= y) => x = b
      OBVIOUS
    <2>2. \A y \in S : b >= y
      OBVIOUS
    <2> QED BY <2>1, <2>2, Zenon DEF Max
  <1> QED BY <1>1, <1>2 DEF Hull

LEMMA HullOfReads ==
    ASSUME NEW layer, NEW axis, WellFormed(layer, axis), NEW from \in Nat, NEW to \in Nat, from < to
    PROVE  Hull(Reads(layer, axis, from, to)) =
              (from * layer.stride[axis.dim] - layer.pad[axis.begin])
              ..((to - 1) * layer.stride[axis.dim] - layer.pad[axis.begin] + layer.kernel[axis.dim] - 1)
  <1> DEFINE s == layer.stride[axis.dim]
             k == layer.kernel[axis.dim]
             p == layer.pad[axis.begin]
             S == Reads(layer, axis, from, to)
             a == from * s - p
             b == (to - 1) * s - p + k - 1
  <1>1. s \in Nat /\ k \in Nat \ {0} /\ p \in Nat
    BY DEF WellFormed
  <1>2. S = UNION {(o * s - p)..(o * s - p + k - 1) : o \in from..(to - 1)}
    BY DEF Reads
  <1> HIDE DEF s, k, p, S
  <1>3. \A o \in from..(to - 1) : o * s \in Nat /\ from * s <= o * s /\ o * s <= (to - 1) * s
    <2> TAKE o \in from..(to - 1)
    <2>1. o \in Nat /\ to - 1 \in Nat /\ from <= o /\ o <= to - 1
      OBVIOUS
    <2> QED BY <1>1, <2>1, ProductGrows
  <1>4. from \in from..(to - 1) /\ to - 1 \in from..(to - 1)
    OBVIOUS
  <1>5. from * s \in Nat /\ (to - 1) * s \in Nat
    BY <1>3, <1>4
  <1>6. a \in S
    <2>1. a \in (from * s - p)..(from * s - p + k - 1)
      BY <1>1, <1>5
    <2> QED BY <1>2, <1>4, <2>1
  <1>7. b \in S
    <2>1. b \in ((to - 1) * s - p)..((to - 1) * s - p + k - 1)
      BY <1>1, <1>5
    <2> QED BY <1>2, <1>4, <2>1
  <1>8. ASSUME NEW y \in S PROVE y \in Int /\ a <= y /\ y <= b
    <2>1. PICK o \in from..(to - 1) : y \in (o * s - p)..(o * s - p + k - 1)
      BY <1>2
    <2>2. o * s \in Nat /\ from * s <= o * s /\ o * s <= (to - 1) * s
      BY <1>3
    <2> QED BY <1>1, <1>5, <2>1, <2>2
  <1>9. S \in SUBSET Int
    BY <1>8
  <1>10. Hull(S) = a..b
    <2> HIDE DEF a, b
    <2> QED BY <1>6, <1>7, <1>8, <1>9, Extremes
  <1> QED BY <1>10 DEF s, k, p, S

(* How many lines of an interval are before, in and after the input. *)
LEMMA LinesCounted ==
    ASSUME NEW a \in Int, NEW b \in Int, NEW I \in Nat \ {0}, a <= b
    PROVE  /\ Cardinality((a..b) \cap (0..(I - 1))) =
                 LET x == IF a >= 0 THEN a ELSE 0
                     y == IF b <= I - 1 THEN b ELSE I - 1
                 IN  IF x > y THEN 0 ELSE y - x + 1
           /\ Cardinality({l \in a..b : l < 0}) = IF a >= 0 THEN 0 ELSE IF b < 0 THEN b - a + 1 ELSE 0 - a
           /\ Cardinality({l \in a..b : l > I - 1}) = IF b <= I - 1 THEN 0 ELSE IF a > I - 1 THEN b - a + 1 ELSE b - I + 1
  <1> DEFINE x == IF a >= 0 THEN a ELSE 0
             y == IF b <= I - 1 THEN b ELSE I - 1
             u == IF b < 0 THEN b ELSE -1
             v == IF a > I - 1 THEN a ELSE I
  <1>1. x \in Int /\ y \in Int /\ u \in Int /\ v \in Int
    OBVIOUS
  <1>2. (a..b) \cap (0..(I - 1)) = x..y /\ {l \in a..b : l < 0} = a..u /\ {l \in a..b : l > I - 1} = v..b
    OBVIOUS
  <1>3. /\ Cardinality(x..y) = IF x > y THEN 0 ELSE y - x + 1
        /\ Cardinality(a..u) = IF a > u THEN 0 ELSE u - a + 1
        /\ Cardinality(v..b) = IF v > b THEN 0 ELSE b - v + 1
    <2> HIDE DEF x, y, u, v
    <2> QED BY <1>1, FS_Interval
  <1>4. Cardinality(x..y) = Cardinality((a..b) \cap (0..(I - 1)))
    BY <1>2
  <1>5. Cardinality({l \in a..b : l < 0}) = IF a >= 0 THEN 0 ELSE IF b < 0 THEN b - a + 1 ELSE 0 - a
    <2>1. Cardinality({l \in a..b : l < 0}) = Cardinality(a..u)
      BY <1>2
    <2> QED BY <1>3, <2>1
  <1>6. Cardinality({l \in a..b : l > I - 1}) = IF b <= I - 1 THEN 0 ELSE IF a > I - 1 THEN b - a + 1 ELSE b - I + 1
    <2>1. Cardinality({l \in a..b : l > I - 1}) = Cardinality(v..b)
      BY <1>2
    <2> QED BY <1>3, <2>1
  <1> QED BY <1>3, <1>4, <1>5, <1>6

-----------------------------------------------------------------------------
(* The tiles. *)

(* The context of tile i, whose outputs begin with number `from`. *)
LEMMA ContextOf ==
    ASSUME NEW layer, NEW axis, WellFormed(layer, axis), NEW n \in Nat \ {0}, NEW i \in 1..n,
           TileContext(layer, axis, n)[i].out > 0
    PROVE  LET c     == TileContext(layer, axis, n)[i]
               O     == layer.out[axis.dim]
               k     == layer.kernel[axis.dim]
               s     == layer.stride[axis.dim]
               start == (O - c.remaining) * s - layer.pad[axis.begin]
               need  == start + c.required - layer.in[axis.dim]
               taken == IF need <= 0 THEN 0 ELSE IF need <= layer.pad[axis.end] THEN need ELSE layer.pad[axis.end]
               rest  == c.required - c.pad_begin - taken
           IN  /\ c.remaining = Remaining(O, ceil_division(O, n), i) /\ c.out = Slice(O, ceil_division(O, n), i)
               /\ c.remaining \in 1..O /\ c.out \in 1..c.remaining
               /\ c.required = (c.out - 1) * s + k /\ c.required \in Nat
               /\ start \in Int /\ c.available = layer.in[axis.dim] - start
               /\ c.last <=> c.remaining = c.out
               /\ c.pad_begin = IF start >= 0 THEN 0 ELSE 0 - start
               /\ c.pad_end = IF c.last THEN layer.pad[axis.end] ELSE taken
               /\ c.in = IF rest <= 0 THEN 0 ELSE rest
  <1> DEFINE c  == TileContext(layer, axis, n)[i]
             O  == layer.out[axis.dim]
             k  == layer.kernel[axis.dim]
             s  == layer.stride[axis.dim]
             I  == layer.in[axis.dim]
             pb == layer.pad[axis.begin]
             pe == layer.pad[axis.end]
             d  == ceil_division(O, n)
             rem == Remaining(O, d, i)
             out == Slice(O, d, i)
             used == (O - rem) * s
             req == helper_input_dim(out, k, 0, s)
             more == req - (I + pb - used)
             fe == IF more > 0 THEN Min({more, pe}) ELSE 0
             ahead == Max({0, pb - used})
  <1>1. /\ O \in Nat \ {0} /\ k \in Nat \ {0} /\ s \in Nat \ {0} /\ I \in Nat \ {0} /\ pb \in Nat /\ pe \in Nat
    BY DEF WellFormed
  <1>2. c = [remaining |-> rem, out |-> out, available |-> I + pb - used, last |-> rem = out,
             required |-> req, pad_begin |-> ahead, pad_end |-> IF rem = out THEN pe ELSE fe,
             in |-> Max({0, req - ahead - fe})]
    BY DEF TileContext
  <1>3. c.out > 0
    OBVIOUS
  <1> HIDE DEF c, O, k, s, I, pb, pe
  <1>4. d \in Nat \ {0}
    BY <1>1, SlicesSuffice
  <1> HIDE DEF d
  <1>5. rem \in 0..O /\ out \in 0..d /\ out <= rem
    <2>1. O \in Nat /\ i \in Nat \ {0}
      BY <1>1
    <2> QED BY <1>4, <2>1, Slices
  <1> HIDE DEF rem, out
  <1>6. out > 0
    BY <1>2, <1>3
  <1>7. out \in 1..rem /\ rem \in 1..O /\ O - rem \in Nat /\ out - 1 \in Nat
    BY <1>1, <1>5, <1>6
  <1>8. used \in Nat /\ (out - 1) * s \in Nat
    BY <1>1, <1>7
  <1>9. req = (out - 1) * s + k /\ req \in Nat
    <2>1. helper_input_dim(out, k, 0, s) =
             LET raw == (out - 1) * s - 0 + k IN IF raw <= 0 \/ out = 0 THEN 0 ELSE raw
      BY DEF helper_input_dim
    <2> DEFINE z == (out - 1) * s
    <2>2. z \in Nat
      BY <1>8
    <2> HIDE DEF z
    <2>3. z - 0 + k > 0 /\ z - 0 + k = z + k
      BY <1>1, <2>2
    <2> QED BY <1>1, <1>6, <2>1, <2>2, <2>3 DEF z
  <1> HIDE DEF used, req
  <1>10. more \in Int
    BY <1>1, <1>8, <1>9
  <1>11. fe = IF more <= 0 THEN 0 ELSE IF more <= pe THEN more ELSE pe
    <2> HIDE DEF more
    <2>1. Min({more, pe}) = IF more <= pe THEN more ELSE pe
      BY <1>1, <1>10, LargerSmaller
    <2> QED BY <1>10, <2>1
  <1>12. ahead = IF 0 >= pb - used THEN 0 ELSE pb - used
    BY <1>1, <1>8, LargerSmaller
  <1>13. fe \in Int /\ ahead \in Int
    BY <1>1, <1>8, <1>10, <1>11, <1>12
  <1> HIDE DEF fe, ahead
  <1>14. Max({0, req - ahead - fe}) = IF 0 >= req - ahead - fe THEN 0 ELSE req - ahead - fe
    BY <1>9, <1>13, LargerSmaller
  <1> DEFINE start == used - pb
             rest == req - ahead - fe
  <1>15. start \in Int /\ I + pb - used = I - start /\ more = start + req - I
    BY <1>1, <1>8, <1>9
  <1>16. /\ ahead = IF start >= 0 THEN 0 ELSE 0 - start
         /\ c.in = IF rest <= 0 THEN 0 ELSE rest
    BY <1>1, <1>2, <1>8, <1>9, <1>12, <1>13, <1>14
  <1>17. /\ c.remaining = rem /\ c.out = out /\ c.required = req /\ c.available = I + pb - used
         /\ c.last = (rem = out) /\ c.pad_begin = ahead /\ c.pad_end = IF rem = out THEN pe ELSE fe
    BY <1>2
  <1> HIDE DEF more, start, rest
  <1>18. /\ c.remaining = rem /\ c.out = out /\ c.remaining \in 1..O /\ c.out \in 1..c.remaining
         /\ c.required = (c.out - 1) * s + k /\ c.required \in Nat
    BY <1>7, <1>9, <1>17
  <1>19. /\ (O - c.remaining) * s - pb = start /\ start \in Int /\ c.available = I - start
         /\ c.last <=> c.remaining = c.out
    BY <1>15, <1>17 DEF start, used
  <1>20. start + c.required - I = more
    BY <1>15, <1>17
  <1>21. /\ c.pad_begin = IF start >= 0 THEN 0 ELSE 0 - start
         /\ c.pad_end = IF c.last THEN pe ELSE fe
         /\ c.required - c.pad_begin - fe = rest
    BY <1>16, <1>17 DEF rest
  <1>22. c.in = IF rest <= 0 THEN 0 ELSE rest
    BY <1>16
  <1> QED BY <1>11, <1>18, <1>19, <1>20, <1>21, <1>22 DEF c, O, k, s, I, pb, pe, d, rem, out

(* Tile i has the lines of the input from the first to the last that its   *)
(* outputs read, and for padding those that lie before and behind; the     *)
(* last tile keeps the padding of the end, whether it is read or not       *)
(* (SOH_overlapped_inputs, SOW_overlapped_inputs and SOH_HALO_inputs).     *)
TileHasItsLines(layer, axis, n, i) ==
    LET c     == TileContext(layer, axis, n)[i]
        from  == layer.out[axis.dim] - c.remaining
        lines == Hull(Reads(layer, axis, from, from + c.out))
        size_ == layer.in[axis.dim]
    IN  c.out > 0 =>
            /\ c.in = Cardinality(lines \cap (0..(size_ - 1)))
            /\ c.pad_begin = Cardinality({l \in lines : l < 0})
            /\ c.pad_end = IF c.last THEN layer.pad[axis.end] ELSE Cardinality({l \in lines : l > size_ - 1})

(* For every size of layer, kernel, stride and padding and any number of   *)
(* tiles, the inputs and paddings that the loops of SOH_overlapped_inputs, *)
(* SOW_overlapped_inputs and SOH_HALO_inputs compute one after the other   *)
(* are those of the outputs of the tile: none is missing, none is extra.   *)
THEOREM TilesHaveTheirLines ==
    ASSUME NEW layer, NEW axis, WellFormed(layer, axis), NEW n \in Nat \ {0}, NEW i \in 1..n
    PROVE  TileHasItsLines(layer, axis, n, i)
  <1> DEFINE c  == TileContext(layer, axis, n)[i]
             O  == layer.out[axis.dim]
             k  == layer.kernel[axis.dim]
             s  == layer.stride[axis.dim]
             I  == layer.in[axis.dim]
             pb == layer.pad[axis.begin]
             pe == layer.pad[axis.end]
             from  == O - c.remaining
             lines == Hull(Reads(layer, axis, from, from + c.out))
             a == from * s - pb
             b == (from + c.out - 1) * s - pb + k - 1
             need == a + c.required - I
             taken == IF need <= 0 THEN 0 ELSE IF need <= pe THEN need ELSE pe
             rest == c.required - c.pad_begin - taken
  <1> SUFFICES ASSUME c.out > 0
               PROVE  /\ c.in = Cardinality(lines \cap (0..(I - 1)))
                      /\ c.pad_begin = Cardinality({l \in lines : l < 0})
                      /\ c.pad_end = IF c.last THEN pe ELSE Cardinality({l \in lines : l > I - 1})
    BY DEF TileHasItsLines
  <1>1. /\ O \in Nat \ {0} /\ k \in Nat \ {0} /\ s \in Nat \ {0} /\ I \in Nat \ {0} /\ pb \in 0..(k - 1) /\ pe \in 0..(k - 1)
        /\ (O - 1) * s + k <= I + pb + pe
    BY DEF WellFormed
  <1>2. /\ c.remaining \in 1..O /\ c.out \in 1..c.remaining
        /\ c.required = (c.out - 1) * s + k /\ c.required \in Nat
        /\ a \in Int
        /\ c.pad_begin = IF a >= 0 THEN 0 ELSE 0 - a
        /\ c.pad_end = IF c.last THEN pe ELSE taken
        /\ c.in = IF rest <= 0 THEN 0 ELSE rest
    BY ContextOf
  <1> HIDE DEF c, O, k, s, I, pb, pe
  <1>3. from \in Nat /\ from + c.out \in Nat /\ from < from + c.out /\ from + c.out - 1 <= O - 1 /\ c.out - 1 \in Nat
    BY <1>1, <1>2
  <1>4. lines = a..b
    <2> DEFINE to == from + c.out
    <2>1. from \in Nat /\ to \in Nat /\ from < to /\ to = from + c.out
      BY <1>3
    <2> HIDE DEF from, to
    <2>2. Hull(Reads(layer, axis, from, to)) = (from * s - pb)..((to - 1) * s - pb + k - 1)
      BY <2>1, HullOfReads DEF s, k, pb
    <2>3. lines = Hull(Reads(layer, axis, from, to))
      BY DEF to
    <2>4. a = from * s - pb /\ b = (to - 1) * s - pb + k - 1
      <3>1. from + c.out - 1 = to - 1
        BY <1>2, <1>3, <2>1
      <3> QED BY <3>1, Zenon
    <2> HIDE DEF lines, a, b
    <2> QED BY <2>2, <2>3, <2>4
  <1> HIDE DEF lines
  <1>5. /\ (from + c.out - 1) * s = from * s + (c.out - 1) * s
        /\ from * s \in Nat /\ (c.out - 1) * s \in Nat
        /\ (from + c.out - 1) * s <= (O - 1) * s /\ (O - 1) * s \in Nat
    <2> DEFINE x == c.out - 1
    <2>1. x \in Nat /\ from + c.out - 1 = from + x /\ from + x \in Nat /\ O - 1 \in Nat /\ from + x <= O - 1
      BY <1>1, <1>2, <1>3
    <2> HIDE DEF x, from
    <2>2. (from + x) * s = from * s + x * s /\ from * s \in Nat /\ x * s \in Nat
      BY <1>1, <1>3, <2>1
    <2>3. (from + x) * s <= (O - 1) * s /\ (O - 1) * s \in Nat
      BY <1>1, <2>1, ProductGrows
    <2> QED BY <2>1, <2>2, <2>3 DEF x
  <1>6. b \in Int /\ b = a + c.required - 1 /\ a <= b /\ need = b + 1 - I
    BY <1>1, <1>2, <1>5
  <1>7. b + 1 - I <= pe
    BY <1>1, <1>5
  <1>8. c.required >= k /\ a >= 0 - pb
    BY <1>1, <1>2, <1>5
  <1> HIDE DEF a, b, from
  <1>9. /\ Cardinality(lines \cap (0..(I - 1))) =
              LET x == IF a >= 0 THEN a ELSE 0
                  y == IF b <= I - 1 THEN b ELSE I - 1
              IN  IF x > y THEN 0 ELSE y - x + 1
        /\ Cardinality({l \in lines : l < 0}) = IF a >= 0 THEN 0 ELSE IF b < 0 THEN b - a + 1 ELSE 0 - a
        /\ Cardinality({l \in lines : l > I - 1}) = IF b <= I - 1 THEN 0 ELSE IF a > I - 1 THEN b - a + 1 ELSE b - I + 1
    <2>1. a \in Int /\ b \in Int /\ a <= b /\ I \in Nat \ {0}
      BY <1>1, <1>2, <1>6
    <2>2. lines = a..b
      BY <1>4
    <2>3. /\ Cardinality((a..b) \cap (0..(I - 1))) =
                LET x == IF a >= 0 THEN a ELSE 0
                    y == IF b <= I - 1 THEN b ELSE I - 1
                IN  IF x > y THEN 0 ELSE y - x + 1
          /\ Cardinality({l \in a..b : l < 0}) = IF a >= 0 THEN 0 ELSE IF b < 0 THEN b - a + 1 ELSE 0 - a
          /\ Cardinality({l \in a..b : l > I - 1}) = IF b <= I - 1 THEN 0 ELSE IF a > I - 1 THEN b - a + 1 ELSE b - I + 1
      BY <2>1, LinesCounted, ZenonT(60)
    <2> QED BY <2>2, <2>3, ZenonT(60)
  <1>10. taken = IF b + 1 - I <= 0 THEN 0 ELSE b + 1 - I
    BY <1>1, <1>6, <1>7
  <1> HIDE DEF need, taken
  <1>11. a <= I
    BY <1>1, <1>2, <1>6, <1>7, <1>8
  <1>12. c.pad_begin = Cardinality({l \in lines : l < 0})
    BY <1>1, <1>2, <1>6, <1>8, <1>9
  <1>13. taken = Cardinality({l \in lines : l > I - 1})
    BY <1>1, <1>2, <1>6, <1>7, <1>8, <1>9, <1>10
  <1>14. c.in = Cardinality(lines \cap (0..(I - 1)))
    <2>a. /\ c.required = b + 1 - a /\ a \in Int /\ b \in Int /\ c.required \in Int
          /\ c.pad_begin \in Int /\ taken \in Int
      BY <1>1, <1>2, <1>6, <1>10
    <2>b. c.in = IF rest <= 0 THEN 0 ELSE rest
      BY <1>2
    <2>c. rest = b + 1 - a - c.pad_begin - taken /\ rest \in Int
      BY <2>a
    <2> HIDE DEF rest
    <2>1. c.in = (IF rest <= 0 THEN 0 ELSE rest) /\ rest = b + 1 - a - c.pad_begin - taken
      BY <2>b, <2>c
    <2> DEFINE count == Cardinality(lines \cap (0..(I - 1)))
    <2>2. CASE a >= 0 /\ b <= I - 1
      <3>1. rest = b + 1 - a /\ count = b - a + 1
        BY <1>1, <1>2, <1>6, <1>9, <1>10, <2>1, <2>2
      <3> QED BY <1>2, <1>6, <2>1, <3>1
    <2>3. CASE a >= 0 /\ b > I - 1
      <3>1. rest = I - a /\ count = IF a > I - 1 THEN 0 ELSE I - a
        BY <1>1, <1>2, <1>6, <1>9, <1>10, <2>1, <2>3
      <3>2. I - a \in Nat
        BY <1>1, <1>2, <1>11
      <3>3. rest \in Int /\ count = rest
        BY <1>1, <1>2, <2>3, <3>1, <3>2
      <3> HIDE DEF count
      <3>4. c.in = rest
        BY <2>1, <3>1, <3>2, <3>3
      <3> QED BY <3>3, <3>4 DEF count
    <2>4. CASE a < 0 /\ b <= I - 1
      <3>1. rest = b + 1 /\ count = IF 0 > b THEN 0 ELSE b + 1
        BY <1>1, <1>2, <1>6, <1>9, <1>10, <2>1, <2>4
      <3> QED BY <1>2, <1>6, <2>1, <3>1
    <2>5. CASE a < 0 /\ b > I - 1
      <3>1. rest = I /\ count = I
        BY <1>1, <1>2, <1>6, <1>9, <1>10, <2>1, <2>5
      <3> QED BY <1>1, <2>1, <3>1
    <2> QED BY <1>1, <1>2, <1>6, <2>2, <2>3, <2>4, <2>5
  <1> QED BY <1>2, <1>12, <1>13, <1>14

(* The outputs of tile i, counted from the first of the layer. *)
OutputsOf(layer, axis, n, i) ==
    LET c    == TileContext(layer, axis, n)[i]
        from == layer.out[axis.dim] - c.remaining
    IN  from..(from + c.out - 1)

(* Which they are: the i-th part of the full size, cut at the end. *)
LEMMA OutputsAre ==
    ASSUME NEW layer, NEW axis, WellFormed(layer, axis), NEW n \in Nat \ {0}, NEW i \in 1..n, NEW o \in Nat
    PROVE  LET O == layer.out[axis.dim]
               d == ceil_division(O, n)
           IN  o \in OutputsOf(layer, axis, n, i) <=> o < O /\ (i - 1) * d <= o /\ o < (i - 1) * d + d
  <1> DEFINE O   == layer.out[axis.dim]
             d   == ceil_division(O, n)
             c   == TileContext(layer, axis, n)[i]
             rem == Remaining(O, d, i)
             out == Slice(O, d, i)
             x   == (i - 1) * d
  <1>1. O \in Nat \ {0} /\ i \in Nat \ {0}
    BY DEF WellFormed
  <1>2. c.remaining = rem /\ c.out = out
    BY DEF TileContext
  <1>3. OutputsOf(layer, axis, n, i) = (O - rem)..(O - rem + out - 1)
    BY <1>2 DEF OutputsOf
  <1> HIDE DEF O, c
  <1>4. d \in Nat \ {0}
    BY <1>1, SlicesSuffice
  <1> HIDE DEF d
  <1>5. x \in Nat
    BY <1>1, <1>4
  <1>6. /\ rem \in 0..O /\ out \in 0..d /\ out <= rem /\ (out > 0 <=> rem > 0)
        /\ rem > 0 => O - rem = x
    BY <1>1, <1>4, Slices
  <1>7. rem = IF 0 >= O - x THEN 0 ELSE O - x
    <2> HIDE DEF x
    <2>1. O - x \in Int /\ 0 \in Int
      BY <1>1, <1>5
    <2>2. Max({0, O - x}) = IF 0 >= O - x THEN 0 ELSE O - x
      BY <2>1, LargerSmaller
    <2> QED BY <2>2 DEF Remaining, x
  <1>8. out = IF d <= rem THEN d ELSE rem
    <2>1. rem \in Int /\ d \in Int
      BY <1>1, <1>4, <1>6
    <2> HIDE DEF rem
    <2>2. Min({d, rem}) = IF d <= rem THEN d ELSE rem
      BY <2>1, LargerSmaller
    <2> QED BY <2>2 DEF Slice, rem
  <1> HIDE DEF rem, out, x
  <1>9. o \in (O - rem)..(O - rem + out - 1) <=> o < O /\ x <= o /\ o < x + d
    BY <1>1, <1>4, <1>5, <1>6, <1>7, <1>8
  <1> QED BY <1>3, <1>9 DEF O, d, x

(* For every size of layer and any number of tiles each output of the      *)
(* layer is computed by exactly one tile: the slices that the loops of     *)
(* SOH_overlapped_inputs, SOW_overlapped_inputs and SOH_HALO_inputs take   *)
(* one after the other leave nothing out and do not meet, although the     *)
(* last of them may be shorter or empty.                                   *)
THEOREM TilesCutTheOutput ==
    ASSUME NEW layer, NEW axis, WellFormed(layer, axis), NEW n \in Nat \ {0},
           NEW o \in 0..(layer.out[axis.dim] - 1)
    PROVE  \E i \in 1..n : /\ o \in OutputsOf(layer, axis, n, i)
                           /\ \A j \in 1..n : o \in OutputsOf(layer, axis, n, j) => j = i
  <1> DEFINE O == layer.out[axis.dim]
             d == ceil_division(O, n)
             q == o \div d
             r == o % d
  <1>1. O \in Nat \ {0}
    BY DEF WellFormed
  <1>2. o \in Nat /\ o < O
    BY <1>1
  <1> HIDE DEF O
  <1>3. d \in Nat \ {0} /\ d * n >= O
    <2>1. O \in Nat /\ n \in Nat \ {0} /\ O > 0
      BY <1>1
    <2>2. d \in Nat /\ d * n >= O /\ (O > 0 => d > 0)
      BY <2>1, CeilDivision
    <2> HIDE DEF d
    <2> QED BY <2>1, <2>2
  <1> HIDE DEF d
  <1>4. q \in Nat /\ r \in 0..(d - 1) /\ o = d * q + r
    BY <1>2, <1>3
  <1> HIDE DEF q, r
  <1>5. d * q = q * d /\ q * d \in Nat /\ d * n = n * d /\ n * d \in Nat
    BY <1>3, <1>4
  <1>6. q * d <= o /\ o < q * d + d
    BY <1>2, <1>3, <1>4, <1>5
  <1>7. \A p \in Nat : p * d <= o /\ o < p * d + d => p = q
    <2> SUFFICES ASSUME NEW p \in Nat, p * d <= o, o < p * d + d
                 PROVE  p = q
      OBVIOUS
    <2>1. p * d \in Nat /\ (p + 1) * d = p * d + d /\ (q + 1) * d = q * d + d
      BY <1>3, <1>4
    <2>2. ~ (p + 1 <= q)
      <3>1. p + 1 <= q => (p + 1) * d <= q * d
        BY <1>3, <1>4, ProductGrows
      <3> QED BY <1>2, <1>3, <1>5, <1>6, <2>1, <3>1
    <2>3. ~ (q + 1 <= p)
      <3>1. q + 1 <= p => (q + 1) * d <= p * d
        BY <1>3, <1>4, ProductGrows
      <3> QED BY <1>2, <1>3, <1>5, <1>6, <2>1, <3>1
    <2> QED BY <1>4, <2>2, <2>3
  <1>8. q + 1 \in 1..n
    <2>1. n <= q => n * d <= q * d
      BY <1>3, <1>4, ProductGrows
    <2> QED BY <1>1, <1>2, <1>3, <1>4, <1>5, <1>6, <2>1
  <1>9. \A i \in 1..n : o \in OutputsOf(layer, axis, n, i) <=> (i - 1) * d <= o /\ o < (i - 1) * d + d
    BY <1>2, OutputsAre DEF O, d
  <1>10. o \in OutputsOf(layer, axis, n, q + 1)
    <2> DEFINE i == q + 1
    <2>1. i \in 1..n /\ i - 1 = q
      BY <1>4, <1>8
    <2> HIDE DEF i
    <2>2. o \in OutputsOf(layer, axis, n, i) <=> (i - 1) * d <= o /\ o < (i - 1) * d + d
      BY <1>9, <2>1
    <2>3. o \in OutputsOf(layer, axis, n, i)
      BY <1>6, <2>1, <2>2
    <2> QED BY <2>3 DEF i
  <1>11. ASSUME NEW j \in 1..n, o \in OutputsOf(layer, axis, n, j)
         PROVE  j = q + 1
    <2> DEFINE p == j - 1
    <2>1. p \in Nat /\ j = p + 1
      OBVIOUS
    <2>2. p * d <= o /\ o < p * d + d
      BY <1>9, <1>11
    <2> HIDE DEF p
    <2> QED BY <1>7, <2>1, <2>2
  <1> QED BY <1>8, <1>10, <1>11
=============================================================================
