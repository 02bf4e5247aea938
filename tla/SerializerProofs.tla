-------------------------- MODULE SerializerProofs --------------------------
(***************************************************************************)
(* Proofs about the query log of Serializer, for any number of threads,    *)
(* queries, nested queries, batch and split rows, and whatever fails.      *)
(***************************************************************************)
EXTENDS Serializer, FiniteSetTheorems, FunctionTheorems, SequenceTheorems, TLAPS

AllKinds == Kinds \cup {"dpu", "miss"}

(* The tokens of row r with the given columns filled in. *)
Filled(r, cols) == [c \in Columns |-> IF c \in cols THEN r ELSE Blank]

(* The columns of a complete row. *)
FullFields(kind, row) ==
    IF kind = "batch" \/ row > 0 THEN RowFields(kind)
    ELSE IF kind \in {"miss", "shave"} THEN OpenFields(kind)
    ELSE IF kind = "presplit" THEN CloseFields(kind)
    ELSE OpenFields(kind) \cup CloseFields(kind)

RowOf(t, w) == <<t, w.id, w.row>>

(* Wrapper w of thread t and the tokens T that its thread has in its file, *)
(* which was initialized if here.                                          *)
WrapOK(t, w, T, here) ==
    /\ w.phase \in {"open", "rows"} => T \in {NoTokens, BlankTokens}
    /\ w.phase = "open" => /\ w.kind \in {"dpu", "layer", "dma", "miss", "shave"}
                           /\ w.row = 0 /\ w.next = "done" /\ ~w.error /\ ~w.opened
    /\ w.phase = "work" =>
          /\ w.kind \in {"dpu", "layer", "dma", "presplit"} /\ w.row = 0
          /\ \/ /\ w.opened /\ ~w.error
                /\ w.kind = "presplit" => T \in {NoTokens, BlankTokens}
                /\ w.kind # "presplit" /\ here => T = Filled(RowOf(t, w), OpenFields(w.kind))
             \/ /\ ~w.opened /\ T \in {NoTokens, BlankTokens}
                /\ w.kind # "presplit" /\ (w.error \/ w.kind = "dma")
    /\ w.phase = "rows" => w.kind \in {"batch", "layer", "presplit"}
    /\ w.phase \in {"flush", "newline"} =>
          /\ here => T = Filled(RowOf(t, w), FullFields(w.kind, w.row))
          /\ w.next \in {"rows", "done"}
          /\ w.next = "rows" => w.kind \in {"batch", "layer", "presplit"}
          /\ w.next = "rows" /\ w.kind = "batch" => w.row < ExtraRows
          /\ w.row > 0 => w.kind \in {"batch", "layer", "presplit"}
    /\ w.phase = "newline" => here

(* Which wrappers of a thread may be alive together, outermost first. *)
Inside(outer, inner) ==
    \/ outer \in {"layer", "presplit"} /\ inner \in {"dpu", "miss"}
    \/ outer = "dpu" /\ inner = "miss"

StackOK(s) ==
    \A i, j \in 1..Len(s) : i < j => s[i].phase = "work" /\ Inside(s[i].kind, s[j].kind)

(* The lines s have row r. *)
Has(s, r) == \E i \in 1..Len(s) : r \in Values(s[i][1])

(* Row r of its thread was written before what wrapper w has to write. *)
Before(r, w) ==
    \/ r[2] < w.id
    \/ /\ r[2] = w.id
       /\ \/ w.phase = "done"
          \/ r[3] < IF w.phase = "rows" /\ w.kind # "batch" THEN w.row + 1 ELSE w.row

(* Thread t is about to write row r to file f. *)
Pending(t, f, r) ==
    Alive(t) /\ Top(t).phase \in {"flush", "newline"} /\ TopFile(t) = f /\ RowId(t) = r

(* A file without initialize() has no tokens and owes no rows. *)
NoFileNoTokens ==
    /\ \A f \in Files \ initialized : \A t \in Threads : tokens[f][t] = NoTokens
    /\ \A f \in Files, r \in RowIds : <<f, r>> \in due => f \in initialized

WrapsOK ==
    \A t \in Threads :
        /\ StackOK(wraps[t])
        /\ \A i \in 1..Len(wraps[t]) :
              LET w == wraps[t][i]
                  f == FileOf(w.kind)
              IN  /\ WrapOK(t, w, tokens[f][t], f \in initialized)
                  /\ w.id <= asked[t]
                  /\ \A r \in RowIds : Has(rows[f], r) /\ r[1] = t => Before(r, w)

(* What is between two newlines of a file is the row of the lock's holder. *)
LinesOK ==
    /\ \A f \in Files : mutex[f] = NoThread => line[f] = <<>>
    /\ \A t \in Threads : Alive(t) /\ Top(t).phase = "newline" =>
          mutex[TopFile(t)] = t /\ line[TopFile(t)] = <<tokens[TopFile(t)][t]>>

(* Every line is one complete row that is due, of a query that was asked. *)
RowsOK ==
    \A f \in Files : \A i \in 1..Len(rows[f]) :
        \E r \in RowIds, kind \in AllKinds :
            /\ FileOf(kind) = f /\ <<f, r>> \in due /\ r[2] <= asked[r[1]]
            /\ (r[3] > 0 => kind \in {"batch", "layer", "presplit"})
            /\ rows[f][i] = <<Filled(r, FullFields(kind, r[3]))>>

(* Due is what was written or is about to be. *)
DueOK ==
    /\ \A f \in Files, r \in RowIds :
          <<f, r>> \in due => Has(rows[f], r) \/ \E t \in Threads : Pending(t, f, r)
    /\ \A t \in Threads, f \in Files, r \in RowIds :
          Pending(t, f, r) /\ f \in initialized => <<f, r>> \in due

IInv == /\ TypeOK /\ NoFileNoTokens /\ WrapsOK /\ BuffersLeftClean
        /\ LinesOK /\ RowsOK /\ DueOK /\ RowsInOrder

-----------------------------------------------------------------------------
(* The kinds of queries, and the files that they use. *)
LEMMA KindFacts ==
    /\ AllKinds \subseteq {"dpu", "batch", "layer", "presplit", "dma", "shave", "miss"}
    /\ \A kind \in AllKinds : FileOf(kind) \in Files
BY SerializerAssumption, FilesAssumption DEF AllKinds

(* Two wrappers that may be alive together use two files. *)
LEMMA InsideFiles ==
    ASSUME NEW k, NEW l, Inside(k, l)
    PROVE  FileOf(k) # FileOf(l)
BY DEF Inside, FileOf

(* A complete row has at least one column, and a row that is not blank. *)
LEMMA FieldFacts ==
    ASSUME NEW kind \in AllKinds, NEW row \in Nat,
           row > 0 => kind \in {"batch", "layer", "presplit"}
    PROVE  \E c \in Columns : c \in FullFields(kind, row)
<1>1. kind \in {"dpu", "batch", "layer", "presplit", "dma", "shave", "miss"}
  BY KindFacts
<1>2. CASE kind = "batch" \/ row > 0
  BY <1>2 DEF FullFields, RowFields, Columns
<1>3. CASE kind # "batch" /\ ~(row > 0)
  BY <1>1, <1>3 DEF FullFields, OpenFields, CloseFields, Columns
<1> QED BY <1>2, <1>3

(* The tokens of a row are tokens. *)
LEMMA FilledTyped ==
    ASSUME NEW r \in RowIds, NEW cols
    PROVE  Filled(r, cols) \in Tokens
BY DEF Filled, Tokens, Blank

(* A row identifier is no blank. *)
LEMMA RowNotBlank ==
    ASSUME NEW r \in RowIds
    PROVE  /\ r # Blank /\ r = <<r[1], r[2], r[3]>>
           /\ r[1] \in Threads /\ r[2] \in 1..MaxQueries /\ r[3] \in 0..ExtraRows
BY SerializerAssumption DEF RowIds, Blank

(* A row with a column holds the values of that row only. *)
LEMMA FilledValues ==
    ASSUME NEW r \in RowIds, NEW cols, \E c \in Columns : c \in cols
    PROVE  /\ Values(Filled(r, cols)) = {r}
           /\ Filled(r, cols) # BlankTokens /\ Filled(r, cols) # NoTokens
<1>1. PICK c \in Columns : c \in cols
  OBVIOUS
<1>2. Filled(r, cols)[c] = r /\ r # Blank
  BY <1>1, RowNotBlank DEF Filled
<1>3. \A d \in Columns : Filled(r, cols)[d] \in {r, Blank}
  BY DEF Filled
<1>4. Values(Filled(r, cols)) = {r}
  BY <1>1, <1>2, <1>3 DEF Values
<1>5. Filled(r, cols) # BlankTokens
  BY <1>1, <1>2 DEF BlankTokens
<1>6. DOMAIN Filled(r, cols) = Columns /\ DOMAIN NoTokens = {}
  BY DEF Filled, NoTokens
<1> QED BY <1>1, <1>4, <1>5, <1>6

(* Blank tokens are tokens, and no tokens are not. *)
LEMMA BlankTyped == BlankTokens \in Tokens /\ NoTokens \notin Tokens
<1>1. "wl" \in Columns
  BY DEF Columns
<1> QED BY <1>1 DEF BlankTokens, NoTokens, Tokens

(* The tokens change at most for one file and one thread. *)
TokensAt(f, t, T) ==
    /\ tokens' \in [Files -> [Threads -> Tokens \cup {NoTokens}]]
    /\ \A g \in Files, u \in Threads : tokens'[g][u] = IF g = f /\ u = t THEN T ELSE tokens[g][u]

(* serialize() fills clean tokens, or completes the row that is there. *)
LEMMA Serialized ==
    ASSUME TypeOK, NEW f \in Files, NEW t \in Threads, NEW fields, NEW r \in RowIds, NEW cols,
           \/ tokens[f][t] \in {NoTokens, BlankTokens} /\ cols = {}
           \/ tokens[f][t] = Filled(r, cols),
           f \in initialized, tokens' = serialized(f, t, fields, r)
    PROVE  TokensAt(f, t, Filled(r, cols \cup fields))
<1> DEFINE T == tokens[f][t]
           T2 == [c \in Columns |-> IF c \in fields THEN r ELSE IF T = NoTokens THEN Blank ELSE T[c]]
<1>1. tokens' = [tokens EXCEPT ![f] = [@ EXCEPT ![t] = T2]]
  BY DEF serialized
<1>2. T2 = Filled(r, cols \cup fields)
  <2>1. CASE T \in {NoTokens, BlankTokens} /\ cols = {}
    BY <2>1 DEF Filled, BlankTokens
  <2>2. CASE T = Filled(r, cols)
    <3>1. T # NoTokens
      <4>1. DOMAIN Filled(r, cols) = Columns /\ DOMAIN NoTokens = {} /\ "wl" \in Columns
        BY DEF Filled, NoTokens, Columns
      <4> QED BY <2>2, <4>1
    <3>2. \A c \in Columns : T[c] = IF c \in cols THEN r ELSE Blank
      BY <2>2 DEF Filled
    <3> QED BY <3>1, <3>2 DEF Filled
  <2> QED BY <2>1, <2>2
<1>3. T2 \in Tokens \cup {NoTokens}
  BY <1>2, FilledTyped
<1> HIDE DEF T2
<1>4. tokens \in [Files -> [Threads -> Tokens \cup {NoTokens}]]
  BY DEF TypeOK
<1>5. tokens' \in [Files -> [Threads -> Tokens \cup {NoTokens}]]
  BY <1>1, <1>3, <1>4
<1>6. \A g \in Files, u \in Threads : tokens'[g][u] = IF g = f /\ u = t THEN T2 ELSE tokens[g][u]
  BY <1>1, <1>4
<1> QED BY <1>2, <1>5, <1>6 DEF TokensAt

(* Without a file, serialize() leaves the tokens alone. *)
LEMMA NotSerialized ==
    ASSUME TypeOK, NEW f, NEW t, NEW fields, NEW r,
           f \notin initialized, tokens' = serialized(f, t, fields, r)
    PROVE  tokens' = tokens
BY DEF serialized

(* clean_buffers() leaves clean tokens. *)
LEMMA Cleaned ==
    ASSUME TypeOK, NEW f \in Files, NEW t \in Threads, tokens' = cleaned(f, t)
    PROVE  TokensAt(f, t, IF tokens[f][t] = NoTokens THEN NoTokens ELSE BlankTokens)
<1> DEFINE T2 == IF tokens[f][t] = NoTokens THEN NoTokens ELSE BlankTokens
<1>1. tokens' = [tokens EXCEPT ![f] = [@ EXCEPT ![t] = T2]]
  BY DEF cleaned
<1>2. T2 \in Tokens \cup {NoTokens}
  BY BlankTyped
<1> HIDE DEF T2
<1>3. tokens \in [Files -> [Threads -> Tokens \cup {NoTokens}]]
  BY DEF TypeOK
<1>4. tokens' \in [Files -> [Threads -> Tokens \cup {NoTokens}]]
  BY <1>1, <1>2, <1>3
<1>5. \A g \in Files, u \in Threads : tokens'[g][u] = IF g = f /\ u = t THEN T2 ELSE tokens[g][u]
  BY <1>1, <1>3
<1> QED BY <1>4, <1>5 DEF TokensAt, T2

(* Tokens that do not change. *)
LEMMA SameTokens ==
    ASSUME TypeOK, tokens' = tokens, NEW f \in Files, NEW t \in Threads
    PROVE  TokensAt(f, t, tokens[f][t])
BY DEF TokensAt, TypeOK

-----------------------------------------------------------------------------
(* The top wrapper of a thread. *)
LEMMA TopFacts ==
    ASSUME TypeOK, NEW t \in Threads, Alive(t)
    PROVE  /\ wraps[t] \in Seq(Wrappers) /\ Len(wraps[t]) \in Nat /\ Len(wraps[t]) > 0
           /\ Len(wraps[t]) \in 1..Len(wraps[t])
           /\ Top(t) = wraps[t][Len(wraps[t])] /\ Top(t) \in Wrappers
           /\ Top(t).kind \in AllKinds /\ TopFile(t) \in Files
           /\ RowId(t) = RowOf(t, Top(t)) /\ RowId(t) \in RowIds
<1>1. wraps[t] \in Seq(Wrappers) /\ wraps[t] # <<>>
  BY DEF TypeOK, Alive
<1>2. Len(wraps[t]) \in Nat /\ Len(wraps[t]) > 0 /\ Len(wraps[t]) \in 1..Len(wraps[t])
  BY <1>1
<1>3. Top(t) = wraps[t][Len(wraps[t])]
  BY DEF Top, Last
<1>4. Top(t) \in Wrappers
  BY <1>1, <1>2, <1>3
<1>5. Top(t).kind \in AllKinds /\ Top(t).id \in 1..MaxQueries /\ Top(t).row \in 0..ExtraRows
  BY <1>4 DEF Wrappers, AllKinds
<1>6. TopFile(t) \in Files
  BY <1>5, KindFacts DEF TopFile
<1> QED BY <1>1, <1>2, <1>3, <1>4, <1>5, <1>6 DEF RowId, RowOf, RowIds

(* Every live wrapper has a file. *)
LEMMA WrapperFile ==
    ASSUME TypeOK, NEW t \in Threads, NEW i \in 1..Len(wraps[t])
    PROVE  wraps[t][i] \in Wrappers /\ wraps[t][i].kind \in AllKinds
           /\ FileOf(wraps[t][i].kind) \in Files
<1>1. wraps[t] \in Seq(Wrappers)
  BY DEF TypeOK
<1>2. wraps[t][i] \in Wrappers
  BY <1>1
<1>3. wraps[t][i].kind \in AllKinds
  BY <1>2 DEF Wrappers, AllKinds
<1> QED BY <1>2, <1>3, KindFacts

(* A sequence without its last element. *)
LEMMA FrontFacts ==
    ASSUME NEW S, NEW s \in Seq(S), Len(s) > 0
    PROVE  /\ Front(s) \in Seq(S) /\ Len(Front(s)) = Len(s) - 1
           /\ \A i \in 1..(Len(s) - 1) : Front(s)[i] = s[i]
<1>1. Front(s) = SubSeq(s, 1, Len(s) - 1) /\ Len(s) \in Nat
  BY DEF Front
<1>2. \A i \in 1..(Len(s) - 1) : s[i] \in S
  BY <1>1
<1>3. SubSeq(s, 1, Len(s) - 1) = [i \in 1..(Len(s) - 1) |-> s[i]]
  BY <1>1, <1>2, SubSeqRestrict
<1>4. SubSeq(s, 1, Len(s) - 1) \in Seq(S) /\ Len(SubSeq(s, 1, Len(s) - 1)) = Len(s) - 1
  <2>1. PICK m \in Nat : m = Len(s) - 1
    BY <1>1
  <2>2. \A i \in 1..m : s[i] \in S
    BY <1>2, <2>1
  <2>3. SubSeq(s, 1, m) \in Seq(S) /\ Len(SubSeq(s, 1, m)) = IF 1 <= m THEN m - 1 + 1 ELSE 0
    BY <2>2, SubSeqProperties
  <2> QED BY <2>1, <2>3
<1> QED BY <1>1, <1>3, <1>4

(* SetTop replaces the top wrapper of one thread. *)
LEMMA SetTopFacts ==
    ASSUME TypeOK, NEW t \in Threads, Alive(t), NEW w \in Wrappers, SetTop(t, w)
    PROVE  /\ wraps' \in [Threads -> Seq(Wrappers)]
           /\ \A u \in Threads \ {t} : wraps'[u] = wraps[u]
           /\ Len(wraps'[t]) = Len(wraps[t])
           /\ \A i \in 1..Len(wraps[t]) :
                 wraps'[t][i] = IF i = Len(wraps[t]) THEN w ELSE wraps[t][i]
           /\ Alive(t)' /\ Top(t)' = w
<1> DEFINE s == wraps[t]
           s2 == Append(Front(s), w)
<1>0. wraps \in [Threads -> Seq(Wrappers)]
  BY DEF TypeOK
<1>1. s \in Seq(Wrappers) /\ Len(s) \in Nat /\ Len(s) > 0
  BY TopFacts
<1>2. wraps' = [wraps EXCEPT ![t] = s2]
  BY DEF SetTop
<1> HIDE DEF s
<1>3. Front(s) = SubSeq(s, 1, Len(s) - 1)
  BY DEF Front
<1>4. /\ Front(s) \in Seq(Wrappers) /\ Len(Front(s)) = Len(s) - 1
      /\ \A i \in 1..(Len(s) - 1) : Front(s)[i] = s[i]
  BY <1>1, <1>3, FrontFacts
<1>5. /\ s2 \in Seq(Wrappers) /\ Len(s2) = Len(s)
      /\ \A i \in 1..Len(s) : s2[i] = IF i = Len(s) THEN w ELSE s[i]
  BY <1>1, <1>4
<1> HIDE DEF s2
<1>6. /\ wraps' \in [Threads -> Seq(Wrappers)] /\ wraps'[t] = s2
      /\ \A u \in Threads \ {t} : wraps'[u] = wraps[u]
  BY <1>0, <1>2, <1>5
<1>7. wraps'[t] # <<>> /\ s2[Len(s2)] = w
  BY <1>1, <1>5, <1>6
<1>8. Alive(t)' /\ Top(t)' = w
  BY <1>6, <1>7 DEF Alive, Top, Last
<1> QED BY <1>5, <1>6, <1>8 DEF s

(* What the invariant says of the top wrapper of a thread. *)
LEMMA TopOK ==
    ASSUME IInv, NEW t \in Threads, Alive(t)
    PROVE  /\ WrapOK(t, Top(t), tokens[TopFile(t)][t], TopFile(t) \in initialized)
           /\ Top(t).id <= asked[t]
           /\ \A r \in RowIds : Has(rows[TopFile(t)], r) /\ r[1] = t => Before(r, Top(t))
           /\ TopFile(t) \notin initialized => tokens[TopFile(t)][t] = NoTokens
BY TopFacts DEF IInv, WrapsOK, NoFileNoTokens, TopFile

(* The wrappers below the top one use other files. *)
LEMMA LowerFiles ==
    ASSUME IInv, NEW t \in Threads, Alive(t), NEW i \in 1..Len(wraps[t]), i # Len(wraps[t])
    PROVE  /\ FileOf(wraps[t][i].kind) # TopFile(t) /\ wraps[t][i].phase = "work"
           /\ Inside(wraps[t][i].kind, Top(t).kind)
<1>1. TypeOK /\ StackOK(wraps[t])
  BY DEF IInv, WrapsOK
<1>2. i < Len(wraps[t]) /\ Len(wraps[t]) \in 1..Len(wraps[t]) /\ Top(t) = wraps[t][Len(wraps[t])]
  BY <1>1, TopFacts
<1>3. wraps[t][i].phase = "work" /\ Inside(wraps[t][i].kind, Top(t).kind)
  BY <1>1, <1>2 DEF StackOK
<1> QED BY <1>3, InsideFiles DEF TopFile

(* A step that moves the top wrapper of a thread and changes at most the   *)
(* tokens of its file, and writes at most rows of its own, keeps all       *)
(* wrappers and tokens in order.                                           *)
LEMMA TopWraps ==
    ASSUME IInv, NEW t \in Threads, Alive(t), NEW w \in Wrappers, NEW T,
           SetTop(t, w), TokensAt(TopFile(t), t, T),
           w.kind = Top(t).kind, w.id = Top(t).id,
           WrapOK(t, w, T, TopFile(t) \in initialized),
           \A g \in Files, r \in RowIds : Has(rows'[g], r) => Has(rows[g], r) \/ (g = TopFile(t) /\ r[1] = t),
           \A r \in RowIds : Has(rows'[TopFile(t)], r) /\ r[1] = t => Before(r, w),
           UNCHANGED <<initialized, asked>>
    PROVE  WrapsOK' /\ BuffersLeftClean'
<1> DEFINE f == TopFile(t)
           n == Len(wraps[t])
<1>0. TypeOK
  BY DEF IInv
<1>1. /\ f \in Files /\ n \in 1..n /\ n \in Nat /\ Top(t) = wraps[t][n] /\ FileOf(w.kind) = f
  BY <1>0, TopFacts DEF TopFile
<1>2. /\ \A u \in Threads \ {t} : wraps'[u] = wraps[u]
      /\ Len(wraps'[t]) = n
      /\ \A i \in 1..n : wraps'[t][i] = IF i = n THEN w ELSE wraps[t][i]
  BY <1>0, SetTopFacts
<1>3. \A g \in Files, u \in Threads : tokens'[g][u] = IF g = f /\ u = t THEN T ELSE tokens[g][u]
  BY DEF TokensAt
<1>4. WrapsOK'
  <2> SUFFICES ASSUME NEW u \in Threads
               PROVE  /\ StackOK(wraps'[u])
                      /\ \A i \in 1..Len(wraps'[u]) :
                            LET v == wraps'[u][i]
                                g == FileOf(v.kind)
                            IN  /\ WrapOK(u, v, tokens'[g][u], g \in initialized)
                                /\ v.id <= asked[u]
                                /\ \A r \in RowIds : Has(rows'[g], r) /\ r[1] = u => Before(r, v)
    BY <1>0 DEF WrapsOK
  <2>1. CASE u # t
    <3>1. wraps'[u] = wraps[u]
      BY <1>2, <2>1
    <3>2. \A i \in 1..Len(wraps[u]) : FileOf(wraps[u][i].kind) \in Files
      BY <1>0, WrapperFile
    <3>3. \A g \in Files : tokens'[g][u] = tokens[g][u]
      BY <1>3, <2>1
    <3>4. \A g \in Files, r \in RowIds : Has(rows'[g], r) /\ r[1] = u => Has(rows[g], r)
      BY <2>1
    <3>5. StackOK(wraps'[u])
      BY <3>1 DEF IInv, WrapsOK
    <3>6. ASSUME NEW i \in 1..Len(wraps[u])
          PROVE  LET v == wraps[u][i]
                     g == FileOf(v.kind)
                 IN  /\ WrapOK(u, v, tokens'[g][u], g \in initialized)
                     /\ v.id <= asked[u]
                     /\ \A r \in RowIds : Has(rows'[g], r) /\ r[1] = u => Before(r, v)
      BY <3>2, <3>3, <3>4 DEF IInv, WrapsOK
    <3> QED BY <3>1, <3>5, <3>6
  <2>2. CASE u = t
    <3>1. StackOK(wraps[t])
      BY DEF IInv, WrapsOK
    <3>2. StackOK(wraps'[t])
      BY <1>1, <1>2, <3>1 DEF StackOK
    <3>3. ASSUME NEW i \in 1..n, i # n
          PROVE  LET v == wraps'[t][i]
                     g == FileOf(v.kind)
                 IN  /\ WrapOK(t, v, tokens'[g][t], g \in initialized)
                     /\ v.id <= asked[t]
                     /\ \A r \in RowIds : Has(rows'[g], r) /\ r[1] = t => Before(r, v)
      <4>1. wraps'[t][i] = wraps[t][i] /\ FileOf(wraps[t][i].kind) # f
        BY <1>2, <3>3, LowerFiles
      <4>2. FileOf(wraps[t][i].kind) \in Files
        BY <1>0, WrapperFile
      <4>3. tokens'[FileOf(wraps[t][i].kind)][t] = tokens[FileOf(wraps[t][i].kind)][t]
        BY <1>3, <4>1, <4>2
      <4>4. \A r \in RowIds : Has(rows'[FileOf(wraps[t][i].kind)], r) => Has(rows[FileOf(wraps[t][i].kind)], r)
        BY <4>1, <4>2
      <4> QED BY <4>1, <4>3, <4>4 DEF IInv, WrapsOK
    <3>4. /\ WrapOK(t, w, tokens'[f][t], f \in initialized) /\ w.id <= asked[t]
          /\ \A r \in RowIds : Has(rows'[f], r) /\ r[1] = t => Before(r, w)
      BY <1>1, <1>3, TopOK
    <3>5. wraps'[t][n] = w
      BY <1>1, <1>2
    <3> HIDE DEF f, n
    <3> QED BY <1>1, <1>2, <2>2, <3>2, <3>3, <3>4, <3>5
  <2> QED BY <2>1, <2>2
<1>5. BuffersLeftClean'
  <2> SUFFICES ASSUME NEW u \in Threads, NEW g \in Files,
                      \A i \in 1..Len(wraps'[u]) : FileOf(wraps'[u][i].kind) # g
               PROVE  tokens'[g][u] \in {NoTokens, BlankTokens}
    BY DEF BuffersLeftClean, is_write_buffer_clean
  <2>1. CASE u = t
    <3>1. g # f /\ \A i \in 1..Len(wraps[t]) : FileOf(wraps[t][i].kind) # g
      BY <1>1, <1>2, <2>1
    <3> QED BY <1>3, <2>1, <3>1 DEF IInv, BuffersLeftClean, is_write_buffer_clean
  <2>2. CASE u # t
    BY <1>2, <1>3, <2>2 DEF IInv, BuffersLeftClean, is_write_buffer_clean
  <2> QED BY <2>1, <2>2
<1> QED BY <1>4, <1>5

(* A step that only fills or cleans the tokens of the top wrapper's file   *)
(* and moves that wrapper, which was not about to write a row: it owes the *)
(* row that it is about to write afterwards.                               *)
LEMMA TopStep ==
    ASSUME IInv, NEW t \in Threads, Alive(t), NEW w \in Wrappers, NEW T,
           SetTop(t, w), TokensAt(TopFile(t), t, T),
           w.kind = Top(t).kind, w.id = Top(t).id, w.phase # "newline",
           WrapOK(t, w, T, TopFile(t) \in initialized),
           TopFile(t) \notin initialized => T = NoTokens,
           TopFile(t) \in initialized => Top(t).phase \notin {"flush", "newline"},
           IF w.phase = "flush" THEN Owe(TopFile(t), RowOf(t, w)) ELSE due' = due,
           \A r \in RowIds : Before(r, Top(t)) => Before(r, w),
           UNCHANGED <<initialized, line, rows, mutex, asked>>
    PROVE  IInv'
<1> DEFINE f == TopFile(t)
           n == Len(wraps[t])
<1>0. TypeOK
  BY DEF IInv
<1>1. /\ f \in Files /\ n \in 1..n /\ n \in Nat /\ Top(t) = wraps[t][n]
      /\ FileOf(w.kind) = f /\ RowOf(t, w) \in RowIds
  <2>1. w.id \in 1..MaxQueries /\ w.row \in 0..ExtraRows
    BY DEF Wrappers
  <2> QED BY <1>0, <2>1, TopFacts DEF TopFile, RowOf, RowIds
<1>2. /\ wraps' \in [Threads -> Seq(Wrappers)]
      /\ \A u \in Threads \ {t} : wraps'[u] = wraps[u]
      /\ Len(wraps'[t]) = n
      /\ \A i \in 1..n : wraps'[t][i] = IF i = n THEN w ELSE wraps[t][i]
      /\ Alive(t)' /\ Top(t)' = w
  BY <1>0, SetTopFacts
<1>3. \A g \in Files, u \in Threads : tokens'[g][u] = IF g = f /\ u = t THEN T ELSE tokens[g][u]
  BY DEF TokensAt
<1>4. due \subseteq due' /\ due' \subseteq due \cup {<<f, RowOf(t, w)>>}
      /\ (due' # due => f \in initialized)
  BY DEF Owe
<1>5. TypeOK'
  <2>1. due' \subseteq Files \X RowIds
    BY <1>0, <1>1, <1>4 DEF TypeOK
  <2> QED BY <1>0, <1>2, <2>1 DEF TypeOK, TokensAt
<1>6. NoFileNoTokens'
  <2>1. \A g \in Files \ initialized : \A u \in Threads : tokens'[g][u] = NoTokens
    BY <1>1, <1>3 DEF IInv, NoFileNoTokens
  <2>2. \A g \in Files, r \in RowIds : <<g, r>> \in due' => g \in initialized
    BY <1>1, <1>4 DEF IInv, NoFileNoTokens
  <2> QED BY <2>1, <2>2 DEF NoFileNoTokens
<1>7. rows' = rows
  OBVIOUS
<1>8. WrapsOK' /\ BuffersLeftClean'
  BY <1>7, TopOK, TopWraps
<1>9. LinesOK'
  <2>1. \A g \in Files : mutex'[g] = NoThread => line'[g] = <<>>
    BY DEF IInv, LinesOK
  <2>2. ASSUME NEW u \in Threads, Alive(u)', Top(u)'.phase = "newline"
        PROVE  mutex'[TopFile(u)'] = u /\ line'[TopFile(u)'] = <<tokens'[TopFile(u)'][u]>>
    <3>1. u # t
      BY <1>2, <2>2
    <3>2. wraps'[u] = wraps[u]
      BY <1>2, <3>1
    <3>3. Alive(u) /\ Top(u)' = Top(u) /\ TopFile(u)' = TopFile(u)
      BY <2>2, <3>2 DEF Alive, Top, TopFile
    <3>4. TopFile(u) \in Files
      BY <1>0, <3>3, TopFacts
    <3>5. tokens'[TopFile(u)][u] = tokens[TopFile(u)][u]
      BY <1>3, <3>1, <3>4
    <3> QED BY <2>2, <3>3, <3>5 DEF IInv, LinesOK
  <2> QED BY <2>1, <2>2 DEF LinesOK
<1>10. RowsOK' /\ RowsInOrder'
  <2>1. RowsOK'
    BY <1>4 DEF IInv, RowsOK
  <2>2. RowsInOrder'
    BY DEF IInv, RowsInOrder
  <2> QED BY <2>1, <2>2
<1>11. DueOK'
  <2>1. \A u \in Threads \ {t} : \A g, r : Pending(u, g, r)' <=> Pending(u, g, r)
    BY <1>2 DEF Pending, Alive, TopFile, RowId, Top
  <2>2. \A g, r : Pending(t, g, r)' <=> w.phase = "flush" /\ g = f /\ r = RowOf(t, w)
    <3>1. TopFile(t)' = f /\ RowId(t)' = RowOf(t, w)
      BY <1>1, <1>2 DEF TopFile, RowId, RowOf
    <3> QED BY <1>2, <3>1 DEF Pending
  <2>3. \A g \in initialized : \A r : ~Pending(t, g, r)
    BY DEF Pending
  <2>4. ASSUME NEW g \in Files, NEW r \in RowIds, <<g, r>> \in due'
        PROVE  Has(rows'[g], r) \/ \E u \in Threads : Pending(u, g, r)'
    <3>1. g \in initialized
      BY <1>6, <2>4 DEF NoFileNoTokens
    <3>2. CASE <<g, r>> \in due
      BY <1>7, <2>1, <2>3, <3>1, <3>2 DEF IInv, DueOK
    <3>3. CASE <<g, r>> \notin due
      BY <1>4, <2>2, <2>4, <3>3
    <3> QED BY <3>2, <3>3
  <2>5. ASSUME NEW u \in Threads, NEW g \in Files, NEW r \in RowIds, Pending(u, g, r)', g \in initialized
        PROVE  <<g, r>> \in due'
    <3>1. CASE u = t
      BY <2>2, <2>5, <3>1 DEF Owe
    <3>2. CASE u # t
      BY <1>4, <2>1, <2>5, <3>2 DEF IInv, DueOK
    <3> QED BY <3>1, <3>2
  <2> QED BY <2>4, <2>5 DEF DueOK
<1> QED BY <1>5, <1>6, <1>8, <1>9, <1>10, <1>11 DEF IInv

-----------------------------------------------------------------------------
(* The first fields of a row are written, or cannot be. *)
LEMMA OpenLineStep ==
    ASSUME IInv, NEW t \in Threads, OpenLine(t)
    PROVE  IInv'
<1> DEFINE w == Top(t)
           f == TopFile(t)
           T == tokens[f][t]
           whole == w.kind \in {"miss", "shave"}
<1>1. /\ Alive(t) /\ w.phase = "open" /\ TypeOK
      /\ UNCHANGED <<initialized, line, rows, mutex, asked>>
  BY DEF OpenLine, IInv
<1>2. /\ w \in Wrappers /\ w.kind \in AllKinds /\ f \in Files
      /\ RowId(t) = RowOf(t, w) /\ RowId(t) \in RowIds
  BY <1>1, TopFacts
<1>3. /\ w.kind \in {"dpu", "layer", "dma", "miss", "shave"} /\ w.row = 0 /\ w.next = "done"
      /\ ~w.error /\ ~w.opened /\ T \in {NoTokens, BlankTokens}
      /\ f \notin initialized => T = NoTokens
  BY <1>1, TopOK DEF WrapOK
<1> HIDE DEF w, f, T
<1>4. CASE /\ tokens' = serialized(f, t, OpenFields(w.kind), RowId(t))
           /\ SetTop(t, [w EXCEPT !.phase = IF whole THEN "flush" ELSE "work", !.opened = TRUE])
           /\ IF whole THEN Owe(f, RowId(t)) ELSE UNCHANGED due
  <2> DEFINE v == [w EXCEPT !.phase = IF whole THEN "flush" ELSE "work", !.opened = TRUE]
             T2 == IF f \in initialized THEN Filled(RowId(t), OpenFields(w.kind)) ELSE NoTokens
  <2>1. /\ v \in Wrappers /\ v.kind = w.kind /\ v.id = w.id /\ v.row = w.row /\ v.next = w.next
        /\ v.phase = (IF whole THEN "flush" ELSE "work") /\ v.opened = TRUE /\ v.error = w.error
    BY <1>2 DEF Wrappers, Phases
  <2>2. TokensAt(f, t, T2)
    <3>1. CASE f \in initialized
      <4>1. TokensAt(f, t, Filled(RowId(t), {} \cup OpenFields(w.kind)))
        BY <1>1, <1>2, <1>3, <1>4, <3>1, Serialized DEF T
      <4>2. {} \cup OpenFields(w.kind) = OpenFields(w.kind)
        OBVIOUS
      <4> QED BY <3>1, <4>1, <4>2
    <3>2. CASE f \notin initialized
      BY <1>1, <1>2, <1>3, <1>4, <3>2, NotSerialized, SameTokens DEF T
    <3> QED BY <3>1, <3>2
  <2>3. SetTop(t, v)
    BY <1>4
  <2> HIDE DEF v
  <2>4. RowOf(t, v) = RowOf(t, w) /\ FullFields(v.kind, 0) = (IF whole THEN OpenFields(w.kind) ELSE FullFields(w.kind, 0))
    BY <2>1 DEF RowOf, FullFields
  <2>5. WrapOK(t, v, T2, f \in initialized)
    BY <1>2, <1>3, <2>1, <2>4 DEF WrapOK
  <2>6. \A r \in RowIds : Before(r, w) => Before(r, v)
    BY <1>1, <1>3, <2>1 DEF Before
  <2>7. IF v.phase = "flush" THEN Owe(f, RowOf(t, v)) ELSE due' = due
    BY <1>2, <1>4, <2>1, <2>4
  <2>8. v.phase # "newline" /\ w.phase \notin {"flush", "newline"}
    BY <1>1, <2>1
  <2> HIDE DEF T2
  <2>9. f \notin initialized => T2 = NoTokens
    BY DEF T2
  <2> QED BY <1>1, <2>1, <2>2, <2>3, <2>5, <2>6, <2>7, <2>8, <2>9, TopStep DEF w, f
<1>5. CASE /\ tokens' = cleaned(f, t)
           /\ SetTop(t, [w EXCEPT !.phase = IF whole THEN "done" ELSE "work",
                                  !.error = w.kind # "dma"])
           /\ UNCHANGED due
  <2> DEFINE v == [w EXCEPT !.phase = IF whole THEN "done" ELSE "work", !.error = w.kind # "dma"]
             T2 == IF T = NoTokens THEN NoTokens ELSE BlankTokens
  <2>1. /\ v \in Wrappers /\ v.kind = w.kind /\ v.id = w.id /\ v.row = w.row
        /\ v.phase = (IF whole THEN "done" ELSE "work")
        /\ v.error = (w.kind # "dma") /\ v.opened = w.opened
    BY <1>2 DEF Wrappers, Phases
  <2>2. TokensAt(f, t, T2)
    BY <1>1, <1>2, <1>5, Cleaned DEF T
  <2>3. SetTop(t, v)
    BY <1>5
  <2> HIDE DEF v
  <2>4. WrapOK(t, v, T2, f \in initialized)
    BY <1>2, <1>3, <2>1 DEF WrapOK
  <2>5. \A r \in RowIds : Before(r, w) => Before(r, v)
    BY <1>1, <1>3, <2>1 DEF Before
  <2>6. v.phase \notin {"flush", "newline"} /\ w.phase \notin {"flush", "newline"} /\ due' = due
        /\ (f \notin initialized => T2 = NoTokens)
    BY <1>1, <1>3, <1>5, <2>1
  <2> HIDE DEF T2
  <2> QED BY <1>1, <2>1, <2>2, <2>3, <2>4, <2>5, <2>6, TopStep DEF w, f
<1> QED BY <1>4, <1>5 DEF OpenLine, w, f

(* The computation of the cost throws, and the row stays as it is until    *)
(* the wrapper is destroyed.                                               *)
LEMMA ThrowStep ==
    ASSUME IInv, NEW t \in Threads, Throw(t)
    PROVE  IInv'
<1> DEFINE w == Top(t)
           f == TopFile(t)
           v == [w EXCEPT !.phase = "done"]
<1>1. /\ Alive(t) /\ w.phase = "work" /\ TypeOK /\ SetTop(t, v) /\ due' = due /\ tokens' = tokens
      /\ UNCHANGED <<initialized, line, rows, mutex, asked>>
  BY DEF Throw, IInv
<1>2. w \in Wrappers /\ f \in Files /\ (f \notin initialized => tokens[f][t] = NoTokens)
  BY <1>1, TopFacts, TopOK
<1> HIDE DEF w, f
<1>3. v \in Wrappers /\ v.kind = w.kind /\ v.id = w.id /\ v.phase = "done"
  BY <1>2 DEF Wrappers, Phases
<1> HIDE DEF v
<1>4. WrapOK(t, v, tokens[f][t], f \in initialized)
  BY <1>3 DEF WrapOK
<1>5. \A r \in RowIds : Before(r, w) => Before(r, v)
  <2>1. ASSUME NEW r \in RowIds, Before(r, w) PROVE Before(r, v)
    <3>1. r[2] < w.id \/ r[2] = w.id
      BY <2>1 DEF Before
    <3> QED BY <1>3, <3>1 DEF Before
  <2> QED BY <2>1
<1>6. TokensAt(f, t, tokens[f][t])
  BY <1>1, <1>2, SameTokens
<1> QED BY <1>1, <1>2, <1>3, <1>4, <1>5, <1>6, TopStep DEF w, f

(* The last fields of a row are written, or there is no row to complete. *)
LEMMA CloseLineStep ==
    ASSUME IInv, NEW t \in Threads, CloseLine(t)
    PROVE  IInv'
<1> DEFINE w == Top(t)
           f == TopFile(t)
           T == tokens[f][t]
           clean == T \in {NoTokens, BlankTokens}
           skip == w.error \/ (w.kind \in {"dpu", "dma"} /\ clean)
<1>1. /\ Alive(t) /\ w.phase = "work" /\ TypeOK
      /\ UNCHANGED <<initialized, line, rows, mutex, asked>>
      /\ IF w.opened THEN Owe(f, RowId(t)) ELSE due' = due
  BY DEF CloseLine, IInv
<1>2. /\ w \in Wrappers /\ w.kind \in AllKinds /\ f \in Files
      /\ RowId(t) = RowOf(t, w) /\ RowId(t) \in RowIds
  BY <1>1, TopFacts
<1>3. /\ w.kind \in {"dpu", "layer", "dma", "presplit"} /\ w.row = 0
      /\ \/ /\ w.opened /\ ~w.error
            /\ w.kind = "presplit" => clean
            /\ w.kind # "presplit" /\ f \in initialized => T = Filled(RowId(t), OpenFields(w.kind))
         \/ ~w.opened /\ clean /\ w.kind # "presplit" /\ (w.error \/ w.kind = "dma")
      /\ f \notin initialized => T = NoTokens
  BY <1>1, <1>2, TopOK DEF WrapOK
<1>4. w.kind # "presplit" => (T # NoTokens /\ T # BlankTokens) \/ ~w.opened \/ f \notin initialized
  <2>1. w.kind # "presplit" => \E c \in Columns : c \in OpenFields(w.kind)
    BY <1>3 DEF OpenFields, Columns
  <2> QED BY <1>2, <1>3, <2>1, FilledValues
<1>5. \/ skip /\ SetTop(t, [w EXCEPT !.phase = "done"]) /\ tokens' = tokens
      \/ /\ ~skip /\ tokens' = serialized(f, t, CloseFields(w.kind), RowId(t))
         /\ \E after \in CASE w.kind = "layer" -> {"rows", "done"}
                          [] w.kind = "presplit" -> {"rows"}
                          [] w.kind \in {"dpu", "dma"} -> {"done"} :
               SetTop(t, [w EXCEPT !.phase = "flush", !.next = after])
  BY DEF CloseLine, is_write_buffer_clean
<1> HIDE DEF w, f, T
<1>6. CASE skip /\ SetTop(t, [w EXCEPT !.phase = "done"]) /\ tokens' = tokens
  <2> DEFINE v == [w EXCEPT !.phase = "done"]
  <2>1. v \in Wrappers /\ v.kind = w.kind /\ v.id = w.id /\ v.phase = "done" /\ SetTop(t, v)
    BY <1>2, <1>6 DEF Wrappers, Phases
  <2> HIDE DEF v
  <2>2. due' = due
    BY <1>1, <1>3, <1>4, <1>6 DEF Owe
  <2>3. WrapOK(t, v, T, f \in initialized)
    BY <2>1 DEF WrapOK
  <2>4. \A r \in RowIds : Before(r, w) => Before(r, v)
    BY <1>1, <1>3, <2>1 DEF Before
  <2>5. TokensAt(f, t, T)
    BY <1>1, <1>2, <1>6, SameTokens DEF T
  <2>6. w.phase \notin {"flush", "newline"} /\ v.phase \notin {"flush", "newline"}
    BY <1>1, <2>1
  <2> QED BY <1>1, <1>3, <2>1, <2>2, <2>3, <2>4, <2>5, <2>6, TopStep DEF w, f
<1>7. ASSUME NEW after \in {"rows", "done"},
             after = "rows" => w.kind \in {"layer", "presplit"}, ~skip,
             tokens' = serialized(f, t, CloseFields(w.kind), RowId(t)),
             SetTop(t, [w EXCEPT !.phase = "flush", !.next = after])
      PROVE  IInv'
  <2> DEFINE v == [w EXCEPT !.phase = "flush", !.next = after]
             T2 == IF f \in initialized THEN Filled(RowId(t), FullFields(w.kind, 0)) ELSE NoTokens
  <2>1. /\ v \in Wrappers /\ v.kind = w.kind /\ v.id = w.id /\ v.row = 0
        /\ v.phase = "flush" /\ v.next = after /\ SetTop(t, v)
    BY <1>2, <1>3, <1>7 DEF Wrappers, Phases
  <2> HIDE DEF v
  <2>2. w.opened
    BY <1>3, <1>7
  <2>3. TokensAt(f, t, T2)
    <3>1. CASE f \notin initialized
      BY <1>1, <1>2, <1>3, <1>7, <3>1, NotSerialized, SameTokens DEF T
    <3>2. CASE f \in initialized /\ w.kind = "presplit"
      <4>1. TokensAt(f, t, Filled(RowId(t), {} \cup CloseFields(w.kind)))
        BY <1>1, <1>2, <1>3, <1>7, <3>2, Serialized DEF T
      <4>2. {} \cup CloseFields(w.kind) = FullFields(w.kind, 0)
        BY <3>2 DEF FullFields
      <4> QED BY <3>2, <4>1, <4>2
    <3>3. CASE f \in initialized /\ w.kind # "presplit"
      <4>1. TokensAt(f, t, Filled(RowId(t), OpenFields(w.kind) \cup CloseFields(w.kind)))
        BY <1>1, <1>2, <1>3, <1>7, <2>2, <3>3, Serialized DEF T
      <4>2. OpenFields(w.kind) \cup CloseFields(w.kind) = FullFields(w.kind, 0)
        BY <1>3, <3>3 DEF FullFields
      <4> QED BY <3>3, <4>1, <4>2
    <3> QED BY <3>1, <3>2, <3>3
  <2>4. RowOf(t, v) = RowId(t)
    BY <1>2, <1>3, <2>1 DEF RowOf
  <2>5. WrapOK(t, v, T2, f \in initialized)
    BY <1>7, <2>1, <2>4 DEF WrapOK
  <2>6. \A r \in RowIds : Before(r, w) => Before(r, v)
    BY <1>1, <1>3, <2>1 DEF Before
  <2>7. v.phase = "flush" /\ Owe(f, RowOf(t, v)) /\ w.phase \notin {"flush", "newline"}
    BY <1>1, <2>1, <2>2, <2>4
  <2>8. (f \notin initialized => T2 = NoTokens) /\ v.phase # "newline"
    BY <2>7
  <2> HIDE DEF T2
  <2> QED BY <1>1, <2>1, <2>3, <2>5, <2>6, <2>7, <2>8, TopStep DEF w, f
<1>8. (CASE w.kind = "layer" -> {"rows", "done"}
         [] w.kind = "presplit" -> {"rows"}
         [] w.kind \in {"dpu", "dma"} -> {"done"}) \subseteq
      {a \in {"rows", "done"} : a = "rows" => w.kind \in {"layer", "presplit"}}
  BY <1>3
<1> QED BY <1>5, <1>6, <1>7, <1>8

(* A row of a batch or of a split is written, or dropped. *)
LEMMA NextRowStep ==
    ASSUME IInv, NEW t \in Threads, NextRow(t)
    PROVE  IInv'
<1> DEFINE w == Top(t)
           f == TopFile(t)
           T == tokens[f][t]
           last == w.row = ExtraRows
           row == IF w.kind = "batch" THEN w.row ELSE w.row + 1
<1>1. /\ Alive(t) /\ w.phase = "rows" /\ TypeOK
      /\ UNCHANGED <<initialized, line, rows, mutex, asked>>
  BY DEF NextRow, IInv
<1>2. /\ w \in Wrappers /\ f \in Files /\ w.id \in 1..MaxQueries
      /\ w.row \in 0..ExtraRows /\ ExtraRows \in Nat
  BY <1>1, TopFacts, SerializerAssumption DEF Wrappers
<1>3. /\ w.kind \in {"batch", "layer", "presplit"} /\ T \in {NoTokens, BlankTokens}
      /\ f \notin initialized => T = NoTokens
  BY <1>1, TopOK DEF WrapOK
<1>4. \/ /\ w.kind # "batch" /\ last /\ SetTop(t, [w EXCEPT !.phase = "done"])
         /\ tokens' = tokens /\ due' = due
      \/ /\ w.kind = "batch" \/ ~last
         /\ tokens' = serialized(f, t, RowFields(w.kind), <<t, w.id, row>>)
         /\ Owe(f, <<t, w.id, row>>)
         /\ SetTop(t, [w EXCEPT !.phase = "flush", !.row = row,
                                !.next = IF w.kind = "batch" /\ last THEN "done" ELSE "rows"])
      \/ /\ tokens' = cleaned(f, t) /\ due' = due
         /\ SetTop(t, IF w.kind = "batch" /\ ~last
                      THEN [w EXCEPT !.row = @ + 1, !.error = TRUE]
                      ELSE [w EXCEPT !.phase = "done", !.error = TRUE])
  BY <1>1 DEF NextRow
<1> HIDE DEF w, f, T
<1>5. CASE /\ w.kind # "batch" /\ last /\ SetTop(t, [w EXCEPT !.phase = "done"])
           /\ tokens' = tokens /\ due' = due
  <2> DEFINE v == [w EXCEPT !.phase = "done"]
  <2>1. v \in Wrappers /\ v.kind = w.kind /\ v.id = w.id /\ v.phase = "done" /\ SetTop(t, v)
    BY <1>2, <1>5 DEF Wrappers, Phases
  <2> HIDE DEF v
  <2>2. WrapOK(t, v, T, f \in initialized)
    BY <2>1 DEF WrapOK
  <2>3. \A r \in RowIds : Before(r, w) => Before(r, v)
    BY <2>1 DEF Before
  <2>4. TokensAt(f, t, T)
    BY <1>1, <1>2, <1>5, SameTokens DEF T
  <2>5. w.phase \notin {"flush", "newline"} /\ v.phase \notin {"flush", "newline"}
    BY <1>1, <2>1
  <2> QED BY <1>1, <1>3, <1>5, <2>1, <2>2, <2>3, <2>4, <2>5, TopStep DEF w, f
<1>6. CASE /\ w.kind = "batch" \/ ~last
           /\ tokens' = serialized(f, t, RowFields(w.kind), <<t, w.id, row>>)
           /\ Owe(f, <<t, w.id, row>>)
           /\ SetTop(t, [w EXCEPT !.phase = "flush", !.row = row,
                                  !.next = IF w.kind = "batch" /\ last THEN "done" ELSE "rows"])
  <2> DEFINE next == IF w.kind = "batch" /\ last THEN "done" ELSE "rows"
             v == [w EXCEPT !.phase = "flush", !.row = row, !.next = next]
             id == <<t, w.id, row>>
             T2 == IF f \in initialized THEN Filled(id, RowFields(w.kind)) ELSE NoTokens
  <2>1. row \in 0..ExtraRows /\ (w.kind # "batch" => row > 0)
        /\ (next = "rows" /\ w.kind = "batch" => row < ExtraRows)
    BY <1>2, <1>6
  <2>2. id \in RowIds
    BY <1>2, <2>1 DEF RowIds
  <2>3. SetTop(t, v)
    BY <1>6
  <2>4. Owe(f, id)
    BY <1>6
  <2> HIDE DEF row
  <2>5. /\ v \in Wrappers /\ v.kind = w.kind /\ v.id = w.id /\ v.row = row
        /\ v.phase = "flush" /\ v.next = next
    BY <1>2, <2>1 DEF Wrappers, Phases
  <2>6. TokensAt(f, t, T2)
    <3>1. CASE f \notin initialized
      BY <1>1, <1>2, <1>3, <1>6, <3>1, NotSerialized, SameTokens DEF T
    <3>2. CASE f \in initialized
      <4>1. tokens' = serialized(f, t, RowFields(w.kind), id)
        BY <1>6
      <4> HIDE DEF id
      <4>2. TokensAt(f, t, Filled(id, {} \cup RowFields(w.kind)))
        BY <1>1, <1>2, <1>3, <2>2, <3>2, <4>1, Serialized DEF T
      <4>3. {} \cup RowFields(w.kind) = RowFields(w.kind)
        OBVIOUS
      <4> QED BY <3>2, <4>2, <4>3
    <3> QED BY <3>1, <3>2
  <2> HIDE DEF v
  <2>7. RowOf(t, v) = id
    BY <2>5 DEF RowOf
  <2>8. FullFields(v.kind, v.row) = RowFields(w.kind)
    BY <1>3, <2>1, <2>5 DEF FullFields
  <2>9. next \in {"rows", "done"}
    OBVIOUS
  <2> HIDE DEF id, next
  <2>10. WrapOK(t, v, T2, f \in initialized)
    BY <1>3, <2>1, <2>5, <2>7, <2>8, <2>9 DEF WrapOK
  <2>11. \A r \in RowIds : Before(r, w) => Before(r, v)
    BY <1>1, <1>2, <2>5 DEF Before, row
  <2>12. /\ v.phase = "flush" /\ Owe(f, RowOf(t, v)) /\ v.phase # "newline"
         /\ w.phase \notin {"flush", "newline"} /\ (f \notin initialized => T2 = NoTokens)
    BY <1>1, <2>4, <2>5, <2>7
  <2> HIDE DEF T2
  <2> QED BY <1>1, <2>3, <2>5, <2>6, <2>10, <2>11, <2>12, TopStep DEF w, f
<1>7. CASE /\ tokens' = cleaned(f, t) /\ due' = due
           /\ SetTop(t, IF w.kind = "batch" /\ ~last
                        THEN [w EXCEPT !.row = @ + 1, !.error = TRUE]
                        ELSE [w EXCEPT !.phase = "done", !.error = TRUE])
  <2> DEFINE v == IF w.kind = "batch" /\ ~last
                  THEN [w EXCEPT !.row = @ + 1, !.error = TRUE]
                  ELSE [w EXCEPT !.phase = "done", !.error = TRUE]
             T2 == IF T = NoTokens THEN NoTokens ELSE BlankTokens
  <2>1. /\ v \in Wrappers /\ v.kind = w.kind /\ v.id = w.id
        /\ \/ v.phase = "done"
           \/ v.phase = "rows" /\ w.kind = "batch" /\ v.row = w.row + 1
    <3>1. CASE w.kind = "batch" /\ ~last
      <4>1. PICK n \in 0..ExtraRows : n = w.row + 1
        BY <1>2, <3>1
      <4>2. v = [w EXCEPT !.row = n, !.error = TRUE]
        BY <1>2, <3>1, <4>1 DEF Wrappers
      <4> HIDE DEF v
      <4> QED BY <1>1, <1>2, <3>1, <4>1, <4>2 DEF Wrappers
    <3>2. CASE ~(w.kind = "batch" /\ ~last)
      <4>1. v = [w EXCEPT !.phase = "done", !.error = TRUE]
        BY <3>2
      <4> HIDE DEF v
      <4> QED BY <1>2, <4>1 DEF Wrappers, Phases
    <3> QED BY <3>1, <3>2
  <2>2. TokensAt(f, t, T2)
    BY <1>1, <1>2, <1>7, Cleaned DEF T
  <2>3. SetTop(t, v)
    BY <1>7
  <2> HIDE DEF v
  <2>4. WrapOK(t, v, T2, f \in initialized)
    BY <1>3, <2>1 DEF WrapOK
  <2>5. \A r \in RowIds : Before(r, w) => Before(r, v)
    <3>1. \A r \in RowIds : r[3] \in Nat
      BY RowNotBlank, <1>2
    <3> QED BY <1>1, <1>2, <2>1, <3>1 DEF Before
  <2>6. v.phase \notin {"flush", "newline"} /\ w.phase \notin {"flush", "newline"}
        /\ (f \notin initialized => T2 = NoTokens)
    BY <1>1, <1>3, <2>1
  <2> HIDE DEF T2
  <2> QED BY <1>1, <1>7, <2>1, <2>2, <2>3, <2>4, <2>5, <2>6, TopStep DEF w, f
<1> QED BY <1>4, <1>5, <1>6, <1>7

(* end() of a row: the wrapper goes on behind that row. *)
LEMMA EndedFacts ==
    ASSUME NEW t \in Threads, NEW w \in Wrappers, NEW T, NEW here,
           WrapOK(t, w, T, here), w.phase \in {"flush", "newline"}
    PROVE  LET v == Ended(w) IN
           /\ v \in Wrappers /\ v.kind = w.kind /\ v.id = w.id /\ v.phase \in {"rows", "done"}
           /\ \A T2 \in {NoTokens, BlankTokens} : WrapOK(t, v, T2, here)
           /\ \A r \in RowIds : Before(r, w) => Before(r, v)
           /\ Before(RowOf(t, w), v)
<1> DEFINE v == Ended(w)
           n == IF w.kind = "batch" /\ w.next = "rows" THEN w.row + 1 ELSE w.row
<1>1. /\ w.next \in {"rows", "done"} /\ w.row \in 0..ExtraRows /\ ExtraRows \in Nat
      /\ w.next = "rows" => w.kind \in {"batch", "layer", "presplit"}
      /\ w.next = "rows" /\ w.kind = "batch" => w.row < ExtraRows
      /\ w.id \in Nat
  BY SerializerAssumption DEF WrapOK, Wrappers
<1>2. n \in 0..ExtraRows
  BY <1>1
<1>3. v = [w EXCEPT !.phase = w.next, !.row = n]
  BY DEF Ended, Wrappers
<1> HIDE DEF v, n
<1>4. v \in Wrappers /\ v.kind = w.kind /\ v.id = w.id /\ v.phase = w.next /\ v.row = n
  BY <1>1, <1>2, <1>3 DEF Wrappers
<1>5. \A T2 \in {NoTokens, BlankTokens} : WrapOK(t, v, T2, here)
  BY <1>1, <1>4 DEF WrapOK
<1>6. \A r \in RowIds : Before(r, w) => Before(r, v)
  <2>1. \A r \in RowIds : r[2] \in Nat /\ r[3] \in Nat
    BY RowNotBlank, SerializerAssumption
  <2> QED BY <1>1, <1>4, <2>1 DEF Before, n
<1>7. Before(RowOf(t, w), v)
  <2>1. RowOf(t, w)[2] = w.id /\ RowOf(t, w)[3] = w.row
    BY DEF RowOf
  <2> QED BY <1>1, <1>4, <2>1 DEF Before, n
<1> QED BY <1>1, <1>4, <1>5, <1>6, <1>7 DEF v

(* The row that a wrapper is about to write has a column. *)
LEMMA RowToWrite ==
    ASSUME IInv, NEW t \in Threads, Alive(t), Top(t).phase \in {"flush", "newline"},
           TopFile(t) \in initialized
    PROVE  LET T == tokens[TopFile(t)][t] IN
           /\ T = Filled(RowId(t), FullFields(Top(t).kind, Top(t).row))
           /\ Values(T) = {RowId(t)} /\ T # NoTokens /\ T \in Tokens
           /\ Top(t).row > 0 => Top(t).kind \in {"batch", "layer", "presplit"}
<1>1. TypeOK
  BY DEF IInv
<1>2. /\ Top(t) \in Wrappers /\ Top(t).kind \in AllKinds
      /\ RowId(t) = RowOf(t, Top(t)) /\ RowId(t) \in RowIds
  BY <1>1, TopFacts
<1>3. Top(t).row \in Nat
  BY <1>2, SerializerAssumption DEF Wrappers
<1>4. /\ tokens[TopFile(t)][t] = Filled(RowId(t), FullFields(Top(t).kind, Top(t).row))
      /\ Top(t).row > 0 => Top(t).kind \in {"batch", "layer", "presplit"}
  BY <1>2, TopOK DEF WrapOK
<1>5. \E c \in Columns : c \in FullFields(Top(t).kind, Top(t).row)
  BY <1>2, <1>3, <1>4, FieldFacts
<1> QED BY <1>2, <1>4, <1>5, FilledValues, FilledTyped

(* end() takes the mutex and writes the row, or has nothing to write. *)
LEMMA EndWriteStep ==
    ASSUME IInv, NEW t \in Threads, EndWrite(t)
    PROVE  IInv'
<1> DEFINE w == Top(t)
           f == TopFile(t)
           T == tokens[f][t]
<1>1. /\ Alive(t) /\ w.phase = "flush" /\ TypeOK /\ mutex[f] = NoThread
      /\ UNCHANGED <<initialized, tokens, rows, asked, due>>
  BY DEF EndWrite, IInv
<1>2. w \in Wrappers /\ f \in Files /\ w.kind \in AllKinds /\ RowId(t) = RowOf(t, w)
  BY <1>1, TopFacts
<1>3. CASE T = NoTokens /\ SetTop(t, Ended(w)) /\ UNCHANGED <<line, mutex>>
  <2> DEFINE v == Ended(w)
  <2>1. f \notin initialized
    BY <1>1, <1>3, RowToWrite
  <2>2. WrapOK(t, w, T, f \in initialized)
    BY <1>1, TopOK
  <2>3. /\ v \in Wrappers /\ v.kind = w.kind /\ v.id = w.id /\ v.phase \in {"rows", "done"}
        /\ WrapOK(t, v, NoTokens, f \in initialized)
        /\ \A r \in RowIds : Before(r, w) => Before(r, v)
    <3> HIDE DEF w, T, f
    <3> QED BY <1>1, <1>2, <2>2, EndedFacts
  <2>4. TokensAt(f, t, T)
    BY <1>1, <1>2, SameTokens
  <2>5. SetTop(t, v)
    BY <1>3
  <2> HIDE DEF v
  <2>6. v.phase \notin {"flush", "newline"}
    BY <2>3
  <2> QED BY <1>1, <1>3, <2>1, <2>3, <2>4, <2>5, <2>6, TopStep
<1>4. CASE /\ T # NoTokens
           /\ mutex' = [mutex EXCEPT ![f] = t]
           /\ line' = [line EXCEPT ![f] = Append(@, T)]
           /\ SetTop(t, [w EXCEPT !.phase = "newline"])
  <2> DEFINE v == [w EXCEPT !.phase = "newline"]
  <2>1. f \in initialized
    BY <1>1, <1>4, TopOK
  <2>2. T \in Tokens /\ T = Filled(RowId(t), FullFields(w.kind, w.row))
    BY <1>1, <2>1, RowToWrite
  <2>3. /\ v \in Wrappers /\ v.kind = w.kind /\ v.id = w.id /\ v.row = w.row
        /\ v.phase = "newline" /\ v.next = w.next
    BY <1>2 DEF Wrappers, Phases
  <2>4. SetTop(t, v)
    BY <1>4
  <2> HIDE DEF v
  <2>5. RowOf(t, v) = RowOf(t, w)
    BY <2>3 DEF RowOf
  <2>6. WrapOK(t, v, T, f \in initialized)
    <3>1. WrapOK(t, w, T, f \in initialized)
      BY <1>1, TopOK
    <3> QED BY <1>1, <2>1, <2>3, <2>5, <3>1 DEF WrapOK
  <2>7. \A r \in RowIds : Before(r, w) => Before(r, v)
    BY <1>1, <2>3 DEF Before
  <2>8. TokensAt(f, t, T)
    BY <1>1, <1>2, SameTokens
  <2>9. /\ wraps' \in [Threads -> Seq(Wrappers)] /\ Alive(t)' /\ Top(t)' = v
        /\ \A u \in Threads \ {t} : wraps'[u] = wraps[u]
    BY <1>1, <2>3, <2>4, SetTopFacts
  <2>10. WrapsOK' /\ BuffersLeftClean'
    <3>1. \A r \in RowIds : Has(rows'[f], r) /\ r[1] = t => Before(r, v)
      BY <1>1, <2>7, TopOK
    <3>2. \A g \in Files, r \in RowIds : Has(rows'[g], r) => Has(rows[g], r) \/ (g = f /\ r[1] = t)
      BY <1>1
    <3> QED BY <1>1, <2>3, <2>4, <2>6, <2>8, <3>1, <3>2, TopWraps
  <2>11. /\ mutex' \in [Files -> Threads \cup {NoThread}] /\ mutex'[f] = t
         /\ line' \in [Files -> Seq(Tokens)] /\ line'[f] = <<T>>
         /\ \A g \in Files \ {f} : mutex'[g] = mutex[g] /\ line'[g] = line[g]
    <3>1. line[f] = <<>> /\ mutex \in [Files -> Threads \cup {NoThread}] /\ line \in [Files -> Seq(Tokens)]
      BY <1>1, <1>2 DEF IInv, LinesOK, TypeOK
    <3>2. <<T>> \in Seq(Tokens) /\ Append(<<>>, T) = <<T>>
      BY <2>2
    <3>3. line' = [line EXCEPT ![f] = <<T>>]
      BY <1>4, <3>1, <3>2
    <3> HIDE DEF f, T
    <3> QED BY <1>2, <1>4, <3>1, <3>2, <3>3
  <2>12. TypeOK' /\ NoFileNoTokens'
    BY <1>1, <2>9, <2>11 DEF IInv, TypeOK, NoFileNoTokens
  <2>13. LinesOK'
    <3>1. \A g \in Files : mutex'[g] = NoThread => line'[g] = <<>>
      BY <2>11, SerializerAssumption DEF IInv, LinesOK
    <3>2. ASSUME NEW u \in Threads, Alive(u)', Top(u)'.phase = "newline"
          PROVE  mutex'[TopFile(u)'] = u /\ line'[TopFile(u)'] = <<tokens'[TopFile(u)'][u]>>
      <4>1. CASE u = t
        <5>1. TopFile(t)' = f
          BY <2>3, <2>9 DEF TopFile
        <5> QED BY <1>1, <2>11, <4>1, <5>1
      <4>2. CASE u # t
        <5>1. Alive(u) /\ Top(u)' = Top(u) /\ TopFile(u)' = TopFile(u)
          BY <2>9, <3>2, <4>2 DEF Alive, Top, TopFile
        <5>2. mutex[TopFile(u)] = u /\ line[TopFile(u)] = <<tokens[TopFile(u)][u]>> /\ TopFile(u) \in Files
          BY <1>1, <3>2, <5>1, TopFacts DEF IInv, LinesOK
        <5>3. TopFile(u) # f
          BY <1>1, <5>2, SerializerAssumption
        <5> QED BY <1>1, <2>11, <5>1, <5>2, <5>3
      <4> QED BY <4>1, <4>2
    <3> QED BY <3>1, <3>2 DEF LinesOK
  <2>14. RowsOK' /\ RowsInOrder'
    <3>1. RowsOK'
      BY <1>1 DEF IInv, RowsOK
    <3>2. RowsInOrder'
      BY <1>1 DEF IInv, RowsInOrder
    <3> QED BY <3>1, <3>2
  <2>15. DueOK'
    <3>1. \A u \in Threads \ {t} : \A g, r : Pending(u, g, r)' <=> Pending(u, g, r)
      BY <2>9 DEF Pending, Alive, TopFile, RowId, Top
    <3>2. \A g, r : Pending(t, g, r)' <=> Pending(t, g, r)
      <4>1. TopFile(t)' = f /\ RowId(t)' = RowId(t)
        BY <1>2, <2>3, <2>9 DEF TopFile, RowId
      <4> QED BY <1>1, <2>3, <2>9, <4>1 DEF Pending
    <3>3. \A u \in Threads : \A g, r : Pending(u, g, r)' <=> Pending(u, g, r)
      BY <3>1, <3>2
    <3> QED BY <1>1, <3>3 DEF IInv, DueOK
  <2> QED BY <2>10, <2>12, <2>13, <2>14, <2>15 DEF IInv
<1> QED BY <1>3, <1>4 DEF EndWrite

(* What a written line is. *)
LEMMA LineFacts ==
    ASSUME IInv, NEW f \in Files, NEW i \in 1..Len(rows[f])
    PROVE  \E r \in RowIds, kind \in AllKinds :
               /\ FileOf(kind) = f /\ <<f, r>> \in due /\ r[2] <= asked[r[1]]
               /\ (r[3] > 0 => kind \in {"batch", "layer", "presplit"})
               /\ rows[f][i] = <<Filled(r, FullFields(kind, r[3]))>>
               /\ Len(rows[f][i]) = 1 /\ Values(rows[f][i][1]) = {r}
<1>1. PICK r \in RowIds, kind \in AllKinds :
          /\ FileOf(kind) = f /\ <<f, r>> \in due /\ r[2] <= asked[r[1]]
          /\ (r[3] > 0 => kind \in {"batch", "layer", "presplit"})
          /\ rows[f][i] = <<Filled(r, FullFields(kind, r[3]))>>
  BY DEF IInv, RowsOK
<1>2. r[3] \in Nat
  BY RowNotBlank, SerializerAssumption
<1>3. \E c \in Columns : c \in FullFields(kind, r[3])
  BY <1>1, <1>2, FieldFacts
<1>4. Values(Filled(r, FullFields(kind, r[3]))) = {r}
  BY <1>3, FilledValues
<1>5. Len(rows[f][i]) = 1 /\ rows[f][i][1] = Filled(r, FullFields(kind, r[3]))
  BY <1>1
<1> QED BY <1>1, <1>4, <1>5

(* The row that a line holds. *)
LEMMA LineRow ==
    ASSUME IInv, NEW f \in Files, NEW i \in 1..Len(rows[f])
    PROVE  \E r \in RowIds : r[2] <= asked[r[1]] /\ Values(rows[f][i][1]) = {r}
<1>1. PICK r \in RowIds, kind \in AllKinds :
          /\ FileOf(kind) = f /\ <<f, r>> \in due /\ r[2] <= asked[r[1]]
          /\ (r[3] > 0 => kind \in {"batch", "layer", "presplit"})
          /\ rows[f][i] = <<Filled(r, FullFields(kind, r[3]))>>
          /\ Len(rows[f][i]) = 1 /\ Values(rows[f][i][1]) = {r}
  BY LineFacts, Zenon
<1> QED BY <1>1, Zenon

(* The newline completes the row: it joins the lines behind the earlier    *)
(* rows of its thread, and the wrapper goes on with a clean buffer.        *)
LEMMA EndNewlineStep ==
    ASSUME IInv, NEW t \in Threads, EndNewline(t)
    PROVE  IInv'
<1> DEFINE w == Top(t)
           f == TopFile(t)
           T == tokens[f][t]
           r0 == RowId(t)
           v == Ended(w)
           T2 == IF T = NoTokens THEN NoTokens ELSE BlankTokens
           n == Len(rows[f])
<1>1. /\ Alive(t) /\ w.phase = "newline" /\ TypeOK
      /\ rows' = [rows EXCEPT ![f] = Append(@, line[f])]
      /\ line' = [line EXCEPT ![f] = <<>>]
      /\ mutex' = [mutex EXCEPT ![f] = NoThread]
      /\ tokens' = cleaned(f, t) /\ SetTop(t, v)
      /\ UNCHANGED <<initialized, asked, due>>
  BY DEF EndNewline, IInv
<1>2. /\ w \in Wrappers /\ f \in Files /\ w.kind \in AllKinds /\ r0 = RowOf(t, w) /\ r0 \in RowIds
  BY <1>1, TopFacts
<1>3. WrapOK(t, w, T, f \in initialized) /\ f \in initialized
  BY <1>1, TopOK DEF WrapOK
<1>4. /\ T = Filled(r0, FullFields(w.kind, w.row)) /\ Values(T) = {r0} /\ T \in Tokens
      /\ w.row > 0 => w.kind \in {"batch", "layer", "presplit"}
  BY <1>1, <1>3, RowToWrite
<1>5. mutex[f] = t /\ line[f] = <<T>>
  BY <1>1 DEF IInv, LinesOK
<1>6. /\ v \in Wrappers /\ v.kind = w.kind /\ v.id = w.id /\ v.phase \in {"rows", "done"}
      /\ WrapOK(t, v, T2, f \in initialized)
      /\ \A r \in RowIds : Before(r, w) => Before(r, v)
      /\ Before(r0, v)
  <2>1. T2 \in {NoTokens, BlankTokens}
    OBVIOUS
  <2> HIDE DEF w, T, f, T2
  <2> QED BY <1>1, <1>2, <1>3, <2>1, EndedFacts
<1>7. TokensAt(f, t, T2)
  BY <1>1, <1>2, Cleaned
<1>8. /\ wraps' \in [Threads -> Seq(Wrappers)] /\ Alive(t)' /\ Top(t)' = v
      /\ \A u \in Threads \ {t} : wraps'[u] = wraps[u]
  BY <1>1, <1>6, SetTopFacts
<1>9. r0[1] = t /\ r0[2] = w.id /\ r0[3] = w.row
  BY <1>2 DEF RowOf
<1> HIDE DEF v, T2
<1>10. /\ rows' \in [Files -> Seq(Seq(Tokens))]
       /\ \A g \in Files \ {f} : rows'[g] = rows[g]
       /\ Len(rows'[f]) = n + 1 /\ n \in Nat /\ rows'[f][n + 1] = <<T>>
       /\ \A i \in 1..n : rows'[f][i] = rows[f][i]
  <2>1. rows \in [Files -> Seq(Seq(Tokens))] /\ <<T>> \in Seq(Tokens)
    BY <1>1, <1>4 DEF TypeOK
  <2>2. rows' = [rows EXCEPT ![f] = Append(rows[f], <<T>>)]
    BY <1>1, <1>5
  <2> HIDE DEF T, f
  <2>3. PICK l \in Seq(Tokens) : l = <<T>>
    BY <2>1
  <2>4. /\ rows[f] \in Seq(Seq(Tokens)) /\ Append(rows[f], l) \in Seq(Seq(Tokens)) /\ n \in Nat
        /\ Len(Append(rows[f], l)) = n + 1 /\ Append(rows[f], l)[n + 1] = l
        /\ \A i \in 1..n : Append(rows[f], l)[i] = rows[f][i]
    BY <1>2, <2>1, <2>3
  <2>5. rows'[f] = Append(rows[f], l)
    BY <1>2, <2>1, <2>2, <2>3
  <2> QED BY <1>2, <2>1, <2>2, <2>3, <2>4, <2>5
<1>11. Values(rows'[f][n + 1][1]) = {r0}
  BY <1>4, <1>10
<1> HIDE DEF T, n
<1>12. \A g \in Files, r \in RowIds : Has(rows'[g], r) <=> Has(rows[g], r) \/ (g = f /\ r = r0)
  <2>1. \A g \in Files \ {f}, r \in RowIds : Has(rows'[g], r) <=> Has(rows[g], r)
    BY <1>10
  <2>2. \A r \in RowIds : Has(rows'[f], r) <=> Has(rows[f], r) \/ r = r0
    <3>1. 1..(n + 1) = (1..n) \cup {n + 1}
      BY <1>10
    <3> QED BY <1>10, <1>11, <3>1 DEF Has, n
  <2> QED BY <2>1, <2>2
<1>13. WrapsOK' /\ BuffersLeftClean'
  <2>1. \A r \in RowIds : Has(rows'[f], r) /\ r[1] = t => Before(r, v)
    BY <1>1, <1>2, <1>6, <1>12, TopOK
  <2>2. \A g \in Files, r \in RowIds : Has(rows'[g], r) => Has(rows[g], r) \/ (g = f /\ r[1] = t)
    BY <1>9, <1>12
  <2> QED BY <1>1, <1>6, <1>7, <2>1, <2>2, TopWraps
<1>14. /\ mutex' \in [Files -> Threads \cup {NoThread}] /\ mutex'[f] = NoThread
       /\ line' \in [Files -> Seq(Tokens)] /\ line'[f] = <<>>
       /\ \A g \in Files \ {f} : mutex'[g] = mutex[g] /\ line'[g] = line[g]
  <2>1. mutex \in [Files -> Threads \cup {NoThread}] /\ line \in [Files -> Seq(Tokens)]
        /\ <<>> \in Seq(Tokens)
    BY <1>1 DEF TypeOK
  <2> QED BY <1>1, <1>2, <2>1
<1>15. TypeOK'
  BY <1>1, <1>7, <1>8, <1>10, <1>14 DEF TypeOK, TokensAt
<1>16. NoFileNoTokens'
  <2>1. \A g \in Files \ initialized : \A u \in Threads : tokens'[g][u] = NoTokens
    BY <1>3, <1>7 DEF IInv, NoFileNoTokens, TokensAt
  <2> QED BY <1>1, <2>1 DEF IInv, NoFileNoTokens
<1>17. LinesOK'
  <2>1. \A g \in Files : mutex'[g] = NoThread => line'[g] = <<>>
    BY <1>14 DEF IInv, LinesOK
  <2>2. ASSUME NEW u \in Threads, Alive(u)', Top(u)'.phase = "newline"
        PROVE  mutex'[TopFile(u)'] = u /\ line'[TopFile(u)'] = <<tokens'[TopFile(u)'][u]>>
    <3>1. u # t
      BY <1>6, <1>8, <2>2
    <3>2. Alive(u) /\ Top(u)' = Top(u) /\ TopFile(u)' = TopFile(u)
      BY <1>8, <2>2, <3>1 DEF Alive, Top, TopFile
    <3>3. mutex[TopFile(u)] = u /\ line[TopFile(u)] = <<tokens[TopFile(u)][u]>> /\ TopFile(u) \in Files
      BY <1>1, <2>2, <3>2, TopFacts DEF IInv, LinesOK
    <3>4. TopFile(u) # f
      BY <1>5, <3>1, <3>3
    <3>5. tokens'[TopFile(u)][u] = tokens[TopFile(u)][u]
      BY <1>7, <3>1, <3>3 DEF TokensAt
    <3> QED BY <1>14, <3>2, <3>3, <3>4, <3>5
  <2> QED BY <2>1, <2>2 DEF LinesOK
<1>18. RowsOK'
  <2> SUFFICES ASSUME NEW g \in Files, NEW i \in 1..Len(rows'[g])
               PROVE  \E r \in RowIds, kind \in AllKinds :
                          /\ FileOf(kind) = g /\ <<g, r>> \in due' /\ r[2] <= asked'[r[1]]
                          /\ (r[3] > 0 => kind \in {"batch", "layer", "presplit"})
                          /\ rows'[g][i] = <<Filled(r, FullFields(kind, r[3]))>>
    BY DEF RowsOK
  <2>1. CASE g # f \/ i # n + 1
    <3>1. i \in 1..Len(rows[g]) /\ rows'[g][i] = rows[g][i]
      BY <1>10, <2>1 DEF n
    <3> QED BY <1>1, <3>1 DEF IInv, RowsOK
  <2>2. CASE g = f /\ i = n + 1
    <3>1. rows'[g][i] = <<Filled(r0, FullFields(w.kind, r0[3]))>>
      BY <1>4, <1>9, <1>10, <2>2
    <3>2. FileOf(w.kind) = g
      BY <2>2 DEF TopFile
    <3>3. <<f, r0>> \in due
      <4>1. Pending(t, f, r0)
        BY <1>1 DEF Pending
      <4> QED BY <1>2, <1>3, <4>1 DEF IInv, DueOK
    <3>4. r0[2] <= asked[r0[1]]
      BY <1>1, <1>9, TopOK
    <3> QED BY <1>1, <1>2, <1>4, <1>9, <2>2, <3>1, <3>2, <3>3, <3>4
  <2> QED BY <2>1, <2>2
<1>19. RowsInOrder'
  <2> SUFFICES ASSUME NEW g \in Files, NEW i \in 1..Len(rows'[g]), NEW j \in 1..Len(rows'[g]), i < j,
                      NEW r \in Values(rows'[g][i][1]), NEW s \in Values(rows'[g][j][1]), r[1] = s[1]
               PROVE  Earlier(r, s)
    BY DEF RowsInOrder
  <2>1. CASE g # f \/ j # n + 1
    <3>1. /\ i \in 1..Len(rows[g]) /\ rows'[g][i] = rows[g][i]
          /\ j \in 1..Len(rows[g]) /\ rows'[g][j] = rows[g][j]
      <4>1. CASE g # f
        BY <1>10, <4>1
      <4>2. CASE g = f
        <5>1. i \in 1..(n + 1) /\ j \in 1..(n + 1)
          BY <1>10, <4>2
        <5>2. i \in 1..n /\ j \in 1..n
          BY <1>10, <2>1, <4>2, <5>1
        <5> QED BY <1>10, <4>2, <5>2 DEF n
      <4> QED BY <4>1, <4>2
    <3> QED BY <3>1 DEF IInv, RowsInOrder
  <2>2. CASE g = f /\ j = n + 1
    <3>1. i \in 1..n /\ rows'[f][i] = rows[f][i] /\ s = r0
      BY <1>10, <1>11, <2>2
    <3>2. r \in RowIds /\ Has(rows[f], r)
      <4>1. \E x \in RowIds : Values(rows[f][i][1]) = {x}
        BY <1>2, <3>1, LineFacts DEF n
      <4> QED BY <2>2, <3>1, <4>1 DEF Has, n
    <3>3. Before(r, w)
      BY <1>1, <1>9, <3>1, <3>2, TopOK
    <3> QED BY <1>1, <1>9, <3>1, <3>3 DEF Before, Earlier
  <2> QED BY <2>1, <2>2
<1>20. DueOK'
  <2>1. \A u \in Threads \ {t} : \A g, r : Pending(u, g, r)' <=> Pending(u, g, r)
    BY <1>8 DEF Pending, Alive, TopFile, RowId, Top
  <2>2. \A g, r : ~Pending(t, g, r)'
    BY <1>6, <1>8 DEF Pending
  <2>3. \A g, r : Pending(t, g, r) => g = f /\ r = r0
    BY DEF Pending
  <2>4. ASSUME NEW g \in Files, NEW r \in RowIds, <<g, r>> \in due'
        PROVE  Has(rows'[g], r) \/ \E u \in Threads : Pending(u, g, r)'
    BY <1>1, <1>12, <2>1, <2>3, <2>4 DEF IInv, DueOK
  <2>5. \A u \in Threads, g \in Files, r \in RowIds : Pending(u, g, r)' /\ g \in initialized' => <<g, r>> \in due'
    BY <1>1, <2>1, <2>2 DEF IInv, DueOK
  <2> QED BY <2>4, <2>5 DEF DueOK
<1> QED BY <1>13, <1>15, <1>16, <1>17, <1>18, <1>19, <1>20 DEF IInv

(* A query starts, alone or inside another one, with a clean buffer. *)
LEMMA CallStep ==
    ASSUME IInv, NEW t \in Threads, NEW kind \in AllKinds, Call(t, kind)
    PROVE  IInv'
<1> DEFINE v == [kind |-> kind, id |-> asked[t] + 1, phase |-> FirstPhase(kind), next |-> "done",
                 row |-> IF kind = "batch" THEN 1 ELSE 0, error |-> FALSE,
                 opened |-> kind = "presplit"]
           s == wraps[t]
           n == Len(s)
           f == FileOf(kind)
<1>1. /\ IF Alive(t) THEN Top(t).phase = "work" /\ kind \in Nested(Top(t).kind) ELSE kind \in Kinds
      /\ asked[t] < MaxQueries /\ asked' = [asked EXCEPT ![t] = @ + 1] /\ TypeOK
      /\ wraps' = [wraps EXCEPT ![t] = Append(s, v)]
      /\ UNCHANGED <<initialized, tokens, line, rows, mutex, due>>
  BY DEF Call, IInv
<1>2. /\ s \in Seq(Wrappers) /\ n \in Nat /\ f \in Files /\ asked \in [Threads -> 0..MaxQueries]
      /\ asked[t] \in 0..MaxQueries /\ MaxQueries \in Nat /\ wraps \in [Threads -> Seq(Wrappers)]
  BY <1>1, KindFacts, SerializerAssumption DEF TypeOK
<1>3. /\ v \in Wrappers /\ v.kind = kind /\ v.id = asked[t] + 1 /\ v.phase \in {"rows", "work", "open"}
      /\ v.phase = FirstPhase(kind) /\ v.next = "done" /\ v.row = (IF kind = "batch" THEN 1 ELSE 0)
      /\ v.error = FALSE /\ v.opened = (kind = "presplit")
  <2>1. FirstPhase(kind) \in {"rows", "work", "open"}
    BY KindFacts DEF FirstPhase
  <2>2. asked[t] + 1 \in 1..MaxQueries /\ (IF kind = "batch" THEN 1 ELSE 0) \in 0..ExtraRows
    BY <1>1, <1>2, SerializerAssumption
  <2> QED BY <2>1, <2>2 DEF Wrappers, Phases, AllKinds
<1>4. asked' \in [Threads -> 0..MaxQueries] /\ asked'[t] = asked[t] + 1
      /\ (\A u \in Threads \ {t} : asked'[u] = asked[u])
  BY <1>1, <1>2
<1> HIDE DEF v
<1>5. /\ Append(s, v) \in Seq(Wrappers) /\ Len(Append(s, v)) = n + 1 /\ Append(s, v)[n + 1] = v
      /\ \A i \in 1..n : Append(s, v)[i] = s[i]
  BY <1>2, <1>3
<1>6. /\ wraps' \in [Threads -> Seq(Wrappers)]
      /\ \A u \in Threads \ {t} : wraps'[u] = wraps[u]
      /\ Len(wraps'[t]) = n + 1 /\ wraps'[t][n + 1] = v
      /\ \A i \in 1..n : wraps'[t][i] = s[i]
  <2> HIDE DEF s, n
  <2>1. wraps'[t] = Append(s, v) /\ wraps' \in [Threads -> Seq(Wrappers)]
        /\ (\A u \in Threads \ {t} : wraps'[u] = wraps[u])
    BY <1>1, <1>2, <1>5
  <2> QED BY <1>5, <2>1
<1>7. 1..(n + 1) = (1..n) \cup {n + 1} /\ n + 1 \notin 1..n
  BY <1>2
<1>8. \A i \in 1..n : s[i].phase = "work" /\ Inside(s[i].kind, kind)
  <2>1. CASE ~Alive(t)
    BY <2>1 DEF Alive
  <2>2. CASE Alive(t)
    <3>1. Top(t).phase = "work" /\ kind \in Nested(Top(t).kind) /\ Top(t) = s[n] /\ Top(t).kind \in AllKinds
      BY <1>1, <2>2, TopFacts
    <3>2. Inside(Top(t).kind, kind)
      BY <3>1, KindFacts DEF Nested, Inside
    <3>3. ASSUME NEW i \in 1..n, i # n
          PROVE  s[i].phase = "work" /\ Inside(s[i].kind, kind)
      <4>1. s[i].phase = "work" /\ Inside(s[i].kind, Top(t).kind)
        BY <2>2, <3>3, LowerFiles
      <4> QED BY <3>2, <4>1 DEF Inside
    <3> QED BY <3>1, <3>2, <3>3
  <2> QED BY <2>1, <2>2
<1>9. tokens[f][t] \in {NoTokens, BlankTokens}
  <2>1. \A i \in 1..Len(wraps[t]) : FileOf(wraps[t][i].kind) # f
    BY <1>8, InsideFiles
  <2> QED BY <1>2, <2>1 DEF IInv, BuffersLeftClean, is_write_buffer_clean
<1>10. Alive(t)' /\ Top(t)' = v
  BY <1>2, <1>6 DEF Alive, Top, Last
<1>11. TypeOK' /\ NoFileNoTokens'
  BY <1>1, <1>4, <1>6 DEF IInv, TypeOK, NoFileNoTokens
<1>12. WrapsOK'
  <2> SUFFICES ASSUME NEW u \in Threads
               PROVE  /\ StackOK(wraps'[u])
                      /\ \A i \in 1..Len(wraps'[u]) :
                            LET x == wraps'[u][i]
                                g == FileOf(x.kind)
                            IN  /\ WrapOK(u, x, tokens[g][u], g \in initialized)
                                /\ x.id <= asked'[u]
                                /\ \A r \in RowIds : Has(rows[g], r) /\ r[1] = u => Before(r, x)
    BY <1>1 DEF WrapsOK
  <2>1. CASE u # t
    BY <1>4, <1>6, <2>1 DEF IInv, WrapsOK
  <2>2. CASE u = t
    <3>1. StackOK(s)
      BY DEF IInv, WrapsOK
    <3>2. StackOK(wraps'[t])
      <4> SUFFICES ASSUME NEW i \in 1..Len(wraps'[t]), NEW j \in 1..Len(wraps'[t]), i < j
                   PROVE  wraps'[t][i].phase = "work" /\ Inside(wraps'[t][i].kind, wraps'[t][j].kind)
        BY DEF StackOK
      <4>1. i \in 1..n /\ wraps'[t][i] = s[i]
        BY <1>2, <1>6
      <4>2. CASE j = n + 1
        BY <1>3, <1>6, <1>8, <4>1, <4>2
      <4>3. CASE j # n + 1
        BY <1>2, <1>6, <3>1, <4>1, <4>3 DEF StackOK
      <4> QED BY <4>2, <4>3
    <3>3. ASSUME NEW i \in 1..n
          PROVE  LET x == wraps'[t][i]
                     g == FileOf(x.kind)
                 IN  /\ WrapOK(t, x, tokens[g][t], g \in initialized)
                     /\ x.id <= asked'[t]
                     /\ \A r \in RowIds : Has(rows[g], r) /\ r[1] = t => Before(r, x)
      <4>1. s[i] \in Wrappers /\ wraps'[t][i] = s[i]
        BY <1>2, <1>6
      <4>2. s[i].id \in Nat
        BY <4>1, SerializerAssumption DEF Wrappers
      <4>3. s[i].id <= asked'[t]
        BY <1>2, <1>4, <4>2 DEF IInv, WrapsOK
      <4> QED BY <4>1, <4>3 DEF IInv, WrapsOK
    <3>4. WrapOK(t, v, tokens[f][t], f \in initialized)
      <4>1. /\ (v.phase = "open") <=> (kind \in {"dpu", "layer", "dma", "miss", "shave"})
            /\ (v.phase = "work") <=> (kind = "presplit")
            /\ (v.phase = "rows") <=> (kind = "batch")
        BY <1>3, KindFacts DEF FirstPhase
      <4> QED BY <1>3, <1>9, <4>1 DEF WrapOK
    <3>5. ASSUME NEW r \in RowIds, Has(rows[f], r), r[1] = t PROVE Before(r, v)
      <4>1. PICK i \in 1..Len(rows[f]) : r \in Values(rows[f][i][1])
        BY <3>5 DEF Has
      <4>2. PICK x \in RowIds : x[2] <= asked[x[1]] /\ Values(rows[f][i][1]) = {x}
        <5> HIDE DEF f
        <5> QED BY <1>2, LineRow
      <4>3. r[2] <= asked[t] /\ r[2] \in Nat
        BY <3>5, <4>1, <4>2, RowNotBlank
      <4> QED BY <1>2, <1>3, <4>3 DEF Before
    <3>6. v.id <= asked'[t] /\ FileOf(v.kind) = f
      BY <1>2, <1>3, <1>4
    <3> HIDE DEF f, s, n
    <3> QED BY <1>6, <1>7, <2>2, <3>2, <3>3, <3>4, <3>5, <3>6
  <2> QED BY <2>1, <2>2
<1>13. BuffersLeftClean'
  <2> SUFFICES ASSUME NEW u \in Threads, NEW g \in Files,
                      \A i \in 1..Len(wraps'[u]) : FileOf(wraps'[u][i].kind) # g
               PROVE  tokens[g][u] \in {NoTokens, BlankTokens}
    BY <1>1 DEF BuffersLeftClean, is_write_buffer_clean
  <2>1. \A i \in 1..Len(wraps[u]) : FileOf(wraps[u][i].kind) # g
    BY <1>6, <1>7
  <2> QED BY <2>1 DEF IInv, BuffersLeftClean, is_write_buffer_clean
<1>14. LinesOK'
  <2>1. ASSUME NEW u \in Threads, Alive(u)', Top(u)'.phase = "newline"
        PROVE  mutex'[TopFile(u)'] = u /\ line'[TopFile(u)'] = <<tokens'[TopFile(u)'][u]>>
    <3>1. u # t
      BY <1>3, <1>10, <2>1
    <3>2. Alive(u) /\ Top(u)' = Top(u) /\ TopFile(u)' = TopFile(u)
      BY <1>6, <2>1, <3>1 DEF Alive, Top, TopFile
    <3> QED BY <1>1, <2>1, <3>2 DEF IInv, LinesOK
  <2> QED BY <1>1, <2>1 DEF IInv, LinesOK
<1>15. RowsOK'
  <2>1. \A r \in RowIds : r[2] <= asked[r[1]] => r[2] <= asked'[r[1]]
    <3> SUFFICES ASSUME NEW r \in RowIds, r[2] <= asked[r[1]] PROVE r[2] <= asked'[r[1]]
      OBVIOUS
    <3>1. r[1] \in Threads /\ r[2] \in Nat /\ asked[r[1]] \in Nat
      BY <1>2, RowNotBlank
    <3>2. CASE r[1] = t
      BY <1>4, <3>1, <3>2
    <3>3. CASE r[1] # t
      BY <1>4, <3>1, <3>3
    <3> QED BY <3>2, <3>3
  <2> QED BY <1>1, <2>1 DEF IInv, RowsOK
<1>16. RowsInOrder'
  BY <1>1 DEF IInv, RowsInOrder
<1>17. DueOK'
  <2>1. \A u \in Threads \ {t} : \A g, r : Pending(u, g, r)' <=> Pending(u, g, r)
    BY <1>6 DEF Pending, Alive, TopFile, RowId, Top
  <2>2. \A g, r : ~Pending(t, g, r)' /\ ~Pending(t, g, r)
    BY <1>1, <1>3, <1>10 DEF Pending
  <2>3. \A u \in Threads : \A g, r : Pending(u, g, r)' <=> Pending(u, g, r)
    BY <2>1, <2>2
  <2> QED BY <1>1, <2>3 DEF IInv, DueOK
<1> QED BY <1>11, <1>12, <1>13, <1>14, <1>15, <1>16, <1>17 DEF IInv

(* The destructor cleans the buffer of the query that ends. *)
LEMMA DestroyStep ==
    ASSUME IInv, NEW t \in Threads, Destroy(t)
    PROVE  IInv'
<1> DEFINE f == TopFile(t)
           s == wraps[t]
           n == Len(s)
           T2 == IF tokens[f][t] = NoTokens THEN NoTokens ELSE BlankTokens
<1>1. /\ Alive(t) /\ Top(t).phase = "done" /\ TypeOK
      /\ tokens' = cleaned(f, t) /\ wraps' = [wraps EXCEPT ![t] = Front(s)]
      /\ UNCHANGED <<initialized, line, rows, mutex, asked, due>>
  BY DEF Destroy, IInv
<1>2. /\ s \in Seq(Wrappers) /\ n \in Nat /\ n > 0 /\ f \in Files /\ Top(t) = s[n]
      /\ wraps \in [Threads -> Seq(Wrappers)]
  BY <1>1, TopFacts DEF TypeOK
<1>3. /\ wraps' \in [Threads -> Seq(Wrappers)]
      /\ \A u \in Threads \ {t} : wraps'[u] = wraps[u]
      /\ Len(wraps'[t]) = n - 1 /\ \A i \in 1..(n - 1) : wraps'[t][i] = s[i]
  <2>1. Front(s) \in Seq(Wrappers) /\ Len(Front(s)) = n - 1 /\ \A i \in 1..(n - 1) : Front(s)[i] = s[i]
    BY <1>2, FrontFacts
  <2> HIDE DEF s, n
  <2>2. wraps'[t] = Front(s) /\ wraps' \in [Threads -> Seq(Wrappers)]
        /\ (\A u \in Threads \ {t} : wraps'[u] = wraps[u])
    BY <1>1, <1>2, <2>1
  <2> QED BY <2>1, <2>2
<1>4. TokensAt(f, t, T2)
  BY <1>1, <1>2, Cleaned
<1>5. \A g \in Files, u \in Threads : tokens'[g][u] = IF g = f /\ u = t THEN T2 ELSE tokens[g][u]
  BY <1>4 DEF TokensAt
<1>6. \A i \in 1..(n - 1) : i \in 1..n /\ i # n
  BY <1>2
<1>7. TypeOK' /\ NoFileNoTokens'
  <2>1. TypeOK'
    BY <1>1, <1>3, <1>4 DEF TypeOK, TokensAt
  <2>2. \A g \in Files \ initialized : \A u \in Threads : tokens'[g][u] = NoTokens
    BY <1>2, <1>5 DEF IInv, NoFileNoTokens
  <2> QED BY <1>1, <2>1, <2>2 DEF IInv, NoFileNoTokens
<1>8. WrapsOK'
  <2> SUFFICES ASSUME NEW u \in Threads
               PROVE  /\ StackOK(wraps'[u])
                      /\ \A i \in 1..Len(wraps'[u]) :
                            LET x == wraps'[u][i]
                                g == FileOf(x.kind)
                            IN  /\ WrapOK(u, x, tokens'[g][u], g \in initialized)
                                /\ x.id <= asked[u]
                                /\ \A r \in RowIds : Has(rows[g], r) /\ r[1] = u => Before(r, x)
    BY <1>1 DEF WrapsOK
  <2>1. CASE u # t
    <3>1. \A i \in 1..Len(wraps[u]) : FileOf(wraps[u][i].kind) \in Files
      BY <1>1, WrapperFile
    <3>2. \A g \in Files : tokens'[g][u] = tokens[g][u]
      BY <1>5, <2>1
    <3> QED BY <1>3, <2>1, <3>1, <3>2 DEF IInv, WrapsOK
  <2>2. CASE u = t
    <3>1. StackOK(wraps'[t])
      <4>1. StackOK(s)
        BY DEF IInv, WrapsOK
      <4> QED BY <1>3, <1>6, <4>1 DEF StackOK
    <3>2. ASSUME NEW i \in 1..(n - 1)
          PROVE  LET x == wraps'[t][i]
                     g == FileOf(x.kind)
                 IN  /\ WrapOK(t, x, tokens'[g][t], g \in initialized)
                     /\ x.id <= asked[t]
                     /\ \A r \in RowIds : Has(rows[g], r) /\ r[1] = t => Before(r, x)
      <4>1. i \in 1..Len(wraps[t]) /\ i # Len(wraps[t]) /\ wraps'[t][i] = wraps[t][i]
        BY <1>3, <1>6
      <4>2. FileOf(wraps[t][i].kind) # f /\ FileOf(wraps[t][i].kind) \in Files
        BY <1>1, <4>1, LowerFiles, WrapperFile
      <4>3. tokens'[FileOf(wraps[t][i].kind)][t] = tokens[FileOf(wraps[t][i].kind)][t]
        BY <1>5, <4>2
      <4> QED BY <4>1, <4>3 DEF IInv, WrapsOK
    <3> HIDE DEF n
    <3> QED BY <1>3, <2>2, <3>1, <3>2
  <2> QED BY <2>1, <2>2
<1>9. BuffersLeftClean'
  <2> SUFFICES ASSUME NEW u \in Threads, NEW g \in Files,
                      \A i \in 1..Len(wraps'[u]) : FileOf(wraps'[u][i].kind) # g
               PROVE  tokens'[g][u] \in {NoTokens, BlankTokens}
    BY DEF BuffersLeftClean, is_write_buffer_clean
  <2>1. CASE u = t /\ g = f
    BY <1>5, <2>1
  <2>2. CASE u = t /\ g # f
    <3>1. \A i \in 1..Len(wraps[t]) : FileOf(wraps[t][i].kind) # g
      <4>1. ASSUME NEW i \in 1..n PROVE FileOf(wraps[t][i].kind) # g
        <5>1. CASE i = n
          BY <1>2, <2>2, <5>1 DEF TopFile
        <5>2. CASE i # n
          <6>1. i \in 1..(n - 1)
            BY <1>2, <5>2
          <6>2. wraps'[t][i] = wraps[t][i] /\ i \in 1..Len(wraps'[t])
            BY <1>3, <6>1
          <6> QED BY <2>2, <6>2
        <5> QED BY <5>1, <5>2
      <4> QED BY <4>1
    <3> QED BY <1>5, <2>2, <3>1 DEF IInv, BuffersLeftClean, is_write_buffer_clean
  <2>3. CASE u # t
    BY <1>3, <1>5, <2>3 DEF IInv, BuffersLeftClean, is_write_buffer_clean
  <2> QED BY <2>1, <2>2, <2>3
<1>10. Alive(t)' => Top(t)'.phase = "work"
  <2> SUFFICES ASSUME Alive(t)' PROVE Top(t)'.phase = "work"
    OBVIOUS
  <2>1. wraps'[t] # <<>> /\ wraps'[t] \in Seq(Wrappers)
    BY <1>3 DEF Alive
  <2>2. n - 1 \in 1..(n - 1)
    BY <1>2, <1>3, <2>1
  <2>3. Top(t)' = s[n - 1]
    BY <1>3, <2>2 DEF Top, Last
  <2> QED BY <1>1, <1>6, <2>2, <2>3, LowerFiles
<1>11. LinesOK'
  <2>1. ASSUME NEW u \in Threads, Alive(u)', Top(u)'.phase = "newline"
        PROVE  mutex'[TopFile(u)'] = u /\ line'[TopFile(u)'] = <<tokens'[TopFile(u)'][u]>>
    <3>1. u # t
      BY <1>10, <2>1
    <3>2. Alive(u) /\ Top(u)' = Top(u) /\ TopFile(u)' = TopFile(u)
      BY <1>3, <2>1, <3>1 DEF Alive, Top, TopFile
    <3>3. TopFile(u) \in Files
      BY <1>1, <3>2, TopFacts
    <3>4. tokens'[TopFile(u)][u] = tokens[TopFile(u)][u]
      BY <1>5, <3>1, <3>3
    <3> QED BY <1>1, <2>1, <3>2, <3>4 DEF IInv, LinesOK
  <2> QED BY <1>1, <2>1 DEF IInv, LinesOK
<1>12. RowsOK' /\ RowsInOrder'
  <2>1. RowsOK'
    BY <1>1 DEF IInv, RowsOK
  <2>2. RowsInOrder'
    BY <1>1 DEF IInv, RowsInOrder
  <2> QED BY <2>1, <2>2
<1>13. DueOK'
  <2>1. \A u \in Threads \ {t} : \A g, r : Pending(u, g, r)' <=> Pending(u, g, r)
    BY <1>3 DEF Pending, Alive, TopFile, RowId, Top
  <2>2. \A g, r : ~Pending(t, g, r)' /\ ~Pending(t, g, r)
    BY <1>1, <1>10 DEF Pending
  <2>3. \A u \in Threads : \A g, r : Pending(u, g, r)' <=> Pending(u, g, r)
    BY <2>1, <2>2
  <2> QED BY <1>1, <2>3 DEF IInv, DueOK
<1> QED BY <1>7, <1>8, <1>9, <1>11, <1>12, <1>13 DEF IInv

-----------------------------------------------------------------------------
(* The log starts empty. *)
LEMMA InitIInv ==
    ASSUME Init
    PROVE  IInv
<1>1. PICK c \in Threads \cup {NoThread} :
          tokens = [f \in Files |-> [t \in Threads |->
                       IF t = c /\ f \in initialized THEN BlankTokens ELSE NoTokens]]
  BY DEF Init
<1>2. /\ initialized \subseteq Files /\ line = [f \in Files |-> <<>>]
      /\ rows = [f \in Files |-> <<>>] /\ mutex = [f \in Files |-> NoThread]
      /\ wraps = [t \in Threads |-> <<>>] /\ asked = [t \in Threads |-> 0] /\ due = {}
  BY DEF Init
<1>3. /\ \A f \in Files : Len(rows[f]) = 0
      /\ \A t \in Threads : Len(wraps[t]) = 0 /\ ~Alive(t)
      /\ \A f \in Files, t \in Threads : tokens[f][t] \in {NoTokens, BlankTokens}
  BY <1>1, <1>2 DEF Alive
<1>4. TypeOK
  <2>1. tokens \in [Files -> [Threads -> Tokens \cup {NoTokens}]]
    <3> HIDE DEF BlankTokens, NoTokens, Tokens
    <3> QED BY <1>1, BlankTyped
  <2> QED BY <1>2, <2>1, SerializerAssumption DEF TypeOK
<1>5. NoFileNoTokens
  BY <1>1, <1>2 DEF NoFileNoTokens
<1>6. WrapsOK
  BY <1>3 DEF WrapsOK, StackOK
<1>7. BuffersLeftClean
  BY <1>3 DEF BuffersLeftClean, is_write_buffer_clean
<1>8. LinesOK
  BY <1>2, <1>3 DEF LinesOK
<1>9. RowsOK /\ RowsInOrder
  BY <1>3 DEF RowsOK, RowsInOrder
<1>10. DueOK
  BY <1>2, <1>3 DEF DueOK, Pending
<1> QED BY <1>4, <1>5, <1>6, <1>7, <1>8, <1>9, <1>10 DEF IInv

(* Every step of every thread keeps the invariant. *)
LEMMA NextIInv ==
    ASSUME IInv, [Next]_vars
    PROVE  IInv'
<1>1. ASSUME NEW t \in Threads, Step(t) PROVE IInv'
  <2>1. CASE OpenLine(t)
    BY <2>1, OpenLineStep
  <2>2. CASE CloseLine(t)
    BY <2>2, CloseLineStep
  <2>3. CASE NextRow(t)
    BY <2>3, NextRowStep
  <2>4. CASE EndWrite(t)
    BY <2>4, EndWriteStep
  <2>5. CASE EndNewline(t)
    BY <2>5, EndNewlineStep
  <2>6. CASE Throw(t)
    BY <2>6, ThrowStep
  <2>7. CASE Destroy(t)
    BY <2>7, DestroyStep
  <2> QED BY <1>1, <2>1, <2>2, <2>3, <2>4, <2>5, <2>6, <2>7 DEF Step
<1>2. ASSUME NEW t \in Threads, NEW kind \in AllKinds, Call(t, kind) PROVE IInv'
  BY <1>2, CallStep
<1>3. CASE UNCHANGED vars
  <2>1. UNCHANGED <<initialized, tokens, line, rows, mutex, wraps, asked, due>>
    BY <1>3 DEF vars
  <2>2. TypeOK' /\ NoFileNoTokens' /\ WrapsOK' /\ BuffersLeftClean'
    BY <2>1 DEF IInv, TypeOK, NoFileNoTokens, WrapsOK, BuffersLeftClean, is_write_buffer_clean
  <2>3. LinesOK' /\ RowsOK' /\ RowsInOrder'
    <3>1. LinesOK'
      BY <2>1 DEF IInv, LinesOK, Alive, Top, TopFile
    <3>2. RowsOK'
      BY <2>1 DEF IInv, RowsOK
    <3>3. RowsInOrder'
      BY <2>1 DEF IInv, RowsInOrder
    <3> QED BY <3>1, <3>2, <3>3
  <2>4. DueOK'
    BY <2>1 DEF IInv, DueOK, Pending, Alive, Top, TopFile, RowId
  <2> QED BY <2>2, <2>3, <2>4 DEF IInv
<1> QED BY <1>1, <1>2, <1>3 DEF Next, AllKinds

(* The log keeps its inductive invariant. *)
THEOREM Invariance == Spec => []IInv
<1>1. Init => IInv
  BY InitIInv
<1>2. IInv /\ [Next]_vars => IInv'
  BY NextIInv
<1> QED BY <1>1, <1>2, PTL DEF Spec

(* Buffers, lines and wrappers keep their types: no state of the log makes *)
(* serialize(), end() or a destructor of a wrapper leave them.             *)
THEOREM TypeCorrect == Spec => []TypeOK
<1>1. IInv => TypeOK
  BY DEF IInv
<1> QED BY <1>1, Invariance, PTL

(* Nothing that an open query, an error or an unwound stack has put in the *)
(* thread's buffer of serializer.h outlives the wrapper.                   *)
THEOREM NothingIsLeftBehind == Spec => []BuffersLeftClean
<1>1. IInv => BuffersLeftClean
  BY DEF IInv
<1> QED BY <1>1, Invariance, PTL

(* The rows of a thread are in the file in the order of its queries, even  *)
(* though nested queries of other files and other threads interleave.      *)
THEOREM RowsKeepOrder == Spec => []RowsInOrder
<1>1. IInv => RowsInOrder
  BY DEF IInv
<1> QED BY <1>1, Invariance, PTL

(* Every line that end() wrote is one row, with the fields of one query.   *)
THEOREM RowsAreWhole == Spec => []RowsWhole
<1>1. ASSUME IInv PROVE RowsWhole
  <2> SUFFICES ASSUME NEW l \in Lines
               PROVE  Len(l) = 1 /\ Cardinality(Values(l[1])) = 1
    BY DEF RowsWhole
  <2>0. PICK f \in Files : \E i \in 1..Len(rows[f]) : l = rows[f][i]
    BY DEF Lines
  <2>1. PICK i \in 1..Len(rows[f]) : l = rows[f][i]
    BY <2>0
  <2>2. PICK r \in RowIds, kind \in AllKinds :
            /\ FileOf(kind) = f /\ <<f, r>> \in due /\ r[2] <= asked[r[1]]
            /\ (r[3] > 0 => kind \in {"batch", "layer", "presplit"})
            /\ rows[f][i] = <<Filled(r, FullFields(kind, r[3]))>>
            /\ Len(rows[f][i]) = 1 /\ Values(rows[f][i][1]) = {r}
    BY <1>1, LineFacts, Zenon
  <2>3. Cardinality({r}) = 1
    BY FS_Singleton
  <2> QED BY <2>1, <2>2, <2>3
<1>2. IInv => RowsWhole
  BY <1>1
<1> QED BY <1>2, Invariance, PTL

(* No row was flushed before its query knew the cycles, though queries     *)
(* nested in it flush theirs meanwhile.                                    *)
THEOREM RowsHaveCycles == Spec => []RowsComplete
<1>1. ASSUME IInv PROVE RowsComplete
  <2> SUFFICES ASSUME NEW f \in Files \ {"cache_misses"}, NEW i \in 1..Len(rows[f]),
                      f # "l1_dpu_workloads" \/ rows[f][i][1]["info"] # Blank
               PROVE  rows[f][i][1]["cycles"] # Blank
    BY DEF RowsComplete
  <2>1. PICK r \in RowIds, kind \in AllKinds :
            /\ FileOf(kind) = f /\ <<f, r>> \in due /\ r[2] <= asked[r[1]]
            /\ (r[3] > 0 => kind \in {"batch", "layer", "presplit"})
            /\ rows[f][i] = <<Filled(r, FullFields(kind, r[3]))>>
            /\ Len(rows[f][i]) = 1 /\ Values(rows[f][i][1]) = {r}
    BY <1>1, LineFacts, Zenon
  <2>2. \A c \in Columns : rows[f][i][1][c] # Blank <=> c \in FullFields(kind, r[3])
    BY <2>1, RowNotBlank DEF Filled
  <2>3. kind \in {"dpu", "batch", "layer", "presplit", "dma", "shave", "miss"}
    BY KindFacts
  <2>4. kind # "miss"
    BY <2>1 DEF FileOf
  <2>5. kind = "batch" => "info" \in FullFields(kind, r[3])
    BY <2>1, <2>2 DEF FileOf, Columns
  <2>6. kind # "batch"
    BY <2>5 DEF FullFields, RowFields
  <2>7. "cycles" \in FullFields(kind, r[3])
    <3>1. CASE r[3] > 0
      BY <2>6, <3>1 DEF FullFields, RowFields
    <3>2. CASE ~(r[3] > 0)
      BY <2>3, <2>4, <2>6, <3>2 DEF FullFields, OpenFields, CloseFields
    <3> QED BY <3>1, <3>2
  <2> QED BY <2>2, <2>7 DEF Columns
<1>2. IInv => RowsComplete
  BY <1>1
<1> QED BY <1>2, Invariance, PTL

(* When the queries of a file are over it has the rows that are due, each  *)
(* once, and no others: nothing is lost, doubled or partial whatever threw *)
(* or was unwound on the way.                                              *)
THEOREM RowsExactlyOnce == Spec => []ExactlyOnce
<1>1. ASSUME IInv PROVE ExactlyOnce
  <2> SUFFICES ASSUME NEW f \in Files,
                      \A t \in Threads : \A i \in 1..Len(wraps[t]) : FileOf(wraps[t][i].kind) # f
               PROVE  LET ids == {r \in RowIds : <<f, r>> \in due}
                      IN  /\ Len(rows[f]) = Cardinality(ids)
                          /\ \A r \in ids : \E i \in 1..Len(rows[f]) : r \in Values(rows[f][i][1])
    BY DEF ExactlyOnce
  <2> DEFINE ids == {r \in RowIds : <<f, r>> \in due}
             n   == Len(rows[f])
             at(i) == CHOOSE r \in RowIds : Values(rows[f][i][1]) = {r}
             Row == [i \in 1..n |-> at(i)]
  <2>1. n \in Nat /\ TypeOK
    BY <1>1 DEF IInv, TypeOK
  <2>2. ASSUME NEW i \in 1..n
        PROVE  Row[i] \in ids /\ Values(rows[f][i][1]) = {Row[i]}
    <3>1. PICK r \in RowIds, kind \in AllKinds :
              /\ FileOf(kind) = f /\ <<f, r>> \in due /\ r[2] <= asked[r[1]]
              /\ (r[3] > 0 => kind \in {"batch", "layer", "presplit"})
              /\ rows[f][i] = <<Filled(r, FullFields(kind, r[3]))>>
              /\ Len(rows[f][i]) = 1 /\ Values(rows[f][i][1]) = {r}
      BY <1>1, LineFacts, Zenon
    <3>2. at(i) \in RowIds /\ Values(rows[f][i][1]) = {at(i)}
      BY <3>1
    <3>3. at(i) = r
      BY <3>1, <3>2
    <3>4. Row[i] = at(i)
      OBVIOUS
    <3> HIDE DEF at, Row
    <3> QED BY <3>1, <3>3, <3>4
  <2>3. ASSUME NEW r \in ids PROVE \E i \in 1..n : r \in Values(rows[f][i][1])
    <3>1. \A t \in Threads : ~Pending(t, f, r)
      BY <2>1, TopFacts DEF Pending, TopFile
    <3> QED BY <1>1, <3>1 DEF IInv, DueOK, Has
  <2>4. ASSUME NEW i \in 1..n, NEW j \in 1..n, i < j PROVE Row[i] # Row[j]
    <3>1. Row[i] \in Values(rows[f][i][1]) /\ Row[j] \in Values(rows[f][j][1])
      BY <2>2
    <3>2. Row[i][1] = Row[j][1] => Earlier(Row[i], Row[j])
      BY <1>1, <2>4, <3>1 DEF IInv, RowsInOrder
    <3>3. Row[i][2] \in Nat /\ Row[i][3] \in Nat
      <4>1. Row[i] \in RowIds
        BY <2>2
      <4> HIDE DEF Row, n
      <4> QED BY <4>1, RowNotBlank, SerializerAssumption
    <3> HIDE DEF Row
    <3> QED BY <3>2, <3>3 DEF Earlier
  <2>5. Row \in Bijection(1..n, ids)
    <3>1. Row \in [1..n -> ids]
      BY <2>2
    <3>2. ASSUME NEW i \in 1..n, NEW j \in 1..n, Row[i] = Row[j] PROVE i = j
      <4>1. i \in Nat /\ j \in Nat
        BY <2>1
      <4>2. ~(i < j) /\ ~(j < i)
        <5> HIDE DEF Row, n
        <5> QED BY <2>4, <3>2
      <4> QED BY <4>1, <4>2
    <3>3. ASSUME NEW r \in ids PROVE \E i \in 1..n : Row[i] = r
      BY <2>2, <2>3
    <3> HIDE DEF Row, ids, n
    <3> QED BY <3>1, <3>2, <3>3, Fun_IsBij
  <2>6. Cardinality(ids) = Cardinality(1..n)
    <3>1. ExistsBijection(1..n, ids)
      BY <2>5 DEF ExistsBijection
    <3> HIDE DEF ids, n
    <3> QED BY <2>1, <3>1, FS_Interval, FS_Bijection
  <2>7. Cardinality(1..n) = n
    <3> HIDE DEF n
    <3> QED BY <2>1, FS_Interval
  <2> QED BY <2>3, <2>6, <2>7
<1>2. IInv => ExactlyOnce
  BY <1>1
<1> QED BY <1>2, Invariance, PTL
=============================================================================
