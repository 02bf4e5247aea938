----------------------------- MODULE Serializer -----------------------------
(***************************************************************************)
(* The CSV log of the queries: Serializer<CSV> of include/core/serializer.h *)
(* and the wrappers of include/vpu/serialization that write a row per      *)
(* query.  A row is collected in a buffer of the calling thread, over      *)
(* several calls and while nested queries of the same thread log their own *)
(* rows, and goes to the file under file_mutex.                            *)
(*                                                                         *)
(* A token is abstracted to the row it was written for: <<thread, number   *)
(* of the query, number of the row in the query>>.                         *)
(***************************************************************************)
EXTENDS Naturals, Sequences, FiniteSets, SequencesExt

CONSTANTS
    Threads,
    Files,        \* the serializers of one cost model
    Kinds,        \* the queries that callers make
    MaxQueries,   \* bound on the queries of a thread, nested ones included
    ExtraRows,    \* rows of a batch, or split rows of a layer
    NoThread

ASSUME SerializerAssumption ==
    /\ Kinds \subseteq {"dpu", "batch", "layer", "presplit", "dma", "shave"}
    /\ MaxQueries \in Nat /\ ExtraRows \in Nat \ {0} /\ NoThread \notin Threads

VARIABLES
    initialized,  \* the files whose initialize() ran
    tokens,   \* file -> thread -> write tokens; the empty record: none in the map yet
    line,     \* file -> what was written since the last newline
    rows,     \* file -> the complete lines after the header
    mutex,    \* file -> holder of file_mutex
    wraps,    \* thread -> stack of live serialization wrappers
    asked,    \* thread -> number of its queries so far
    due       \* ghost: the rows that must be written, as <<file, row>>

vars == <<initialized, tokens, line, rows, mutex, wraps, asked, due>>

(* The columns, grouped: workload, uids, info, cycles, provider, level. *)
Columns == {"wl", "uid", "info", "cycles", "source", "level"}

Blank == <<>>

BlankTokens == [c \in Columns |-> Blank]

NoTokens == [c \in {} |-> Blank]

RowIds == Threads \X (1..MaxQueries) \X (0..ExtraRows)

Tokens == [Columns -> RowIds \cup {Blank}]

Phases == {"open", "work", "close", "rows", "flush", "newline", "done"}

Wrappers == [kind : Kinds \cup {"dpu", "miss"}, id : 1..MaxQueries, phase : Phases, next : Phases,
             row : 0..ExtraRows, error : BOOLEAN,
             opened : BOOLEAN]   \* ghost: there is a row to be completed

TypeOK ==
    /\ initialized \subseteq Files
    /\ tokens \in [Files -> [Threads -> Tokens \cup {NoTokens}]]
    /\ line \in [Files -> Seq(Tokens)]
    /\ rows \in [Files -> Seq(Seq(Tokens))]
    /\ mutex \in [Files -> Threads \cup {NoThread}]
    /\ wraps \in [Threads -> Seq(Wrappers)]
    /\ asked \in [Threads -> 0..MaxQueries]
    /\ due \subseteq Files \X RowIds

-----------------------------------------------------------------------------
(* Which serializer a wrapper is given, and what it writes there. *)

(* Mutant: the misses go to the serializer of the L1 queries. *)
OneL1File(kind) ==
    CASE kind \in {"dpu", "batch", "miss"} -> "l1_dpu_workloads"
      [] kind = "layer" -> "l2_dpu_workloads"
      [] kind = "presplit" -> "l2_dpu_workloads_presplit"
      [] kind = "dma" -> "dma_workloads"
      [] kind = "shave" -> "shave_workloads"

FileOf(kind) ==
    CASE kind \in {"dpu", "batch"} -> "l1_dpu_workloads"
      [] kind = "miss" -> "cache_misses"
      [] kind = "layer" -> "l2_dpu_workloads"
      [] kind = "presplit" -> "l2_dpu_workloads_presplit"
      [] kind = "dma" -> "dma_workloads"
      [] kind = "shave" -> "shave_workloads"

(* A cost model has a serializer for each. *)
ASSUME FilesAssumption == \A kind \in Kinds \cup {"dpu", "miss"} : FileOf(kind) \in Files

OpenFields(kind) ==
    CASE kind \in {"dpu", "miss"} -> {"wl", "uid", "info"}
      [] kind = "layer" -> {"wl", "uid", "info", "level"}
      [] kind = "dma" -> {"wl"}
      [] kind = "shave" -> {"wl", "info", "cycles"}

CloseFields(kind) ==
    CASE kind \in {"dpu", "dma"} -> {"cycles", "source", "info"}
      [] kind = "layer" -> {"cycles"}
      [] kind = "presplit" -> {"cycles", "level", "uid"}

(* The cycles of a batch go to a column named after the model, which is    *)
(* not in the header: the token is dropped.                                *)
RowFields(kind) ==
    IF kind = "batch" THEN {"wl", "uid"} ELSE {"wl", "uid", "info", "level", "cycles"}

FirstPhase(kind) ==
    CASE kind = "batch" -> "rows"
      [] kind = "presplit" -> "work"
      [] kind \in {"dpu", "layer", "dma", "miss", "shave"} -> "open"

(* The queries that may run inside the computation of another one. *)
Nested(kind) ==
    CASE kind \in {"layer", "presplit"} -> {"dpu"}
      [] kind = "dpu" -> {"miss"}
      [] kind \in {"batch", "dma", "miss", "shave"} -> {}

-----------------------------------------------------------------------------
(* Serializer operations of thread t on file f. *)

is_write_buffer_clean(f, t) == tokens[f][t] \in {NoTokens, BlankTokens}

(* Mutant: one buffer for all threads. *)
SharedBuffer(f, t, fields, value) ==
    IF f \notin initialized THEN tokens
    ELSE [tokens EXCEPT ![f] = [u \in Threads |->
             [c \in Columns |-> IF c \in fields THEN value
                                ELSE IF tokens[f][u] = NoTokens THEN Blank ELSE tokens[f][u][c]]]]

(* serialize(): nothing without a file; else the thread's tokens, created  *)
(* if needed, get the fields.                                              *)
serialized(f, t, fields, value) ==
    IF f \notin initialized THEN tokens
    ELSE [tokens EXCEPT ![f][t] =
             [c \in Columns |-> IF c \in fields THEN value
                                ELSE IF @ = NoTokens THEN Blank ELSE @[c]]]

(* clean_buffers(): tokens that exist become blank. *)
cleaned(f, t) ==
    [tokens EXCEPT ![f][t] = IF @ = NoTokens THEN NoTokens ELSE BlankTokens]

-----------------------------------------------------------------------------
(* initialize() is called for every serializer, but for the L1 queries and *)
(* their misses only if a network was loaded.                              *)
Init ==
    /\ initialized \in {Files, Files \ {"l1_dpu_workloads", "cache_misses"}}
    \* initialize() left blank tokens for the constructing thread
    /\ \E c \in Threads \cup {NoThread} :
          tokens = [f \in Files |-> [t \in Threads |->
                       IF t = c /\ f \in initialized THEN BlankTokens ELSE NoTokens]]
    /\ line = [f \in Files |-> <<>>]
    /\ rows = [f \in Files |-> <<>>]
    /\ mutex = [f \in Files |-> NoThread]
    /\ wraps = [t \in Threads |-> <<>>]
    /\ asked = [t \in Threads |-> 0]
    /\ due = {}

Alive(t) == wraps[t] # <<>>

Top(t) == Last(wraps[t])

TopFile(t) == FileOf(Top(t).kind)

RowId(t) == <<t, Top(t).id, Top(t).row>>

SetTop(t, w) == wraps' = [wraps EXCEPT ![t] = Append(Front(@), w)]

(* A query starts and builds its wrapper; a miss needs a network to infer. *)
Call(t, kind) ==
    /\ IF Alive(t) THEN Top(t).phase = "work" /\ kind \in Nested(Top(t).kind) ELSE kind \in Kinds
    /\ kind = "miss" => "cache_misses" \in initialized
    /\ asked[t] < MaxQueries
    /\ asked' = [asked EXCEPT ![t] = @ + 1]
    /\ wraps' = [wraps EXCEPT ![t] = Append(@,
          [kind |-> kind, id |-> asked[t] + 1, phase |-> FirstPhase(kind), next |-> "done",
           row |-> IF kind = "batch" THEN 1 ELSE 0, error |-> FALSE,
           opened |-> kind = "presplit"])]
    /\ UNCHANGED <<initialized, tokens, line, rows, mutex, due>>

(* The row r of file f has to appear in it, if it has a file. *)
Owe(f, r) == due' = due \cup (IF f \in initialized THEN {<<f, r>>} ELSE {})

(* The first fields of the row; a miss and a SHAVE row are complete with   *)
(* them.  A value without a text makes serialize throw: the wrapper cleans *)
(* the buffer and, except for DMA, writes nothing any more.                *)
OpenLine(t) ==
    LET w == Top(t)
        whole == w.kind \in {"miss", "shave"}
    IN  /\ Alive(t) /\ w.phase = "open"
        /\ \/ /\ tokens' = serialized(TopFile(t), t, OpenFields(w.kind), RowId(t))
              /\ SetTop(t, [w EXCEPT !.phase = IF whole THEN "flush" ELSE "work", !.opened = TRUE])
              /\ IF whole THEN Owe(TopFile(t), RowId(t)) ELSE UNCHANGED due
           \/ /\ tokens' = cleaned(TopFile(t), t)
              /\ SetTop(t, [w EXCEPT !.phase = IF whole THEN "done" ELSE "work",
                                     !.error = w.kind # "dma"])
              /\ UNCHANGED due
        /\ UNCHANGED <<initialized, line, rows, mutex, asked>>

(* The cost is known: the row gets its last fields, unless an error was    *)
(* met or (DPU and DMA) there is no row to complete.  A layer that is not  *)
(* valid gets its error code and no split rows.                            *)
CloseLine(t) ==
    LET w == Top(t)
        f == TopFile(t)
        skip == w.error \/ (w.kind \in {"dpu", "dma"} /\ is_write_buffer_clean(f, t))
    IN  /\ Alive(t) /\ w.phase = "work"
        /\ \/ /\ skip
              /\ SetTop(t, [w EXCEPT !.phase = "done"])
              /\ UNCHANGED tokens
           \/ /\ ~skip
              /\ tokens' = serialized(f, t, CloseFields(w.kind), RowId(t))
              /\ \E after \in CASE w.kind = "layer" -> {"rows", "done"}
                               [] w.kind = "presplit" -> {"rows"}
                               [] w.kind \in {"dpu", "dma"} -> {"done"} :
                    SetTop(t, [w EXCEPT !.phase = "flush", !.next = after])
        /\ IF w.opened THEN Owe(f, RowId(t)) ELSE UNCHANGED due
        /\ UNCHANGED <<initialized, line, rows, mutex, asked>>

(* Mutant: the split rows of a layer are counted down. *)
NextRowBackwards(t) ==
    LET w == Top(t)
        f == TopFile(t)
        row == IF w.row = 0 THEN ExtraRows ELSE w.row - 1
    IN  /\ Alive(t) /\ w.phase = "rows"
        /\ tokens' = serialized(f, t, RowFields(w.kind), <<t, w.id, row>>)
        /\ Owe(f, <<t, w.id, row>>)
        /\ SetTop(t, [w EXCEPT !.phase = "flush", !.row = row,
                               !.next = IF row = 1 THEN "done" ELSE "rows"])
        /\ UNCHANGED <<initialized, line, rows, mutex, asked>>

(* The next row of a batch, or of the splits of a layer.  A row that       *)
(* throws is dropped: the batch goes on, the layer does not.               *)
NextRow(t) ==
    LET w == Top(t)
        f == TopFile(t)
        last == w.row = ExtraRows
    IN  /\ Alive(t) /\ w.phase = "rows"
        /\ \/ /\ w.kind # "batch" /\ last
              /\ SetTop(t, [w EXCEPT !.phase = "done"])
              /\ UNCHANGED <<tokens, due>>
           \/ /\ w.kind = "batch" \/ ~last
              /\ LET row == IF w.kind = "batch" THEN w.row ELSE w.row + 1
                 IN  /\ tokens' = serialized(f, t, RowFields(w.kind), <<t, w.id, row>>)
                     /\ Owe(f, <<t, w.id, row>>)
                     /\ SetTop(t, [w EXCEPT !.phase = "flush", !.row = row,
                                            !.next = IF w.kind = "batch" /\ last THEN "done" ELSE "rows"])
           \/ /\ w.kind = "batch" \/ ~last
              /\ tokens' = cleaned(f, t)
              /\ SetTop(t, IF w.kind = "batch" /\ ~last
                           THEN [w EXCEPT !.row = @ + 1, !.error = TRUE]
                           ELSE [w EXCEPT !.phase = "done", !.error = TRUE])
              /\ UNCHANGED due
        /\ UNCHANGED <<initialized, line, rows, mutex, asked>>

(* end() has returned; a batch goes to its next row. *)
Ended(w) ==
    [w EXCEPT !.phase = w.next, !.row = IF w.kind = "batch" /\ w.next = "rows" THEN @ + 1 ELSE @]

(* Mutant: end() writes without taking file_mutex. *)
EndWriteUnlocked(t) ==
    LET w == Top(t)
        f == TopFile(t)
    IN  /\ Alive(t) /\ w.phase = "flush"
        /\ tokens[f][t] # NoTokens
        /\ line' = [line EXCEPT ![f] = Append(@, tokens[f][t])]
        /\ SetTop(t, [w EXCEPT !.phase = "newline"])
        /\ UNCHANGED <<initialized, tokens, rows, mutex, asked, due>>

(* Mutant: file_mutex is taken but never released. *)
EndNewlineKeepsLock(t) ==
    LET w == Top(t)
        f == TopFile(t)
    IN  /\ Alive(t) /\ w.phase = "newline"
        /\ rows' = [rows EXCEPT ![f] = Append(@, line[f])]
        /\ line' = [line EXCEPT ![f] = <<>>]
        /\ tokens' = cleaned(f, t)
        /\ SetTop(t, Ended(w))
        /\ UNCHANGED <<initialized, mutex, asked, due>>

(* end() takes file_mutex, and writes the tokens if the thread has any. *)
EndWrite(t) ==
    LET w == Top(t)
        f == TopFile(t)
    IN  /\ Alive(t) /\ w.phase = "flush"
        /\ mutex[f] = NoThread
        /\ \/ /\ tokens[f][t] = NoTokens
              /\ SetTop(t, Ended(w))
              /\ UNCHANGED <<line, mutex>>
           \/ /\ tokens[f][t] # NoTokens
              /\ mutex' = [mutex EXCEPT ![f] = t]
              /\ line' = [line EXCEPT ![f] = Append(@, tokens[f][t])]
              /\ SetTop(t, [w EXCEPT !.phase = "newline"])
        /\ UNCHANGED <<initialized, tokens, rows, asked, due>>

(* std::endl, then clean_buffers and unlock. *)
EndNewline(t) ==
    LET w == Top(t)
        f == TopFile(t)
    IN  /\ Alive(t) /\ w.phase = "newline"
        /\ rows' = [rows EXCEPT ![f] = Append(@, line[f])]
        /\ line' = [line EXCEPT ![f] = <<>>]
        /\ mutex' = [mutex EXCEPT ![f] = NoThread]
        /\ tokens' = cleaned(f, t)
        /\ SetTop(t, Ended(w))
        /\ UNCHANGED <<initialized, asked, due>>

(* The computation of the cost throws. *)
Throw(t) ==
    /\ Alive(t) /\ Top(t).phase = "work"
    /\ SetTop(t, [Top(t) EXCEPT !.phase = "done"])
    /\ UNCHANGED <<initialized, tokens, line, rows, mutex, asked, due>>

(* Mutant: the destructor leaves the buffer as it is. *)
DestroyOnly(t) ==
    /\ Alive(t) /\ Top(t).phase = "done"
    /\ wraps' = [wraps EXCEPT ![t] = Front(@)]
    /\ UNCHANGED <<initialized, tokens, line, rows, mutex, asked, due>>

(* The wrapper's destructor cleans the buffer of its serializer. *)
Destroy(t) ==
    /\ Alive(t) /\ Top(t).phase = "done"
    /\ tokens' = cleaned(TopFile(t), t)
    /\ wraps' = [wraps EXCEPT ![t] = Front(@)]
    /\ UNCHANGED <<initialized, line, rows, mutex, asked, due>>

Step(t) ==
    \/ OpenLine(t) \/ CloseLine(t) \/ NextRow(t) \/ EndWrite(t) \/ EndNewline(t)
    \/ Throw(t) \/ Destroy(t)

Next == \E t \in Threads : Step(t) \/ \E kind \in Kinds \cup {"dpu", "miss"} : Call(t, kind)

Spec == Init /\ [][Next]_vars

(* file_mutex is held for one row only, and std::recursive_mutex lets one  *)
(* of the waiting threads in: with finitely many queries each gets a turn. *)
FairSpec == Spec /\ \A t \in Threads : WF_vars(Step(t))

-----------------------------------------------------------------------------
Lines == UNION {{rows[f][i] : i \in 1..Len(rows[f])} : f \in Files}

Values(row) == {row[c] : c \in Columns} \ {Blank}

(* No interleaving of threads, nested queries, failures and unwinding puts *)
(* the fields of two rows on one line, or two rows on one line.            *)
RowsWhole == \A l \in Lines : Len(l) = 1 /\ Cardinality(Values(l[1])) = 1

(* Nothing is left in a buffer for the next query of the thread. *)
BuffersLeftClean ==
    \A t \in Threads, f \in Files :
        (\A i \in 1..Len(wraps[t]) : FileOf(wraps[t][i].kind) # f) => is_write_buffer_clean(f, t)

(* Every row that a query completed is in its file exactly once when the   *)
(* query is over, and no other row is: a query that failed or was unwound  *)
(* leaves no partial row.                                                  *)
ExactlyOnce ==
    \A f \in Files :
        (\A t \in Threads : \A i \in 1..Len(wraps[t]) : FileOf(wraps[t][i].kind) # f) =>
            LET ids == {r \in RowIds : <<f, r>> \in due}
            IN  /\ Len(rows[f]) = Cardinality(ids)
                /\ \A r \in ids : \E i \in 1..Len(rows[f]) : r \in Values(rows[f][i][1])

(* A row has the cycles of its workload (a miss has none yet, a batch none *)
(* at all): none was flushed half-filled by a query nested in it.          *)
RowsComplete ==
    \A f \in Files \ {"cache_misses"} : \A i \in 1..Len(rows[f]) :
        f # "l1_dpu_workloads" \/ rows[f][i][1]["info"] # Blank => rows[f][i][1]["cycles"] # Blank

(* The rows of a thread are in the order of its queries, the row of a      *)
(* layer before those of its splits.                                       *)
Earlier(r, s) == r[2] < s[2] \/ (r[2] = s[2] /\ r[3] < s[3])

RowsInOrder ==
    \A f \in Files : \A i, j \in 1..Len(rows[f]) :
        i < j => \A r \in Values(rows[f][i][1]), s \in Values(rows[f][j][1]) :
            r[1] = s[1] => Earlier(r, s)

(* Every wrapper is destroyed: no thread waits forever for file_mutex. *)
WrappersEnd == \A t \in Threads : Alive(t) ~> ~Alive(t)

(* README: the file is "a list of all queried workloads and which cost     *)
(* provider was used for each".                                            *)
RowNamesProvider ==
    \A i \in 1..Len(rows["l1_dpu_workloads"]) :
        rows["l1_dpu_workloads"][i][1]["source"] # Blank
=============================================================================
