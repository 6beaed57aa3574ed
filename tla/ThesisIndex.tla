----------------------------- MODULE ThesisIndex -----------------------------
(***************************************************************************)
(* The thesis index (src/lake/index.py): two tables of one SQLite file,    *)
(* idx_thesis with the vectors and thesis_fts with the texts, joined by    *)
(* rowid, and in each process a matrix of the vectors kept while the       *)
(* file's data_version stands.                                             *)
(*                                                                         *)
(* Several processes have the file open: one lake process that inserts,    *)
(* repairs and searches, tools that insert, servers that search.  Inside a *)
(* process _LOCK runs one operation at a time; between processes nothing   *)
(* holds an operation together but SQLite's transactions.  The connection  *)
(* begins one before an INSERT and not before DDL, so each DROP and CREATE *)
(* is a step of its own, and so is each SELECT of a search.                *)
(*                                                                         *)
(* A leaf stands for thesis_id, text and vector.  A query matches every    *)
(* row of both arms.                                                       *)
(***************************************************************************)
EXTENDS Integers, Sequences, FiniteSets

CONSTANTS
    Procs, Repairers,   (* processes; those that rebuild the index         *)
    Leaves,
    Batches,            (* what index_theses and index_rows may be given   *)
    Snapshots           (* what reconcile may be given: all_theses()       *)

Distinct(s) == \A m, n \in 1..Len(s) : s[m] = s[n] => m = n

ASSUME IndexAssumption ==
    /\ Repairers \subseteq Procs
    /\ Batches \subseteq Seq(Leaves) /\ Snapshots \subseteq Seq(Leaves)
    /\ \A s \in Batches \cup Snapshots : Distinct(s)

VARIABLES
    tables,         (* which of the two tables exist                      *)
    idx,            (* idx_thesis: the leaf of each rowid, 1, 2, ...      *)
    fts,            (* thesis_fts: <<rowid, leaf>>                        *)
    op,             (* the next statement of each process                 *)
    work,           (* the rows an insert or a rebuild still has to write *)
    cache,          (* _MATS: the leaf of each row of the matrix          *)
    cached,         (* whether there is one                               *)
    foreign,        (* another process committed since its version was    *)
    since,          (* read; the same for the version the search read     *)
    counted,        (* the rows of idx_thesis the search counted          *)
    ranked,         (* the rows the search ranked, hits not yet fetched   *)
    calm,           (* history: nobody dropped a table since it began     *)
    spoiled         (* history: a rebuild of this process failed and its  *)
                    (* matrix was kept                                    *)

file == <<tables, idx, fts>>
matrix == <<cache, cached>>
search == <<counted, ranked>>
vars == <<file, op, work, matrix, foreign, since, search, calm, spoiled>>

Tables == {"idx", "fts"}
Statements == {"closed", "open_idx", "open_fts", "idle", "insert",
               "drop_idx", "drop_fts", "create_idx", "create_fts", "fill",
               "count_fts", "version", "load", "match", "fetch"}

RowsOf(s) == {<<n, s[n]>> : n \in 1..Len(s)}
Indexed == {idx[n] : n \in 1..Len(idx)}

TypeOK ==
    /\ tables \subseteq Tables
    /\ idx \in Seq(Leaves) /\ fts \subseteq (Nat \ {0}) \X Leaves
    /\ op \in [Procs -> Statements]
    /\ work \in [Procs -> Seq(Leaves)]
    /\ cache \in [Procs -> Seq(Leaves)] /\ cached \in [Procs -> BOOLEAN]
    /\ foreign \in [Procs -> BOOLEAN] /\ since \in [Procs -> BOOLEAN]
    /\ counted \in [Procs -> Nat]
    /\ ranked \in [Procs -> SUBSET ((Nat \ {0}) \X Leaves)]
    /\ calm \in [Procs -> BOOLEAN] /\ spoiled \in [Procs -> BOOLEAN]

Init ==
    /\ tables = {} /\ idx = <<>> /\ fts = {}
    /\ op = [p \in Procs |-> "closed"] /\ work = [p \in Procs |-> <<>>]
    /\ cache = [p \in Procs |-> <<>>] /\ cached = [p \in Procs |-> FALSE]
    /\ foreign = [p \in Procs |-> FALSE] /\ since = [p \in Procs |-> FALSE]
    /\ counted = [p \in Procs |-> 0] /\ ranked = [p \in Procs |-> {}]
    /\ calm = [p \in Procs |-> FALSE] /\ spoiled = [p \in Procs |-> FALSE]

(***************************************************************************)
(* Statements and commits.                                                 *)
(***************************************************************************)
At(p, s) == op[p] = s
Goto(p, s) == op' = [op EXCEPT ![p] = s]

(* data_version moves for every other connection.                          *)
Committed(p) ==
    /\ foreign' = [q \in Procs |-> q # p \/ foreign[q]]
    /\ since' = [q \in Procs |-> q # p \/ since[q]]

NoCommit == UNCHANGED <<file, foreign, since>>

(* CREATE TABLE IF NOT EXISTS                                              *)
Create(p, t) ==
    /\ tables' = tables \cup {t}
    /\ IF t \in tables THEN UNCHANGED <<foreign, since>> ELSE Committed(p)
    /\ UNCHANGED <<idx, fts>>

(* Bug: the texts go in from the last to the first.                         *)
PlacedReversed(s) == {<<Len(idx) + n, s[Len(s) + 1 - n]>> : n \in 1..Len(s)}

(* Rows go to the end of idx_thesis and under the same rowids to           *)
(* thesis_fts: no leaf twice (UNIQUE), no rowid twice.                     *)
Placed(s) == {<<Len(idx) + n, s[n]>> : n \in 1..Len(s)}

Fits(s) ==
    /\ tables = Tables
    /\ \A n \in 1..Len(s) : s[n] \notin Indexed
    /\ \A r \in Placed(s), f \in fts : r[1] # f[1]

AppendRows(p, s) ==
    /\ idx' = idx \o s
    /\ fts' = fts \cup Placed(s)
    /\ UNCHANGED tables
    /\ IF s = <<>> THEN UNCHANGED <<foreign, since>> ELSE Committed(p)

(* Bug: a write leaves the matrix; data_version does not move for the      *)
(* connection that wrote.                                                  *)
KeepMatrix(p) == UNCHANGED <<matrix, spoiled>>

(* _MATS.pop: after a write of this process that succeeded                 *)
PopMatrix(p) ==
    /\ cached' = [cached EXCEPT ![p] = FALSE]
    /\ cache' = [cache EXCEPT ![p] = <<>>]
    /\ spoiled' = [spoiled EXCEPT ![p] = FALSE]

(***************************************************************************)
(* _con: the first use in a process creates what is missing.               *)
(***************************************************************************)
OpenIdx(p) ==
    /\ At(p, "closed")
    /\ Create(p, "idx") /\ Goto(p, "open_fts")
    /\ UNCHANGED <<work, matrix, search, calm, spoiled>>

OpenFts(p) ==
    /\ At(p, "open_fts")
    /\ Create(p, "fts") /\ Goto(p, "idle")
    /\ UNCHANGED <<work, matrix, search, calm, spoiled>>

(***************************************************************************)
(* _insert: rows that are there are skipped, or refused when their idea or *)
(* text differs.  The SELECTs up to the first row that is not there run    *)
(* before the transaction begins.                                          *)
(***************************************************************************)
Known(s) == \A n \in 1..Len(s) : s[n] \in Indexed

InsertLook(p) ==
    /\ At(p, "idle") /\ "idx" \in tables
    /\ \E s \in Batches :
         \/ Known(s) /\ PopMatrix(p) /\ UNCHANGED <<op, work>>
         \/ /\ \E n \in 1..Len(s) :
                 /\ Known(SubSeq(s, 1, n - 1)) /\ s[n] \notin Indexed
                 /\ work' = [work EXCEPT ![p] = SubSeq(s, n, Len(s))]
            /\ Goto(p, "insert") /\ UNCHANGED <<matrix, spoiled>>
    /\ NoCommit
    /\ UNCHANGED <<search, calm>>

(* s is what is left of b without the rows that are there.                 *)
UpTo(b) == UNION {[1..n -> Leaves] : n \in 0..Len(b)}
IsRest(s, b) ==
    \E f \in [1..Len(s) -> 1..Len(b)] :
        /\ \A m, n \in 1..Len(s) : m < n => f[m] < f[n]
        /\ \A n \in 1..Len(s) : s[n] = b[f[n]]
        /\ {f[n] : n \in 1..Len(s)} = {k \in 1..Len(b) : b[k] \notin Indexed}

InsertCommit(p) ==
    /\ At(p, "insert")
    /\ Head(work[p]) \notin Indexed
    /\ \E s \in UpTo(work[p]) : IsRest(s, work[p]) /\ Fits(s) /\ AppendRows(p, s)
    /\ PopMatrix(p)
    /\ Goto(p, "idle") /\ work' = [work EXCEPT ![p] = <<>>]
    /\ UNCHANGED <<search, calm>>

(* A refusal, a conflict or a full disk rolls the batch back.              *)
InsertFails(p) ==
    /\ At(p, "insert")
    /\ Goto(p, "idle") /\ work' = [work EXCEPT ![p] = <<>>]
    /\ NoCommit
    /\ UNCHANGED <<matrix, search, calm, spoiled>>

(***************************************************************************)
(* reconcile and _rebuild.                                                 *)
(***************************************************************************)
Reconcile(p) ==
    /\ At(p, "idle") /\ p \in Repairers
    /\ \E s \in Snapshots : work' = [work EXCEPT ![p] = s]
    /\ Goto(p, "drop_idx")
    /\ NoCommit
    /\ UNCHANGED <<matrix, search, calm, spoiled>>

(* DROP TABLE IF EXISTS                                                    *)
Drop(p, t) ==
    /\ tables' = tables \ {t}
    /\ IF t \in tables THEN Committed(p) ELSE UNCHANGED <<foreign, since>>
    /\ calm' = [q \in Procs |-> q = p /\ calm[q]]

DropIdx(p) ==
    /\ At(p, "drop_idx")
    /\ Drop(p, "idx") /\ idx' = <<>> /\ UNCHANGED fts
    /\ Goto(p, "drop_fts")
    /\ UNCHANGED <<work, matrix, search, spoiled>>

DropFts(p) ==
    /\ At(p, "drop_fts")
    /\ Drop(p, "fts") /\ fts' = {} /\ UNCHANGED idx
    /\ Goto(p, "create_idx")
    /\ UNCHANGED <<work, matrix, search, spoiled>>

CreateIdx(p) ==
    /\ At(p, "create_idx")
    /\ Create(p, "idx") /\ Goto(p, "create_fts")
    /\ UNCHANGED <<work, matrix, search, calm, spoiled>>

CreateFts(p) ==
    /\ At(p, "create_fts")
    /\ Create(p, "fts") /\ Goto(p, "fill")
    /\ UNCHANGED <<work, matrix, search, calm, spoiled>>

Fill(p) ==
    /\ At(p, "fill")
    /\ Fits(work[p])
    /\ AppendRows(p, work[p]) /\ PopMatrix(p)
    /\ Goto(p, "idle") /\ work' = [work EXCEPT ![p] = <<>>]
    /\ UNCHANGED <<search, calm>>

(* A row another process wrote meanwhile, a locked file or a full disk:    *)
(* the rows are rolled back, what was dropped stays so, and the matrix is  *)
(* kept.                                                                   *)
RebuildFails(p) ==
    /\ op[p] \in {"drop_idx", "drop_fts", "create_idx", "create_fts", "fill"}
    /\ Goto(p, "idle") /\ work' = [work EXCEPT ![p] = <<>>]
    /\ spoiled' = [spoiled EXCEPT ![p] = TRUE]
    /\ NoCommit
    /\ UNCHANGED <<matrix, search, calm>>

(***************************************************************************)
(* search_theses: the check, the matrix, the two arms, the hits.  A table  *)
(* that is missing or a row that is not there ends the search with an      *)
(* error.                                                                  *)
(***************************************************************************)
EndSearch(p) ==
    /\ Goto(p, "idle")
    /\ counted' = [counted EXCEPT ![p] = 0] /\ ranked' = [ranked EXCEPT ![p] = {}]
    /\ UNCHANGED <<matrix, calm>>

CountIdx(p) ==
    /\ At(p, "idle") /\ "idx" \in tables
    /\ counted' = [counted EXCEPT ![p] = Len(idx)]
    /\ calm' = [calm EXCEPT ![p] = TRUE]
    /\ Goto(p, "count_fts")
    /\ NoCommit
    /\ UNCHANGED <<work, matrix, ranked, spoiled>>

(* Bug: the counts are not compared.                                       *)
CountFtsUnchecked(p) ==
    /\ At(p, "count_fts")
    /\ Goto(p, "version")
    /\ NoCommit
    /\ UNCHANGED <<work, matrix, search, calm, spoiled>>

CountFts(p) ==
    /\ At(p, "count_fts")
    /\ IF "fts" \in tables /\ Cardinality(fts) = counted[p]
       THEN Goto(p, "version") /\ UNCHANGED <<matrix, search, calm>>
       ELSE EndSearch(p)
    /\ NoCommit
    /\ UNCHANGED <<work, spoiled>>

(* PRAGMA data_version                                                     *)
ReadVersion(p) ==
    /\ At(p, "version")
    /\ since' = [since EXCEPT ![p] = FALSE]
    /\ Goto(p, IF cached[p] /\ ~foreign[p] THEN "match" ELSE "load")
    /\ UNCHANGED <<file, work, matrix, foreign, search, calm, spoiled>>

LoadMatrix(p) ==
    /\ At(p, "load") /\ "idx" \in tables
    /\ cache' = [cache EXCEPT ![p] = idx] /\ cached' = [cached EXCEPT ![p] = TRUE]
    /\ foreign' = [foreign EXCEPT ![p] = since[p]]
    /\ spoiled' = [spoiled EXCEPT ![p] = FALSE]
    /\ Goto(p, "match")
    /\ UNCHANGED <<file, work, since, search, calm>>

Match(p) ==
    /\ At(p, "match") /\ "fts" \in tables
    /\ ranked' = [ranked EXCEPT ![p] = RowsOf(cache[p]) \cup fts]
    /\ Goto(p, "fetch")
    /\ NoCommit
    /\ UNCHANGED <<work, matrix, counted, calm, spoiled>>

FetchHit(p) ==
    /\ At(p, "fetch") /\ "idx" \in tables
    /\ \E r \in ranked[p] :
         /\ r[1] \in 1..Len(idx)
         /\ ranked' = [ranked EXCEPT ![p] = ranked[p] \ {r}]
    /\ NoCommit
    /\ UNCHANGED <<op, work, matrix, counted, calm, spoiled>>

FetchEnds(p) ==
    /\ \/ At(p, "load") /\ "idx" \notin tables
       \/ At(p, "match") /\ "fts" \notin tables
       \/ At(p, "fetch") /\ "idx" \notin tables
       \/ At(p, "fetch") /\ ranked[p] = {}
       \/ At(p, "fetch") /\ \E r \in ranked[p] : r[1] \notin 1..Len(idx)
    /\ EndSearch(p)
    /\ NoCommit
    /\ UNCHANGED <<work, spoiled>>

(***************************************************************************)
(* The death of a process: the file keeps what was committed.              *)
(***************************************************************************)
Kill(p) ==
    /\ op[p] # "closed"
    /\ Goto(p, "closed") /\ work' = [work EXCEPT ![p] = <<>>]
    /\ cache' = [cache EXCEPT ![p] = <<>>] /\ cached' = [cached EXCEPT ![p] = FALSE]
    /\ foreign' = [foreign EXCEPT ![p] = FALSE] /\ since' = [since EXCEPT ![p] = FALSE]
    /\ counted' = [counted EXCEPT ![p] = 0] /\ ranked' = [ranked EXCEPT ![p] = {}]
    /\ calm' = [calm EXCEPT ![p] = FALSE] /\ spoiled' = [spoiled EXCEPT ![p] = FALSE]
    /\ UNCHANGED file

Connect(p) == OpenIdx(p) \/ OpenFts(p)
Insert(p) == InsertLook(p) \/ InsertCommit(p) \/ InsertFails(p)
Rebuild(p) == Reconcile(p) \/ DropIdx(p) \/ DropFts(p) \/ CreateIdx(p) \/ CreateFts(p)
                \/ Fill(p) \/ RebuildFails(p)
Search(p) == CountIdx(p) \/ CountFts(p) \/ ReadVersion(p) \/ LoadMatrix(p) \/ Match(p)
               \/ FetchHit(p) \/ FetchEnds(p)

Next == \E p \in Procs : Connect(p) \/ Insert(p) \/ Rebuild(p) \/ Search(p) \/ Kill(p)

Spec == Init /\ [][Next]_vars

(***************************************************************************)
(* Properties.                                                             *)
(***************************************************************************)

(* The check of search_theses compares counts and nothing else; that is    *)
(* enough: whatever processes rebuild, insert and die in each other's way, *)
(* tables with as many rows have the same rows (_assert_fts_consistent).   *)
CountsTell ==
    Cardinality(fts) = Len(idx) => fts = RowsOf(idx)

(* A hit is reported as the leaf that was ranked: its rowid still names it *)
(* when it is fetched, over inserts and earlier rebuilds of any process,   *)
(* unless a table was dropped under the search or the own rebuild failed.  *)
HitIsWhatWasRanked ==
    \A p \in Procs : calm[p] /\ ~spoiled[p] =>
        \A r \in ranked[p] : r[1] \in 1..Len(idx) /\ idx[r[1]] = r[2]

(* A matrix the next search will use again holds the rows of the file,     *)
(* whoever committed since, between the read of its version and the read   *)
(* of its rows too (_matrix).  A rebuild of the own process that failed    *)
(* moves the file and keeps the matrix, with its version.                  *)
MatrixIsFresh ==
    \A p \in Procs : cached[p] /\ ~foreign[p] /\ ~spoiled[p] /\ At(p, "idle")
        => cache[p] = idx

(* After a failed repair the index is as the process knew it, if nobody    *)
(* else wrote: "a repair that fails must leave what it was asked to fix    *)
(* intact rather than empty" (index.reconcile).                            *)
RepairKeepsOldIndex ==
    \A p \in Procs : spoiled[p] /\ cached[p] /\ ~foreign[p] /\ At(p, "idle")
        => idx = cache[p]

=============================================================================
