------------------------- MODULE ThesisIndex_proofs -------------------------
(***************************************************************************)
(* The check by counts is enough, no leaf is indexed twice and a search    *)
(* reports what it ranked: for any processes, rebuilding, inserting,       *)
(* searching and dying beside each other, any leaves and any batches.      *)
(*                                                                         *)
(* Every statement either adds the same rows to both tables or empties one *)
(* of them, so one of the tables always contains the other (Nested): equal *)
(* counts mean equal tables.  A search that passed the check saw thesis_fts*)
(* inside idx_thesis, which stays so until a table is dropped (SearchInv), *)
(* and the rows of its matrix are the file's while nobody else committed   *)
(* (MatrixInv).                                                            *)
(***************************************************************************)
EXTENDS ThesisIndex, FiniteSetTheorems, FunctionTheorems, TLAPS

Nested ==
    /\ IsFiniteSet(fts)
    /\ RowsOf(idx) \subseteq fts \/ fts \subseteq RowsOf(idx)

OneRowPerLeaf == Distinct(idx)

(* A dropped table is empty, and what is to be written has no leaf twice.  *)
Tidy ==
    /\ "idx" \notin tables => idx = <<>>
    /\ \A p \in Procs : Distinct(work[p])

Rebuilding == {"drop_fts", "create_idx", "create_fts", "fill"}

MatrixInv(p) ==
    cached[p] /\ ~foreign[p] /\ ~spoiled[p] /\ op[p] \notin Rebuilding => cache[p] = idx

SearchInv(p) ==
    /\ op[p] = "count_fts" /\ calm[p] => counted[p] <= Len(idx)
    /\ op[p] \in {"version", "load", "match", "fetch"} /\ calm[p] => fts \subseteq RowsOf(idx)
    /\ op[p] \in {"match", "fetch"} /\ calm[p] /\ ~spoiled[p] =>
           RowsOf(cache[p]) \subseteq RowsOf(idx)
    /\ op[p] # "fetch" => ranked[p] = {}
    /\ calm[p] /\ ~spoiled[p] => ranked[p] \subseteq RowsOf(idx)

IndexInv ==
    /\ TypeOK /\ Tidy /\ Nested /\ OneRowPerLeaf
    /\ \A p \in Procs : MatrixInv(p) /\ SearchInv(p)

-----------------------------------------------------------------------------
(* The rows of a sequence: as many as it is long, one for each rowid.      *)
LEMMA RowsCount ==
    ASSUME NEW s \in Seq(Leaves)
    PROVE  IsFiniteSet(RowsOf(s)) /\ Cardinality(RowsOf(s)) = Len(s)
<1> DEFINE f == [n \in 1..Len(s) |-> <<n, s[n]>>]
<1>1. f \in Bijection(1..Len(s), RowsOf(s))
    <2>1. f \in [1..Len(s) -> RowsOf(s)]
        BY DEF RowsOf
    <2>2. \A m, n \in 1..Len(s) : f[m] = f[n] => m = n
        OBVIOUS
    <2>3. \A r \in RowsOf(s) : \E n \in 1..Len(s) : f[n] = r
        BY DEF RowsOf
    <2> HIDE DEF f
    <2>4. f \in Injection(1..Len(s), RowsOf(s))
        BY <2>1, <2>2, Fun_IsInj
    <2>5. f \in Surjection(1..Len(s), RowsOf(s))
        BY <2>1, <2>3, Fun_IsSurj
    <2>6. QED
        BY <2>4, <2>5, Fun_IsBij
<1>2. IsFiniteSet(1..Len(s)) /\ Cardinality(1..Len(s)) = Len(s)
    <2>1. Len(s) \in Nat
        OBVIOUS
    <2>2. /\ IsFiniteSet(1..Len(s))
          /\ Cardinality(1..Len(s)) = IF 1 > Len(s) THEN 0 ELSE Len(s) - 1 + 1
        <3>1. 1 \in Int /\ Len(s) \in Int
            BY <2>1
        <3>2. QED
            BY <3>1, FS_Interval, Zenon
    <2>3. QED
        BY <2>1, <2>2
<1>3. ExistsBijection(1..Len(s), RowsOf(s))
    BY <1>1 DEF ExistsBijection
<1>4. QED
    BY <1>2, <1>3, FS_Bijection

LEMMA RowsAppended ==
    ASSUME idx \in Seq(Leaves), NEW s \in Seq(Leaves)
    PROVE  /\ idx \o s \in Seq(Leaves)
           /\ Len(idx \o s) = Len(idx) + Len(s)
           /\ RowsOf(idx \o s) = RowsOf(idx) \cup Placed(s)
           /\ \A r \in Placed(s) : r \in (Nat \ {0}) \X Leaves
<1>1. /\ idx \o s \in Seq(Leaves)
      /\ Len(idx \o s) = Len(idx) + Len(s)
      /\ \A n \in 1..Len(idx) : (idx \o s)[n] = idx[n]
      /\ \A n \in 1..Len(s) : (idx \o s)[Len(idx) + n] = s[n]
    OBVIOUS
<1> DEFINE t == idx \o s
<1> HIDE DEF t
<1>2. RowsOf(t) \subseteq RowsOf(idx) \cup Placed(s)
    <2>1. SUFFICES ASSUME NEW n \in 1..Len(t)
                   PROVE  <<n, t[n]>> \in RowsOf(idx) \cup Placed(s)
        BY DEF RowsOf
    <2>2. CASE n \in 1..Len(idx)
        BY <1>1, <2>2 DEF RowsOf, t
    <2>3. CASE n \notin 1..Len(idx)
        <3>1. n - Len(idx) \in 1..Len(s) /\ n = Len(idx) + (n - Len(idx))
            BY <1>1, <2>3 DEF t
        <3>2. QED
            BY <1>1, <3>1 DEF Placed, t
    <2>4. QED
        BY <2>2, <2>3
<1>3. RowsOf(idx) \cup Placed(s) \subseteq RowsOf(t)
    <2>1. ASSUME NEW n \in 1..Len(idx) PROVE <<n, idx[n]>> \in RowsOf(t)
        BY <1>1 DEF RowsOf, t
    <2>2. ASSUME NEW n \in 1..Len(s) PROVE <<Len(idx) + n, s[n]>> \in RowsOf(t)
        <3>1. Len(idx) + n \in 1..Len(t)
            BY <1>1 DEF t
        <3>2. QED
            BY <1>1, <3>1 DEF RowsOf, t
    <2>3. QED
        BY <2>1, <2>2 DEF RowsOf, Placed
<1>4. \A r \in Placed(s) : r \in (Nat \ {0}) \X Leaves
    BY DEF Placed
<1>5. QED
    BY <1>1, <1>2, <1>3, <1>4 DEF t

(* What may happen to the rows of the file.                                *)
Grows(s) ==
    /\ Fits(s) /\ Distinct(s)
    /\ idx' = idx \o s /\ fts' = fts \cup Placed(s) /\ tables' = tables

LEMMA UpToIsSeq ==
    ASSUME NEW b \in Seq(Leaves)
    PROVE  \A s \in UpTo(b) : s \in Seq(Leaves)
BY DEF UpTo

LEMMA RestIsDistinct ==
    ASSUME NEW b \in Seq(Leaves), Distinct(b), NEW s \in UpTo(b), IsRest(s, b)
    PROVE  s \in Seq(Leaves) /\ Distinct(s)
<1>1. s \in Seq(Leaves)
    BY DEF UpTo
<1>2. PICK f \in [1..Len(s) -> 1..Len(b)] :
          /\ \A m, n \in 1..Len(s) : m < n => f[m] < f[n]
          /\ \A n \in 1..Len(s) : s[n] = b[f[n]]
    BY DEF IsRest
<1>3. ASSUME NEW m \in 1..Len(s), NEW n \in 1..Len(s), s[m] = s[n], m # n
      PROVE  FALSE
    <2>1. f[m] = f[n]
        BY <1>2, <1>3 DEF Distinct
    <2>2. m < n \/ n < m
        BY <1>3
    <2>3. QED
        BY <1>1, <1>2, <2>1, <2>2
<1>4. QED
    BY <1>1, <1>3 DEF Distinct

LEMMA FileCases ==
    ASSUME TypeOK, Tidy, NEW p \in Procs,
           Connect(p) \/ Insert(p) \/ Rebuild(p) \/ Search(p) \/ Kill(p)
    PROVE  \/ UNCHANGED <<idx, fts>>
           \/ \E s \in Seq(Leaves) : Grows(s)
           \/ DropIdx(p) \/ DropFts(p)
<1>1. CASE InsertCommit(p)
    <2>1. PICK s \in UpTo(work[p]) : IsRest(s, work[p]) /\ Fits(s) /\ AppendRows(p, s)
        BY <1>1 DEF InsertCommit
    <2>2. s \in Seq(Leaves) /\ Distinct(s)
        BY <2>1, RestIsDistinct DEF TypeOK, Tidy
    <2>3. QED
        BY <2>1, <2>2 DEF AppendRows, Grows
<1>2. CASE Fill(p)
    <2>1. work[p] \in Seq(Leaves) /\ Grows(work[p])
        BY <1>2 DEF Fill, AppendRows, Grows, TypeOK, Tidy
    <2>2. QED
        BY <2>1
<1>3. QED
    BY <1>1, <1>2 DEF Connect, Insert, Rebuild, Search, OpenIdx, OpenFts, InsertLook,
        InsertFails, Reconcile, CreateIdx, CreateFts, RebuildFails, CountIdx, CountFts,
        ReadVersion, LoadMatrix, Match, FetchHit, FetchEnds, Kill, Create, NoCommit, file

-----------------------------------------------------------------------------
(* Types.                                                                  *)
LEMMA TypeStep ==
    ASSUME TypeOK, Tidy, NEW p \in Procs,
           Connect(p) \/ Insert(p) \/ Rebuild(p) \/ Search(p) \/ Kill(p)
    PROVE  TypeOK'
<1> USE IndexAssumption DEF TypeOK, Tables, Statements, At, Goto, Committed, NoCommit, file,
                            matrix, search, PopMatrix
<1>3. <<>> \in Seq(Leaves)
    OBVIOUS
<1>0. ASSUME PopMatrix(p) \/ UNCHANGED <<matrix, spoiled>>
      PROVE  /\ cache' \in [Procs -> Seq(Leaves)] /\ cached' \in [Procs -> BOOLEAN]
             /\ spoiled' \in [Procs -> BOOLEAN]
    <2>1. CASE PopMatrix(p)
        BY <2>1, <1>3
    <2>2. CASE UNCHANGED <<matrix, spoiled>>
        BY <2>2
    <2>3. QED
        BY <1>0, <2>1, <2>2, Zenon
<1>1. CASE InsertLook(p)
    <2>1. \A s \in Batches : \A n \in 1..Len(s) : SubSeq(s, n, Len(s)) \in Seq(Leaves)
        <3>1. Batches \subseteq Seq(Leaves)
            OBVIOUS
        <3>2. \A s \in Seq(Leaves) : \A n \in 1..Len(s) : SubSeq(s, n, Len(s)) \in Seq(Leaves)
            OBVIOUS
        <3>3. QED
            BY <3>1, <3>2
    <2>2. work' \in [Procs -> Seq(Leaves)]
        <3>1. CASE UNCHANGED work
            BY <3>1
        <3>2. CASE \E s \in Batches : \E n \in 1..Len(s) :
                       work' = [work EXCEPT ![p] = SubSeq(s, n, Len(s))]
            BY <2>1, <3>2
        <3>3. QED
            BY <1>1, <3>1, <3>2 DEF InsertLook
    <2>3. op' \in [Procs -> Statements]
        BY <1>1 DEF InsertLook
    <2>4. PopMatrix(p) \/ UNCHANGED <<matrix, spoiled>>
        BY <1>1, Zenon DEF InsertLook
    <2>5. UNCHANGED <<file, foreign, since, search, calm>>
        BY <1>1 DEF InsertLook
    <2>6. QED
        BY <1>0, <2>2, <2>3, <2>4, <2>5
<1>2. ASSUME NEW s \in Seq(Leaves), AppendRows(p, s)
      PROVE  /\ tables' \subseteq Tables /\ idx' \in Seq(Leaves)
             /\ fts' \subseteq (Nat \ {0}) \X Leaves
             /\ foreign' \in [Procs -> BOOLEAN] /\ since' \in [Procs -> BOOLEAN]
    BY <1>2, RowsAppended DEF AppendRows
<1>4. CASE InsertCommit(p)
    <2>1. PICK s \in UpTo(work[p]) : AppendRows(p, s)
        BY <1>4 DEF InsertCommit
    <2>2. s \in Seq(Leaves)
        <3>1. work[p] \in Seq(Leaves)
            OBVIOUS
        <3>2. QED
            BY <3>1, UpToIsSeq, Zenon
    <2>3. op' \in [Procs -> Statements] /\ work' \in [Procs -> Seq(Leaves)]
        BY <1>3, <1>4 DEF InsertCommit
    <2>4. PopMatrix(p) /\ UNCHANGED <<counted, ranked, calm>>
        BY <1>4 DEF InsertCommit
    <2>5. QED
        BY <1>0, <1>2, <2>1, <2>2, <2>3, <2>4
<1>5. CASE Fill(p)
    <2>1. work[p] \in Seq(Leaves) /\ AppendRows(p, work[p])
        BY <1>5 DEF Fill
    <2>2. QED
        BY <1>2, <1>3, <1>5, <2>1 DEF Fill
<1>6. CASE Reconcile(p)
    BY <1>6 DEF Reconcile
<1>7. CASE Match(p)
    <2>1. RowsOf(cache[p]) \subseteq (Nat \ {0}) \X Leaves
        BY DEF RowsOf
    <2>2. QED
        BY <1>7, <2>1 DEF Match
<1>8. CASE OpenIdx(p)
    BY <1>8 DEF OpenIdx, Create
<1>9. CASE OpenFts(p)
    BY <1>9 DEF OpenFts, Create
<1>10. CASE InsertFails(p)
    BY <1>10, <1>3 DEF InsertFails
<1>11. CASE DropIdx(p)
    BY <1>11, <1>3 DEF DropIdx, Drop
<1>12. CASE DropFts(p)
    BY <1>12 DEF DropFts, Drop
<1>13. CASE CreateIdx(p)
    BY <1>13 DEF CreateIdx, Create
<1>14. CASE CreateFts(p)
    BY <1>14 DEF CreateFts, Create
<1>15. CASE RebuildFails(p)
    BY <1>15, <1>3 DEF RebuildFails
<1>16. CASE CountIdx(p)
    BY <1>16 DEF CountIdx
<1>17. CASE CountFts(p)
    <2>1. op' \in [Procs -> Statements]
        BY <1>17 DEF CountFts, EndSearch
    <2>2. /\ UNCHANGED search \/ EndSearch(p)
          /\ UNCHANGED <<file, work, matrix, foreign, since, calm, spoiled>>
        BY <1>17, ZenonT(60) DEF CountFts, EndSearch
    <2>3. CASE UNCHANGED search
        BY <2>1, <2>2, <2>3
    <2>4. CASE EndSearch(p)
        <3>1. counted' \in [Procs -> Nat]
            BY <2>4 DEF EndSearch
        <3>2. ranked' \in [Procs -> SUBSET ((Nat \ {0}) \X Leaves)]
            BY <2>4 DEF EndSearch
        <3>3. QED
            BY <2>1, <2>2, <3>1, <3>2
    <2>5. QED
        BY <2>2, <2>3, <2>4, Zenon
<1>18. CASE ReadVersion(p)
    BY <1>18 DEF ReadVersion
<1>19. CASE LoadMatrix(p)
    BY <1>19 DEF LoadMatrix
<1>20. CASE FetchHit(p)
    BY <1>20 DEF FetchHit
<1>21. CASE FetchEnds(p)
    <2>1. /\ op' \in [Procs -> Statements]
          /\ counted' \in [Procs -> Nat]
          /\ ranked' \in [Procs -> SUBSET ((Nat \ {0}) \X Leaves)]
        BY <1>21 DEF FetchEnds, EndSearch
    <2>2. UNCHANGED <<file, work, matrix, foreign, since, calm, spoiled>>
        BY <1>21 DEF FetchEnds, EndSearch
    <2>3. QED
        BY <2>1, <2>2
<1>22. CASE Kill(p)
    BY <1>22, <1>3 DEF Kill
<1>23. QED
    BY <1>1, <1>4, <1>5, <1>6, <1>7, <1>8, <1>9, <1>10, <1>11, <1>12, <1>13,
       <1>14, <1>15, <1>16, <1>17, <1>18, <1>19, <1>20, <1>21, <1>22
    DEF Connect, Insert, Rebuild, Search

(* What has been dropped is empty, and no work repeats a leaf.             *)
LEMMA TidyStep ==
    ASSUME TypeOK, Tidy, NEW p \in Procs,
           Connect(p) \/ Insert(p) \/ Rebuild(p) \/ Search(p) \/ Kill(p)
    PROVE  Tidy'
<1>1. "idx" \notin tables' => idx' = <<>>
    <2>1. CASE UNCHANGED <<tables, idx>>
        BY <2>1 DEF Tidy
    <2>2. CASE OpenIdx(p) \/ OpenFts(p) \/ CreateIdx(p) \/ CreateFts(p)
        BY <2>2 DEF OpenIdx, OpenFts, CreateIdx, CreateFts, Create, Tidy
    <2>3. CASE InsertCommit(p) \/ Fill(p)
        BY <2>3 DEF InsertCommit, Fill, AppendRows, Fits, Tables
    <2>4. CASE DropIdx(p) \/ DropFts(p)
        BY <2>4 DEF DropIdx, DropFts, Drop, Tidy
    <2>5. QED
        BY <2>1, <2>2, <2>3, <2>4
        DEF Connect, Insert, Rebuild, Search, InsertLook, InsertFails, Reconcile,
            RebuildFails, CountIdx, CountFts, ReadVersion, LoadMatrix, Match, FetchHit,
            FetchEnds, Kill, NoCommit, file
<1>2. ASSUME NEW q \in Procs
      PROVE  Distinct(work'[q])
    <2>1. CASE work'[q] = work[q]
        BY <2>1 DEF Tidy
    <2>2. CASE work'[q] = <<>>
        BY <2>2 DEF Distinct
    <2>3. CASE work'[q] \in Snapshots
        BY <2>3, IndexAssumption
    <2>4. CASE \E s \in Batches : \E n \in 1..Len(s) : work'[q] = SubSeq(s, n, Len(s))
        <3>0. PICK s \in Batches : \E n \in 1..Len(s) : work'[q] = SubSeq(s, n, Len(s))
            BY <2>4
        <3>1. PICK n \in 1..Len(s) : work'[q] = SubSeq(s, n, Len(s))
            BY <3>0
        <3>2. s \in Seq(Leaves) /\ Distinct(s)
            BY IndexAssumption
        <3> DEFINE t == SubSeq(s, n, Len(s))
        <3>3. /\ Len(t) = Len(s) - n + 1
              /\ \A k \in 1..Len(t) : t[k] = s[n + k - 1] /\ n + k - 1 \in 1..Len(s)
            BY <3>2
        <3>4. Distinct(t)
            <4> HIDE DEF t
            <4>1. SUFFICES ASSUME NEW k \in 1..Len(t), NEW m \in 1..Len(t), t[k] = t[m]
                           PROVE  k = m
                BY DEF Distinct
            <4>2. s[n + k - 1] = s[n + m - 1]
                BY <3>3, <4>1
            <4>3. n + k - 1 = n + m - 1
                BY <3>2, <3>3, <4>2 DEF Distinct
            <4>4. QED
                BY <3>2, <3>3, <4>3
        <3>5. QED
            BY <3>1, <3>4
    <2>5. CASE work' = work
        BY <2>1, <2>5
    <2>6. CASE InsertLook(p)
        BY <2>1, <2>4, <2>6 DEF InsertLook, TypeOK
    <2>7. CASE Reconcile(p)
        BY <2>1, <2>3, <2>7 DEF Reconcile, TypeOK
    <2>8. CASE InsertCommit(p) \/ InsertFails(p) \/ Fill(p) \/ RebuildFails(p) \/ Kill(p)
        BY <2>1, <2>2, <2>8
        DEF InsertCommit, InsertFails, Fill, RebuildFails, Kill, TypeOK
    <2>9. QED
        BY <2>5, <2>6, <2>7, <2>8
        DEF Connect, Insert, Rebuild, Search, OpenIdx, OpenFts, DropIdx, DropFts, CreateIdx,
            CreateFts, CountIdx, CountFts, ReadVersion, LoadMatrix, Match, FetchHit, FetchEnds
<1>3. QED
    BY <1>1, <1>2 DEF Tidy

-----------------------------------------------------------------------------
(* The two tables.                                                         *)
LEMMA GrowsNested ==
    ASSUME TypeOK, Nested, OneRowPerLeaf, NEW s \in Seq(Leaves), Grows(s)
    PROVE  /\ Nested' /\ OneRowPerLeaf'
           /\ RowsOf(idx') = RowsOf(idx) \cup Placed(s)
           /\ Len(idx') >= Len(idx)
<1>1. /\ RowsOf(idx') = RowsOf(idx) \cup Placed(s)
      /\ Len(idx') = Len(idx) + Len(s)
      /\ idx' \in Seq(Leaves)
    BY RowsAppended DEF Grows, TypeOK
<1>2. IsFiniteSet(Placed(s))
    <2>1. IsFiniteSet(RowsOf(idx'))
        BY <1>1, RowsCount
    <2>2. Placed(s) \in SUBSET RowsOf(idx')
        BY <1>1
    <2>3. QED
        BY <2>1, <2>2, FS_Subset
<1>3. IsFiniteSet(fts \cup Placed(s))
    BY <1>2, FS_Union DEF Nested
<1>4. Nested'
    BY <1>1, <1>3 DEF Nested, Grows
<1>5. OneRowPerLeaf'
    <2>1. /\ \A n \in 1..Len(idx) : idx'[n] = idx[n] /\ idx'[n] \in Indexed
          /\ \A n \in 1..Len(s) : idx'[Len(idx) + n] = s[n] /\ s[n] \notin Indexed
        BY DEF Grows, Fits, Indexed, TypeOK
    <2>2. \A n \in 1..Len(idx') :
              n \in 1..Len(idx) \/ (n - Len(idx) \in 1..Len(s) /\ n = Len(idx) + (n - Len(idx)))
        BY <1>1 DEF TypeOK
    <2>3. SUFFICES ASSUME NEW m \in 1..Len(idx'), NEW n \in 1..Len(idx'), idx'[m] = idx'[n]
                   PROVE  m = n
        BY DEF OneRowPerLeaf, Distinct
    <2>4. CASE m \in 1..Len(idx) /\ n \in 1..Len(idx)
        BY <2>1, <2>3, <2>4 DEF OneRowPerLeaf, Distinct
    <2>5. CASE m \notin 1..Len(idx) /\ n \notin 1..Len(idx)
        <3>1. s[m - Len(idx)] = s[n - Len(idx)]
            BY <2>1, <2>2, <2>3, <2>5
        <3>2. m - Len(idx) = n - Len(idx)
            BY <2>2, <2>5, <3>1 DEF Grows, Distinct
        <3>3. QED
            BY <3>2, <2>2, <2>5
    <2>6. CASE m \in 1..Len(idx) /\ n \notin 1..Len(idx)
        BY <2>1, <2>2, <2>3, <2>6
    <2>7. CASE m \notin 1..Len(idx) /\ n \in 1..Len(idx)
        BY <2>1, <2>2, <2>3, <2>7
    <2>8. QED
        BY <2>4, <2>5, <2>6, <2>7
<1>6. QED
    BY <1>1, <1>4, <1>5 DEF TypeOK

LEMMA TablesStep ==
    ASSUME TypeOK, Tidy, Nested, OneRowPerLeaf, NEW p \in Procs,
           Connect(p) \/ Insert(p) \/ Rebuild(p) \/ Search(p) \/ Kill(p)
    PROVE  Nested' /\ OneRowPerLeaf'
<1>1. CASE UNCHANGED <<idx, fts>>
    BY <1>1 DEF Nested, OneRowPerLeaf
<1>2. CASE \E s \in Seq(Leaves) : Grows(s)
    BY <1>2, GrowsNested
<1>3. CASE DropIdx(p)
    BY <1>3 DEF DropIdx, Nested, OneRowPerLeaf, Distinct, RowsOf
<1>4. CASE DropFts(p)
    <2>1. IsFiniteSet({})
        BY FS_EmptySet
    <2>2. QED
        BY <1>4, <2>1 DEF DropFts, Nested, OneRowPerLeaf
<1>5. QED
    BY <1>1, <1>2, <1>3, <1>4, FileCases

-----------------------------------------------------------------------------
(* A step of one process, seen from another.                               *)
LEMMA OthersKeepTheirOwn ==
    ASSUME TypeOK, NEW p \in Procs, NEW q \in Procs, q # p,
           Connect(p) \/ Insert(p) \/ Rebuild(p) \/ Search(p) \/ Kill(p)
    PROVE  /\ op'[q] = op[q] /\ cache'[q] = cache[q] /\ cached'[q] = cached[q]
           /\ counted'[q] = counted[q] /\ ranked'[q] = ranked[q]
           /\ spoiled'[q] = spoiled[q] /\ (calm'[q] => calm[q])
<1> USE DEF TypeOK, Goto, matrix, search
<1>1. CASE Connect(p)
    BY <1>1 DEF Connect, OpenIdx, OpenFts
<1>2. CASE Insert(p)
    <2>1. CASE InsertLook(p)
        BY <2>1 DEF InsertLook, PopMatrix
    <2>2. CASE InsertCommit(p)
        BY <2>2 DEF InsertCommit, PopMatrix
    <2>3. CASE InsertFails(p)
        BY <2>3 DEF InsertFails
    <2>4. QED
        BY <1>2, <2>1, <2>2, <2>3 DEF Insert
<1>3. CASE Rebuild(p)
    <2>1. CASE Reconcile(p) \/ CreateIdx(p) \/ CreateFts(p)
        BY <2>1 DEF Reconcile, CreateIdx, CreateFts
    <2>2. CASE DropIdx(p) \/ DropFts(p)
        BY <2>2 DEF DropIdx, DropFts, Drop
    <2>3. CASE Fill(p)
        BY <2>3 DEF Fill, PopMatrix
    <2>4. CASE RebuildFails(p)
        BY <2>4 DEF RebuildFails
    <2>5. QED
        BY <1>3, <2>1, <2>2, <2>3, <2>4 DEF Rebuild
<1>4. CASE Search(p)
    <2>1. CASE CountIdx(p) \/ ReadVersion(p) \/ LoadMatrix(p)
        BY <2>1 DEF CountIdx, ReadVersion, LoadMatrix
    <2>2. CASE Match(p) \/ FetchHit(p)
        BY <2>2 DEF Match, FetchHit
    <2>3. CASE CountFts(p)
        BY <2>3 DEF CountFts, EndSearch
    <2>4. CASE FetchEnds(p)
        <3>1. EndSearch(p) /\ UNCHANGED spoiled
            BY <2>4 DEF FetchEnds
        <3>2. QED
            BY <3>1 DEF EndSearch
    <2>5. QED
        BY <1>4, <2>1, <2>2, <2>3, <2>4 DEF Search
<1>5. CASE Kill(p)
    BY <1>5 DEF Kill
<1>6. QED
    BY <1>1, <1>2, <1>3, <1>4, <1>5

(* Who does not see a commit of another has the rows it read.              *)
LEMMA CommitsAreSeen ==
    ASSUME TypeOK, Tidy, NEW p \in Procs, NEW q \in Procs, q # p,
           Connect(p) \/ Insert(p) \/ Rebuild(p) \/ Search(p) \/ Kill(p),
           ~foreign'[q]
    PROVE  ~foreign[q] /\ idx' = idx
<1> USE DEF TypeOK
<1>1. ~Committed(p)
    BY DEF Committed
<1>2. CASE UNCHANGED <<idx, foreign>>
    BY <1>2
<1>3. ASSUME NEW s \in Seq(Leaves), AppendRows(p, s)
      PROVE  UNCHANGED <<idx, foreign>>
    <2>1. s = <<>> /\ UNCHANGED foreign
        BY <1>1, <1>3 DEF AppendRows
    <2>2. idx \o <<>> = idx
        OBVIOUS
    <2>3. QED
        BY <1>3, <2>1, <2>2 DEF AppendRows
<1>4. CASE InsertCommit(p) \/ Fill(p)
    <2>1. \A s \in UpTo(work[p]) : s \in Seq(Leaves)
        BY UpToIsSeq
    <2>2. \E s \in Seq(Leaves) : AppendRows(p, s)
        BY <1>4, <2>1 DEF InsertCommit, Fill
    <2>3. QED
        BY <1>2, <1>3, <2>2
<1>5. CASE OpenIdx(p) \/ OpenFts(p) \/ CreateIdx(p) \/ CreateFts(p)
    BY <1>1, <1>2, <1>5 DEF OpenIdx, OpenFts, CreateIdx, CreateFts, Create
<1>6. CASE DropIdx(p) \/ DropFts(p)
    BY <1>1, <1>2, <1>6 DEF DropIdx, DropFts, Drop, Tidy
<1>7. CASE Kill(p) \/ LoadMatrix(p)
    BY <1>7 DEF Kill, LoadMatrix, file
<1>8. CASE ReadVersion(p)
    BY <1>2, <1>8 DEF ReadVersion, file
<1>9. QED
    BY <1>2, <1>4, <1>5, <1>6, <1>7, <1>8
    DEF Connect, Insert, Rebuild, Search, InsertLook, InsertFails, Reconcile, RebuildFails,
        CountIdx, CountFts, Match, FetchHit, FetchEnds, NoCommit, file

(* While nobody drops a table both only get longer, and together.          *)
LEMMA CalmMeansGrowth ==
    ASSUME TypeOK, Tidy, Nested, OneRowPerLeaf, NEW p \in Procs, NEW q \in Procs,
           Connect(p) \/ Insert(p) \/ Rebuild(p) \/ Search(p) \/ Kill(p),
           calm'[q], q # p \/ ~(DropIdx(p) \/ DropFts(p))
    PROVE  /\ RowsOf(idx) \subseteq RowsOf(idx') /\ Len(idx) <= Len(idx')
           /\ fts \subseteq RowsOf(idx) => fts' \subseteq RowsOf(idx')
<1>1. CASE UNCHANGED <<idx, fts>>
    BY <1>1 DEF TypeOK
<1>2. CASE \E s \in Seq(Leaves) : Grows(s)
    <2>1. PICK s \in Seq(Leaves) : Grows(s)
        BY <1>2
    <2>2. RowsOf(idx') = RowsOf(idx) \cup Placed(s) /\ Len(idx') >= Len(idx)
        BY <2>1, GrowsNested
    <2>3. fts' = fts \cup Placed(s)
        BY <2>1 DEF Grows
    <2>4. idx' \in Seq(Leaves)
        BY <2>1, RowsAppended DEF Grows, TypeOK
    <2>5. QED
        BY <2>2, <2>3, <2>4 DEF TypeOK
<1>3. CASE DropIdx(p) \/ DropFts(p)
    <2>1. ~calm'[q]
        BY <1>3 DEF DropIdx, DropFts, Drop
    <2>2. QED
        BY <2>1
<1>4. QED
    BY <1>1, <1>2, <1>3, FileCases

LEMMA OtherStep ==
    ASSUME TypeOK, Tidy, Nested, OneRowPerLeaf, NEW p \in Procs, NEW q \in Procs, q # p,
           MatrixInv(q), SearchInv(q),
           Connect(p) \/ Insert(p) \/ Rebuild(p) \/ Search(p) \/ Kill(p)
    PROVE  MatrixInv(q)' /\ SearchInv(q)'
<1>1. /\ op'[q] = op[q] /\ cache'[q] = cache[q] /\ cached'[q] = cached[q]
      /\ counted'[q] = counted[q] /\ ranked'[q] = ranked[q]
      /\ spoiled'[q] = spoiled[q] /\ (calm'[q] => calm[q])
    BY OthersKeepTheirOwn
<1>2. ~foreign'[q] => ~foreign[q] /\ idx' = idx
    BY CommitsAreSeen
<1>3. MatrixInv(q)'
    BY <1>1, <1>2 DEF MatrixInv
<1>4. calm'[q] =>
          /\ RowsOf(idx) \subseteq RowsOf(idx') /\ Len(idx) <= Len(idx')
          /\ fts \subseteq RowsOf(idx) => fts' \subseteq RowsOf(idx')
    BY CalmMeansGrowth
<1>5. counted[q] \in Nat /\ Len(idx) \in Nat /\ Len(idx)' \in Nat
    BY TypeStep DEF TypeOK
<1>6. RowsOf(cache[q])' = RowsOf(cache[q])
    BY <1>1 DEF RowsOf
<1>7. SearchInv(q)'
    BY <1>1, <1>4, <1>5, <1>6 DEF SearchInv
<1>8. QED
    BY <1>3, <1>7

(* A step, seen from the process that takes it.                            *)
LEMMA OwnMatrixStep ==
    ASSUME TypeOK, NEW p \in Procs, MatrixInv(p), SearchInv(p),
           Connect(p) \/ Insert(p) \/ Rebuild(p) \/ Search(p) \/ Kill(p)
    PROVE  MatrixInv(p)'
<1> USE DEF TypeOK, Goto, At, MatrixInv, Rebuilding
<1>1. CASE PopMatrix(p) \/ Kill(p)
    BY <1>1 DEF PopMatrix, Kill
<1>2. CASE RebuildFails(p)
    BY <1>2 DEF RebuildFails
<1>3. CASE DropIdx(p) \/ DropFts(p) \/ CreateIdx(p) \/ CreateFts(p)
    BY <1>3 DEF DropIdx, DropFts, CreateIdx, CreateFts
<1>4. CASE OpenIdx(p) \/ OpenFts(p)
    BY <1>4 DEF OpenIdx, OpenFts, Create, Committed, matrix
<1>5. CASE LoadMatrix(p)
    BY <1>5 DEF LoadMatrix, file
<1>6. CASE CountFts(p) \/ FetchEnds(p)
    <2>1. /\ UNCHANGED <<idx, foreign, matrix, spoiled>>
          /\ op[p] \notin Rebuilding /\ (op'[p] \notin Rebuilding)
        BY <1>6 DEF CountFts, FetchEnds, EndSearch, NoCommit, file, matrix
    <2>2. QED
        BY <2>1 DEF matrix
<1>7. CASE \/ Reconcile(p) \/ InsertFails(p) \/ CountIdx(p) \/ ReadVersion(p) \/ Match(p)
           \/ FetchHit(p)
    BY <1>7 DEF Reconcile, InsertFails, CountIdx, ReadVersion, Match, FetchHit, NoCommit,
                file, matrix
<1>8. CASE InsertLook(p)
    <2>1. CASE PopMatrix(p)
        BY <1>1, <2>1
    <2>2. CASE UNCHANGED <<matrix, spoiled>>
        BY <1>8, <2>2 DEF InsertLook, NoCommit, file, matrix
    <2>3. QED
        BY <1>8, <2>1, <2>2, Zenon DEF InsertLook
<1>9. CASE InsertCommit(p) \/ Fill(p)
    BY <1>1, <1>9, Zenon DEF InsertCommit, Fill
<1>10. QED
    BY <1>1, <1>2, <1>3, <1>4, <1>5, <1>6, <1>7, <1>8, <1>9, Zenon
    DEF Connect, Insert, Rebuild, Search

(* The check by counts: one table contains the other, so the smaller one   *)
(* is inside the larger.                                                   *)
LEMMA CountsBound ==
    ASSUME TypeOK, Nested, Cardinality(fts) <= Len(idx)
    PROVE  fts \subseteq RowsOf(idx)
<1>1. idx \in Seq(Leaves)
    BY DEF TypeOK
<1>2. IsFiniteSet(RowsOf(idx)) /\ Cardinality(RowsOf(idx)) = Len(idx)
    BY <1>1, RowsCount
<1>3. CASE RowsOf(idx) \subseteq fts
    <2>1. Cardinality(fts) \in Nat /\ Len(idx) \in Nat
        BY <1>1, FS_CardinalityType DEF Nested
    <2>2. /\ Cardinality(RowsOf(idx)) <= Cardinality(fts)
          /\ Cardinality(fts) = Cardinality(RowsOf(idx)) => fts = RowsOf(idx)
        <3>1. IsFiniteSet(fts)
            BY DEF Nested
        <3>2. RowsOf(idx) \in SUBSET fts
            BY <1>3
        <3>3. QED
            BY <3>1, <3>2, FS_Subset, Zenon
    <2>3. RowsOf(idx) = fts
        BY <1>2, <2>1, <2>2
    <2>4. QED
        BY <2>3
<1>4. QED
    BY <1>3 DEF Nested

LEMMA OwnSearchStep ==
    ASSUME TypeOK, Tidy, Nested, OneRowPerLeaf, NEW p \in Procs, MatrixInv(p), SearchInv(p),
           Connect(p) \/ Insert(p) \/ Rebuild(p) \/ Search(p) \/ Kill(p)
    PROVE  SearchInv(p)'
<1> USE DEF TypeOK, Goto, At, SearchInv, search
<1>1. CASE Kill(p)
    BY <1>1 DEF Kill
<1>2. CASE Connect(p) \/ Insert(p) \/ Rebuild(p)
    <2>1. /\ ranked'[p] = ranked[p]
          /\ op[p] \in {"closed", "open_fts", "idle", "insert", "drop_idx", "drop_fts",
                        "create_idx", "create_fts", "fill"}
          /\ op'[p] \notin {"count_fts", "version", "load", "match", "fetch"}
        <3>1. CASE Connect(p)
            BY <3>1 DEF Connect, OpenIdx, OpenFts
        <3>2. CASE Insert(p)
            BY <3>2 DEF Insert, InsertLook, InsertCommit, InsertFails
        <3>3. CASE Rebuild(p)
            BY <3>3 DEF Rebuild, Reconcile, DropIdx, DropFts, CreateIdx, CreateFts, Fill,
                RebuildFails
        <3>4. QED
            BY <1>2, <3>1, <3>2, <3>3
    <2>2. ranked[p] = {}
        BY <2>1
    <2>3. QED
        BY <2>1, <2>2
<1>3. CASE CountIdx(p)
    BY <1>3 DEF CountIdx, NoCommit, file
<1>4. CASE CountFts(p)
    <2>1. CASE EndSearch(p)
        BY <2>1 DEF EndSearch
    <2>2. CASE Cardinality(fts) = counted[p] /\ Goto(p, "version") /\ UNCHANGED search
        <3>1. UNCHANGED <<idx, fts, calm, spoiled>>
            BY <1>4 DEF CountFts, EndSearch, NoCommit, file
        <3>2. calm[p] => fts \subseteq RowsOf(idx)
            <4>1. calm[p] => Cardinality(fts) <= Len(idx)
                BY <1>4, <2>2 DEF CountFts
            <4>2. QED
                BY <4>1, CountsBound, Zenon
        <3>3. ranked[p] = {}
            BY <1>4 DEF CountFts
        <3>4. QED
            BY <2>2, <3>1, <3>2, <3>3 DEF RowsOf
    <2>3. QED
        BY <1>4, <2>1, <2>2 DEF CountFts
<1>5. CASE ReadVersion(p)
    <2>1. /\ UNCHANGED <<idx, fts, cache, calm, spoiled, ranked>>
          /\ op'[p] = "load" \/ (op'[p] = "match" /\ cached[p] /\ ~foreign[p])
          /\ op[p] = "version"
        BY <1>5 DEF ReadVersion, file, matrix
    <2>2. cached[p] /\ ~foreign[p] /\ ~spoiled[p] => cache[p] = idx
        BY <2>1 DEF MatrixInv, Rebuilding
    <2>3. QED
        BY <2>1, <2>2 DEF RowsOf
<1>6. CASE LoadMatrix(p)
    BY <1>6 DEF LoadMatrix, file, RowsOf
<1>7. CASE Match(p)
    <2>1. /\ UNCHANGED <<idx, fts, cache, calm, spoiled>>
          /\ op[p] = "match" /\ op'[p] = "fetch"
          /\ ranked'[p] = RowsOf(cache[p]) \cup fts
        BY <1>7 DEF Match, NoCommit, file, matrix
    <2>2. RowsOf(cache'[p]) = RowsOf(cache[p]) /\ RowsOf(idx') = RowsOf(idx)
        BY <2>1
    <2>3. QED
        BY <2>1, <2>2
<1>8. CASE FetchHit(p)
    <2>1. /\ UNCHANGED <<idx, fts, cache, calm, spoiled>>
          /\ op[p] = "fetch" /\ op'[p] = "fetch"
          /\ ranked'[p] \subseteq ranked[p]
        BY <1>8 DEF FetchHit, NoCommit, file, matrix
    <2>2. RowsOf(cache'[p]) = RowsOf(cache[p]) /\ RowsOf(idx') = RowsOf(idx)
        BY <2>1
    <2>3. QED
        BY <2>1, <2>2
<1>9. CASE FetchEnds(p)
    BY <1>9 DEF FetchEnds, EndSearch
<1>10. QED
    BY <1>1, <1>2, <1>3, <1>4, <1>5, <1>6, <1>7, <1>8, <1>9, Zenon DEF Search

-----------------------------------------------------------------------------
LEMMA IndexInit == Init => IndexInv
<1> SUFFICES ASSUME Init PROVE IndexInv
    OBVIOUS
<1>1. TypeOK
    <2>1. <<>> \in Seq(Leaves)
        OBVIOUS
    <2>2. QED
        BY <2>1 DEF Init, TypeOK, Tables, Statements
<1>2. Tidy /\ OneRowPerLeaf
    BY DEF Init, Tidy, OneRowPerLeaf, Distinct
<1>3. Nested
    BY FS_EmptySet DEF Init, Nested
<1>4. \A p \in Procs : MatrixInv(p) /\ SearchInv(p)
    BY DEF Init, MatrixInv, SearchInv
<1>5. QED
    BY <1>1, <1>2, <1>3, <1>4 DEF IndexInv

LEMMA IndexStep == IndexInv /\ [Next]_vars => IndexInv'
<1> SUFFICES ASSUME IndexInv, [Next]_vars PROVE IndexInv'
    OBVIOUS
<1>1. CASE Next
    <2>1. PICK p \in Procs : Connect(p) \/ Insert(p) \/ Rebuild(p) \/ Search(p) \/ Kill(p)
        BY <1>1 DEF Next
    <2>2. TypeOK' /\ Tidy'
        BY <2>1, TypeStep, TidyStep DEF IndexInv
    <2>3. Nested' /\ OneRowPerLeaf'
        BY <2>1, TablesStep DEF IndexInv
    <2>4. MatrixInv(p)' /\ SearchInv(p)'
        BY <2>1, OwnMatrixStep, OwnSearchStep DEF IndexInv
    <2>5. ASSUME NEW q \in Procs, q # p PROVE MatrixInv(q)' /\ SearchInv(q)'
        BY <2>1, <2>5, OtherStep DEF IndexInv
    <2>6. QED
        BY <2>2, <2>3, <2>4, <2>5 DEF IndexInv
<1>2. CASE UNCHANGED vars
    BY <1>2 DEF vars, file, matrix, search, IndexInv, TypeOK, Tidy, Nested, OneRowPerLeaf,
        MatrixInv, SearchInv
<1>3. QED
    BY <1>1, <1>2

LEMMA IndexAlways == Spec => []IndexInv
BY IndexInit, IndexStep, PTL DEF Spec

(* Every statement of every process leaves the file and the processes'     *)
(* own state well-formed (index.py).                                       *)
THEOREM TypeCorrect == Spec => []TypeOK
<1>1. IndexInv => TypeOK
    BY DEF IndexInv
<1>2. QED
    BY <1>1, IndexAlways, PTL

(* Tables with as many rows have the same rows, so the check by counts     *)
(* that every search starts with misses nothing (_assert_fts_consistent).  *)
THEOREM CountsAreEnough == Spec => []CountsTell
<1>1. IndexInv => CountsTell
    <2> SUFFICES ASSUME IndexInv, Cardinality(fts) = Len(idx) PROVE fts = RowsOf(idx)
        BY DEF CountsTell
    <2>1. idx \in Seq(Leaves)
        BY DEF IndexInv, TypeOK
    <2>2. fts \subseteq RowsOf(idx)
        BY <2>1, CountsBound DEF IndexInv
    <2>3. IsFiniteSet(RowsOf(idx)) /\ Cardinality(RowsOf(idx)) = Len(idx)
        BY <2>1, RowsCount
    <2>4. fts \in SUBSET RowsOf(idx)
        BY <2>2
    <2>5. QED
        BY <2>3, <2>4, FS_Subset
<1>2. QED
    BY <1>1, IndexAlways, PTL

(* A matrix that will be used again is the file's (_matrix, _MATS), unless *)
(* a rebuild of the own process failed since it was read.                  *)
THEOREM MatrixFollowsFile == Spec => []MatrixIsFresh
<1>1. IndexInv => MatrixIsFresh
    BY DEF IndexInv, MatrixInv, MatrixIsFresh, At, Rebuilding
<1>2. QED
    BY <1>1, IndexAlways, PTL

(* A search reports the leaves it ranked (search_theses).                  *)
THEOREM HitsAreRanked == Spec => []HitIsWhatWasRanked
<1>1. IndexInv => HitIsWhatWasRanked
    <2> SUFFICES ASSUME IndexInv, NEW p \in Procs, calm[p] /\ ~spoiled[p],
                        NEW r \in ranked[p]
                 PROVE  r[1] \in 1..Len(idx) /\ idx[r[1]] = r[2]
        BY DEF HitIsWhatWasRanked
    <2>1. r \in RowsOf(idx)
        BY DEF IndexInv, SearchInv
    <2>2. QED
        BY <2>1 DEF RowsOf
<1>2. QED
    BY <1>1, IndexAlways, PTL

=============================================================================
