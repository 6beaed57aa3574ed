------------------------- MODULE VaultExport_proofs -------------------------
(***************************************************************************)
(* Two exports never swap at once, the folder is whole unless a swap was   *)
(* cut short, and foreign notes stay: for any number of exports, any       *)
(* entries of the folder, any lake, and any refusals, errors and deaths.   *)
(*                                                                         *)
(* An export creates its build directory and looks for the others' after   *)
(* it; whoever passed that look keeps its directory until the swap is      *)
(* over.  So two cannot both have passed (OnePast): the later of the two   *)
(* looks would have seen the other's directory.  The folder changes in the *)
(* swap alone, and the marker stands from the first check on, which no     *)
(* export passes over foreign notes (ForeignInv).                          *)
(*                                                                         *)
(* What is swapped in is what was counted, whatever is written to the lake *)
(* while it is read (ReadInv): the lake only grows, so a list that is no   *)
(* longer than its count holds what was counted, and as many notes as      *)
(* nodes were counted, each of such a node, are a note for each.           *)
(***************************************************************************)
EXTENDS VaultExport, SequenceTheorems, FiniteSetTheorems, TLAPS

(* Past the look for other builds, with a build directory of its own.      *)
Past(e) == e \in build /\ pc[e] \in {"names", "drop", "move"}

(* The first check is behind it.                                           *)
Opened(e) == pc[e] \in {"mark", "build", "write", "drop", "move"}

Started == \A e \in Exports : pc[e] # "idle" => run[e] # 0

OnePast ==
    /\ \A e \in Exports : pc[e] \in Swapping => e \in build
    /\ \A e, f \in Exports : Past(e) /\ Past(f) => e = f

ForeignInv ==
    (\E n \in Owned : entry[n] = Stranger) => ~marker /\ \A e \in Exports : ~Opened(e)

VaultInv == TypeOK /\ Started /\ OnePast /\ ForeignInv /\ VaultIsWhole

-----------------------------------------------------------------------------
(* The sequences a page and the writers of the lake make.                  *)
LEMMA MinOfTwo ==
    ASSUME NEW a \in Nat, NEW b \in Nat
    PROVE  Min({a, b}) \in Nat /\ Min({a, b}) <= a /\ Min({a, b}) <= b
<1> DEFINE m == IF a <= b THEN a ELSE b
<1>1. m \in {a, b} /\ \A y \in {a, b} : m <= y
    OBVIOUS
<1>2. \A x \in {a, b} : (\A y \in {a, b} : x <= y) => x = m
    OBVIOUS
<1>3. QED
    BY <1>1, <1>2 DEF Min

LEMMA RangeType ==
    ASSUME NEW S, NEW s \in Seq(S)
    PROVE  Range(s) \subseteq S
BY DEF Range

LEMMA PageType ==
    ASSUME NEW S, NEW T, NEW rows \in Seq(S), NEW out \in Seq(T)
    PROVE  PageOf(rows, out) \in Seq(S)
<1> DEFINE n == Min({Len(out) + Page, Len(rows)})
<1>1. Len(out) + Page \in Nat /\ Len(rows) \in Nat
    BY VaultAssumption
<1>2. n \in Nat /\ n <= Len(rows)
    BY <1>1, MinOfTwo
<1> HIDE DEF n
<1>3. \A i \in Len(out) + 1..n : rows[i] \in S
    BY <1>2
<1>4. SubSeq(rows, Len(out) + 1, n) \in Seq(S)
    BY <1>2, <1>3, SubSeqProperties
<1>5. QED
    BY <1>4 DEF PageOf, n

LEMMA PartType ==
    ASSUME NEW S, NEW s \in Seq(S), NEW m \in Nat \ {0}, NEW n \in Nat, n <= Len(s)
    PROVE  SubSeq(s, m, n) \in Seq(S)
<1>1. \A i \in m..n : s[i] \in S
    OBVIOUS
<1>2. QED
    BY <1>1, SubSeqProperties

LEMMA InsertType ==
    ASSUME NEW S, NEW s \in Seq(S), NEW n \in 1..Len(s) + 1, NEW x \in S
    PROVE  InsertAt(s, n, x) \in Seq(S)
<1>1. SubSeq(s, 1, n - 1) \in Seq(S) /\ SubSeq(s, n, Len(s)) \in Seq(S)
    BY PartType
<1>2. QED
    BY <1>1 DEF InsertAt

LEMMA RemoveType ==
    ASSUME NEW S, NEW s \in Seq(S), NEW n \in 1..Len(s)
    PROVE  RemoveAt(s, n) \in Seq(S)
<1>1. SubSeq(s, 1, n - 1) \in Seq(S) /\ SubSeq(s, n + 1, Len(s)) \in Seq(S)
    BY PartType
<1>2. QED
    BY <1>1 DEF RemoveAt

-----------------------------------------------------------------------------
LEMMA InitInv == Init => VaultInv
<1> SUFFICES ASSUME Init PROVE VaultInv
    OBVIOUS
<1> USE VaultAssumption DEF Init
<1>1. TypeOK
    <2>1. /\ sources \in Seq(Sources) /\ ideas \in Seq(Ideas) /\ leaves \in Seq(Leaves)
          /\ home \in [Leaves -> Ideas \cup {None}] /\ origin \in [Leaves -> Sources \cup {None}]
        OBVIOUS
    <2>2. Nothing \in Rows
        BY EmptySeq DEF Nothing, Rows
    <2>3. /\ got \in [Exports -> Rows]
          /\ counted \in [Exports -> [sources : Nat, ideas : Nat, leaves : Nat]]
        BY <2>2
    <2>4. entry \in [Owned -> Author] /\ vault \in Author
        BY DEF Author
    <2>5. /\ deaths \in 0..MaxDeaths /\ left \in 0..deaths /\ writes \in 0..MaxWrites
          /\ run \in [Exports -> 0..MaxRuns]
        OBVIOUS
    <2>6. marker \in BOOLEAN /\ stray \in BOOLEAN /\ torn \in BOOLEAN
        OBVIOUS
    <2>7. /\ build \subseteq Exports /\ pc \in [Exports -> Steps]
          /\ notes \in [Exports -> SUBSET Nodes] /\ asOf \in [Exports -> SUBSET Nodes]
        BY DEF Steps
    <2>8. QED
        BY <2>1, <2>3, <2>4, <2>5, <2>6, <2>7 DEF TypeOK
<1>2. Started /\ OnePast
    <2>1. \A e \in Exports : pc[e] = "idle" /\ e \notin build
        OBVIOUS
    <2>2. Started
        BY <2>1 DEF Started
    <2>3. OnePast
        BY <2>1 DEF OnePast, Past, Swapping
    <2>4. QED
        BY <2>2, <2>3
<1>3. ForeignInv
    BY DEF ForeignInv, Opened
<1>4. VaultIsWhole
    BY DEF VaultIsWhole
<1>5. QED
    BY <1>1, <1>2, <1>3, <1>4 DEF VaultInv

(* Types, one action after the other.                                      *)
LEMMA WriteType == TypeOK /\ Write => TypeOK'
<1> SUFFICES ASSUME TypeOK, Write PROVE TypeOK'
    OBVIOUS
<1> USE VaultAssumption DEF TypeOK, Wrote, Others, folder, reads, past
<1>1. ASSUME NEW s \in Sources, AddSource(s) PROVE TypeOK'
    <2>1. PICK n \in 1..Len(sources) + 1 : sources' = InsertAt(sources, n, s)
        BY <1>1 DEF AddSource
    <2>2. sources' \in Seq(Sources)
        BY <2>1, InsertType
    <2>3. QED
        BY <1>1, <2>2 DEF AddSource
<1>2. ASSUME NEW s \in Sources, Repost(s) PROVE TypeOK'
    <2>1. PICK n \in 1..Len(sources) : sources' = Append(RemoveAt(sources, n), s)
        BY <1>2 DEF Repost
    <2>2. sources' \in Seq(Sources)
        BY <2>1, RemoveType, AppendProperties
    <2>3. QED
        BY <1>2, <2>2 DEF Repost
<1>3. ASSUME NEW l \in Leaves, NEW i \in Ideas, MoveLeaf(l, i) PROVE TypeOK'
    BY <1>3 DEF MoveLeaf
<1>4. ASSUME NEW l \in Leaves, NEW i \in Ideas, NEW s \in Sources, AddLeaf(l, i, s) PROVE TypeOK'
    BY <1>4 DEF AddLeaf
<1>5. QED
    BY <1>1, <1>2, <1>3, <1>4 DEF Write

(* A page is added to one of the four lists, or the read is given up.      *)
LEMMA RowsType ==
    ASSUME NEW r \in Rows
    PROVE  /\ \A x \in Seq(Sources) : [r EXCEPT !.sources = r.sources \o x] \in Rows
           /\ \A x \in Seq([id : Leaves, idea : Ideas \cup {None}, source : Sources \cup {None}]) :
                [r EXCEPT !.theses = r.theses \o x] \in Rows
           /\ \A x \in Seq(Ideas) : [r EXCEPT !.ids = r.ids \o x] \in Rows
           /\ \A x \in Seq([id : Ideas, leaves : SUBSET Leaves]) :
                [r EXCEPT !.ideas = r.ideas \o x] \in Rows
<1> DEFINE T == [id : Leaves, idea : Ideas \cup {None}, source : Sources \cup {None}]
           I == [id : Ideas, leaves : SUBSET Leaves]
<1>1. /\ r.sources \in Seq(Sources) /\ r.theses \in Seq(T)
      /\ r.ids \in Seq(Ideas) /\ r.ideas \in Seq(I)
    BY DEF Rows
<1> HIDE DEF T, I
<1>2. /\ \A x \in Seq(Sources) : r.sources \o x \in Seq(Sources)
      /\ \A x \in Seq(T) : r.theses \o x \in Seq(T)
      /\ \A x \in Seq(Ideas) : r.ids \o x \in Seq(Ideas)
      /\ \A x \in Seq(I) : r.ideas \o x \in Seq(I)
    BY <1>1
<1>3. /\ \A y \in Seq(Sources) : [r EXCEPT !.sources = y] \in Rows
      /\ \A y \in Seq(T) : [r EXCEPT !.theses = y] \in Rows
      /\ \A y \in Seq(Ideas) : [r EXCEPT !.ids = y] \in Rows
      /\ \A y \in Seq(I) : [r EXCEPT !.ideas = y] \in Rows
    BY DEF Rows, T, I
<1>4. QED
    BY <1>2, <1>3 DEF T, I

LEMMA ReadAllType ==
    ASSUME TypeOK, NEW e \in Exports, NEW field, NEW rows, NEW expected,
           NEW next \in Steps, ReadAll(e, field, rows, expected, next),
           [got[e] EXCEPT ![field] = got[e][field] \o rows] \in Rows
    PROVE  TypeOK'
<1>1. Nothing \in Rows
    BY EmptySeq DEF Nothing, Rows
<1>2. got' \in [Exports -> Rows]
    BY <1>1 DEF ReadAll, Refuse, TypeOK
<1>3. pc' \in [Exports -> Steps]
    BY DEF ReadAll, Refuse, Goto, TypeOK, Steps
<1>4. UNCHANGED <<lake, folder, build, run, counted, asOf, notes, past>>
    BY DEF ReadAll
<1>5. QED
    BY <1>2, <1>3, <1>4 DEF TypeOK, lake, folder, past

LEMMA ReadType ==
    ASSUME TypeOK, NEW e \in Exports, Read(e)
    PROVE  TypeOK'
<1> USE DEF Steps
<1>1. got[e] \in Rows
    BY DEF TypeOK
<1>2. ASSUME ReadAll(e, "sources", PageOf(sources, got[e].sources), counted[e].sources, "theses")
      PROVE  TypeOK'
    <2> DEFINE rows == PageOf(sources, got[e].sources)
    <2>1. got[e].sources \in Seq(Sources) /\ sources \in Seq(Sources)
        BY <1>1 DEF Rows, TypeOK
    <2>2. rows \in Seq(Sources)
        BY <2>1, PageType
    <2> HIDE DEF rows
    <2>3. [got[e] EXCEPT !["sources"] = got[e]["sources"] \o rows] \in Rows
        BY <1>1, <2>2, RowsType
    <2>4. ReadAll(e, "sources", rows, counted[e].sources, "theses")
        BY <1>2 DEF rows
    <2>5. QED
        BY <2>3, <2>4, ReadAllType
<1>3. ASSUME ReadAll(e, "theses", PageOf(ThesisRows, got[e].theses), counted[e].leaves, "ids")
      PROVE  TypeOK'
    <2> DEFINE T == [id : Leaves, idea : Ideas \cup {None}, source : Sources \cup {None}]
               rows == PageOf(ThesisRows, got[e].theses)
    <2>1. ThesisRows \in Seq(T) /\ got[e].theses \in Seq(T)
        BY <1>1 DEF ThesisRows, TypeOK, Rows
    <2>2. rows \in Seq(T)
        BY <2>1, PageType
    <2> HIDE DEF rows
    <2>3. [got[e] EXCEPT !["theses"] = got[e]["theses"] \o rows] \in Rows
        BY <1>1, <2>2, RowsType
    <2>4. ReadAll(e, "theses", rows, counted[e].leaves, "ids")
        BY <1>3 DEF rows
    <2>5. QED
        BY <2>3, <2>4, ReadAllType
<1>4. ASSUME ReadAll(e, "ids", PageOf(ideas, got[e].ids), counted[e].ideas, "ideas")
      PROVE  TypeOK'
    <2> DEFINE rows == PageOf(ideas, got[e].ids)
    <2>1. got[e].ids \in Seq(Ideas) /\ ideas \in Seq(Ideas)
        BY <1>1 DEF Rows, TypeOK
    <2>2. rows \in Seq(Ideas)
        BY <2>1, PageType
    <2> HIDE DEF rows
    <2>3. [got[e] EXCEPT !["ids"] = got[e]["ids"] \o rows] \in Rows
        BY <1>1, <2>2, RowsType
    <2>4. ReadAll(e, "ids", rows, counted[e].ideas, "ideas")
        BY <1>4 DEF rows
    <2>5. QED
        BY <2>3, <2>4, ReadAllType
<1>5. QED
    BY <1>2, <1>3, <1>4 DEF Read

LEMMA ReadIdeasType ==
    ASSUME TypeOK, NEW e \in Exports, ReadIdeas(e)
    PROVE  TypeOK'
<1> DEFINE I == [id : Ideas, leaves : SUBSET Leaves]
           ids == PageOf(got[e].ids, got[e].ideas)
           rows == [n \in 1..Len(ids) |-> IdeaRow(ids[n])]
<1>1. got[e] \in Rows /\ got[e].ids \in Seq(Ideas) /\ got[e].ideas \in Seq(I)
    BY DEF TypeOK, Rows
<1>2. ids \in Seq(Ideas)
    BY <1>1, PageType
<1>3. \A i \in Ideas : IdeaRow(i) \in I
    <2>1. Range(leaves) \subseteq Leaves
        BY DEF TypeOK, Range
    <2>2. QED
        BY <2>1 DEF IdeaRow
<1>4. UNCHANGED <<lake, folder, build, run, counted, asOf, notes, past>>
    BY DEF ReadIdeas
<1> HIDE DEF ids
<1>5. rows \in Seq(I)
    BY <1>2, <1>3
<1> HIDE DEF rows
<1>6. pc' \in [Exports -> Steps]
    BY DEF ReadIdeas, TypeOK, Goto, Steps, ids
<1>7. [got[e] EXCEPT !.ideas = got[e].ideas \o rows] \in Rows
    BY <1>1, <1>5, RowsType
<1>8. got' \in [Exports -> Rows]
    <2>1. \/ UNCHANGED got
          \/ got' = [got EXCEPT ![e].ideas = @ \o rows]
        BY DEF ReadIdeas, ids, rows
    <2>2. QED
        BY <2>1, <1>7 DEF TypeOK
<1>9. QED
    BY <1>4, <1>6, <1>8 DEF TypeOK, lake, folder, past

(* The steps of an export over the folder.                                 *)
LEMMA FolderType ==
    ASSUME TypeOK, NEW e \in Exports,
           \/ Check(e) \/ CheckOthers(e) \/ CheckNames(e) \/ Mark(e) \/ MakeBuild(e)
           \/ Drop(e) \/ Break(e) \/ Clean(e) \/ Die(e)
    PROVE  TypeOK'
<1>1. Nothing \in Rows
    BY EmptySeq DEF Nothing, Rows
<1>2. UNCHANGED <<lake, run, counted, asOf>>
    BY DEF Check, CheckOthers, CheckNames, Mark, MakeBuild, Drop, Break, Clean, Die, folder, past, reads
<1>3. pc' \in [Exports -> Steps]
    BY DEF TypeOK, Check, CheckOthers, CheckNames, Mark, MakeBuild, Drop, Break, Clean, Die,
           Conflict, Refuse, Goto, Steps
<1>4. got' \in [Exports -> Rows]
    BY <1>1 DEF TypeOK, Check, CheckOthers, CheckNames, Mark, MakeBuild, Drop, Break, Clean, Die,
           Conflict, Refuse, reads
<1>5. notes' \in [Exports -> SUBSET Nodes]
    BY DEF TypeOK, Check, CheckOthers, CheckNames, Mark, MakeBuild, Drop, Break, Clean, Die
<1>6. /\ build' \subseteq Exports /\ marker' \in BOOLEAN /\ stray' \in BOOLEAN /\ torn' \in BOOLEAN
    <2>1. build' \subseteq Exports
        BY DEF TypeOK, Check, CheckOthers, CheckNames, Mark, MakeBuild, Drop, Break, Clean, Die
    <2>2. /\ marker' \in {marker, TRUE} /\ UNCHANGED stray
          /\ torn' \in {torn, TRUE, FALSE}
        BY DEF TypeOK, Check, CheckOthers, CheckNames, Mark, MakeBuild, Drop, Break, Clean, Die,
               folder, past
    <2>3. QED
        BY <2>1, <2>2 DEF TypeOK
<1>7. deaths' \in 0..MaxDeaths /\ left' \in 0..deaths'
    <2>1. \/ UNCHANGED <<deaths, left>>
          \/ deaths < MaxDeaths /\ deaths' = deaths + 1 /\ left' \in {left, left + 1}
        BY SMTT(60) DEF Check, CheckOthers, CheckNames, Mark, MakeBuild, Drop, Break, Clean, Die, folder, past
    <2>2. QED
        BY <2>1, VaultAssumption DEF TypeOK
<1>8. entry' \in [Owned -> Author] /\ vault' \in Author
    BY DEF TypeOK, Check, CheckOthers, CheckNames, Mark, MakeBuild, Drop, Break, Clean, Die,
           folder, past, Author
<1>9. QED
    BY <1>2, <1>3, <1>4, <1>5, <1>6, <1>7, <1>8 DEF TypeOK, lake

(* The entries that an export moves in, the last of them the end of it.    *)
LEMMA MoveEntry ==
    ASSUME TypeOK, Started, NEW e \in Exports, Move(e)
    PROVE  \E n \in 1..Len(Entries) :
             /\ Mine(e) \in Runs /\ Entries[n] \in Owned
             /\ \A m \in 1..n : (m < n) <=> (entry[Entries[m]] = Mine(e))
             /\ entry' = [entry EXCEPT ![Entries[n]] = Mine(e)]
             /\ \/ n < Len(Entries) /\ UNCHANGED <<pc, vault, torn>>
                \/ /\ n = Len(Entries)
                   /\ pc' = [pc EXCEPT ![e] = "clean"] /\ vault' = Mine(e) /\ torn' = FALSE
<1>1. Mine(e) \in Runs
    BY DEF Move, Mine, Runs, Started, TypeOK
<1>2. \A n \in 1..Len(Entries) : Entries[n] \in Owned
    BY VaultAssumption
<1>3. PICK n \in 1..Len(Entries) :
         /\ \A m \in 1..n : (m < n) <=> (entry[Entries[m]] = Mine(e))
         /\ entry' = [entry EXCEPT ![Entries[n]] = Mine(e)]
         /\ IF n < Len(Entries) THEN UNCHANGED <<pc, vault, torn>>
            ELSE Goto(e, "clean") /\ vault' = Mine(e) /\ torn' = FALSE
    BY DEF Move
<1>4. n < Len(Entries) \/ n = Len(Entries)
    BY VaultAssumption
<1>5. QED
    BY <1>1, <1>2, <1>3, <1>4 DEF Goto

LEMMA StepType == TypeOK /\ Started /\ [Next]_vars => TypeOK' /\ Started'
<1> SUFFICES ASSUME TypeOK, Started, [Next]_vars PROVE TypeOK' /\ Started'
    OBVIOUS
<1>1. ASSUME NEW e \in Exports, Export(e) PROVE TypeOK'
    <2>1. CASE Count(e)
        <3>1. InLake \in SUBSET Nodes
            BY DEF TypeOK, InLake, Nodes, Range
        <3>2. /\ pc' \in [Exports -> Steps] /\ run' \in [Exports -> 0..MaxRuns]
              /\ asOf' \in [Exports -> SUBSET Nodes]
              /\ counted' \in [Exports -> [sources : Nat, ideas : Nat, leaves : Nat]]
            BY <2>1, <3>1, VaultAssumption DEF Count, Goto, TypeOK, Steps
        <3>3. QED
            BY <2>1, <3>2 DEF Count, TypeOK, lake, folder, past
    <2>2. CASE Read(e)
        BY <2>2, ReadType
    <2>3. CASE ReadIdeas(e)
        BY <2>3, ReadIdeasType
    <2>4. CASE WriteNotes(e)
        <3>1. ReadNodes(e) \subseteq Nodes
            <4> DEFINE T == [id : Leaves, idea : Ideas \cup {None}, source : Sources \cup {None}]
            <4>1. /\ got[e].sources \in Seq(Sources) /\ got[e].ids \in Seq(Ideas)
                  /\ got[e].theses \in Seq(T)
                BY DEF TypeOK, Rows
            <4>2. /\ Range(got[e].sources) \subseteq Sources /\ Range(got[e].ids) \subseteq Ideas
                  /\ Range(got[e].theses) \subseteq T
                BY <4>1, RangeType
            <4>3. QED
                BY <4>2 DEF ReadNodes, Listed, Nodes
        <3>2. notes' \in [Exports -> SUBSET Nodes] /\ pc' \in [Exports -> Steps]
            BY <2>4, <3>1 DEF WriteNotes, Goto, TypeOK, Steps
        <3>3. QED
            BY <2>4, <3>2 DEF WriteNotes, TypeOK, lake, folder, reads, past
    <2>5. CASE Move(e)
        <3>1. entry' \in [Owned -> Author] /\ vault' \in Author /\ torn' \in BOOLEAN
            BY <2>5, MoveEntry DEF TypeOK, Author
        <3>2. pc' \in [Exports -> Steps]
            BY <2>5, MoveEntry DEF TypeOK, Steps
        <3>3. QED
            BY <2>5, <3>1, <3>2 DEF Move, TypeOK, lake, reads
    <2>6. QED
        BY <1>1, <2>1, <2>2, <2>3, <2>4, <2>5, FolderType DEF Export
<1>2. ASSUME Write PROVE TypeOK'
    BY <1>2, WriteType
<1>3. ASSUME RemoveLeft PROVE TypeOK'
    <2>1. left' \in 0..deaths
        BY <1>3, VaultAssumption DEF RemoveLeft, TypeOK
    <2>2. QED
        BY <1>3, <2>1 DEF RemoveLeft, TypeOK, lake, reads, past
<1>4. ASSUME Litter PROVE TypeOK'
    BY <1>4 DEF Litter, TypeOK, lake, reads, past
<1>5. ASSUME UNCHANGED vars PROVE TypeOK'
    BY <1>5 DEF TypeOK, vars, lake, folder, reads, past
<1>6. TypeOK'
    BY <1>1, <1>2, <1>3, <1>4, <1>5 DEF Next
<1>7. Started'
    <2>1. ASSUME NEW e \in Exports, Export(e) PROVE Started'
        <3>1. CASE Count(e)
            BY <3>1 DEF Count, Goto, Started, TypeOK
        <3>2. CASE ~Count(e)
            <4>1. /\ UNCHANGED run
                  /\ \/ UNCHANGED pc
                     \/ pc[e] # "idle" /\ \E s \in Steps : pc' = [pc EXCEPT ![e] = s]
                BY <2>1, <3>2 DEF Export, Read, ReadAll, ReadIdeas, Check, CheckOthers, CheckNames, Mark,
                   MakeBuild, WriteNotes, Drop, Move, Break, Clean, Die, Conflict, Refuse, Goto, Steps, Swapping
            <4>2. QED
                BY <4>1 DEF Started, TypeOK
        <3>3. QED
            BY <3>1, <3>2
    <2>2. CASE Write \/ RemoveLeft \/ Litter \/ UNCHANGED vars
        BY <2>2 DEF Write, AddSource, Repost, AddLeaf, MoveLeaf, Others, RemoveLeft, Litter, vars, Started
    <2>3. QED
        BY <2>1, <2>2 DEF Next
<1>8. QED
    BY <1>6, <1>7

-----------------------------------------------------------------------------
(* What a step does to the marker, the entries and the places of exports.  *)
LEMMA Elsewhere ==
    ASSUME Write \/ RemoveLeft \/ Litter \/ UNCHANGED vars
    PROVE  UNCHANGED <<pc, build, marker, entry, vault, torn>>
BY DEF Write, AddSource, Repost, AddLeaf, MoveLeaf, Others, RemoveLeft, Litter, vars, folder, past

(* Only one export can be past its second look for other builds.           *)
LEMMA OnePastStep == TypeOK /\ OnePast /\ [Next]_vars => OnePast'
<1> SUFFICES ASSUME TypeOK, OnePast, [Next]_vars PROVE OnePast'
    OBVIOUS
<1>1. ASSUME NEW e \in Exports, Export(e) PROVE OnePast'
    <2> USE <1>1 DEF OnePast, TypeOK, Past, Swapping, Steps, Goto
    <2>1. CASE Count(e) \/ Read(e) \/ ReadIdeas(e) \/ Check(e) \/ WriteNotes(e) \/ Break(e)
        BY <2>1, ZenonT(60) DEF Count, Read, ReadAll, ReadIdeas, Check, WriteNotes, Break, Refuse, folder
    <2>2. CASE CheckOthers(e)
        <3>1. CASE OthersBuild(e)
            BY <2>2, <3>1 DEF CheckOthers, Conflict, Refuse
        <3>2. CASE ~OthersBuild(e)
            <4>1. build \subseteq {e} /\ build' = build /\ pc' = [pc EXCEPT ![e] = "names"]
                BY <2>2, <3>2 DEF CheckOthers, OthersBuild
            <4>2. QED
                BY <4>1
        <3>3. QED
            BY <3>1, <3>2
    <2>3. CASE CheckNames(e)
        BY <2>3 DEF CheckNames, Conflict, Refuse
    <2>4. CASE Mark(e) \/ MakeBuild(e)
        BY <2>4 DEF Mark, MakeBuild
    <2>5. CASE Drop(e)
        BY <2>5 DEF Drop
    <2>6. CASE Move(e)
        BY <2>6 DEF Move
    <2>7. CASE Clean(e) \/ Die(e)
        BY <2>7 DEF Clean, Die, Refuse
    <2>8. QED
        BY <2>1, <2>2, <2>3, <2>4, <2>5, <2>6, <2>7 DEF Export
<1>2. ASSUME Write \/ RemoveLeft \/ Litter \/ UNCHANGED vars PROVE OnePast'
    BY <1>2, Elsewhere DEF OnePast, Past
<1>3. QED
    BY <1>1, <1>2 DEF Next

(* Foreign notes are there only while no export is past its first check.   *)
LEMMA ForeignStep ==
    TypeOK /\ Started /\ ForeignInv /\ [Next]_vars =>
      ForeignInv' /\ (\A n \in Owned : entry[n] = Stranger => entry'[n] = Stranger)
<1> SUFFICES ASSUME TypeOK, Started, ForeignInv, [Next]_vars
             PROVE  ForeignInv' /\ (\A n \in Owned : entry[n] = Stranger => entry'[n] = Stranger)
    OBVIOUS
<1> DEFINE Goal == ForeignInv' /\ (\A n \in Owned : entry[n] = Stranger => entry'[n] = Stranger)
<1>0. Stranger # None /\ Stranger \notin Runs
    BY VaultAssumption
<1>1. ASSUME NEW e \in Exports, Export(e) PROVE Goal
    <2> USE <1>1 DEF ForeignInv, TypeOK, Opened, Steps, Goto
    <2>1. CASE \/ Count(e) \/ Read(e) \/ ReadIdeas(e) \/ Check(e) \/ CheckOthers(e)
               \/ WriteNotes(e) \/ Break(e) \/ Clean(e) \/ Die(e)
        <3>1. UNCHANGED <<entry, marker>>
            BY <2>1 DEF Count, Read, ReadAll, ReadIdeas, Check, CheckOthers, WriteNotes, Break, Clean, Die,
               folder
        <3>2. \A f \in Exports : Opened(f)' => Opened(f)
            BY <2>1 DEF Count, Read, ReadAll, ReadIdeas, Check, CheckOthers, WriteNotes, Break, Clean, Die,
               Conflict, Refuse
        <3>3. QED
            BY <3>1, <3>2
    <2>2. CASE CheckNames(e)
        <3>1. UNCHANGED <<entry, marker>>
            BY <2>2 DEF CheckNames, folder
        <3>2. CASE Foreign
            BY <2>2, <3>1, <3>2 DEF CheckNames, Conflict, Refuse
        <3>3. CASE ~Foreign
            <4>1. \A n \in Owned : entry[n] # Stranger
                BY <1>0, <3>3 DEF Foreign
            <4>2. QED
                BY <3>1, <4>1
        <3>4. QED
            BY <3>2, <3>3
    <2>3. CASE Mark(e) \/ MakeBuild(e)
        BY <2>3 DEF Mark, MakeBuild, folder
    <2>4. CASE Drop(e)
        BY <1>0, <2>4 DEF Drop
    <2>5. CASE Move(e)
        <3>1. \A n \in Owned : entry[n] # Stranger
            BY <2>5 DEF Move
        <3>2. \A n \in Owned : entry'[n] # Stranger
            BY <1>0, <2>5, <3>1, MoveEntry
        <3>3. QED
            BY <3>1, <3>2
    <2>6. QED
        BY <2>1, <2>2, <2>3, <2>4, <2>5 DEF Export
<1>2. ASSUME Write \/ RemoveLeft \/ Litter \/ UNCHANGED vars PROVE Goal
    BY <1>2, Elsewhere DEF ForeignInv, Opened
<1>3. QED
    BY <1>1, <1>2 DEF Next

(* The folder changes in a swap, and a swap ends whole or is cut short.    *)
LEMMA WholeStep == TypeOK /\ Started /\ OnePast /\ VaultIsWhole /\ [Next]_vars => VaultIsWhole'
<1> SUFFICES ASSUME TypeOK, Started, OnePast, VaultIsWhole, [Next]_vars PROVE VaultIsWhole'
    OBVIOUS
<1>1. ASSUME NEW e \in Exports, Export(e) PROVE VaultIsWhole'
    <2> USE <1>1 DEF VaultIsWhole, TypeOK, Swapping, Steps, Goto
    <2>1. CASE \/ Count(e) \/ Read(e) \/ ReadIdeas(e) \/ Check(e) \/ CheckOthers(e) \/ Mark(e)
               \/ MakeBuild(e) \/ WriteNotes(e) \/ Clean(e)
        <3>1. pc[e] \notin Swapping /\ UNCHANGED <<entry, vault, torn>>
            BY <2>1 DEF Count, Read, ReadAll, ReadIdeas, Check, CheckOthers, Mark, MakeBuild, WriteNotes,
               Clean, folder, past
        <3>2. \A f \in Exports : f # e => pc'[f] = pc[f]
            BY <2>1 DEF Count, Read, ReadAll, ReadIdeas, Check, CheckOthers, Mark, MakeBuild, WriteNotes,
               Clean, Conflict, Refuse
        <3>3. QED
            BY <3>1, <3>2
    <2>2. CASE CheckNames(e)
        BY <2>2 DEF CheckNames, Conflict, Refuse, folder, past
    <2>3. CASE Drop(e)
        BY <2>3 DEF Drop, past
    <2>4. CASE Move(e)
        <3>1. PICK n \in 1..Len(Entries) :
                /\ \A m \in 1..n : (m < n) <=> (entry[Entries[m]] = Mine(e))
                /\ entry' = [entry EXCEPT ![Entries[n]] = Mine(e)]
                /\ \/ n < Len(Entries) /\ UNCHANGED <<pc, vault, torn>>
                   \/ /\ n = Len(Entries)
                      /\ pc' = [pc EXCEPT ![e] = "clean"] /\ vault' = Mine(e) /\ torn' = FALSE
            BY <2>4, MoveEntry
        <3>2. CASE n < Len(Entries)
            BY <2>4, <3>1, <3>2 DEF Move
        <3>3. CASE n = Len(Entries)
            <4>1. \A m \in 1..n : Entries[m] \in Owned /\ entry'[Entries[m]] = Mine(e)
                BY <3>1, <3>3, VaultAssumption
            <4>2. \A x \in Owned : \E m \in 1..n : x = Entries[m]
                BY <3>3, VaultAssumption DEF Owned, Range
            <4>3. QED
                BY <3>1, <3>3, <4>1, <4>2
        <3>4. QED
            BY <3>1, <3>2, <3>3
    <2>5. CASE Break(e) \/ Die(e)
        BY <2>5 DEF Break, Die, Refuse, folder
    <2>6. QED
        BY <2>1, <2>2, <2>3, <2>4, <2>5 DEF Export
<1>2. ASSUME Write \/ RemoveLeft \/ Litter \/ UNCHANGED vars PROVE VaultIsWhole'
    BY <1>2, Elsewhere DEF VaultIsWhole
<1>3. QED
    BY <1>1, <1>2 DEF Next

LEMMA StepInv == VaultInv /\ [Next]_vars => VaultInv'
BY StepType, OnePastStep, ForeignStep, WholeStep DEF VaultInv

THEOREM VaultInvariant == Spec => []VaultInv
BY InitInv, StepInv, PTL DEF Spec

-----------------------------------------------------------------------------
(* Every variable keeps its type, the rows of a read that outgrew its      *)
(* counts included.                                                        *)
THEOREM TypeCorrect == Spec => []TypeOK
<1>1. VaultInv => TypeOK
    BY DEF VaultInv
<1>2. QED
    BY <1>1, VaultInvariant, PTL

(* Two exports never delete and move in the folder at once (_check_dest,   *)
(* called again when the build directory stands).                          *)
THEOREM SwapsExclude == Spec => []OneSwap
<1>1. VaultInv => OneSwap
    BY DEF VaultInv, OnePast, OneSwap, Past, Swapping
<1>2. QED
    BY <1>1, VaultInvariant, PTL

(* Without a swap that was cut short the folder is one export's, whole.    *)
THEOREM FolderIsWhole == Spec => []VaultIsWhole
<1>1. VaultInv => VaultIsWhole
    BY DEF VaultInv
<1>2. QED
    BY <1>1, VaultInvariant, PTL

(* Notes no export wrote are never deleted or moved over.                  *)
THEOREM ForeignNotesStay == Spec => ForeignStays
<1>1. VaultInv /\ [Next]_vars =>
        [\A n \in Owned : entry[n] = Stranger => entry'[n] = Stranger]_vars
    BY ForeignStep DEF VaultInv
<1>2. QED
    BY <1>1, VaultInvariant, PTL DEF Spec, ForeignStays

-----------------------------------------------------------------------------
(* What the pages hold and how a list of the lake grows.                   *)
LEMMA MinIsOne ==
    ASSUME NEW a \in Nat, NEW b \in Nat
    PROVE  Min({a, b}) \in {a, b}
<1> DEFINE m == IF a <= b THEN a ELSE b
<1>1. m \in {a, b} /\ \A y \in {a, b} : m <= y
    OBVIOUS
<1>2. QED
    BY <1>1 DEF Min

(* A page is of rows of the list; it is empty at the end of the list only. *)
LEMMA PageHolds ==
    ASSUME NEW S, NEW T, NEW rows \in Seq(S), NEW out \in Seq(T)
    PROVE  /\ Range(PageOf(rows, out)) \subseteq Range(rows)
           /\ PageOf(rows, out) = <<>> => Len(rows) <= Len(out)
<1> DEFINE m == Len(out) + 1
           n == Min({Len(out) + Page, Len(rows)})
           page == PageOf(rows, out)
<1>1. Len(out) + Page \in Nat /\ Len(rows) \in Nat /\ Page \in Nat /\ Page >= 1 /\ Len(out) \in Nat
    BY VaultAssumption
<1>2. n \in Nat /\ n <= Len(rows) /\ n \in {Len(out) + Page, Len(rows)}
    BY <1>1, MinOfTwo, MinIsOne
<1>3. m \in Nat /\ m >= 1 /\ page = SubSeq(rows, m, n)
    BY <1>1 DEF PageOf
<1> HIDE DEF m, n, page
<1>4. \A i \in m..n : rows[i] \in S
    BY <1>2, <1>3
<1>5. /\ page \in Seq(S)
      /\ Len(page) = IF m <= n THEN n - m + 1 ELSE 0
      /\ \A i \in 1..n - m + 1 : page[i] = rows[m + i - 1]
    BY <1>2, <1>3, <1>4, SubSeqProperties
<1>6. ASSUME NEW x \in Range(page) PROVE x \in Range(rows)
    <2>1. PICK i \in 1..Len(page) : x = page[i]
        BY <1>5, <1>6 DEF Range
    <2>2. m <= n /\ i \in 1..n - m + 1 /\ m + i - 1 \in 1..Len(rows)
        BY <1>2, <1>3, <1>5, <2>1
    <2>3. x = rows[m + i - 1]
        BY <1>5, <2>1, <2>2
    <2>4. QED
        BY <2>2, <2>3 DEF Range
<1>7. ASSUME page = <<>> PROVE Len(rows) <= Len(out)
    <2>1. ~(m <= n)
        BY <1>2, <1>3, <1>5, <1>7
    <2>2. QED
        BY <1>1, <1>2, <2>1 DEF m
<1>8. QED
    BY <1>6, <1>7 DEF page

LEMMA PartHolds ==
    ASSUME NEW S, NEW s \in Seq(S), NEW m \in Nat \ {0}, NEW n \in Nat, n <= Len(s), m <= n + 1
    PROVE  /\ SubSeq(s, m, n) \in Seq(S) /\ Len(SubSeq(s, m, n)) = n - m + 1
           /\ Range(SubSeq(s, m, n)) = {s[i] : i \in m..n}
<1> DEFINE p == SubSeq(s, m, n)
<1>1. \A i \in m..n : s[i] \in S
    OBVIOUS
<1>2. /\ p \in Seq(S) /\ Len(p) = n - m + 1
      /\ \A i \in 1..n - m + 1 : p[i] = s[m + i - 1]
    BY <1>1, SubSeqProperties
<1> HIDE DEF p
<1>3. \A x \in Range(p) : \E i \in 1..Len(p) : x = p[i]
    BY <1>2 DEF Range
<1>4. \A i \in 1..Len(p) : p[i] \in Range(p)
    BY <1>2 DEF Range
<1>5. \A i \in m..n : i - m + 1 \in 1..Len(p) /\ s[i] = p[i - m + 1]
    BY <1>2
<1>6. \A i \in 1..Len(p) : m + i - 1 \in m..n /\ p[i] = s[m + i - 1]
    BY <1>2
<1>7. Range(p) = {s[i] : i \in m..n}
    <2>1. ASSUME NEW x \in Range(p) PROVE x \in {s[i] : i \in m..n}
        <3>1. PICK i \in 1..Len(p) : x = p[i]
            BY <1>3
        <3>2. m + i - 1 \in m..n /\ x = s[m + i - 1]
            BY <1>6, <3>1
        <3>3. QED
            BY <3>2
    <2>2. \A x \in {s[i] : i \in m..n} : x \in Range(p)
        BY <1>4, <1>5
    <2>3. QED
        BY <2>1, <2>2
<1>8. QED
    BY <1>2, <1>7 DEF p

(* t holds what s held, and something new only if it is longer.            *)
Grown(s, t) ==
    /\ Len(t) >= Len(s) /\ Range(s) \subseteq Range(t)
    /\ Len(t) = Len(s) => Range(t) \subseteq Range(s)

LEMMA RangeIs ==
    ASSUME NEW S, NEW s \in Seq(S)
    PROVE  Range(s) = {s[i] : i \in 1..Len(s)}
BY DEF Range

LEMMA InsertGrows ==
    ASSUME NEW S, NEW s \in Seq(S), NEW n \in 1..Len(s) + 1, NEW x \in S
    PROVE  Grown(s, InsertAt(s, n, x))
<1> DEFINE a == SubSeq(s, 1, n - 1)
           b == SubSeq(s, n, Len(s))
           t == InsertAt(s, n, x)
<1>1. /\ a \in Seq(S) /\ Len(a) = n - 1 /\ Range(a) = {s[i] : i \in 1..n - 1}
      /\ b \in Seq(S) /\ Len(b) = Len(s) - n + 1 /\ Range(b) = {s[i] : i \in n..Len(s)}
    <2>1. n - 1 \in Nat /\ n - 1 <= Len(s) /\ 1 <= (n - 1) + 1 /\ n \in Nat \ {0} /\ n <= Len(s) + 1
          /\ Len(s) \in Nat /\ Len(s) <= Len(s)
        OBVIOUS
    <2>2. Len(a) = (n - 1) - 1 + 1 /\ a \in Seq(S) /\ Range(a) = {s[i] : i \in 1..n - 1}
        BY <2>1, PartHolds
    <2>3. Len(b) = Len(s) - n + 1 /\ b \in Seq(S) /\ Range(b) = {s[i] : i \in n..Len(s)}
        <3> DEFINE L == Len(s)
        <3>1. L \in Nat /\ L <= Len(s) /\ n <= L + 1 /\ n \in Nat \ {0}
            BY <2>1
        <3> HIDE DEF L
        <3>2. Len(SubSeq(s, n, L)) = L - n + 1 /\ SubSeq(s, n, L) \in Seq(S)
              /\ Range(SubSeq(s, n, L)) = {s[i] : i \in n..L}
            BY <3>1, PartHolds
        <3>3. QED
            BY <3>2 DEF L
    <2>4. QED
        BY <2>1, <2>2, <2>3
<1>2. t = (a \o <<x>>) \o b
    BY DEF InsertAt
<1> HIDE DEF a, b, t
<1>3. a \o <<x>> \in Seq(S) /\ Len(a \o <<x>>) = n
    BY <1>1
<1>4. Len(t) = Len(s) + 1
    <2> DEFINE c == a \o <<x>>
    <2>1. c \in Seq(S) /\ Len(c) = n /\ t = c \o b
        BY <1>2, <1>3
    <2> HIDE DEF c
    <2>2. Len(t) = Len(c) + Len(b)
        BY <1>1, <2>1, ConcatProperties
    <2>3. QED
        BY <1>1, <2>1, <2>2
<1>5. Range(a \o <<x>>) = Range(a) \cup Range(<<x>>)
    <2>1. <<x>> \in Seq(S)
        OBVIOUS
    <2>2. QED
        BY <1>1, <2>1, RangeConcatenation
<1>6. Range(t) = Range(a \o <<x>>) \cup Range(b)
    BY <1>1, <1>2, <1>3, RangeConcatenation
<1>7. Range(s) \subseteq Range(a) \cup Range(b)
    BY <1>1, RangeIs
<1>8. Range(s) \subseteq Range(t) /\ Len(t) = Len(s) + 1 /\ Len(s) \in Nat
    BY <1>4, <1>7, <1>5, <1>6
<1>9. QED
    BY <1>8 DEF Grown, t

LEMMA RepostGrows ==
    ASSUME NEW S, NEW s \in Seq(S), NEW n \in 1..Len(s)
    PROVE  Grown(s, Append(RemoveAt(s, n), s[n]))
<1> DEFINE a == SubSeq(s, 1, n - 1)
           b == SubSeq(s, n + 1, Len(s))
           r == RemoveAt(s, n)
           t == Append(r, s[n])
<1>1. /\ a \in Seq(S) /\ Len(a) = n - 1 /\ Range(a) = {s[i] : i \in 1..n - 1}
      /\ b \in Seq(S) /\ Len(b) = Len(s) - n /\ Range(b) = {s[i] : i \in n + 1..Len(s)}
    <2>1. n - 1 \in Nat /\ n - 1 <= Len(s) /\ 1 <= (n - 1) + 1 /\ n + 1 \in Nat \ {0} /\ n + 1 <= Len(s) + 1
          /\ Len(s) \in Nat /\ Len(s) <= Len(s)
        OBVIOUS
    <2>2. Len(a) = (n - 1) - 1 + 1 /\ a \in Seq(S) /\ Range(a) = {s[i] : i \in 1..n - 1}
        BY <2>1, PartHolds
    <2>3. Len(b) = Len(s) - (n + 1) + 1 /\ b \in Seq(S) /\ Range(b) = {s[i] : i \in n + 1..Len(s)}
        BY <2>1, PartHolds
    <2>4. QED
        BY <2>1, <2>2, <2>3
<1>2. r = a \o b
    BY DEF RemoveAt
<1> HIDE DEF a, b
<1>3. r \in Seq(S) /\ Len(r) = Len(s) - 1 /\ Range(r) = Range(a) \cup Range(b)
    <2>1. Range(a \o b) = Range(a) \cup Range(b)
        BY <1>1, RangeConcatenation
    <2>2. a \o b \in Seq(S) /\ Len(a \o b) = Len(s) - 1
        BY <1>1
    <2>3. QED
        BY <1>2, <2>1, <2>2
<1> HIDE DEF r
<1>4. s[n] \in S /\ Len(t) = Len(s)
    BY <1>3
<1>5. Range(t) = Range(r) \cup {s[n]}
    <2>1. /\ t \in Seq(S) /\ t[Len(t)] = s[n] /\ Len(t) = Len(r) + 1
          /\ \A i \in 1..Len(r) : t[i] = r[i]
        BY <1>3, <1>4
    <2>2. Range(r) = {r[i] : i \in 1..Len(r)} /\ Range(t) = {t[i] : i \in 1..Len(t)}
        BY <1>3, <2>1, RangeIs
    <2>3. \A i \in 1..Len(t) : i \in 1..Len(r) \/ i = Len(t)
        BY <1>3, <2>1
    <2>4. \A i \in 1..Len(r) : i \in 1..Len(t)
        BY <1>3, <2>1
    <2>5. Len(t) \in 1..Len(t)
        BY <1>3, <2>1
    <2>6. QED
        BY <2>1, <2>2, <2>3, <2>4, <2>5
<1>6. Range(s) = Range(a) \cup Range(b) \cup {s[n]}
    <2>1. \A i \in 1..Len(s) : i \in 1..n - 1 \/ i = n \/ i \in n + 1..Len(s)
        OBVIOUS
    <2>2. \A i \in 1..n - 1 : i \in 1..Len(s)
        OBVIOUS
    <2>3. \A i \in n + 1..Len(s) : i \in 1..Len(s)
        OBVIOUS
    <2>4. QED
        BY <1>1, <2>1, <2>2, <2>3, RangeIs
<1>7. QED
    BY <1>3, <1>4, <1>5, <1>6 DEF Grown, t, r

LEMMA AppendGrows ==
    ASSUME NEW S, NEW s \in Seq(S), NEW x \in S
    PROVE  Grown(s, Append(s, x)) /\ Len(Append(s, x)) = Len(s) + 1
<1>1. Append(s, x) \in Seq(S) /\ Len(Append(s, x)) = Len(s) + 1 /\ Len(s) \in Nat
    OBVIOUS
<1>2. \A i \in 1..Len(s) : i \in 1..Len(s) + 1 /\ Append(s, x)[i] = s[i]
    OBVIOUS
<1>3. Range(s) \subseteq Range(Append(s, x))
    <2> DEFINE t == Append(s, x)
    <2>1. t \in Seq(S) /\ \A i \in 1..Len(s) : i \in 1..Len(t) /\ t[i] = s[i]
        BY <1>1, <1>2
    <2> HIDE DEF t
    <2>2. Range(s) = {s[i] : i \in 1..Len(s)} /\ Range(t) = {t[i] : i \in 1..Len(t)}
        BY <2>1, RangeIs
    <2>3. Range(s) \subseteq Range(t)
        BY <2>1, <2>2
    <2>4. QED
        BY <2>3 DEF t
<1>4. QED
    BY <1>1, <1>3 DEF Grown

LEMMA RangeCount ==
    ASSUME NEW S, NEW s \in Seq(S)
    PROVE  IsFiniteSet(Range(s)) /\ Cardinality(Range(s)) <= Len(s) /\ Cardinality(Range(s)) \in Nat
<1>1. s \in Surjection(1..Len(s), Range(s))
    <2>1. s \in [1..Len(s) -> S] /\ Range(s) = {s[i] : i \in 1..Len(s)}
        BY RangeIs
    <2>2. s \in [1..Len(s) -> Range(s)]
        BY <2>1
    <2>3. QED
        BY <2>1, <2>2 DEF Surjection
<1>2. IsFiniteSet(1..Len(s)) /\ Cardinality(1..Len(s)) = Len(s)
    <2>1. Len(s) \in Nat
        OBVIOUS
    <2>2. IsFiniteSet(1..Len(s)) /\ Cardinality(1..Len(s)) = IF 1 > Len(s) THEN 0 ELSE Len(s) - 1 + 1
        BY <2>1, FS_Interval
    <2>3. QED
        BY <2>1, <2>2
<1>3. QED
    BY <1>1, <1>2, FS_Surjection, FS_CardinalityType

-----------------------------------------------------------------------------
(* A reader and the lake.  What was counted bounds what is in the lake now  *)
(* (Since), and a list read to its end at that length holds nothing the    *)
(* count did not (Known).  The home a thesis row names is the leaf's home  *)
(* until the leaf is moved; then either the ideas outgrew the count, and   *)
(* their page refuses, or they were read already, and the idea it moved to *)
(* is none of them (Homes).                                                *)
Fetched == {"sources", "theses", "ids"}
Consistently == {"others", "names", "mark", "build", "write", "drop", "move"}
After(e, steps) == pc[e] \notin {"idle"} \cup steps

Within(list, n, S) == Len(list) >= n /\ (Len(list) = n => Range(list) \subseteq S)

Since(e) ==
    /\ Within(sources, counted[e].sources, asOf[e])
    /\ Within(ideas, counted[e].ideas, asOf[e])
    /\ Within(leaves, counted[e].leaves, asOf[e])
    /\ IsFiniteSet(asOf[e]) /\ Cardinality(asOf[e]) <= Expected(e)

Taken(e) ==
    /\ Range(got[e].sources) \subseteq Range(sources) /\ Len(got[e].sources) <= counted[e].sources
    /\ Range(got[e].ids) \subseteq Range(ideas) /\ Len(got[e].ids) <= counted[e].ideas
    /\ Listed(e) \subseteq Range(leaves) /\ Len(got[e].theses) <= counted[e].leaves
    /\ pc[e] = "idle" => got[e] = Nothing
    /\ pc[e] \in Fetched => got[e].ideas = <<>>

Known(e) ==
    /\ After(e, {"sources"}) => Range(got[e].sources) \subseteq asOf[e]
    /\ After(e, {"sources", "theses"}) => Listed(e) \subseteq asOf[e]
    /\ After(e, Fetched) => Range(got[e].ids) \subseteq asOf[e]

Homes(e) ==
    \A r \in Range(got[e].theses) :
      \/ home[r.id] = r.idea
      \/ pc[e] \in Fetched /\ Len(ideas) > counted[e].ideas
      \/ After(e, Fetched) /\ home[r.id] \notin Range(got[e].ids)

Agree(e) ==
    /\ \A r \in Range(got[e].theses), i \in Range(got[e].ideas) : r.id \in i.leaves => i.id = r.idea
    /\ pc[e] \in Consistently =>
         \A r \in Range(got[e].theses) : \E i \in Range(got[e].ideas) : i.id = r.idea /\ r.id \in i.leaves

Noted(e) ==
    e \in build =>
      /\ pc[e] \in {"write", "others", "names", "drop", "move", "clean"}
      /\ pc[e] \in {"others", "names", "drop", "move"} => notes[e] = asOf[e]

ReadInv(e) == Since(e) /\ Taken(e) /\ Known(e) /\ Homes(e) /\ Agree(e) /\ Noted(e)

LEMMA WriteGrows ==
    ASSUME TypeOK, Write
    PROVE  /\ Grown(sources, sources') /\ Grown(ideas, ideas') /\ Grown(leaves, leaves')
           /\ \A l \in Range(leaves) :
                home'[l] = home[l] \/ (home'[l] \notin Range(ideas) /\ Len(ideas') > Len(ideas))
           /\ UNCHANGED <<pc, got, counted, asOf, notes, build>>
<1> DEFINE Goal ==
      /\ Grown(sources, sources') /\ Grown(ideas, ideas') /\ Grown(leaves, leaves')
      /\ \A l \in Range(leaves) :
           home'[l] = home[l] \/ (home'[l] \notin Range(ideas) /\ Len(ideas') > Len(ideas))
      /\ UNCHANGED <<pc, got, counted, asOf, notes, build>>
<1>1. /\ sources \in Seq(Sources) /\ ideas \in Seq(Ideas) /\ leaves \in Seq(Leaves)
      /\ Range(leaves) \subseteq Leaves /\ home \in [Leaves -> Ideas \cup {None}]
    BY RangeType DEF TypeOK
<1>2. Grown(sources, sources) /\ Grown(ideas, ideas) /\ Grown(leaves, leaves)
    BY <1>1 DEF Grown
<1>3. UNCHANGED <<pc, got, counted, asOf, notes, build>>
    BY DEF Write, AddSource, Repost, AddLeaf, MoveLeaf, Others, reads
<1>4. ASSUME NEW s \in Sources, AddSource(s) PROVE Goal
    <2>1. Grown(sources, sources')
        BY <1>1, <1>4, InsertGrows DEF AddSource
    <2>2. UNCHANGED <<ideas, leaves, home>>
        BY <1>4 DEF AddSource
    <2>3. QED
        BY <1>2, <1>3, <2>1, <2>2
<1>5. ASSUME NEW s \in Sources, Repost(s) PROVE Goal
    <2>1. Grown(sources, sources')
        BY <1>1, <1>5, RepostGrows DEF Repost
    <2>2. UNCHANGED <<ideas, leaves, home>>
        BY <1>5 DEF Repost
    <2>3. QED
        BY <1>2, <1>3, <2>1, <2>2
<1>6. ASSUME NEW l \in Leaves, NEW i \in Ideas, MoveLeaf(l, i) PROVE Goal
    <2>1. Grown(ideas, ideas') /\ Len(ideas') = Len(ideas) + 1 /\ Len(ideas) \in Nat
        BY <1>1, <1>6, AppendGrows DEF MoveLeaf
    <2>2. UNCHANGED <<sources, leaves>>
        BY <1>6 DEF MoveLeaf
    <2>3. home'[l] \notin Range(ideas) /\ \A k \in Leaves \ {l} : home'[k] = home[k]
        BY <1>1, <1>6 DEF MoveLeaf
    <2>4. QED
        BY <1>1, <1>2, <1>3, <2>1, <2>2, <2>3
<1>7. ASSUME NEW l \in Leaves, NEW i \in Ideas, NEW s \in Sources, AddLeaf(l, i, s) PROVE Goal
    <2>1. Grown(leaves, leaves')
        BY <1>1, <1>7, AppendGrows DEF AddLeaf
    <2>2. Grown(ideas, ideas')
        BY <1>1, <1>2, <1>7, AppendGrows DEF AddLeaf
    <2>3. UNCHANGED sources
        BY <1>7 DEF AddLeaf
    <2>4. \A k \in Range(leaves) : home'[k] = home[k]
        BY <1>1, <1>7 DEF AddLeaf
    <2>5. QED
        BY <1>2, <1>3, <2>1, <2>2, <2>3, <2>4
<1>8. QED
    BY <1>4, <1>5, <1>6, <1>7 DEF Write

LEMMA GrownWithin ==
    ASSUME NEW S, NEW s \in Seq(S), NEW t \in Seq(S), NEW n \in Nat, NEW T,
           Grown(s, t), Within(s, n, T)
    PROVE  Within(t, n, T)
<1>1. Len(s) \in Nat /\ Len(t) \in Nat
    OBVIOUS
<1>2. Len(t) >= n
    BY <1>1 DEF Grown, Within
<1>3. Len(t) = n => Len(s) = n
    BY <1>1 DEF Grown, Within
<1>4. QED
    BY <1>2, <1>3 DEF Grown, Within

(* What a reader has, as typed.                                            *)
LEMMA ReaderTypes ==
    ASSUME TypeOK, NEW e \in Exports
    PROVE  /\ counted[e].sources \in Nat /\ counted[e].ideas \in Nat /\ counted[e].leaves \in Nat
           /\ got[e] \in Rows
           /\ got[e].sources \in Seq(Sources) /\ got[e].ids \in Seq(Ideas)
           /\ got[e].theses \in Seq([id : Leaves, idea : Ideas \cup {None}, source : Sources \cup {None}])
           /\ got[e].ideas \in Seq([id : Ideas, leaves : SUBSET Leaves])
BY DEF TypeOK, Rows

LEMMA WriteStays ==
    ASSUME TypeOK, NEW e \in Exports, ReadInv(e), Write
    PROVE  ReadInv(e)'
<1>1. TypeOK'
    BY WriteType
<1>2. /\ Grown(sources, sources') /\ Grown(ideas, ideas') /\ Grown(leaves, leaves')
      /\ \A l \in Range(leaves) :
           home'[l] = home[l] \/ (home'[l] \notin Range(ideas) /\ Len(ideas') > Len(ideas))
      /\ UNCHANGED <<pc, got, counted, asOf, notes, build>>
    BY WriteGrows
<1>3. /\ sources \in Seq(Sources) /\ ideas \in Seq(Ideas) /\ leaves \in Seq(Leaves)
      /\ sources' \in Seq(Sources) /\ ideas' \in Seq(Ideas) /\ leaves' \in Seq(Leaves)
    BY <1>1 DEF TypeOK
<1>4. Since(e)'
    <2>1. /\ Within(sources, counted[e].sources, asOf[e]) /\ Within(ideas, counted[e].ideas, asOf[e])
          /\ Within(leaves, counted[e].leaves, asOf[e])
        BY DEF ReadInv, Since
    <2>2. /\ Within(sources', counted[e].sources, asOf[e]) /\ Within(ideas', counted[e].ideas, asOf[e])
          /\ Within(leaves', counted[e].leaves, asOf[e])
        BY <1>2, <1>3, <2>1, GrownWithin, ReaderTypes
    <2>3. QED
        BY <1>2, <2>2 DEF ReadInv, Since, Within, Expected
<1>5. Taken(e)'
    BY <1>2 DEF ReadInv, Taken, Grown, Listed
<1>6. Known(e)' /\ Agree(e)' /\ Noted(e)'
    BY <1>2 DEF ReadInv, Known, Agree, Noted, Listed, After
<1>7. Homes(e)'
    <2>1. SUFFICES ASSUME NEW r \in Range(got[e].theses)
                   PROVE  \/ home'[r.id] = r.idea
                          \/ pc[e] \in Fetched /\ Len(ideas') > counted[e].ideas
                          \/ After(e, Fetched) /\ home'[r.id] \notin Range(got[e].ids)
        BY <1>2 DEF Homes, After
    <2>2. r.id \in Range(leaves)
        BY DEF ReadInv, Taken, Listed
    <2>3. /\ Len(ideas) \in Nat /\ Len(ideas') \in Nat /\ Len(ideas') >= Len(ideas)
          /\ Len(ideas) >= counted[e].ideas /\ counted[e].ideas \in Nat
        BY <1>2, <1>3, ReaderTypes DEF ReadInv, Since, Within, Grown
    <2>4. \/ home[r.id] = r.idea
          \/ pc[e] \in Fetched /\ Len(ideas) > counted[e].ideas
          \/ After(e, Fetched) /\ home[r.id] \notin Range(got[e].ids)
        BY DEF ReadInv, Homes
    <2>5. CASE home'[r.id] = home[r.id]
        BY <2>3, <2>4, <2>5
    <2>6. CASE home'[r.id] \notin Range(ideas) /\ Len(ideas') > Len(ideas)
        <3>1. home'[r.id] \notin Range(got[e].ids)
            BY <2>6 DEF ReadInv, Taken
        <3>2. Len(ideas') > counted[e].ideas
            BY <2>3, <2>6
        <3>3. pc[e] # "idle"
            BY DEF ReadInv, Taken, Nothing, Range
        <3>4. QED
            BY <3>1, <3>2, <3>3 DEF After
    <2>7. QED
        BY <1>2, <2>2, <2>5, <2>6
<1>8. QED
    BY <1>4, <1>5, <1>6, <1>7 DEF ReadInv

-----------------------------------------------------------------------------
(* The steps of others leave a reader alone, and its own later steps leave *)
(* what it has read.                                                       *)
SameReads(e) ==
    counted'[e] = counted[e] /\ asOf'[e] = asOf[e] /\ got'[e] = got[e]

LEMMA ReaderStays ==
    ASSUME NEW e, ReadInv(e), UNCHANGED lake, SameReads(e), pc'[e] = pc[e],
           notes'[e] = notes[e], (e \in build' <=> e \in build)
    PROVE  ReadInv(e)'
BY DEF ReadInv, SameReads, lake, Since, Within, Expected, Taken, Listed, Known, Homes, After, Agree, Noted

LEMMA ReaderLeaves ==
    ASSUME TypeOK, NEW e \in Exports, ReadInv(e), UNCHANGED lake, pc'[e] = "idle", got'[e] = Nothing,
           counted'[e] = counted[e], asOf'[e] = asOf[e], e \notin build'
    PROVE  ReadInv(e)'
<1>1. Since(e)'
    BY DEF ReadInv, Since, Within, Expected, lake
<1>2. Range(<<>>) = {} /\ Len(<<>>) = 0
    BY DEF Range
<1>3. Taken(e)'
    BY <1>2, ReaderTypes DEF Taken, Nothing, Listed, Fetched
<1>4. Known(e)' /\ Homes(e)' /\ Agree(e)' /\ Noted(e)'
    BY <1>2 DEF Known, Homes, Agree, Noted, After, Nothing, Fetched, Consistently
<1>5. QED
    BY <1>1, <1>3, <1>4 DEF ReadInv

LEMMA ReaderGoesOn ==
    ASSUME NEW e, ReadInv(e), UNCHANGED lake, SameReads(e),
           After(e, Fetched), pc'[e] \notin {"idle"} \cup Fetched,
           pc'[e] \in Consistently => pc[e] \in Consistently \/ Consistent(e),
           Noted(e)'
    PROVE  ReadInv(e)'
<1>1. Since(e)'
    BY DEF ReadInv, Since, Within, Expected, lake, SameReads
<1>2. Taken(e)' /\ Known(e)'
    BY DEF ReadInv, SameReads, lake, Taken, Listed, Known, After, Fetched
<1>3. Homes(e)'
    BY DEF ReadInv, SameReads, lake, Homes, After, Fetched
<1>4. Agree(e)'
    <2>1. \A r \in Range(got[e].theses), i \in Range(got[e].ideas) : r.id \in i.leaves => i.id = r.idea
        BY DEF ReadInv, Agree
    <2>2. Consistent(e) =>
            \A r \in Range(got[e].theses) : \E i \in Range(got[e].ideas) : r.id \in i.leaves
        BY DEF Consistent, Listed
    <2>3. pc'[e] \in Consistently =>
            \A r \in Range(got[e].theses) : \E i \in Range(got[e].ideas) : i.id = r.idea /\ r.id \in i.leaves
        BY <2>1, <2>2 DEF ReadInv, Agree
    <2>4. QED
        BY <2>1, <2>3 DEF Agree, SameReads
<1>5. QED
    BY <1>1, <1>2, <1>3, <1>4 DEF ReadInv

LEMMA CountStep ==
    ASSUME TypeOK, NEW e \in Exports, ReadInv(e), Count(e)
    PROVE  ReadInv(e)'
<1>1. /\ got[e] = Nothing /\ got' = got /\ pc'[e] = "sources" /\ asOf'[e] = InLake
      /\ counted'[e] = [sources |-> Len(sources), ideas |-> Len(ideas), leaves |-> Len(leaves)]
      /\ UNCHANGED <<sources, ideas, leaves, home, build>>
      /\ pc[e] = "idle"
    BY DEF TypeOK, Count, Goto, ReadInv, Taken, lake
<1>2. sources \in Seq(Sources) /\ ideas \in Seq(Ideas) /\ leaves \in Seq(Leaves)
    BY DEF TypeOK
<1>3. e \notin build
    BY <1>1 DEF ReadInv, Noted
<1>4. IsFiniteSet(InLake) /\ Cardinality(InLake) <= Len(sources) + Len(ideas) + Len(leaves)
    <2> DEFINE A == Range(sources)
               B == Range(ideas)
               C == Range(leaves)
    <2>1. /\ IsFiniteSet(A) /\ Cardinality(A) <= Len(sources) /\ Cardinality(A) \in Nat
          /\ IsFiniteSet(B) /\ Cardinality(B) <= Len(ideas) /\ Cardinality(B) \in Nat
          /\ IsFiniteSet(C) /\ Cardinality(C) <= Len(leaves) /\ Cardinality(C) \in Nat
        BY <1>2, RangeCount
    <2>2. InLake = (A \cup B) \cup C
        BY DEF InLake
    <2>3. Len(sources) \in Nat /\ Len(ideas) \in Nat /\ Len(leaves) \in Nat
        BY <1>2
    <2> HIDE DEF A, B, C
    <2>4. /\ IsFiniteSet(A \cup B) /\ Cardinality(A \cup B) \in Nat
          /\ Cardinality(A \cup B) <= Cardinality(A) + Cardinality(B)
        <3>1. IsFiniteSet(A \cup B) /\ Cardinality(A \cup B) = Cardinality(A) + Cardinality(B) - Cardinality(A \cap B)
            BY <2>1, FS_Union
        <3>2. IsFiniteSet(A \cap B)
            BY <2>1, FS_Subset
        <3>3. Cardinality(A \cap B) \in Nat /\ Cardinality(A \cup B) \in Nat
            BY <3>1, <3>2, FS_CardinalityType
        <3>4. QED
            BY <2>1, <3>1, <3>3
    <2> DEFINE D == A \cup B
    <2>5. IsFiniteSet(D) /\ Cardinality(D) \in Nat /\ Cardinality(D) <= Cardinality(A) + Cardinality(B)
        BY <2>4, Zenon
    <2> HIDE DEF D
    <2>6. /\ IsFiniteSet(D \cup C) /\ Cardinality(D \cup C) <= Cardinality(D) + Cardinality(C)
          /\ Cardinality(D \cup C) \in Nat
        <3>1. IsFiniteSet(D \cup C) /\ Cardinality(D \cup C) = Cardinality(D) + Cardinality(C) - Cardinality(D \cap C)
            BY <2>1, <2>5, FS_Union
        <3>2. IsFiniteSet(D \cap C)
            BY <2>5, FS_Subset
        <3>3. Cardinality(D \cap C) \in Nat /\ Cardinality(D \cup C) \in Nat
            BY <3>1, <3>2, FS_CardinalityType
        <3>4. QED
            BY <2>1, <2>5, <3>1, <3>3
    <2>7. Cardinality(D \cup C) <= Len(sources) + Len(ideas) + Len(leaves)
        BY <2>1, <2>3, <2>5, <2>6
    <2>8. InLake = D \cup C
        BY <2>2, Zenon DEF D
    <2>9. QED
        BY <2>6, <2>7, <2>8, Zenon
<1>5. Since(e)'
    <2>1. /\ Range(sources) \subseteq InLake /\ Range(ideas) \subseteq InLake /\ Range(leaves) \subseteq InLake
          /\ Len(sources) \in Nat /\ Len(ideas) \in Nat /\ Len(leaves) \in Nat
        BY <1>2 DEF InLake
    <2>2. QED
        BY <1>1, <1>4, <2>1 DEF Since, Within, Expected
<1>6. Range(<<>>) = {} /\ Len(<<>>) = 0
    BY DEF Range
<1>7. Taken(e)'
    BY <1>1, <1>2, <1>6 DEF Taken, Nothing, Listed, Fetched
<1>8. Known(e)' /\ Homes(e)' /\ Agree(e)'
    BY <1>1, <1>6 DEF Known, Homes, Agree, Nothing, After, Fetched, Consistently
<1>9. Noted(e)'
    BY <1>1, <1>3 DEF Noted
<1>10. QED
    BY <1>5, <1>7, <1>8, <1>9 DEF ReadInv

(* A list at its last page holds what was counted.                         *)
LEMMA ReadToTheEnd ==
    ASSUME NEW S, NEW T, NEW list \in Seq(S), NEW out \in Seq(T), NEW n \in Nat, NEW known,
           Within(list, n, known), Len(out) <= n, PageOf(list, out) = <<>>
    PROVE  Len(list) = n /\ Range(list) \subseteq known
<1>1. Len(list) <= Len(out) /\ Len(list) \in Nat /\ Len(out) \in Nat
    BY PageHolds
<1>2. QED
    BY <1>1 DEF Within

LEMMA SourcesStep ==
    ASSUME TypeOK, NEW e \in Exports, ReadInv(e),
           ReadAll(e, "sources", PageOf(sources, got[e].sources), counted[e].sources, "theses")
    PROVE  ReadInv(e)'
<1> DEFINE rows == PageOf(sources, got[e].sources)
           out == got[e].sources \o rows
<1>1. /\ sources \in Seq(Sources) /\ got[e].sources \in Seq(Sources) /\ counted[e].sources \in Nat
      /\ rows \in Seq(Sources) /\ Range(rows) \subseteq Range(sources)
    BY ReaderTypes, PageType, PageHolds DEF TypeOK
<1>2. /\ UNCHANGED lake /\ UNCHANGED <<sources, ideas, leaves, home, build>>
      /\ counted'[e] = counted[e] /\ asOf'[e] = asOf[e] /\ pc[e] = "sources" /\ e \notin build
    BY DEF ReadAll, lake, ReadInv, Noted
<1>3. Since(e)' /\ Noted(e)'
    BY <1>2 DEF ReadInv, Since, Within, Expected, Noted
<1>4. CASE rows = <<>> /\ Goto(e, "theses") /\ UNCHANGED got
    <2>1. pc'[e] = "theses"
        BY <1>4 DEF Goto, TypeOK
    <2>2. Range(sources) \subseteq asOf[e]
        BY <1>1, <1>4, ReadToTheEnd DEF ReadInv, Since, Taken
    <2>3. Taken(e)' /\ Known(e)' /\ Homes(e)' /\ Agree(e)'
        BY <1>2, <1>4, <2>1, <2>2
           DEF ReadInv, Taken, Known, Homes, Agree, Listed, After, Fetched, Consistently
    <2>4. QED
        BY <1>3, <2>3 DEF ReadInv
<1>5. CASE Len(out) <= counted[e].sources /\ got' = [got EXCEPT ![e].sources = out] /\ UNCHANGED pc
    <2>1. Range(out) \subseteq Range(sources)
        <3>1. Range(out) = Range(got[e].sources) \cup Range(rows)
            BY <1>1, RangeConcatenation
        <3>2. QED
            BY <1>1, <3>1 DEF ReadInv, Taken
    <2> HIDE DEF out
    <2>2. /\ got'[e].sources = out /\ got'[e].theses = got[e].theses /\ got'[e].ids = got[e].ids
          /\ got'[e].ideas = got[e].ideas /\ pc'[e] = "sources"
        BY <1>2, <1>5, ReaderTypes DEF TypeOK, Rows
    <2>3. Taken(e)' /\ Known(e)' /\ Homes(e)' /\ Agree(e)'
        BY <1>2, <1>5, <2>1, <2>2
           DEF ReadInv, Taken, Known, Homes, Agree, Listed, After, Fetched, Consistently
    <2>4. QED
        BY <1>3, <2>3 DEF ReadInv
<1>6. CASE Refuse(e)
    <2>1. pc'[e] = "idle" /\ got'[e] = Nothing
        BY <1>6 DEF Refuse, Goto, TypeOK
    <2>2. QED
        BY <1>2, <2>1, ReaderLeaves
<1>7. QED
    BY <1>4, <1>5, <1>6 DEF ReadAll

LEMMA ThesesStep ==
    ASSUME TypeOK, NEW e \in Exports, ReadInv(e),
           ReadAll(e, "theses", PageOf(ThesisRows, got[e].theses), counted[e].leaves, "ids")
    PROVE  ReadInv(e)'
<1> DEFINE T == [id : Leaves, idea : Ideas \cup {None}, source : Sources \cup {None}]
           rows == PageOf(ThesisRows, got[e].theses)
           out == got[e].theses \o rows
<1>1. /\ leaves \in Seq(Leaves) /\ got[e].theses \in Seq(T) /\ counted[e].leaves \in Nat
      /\ ThesisRows \in Seq(T) /\ Len(ThesisRows) = Len(leaves)
    <2>1. /\ leaves \in Seq(Leaves) /\ got[e].theses \in Seq(T) /\ counted[e].leaves \in Nat
          /\ home \in [Leaves -> Ideas \cup {None}] /\ origin \in [Leaves -> Sources \cup {None}]
        BY ReaderTypes DEF TypeOK
    <2>2. \A n \in 1..Len(leaves) : leaves[n] \in Leaves
        BY <2>1
    <2>3. ThesisRows \in [1..Len(leaves) -> T]
        BY <2>1, <2>2 DEF ThesisRows
    <2>4. Len(leaves) \in Nat
        BY <2>1
    <2> HIDE DEF T
    <2>5. ThesisRows \in Seq(T) /\ Len(ThesisRows) = Len(leaves)
        BY <2>3, <2>4
    <2>6. QED
        BY <2>1, <2>5
<1>2. \A r \in Range(ThesisRows) : r.id \in Range(leaves) /\ r.idea = home[r.id]
    <2>1. \A n \in 1..Len(leaves) : ThesisRows[n].id = leaves[n] /\ ThesisRows[n].idea = home[leaves[n]]
        BY DEF ThesisRows
    <2>2. QED
        BY <1>1, <2>1, RangeIs
<1>3. rows \in Seq(T) /\ Range(rows) \subseteq Range(ThesisRows)
    BY <1>1, PageType, PageHolds
<1>4. /\ UNCHANGED lake /\ UNCHANGED <<sources, ideas, leaves, home, build>>
      /\ counted'[e] = counted[e] /\ asOf'[e] = asOf[e] /\ pc[e] = "theses" /\ e \notin build
    BY DEF ReadAll, lake, ReadInv, Noted
<1>5. Since(e)' /\ Noted(e)'
    BY <1>4 DEF ReadInv, Since, Within, Expected, Noted
<1>6. CASE rows = <<>> /\ Goto(e, "ids") /\ UNCHANGED got
    <2>1. pc'[e] = "ids"
        BY <1>6 DEF Goto, TypeOK
    <2>2. Range(leaves) \subseteq asOf[e]
        <3>1. Len(leaves) <= Len(got[e].theses)
            BY <1>1, <1>6, PageHolds
        <3>2. Len(leaves) \in Nat /\ Len(got[e].theses) \in Nat
            BY <1>1
        <3>3. Len(leaves) = counted[e].leaves
            BY <1>1, <3>1, <3>2 DEF ReadInv, Since, Within, Taken
        <3>4. QED
            BY <3>3 DEF ReadInv, Since, Within
    <2>3. Taken(e)' /\ Known(e)' /\ Homes(e)' /\ Agree(e)'
        BY <1>4, <1>6, <2>1, <2>2
           DEF ReadInv, Taken, Known, Homes, Agree, Listed, After, Fetched, Consistently
    <2>4. QED
        BY <1>5, <2>3 DEF ReadInv
<1>7. CASE Len(out) <= counted[e].leaves /\ got' = [got EXCEPT ![e].theses = out] /\ UNCHANGED pc
    <2>1. Range(out) = Range(got[e].theses) \cup Range(rows)
        BY <1>1, <1>3, RangeConcatenation
    <2>2. {r.id : r \in Range(out)} \subseteq Range(leaves)
        BY <1>2, <1>3, <2>1 DEF ReadInv, Taken, Listed
    <2> HIDE DEF out, rows
    <2>3. /\ got'[e].theses = out /\ got'[e].sources = got[e].sources /\ got'[e].ids = got[e].ids
          /\ got'[e].ideas = got[e].ideas /\ pc'[e] = "theses"
        BY <1>4, <1>7, ReaderTypes DEF TypeOK, Rows
    <2>4. got[e].ideas = <<>> /\ Range(<<>>) = {}
        BY <1>4 DEF ReadInv, Taken, Fetched, Range
    <2>5. Taken(e)' /\ Known(e)'
        BY <1>4, <1>7, <2>2, <2>3 DEF ReadInv, Taken, Known, Listed, After, Fetched
    <2>6. Homes(e)' /\ Agree(e)'
        <3>1. Homes(e)'
            BY <1>2, <1>3, <1>4, <2>1, <2>3 DEF ReadInv, Homes, After, Fetched
        <3>2. Agree(e)'
            BY <1>4, <2>3, <2>4 DEF Agree, Consistently
        <3>3. QED
            BY <3>1, <3>2
    <2>7. QED
        BY <1>5, <2>5, <2>6 DEF ReadInv
<1>8. CASE Refuse(e)
    <2>1. pc'[e] = "idle" /\ got'[e] = Nothing
        BY <1>8 DEF Refuse, Goto, TypeOK
    <2>2. QED
        BY <1>4, <2>1, ReaderLeaves
<1>9. QED
    BY <1>6, <1>7, <1>8 DEF ReadAll

LEMMA IdsStep ==
    ASSUME TypeOK, NEW e \in Exports, ReadInv(e),
           ReadAll(e, "ids", PageOf(ideas, got[e].ids), counted[e].ideas, "ideas")
    PROVE  ReadInv(e)'
<1> DEFINE rows == PageOf(ideas, got[e].ids)
           out == got[e].ids \o rows
<1>1. /\ ideas \in Seq(Ideas) /\ got[e].ids \in Seq(Ideas) /\ counted[e].ideas \in Nat
      /\ rows \in Seq(Ideas) /\ Range(rows) \subseteq Range(ideas)
    BY ReaderTypes, PageType, PageHolds DEF TypeOK
<1>2. /\ UNCHANGED lake /\ UNCHANGED <<sources, ideas, leaves, home, build>>
      /\ counted'[e] = counted[e] /\ asOf'[e] = asOf[e] /\ pc[e] = "ids" /\ e \notin build
    BY DEF ReadAll, lake, ReadInv, Noted
<1>3. Since(e)' /\ Noted(e)'
    BY <1>2 DEF ReadInv, Since, Within, Expected, Noted
<1>4. CASE rows = <<>> /\ Goto(e, "ideas") /\ UNCHANGED got
    <2>1. pc'[e] = "ideas"
        BY <1>4 DEF Goto, TypeOK
    <2>2. Range(ideas) \subseteq asOf[e] /\ Len(ideas) = counted[e].ideas
        BY <1>1, <1>4, ReadToTheEnd DEF ReadInv, Since, Taken
    <2>3. Homes(e)'
        <3>1. \A r \in Range(got[e].theses) : home[r.id] = r.idea
            BY <1>1, <1>2, <2>2 DEF ReadInv, Homes, After, Fetched
        <3>2. QED
            BY <1>2, <1>4, <3>1 DEF Homes
    <2>4. Taken(e)' /\ Known(e)' /\ Agree(e)'
        BY <1>2, <1>4, <2>1, <2>2
           DEF ReadInv, Taken, Known, Agree, Listed, After, Fetched, Consistently
    <2>5. QED
        BY <1>3, <2>3, <2>4 DEF ReadInv
<1>5. CASE Len(out) <= counted[e].ideas /\ got' = [got EXCEPT ![e].ids = out] /\ UNCHANGED pc
    <2>1. Range(out) \subseteq Range(ideas)
        <3>1. Range(out) = Range(got[e].ids) \cup Range(rows)
            BY <1>1, RangeConcatenation
        <3>2. QED
            BY <1>1, <3>1 DEF ReadInv, Taken
    <2> HIDE DEF out
    <2>2. /\ got'[e].ids = out /\ got'[e].theses = got[e].theses /\ got'[e].sources = got[e].sources
          /\ got'[e].ideas = got[e].ideas /\ pc'[e] = "ids"
        BY <1>2, <1>5, ReaderTypes DEF TypeOK, Rows
    <2>3. Taken(e)' /\ Known(e)' /\ Homes(e)' /\ Agree(e)'
        BY <1>2, <1>5, <2>1, <2>2
           DEF ReadInv, Taken, Known, Homes, Agree, Listed, After, Fetched, Consistently
    <2>4. QED
        BY <1>3, <2>3 DEF ReadInv
<1>6. CASE Refuse(e)
    <2>1. pc'[e] = "idle" /\ got'[e] = Nothing
        BY <1>6 DEF Refuse, Goto, TypeOK
    <2>2. QED
        BY <1>2, <2>1, ReaderLeaves
<1>7. QED
    BY <1>4, <1>5, <1>6 DEF ReadAll

(* An idea that lists a leaf it is read with is its home, and the home the *)
(* leaf's row names: the ideas that were read have been its home since.    *)
LEMMA ReadIdeasStep ==
    ASSUME TypeOK, NEW e \in Exports, ReadInv(e), ReadIdeas(e)
    PROVE  ReadInv(e)'
<1> DEFINE I == [id : Ideas, leaves : SUBSET Leaves]
           ids == PageOf(got[e].ids, got[e].ideas)
           rows == [n \in 1..Len(ids) |-> IdeaRow(ids[n])]
           out == got[e].ideas \o rows
<1>1. /\ got[e].ids \in Seq(Ideas) /\ got[e].ideas \in Seq(I)
      /\ ids \in Seq(Ideas) /\ Range(ids) \subseteq Range(got[e].ids)
    BY ReaderTypes, PageType, PageHolds
<1>2. /\ UNCHANGED lake /\ UNCHANGED <<sources, ideas, leaves, home, build>>
      /\ counted'[e] = counted[e] /\ asOf'[e] = asOf[e] /\ pc[e] = "ideas" /\ e \notin build
    BY DEF ReadIdeas, lake, ReadInv, Noted
<1>3. Since(e)' /\ Noted(e)'
    BY <1>2 DEF ReadInv, Since, Within, Expected, Noted
<1>4. CASE Goto(e, "check") /\ UNCHANGED got
    <2>1. pc'[e] = "check"
        BY <1>4 DEF Goto, TypeOK
    <2>2. Taken(e)' /\ Known(e)' /\ Homes(e)' /\ Agree(e)'
        BY <1>2, <1>4, <2>1
           DEF ReadInv, Taken, Known, Homes, Agree, Listed, After, Fetched, Consistently
    <2>3. QED
        BY <1>3, <2>2 DEF ReadInv
<1>5. CASE got' = [got EXCEPT ![e].ideas = out] /\ UNCHANGED pc
    <2>1. rows \in Seq(I) /\ Len(rows) = Len(ids)
        <3>1. \A i \in Ideas : IdeaRow(i) \in I
            <4>1. Range(leaves) \subseteq Leaves
                BY DEF TypeOK, Range
            <4>2. QED
                BY <4>1 DEF IdeaRow
        <3> HIDE DEF ids
        <3>2. QED
            BY <1>1, <3>1
    <2>2. \A i \in Range(rows) : i.id \in Range(got[e].ids) /\ \A l \in i.leaves : home[l] = i.id
        <3>1. \A n \in 1..Len(ids) : ids[n] \in Range(ids)
            BY <1>1 DEF Range
        <3> HIDE DEF ids
        <3>2. \A i \in Range(rows) : \E n \in 1..Len(ids) : i = IdeaRow(ids[n])
            BY DEF Range
        <3>3. \A i \in Ideas : IdeaRow(i).id = i /\ \A l \in IdeaRow(i).leaves : home[l] = i
            BY DEF IdeaRow
        <3>4. \A n \in 1..Len(ids) : ids[n] \in Ideas
            BY <1>1
        <3> HIDE DEF rows
        <3>5. QED
            BY <1>1, <3>1, <3>2, <3>3, <3>4
    <2> HIDE DEF rows, ids
    <2>3. Range(out) = Range(got[e].ideas) \cup Range(rows)
        BY <1>1, <2>1, RangeConcatenation
    <2> HIDE DEF out
    <2>4. /\ got'[e].ids = got[e].ids /\ got'[e].theses = got[e].theses /\ got'[e].sources = got[e].sources
          /\ got'[e].ideas = out /\ pc'[e] = "ideas"
        BY <1>2, <1>5, ReaderTypes DEF TypeOK, Rows
    <2>5. Taken(e)' /\ Known(e)' /\ Homes(e)'
        BY <1>2, <1>5, <2>4 DEF ReadInv, Taken, Known, Homes, Listed, After, Fetched
    <2>6. \A r \in Range(got[e].theses), i \in Range(rows) : r.id \in i.leaves => i.id = r.idea
        BY <1>2, <2>2 DEF ReadInv, Homes, Fetched
    <2>7. Agree(e)'
        BY <2>3, <2>4, <2>6 DEF ReadInv, Agree, Consistently
    <2>8. QED
        BY <1>3, <2>5, <2>7 DEF ReadInv
<1>6. QED
    BY <1>4, <1>5 DEF ReadIdeas

(* The notes on disk are as many as were counted, and each of a node that  *)
(* was there: so they are all of them.                                     *)
LEMMA WriteNotesStep ==
    ASSUME TypeOK, NEW e \in Exports, ReadInv(e), WriteNotes(e)
    PROVE  ReadInv(e)'
<1>1. pc[e] = "write" /\ UNCHANGED lake /\ SameReads(e) /\ UNCHANGED build
    BY DEF WriteNotes, SameReads, reads
<1>2. ReadNodes(e) \subseteq asOf[e]
    BY <1>1 DEF ReadInv, Known, ReadNodes, After, Fetched
<1>3. Cardinality(ReadNodes(e)) = Expected(e) => ReadNodes(e) = asOf[e]
    <2>1. IsFiniteSet(asOf[e]) /\ Cardinality(asOf[e]) <= Expected(e)
        BY DEF ReadInv, Since
    <2>2. /\ IsFiniteSet(ReadNodes(e)) /\ Cardinality(ReadNodes(e)) <= Cardinality(asOf[e])
          /\ Cardinality(asOf[e]) = Cardinality(ReadNodes(e)) => asOf[e] = ReadNodes(e)
        BY <1>2, <2>1, FS_Subset
    <2>3. Cardinality(ReadNodes(e)) \in Nat /\ Cardinality(asOf[e]) \in Nat /\ Expected(e) \in Nat
        <3>1. Expected(e) \in Nat
            BY ReaderTypes DEF Expected
        <3>2. QED
            BY <2>1, <2>2, <3>1, FS_CardinalityType
    <2> DEFINE a == Cardinality(asOf[e])
               b == Cardinality(ReadNodes(e))
               n == Expected(e)
    <2>4. a \in Nat /\ b \in Nat /\ n \in Nat /\ a <= n /\ b <= a
        BY <2>1, <2>2, <2>3
    <2> HIDE DEF a, b, n
    <2>5. b = n => a = b
        BY <2>4
    <2>6. QED
        BY <2>2, <2>5, Zenon DEF a, b, n
<1>4. /\ notes'[e] = ReadNodes(e)
      /\ pc'[e] = IF NotesAddUp(e, ReadNodes(e)) THEN "others" ELSE "clean"
    BY DEF WriteNotes, Goto, TypeOK
<1>5. Noted(e)'
    BY <1>1, <1>3, <1>4 DEF Noted, NotesAddUp, SameReads
<1>6. After(e, Fetched) /\ pc'[e] \notin {"idle"} \cup Fetched /\ pc[e] \in Consistently
    BY <1>1, <1>4 DEF After, Fetched, Consistently
<1>7. QED
    BY <1>1, <1>5, <1>6, ReaderGoesOn

LEMMA CheckStep ==
    ASSUME TypeOK, NEW e \in Exports, ReadInv(e), Check(e)
    PROVE  ReadInv(e)'
<1>1. /\ pc[e] = "check" /\ UNCHANGED lake /\ UNCHANGED build
      /\ counted'[e] = counted[e] /\ asOf'[e] = asOf[e] /\ e \notin build
    BY DEF Check, ReadInv, Noted
<1>2. CASE Consistent(e) /\ Goto(e, "others") /\ UNCHANGED got
    <2>1. pc'[e] = "others" /\ SameReads(e)
        BY <1>1, <1>2 DEF Goto, TypeOK, SameReads
    <2>2. After(e, Fetched) /\ pc'[e] \notin {"idle"} \cup Fetched
        BY <1>1, <2>1 DEF After, Fetched
    <2>3. Noted(e)'
        BY <1>1 DEF Noted
    <2>4. QED
        BY <1>1, <1>2, <2>1, <2>2, <2>3, ReaderGoesOn
<1>3. CASE Refuse(e)
    <2>1. pc'[e] = "idle" /\ got'[e] = Nothing /\ e \notin build'
        BY <1>1, <1>3 DEF Refuse, Goto, TypeOK
    <2>2. QED
        BY <1>1, <2>1, ReaderLeaves
<1>4. QED
    BY <1>2, <1>3 DEF Check

LEMMA FolderStep ==
    ASSUME TypeOK, NEW e \in Exports, ReadInv(e),
           \/ CheckOthers(e) \/ CheckNames(e) \/ Mark(e) \/ MakeBuild(e)
           \/ Drop(e) \/ Move(e) \/ Break(e) \/ Clean(e) \/ Die(e)
    PROVE  ReadInv(e)'
<1>1. UNCHANGED lake /\ counted'[e] = counted[e] /\ asOf'[e] = asOf[e]
    BY DEF CheckOthers, CheckNames, Mark, MakeBuild, Drop, Move, Break, Clean, Die, reads
<1>2. CASE pc'[e] = "idle"
    <2>1. CASE Clean(e) \/ Die(e)
        BY <1>1, <1>2, <2>1, ReaderLeaves DEF Clean, Die, Refuse, TypeOK
    <2>2. CASE CheckOthers(e) \/ CheckNames(e)
        <3>1. e \notin build' /\ got'[e] = Nothing
            BY <1>2, <2>2 DEF CheckOthers, CheckNames, Conflict, Refuse, Goto, TypeOK
        <3>2. QED
            BY <1>1, <1>2, <3>1, ReaderLeaves
    <2>3. CASE \/ Mark(e) \/ MakeBuild(e) \/ Drop(e) \/ Move(e) \/ Break(e)
        BY <1>2, <2>3 DEF Mark, MakeBuild, Drop, Move, Break, Goto, TypeOK, Swapping
    <2>4. QED
        BY <2>1, <2>2, <2>3
<1>3. CASE pc'[e] # "idle"
    <2>1. ~Clean(e) /\ ~Die(e)
        BY <1>3 DEF Clean, Die, Refuse, Goto, TypeOK
    <2>2. SameReads(e)
        BY <1>1, <1>3, <2>1 DEF CheckOthers, CheckNames, Mark, MakeBuild, Drop, Move, Break, Conflict,
           Refuse, Goto, TypeOK, SameReads, reads
    <2>3. /\ pc[e] \in {"others", "names", "mark", "build", "write", "drop", "move"}
          /\ pc'[e] \in {"others", "names", "mark", "build", "write", "drop", "move", "clean"}
        BY <1>3, <2>1 DEF CheckOthers, CheckNames, Mark, MakeBuild, Drop, Move, Break, Conflict,
           Refuse, Goto, TypeOK, Swapping
    <2>4. After(e, Fetched) /\ pc'[e] \notin {"idle"} \cup Fetched /\ pc[e] \in Consistently
        BY <2>3 DEF After, Fetched, Consistently
    <2>5. Noted(e)'
        <3> USE DEF Noted, ReadInv, Goto, TypeOK
        <3>1. CASE CheckOthers(e)
            BY <1>1, <1>3, <3>1 DEF CheckOthers, Conflict, Refuse
        <3>2. CASE CheckNames(e)
            BY <1>1, <1>3, <3>2 DEF CheckNames, Conflict, Refuse
        <3>3. CASE Mark(e)
            BY <1>1, <3>3 DEF Mark
        <3>4. CASE MakeBuild(e)
            BY <1>1, <3>4 DEF MakeBuild
        <3>5. CASE Drop(e)
            BY <1>1, <3>5 DEF Drop
        <3>6. CASE Move(e)
            BY <1>1, <3>6 DEF Move
        <3>7. CASE Break(e)
            BY <1>1, <3>7 DEF Break
        <3>8. QED
            BY <2>1, <3>1, <3>2, <3>3, <3>4, <3>5, <3>6, <3>7
    <2>6. QED
        BY <1>1, <2>2, <2>4, <2>5, ReaderGoesOn
<1>4. QED
    BY <1>2, <1>3

LEMMA OwnStep ==
    ASSUME TypeOK, NEW e \in Exports, ReadInv(e), Export(e)
    PROVE  ReadInv(e)'
BY CountStep, SourcesStep, ThesesStep, IdsStep, ReadIdeasStep, CheckStep, WriteNotesStep, FolderStep
   DEF Export, Read

(* A step of one export changes no other's reads, place or build, nor the  *)
(* lake.                                                                   *)
LEMMA OthersStep ==
    ASSUME TypeOK, NEW e \in Exports, NEW f \in Exports, f # e, ReadInv(f), Export(e)
    PROVE  ReadInv(f)'
<1> USE DEF Export, Count, Read, ReadAll, ReadIdeas, Check, CheckOthers, CheckNames, Mark, MakeBuild,
        WriteNotes, Drop, Move, Break, Clean, Die, Conflict, Refuse, Goto, TypeOK, reads
<1>1. UNCHANGED lake
    OBVIOUS
<1>2. counted'[f] = counted[f] /\ asOf'[f] = asOf[f]
    OBVIOUS
<1>3. got'[f] = got[f]
    OBVIOUS
<1>4. pc'[f] = pc[f]
    OBVIOUS
<1>5. notes'[f] = notes[f]
    OBVIOUS
<1>6. f \in build' <=> f \in build
    OBVIOUS
<1>7. QED
    BY <1>1, <1>2, <1>3, <1>4, <1>5, <1>6, ReaderStays DEF SameReads

LEMMA ReadStep ==
    TypeOK /\ (\A e \in Exports : ReadInv(e)) /\ [Next]_vars => (\A e \in Exports : ReadInv(e))'
<1> SUFFICES ASSUME TypeOK, \A e \in Exports : ReadInv(e), [Next]_vars, NEW e \in Exports
             PROVE  ReadInv(e)'
    OBVIOUS
<1>1. ReadInv(e)
    OBVIOUS
<1>2. CASE \E f \in Exports : Export(f)
    BY <1>1, <1>2, OwnStep, OthersStep
<1>3. CASE Write
    BY <1>1, <1>3, WriteStays
<1>4. CASE RemoveLeft \/ Litter \/ UNCHANGED vars
    <2>1. /\ UNCHANGED lake /\ SameReads(e) /\ pc'[e] = pc[e] /\ notes'[e] = notes[e]
          /\ (e \in build' <=> e \in build)
        BY <1>4 DEF RemoveLeft, Litter, vars, reads, SameReads
    <2>2. QED
        BY <1>1, <2>1, ReaderStays
<1>5. QED
    BY <1>2, <1>3, <1>4 DEF Next

LEMMA ReadInit == Init => \A e \in Exports : ReadInv(e)
<1> SUFFICES ASSUME Init, NEW e \in Exports PROVE ReadInv(e)
    OBVIOUS
<1>1. TypeOK /\ pc[e] = "idle" /\ got[e] = Nothing /\ asOf[e] = {} /\ e \notin build
    BY InitInv DEF VaultInv, Init
<1>2. counted[e].sources = 0 /\ counted[e].ideas = 0 /\ counted[e].leaves = 0
    BY DEF Init
<1>3. Range(<<>>) = {} /\ Len(<<>>) = 0
    BY DEF Range
<1>4. Since(e)
    <2>1. \A S : \A s \in Seq(S) : Within(s, 0, {})
        BY RangeIs DEF Within
    <2>2. Within(sources, 0, {}) /\ Within(ideas, 0, {}) /\ Within(leaves, 0, {})
        BY <1>1, <2>1 DEF TypeOK
    <2>3. IsFiniteSet({}) /\ Cardinality({}) = 0
        BY FS_EmptySet
    <2>4. QED
        BY <1>1, <1>2, <2>2, <2>3 DEF Since, Expected
<1>5. QED
    BY <1>1, <1>2, <1>3, <1>4 DEF ReadInv, Taken, Known, Homes, Agree, Noted, After, Listed, Nothing,
       Fetched, Consistently

(* What every reader knows of the lake holds as long as it reads.          *)
THEOREM ReadersKnowTheLake == Spec => [](\A e \in Exports : ReadInv(e))
<1>1. VaultInv => TypeOK
    BY DEF VaultInv
<1>2. QED
    BY <1>1, ReadInit, ReadStep, VaultInvariant, PTL DEF Spec

(* What is swapped in is a note for each node that was counted, and for    *)
(* none besides, and its links agree (_all, _read, the counts on disk).    *)
THEOREM TheSwapIsTheLake == Spec => []SwapsInTheLake
<1>1. VaultInv /\ (\A e \in Exports : ReadInv(e)) => SwapsInTheLake
    BY DEF VaultInv, OnePast, ReadInv, Noted, Agree, SwapsInTheLake, Swapping, Consistently
<1>2. QED
    BY <1>1, VaultInvariant, ReadersKnowTheLake, PTL

=============================================================================
