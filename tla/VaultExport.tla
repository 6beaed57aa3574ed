---------------------------- MODULE VaultExport ----------------------------
(***************************************************************************)
(* The vault export (src/lake/vault.py): the whole lake, read page by page *)
(* while others write to it, is built as a folder of notes beside the old  *)
(* one and swapped in.  Several exports may aim at one folder - the tool   *)
(* takes no lock - and each may die anywhere.                              *)
(*                                                                         *)
(* The export creates a build directory under a name of its own, and then  *)
(* looks for the build directories of others before it deletes anything.   *)
(*                                                                         *)
(* Abstractions: a note is its node; an entry of the folder (ideas/,       *)
(* theses/, sources/, README.md) carries the run that wrote it; file names *)
(* that collide are a choice of the run.                                   *)
(***************************************************************************)
EXTENDS Integers, Sequences, FiniteSets, SequencesExt, FiniteSetsExt

CONSTANTS
    Exports,            (* the processes that export                       *)
    Entries,            (* OWNED, in the order they are moved              *)
    Sources, Ideas, Leaves,     (* node ids the lake may come to hold      *)
    None, Old, Stranger,        (* authors: nobody, an export before, no export *)
    Page,               (* vault.PAGE                                      *)
    Lake,               (* the lake at the start                           *)
    MaxWrites, MaxRuns, MaxDeaths   (* bounds                              *)

Owned == Range(Entries)
Runs == Exports \X (1..MaxRuns)

ASSUME VaultAssumption ==
    /\ Entries \in Seq(Owned)
    /\ {None, Old, Stranger} \cap Runs = {} /\ Stranger \notin {None, Old} /\ Old # None
    /\ None \notin Ideas \cup Sources /\ Page \in Nat \ {0}
    /\ IsFiniteSet(Sources) /\ IsFiniteSet(Ideas) /\ IsFiniteSet(Leaves)
    /\ Lake.sources \in Seq(Sources) /\ Lake.ideas \in Seq(Ideas) /\ Lake.leaves \in Seq(Leaves)
    /\ Lake.home \in [Leaves -> Ideas \cup {None}]
    /\ Lake.origin \in [Leaves -> Sources \cup {None}]
    /\ MaxWrites \in Nat /\ MaxRuns \in Nat /\ MaxDeaths \in Nat

VARIABLES
    sources,        (* the lake: sources by retrieved_at, seq              *)
    ideas, leaves,  (* ideas and theses by seq                             *)
    home, origin,   (* the idea and the source of a leaf                   *)
    writes,
    marker,         (* the folder: is the marker there?                    *)
    entry,          (* the run that wrote each entry                       *)
    stray,          (* is there a file no export owns?                     *)
    left,           (* build directories of runs that died                 *)
    build,          (* which live runs have a build directory              *)
    pc, run,        (* each export: its step, and its runs so far          *)
    counted,        (* counts()                                            *)
    got,            (* what it has read                                    *)
    notes,          (* the notes in its build directory                    *)
    asOf,           (* history: the nodes when it counted them             *)
    vault,          (* history: the run that last finished a swap          *)
    torn,           (* history: a swap was cut short since                 *)
    deaths

lake == <<sources, ideas, leaves, home, origin, writes>>
folder == <<marker, entry, stray, left>>
reads == <<counted, got, asOf>>
past == <<vault, torn, deaths>>
vars == <<lake, folder, build, pc, run, reads, notes, past>>

Steps == {"idle", "sources", "theses", "ids", "ideas", "check", "others", "names", "mark",
          "build", "write", "drop", "move", "clean"}
Swapping == {"drop", "move"}
Nodes == Sources \cup Ideas \cup Leaves
Author == Runs \cup {None, Old, Stranger}
Nothing == [sources |-> <<>>, theses |-> <<>>, ids |-> <<>>, ideas |-> <<>>]
InLake == Range(sources) \cup Range(ideas) \cup Range(leaves)

Rows ==
    [sources : Seq(Sources), ids : Seq(Ideas),
     theses : Seq([id : Leaves, idea : Ideas \cup {None}, source : Sources \cup {None}]),
     ideas : Seq([id : Ideas, leaves : SUBSET Leaves])]

TypeOK ==
    /\ sources \in Seq(Sources) /\ ideas \in Seq(Ideas) /\ leaves \in Seq(Leaves)
    /\ home \in [Leaves -> Ideas \cup {None}] /\ origin \in [Leaves -> Sources \cup {None}]
    /\ marker \in BOOLEAN /\ stray \in BOOLEAN /\ torn \in BOOLEAN
    /\ entry \in [Owned -> Author] /\ vault \in Author
    /\ deaths \in 0..MaxDeaths /\ left \in 0..deaths /\ writes \in 0..MaxWrites
    /\ build \subseteq Exports
    /\ pc \in [Exports -> Steps] /\ run \in [Exports -> 0..MaxRuns]
    /\ counted \in [Exports -> [sources : Nat, ideas : Nat, leaves : Nat]]
    /\ got \in [Exports -> Rows]
    /\ notes \in [Exports -> SUBSET Nodes] /\ asOf \in [Exports -> SUBSET Nodes]

Init ==
    /\ sources = Lake.sources /\ ideas = Lake.ideas /\ leaves = Lake.leaves
    /\ home = Lake.home /\ origin = Lake.origin /\ writes = 0
    /\ vault \in {None, Old, Stranger} /\ entry = [n \in Owned |-> vault]
    /\ marker = (vault = Old) /\ stray = FALSE /\ left = 0 /\ build = {}
    /\ pc = [e \in Exports |-> "idle"] /\ run = [e \in Exports |-> 0]
    /\ counted = [e \in Exports |-> [sources |-> 0, ideas |-> 0, leaves |-> 0]]
    /\ got = [e \in Exports |-> Nothing]
    /\ notes = [e \in Exports |-> {}] /\ asOf = [e \in Exports |-> {}]
    /\ torn = FALSE /\ deaths = 0

(***************************************************************************)
(* The writers of the lake.  Nothing is ever deleted.                      *)
(***************************************************************************)
Wrote == writes < MaxWrites /\ writes' = writes + 1
Others == <<folder, build, pc, run, reads, notes, past>>

(* write_source of a new source, in its place by retrieved_at              *)
AddSource(s) ==
    /\ Wrote /\ s \notin Range(sources)
    /\ \E n \in 1..Len(sources) + 1 : sources' = InsertAt(sources, n, s)
    /\ UNCHANGED <<ideas, leaves, home, origin, Others>>

(* upsert_source again: retrieved_at is now                                *)
Repost(s) ==
    /\ Wrote
    /\ \E n \in 1..Len(sources) :
         sources[n] = s /\ sources' = Append(RemoveAt(sources, n), s)
    /\ UNCHANGED <<ideas, leaves, home, origin, Others>>

(* create_idea_with_theses                                                 *)
AddLeaf(l, i, s) ==
    /\ Wrote /\ l \notin Range(leaves) /\ s \in Range(sources)
    /\ leaves' = Append(leaves, l)
    /\ ideas' = IF i \in Range(ideas) THEN ideas ELSE Append(ideas, i)
    /\ home' = [home EXCEPT ![l] = i] /\ origin' = [origin EXCEPT ![l] = s]
    /\ UNCHANGED <<sources, Others>>

(* split_idea: a leaf moves to a new idea, another stays                   *)
MoveLeaf(l, i) ==
    /\ Wrote /\ l \in Range(leaves) /\ i \notin Range(ideas)
    /\ \E k \in Range(leaves) \ {l} : home[k] = home[l]
    /\ ideas' = Append(ideas, i) /\ home' = [home EXCEPT ![l] = i]
    /\ UNCHANGED <<sources, leaves, origin, Others>>

Write ==
    \/ \E s \in Sources : AddSource(s) \/ Repost(s)
    \/ \E l \in Leaves, i \in Ideas : MoveLeaf(l, i) \/ \E s \in Sources : AddLeaf(l, i, s)

(***************************************************************************)
(* The read: counts first, then page after page.                           *)
(***************************************************************************)
Goto(e, s) == pc' = [pc EXCEPT ![e] = s]
PageOf(rows, out) == SubSeq(rows, Len(out) + 1, Min({Len(out) + Page, Len(rows)}))
Expected(e) == counted[e].sources + counted[e].ideas + counted[e].leaves

(* A refusal before there is a build directory leaves nothing behind.      *)
Refuse(e) ==
    /\ Goto(e, "idle")
    /\ got' = [got EXCEPT ![e] = Nothing]

Count(e) ==
    /\ pc[e] = "idle" /\ run[e] < MaxRuns
    /\ InLake # {}
    /\ counted' = [counted EXCEPT ![e] = [sources |-> Len(sources), ideas |-> Len(ideas),
                                          leaves |-> Len(leaves)]]
    /\ asOf' = [asOf EXCEPT ![e] = InLake]
    /\ run' = [run EXCEPT ![e] = @ + 1] /\ Goto(e, "sources")
    /\ UNCHANGED <<lake, folder, build, got, notes, past>>

(* _all: up to an empty page, or to more rows than were counted            *)
ReadAll(e, field, rows, expected, next) ==
    LET out == got[e][field] \o rows
    IN  /\ pc[e] = field
        /\ \/ rows = <<>> /\ Goto(e, next) /\ UNCHANGED got
           \/ /\ rows # <<>> /\ Len(out) <= expected
              /\ got' = [got EXCEPT ![e][field] = out] /\ UNCHANGED pc
           \/ rows # <<>> /\ Len(out) > expected /\ Refuse(e)
        /\ UNCHANGED <<lake, folder, build, run, counted, asOf, notes, past>>

ThesisRows == [n \in 1..Len(leaves) |->
               [id |-> leaves[n], idea |-> home[leaves[n]], source |-> origin[leaves[n]]]]
IdeaRow(i) == [id |-> i, leaves |-> {l \in Range(leaves) : home[l] = i}]

Read(e) ==
    \/ ReadAll(e, "sources", PageOf(sources, got[e].sources), counted[e].sources,
               "theses")
    \/ ReadAll(e, "theses", PageOf(ThesisRows, got[e].theses), counted[e].leaves,
               "ids")
    \/ ReadAll(e, "ids", PageOf(ideas, got[e].ids), counted[e].ideas, "ideas")

(* get_ideas, over the ids that were read                                  *)
ReadIdeas(e) ==
    /\ pc[e] = "ideas"
    /\ LET ids == PageOf(got[e].ids, got[e].ideas)
       IN  IF ids = <<>> THEN Goto(e, "check") /\ UNCHANGED got
           ELSE /\ got' = [got EXCEPT ![e].ideas = @ \o [n \in 1..Len(ids) |-> IdeaRow(ids[n])]]
                /\ UNCHANGED pc
    /\ UNCHANGED <<lake, folder, build, run, counted, asOf, notes, past>>

(* What the rows name.                                                     *)
Listed(e) == {r.id : r \in Range(got[e].theses)}
ReadNodes(e) == Range(got[e].sources) \cup Range(got[e].ids) \cup Listed(e)

Counted(e) ==
    /\ Len(got[e].sources) = counted[e].sources
    /\ Len(got[e].ideas) = counted[e].ideas
    /\ Len(got[e].theses) = counted[e].leaves

NoDanglingEnd(e) ==
    \A r \in Range(got[e].theses) :
      r.idea \in Range(got[e].ids) /\ r.source \in Range(got[e].sources)

(* Bug: the two directions of HAS_LEAF are not compared.                   *)
ConsistentOneWay(e) == Counted(e) /\ NoDanglingEnd(e)

Consistent(e) ==
    /\ Counted(e) /\ NoDanglingEnd(e)
    /\ Listed(e) = UNION {r.leaves : r \in Range(got[e].ideas)}

Check(e) ==
    /\ pc[e] = "check"
    /\ IF Consistent(e) THEN Goto(e, "others") /\ UNCHANGED got ELSE Refuse(e)
    /\ UNCHANGED <<lake, folder, build, run, counted, asOf, notes, past>>

(***************************************************************************)
(* The folder: _check_dest, twice, and between the two the build.          *)
(***************************************************************************)
(* Bug: a live build directory of another run is not looked for.           *)
OthersUnseen(e) == left > 0

(* the build directory of another run, alive or dead                       *)
OthersBuild(e) == left > 0 \/ build \ {e} # {}

(* Bug: notes without a marker are taken for an export's.                  *)
ForeignByName == stray

(* names that are not ours, or notes with no marker beside them            *)
Foreign == stray \/ (~marker /\ \E n \in Owned : entry[n] # None)

(* A refusal of the first check leaves at once, one of the second cleans   *)
(* up its build directory.                                                 *)
Conflict(e) ==
    IF e \in build THEN Goto(e, "clean") /\ UNCHANGED got ELSE Refuse(e)

CheckOthers(e) ==
    /\ pc[e] = "others"
    /\ IF OthersBuild(e) THEN Conflict(e) ELSE Goto(e, "names") /\ UNCHANGED got
    /\ UNCHANGED <<lake, folder, build, run, counted, asOf, notes, past>>

CheckNames(e) ==
    /\ pc[e] = "names"
    /\ IF Foreign THEN Conflict(e)
       ELSE Goto(e, IF e \in build THEN "drop" ELSE "mark") /\ UNCHANGED got
    /\ UNCHANGED <<lake, folder, build, run, counted, asOf, notes, past>>

Mark(e) ==
    /\ pc[e] = "mark"
    /\ marker' = TRUE /\ Goto(e, "build")
    /\ UNCHANGED <<lake, entry, stray, left, build, run, reads, notes, past>>

(* mkdtemp                                                                 *)
MakeBuild(e) ==
    /\ pc[e] = "build"
    /\ build' = build \cup {e} /\ Goto(e, "write")
    /\ UNCHANGED <<lake, folder, run, reads, notes, past>>

(* one note per node read, counted on disk                                 *)
NotesAddUp(e, written) == Cardinality(written) = Expected(e)

WriteNotes(e) ==
    /\ pc[e] = "write"
    /\ notes' = [notes EXCEPT ![e] = ReadNodes(e)]
    /\ Goto(e, IF NotesAddUp(e, ReadNodes(e)) THEN "others" ELSE "clean")
    /\ UNCHANGED <<lake, folder, build, run, reads, past>>

(***************************************************************************)
(* The swap: every old entry goes, then every new one is moved in.         *)
(***************************************************************************)
Mine(e) == <<e, run[e]>>

Drop(e) ==
    /\ pc[e] = "drop"
    /\ \/ \E n \in Owned : entry[n] # None /\ entry' = [entry EXCEPT ![n] = None] /\ UNCHANGED pc
       \/ (\A n \in Owned : entry[n] = None) /\ Goto(e, "move") /\ UNCHANGED entry
    /\ UNCHANGED <<lake, marker, stray, left, build, run, reads, notes, past>>

(* Bug: the README is not moved.                                           *)
MoveFolders(e) ==
    /\ pc[e] = "move"
    /\ \E n \in 1..Len(Entries) - 1 :
         /\ \A m \in 1..n : (m < n) <=> (entry[Entries[m]] = Mine(e))
         /\ entry' = [entry EXCEPT ![Entries[n]] = Mine(e)]
         /\ IF n < Len(Entries) - 1 THEN UNCHANGED <<pc, vault, torn>>
            ELSE Goto(e, "clean") /\ vault' = Mine(e) /\ torn' = FALSE
    /\ UNCHANGED <<lake, marker, stray, left, build, run, reads, notes, deaths>>

Move(e) ==
    /\ pc[e] = "move"
    /\ \E n \in 1..Len(Entries) :
         /\ \A m \in 1..n : (m < n) <=> (entry[Entries[m]] = Mine(e))
         /\ entry' = [entry EXCEPT ![Entries[n]] = Mine(e)]
         /\ IF n < Len(Entries) THEN UNCHANGED <<pc, vault, torn>>
            ELSE Goto(e, "clean") /\ vault' = Mine(e) /\ torn' = FALSE
    /\ UNCHANGED <<lake, marker, stray, left, build, run, reads, notes, deaths>>

(* an OSError while writing, deleting or moving                            *)
Break(e) ==
    /\ pc[e] \in Swapping \cup {"write"} /\ Goto(e, "clean")
    /\ torn' = (torn \/ pc[e] \in Swapping)
    /\ UNCHANGED <<lake, folder, build, run, reads, notes, vault, deaths>>

Clean(e) ==
    /\ pc[e] = "clean"
    /\ build' = build \ {e} /\ notes' = [notes EXCEPT ![e] = {}]
    /\ Refuse(e)
    /\ UNCHANGED <<lake, folder, run, counted, asOf, past>>

Die(e) ==
    /\ pc[e] # "idle" /\ deaths < MaxDeaths /\ deaths' = deaths + 1
    /\ left' = IF e \in build THEN left + 1 ELSE left
    /\ build' = build \ {e} /\ notes' = [notes EXCEPT ![e] = {}]
    /\ torn' = (torn \/ pc[e] \in Swapping)
    /\ Refuse(e)
    /\ UNCHANGED <<lake, marker, entry, stray, run, counted, asOf, vault>>

(* The operator: deletes what a dead run left, puts a file of his own.     *)
RemoveLeft ==
    /\ left > 0 /\ left' = left - 1
    /\ UNCHANGED <<lake, marker, entry, stray, build, pc, run, reads, notes, past>>

Litter ==
    /\ stray' = ~stray
    /\ UNCHANGED <<lake, marker, entry, left, build, pc, run, reads, notes, past>>

Export(e) ==
    \/ Count(e) \/ Read(e) \/ ReadIdeas(e) \/ Check(e) \/ CheckOthers(e) \/ CheckNames(e)
    \/ Mark(e) \/ MakeBuild(e) \/ WriteNotes(e) \/ Drop(e) \/ Move(e) \/ Break(e) \/ Clean(e)
    \/ Die(e)

Next == (\E e \in Exports : Export(e)) \/ Write \/ RemoveLeft \/ Litter

Spec == Init /\ [][Next]_vars

(***************************************************************************)
(* Properties.                                                             *)
(***************************************************************************)
(* Two exports never delete and move in one folder at once: each creates   *)
(* its build directory before it looks for the other's.                    *)
OneSwap == \A e, f \in Exports : pc[e] \in Swapping /\ pc[f] \in Swapping => e = f

(* Unless a swap was cut short, the folder is the whole vault of the run   *)
(* that finished last: a refused run, a dead one or a rival leaves it so.  *)
VaultIsWhole ==
    torn \/ (\E e \in Exports : pc[e] \in Swapping) \/ \A n \in Owned : entry[n] = vault

(* What is swapped in holds a note for every node the lake had when the    *)
(* export counted them and for no other, whatever was written, re-posted   *)
(* or split while it read (_all, the counts, the notes on disk), and in it *)
(* the two ends of a leaf agree: the idea a thesis links to lists it.      *)
SwapsInTheLake ==
    \A e \in Exports : pc[e] \in Swapping =>
      /\ notes[e] = asOf[e]
      /\ \A r \in Range(got[e].theses) :
           \E i \in Range(got[e].ideas) : i.id = r.idea /\ r.id \in i.leaves

(* Notes that no export wrote are never deleted.                           *)
ForeignStays == [][\A n \in Owned : entry[n] = Stranger => entry'[n] = Stranger]_vars

=============================================================================
