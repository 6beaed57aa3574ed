------------------------------- MODULE Phase2 -------------------------------
(***************************************************************************)
(* One linking pass over a staging file (_phase2 of src/lake/ingest/       *)
(* run.py): repair of the index, then per source the arbiter's decisions,  *)
(* one transaction and one index write per idea, co-citation, a second     *)
(* repair and the splits, and at last the cursor.  A pass may raise or die *)
(* after any of these steps and starts again from the cursor.  The         *)
(* hypothesis tool (src/lake/idea_merger.py) may write beside it: it takes *)
(* neither the slot nor the writer lock.                                   *)
(*                                                                         *)
(* Store and index are two databases, so every write is a step of its own. *)
(* A rebuild of the index commits its DROPs and CREATEs one by one: one    *)
(* that raises may leave a table missing, which a process that is running  *)
(* never creates again.                                                    *)
(*                                                                         *)
(* Abstractions: a leaf is its unique key <<source, text_hash>>; a         *)
(* retrieval window shows every idea of the index; texts, vectors, weights,*)
(* re-derivation and trust are left to the upkeep of ideas.                *)
(***************************************************************************)
EXTENDS Integers, Sequences, FiniteSets

CONSTANTS
    Staging,        (* the lines of the staging file: <<source, text>>    *)
    Syntheses,      (* leaves the hypothesis tool may write               *)
    Ideas, NoIdea,  (* idea ids; random in the code, so never reused      *)
    NoSource,
    MaxLeaves,      (* split.MAX_LEAVES                                   *)
    MaxAborts       (* bound: raises, deaths and calls of ops.reindex     *)

Lines == 1..Len(Staging)
Source(n) == Staging[n][1]
Sources == {Source(n) : n \in Lines}
Staged == {Staging[n] : n \in Lines}
Leaf == Staged \cup Syntheses

ASSUME Phase2Assumption ==
    /\ Staging \in Seq(Staged)
    /\ \A l \in Leaf : l = <<l[1], l[2]>>
    /\ \A h \in Syntheses : h[1] \notin Sources
    /\ NoSource \notin Sources /\ NoIdea \notin Ideas
    /\ MaxLeaves \in Nat \ {0} /\ MaxAborts \in Nat

VARIABLES
    home,           (* store: the idea of each leaf                       *)
    ideas,          (* store: the idea nodes                              *)
    cites,          (* store: co-citation edges, <<pair, source>>         *)
    index,          (* the thesis index: the idea it has for each leaf    *)
    tables,         (* its two tables, see Tables                         *)
    pending,        (* pending_link.jsonl: the leaves the arbiter refused *)
    cursor,         (* staging.cursor                                     *)
    pc, done, group,    (* the pass: its step, the lines behind it and    *)
                        (* the source it is on                            *)
    todo, seen, plan,   (* link_batch: lines left, hashes seen and        *)
                        (* decisions by line, not yet written             *)
    snap,           (* the rows of all_theses() the pass last read        *)
    pairs, due,     (* co-citation pairs to write, ideas to split         *)
    whole,          (* history: sources whose pairs were all written once *)
    blind,          (* history: the last rebuild of a sweep raised, and   *)
                    (* no repair has ended since                          *)
    opened, hyp,    (* the hypothesis tool: the idea of each synthesis,   *)
                    (* and how far its write is                           *)
    aborts

storeVars == <<home, ideas, cites>>
indexVars == <<index, tables>>
durable == <<home, ideas, cites, index, tables, pending, cursor>>
batchVars == <<todo, seen, plan>>
toolVars == <<opened, hyp>>
history == <<whole, blind>>
vars == <<durable, pc, done, group, batchVars, snap, pairs, due, history, toolVars, aborts>>

(* "whole": both are there, with the same rows.  idx_thesis is missing,    *)
(* and thesis_fts is too ("none") or has its rows ("no_theses");           *)
(* idx_thesis is empty, and thesis_fts is missing ("no_texts") or has the  *)
(* rows of another time ("orphans").                                       *)
Tables == {"whole", "none", "no_theses", "no_texts", "orphans"}

Steps == {"idle", "read", "missing", "stale", "group", "link", "create", "index",
          "cite", "due", "split", "resnap", "rebuild", "advance", "reindex"}

TypeOK ==
    /\ home \in [Leaf -> Ideas \cup {NoIdea}]
    /\ index \in [Leaf -> Ideas \cup {NoIdea}] /\ tables \in Tables
    /\ snap \in [Leaf -> Ideas \cup {NoIdea}]
    /\ ideas \subseteq Ideas /\ due \subseteq Ideas
    /\ cites \subseteq (SUBSET Ideas) \X Sources
    /\ pairs \subseteq SUBSET Ideas
    /\ pending \subseteq Staged /\ seen \subseteq Staged
    /\ cursor \in 0..Len(Staging)
    /\ pc \in Steps /\ group \in Sources \cup {NoSource}
    /\ done \subseteq Lines /\ todo \subseteq Lines
    /\ plan \in [Lines -> Ideas \cup {NoIdea}]
    /\ whole \subseteq Sources /\ blind \in BOOLEAN
    /\ opened \in [Syntheses -> Ideas \cup {NoIdea}]
    /\ hyp \in [Syntheses -> {"none", "stored", "done", "failed"}]
    /\ aborts \in 0..MaxAborts

(***************************************************************************)
(* What the steps read.                                                    *)
(***************************************************************************)
Nowhere == [l \in Leaf |-> NoIdea]
Undecided == [n \in Lines |-> NoIdea]
Stored == {l \in Leaf : home[l] # NoIdea}
Leaves(i) == {l \in Leaf : home[l] = i}
IsFirst(n, S) == n \in S /\ \A m \in S : n <= m
GroupLines == {n \in Lines \ done : Source(n) = group}

(* Ideas taken by the store, by the batch or by the hypothesis tool.       *)
Decided == {plan[n] : n \in Lines} \ {NoIdea}
Unused == Ideas \ (ideas \cup Decided)

(* link.fts_candidates: hits of the index and of the batch itself.         *)
Candidates == ({index[l] : l \in Leaf} \cup Decided) \ {NoIdea}

(* Bug: an idea needs two leaves of the source to be paired.               *)
PairsOfTwice(s) ==
    LET cited == {i \in Ideas : Cardinality({l \in Leaves(i) : l[1] = s}) >= 2}
    IN  {{p[1], p[2]} : p \in {q \in cited \X cited : q[1] # q[2]}}

(* _COCITE_PAIRS: every two ideas with a leaf of this source.              *)
PairsOf(s) ==
    LET cited == {home[l] : l \in {k \in Stored : k[1] = s}}
    IN  {{p[1], p[2]} : p \in {q \in cited \X cited : q[1] # q[2]}}

(* split._clusters: bisect until every part is at or under the ceiling.    *)
Clusters[S \in SUBSET Leaf] ==
    IF Cardinality(S) <= MaxLeaves THEN {{S}}
    ELSE UNION {{P \cup Q : P \in Clusters[A], Q \in Clusters[S \ A]} :
                A \in (SUBSET S) \ {{}, S}}

Init ==
    /\ home = Nowhere /\ index = Nowhere /\ snap = Nowhere /\ tables = "whole"
    /\ ideas = {} /\ cites = {} /\ pending = {} /\ cursor = 0
    /\ pc = "idle" /\ done = {} /\ group = NoSource
    /\ todo = {} /\ seen = {} /\ plan = Undecided
    /\ pairs = {} /\ due = {} /\ whole = {} /\ blind = FALSE
    /\ opened = [h \in Syntheses |-> NoIdea]
    /\ hyp = [h \in Syntheses |-> "none"]
    /\ aborts = 0

(***************************************************************************)
(* The start of a pass, and _reconcile_index.  The same repair runs before *)
(* the first source and after the writes of each; group tells which.       *)
(***************************************************************************)
Begin ==
    /\ pc = "idle"
    /\ pc' = "read" /\ done' = 1..cursor /\ group' = NoSource
    /\ UNCHANGED <<durable, batchVars, snap, pairs, due, history, toolVars, aborts>>

ReadStore ==
    /\ pc = "read"
    /\ snap' = home
    /\ pc' = "missing"
    /\ UNCHANGED <<durable, done, group, batchVars, pairs, due, history, toolVars, aborts>>

(* Bug: a leaf the index lacks is not put back.                            *)
IndexNothing ==
    /\ pc = "missing"
    /\ pc' = "stale"
    /\ UNCHANGED <<durable, done, group, batchVars, snap, pairs, due, history, toolVars, aborts>>

IndexMissing ==
    /\ pc = "missing" /\ tables = "whole"
    /\ index' = [l \in Leaf |-> IF index[l] = NoIdea THEN snap[l] ELSE index[l]]
    /\ pc' = "stale"
    /\ UNCHANGED <<storeVars, tables, pending, cursor, done, group, batchVars, snap, pairs, due,
                   history, toolVars, aborts>>

(* index.stale_links: indexed, and under another idea than the store says. *)
StaleLinks == {l \in Leaf : snap[l] # NoIdea /\ index[l] \notin {snap[l], NoIdea}}

AfterRepair == IF group = NoSource THEN "group" ELSE "due"

RepairStale ==
    /\ pc = "stale" /\ tables = "whole"
    /\ index' = IF StaleLinks = {} THEN index ELSE snap
    /\ pc' = AfterRepair /\ blind' = FALSE
    /\ UNCHANGED <<storeVars, tables, pending, cursor, done, group, batchVars, snap, pairs,
                   due, whole, toolVars, aborts>>

(***************************************************************************)
(* link_batch: the rows of one source, in order.                           *)
(***************************************************************************)
OpenGroup(n) ==
    /\ IsFirst(n, Lines \ done)
    /\ group' = Source(n)
    /\ todo' = {m \in Lines \ done : Source(m) = Source(n)}
    /\ seen' = {Staging[m] : m \in {k \in Lines \ done : Source(k) = Source(n)}} \cap Stored

TakeGroup ==
    /\ pc = "group"
    /\ \/ done = Lines /\ pc' = "due" /\ UNCHANGED <<group, todo, seen>>
       \/ pc' = "link" /\ \E n \in Lines : OpenGroup(n)
    /\ UNCHANGED <<durable, done, plan, snap, pairs, due, history, toolVars, aborts>>

(* [0] the hash is in the store under this source, or earlier in the batch *)
Skip(n) ==
    /\ Staging[n] \in seen
    /\ UNCHANGED <<seen, plan, pending>>

(* [1]-[3] the arbiter names a candidate, or none of them                  *)
Decide(n, i) ==
    /\ Staging[n] \notin seen /\ tables = "whole"
    /\ i \in Candidates \cup Unused
    /\ plan' = [plan EXCEPT ![n] = i]
    /\ seen' = seen \cup {Staging[n]}
    /\ UNCHANGED pending

(* fail-closed: the arbiter failed, or answered outside its list           *)
Refuse(n) ==
    /\ Staging[n] \notin seen /\ tables = "whole"
    /\ pending' = pending \cup {Staging[n]}
    /\ UNCHANGED <<seen, plan>>

LinkRow ==
    /\ pc = "link"
    /\ \E n \in todo :
         /\ IsFirst(n, todo)
         /\ Skip(n) \/ Refuse(n) \/ \E i \in Ideas : Decide(n, i)
         /\ todo' = todo \ {n}
    /\ UNCHANGED <<storeVars, indexVars, cursor, pc, done, group, snap, pairs, due, history,
                   toolVars, aborts>>

LinkDone ==
    /\ pc = "link" /\ todo = {}
    /\ pc' = "create"
    /\ UNCHANGED <<durable, done, group, batchVars, snap, pairs, due, history, toolVars, aborts>>

(***************************************************************************)
(* The writes of the batch, one idea at a time: store, then index.         *)
(***************************************************************************)
PlanLines == {n \in Lines : plan[n] # NoIdea}
IsNext(i) == \E n \in Lines : IsFirst(n, PlanLines) /\ plan[n] = i
Batch(i) == {Staging[n] : n \in {m \in Lines : plan[m] = i}}

(* Bug: the batch is indexed before its transaction.                       *)
IndexBeforeCommit ==
    /\ pc = "create"
    /\ \E i \in Ideas :
         /\ IsNext(i)
         /\ index' = [l \in Leaf |-> IF l \in Batch(i) THEN i ELSE index[l]]
    /\ pc' = "index"
    /\ UNCHANGED <<storeVars, tables, pending, cursor, done, group, batchVars, snap, pairs, due,
                   history, toolVars, aborts>>

(* create_idea_with_theses: the idea, when new, and its leaves at once     *)
CreateIdea ==
    /\ pc = "create"
    /\ \E i \in Ideas :
         /\ IsNext(i)
         /\ home' = [l \in Leaf |-> IF l \in Batch(i) THEN i ELSE home[l]]
         /\ ideas' = ideas \cup {i}
    /\ pc' = "index"
    /\ UNCHANGED <<cites, indexVars, pending, cursor, done, group, batchVars, snap, pairs, due,
                   history, toolVars, aborts>>

IndexIdea ==
    /\ pc = "index" /\ tables = "whole"
    /\ \E i \in Ideas :
         /\ IsNext(i)
         /\ index' = [l \in Leaf |-> IF l \in Batch(i) THEN i ELSE index[l]]
         /\ plan' = [n \in Lines |-> IF plan[n] = i THEN NoIdea ELSE plan[n]]
    /\ pc' = "create"
    /\ UNCHANGED <<storeVars, tables, pending, cursor, done, group, todo, seen, snap, pairs, due,
                   history, toolVars, aborts>>

(***************************************************************************)
(* write_cocitation_edges: the pairs are read, then written one by one.    *)
(***************************************************************************)
FindPairs ==
    /\ pc = "create" /\ Decided = {}
    /\ pairs' = PairsOf(group)
    /\ pc' = "cite"
    /\ UNCHANGED <<durable, done, group, batchVars, snap, due, history, toolVars, aborts>>

CitePair ==
    /\ pc = "cite"
    /\ \E p \in pairs :
         /\ cites' = cites \cup {<<p, group>>}
         /\ pairs' = pairs \ {p}
    /\ UNCHANGED <<home, ideas, indexVars, pending, cursor, pc, done, group, batchVars, snap,
                   due, history, toolVars, aborts>>

CiteDone ==
    /\ pc = "cite" /\ pairs = {}
    /\ whole' = whole \cup {group}
    /\ pc' = "read"
    /\ UNCHANGED <<durable, done, group, batchVars, snap, pairs, due, blind, toolVars, aborts>>

(***************************************************************************)
(* split_sweep: after each source, and once more at the end of the pass.   *)
(***************************************************************************)
SplitDue ==
    /\ pc = "due"
    /\ due' = {i \in Ideas : Cardinality(Leaves(i)) > MaxLeaves}
    /\ pc' = "split"
    /\ UNCHANGED <<durable, done, group, batchVars, snap, pairs, history, toolVars, aborts>>

(* the model failed while the parts were derived: nothing is written       *)
SplitFails ==
    /\ pc = "split"
    /\ \E i \in due : due' = due \ {i}
    /\ UNCHANGED <<durable, pc, done, group, batchVars, snap, pairs, history, toolVars, aborts>>

(* What neo4j_store.split_idea accepts: children with leaves, no leaf in   *)
(* two of them, none that is not the parent's, and not all of those.       *)
StoreAccepts(i, moved) ==
    /\ moved # {} /\ {} \notin moved
    /\ \A p, q \in moved : p # q => p \cap q = {}
    /\ UNION moved \subseteq Leaves(i) /\ UNION moved # Leaves(i)

(* The parts that are moved become new ideas.                              *)
MoveParts(moved) ==
    \E child \in [moved -> Ideas \ ideas] :
        /\ \A p, q \in moved : p # q => child[p] # child[q]
        /\ ideas' = ideas \cup {child[p] : p \in moved}
        /\ home' = [l \in Leaf |-> IF l \in UNION moved
                                   THEN child[CHOOSE p \in moved : l \in p]
                                   ELSE home[l]]

(* The parent keeps a largest part.                                        *)
SplitIdea(i) ==
    /\ Cardinality(Leaves(i)) > MaxLeaves
    /\ \E parts \in Clusters[Leaves(i)] : \E keep \in parts :
         /\ \A p \in parts : Cardinality(p) <= Cardinality(keep)
         /\ StoreAccepts(i, parts \ {keep})
         /\ MoveParts(parts \ {keep})

SplitCommit ==
    /\ pc = "split"
    /\ \E i \in due : SplitIdea(i) /\ due' = due \ {i}
    /\ pc' = "resnap"
    /\ UNCHANGED <<cites, indexVars, pending, cursor, done, group, batchVars, snap, pairs,
                   history, toolVars, aborts>>

Resnap ==
    /\ pc = "resnap"
    /\ snap' = home
    /\ pc' = "rebuild"
    /\ UNCHANGED <<durable, done, group, batchVars, pairs, due, history, toolVars, aborts>>

(* Bug: the index is left as the split found it.                           *)
RebuildLeftOut ==
    /\ pc = "rebuild"
    /\ pc' = "split"
    /\ UNCHANGED <<durable, done, group, batchVars, snap, pairs, due, history, toolVars, aborts>>

(* _rebuild: drop both tables, create both, fill both.                     *)
Rebuilds == index' = snap /\ tables' = "whole"

(* It raises before it drops anything (a vector is refused), between two   *)
(* of its statements, or at the rows, which are rolled back.               *)
HasTexts == tables \in {"no_theses", "orphans"} \/ \E l \in Leaf : index[l] # NoIdea
RebuildRaises ==
    \/ UNCHANGED indexVars
    \/ /\ index' = Nowhere
       /\ \/ tables' \in {"none", "no_texts", "whole"}
          \/ HasTexts /\ tables' = "no_theses"

(* The sweep catches what a rebuild raises, and goes on.                   *)
RebuildIndex ==
    /\ pc = "rebuild"
    /\ \/ Rebuilds /\ blind' = FALSE
       \/ RebuildRaises /\ blind' = TRUE
    /\ pc' = "split"
    /\ UNCHANGED <<storeVars, pending, cursor, done, group, batchVars, snap, pairs, due,
                   whole, toolVars, aborts>>

SplitsDone ==
    /\ pc = "split" /\ due = {}
    /\ pc' = IF group = NoSource THEN "idle" ELSE "advance"
    /\ UNCHANGED <<durable, done, group, batchVars, snap, pairs, due, history, toolVars, aborts>>

(***************************************************************************)
(* The cursor: the last line with nothing undone before it.                *)
(***************************************************************************)

(* Bugs: the last line that was done, whatever is missing before it; the   *)
(* line before the last.                                                   *)
HighestDone(c, S) == c \in S /\ \A n \in S : n <= c
LineBefore(c, S) == 1..c \subseteq S /\ c + 1 \in S /\ (c + 2 \notin S)

Watermark(c, S) == 1..c \subseteq S /\ (c + 1 \notin S)

Advance ==
    /\ pc = "advance"
    /\ done' = done \cup GroupLines
    /\ \E c \in 0..Len(Staging) : Watermark(c, done') /\ cursor' = c
    /\ group' = NoSource /\ pc' = "group"
    /\ UNCHANGED <<storeVars, indexVars, pending, batchVars, snap, pairs, due, history, toolVars,
                   aborts>>

(***************************************************************************)
(* A raise or a death: what the pass held in memory is gone.               *)
(***************************************************************************)
Rebuilding == pc \in {"rebuild", "reindex"} \/ (pc = "stale" /\ StaleLinks # {})

EndPass ==
    /\ pc' = "idle" /\ done' = {} /\ group' = NoSource
    /\ todo' = {} /\ seen' = {} /\ plan' = Undecided
    /\ snap' = Nowhere /\ pairs' = {} /\ due' = {}
    /\ UNCHANGED <<storeVars, pending, cursor, history, toolVars>>

Raise ==
    /\ pc # "idle" /\ aborts < MaxAborts
    /\ \/ UNCHANGED indexVars
       \/ Rebuilding /\ pc # "rebuild" /\ RebuildRaises
    /\ aborts' = aborts + 1
    /\ EndPass

(* Whatever looks into an index that is not whole raises: the look for     *)
(* missing leaves, the candidates of a thesis, the insert of an idea.      *)
NeedsIndex ==
    \/ pc \in {"missing", "stale", "index"}
    \/ pc = "link" /\ \E n \in todo : IsFirst(n, todo) /\ Staging[n] \notin seen

MeetsBroken ==
    /\ tables # "whole" /\ NeedsIndex
    /\ EndPass
    /\ UNCHANGED <<indexVars, aborts>>

(* _con: the first use of the index in a process creates what is missing.  *)
Reopened(t) == IF t \in {"no_theses", "orphans"} THEN "orphans" ELSE "whole"

(* Killed, and started anew; a rebuild may be cut between any two of its   *)
(* statements.                                                             *)
Die ==
    /\ (pc # "idle" \/ tables # "whole") /\ aborts < MaxAborts
    /\ \/ index' = index /\ tables' = Reopened(tables)
       \/ /\ Rebuilding /\ index' = Nowhere
          /\ \/ tables' = "whole"
             \/ HasTexts /\ tables' = "orphans"
    /\ aborts' = aborts + 1
    /\ EndPass

(***************************************************************************)
(* ops.reindex, in the slot of the pass.  It counts the rows of idx_thesis *)
(* before it rebuilds anything.                                            *)
(***************************************************************************)
Reindex ==
    /\ pc = "idle" /\ tables \notin {"none", "no_theses"} /\ aborts < MaxAborts
    /\ snap' = home
    /\ pc' = "reindex" /\ aborts' = aborts + 1
    /\ UNCHANGED <<durable, done, group, batchVars, pairs, due, history, toolVars>>

ReindexRebuild ==
    /\ pc = "reindex"
    /\ Rebuilds
    /\ pc' = "idle"
    /\ UNCHANGED <<storeVars, pending, cursor, done, group, batchVars, snap, pairs, due,
                   history, toolVars, aborts>>

(***************************************************************************)
(* write_hypothesis: idea and synthetic leaf in one transaction, then the  *)
(* index, which refuses a leaf it has under another idea.  The tool is a   *)
(* process of its own, and its first hypothesis opens the index.           *)
(***************************************************************************)
StoreHypothesis(h) ==
    /\ hyp[h] = "none"
    /\ \E i \in Unused :
         /\ home' = [home EXCEPT ![h] = i]
         /\ ideas' = ideas \cup {i}
         /\ opened' = [opened EXCEPT ![h] = i]
    /\ hyp' = [hyp EXCEPT ![h] = "stored"]
    /\ UNCHANGED <<cites, indexVars, pending, cursor, pc, done, group, batchVars, snap, pairs,
                   due, history, aborts>>

IndexHypothesis(h) ==
    /\ hyp[h] = "stored"
    /\ \/ tables' = Reopened(tables)
       \/ tables' = tables /\ \E k \in Syntheses \ {h} : hyp[k] \in {"done", "failed"}
    /\ IF tables' = "whole" /\ index[h] \in {NoIdea, opened[h]}
       THEN index' = [index EXCEPT ![h] = opened[h]] /\ hyp' = [hyp EXCEPT ![h] = "done"]
       ELSE hyp' = [hyp EXCEPT ![h] = "failed"] /\ UNCHANGED index
    /\ UNCHANGED <<storeVars, pending, cursor, pc, done, group, batchVars, snap, pairs, due,
                   history, opened, aborts>>

Repair == ReadStore \/ IndexMissing \/ RepairStale
Link == TakeGroup \/ LinkRow \/ LinkDone
Write == CreateIdea \/ IndexIdea \/ FindPairs \/ CitePair \/ CiteDone
Split == SplitDue \/ SplitFails \/ SplitCommit \/ Resnap \/ RebuildIndex \/ SplitsDone
Pass == Begin \/ Repair \/ Link \/ Write \/ Split \/ Advance \/ MeetsBroken

Next ==
    \/ Pass \/ Raise \/ Die \/ Reindex \/ ReindexRebuild
    \/ \E h \in Syntheses : StoreHypothesis(h) \/ IndexHypothesis(h)

Spec == Init /\ [][Next]_vars

(* The writer thread runs passes for as long as it lives, and a reindex    *)
(* that has begun ends.                                                    *)
FairSpec == Spec /\ WF_vars(Pass \/ ReindexRebuild)

(***************************************************************************)
(* Properties.                                                             *)
(***************************************************************************)

(* Every idea node has a leaf and every leaf hangs off a node: the idea    *)
(* and its leaves are one transaction, and a split moves neither all       *)
(* leaves of the parent nor none to a child (neo4j_store.split_idea).      *)
NoBareIdea == ideas = {home[l] : l \in Stored}

(* The index never holds a leaf the store does not: whoever indexes does   *)
(* it after its commit, and a rebuild takes rows that were read there.     *)
IndexHoldsNoGhost == \A l \in Leaf : index[l] # NoIdea => l \in Stored

(* A line behind the cursor is in the lake or in pending_link, over every  *)
(* raise, death, retry and gap in the lines of a source.                   *)
CursorMeansDone == \A n \in 1..cursor : Staging[n] \in Stored \cup pending

(* The arbiter decides over an index that has every leaf of the corpus     *)
(* under the idea that holds it: else it opens a second idea for one       *)
(* mechanism, or feeds an idea its leaves were split away from.  Whatever  *)
(* raised or died before, the repair comes first; a rebuild that raises in *)
(* the sweep of the source before is the one exception (split.py:139).     *)
LinkSeesTheStore ==
    (pc = "link" /\ ~blind) => \A l \in Staged : index[l] = home[l]

(* The repair that follows a source finds its co-citation complete: every  *)
(* two ideas that hold its leaves are connected by it.                     *)
SourceIsCited ==
    (pc \in {"read", "missing", "stale"} /\ group # NoSource) =>
        \A i, j \in {home[l] : l \in {k \in Stored : k[1] = group}} :
            i # j => <<{i, j}, group>> \in cites

(* A leaf never leaves the store, and it changes its idea only for one     *)
(* that the same step opens, out of an idea over the ceiling that keeps a  *)
(* leaf: a link is not revised, and a split never merges.                  *)
LeavesStay ==
    [][\A l \in Stored :
        /\ home'[l] # NoIdea
        /\ home'[l] # home[l] =>
            /\ home'[l] \notin ideas
            /\ Cardinality(Leaves(home[l])) > MaxLeaves
            /\ \E k \in Leaves(home[l]) : home'[k] = home[l]]_vars

(* Every line of the file is behind the cursor at last: no raise, death,   *)
(* rebuild or gap stops the passes for good, as long as the tables of the  *)
(* index are whole again at last.                                          *)
Drained == <>[](tables = "whole") => <>[](cursor = Len(Staging))

(* As long as passes come and the tables are there, the index agrees with  *)
(* the store again: each window between a commit and its index write, each *)
(* drop of a hypothesis by a rebuild, each stale link and each index a     *)
(* rebuild left empty is repaired by a later pass.                         *)
IndexHeals == <>[](tables = "whole") => []<>(index = home)

(* "Repaired by the next phase2 pass" (split.py): the tables of the index  *)
(* are whole again at last, with nobody restarting or reindexing.          *)
TablesHeal == []<>(tables = "whole")

(* What pending_link lists was "parsed and never attached" (ops.py).       *)
PendingIsNowhere == pending \cap Stored = {}

(* A repeated ingest of a source "recomputes the same pairs" (run.py).     *)
RepeatIngestSamePairs ==
    [][\A s \in whole : \A p \in SUBSET Ideas :
        <<p, s>> \in cites' => <<p, s>> \in cites]_vars

(* A hypothesis whose write ended is in the index: without its leaf there  *)
(* it "cannot be found at all" (idea_merger.py).                           *)
HypothesisFindable == \A h \in Syntheses : hyp[h] = "done" => index[h] # NoIdea

=============================================================================
