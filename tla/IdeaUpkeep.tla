----------------------------- MODULE IdeaUpkeep -----------------------------
(***************************************************************************)
(* What the lake does to an idea after it is created: leaves land on it,   *)
(* sources tie it to others, it is split, re-derived, judged and edited.   *)
(*                                                                         *)
(* One job at a time has the slot of the process (src/lake/api/jobs.py):   *)
(* a linking pass (_phase2 of ingest/run.py), which ends with the judge,   *)
(* or the judge alone (POST /admin/trust).  Beside it, with no lock at     *)
(* all, PATCH /ideas edits an idea (ops.patch_idea) and the backfill tool  *)
(* (idea_edges.py) rewrites co-citation edges.                             *)
(*                                                                         *)
(* A transaction of neo4j_store.py is a step; a call to the model lies     *)
(* between the step that read and the step that writes, and may fail.      *)
(*                                                                         *)
(* Abstractions: a text is a value, and a vector is the text it was made   *)
(* from; a score is the set of leaves it was given for, none for the 0.0   *)
(* of an idea nobody judged; the other fields go where the text goes.      *)
(***************************************************************************)
EXTENDS Integers, Sequences, SequencesExt, FiniteSetsExt

CONSTANTS
    Leaves, Refused,    (* leaves; those whose idea the judge refuses      *)
    LastSource,         (* the staged sources, 1..LastSource               *)
    SourceOf,           (* the source of each leaf                         *)
    Ideas, None,        (* idea ids; no idea, no text                      *)
    Texts,
    MaxLeaves,          (* split.MAX_LEAVES                                *)
    RederiveEvery,      (* rederive.REDERIVE_EVERY                         *)
    TrustPerPass,       (* run.TRUST_PER_PASS                              *)
    Backfills,          (* is the backfill tool run?                       *)
    MaxEdits, MaxAborts (* bounds: edits over HTTP; jobs that raise or die *)

Sources == 1..LastSource

ASSUME UpkeepAssumption ==
    /\ LastSource \in Nat
    /\ SourceOf \in [Leaves -> Sources] /\ Refused \subseteq Leaves
    /\ IsFiniteSet(Leaves)
    /\ None \notin Ideas
    /\ MaxLeaves \in Nat \ {0} /\ RederiveEvery \in Nat \ {0}
    /\ TrustPerPass \in Nat
    /\ MaxEdits \in Nat /\ MaxAborts \in Nat /\ Backfills \in BOOLEAN

VARIABLES
    home,       (* HAS_LEAF: the idea of each leaf                         *)
    born,       (* the ideas, in the order of their seq                    *)
    text, vector, counted,  (* fields; counted is rederived_at_leaf_count  *)
    score, dirty,
    edges,      (* RELATED, type related_via_source: weight and evidence   *)
    pc, cursor, (* the job in the slot; the sources behind its cursor      *)
    plan,       (* link_batch: the idea decided for each leaf              *)
    pairs,      (* co-citation pairs of the source still to be written     *)
    todo,       (* ideas a sweep has not come to                           *)
    cur,        (* what the sweep read of the idea it is on                *)
    tool,       (* the backfill: its source, the pairs it has to write     *)
    raced,      (* history: ideas edited under a derivation                *)
    edits, aborts

fields == <<text, vector, counted>>
trust == <<score, dirty>>
store == <<home, born, fields, trust, edges>>
slot == <<pc, cursor, plan, pairs, todo, cur>>
vars == <<store, slot, tool, raced, edits, aborts>>

Exists == {born[n] : n \in 1..Len(born)}
LeavesOf(i) == {l \in Leaves : home[l] = i}
Edge == [weight : Nat, evidence : SUBSET Sources]
Pair == [pair : SUBSET Ideas, increment : Nat]
Idle == [idea |-> None, text |-> None, leaves |-> {}]
NoPlan == [l \in Leaves |-> None]
AtRest == [source |-> 0, pairs |-> {}]
Steps == {"idle", "next", "land", "cite", "split", "derive", "last", "judge"}

TypeOK ==
    /\ home \in [Leaves -> Ideas \cup {None}]
    /\ born \in Seq(Ideas)
    /\ text \in [Ideas -> Texts \cup {None}] /\ vector \in [Ideas -> Texts \cup {None}]
    /\ counted \in [Ideas -> Nat]
    /\ score \in [Ideas -> SUBSET Leaves]
    /\ dirty \in [Ideas -> BOOLEAN]
    /\ edges \in [Ideas \X Ideas -> Edge]
    /\ pc \in Steps /\ cursor \in 0..LastSource
    /\ plan \in [Leaves -> Ideas \cup {None}]
    /\ pairs \subseteq Pair /\ todo \subseteq Ideas
    /\ cur \in [idea : Ideas \cup {None}, text : Texts \cup {None}, leaves : SUBSET Leaves]
    /\ tool \in [source : 0..LastSource, pairs : SUBSET Pair]
    /\ raced \subseteq Ideas
    /\ edits \in 0..MaxEdits /\ aborts \in 0..MaxAborts

Init ==
    /\ home = NoPlan /\ born = <<>>
    /\ text = [i \in Ideas |-> None] /\ vector = text
    /\ counted = [i \in Ideas |-> 0]
    /\ score = [i \in Ideas |-> {}] /\ dirty = [i \in Ideas |-> FALSE]
    /\ edges = [p \in Ideas \X Ideas |-> [weight |-> 0, evidence |-> {}]]
    /\ pc = "idle" /\ cursor = 0 /\ plan = NoPlan /\ pairs = {} /\ todo = {}
    /\ cur = Idle /\ tool = AtRest /\ raced = {} /\ edits = 0 /\ aborts = 0

(***************************************************************************)
(* What the steps read.                                                    *)
(***************************************************************************)
New == Ideas \ (Exists \cup {plan[l] : l \in Leaves})
Behind(i) == Cardinality(LeavesOf(i)) - counted[i] >= RederiveEvery

(* split.due, run._rederive_due                                            *)
OverCeiling == {i \in Exists : Cardinality(LeavesOf(i)) > MaxLeaves}
RederiveDue == {i \in Exists : dirty[i] /\ Behind(i)}

(* Bug: the cap is applied to all ideas, before the flag is looked at.     *)
TrustDueHead == {i \in {born[n] : n \in 1..Min({Len(born), TrustPerPass})} : dirty[i]}

(* dirty_ideas()[:TRUST_PER_PASS], oldest first                            *)
TrustDue ==
    {born[n] : n \in {m \in 1..Len(born) :
       dirty[born[m]] /\ Cardinality({x \in 1..m-1 : dirty[born[x]]}) < TrustPerPass}}

(* _COCITE_PAIRS with compute_cocitation_increment                         *)
CountOf(s, i) == Cardinality({l \in LeavesOf(i) : SourceOf[l] = s})
PairsOf(s) ==
    {[pair |-> p, increment |-> Min({CountOf(s, i) : i \in p})] :
     p \in {q \in kSubset(2, Exists) : \A i \in q : CountOf(s, i) > 0}}

(* split._clusters: a part over the ceiling is cut in two, again and again *)
(* - so no part is over it, and the last two cut together were             *)
Clusters ==
    [S \in SUBSET Leaves |->
     {parts \in SUBSET SUBSET S :
      /\ UNION parts = S
      /\ \A P, Q \in parts : P # Q => P \cap Q = {}
      /\ \A P \in parts : P # {} /\ Cardinality(P) <= MaxLeaves
      /\ \/ parts = {S}
         \/ \E P, Q \in parts : P # Q /\ Cardinality(P) + Cardinality(Q) > MaxLeaves}]

Read(i) == [idea |-> i, text |-> text[i], leaves |-> LeavesOf(i)]

(***************************************************************************)
(* The pass, source by source.  "limit" may end it after any source.       *)
(***************************************************************************)
Begin ==
    /\ pc = "idle"
    /\ pc' = "next"
    /\ UNCHANGED <<store, cursor, plan, pairs, todo, cur, tool, raced, edits, aborts>>

(* link_batch: every row of the source is stored already, refused by the   *)
(* arbiter, or given to an idea, a new one included, before any is written *)
TakeGroup ==
    /\ pc = "next" /\ cursor < LastSource
    /\ LET rows == {l \in Leaves : SourceOf[l] = cursor + 1 /\ home[l] = None}
       IN  \E given \in SUBSET rows : \E f \in [given -> Ideas] :
             plan' = [l \in Leaves |-> IF l \in given THEN f[l] ELSE None]
    /\ pc' = "land"
    /\ UNCHANGED <<store, cursor, pairs, todo, cur, tool, raced, edits, aborts>>

(* Bug: leaves land on an idea that stays clean.                           *)
LandClean(i) ==
    LET batch == {l \in Leaves : plan[l] = i}
    IN  /\ pc = "land" /\ batch # {}
        /\ home' = [l \in Leaves |-> IF l \in batch THEN i ELSE home[l]]
        /\ plan' = [l \in Leaves |-> IF l \in batch THEN None ELSE plan[l]]
        /\ \/ i \in Exists /\ UNCHANGED <<born, text, vector, dirty>>
           \/ /\ i \notin Exists /\ born' = Append(born, i)
              /\ dirty' = [dirty EXCEPT ![i] = TRUE]
              /\ \E t \in Texts : /\ text' = [text EXCEPT ![i] = t]
                                  /\ vector' = [vector EXCEPT ![i] = t]
        /\ UNCHANGED <<counted, score, edges, pc, cursor, pairs, todo, cur, tool, raced, edits, aborts>>

(* create_idea_with_theses: the idea, when it is new, its leaves and the   *)
(* flag in one transaction                                                 *)
Land(i) ==
    LET batch == {l \in Leaves : plan[l] = i}
    IN  /\ pc = "land" /\ batch # {}
        /\ home' = [l \in Leaves |-> IF l \in batch THEN i ELSE home[l]]
        /\ dirty' = [dirty EXCEPT ![i] = TRUE]
        /\ plan' = [l \in Leaves |-> IF l \in batch THEN None ELSE plan[l]]
        /\ \/ i \in Exists /\ UNCHANGED <<born, text, vector>>
           \/ /\ i \notin Exists /\ born' = Append(born, i)
              /\ \E t \in Texts : /\ text' = [text EXCEPT ![i] = t]
                                  /\ vector' = [vector EXCEPT ![i] = t]
        /\ UNCHANGED <<counted, score, edges, pc, cursor, pairs, todo, cur, tool, raced, edits, aborts>>

(* write_cocitation_edges reads the pairs of the source in a transaction   *)
(* of its own                                                              *)
Landed ==
    /\ pc = "land" /\ plan = NoPlan
    /\ pairs' = PairsOf(cursor + 1)
    /\ pc' = "cite"
    /\ UNCHANGED <<store, cursor, plan, todo, cur, tool, raced, edits, aborts>>

(* Bug: a source that has contributed contributes again.                   *)
UpsertAgain(e, s, n) == [weight |-> e.weight + n, evidence |-> e.evidence \cup {s}]

(* _COCITE_UPSERT                                                          *)
Upsert(e, s, n) ==
    IF s \in e.evidence THEN e
    ELSE [weight |-> e.weight + n, evidence |-> e.evidence \cup {s}]

(* _write_cocite_pair: both directions in one transaction                  *)
WriteCocitePair(s, p) ==
    edges' = [q \in DOMAIN edges |->
              IF p.pair = {q[1], q[2]} THEN Upsert(edges[q], s, p.increment) ELSE edges[q]]

Cite ==
    /\ pc = "cite"
    /\ \E p \in pairs : WriteCocitePair(cursor + 1, p) /\ pairs' = pairs \ {p}
    /\ UNCHANGED <<home, born, fields, trust, pc, cursor, plan, todo, cur, tool, raced, edits, aborts>>

Cited ==
    /\ pc = "cite" /\ pairs = {}
    /\ pc' = "split" /\ todo' = OverCeiling
    /\ UNCHANGED <<store, cursor, plan, pairs, cur, tool, raced, edits, aborts>>

(***************************************************************************)
(* The sweeps: take an idea of the list, read it, call the model, write.   *)
(***************************************************************************)
(* maybe_rederive, split_idea and refresh read the idea and its leaves     *)
Take ==
    /\ pc \in {"split", "derive", "last", "judge"} /\ cur = Idle
    /\ \E i \in todo : cur' = Read(i) /\ todo' = todo \ {i}
    /\ UNCHANGED <<store, pc, cursor, plan, pairs, tool, raced, edits, aborts>>

(* The model fails, or answers outside its grammar: nothing is written and *)
(* the sweep goes on.                                                      *)
Fail ==
    /\ cur # Idle
    /\ cur' = Idle
    /\ UNCHANGED <<store, pc, cursor, plan, pairs, todo, tool, raced, edits, aborts>>

(* Bug: the vector stays when the text moves.                              *)
DerivedTextOnly(t) ==
    /\ text' = [text EXCEPT ![cur.idea] = t]
    /\ UNCHANGED vector

(* derive: a new vector only when the text moved off the text that was read *)
Derived(t) ==
    /\ text' = [text EXCEPT ![cur.idea] = t]
    /\ vector' = IF t = cur.text THEN vector ELSE [vector EXCEPT ![cur.idea] = t]

(* maybe_rederive -> update_idea                                           *)
Rederive ==
    /\ pc = "derive" /\ cur # Idle
    /\ \E t \in Texts : Derived(t)
    /\ counted' = [counted EXCEPT ![cur.idea] = Cardinality(cur.leaves)]
    /\ cur' = Idle
    /\ UNCHANGED <<home, born, trust, edges, pc, cursor, plan, pairs, todo, tool, raced, edits, aborts>>

(* Bug: the parent goes on counting the leaves it gives away.              *)
CountAll(keep) == Cardinality(cur.leaves)

(* derive over the part that stays                                         *)
CountOfKept(keep) == Cardinality(keep)

(* split_idea: the largest part stays, every other becomes a new idea, and *)
(* each is derived over its own leaves and dirty.                          *)
SplitInto(keep, f) ==
    LET kids == {f[P] : P \in DOMAIN f}
        part(i) == CHOOSE P \in DOMAIN f : f[P] = i
    IN  /\ home' = [l \in Leaves |->
                    IF l \in cur.leaves \ keep THEN f[CHOOSE P \in DOMAIN f : l \in P]
                    ELSE home[l]]
        /\ \E order \in SetToSeqs(kids) : born' = born \o order
        /\ counted' = [i \in Ideas |->
                       IF i = cur.idea THEN CountOfKept(keep)
                       ELSE IF i \in kids THEN Cardinality(part(i)) ELSE counted[i]]
        /\ dirty' = [i \in Ideas |-> i = cur.idea \/ i \in kids \/ dirty[i]]
        /\ \E t \in Texts, g \in [kids -> Texts] :
             /\ text' = [i \in Ideas |->
                         IF i = cur.idea THEN t ELSE IF i \in kids THEN g[i] ELSE text[i]]
             /\ vector' = [i \in Ideas |->
                           IF i \in kids THEN g[i]
                           ELSE IF i = cur.idea /\ t # cur.text THEN t ELSE vector[i]]

Split ==
    /\ pc \in {"split", "last"} /\ cur # Idle
    /\ \E parts \in Clusters[cur.leaves] :
         \E keep \in parts :
           /\ \A P \in parts : Cardinality(P) <= Cardinality(keep)
           /\ \E f \in [parts \ {keep} -> New] :
                /\ \A P, Q \in parts \ {keep} : f[P] = f[Q] => P = Q
                /\ SplitInto(keep, f)
    /\ cur' = Idle
    /\ UNCHANGED <<score, edges, pc, cursor, plan, pairs, todo, tool, raced, edits, aborts>>

(* set_trust: the score and the flag in one update                         *)
SetTrust ==
    /\ score' = [score EXCEPT ![cur.idea] = cur.leaves]
    /\ dirty' = [dirty EXCEPT ![cur.idea] = FALSE]

(* refresh                                                                 *)
Judge ==
    /\ pc = "judge" /\ cur # Idle /\ cur.leaves \cap Refused = {}
    /\ SetTrust
    /\ cur' = Idle
    /\ UNCHANGED <<home, born, fields, edges, pc, cursor, plan, pairs, todo, tool, raced, edits, aborts>>

SweepDone(p, q) == pc = p /\ todo = {} /\ cur = Idle /\ pc' = q

SplitDone ==
    /\ SweepDone("split", "derive") /\ todo' = RederiveDue
    /\ UNCHANGED <<store, cursor, plan, pairs, cur, tool, raced, edits, aborts>>

(* the cursor of the staging file                                          *)
DeriveDone ==
    /\ SweepDone("derive", "next") /\ cursor' = cursor + 1
    /\ UNCHANGED <<store, plan, pairs, todo, cur, tool, raced, edits, aborts>>

(* the split sweep after the loop                                          *)
EndLoop ==
    /\ pc = "next"
    /\ pc' = "last" /\ todo' = OverCeiling
    /\ UNCHANGED <<store, cursor, plan, pairs, cur, tool, raced, edits, aborts>>

(* trust.run_pass() at the end of the pass                                 *)
LastDone ==
    /\ SweepDone("last", "judge") /\ todo' = TrustDue
    /\ UNCHANGED <<store, cursor, plan, pairs, cur, tool, raced, edits, aborts>>

(* POST /admin/trust: the dirty ideas, or those it names                   *)
RunTrust ==
    /\ pc = "idle" /\ pc' = "judge"
    /\ todo' \in {TrustDue} \cup {S \in SUBSET Exists : Cardinality(S) <= TrustPerPass}
    /\ UNCHANGED <<store, cursor, plan, pairs, cur, tool, raced, edits, aborts>>

JudgeDone ==
    /\ SweepDone("judge", "idle")
    /\ UNCHANGED <<store, cursor, plan, pairs, todo, cur, tool, raced, edits, aborts>>

(* The job raises, or the process dies; the store keeps what was committed *)
Abort ==
    /\ pc # "idle" /\ aborts < MaxAborts
    /\ pc' = "idle" /\ plan' = NoPlan /\ pairs' = {} /\ todo' = {} /\ cur' = Idle
    /\ aborts' = aborts + 1
    /\ UNCHANGED <<store, cursor, tool, raced, edits>>

(***************************************************************************)
(* Beside the job in the slot.                                             *)
(***************************************************************************)
(* ops.patch_idea: a text takes its vector with it                         *)
PatchIdea(i, t) ==
    /\ edits < MaxEdits /\ i \in Exists
    /\ text' = [text EXCEPT ![i] = t]
    /\ vector' = [vector EXCEPT ![i] = t]
    /\ raced' = IF i = cur.idea /\ pc # "judge" THEN raced \cup {i} ELSE raced
    /\ edits' = edits + 1
    /\ UNCHANGED <<home, born, counted, trust, edges, slot, tool, aborts>>

(* backfill_cocitation: the pairs of a source, then each of them           *)
BackfillRead(s) ==
    /\ Backfills /\ tool = AtRest
    /\ tool' = [source |-> s, pairs |-> PairsOf(s)]
    /\ UNCHANGED <<store, slot, raced, edits, aborts>>

BackfillWrite ==
    /\ \E p \in tool.pairs :
         WriteCocitePair(tool.source, p) /\ tool' = [tool EXCEPT !.pairs = @ \ {p}]
    /\ UNCHANGED <<home, born, fields, trust, slot, raced, edits, aborts>>

(* the next source, the end, or the death of the tool                      *)
BackfillLeave ==
    /\ tool # AtRest /\ tool' = AtRest
    /\ UNCHANGED <<store, slot, raced, edits, aborts>>

Pass ==
    \/ TakeGroup \/ Landed \/ Cite \/ Cited \/ SplitDone \/ DeriveDone \/ EndLoop
    \/ LastDone \/ JudgeDone \/ Take \/ Rederive \/ Split \/ Judge \/ \E i \in Ideas : Land(i)

Next ==
    \/ Begin \/ RunTrust \/ Pass \/ Fail \/ Abort
    \/ \E i \in Ideas, t \in Texts : PatchIdea(i, t)
    \/ \E s \in Sources : BackfillRead(s)
    \/ BackfillWrite \/ BackfillLeave

Spec == Init /\ [][Next]_vars

(* The thread of a job goes on; a pass is started again and again, as every *)
(* ingested article starts one; the model does not refuse for ever what it *)
(* can answer.                                                             *)
Fairness ==
    /\ WF_vars(Pass \/ Fail) /\ SF_vars(Begin)
    /\ \A i \in Ideas : SF_vars(Judge /\ cur.idea = i)

FairSpec == Spec /\ Fairness

(***************************************************************************)
(* Properties.                                                             *)
(***************************************************************************)
(* A clean idea carries the score of exactly the leaves it now has,        *)
(* whatever landed, moved or died since: the flag and the score move       *)
(* together and every change of the leaf set raises the flag in its own    *)
(* transaction (create_idea_with_theses, split_idea, set_trust).           *)
CleanMeansJudged == \A i \in Exists : dirty[i] \/ score[i] = LeavesOf(i)

(* rederived_at_leaf_count never runs ahead of the leaves, through splits  *)
(* that take leaves away: an idea that counts leaves it lost would wait    *)
(* for them again before it is re-derived.                                 *)
CounterNotAhead == \A i \in Exists : counted[i] <= Cardinality(LeavesOf(i))

(* A vector that is not of the text it sits beside has one cause only: an  *)
(* edit that arrived while the idea was being derived.                     *)
DriftNeedsRace == \A i \in Exists : vector[i] = text[i] \/ i \in raced

(* No edge weighs more than its evidence can account for, however often a  *)
(* pass and the backfill come to the same source: two ideas share at most  *)
(* half of a source's leaves each.                                         *)
WeightIsEarned ==
    \A q \in DOMAIN edges :
      2 * edges[q].weight <= Cardinality({l \in Leaves : home[l] # None /\ SourceOf[l] \in edges[q].evidence})

(* Co-citation is symmetric after every commit, so a job that dies between *)
(* two writes leaves no pair half recorded (_write_cocite_pair).           *)
EdgesBothWays == \A q \in DOMAIN edges : edges[q] = edges[<<q[2], q[1]>>]

(* Every idea whose leaves moved is judged at last: a pass asks for the    *)
(* oldest TrustPerPass dirty ideas, so what it leaves over comes to the    *)
(* head, whatever lands, splits or dies meanwhile (run_pass, dirty_ideas). *)
(* The judge answers for every idea at last, those of Refused apart.       *)
EveryIdeaIsJudged ==
    \A i \in Ideas : dirty[i] ~> ~dirty[i] \/ LeavesOf(i) \cap Refused # {}

(* What the code says of a text and its vector (rederive.derive, ops.      *)
(* patch_idea, IdeaPatch): they never drift apart.  It fails: an edit      *)
(* between the read and the write of a derivation that answers with the    *)
(* text it was given.                                                      *)
VectorFitsText == \A i \in Exists : vector[i] = text[i]

(* What _rederive_due says of the flag and the counter, one definition in  *)
(* two representations: an idea over the trigger is still marked, or its   *)
(* derivation failed.  It fails: the judge lowers the flag of an idea no   *)
(* sweep has come to.                                                      *)
OverTriggerIsDirty == \A i \in Exists : Behind(i) => dirty[i]

=============================================================================
