---------------------------- MODULE Phase2_proofs ----------------------------
(***************************************************************************)
(* What a linking pass keeps, for every staging file, any number of ideas, *)
(* syntheses, raises and deaths, and any ceiling on the leaves of an idea. *)
(*                                                                         *)
(* The store is sound (NoBareIdea, LeavesStay) because a line is planned   *)
(* only when its leaf is in no transaction yet, which hangs on the hashes  *)
(* seen (PlanFresh, SeenKnown); the cursor because every line of the       *)
(* source is planned, stored or refused when its rows are through          *)
(* (LinesKept); the index because what is written there was read in the    *)
(* store or committed first (PlanFresh, SnapHoldsNoGhost, HypStored); and  *)
(* the arbiter's view of it because every way back to a source leads over  *)
(* a repair or a rebuild, or is blind (IndexInStep).                       *)
(***************************************************************************)
EXTENDS Phase2, TLAPS

Batching == {"link", "create", "index"}

(* Between two batches nothing is planned, and rows are open in one step. *)
StepsInOrder ==
    /\ pc # "link" => todo = {}
    /\ pc \notin Batching => PlanLines = {}
    /\ pc \in Batching \cup {"cite"} => group # NoSource

(* The leaves of the plan are different and not stored, save those of the *)
(* one idea that is committed and not yet indexed.                        *)
PlanFresh ==
    /\ \A n, m \in PlanLines : Staging[n] = Staging[m] => n = m
    /\ pc \in {"link", "create"} => \A n \in PlanLines : Staging[n] \notin Stored
    /\ pc = "index" =>
           \A i \in Ideas : IsNext(i) =>
               \A n \in PlanLines : Staging[n] \in Stored <=> plan[n] = i

(* The hashes seen are those of the source that are stored or planned.    *)
SeenKnown ==
    pc = "link" =>
        /\ seen \subseteq Stored \cup {Staging[n] : n \in PlanLines}
        /\ \A n \in PlanLines : Staging[n] \in seen
        /\ \A n \in todo : Staging[n] \in Stored => Staging[n] \in seen

(* A line behind the pass is settled; a line of its source is to be read, *)
(* planned or settled.                                                    *)
Settled == Stored \cup pending

LinesKept ==
    /\ \A n \in done : Staging[n] \in Settled
    /\ \A n \in GroupLines :
           \/ n \in todo
           \/ Staging[n] \in Settled
           \/ \E m \in PlanLines : Staging[m] = Staging[n]

SnapHoldsNoGhost == \A l \in Leaf : snap[l] # NoIdea => l \in Stored

HypStored == \A h \in Syntheses : hyp[h] = "none" <=> home[h] = NoIdea

(* The pairs of the source are written, or in hand.                       *)
Cited(s, missing) ==
    \A i, j \in {home[l] : l \in {k \in Stored : k[1] = s}} :
        i # j => {i, j} \in missing \/ <<{i, j}, s>> \in cites

PairsInHand ==
    /\ pc = "cite" => Cited(group, pairs)
    /\ pc \in {"read", "missing", "stale"} /\ group # NoSource => Cited(group, {})

StoreInv ==
    /\ TypeOK /\ StepsInOrder /\ PlanFresh /\ SeenKnown /\ HypStored /\ NoBareIdea

PassInv ==
    /\ StoreInv /\ LinesKept /\ CursorMeansDone
    /\ SnapHoldsNoGhost /\ IndexHoldsNoGhost /\ PairsInHand

(* Where the pass has the index in step with the store, unless a rebuild  *)
(* of the sweep raised, and what it knows on the way back to it.          *)
InStep(view) == \A l \in Staged : view[l] = home[l]

IndexInStep ==
    /\ pc \in {"group", "link", "due", "split", "advance"} => blind \/ InStep(index)
    /\ pc \in {"missing", "stale", "rebuild"} => InStep(snap)
    /\ pc = "stale" => \A l \in Staged : index[l] = NoIdea => home[l] = NoIdea

(* The ways a pass ends early.                                            *)
Ends == Raise \/ Die \/ MeetsBroken

-----------------------------------------------------------------------------
(* The staging file: its lines are numbers, their leaves come from sources *)
(* and no synthesis does.                                                  *)
LEMMA Facts ==
    /\ Len(Staging) \in Nat /\ Lines \subseteq Nat
    /\ \A n \in Lines : Staging[n] \in Staged /\ Source(n) \in Sources
    /\ \A l \in Staged : l \in Leaf /\ l[1] \in Sources
    /\ \A h \in Syntheses : h \in Leaf /\ h \notin Staged /\ h[1] \notin Sources
    /\ NoSource \notin Sources /\ NoIdea \notin Ideas
    /\ MaxAborts \in Nat
BY Phase2Assumption DEF Lines, Staged, Leaf, Sources, Source

(* What a rebuild that raises, or is cut, leaves of the index.             *)
LEMMA EndsEffect ==
    ASSUME tables \in Tables, Ends
    PROVE  /\ EndPass
           /\ index' \in {index, Nowhere} /\ tables' \in Tables
           /\ aborts' = aborts \/ (aborts < MaxAborts /\ aborts' = aborts + 1)
<1>1. CASE Raise
    BY <1>1 DEF Raise, RebuildRaises, indexVars, Tables
<1>2. CASE Die
    BY <1>2 DEF Die, Reopened, Tables
<1>3. CASE MeetsBroken
    BY <1>3 DEF MeetsBroken, indexVars
<1>4. QED
    BY <1>1, <1>2, <1>3 DEF Ends

LEMMA RebuildEffect ==
    ASSUME tables \in Tables, Rebuilds \/ RebuildRaises
    PROVE  index' \in {index, snap, Nowhere} /\ tables' \in Tables
BY DEF Rebuilds, RebuildRaises, indexVars, Tables

(* A set of lines has one first line, so the plan has one next idea.       *)
LEMMA NextIsOne ==
    ASSUME NEW i, NEW j, IsNext(i), IsNext(j)
    PROVE  i = j
<1>1. PICK n \in Lines : IsFirst(n, PlanLines) /\ plan[n] = i
    BY DEF IsNext
<1>2. PICK m \in Lines : IsFirst(m, PlanLines) /\ plan[m] = j
    BY DEF IsNext
<1>3. n = m
    BY <1>1, <1>2, Facts DEF IsFirst
<1>4. QED
    BY <1>1, <1>2, <1>3

(* Nothing the batch reads of the store changes while home does not.       *)
LEMMA StoreKept ==
    ASSUME home' = home
    PROVE  Stored' = Stored
BY DEF Stored

LEMMA PlanKept ==
    ASSUME plan' = plan
    PROVE  /\ PlanLines' = PlanLines
           /\ \A i : IsNext(i)' <=> IsNext(i)
BY DEF PlanLines, IsNext, IsFirst

(* A split changes no leaf but those it moves, to ideas nobody has.        *)
LEMMA SplitEffect ==
    ASSUME TypeOK, NoBareIdea, NEW i \in Ideas, SplitIdea(i)
    PROVE  /\ home' \in [Leaf -> Ideas \cup {NoIdea}]
           /\ ideas' \subseteq Ideas
           /\ Stored' = Stored
           /\ Cardinality(Leaves(i)) > MaxLeaves
           /\ \A l \in Leaf : home'[l] # home[l] => home[l] = i /\ home'[l] \in Ideas \ ideas
           /\ \E k \in Leaves(i) : home'[k] = i
           /\ ideas' = ideas \cup ({home'[l] : l \in Stored} \ ideas)
<1>1. PICK moved : StoreAccepts(i, moved) /\ MoveParts(moved)
    BY DEF SplitIdea
<1>2. PICK child \in [moved -> Ideas \ ideas] :
          /\ \A p, q \in moved : p # q => child[p] # child[q]
          /\ ideas' = ideas \cup {child[p] : p \in moved}
          /\ home' = [l \in Leaf |-> IF l \in UNION moved
                                     THEN child[CHOOSE p \in moved : l \in p]
                                     ELSE home[l]]
    BY <1>1 DEF MoveParts
<1>3. /\ \A l \in UNION moved : l \in Leaf /\ home[l] = i
      /\ \A p, q \in moved : p # q => p \cap q = {}
      /\ \A p \in moved : p # {}
      /\ \E k \in Leaves(i) : k \notin UNION moved
    BY <1>1 DEF StoreAccepts, Leaves
<1>4. \A p \in moved : \A l \in p : l \in Leaf /\ home'[l] = child[p]
    <2>1. SUFFICES ASSUME NEW p \in moved, NEW l \in p
                   PROVE  l \in Leaf /\ home'[l] = child[p]
        OBVIOUS
    <2>2. l \in UNION moved
        OBVIOUS
    <2>3. (CHOOSE q \in moved : l \in q) = p
        <3>1. \E q \in moved : l \in q
            OBVIOUS
        <3> DEFINE w == CHOOSE q \in moved : l \in q
        <3>2. w \in moved /\ l \in w
            BY <3>1
        <3> HIDE DEF w
        <3>3. w = p
            BY <3>2, <1>3
        <3>4. QED
            BY <3>3 DEF w
    <2>4. QED
        BY <2>2, <2>3, <1>2, <1>3
<1>5. \A l \in Leaf : l \notin UNION moved => home'[l] = home[l]
    BY <1>2
<1>6. \A l \in Leaf : home'[l] # home[l] => home[l] = i /\ home'[l] \in Ideas \ ideas
    BY <1>2, <1>3, <1>4, <1>5
<1>7. home' \in [Leaf -> Ideas \cup {NoIdea}]
    <2>1. DOMAIN home' = Leaf /\ home' = [l \in Leaf |-> home'[l]]
        BY <1>2
    <2>2. \A l \in Leaf : home'[l] \in Ideas \cup {NoIdea}
        BY <1>6 DEF TypeOK
    <2>3. QED
        BY <2>1, <2>2
<1>8. ideas' \subseteq Ideas
    BY <1>2 DEF TypeOK
<1>9. Stored' = Stored
    <2>1. \A l \in Leaf : home'[l] # NoIdea <=> home[l] # NoIdea
        BY <1>6, Facts
    <2>2. QED
        BY <2>1 DEF Stored
<1>10. \E k \in Leaves(i) : home'[k] = i
    BY <1>3, <1>5 DEF Leaves
<1>11. {child[p] : p \in moved} = {home'[l] : l \in Stored} \ ideas
    <2>1. ASSUME NEW p \in moved
          PROVE  child[p] \in {home'[l] : l \in Stored} \ ideas
        <3>1. PICK l \in p : TRUE
            BY <1>3
        <3>2. l \in Stored
            BY <3>1, <1>3, Facts DEF Stored
        <3>3. QED
            BY <3>1, <3>2, <1>2, <1>4
    <2>2. ASSUME NEW l \in Stored, home'[l] \notin ideas
          PROVE  home'[l] \in {child[p] : p \in moved}
        <3>1. l \in UNION moved
            BY <2>2, <1>5 DEF Stored, NoBareIdea
        <3>2. QED
            BY <3>1, <1>4
    <2>3. QED
        BY <2>1, <2>2
<1>12. QED
    BY <1>2, <1>6, <1>7, <1>8, <1>9, <1>10, <1>11 DEF SplitIdea

-----------------------------------------------------------------------------
(* Types and steps, over every action.                                     *)
LEMMA TypeStep ==
    ASSUME TypeOK, StepsInOrder, NoBareIdea, [Next]_vars
    PROVE  TypeOK' /\ StepsInOrder'
<1> USE Facts DEF TypeOK, StepsInOrder, Batching, Steps, storeVars, indexVars, durable,
                  batchVars, history, toolVars
<1>1. CASE Begin
    <2>1. done' \subseteq Lines
        BY <1>1 DEF Begin, Lines
    <2>2. QED
        BY <1>1, <2>1, PlanKept DEF Begin
<1>2. CASE ReadStore
    BY <1>2, PlanKept DEF ReadStore
<1>3. CASE IndexMissing
    BY <1>3, PlanKept DEF IndexMissing
<1>4. CASE RepairStale
    BY <1>4, PlanKept DEF RepairStale, AfterRepair
<1>5. CASE TakeGroup
    <2>1. CASE done = Lines /\ pc' = "due" /\ UNCHANGED <<group, todo, seen>>
        BY <1>5, <2>1, PlanKept DEF TakeGroup
    <2>2. CASE pc' = "link" /\ \E n \in Lines : OpenGroup(n)
        BY <1>5, <2>2, PlanKept DEF TakeGroup, OpenGroup
    <2>3. QED
        BY <1>5, <2>1, <2>2 DEF TakeGroup
<1>6. CASE LinkRow
    <2>1. PICK n \in todo :
              /\ todo' = todo \ {n}
              /\ Skip(n) \/ Refuse(n) \/ \E i \in Ideas : Decide(n, i)
        BY <1>6 DEF LinkRow
    <2>2. /\ plan' \in [Lines -> Ideas \cup {NoIdea}]
          /\ seen' \subseteq Staged /\ pending' \subseteq Staged
        <3>1. CASE Skip(n)
            BY <3>1 DEF Skip
        <3>2. CASE Refuse(n)
            BY <3>2 DEF Refuse
        <3>3. CASE \E i \in Ideas : Decide(n, i)
            BY <3>3 DEF Decide
        <3>4. QED
            BY <2>1, <3>1, <3>2, <3>3
    <2>3. QED
        BY <1>6, <2>1, <2>2 DEF LinkRow
<1>7. CASE LinkDone
    BY <1>7, PlanKept DEF LinkDone
<1>8. CASE CreateIdea
    <2>1. PICK i \in Ideas :
              /\ home' = [l \in Leaf |-> IF l \in Batch(i) THEN i ELSE home[l]]
              /\ ideas' = ideas \cup {i}
        BY <1>8 DEF CreateIdea
    <2>2. QED
        BY <1>8, <2>1, PlanKept DEF CreateIdea
<1>9. CASE IndexIdea
    <2>1. PICK i \in Ideas :
              /\ index' = [l \in Leaf |-> IF l \in Batch(i) THEN i ELSE index[l]]
              /\ plan' = [n \in Lines |-> IF plan[n] = i THEN NoIdea ELSE plan[n]]
        BY <1>9 DEF IndexIdea
    <2>2. QED
        BY <1>9, <2>1, SMTT(60) DEF IndexIdea
<1>10. CASE FindPairs
    <2>1. PairsOf(group) \subseteq SUBSET Ideas
        BY DEF PairsOf, Stored
    <2>2. PlanLines = {}
        <3>1. ASSUME NEW n \in Lines PROVE plan[n] = NoIdea
            <4>1. Decided = {}
                BY <1>10 DEF FindPairs
            <4>2. QED
                BY <4>1 DEF Decided
        <3>2. QED
            BY <3>1 DEF PlanLines
    <2>3. QED
        BY <1>10, <2>1, <2>2, PlanKept DEF FindPairs
<1>11. CASE CitePair
    BY <1>11, PlanKept DEF CitePair
<1>12. CASE CiteDone
    BY <1>12, PlanKept DEF CiteDone
<1>13. CASE SplitDue
    BY <1>13, PlanKept DEF SplitDue
<1>14. CASE SplitFails
    BY <1>14, PlanKept DEF SplitFails
<1>15. CASE SplitCommit
    BY <1>15, SplitEffect, PlanKept DEF SplitCommit
<1>16. CASE Resnap
    BY <1>16, PlanKept DEF Resnap
<1>17. CASE RebuildIndex
    <2>1. index' \in {index, snap, Nowhere} /\ tables' \in Tables /\ blind' \in BOOLEAN
        BY <1>17, RebuildEffect DEF RebuildIndex
    <2>2. QED
        BY <1>17, <2>1, PlanKept DEF RebuildIndex, Nowhere
<1>18. CASE SplitsDone
    BY <1>18, PlanKept DEF SplitsDone
<1>19. CASE Advance
    BY <1>19, PlanKept DEF Advance, GroupLines
<1>20. CASE Ends
    <2>1. /\ EndPass /\ aborts' \in 0..MaxAborts
          /\ index' \in {index, Nowhere} /\ tables' \in Tables
        BY <1>20, EndsEffect
    <2>2. QED
        BY <2>1 DEF EndPass, Nowhere, Undecided, PlanLines
<1>21. CASE \E h \in Syntheses : StoreHypothesis(h)
    BY <1>21, PlanKept DEF StoreHypothesis, Unused
<1>22. CASE \E h \in Syntheses : IndexHypothesis(h)
    BY <1>22, PlanKept DEF IndexHypothesis, Reopened, Tables
<1>23. CASE UNCHANGED vars
    BY <1>23, PlanKept DEF vars
<1>24. CASE Reindex
    BY <1>24, PlanKept DEF Reindex
<1>25. CASE ReindexRebuild
    BY <1>25, PlanKept DEF ReindexRebuild, Rebuilds, Tables
<1>26. QED
    BY <1>1, <1>2, <1>3, <1>4, <1>5, <1>6, <1>7, <1>8, <1>9, <1>10, <1>11, <1>12, <1>13,
       <1>14, <1>15, <1>16, <1>17, <1>18, <1>19, <1>20, <1>21, <1>22, <1>23, <1>24, <1>25
    DEF Next, Pass, Repair, Link, Write, Split, Ends

-----------------------------------------------------------------------------
(* The store.  Most steps leave it alone, and the plan with it.            *)
LEMMA QuietStep ==
    ASSUME StoreInv, TypeOK', StepsInOrder',
           UNCHANGED <<home, ideas, plan>>,
           \A h \in Syntheses : hyp'[h] = "none" <=> hyp[h] = "none",
           pc' = "link" => pc = "link" /\ UNCHANGED <<todo, seen>>,
           pc' = "create" => pc \in {"link", "create"},
           pc' = "index" => pc = "index"
    PROVE  StoreInv'
<1>1. Stored' = Stored /\ PlanLines' = PlanLines /\ \A i : IsNext(i)' <=> IsNext(i)
    BY StoreKept, PlanKept
<1>2. PlanFresh'
    BY <1>1 DEF StoreInv, PlanFresh
<1>3. SeenKnown'
    BY <1>1 DEF StoreInv, SeenKnown
<1>4. HypStored'
    BY DEF StoreInv, HypStored
<1>5. NoBareIdea'
    BY <1>1 DEF StoreInv, NoBareIdea
<1>6. QED
    BY <1>2, <1>3, <1>4, <1>5 DEF StoreInv

(* A source is opened: its hashes that the store has are seen.             *)
LEMMA OpenStep ==
    ASSUME StoreInv, TypeOK', StepsInOrder', TakeGroup, NEW n \in Lines, OpenGroup(n),
           pc' = "link"
    PROVE  StoreInv'
<1>1. UNCHANGED <<home, ideas, plan, hyp>> /\ PlanLines = {}
    BY DEF TakeGroup, durable, storeVars, toolVars, StoreInv, StepsInOrder, Batching
<1>2. Stored' = Stored /\ PlanLines' = {}
    BY <1>1, StoreKept, PlanKept
<1>3. \A l \in seen' : l \in Stored
    BY DEF OpenGroup
<1>4. \A m \in todo' : Staging[m] \in Stored => Staging[m] \in seen'
    BY DEF OpenGroup
<1>5. SeenKnown'
    BY <1>2, <1>3, <1>4 DEF SeenKnown
<1>6. PlanFresh'
    BY <1>2 DEF PlanFresh
<1>7. HypStored' /\ NoBareIdea'
    BY <1>1, <1>2 DEF StoreInv, HypStored, NoBareIdea
<1>8. QED
    BY <1>5, <1>6, <1>7 DEF StoreInv

(* A row is decided: its leaf is not stored and not planned yet.           *)
LEMMA RowStep ==
    ASSUME StoreInv, TypeOK', StepsInOrder', LinkRow
    PROVE  StoreInv'
<1>1. /\ UNCHANGED <<home, ideas, hyp>>
      /\ pc = "link" /\ pc' = "link"
    BY DEF LinkRow, storeVars, toolVars
<1>2. PICK n \in todo :
          /\ todo' = todo \ {n}
          /\ Skip(n) \/ Refuse(n) \/ \E i \in Ideas : Decide(n, i)
    BY DEF LinkRow
<1>3. Stored' = Stored
    BY <1>1, StoreKept
<1>4. HypStored' /\ NoBareIdea'
    BY <1>1, <1>3 DEF StoreInv, HypStored, NoBareIdea
<1>5. CASE Skip(n) \/ Refuse(n)
    <2>1. UNCHANGED <<plan, seen>>
        BY <1>5 DEF Skip, Refuse
    <2>2. PlanLines' = PlanLines
        BY <2>1, PlanKept
    <2>3. PlanFresh' /\ SeenKnown'
        BY <1>1, <1>2, <1>3, <2>1, <2>2 DEF StoreInv, PlanFresh, SeenKnown
    <2>4. QED
        BY <1>4, <2>3 DEF StoreInv
<1>6. CASE \E i \in Ideas : Decide(n, i)
    <2>1. PICK i \in Ideas : Decide(n, i)
        BY <1>6
    <2>2. /\ plan' = [plan EXCEPT ![n] = i]
          /\ seen' = seen \cup {Staging[n]}
          /\ Staging[n] \notin seen
        BY <2>1 DEF Decide
    <2>3. n \in Lines /\ i # NoIdea
        BY <1>2, Facts DEF StoreInv, TypeOK
    <2>4. PlanLines' = PlanLines \cup {n}
        BY <2>2, <2>3 DEF PlanLines, StoreInv, TypeOK
    <2>5. /\ \A m \in PlanLines : Staging[m] # Staging[n]
          /\ Staging[n] \notin Stored
        BY <1>1, <1>2, <2>2 DEF StoreInv, SeenKnown
    <2>6. PlanFresh'
        BY <1>1, <1>3, <2>4, <2>5 DEF StoreInv, PlanFresh
    <2>7. SeenKnown'
        BY <1>1, <1>2, <1>3, <2>2, <2>4 DEF StoreInv, SeenKnown
    <2>8. QED
        BY <1>4, <2>6, <2>7 DEF StoreInv
<1>7. QED
    BY <1>2, <1>5, <1>6

(* What the transaction of one idea does: leaves that were nowhere are     *)
(* under it, and no other leaf is touched.                                 *)
LEMMA CreateEffect ==
    ASSUME StoreInv, CreateIdea
    PROVE  \E i \in Ideas :
              /\ IsNext(i)
              /\ Batch(i) # {} /\ Batch(i) \subseteq Staged \ Stored
              /\ home' = [l \in Leaf |-> IF l \in Batch(i) THEN i ELSE home[l]]
              /\ ideas' = ideas \cup {i}
              /\ Stored' = Stored \cup Batch(i)
              /\ \A n \in PlanLines : Staging[n] \in Batch(i) <=> plan[n] = i
<1>1. PICK i \in Ideas :
          /\ IsNext(i)
          /\ home' = [l \in Leaf |-> IF l \in Batch(i) THEN i ELSE home[l]]
          /\ ideas' = ideas \cup {i}
    BY DEF CreateIdea
<1>2. i # NoIdea
    BY Facts
<1>3. Batch(i) # {}
    BY <1>1 DEF IsNext, Batch
<1>4. \A l \in Batch(i) : \E m \in PlanLines : plan[m] = i /\ l = Staging[m]
    BY <1>2 DEF Batch, PlanLines
<1>5. Batch(i) \subseteq Staged \ Stored
    BY <1>4, Facts DEF StoreInv, PlanFresh, CreateIdea, PlanLines
<1>6. Stored' = Stored \cup Batch(i)
    BY <1>1, <1>2, <1>5, Facts DEF Stored
<1>7. \A n \in PlanLines : Staging[n] \in Batch(i) <=> plan[n] = i
    <2>1. ASSUME NEW n \in PlanLines, Staging[n] \in Batch(i) PROVE plan[n] = i
        BY <1>4, <2>1 DEF StoreInv, PlanFresh
    <2>2. ASSUME NEW n \in PlanLines, plan[n] = i PROVE Staging[n] \in Batch(i)
        BY <2>2 DEF Batch, PlanLines
    <2>3. QED
        BY <2>1, <2>2
<1>8. QED
    BY <1>1, <1>3, <1>5, <1>6, <1>7

LEMMA CreateStep ==
    ASSUME StoreInv, TypeOK', StepsInOrder', CreateIdea
    PROVE  StoreInv'
<1>1. PICK i \in Ideas :
          /\ IsNext(i)
          /\ Batch(i) # {} /\ Batch(i) \subseteq Staged \ Stored
          /\ home' = [l \in Leaf |-> IF l \in Batch(i) THEN i ELSE home[l]]
          /\ ideas' = ideas \cup {i}
          /\ Stored' = Stored \cup Batch(i)
          /\ \A n \in PlanLines : Staging[n] \in Batch(i) <=> plan[n] = i
    BY CreateEffect
<1>2. /\ pc = "create" /\ pc' = "index"
      /\ UNCHANGED <<plan, hyp>>
    BY DEF CreateIdea, batchVars, toolVars
<1>3. PlanLines' = PlanLines /\ \A j : IsNext(j)' <=> IsNext(j)
    BY <1>2, PlanKept
<1>4. PlanFresh'
    <2>1. ASSUME NEW j \in Ideas, IsNext(j)', NEW n \in PlanLines
          PROVE  Staging[n] \in Stored' <=> plan[n] = j
        <3>1. j = i
            BY <1>1, <1>3, <2>1, NextIsOne
        <3>2. Staging[n] \notin Stored
            BY <1>2 DEF StoreInv, PlanFresh
        <3>3. QED
            BY <1>1, <3>1, <3>2
    <2>2. QED
        BY <1>2, <1>3, <2>1 DEF StoreInv, PlanFresh
<1>5. SeenKnown'
    BY <1>2 DEF SeenKnown
<1>6. HypStored'
    <2>1. \A h \in Syntheses : home'[h] = home[h]
        BY <1>1, Facts
    <2>2. QED
        BY <1>2, <2>1 DEF StoreInv, HypStored
<1>7. NoBareIdea'
    <2>1. \A l \in Stored : home'[l] = home[l]
        BY <1>1 DEF Stored
    <2>2. \A l \in Batch(i) : home'[l] = i
        BY <1>1, Facts
    <2>3. QED
        BY <1>1, <2>1, <2>2 DEF StoreInv, NoBareIdea
<1>8. QED
    BY <1>4, <1>5, <1>6, <1>7 DEF StoreInv

(* The idea is indexed and leaves the plan; the others are still fresh.    *)
LEMMA IndexStep ==
    ASSUME StoreInv, TypeOK', StepsInOrder', IndexIdea
    PROVE  StoreInv'
<1>1. PICK i \in Ideas :
          /\ IsNext(i)
          /\ plan' = [n \in Lines |-> IF plan[n] = i THEN NoIdea ELSE plan[n]]
    BY DEF IndexIdea
<1>2. /\ pc = "index" /\ pc' = "create"
      /\ UNCHANGED <<home, ideas, hyp>>
    BY DEF IndexIdea, storeVars, toolVars
<1>3. PlanLines' = {n \in PlanLines : plan[n] # i}
    BY <1>1 DEF PlanLines
<1>4. Stored' = Stored
    BY <1>2, StoreKept
<1>5. PlanFresh'
    BY <1>1, <1>2, <1>3, <1>4 DEF StoreInv, PlanFresh
<1>6. SeenKnown' /\ HypStored' /\ NoBareIdea'
    BY <1>2, <1>4 DEF StoreInv, SeenKnown, HypStored, NoBareIdea
<1>7. QED
    BY <1>5, <1>6 DEF StoreInv

LEMMA SplitStep ==
    ASSUME StoreInv, TypeOK', StepsInOrder', SplitCommit
    PROVE  StoreInv'
<1>1. PICK i \in Ideas : SplitIdea(i)
    BY DEF SplitCommit, StoreInv, TypeOK
<1>2. /\ Stored' = Stored
      /\ ideas' = ideas \cup ({home'[l] : l \in Stored} \ ideas)
      /\ \A l \in Leaf : home'[l] # home[l] => home[l] = i /\ home'[l] \in Ideas \ ideas
      /\ \E k \in Leaves(i) : home'[k] = i
    BY <1>1, SplitEffect DEF StoreInv
<1>3. /\ pc = "split" /\ pc' = "resnap"
      /\ UNCHANGED <<plan, hyp>>
    BY DEF SplitCommit, batchVars, toolVars
<1>4. PlanLines' = {}
    BY <1>3, PlanKept DEF StoreInv, StepsInOrder, Batching
<1>5. PlanFresh' /\ SeenKnown'
    BY <1>3, <1>4 DEF PlanFresh, SeenKnown
<1>6. HypStored'
    <2>1. \A h \in Syntheses : home'[h] = NoIdea <=> home[h] = NoIdea
        BY <1>2, Facts DEF Stored
    <2>2. QED
        BY <1>3, <2>1 DEF StoreInv, HypStored
<1>7. NoBareIdea'
    <2>1. ASSUME NEW j \in ideas PROVE \E l \in Stored : home'[l] = j
        <3>1. PICK l \in Stored : home[l] = j
            BY DEF StoreInv, NoBareIdea
        <3>2. CASE home'[l] = home[l]
            BY <3>1, <3>2
        <3>3. CASE home'[l] # home[l]
            <4>1. j = i
                BY <1>2, <3>1, <3>3 DEF Stored
            <4>2. PICK k \in Leaves(i) : home'[k] = i
                BY <1>2
            <4>3. k \in Stored
                BY <4>2, Facts DEF Stored, Leaves
            <4>4. QED
                BY <4>1, <4>2, <4>3
        <3>4. QED
            BY <3>2, <3>3
    <2>2. QED
        BY <1>2, <2>1 DEF NoBareIdea
<1>8. QED
    BY <1>5, <1>6, <1>7 DEF StoreInv

LEMMA SynthesisStep ==
    ASSUME StoreInv, TypeOK', StepsInOrder', NEW h \in Syntheses, StoreHypothesis(h)
    PROVE  StoreInv'
<1>1. PICK i \in Unused :
          home' = [home EXCEPT ![h] = i] /\ ideas' = ideas \cup {i}
    BY DEF StoreHypothesis
<1>2. i \in Ideas /\ i # NoIdea /\ home[h] = NoIdea
    BY Facts DEF Unused, StoreHypothesis, StoreInv, HypStored
<1>3. /\ hyp' = [hyp EXCEPT ![h] = "stored"]
      /\ UNCHANGED <<plan, seen, todo, pc>>
    BY DEF StoreHypothesis, batchVars
<1>4. Stored' = Stored \cup {h}
    BY <1>1, <1>2, Facts DEF Stored, StoreInv, TypeOK
<1>5. PlanLines' = PlanLines /\ \A j : IsNext(j)' <=> IsNext(j)
    BY <1>3, PlanKept
<1>6. \A n \in Lines : Staging[n] \in Stored' <=> Staging[n] \in Stored
    BY <1>4, Facts
<1>7. PlanFresh'
    BY <1>3, <1>5, <1>6 DEF StoreInv, PlanFresh, PlanLines
<1>8. SeenKnown'
    BY <1>3, <1>4, <1>5, <1>6 DEF StoreInv, SeenKnown, TypeOK
<1>9. HypStored'
    BY <1>1, <1>2, <1>3, Facts DEF StoreInv, HypStored, TypeOK
<1>10. NoBareIdea'
    <2>1. \A l \in Stored : home'[l] = home[l]
        BY <1>1, <1>2 DEF Stored
    <2>2. home'[h] = i
        BY <1>1, Facts DEF StoreInv, TypeOK
    <2>3. QED
        BY <1>1, <1>4, <2>1, <2>2 DEF StoreInv, NoBareIdea
<1>11. QED
    BY <1>7, <1>8, <1>9, <1>10 DEF StoreInv

LEMMA EndStep ==
    ASSUME StoreInv, TypeOK', StepsInOrder', EndPass
    PROVE  StoreInv'
<1>1. /\ pc' = "idle" /\ plan' = Undecided
      /\ UNCHANGED <<home, ideas, hyp>>
    BY DEF EndPass, storeVars, toolVars
<1>2. PlanLines' = {} /\ Stored' = Stored
    BY <1>1, StoreKept DEF PlanLines, Undecided
<1>3. PlanFresh' /\ SeenKnown'
    BY <1>1, <1>2 DEF PlanFresh, SeenKnown
<1>4. HypStored' /\ NoBareIdea'
    BY <1>1, <1>2 DEF StoreInv, HypStored, NoBareIdea
<1>5. QED
    BY <1>3, <1>4 DEF StoreInv

(* All steps of the specification.                                         *)
LEMMA StoreNext ==
    ASSUME StoreInv, [Next]_vars
    PROVE  StoreInv'
<1>1. TypeOK' /\ StepsInOrder'
    BY TypeStep DEF StoreInv
<1> USE <1>1 DEF storeVars, durable, batchVars, toolVars
<1>2. CASE TakeGroup
    <2>1. CASE \E n \in Lines : OpenGroup(n) /\ pc' = "link"
        BY <1>2, <2>1, OpenStep
    <2>2. CASE UNCHANGED <<group, todo, seen>> /\ pc' = "due"
        BY <1>2, <2>2, QuietStep DEF TakeGroup
    <2>3. QED
        BY <1>2, <2>1, <2>2 DEF TakeGroup
<1>3. CASE LinkRow
    BY <1>3, RowStep
<1>4. CASE CreateIdea
    BY <1>4, CreateStep
<1>5. CASE IndexIdea
    BY <1>5, IndexStep
<1>6. CASE SplitCommit
    BY <1>6, SplitStep
<1>7. CASE Ends
    BY <1>7, EndsEffect, EndStep DEF StoreInv, TypeOK
<1>8. CASE \E h \in Syntheses : StoreHypothesis(h)
    BY <1>8, SynthesisStep
<1>9. CASE \E h \in Syntheses : IndexHypothesis(h)
    <2>1. \A h \in Syntheses : hyp'[h] = "none" <=> hyp[h] = "none"
        BY <1>9 DEF IndexHypothesis, StoreInv, TypeOK
    <2>2. QED
        BY <1>9, <2>1, QuietStep DEF IndexHypothesis
<1>10. CASE UNCHANGED vars
    BY <1>10, QuietStep DEF vars
<1>11. CASE Begin
    BY <1>11, QuietStep DEF Begin
<1>12. CASE ReadStore
    BY <1>12, QuietStep DEF ReadStore
<1>13. CASE IndexMissing
    BY <1>13, QuietStep DEF IndexMissing
<1>14. CASE RepairStale
    BY <1>14, QuietStep DEF RepairStale, AfterRepair
<1>15. CASE LinkDone
    BY <1>15, QuietStep DEF LinkDone
<1>16. CASE FindPairs
    BY <1>16, QuietStep DEF FindPairs
<1>17. CASE CitePair
    BY <1>17, QuietStep DEF CitePair
<1>18. CASE CiteDone
    BY <1>18, QuietStep DEF CiteDone
<1>19. CASE SplitDue
    BY <1>19, QuietStep DEF SplitDue
<1>20. CASE SplitFails
    BY <1>20, QuietStep DEF SplitFails
<1>21. CASE Resnap
    BY <1>21, QuietStep DEF Resnap
<1>22. CASE RebuildIndex
    BY <1>22, QuietStep DEF RebuildIndex
<1>23. CASE SplitsDone
    BY <1>23, QuietStep DEF SplitsDone
<1>24. CASE Advance
    BY <1>24, QuietStep DEF Advance
<1>25. CASE Reindex
    BY <1>25, QuietStep DEF Reindex
<1>26. CASE ReindexRebuild
    BY <1>26, QuietStep DEF ReindexRebuild
<1>27. QED
    BY <1>2, <1>3, <1>4, <1>5, <1>6, <1>7, <1>8, <1>9, <1>10, <1>11, <1>12,
       <1>13, <1>14, <1>15, <1>16, <1>17, <1>18, <1>19, <1>20, <1>21, <1>22,
       <1>23, <1>24, <1>25, <1>26
    DEF Next, Pass, Repair, Link, Write, Split, Ends

-----------------------------------------------------------------------------
(* The only steps that write the store's leaves.                           *)
LEMMA HomeCases ==
    ASSUME [Next]_vars
    PROVE  \/ home' = home
           \/ CreateIdea \/ SplitCommit \/ \E h \in Syntheses : StoreHypothesis(h)
BY DEF Next, Pass, Repair, Link, Write, Split, vars, durable, storeVars, Begin,
       ReadStore, IndexMissing, RepairStale, TakeGroup, LinkRow, LinkDone,
       IndexIdea, FindPairs, CitePair, CiteDone, SplitDue, SplitFails, Resnap,
       RebuildIndex, SplitsDone, Advance, Raise, Die, MeetsBroken, EndPass, Reindex,
       ReindexRebuild, IndexHypothesis

LEMMA LeavesStep ==
    ASSUME StoreInv, [Next]_vars, NEW l \in Stored
    PROVE  /\ home'[l] # NoIdea
           /\ home'[l] # home[l] =>
               /\ home'[l] \notin ideas
               /\ Cardinality(Leaves(home[l])) > MaxLeaves
               /\ \E k \in Leaves(home[l]) : home'[k] = home[l]
<1>1. l \in Leaf /\ home[l] # NoIdea
    BY DEF Stored
<1>2. CASE home' = home
    BY <1>1, <1>2
<1>3. CASE CreateIdea
    BY <1>1, <1>3, CreateEffect
<1>4. CASE SplitCommit
    <2>1. PICK i \in Ideas : SplitIdea(i)
        BY <1>4 DEF SplitCommit, StoreInv, TypeOK
    <2>2. QED
        BY <1>1, <2>1, SplitEffect, Facts DEF StoreInv
<1>5. CASE \E h \in Syntheses : StoreHypothesis(h)
    BY <1>1, <1>5 DEF StoreHypothesis, StoreInv, HypStored
<1>6. QED
    BY <1>2, <1>3, <1>4, <1>5, HomeCases

LEMMA StoredStays ==
    ASSUME StoreInv, [Next]_vars
    PROVE  Stored \subseteq Stored'
BY LeavesStep DEF Stored

-----------------------------------------------------------------------------
(* The index.  Whoever writes there read the store or committed before.    *)
LEMMA GhostStep ==
    ASSUME StoreInv, SnapHoldsNoGhost, IndexHoldsNoGhost, [Next]_vars
    PROVE  SnapHoldsNoGhost' /\ IndexHoldsNoGhost'
<1>1. Stored \subseteq Stored'
    BY StoredStays
<1>2. \A l \in Leaf : snap'[l] # NoIdea => l \in Stored
    <2>1. CASE snap' = snap
        BY <2>1 DEF SnapHoldsNoGhost
    <2>2. CASE snap' = home
        BY <2>2 DEF Stored
    <2>3. CASE snap' = Nowhere
        BY <2>3 DEF Nowhere
    <2>4. QED
        BY <2>1, <2>2, <2>3         DEF Next, Pass, Repair, Link, Write, Split, vars,
       Begin, ReadStore, IndexMissing, RepairStale, TakeGroup, LinkRow,
       LinkDone, CreateIdea, IndexIdea, FindPairs, CitePair, CiteDone, SplitDue,
       SplitFails, SplitCommit, Resnap, RebuildIndex, SplitsDone, Advance,
       Raise, Die, MeetsBroken, EndPass, Reindex, ReindexRebuild, StoreHypothesis,
       IndexHypothesis
<1>3. \A l \in Leaf : index'[l] # NoIdea => l \in Stored
    <2>1. CASE index' \in {index, snap, Nowhere}
        BY <2>1 DEF SnapHoldsNoGhost, IndexHoldsNoGhost, Nowhere
    <2>2. CASE IndexMissing
        BY <2>2 DEF IndexMissing, SnapHoldsNoGhost, IndexHoldsNoGhost
    <2>3. CASE IndexIdea
        <3>1. PICK i \in Ideas :
                  /\ IsNext(i)
                  /\ index' = [l \in Leaf |-> IF l \in Batch(i) THEN i ELSE index[l]]
            BY <2>3 DEF IndexIdea
        <3>2. \A l \in Batch(i) : \E n \in PlanLines : plan[n] = i /\ l = Staging[n]
            BY Facts DEF Batch, PlanLines
        <3>3. Batch(i) \subseteq Stored
            BY <2>3, <3>1, <3>2 DEF StoreInv, PlanFresh, IndexIdea
        <3>4. QED
            BY <3>1, <3>3 DEF IndexHoldsNoGhost
    <2>4. CASE \E h \in Syntheses : IndexHypothesis(h)
        <3>1. PICK h \in Syntheses : IndexHypothesis(h)
            BY <2>4
        <3>2. h \in Stored
            BY <3>1, Facts DEF IndexHypothesis, StoreInv, HypStored, Stored
        <3>3. QED
            BY <3>1, <3>2 DEF IndexHypothesis, IndexHoldsNoGhost, StoreInv, TypeOK
    <2>5. CASE Ends \/ RebuildIndex \/ ReindexRebuild
        BY <2>1, <2>5, EndsEffect, RebuildEffect
        DEF RebuildIndex, ReindexRebuild, StoreInv, TypeOK
    <2>6. QED
        BY <2>1, <2>2, <2>3, <2>4, <2>5
        DEF Next, Pass, Repair, Link, Write, Split, Ends,
       vars, durable, indexVars, Begin, ReadStore, RepairStale, TakeGroup, LinkRow,
       LinkDone, CreateIdea, FindPairs, CitePair, CiteDone, SplitDue,
       SplitFails, SplitCommit, Resnap, SplitsDone, Advance, Reindex, StoreHypothesis
<1>4. QED
    BY <1>1, <1>2, <1>3 DEF SnapHoldsNoGhost, IndexHoldsNoGhost

-----------------------------------------------------------------------------
(* The cursor.  A line that is read is planned or settled, and what is     *)
(* settled stays so.                                                       *)
LEMMA LinesStep ==
    ASSUME StoreInv, LinesKept, CursorMeansDone, [Next]_vars
    PROVE  LinesKept' /\ CursorMeansDone'
<1>1. Stored \subseteq Stored'
    BY StoredStays
<1>2. pending \subseteq pending'
    BY DEF Next, Pass, Repair, Link, Write, Split, vars, durable, Skip, Refuse,
       Decide, Begin, ReadStore, IndexMissing, RepairStale, TakeGroup, LinkRow,
       LinkDone, CreateIdea, IndexIdea, FindPairs, CitePair, CiteDone, SplitDue,
       SplitFails, SplitCommit, Resnap, RebuildIndex, SplitsDone, Advance,
       Raise, Die, MeetsBroken, EndPass, Reindex, ReindexRebuild, StoreHypothesis,
       IndexHypothesis
<1>3. Settled \subseteq Settled'
    BY <1>1, <1>2 DEF Settled
<1>4. ASSUME UNCHANGED <<todo, plan, group, done, cursor>>
      PROVE  LinesKept' /\ CursorMeansDone'
    <2>1. PlanLines' = PlanLines /\ GroupLines' = GroupLines
        BY <1>4, PlanKept DEF GroupLines
    <2>2. QED
        BY <1>3, <1>4, <2>1 DEF LinesKept, CursorMeansDone, Settled
<1>5. CASE Begin
    <2>1. cursor' = cursor /\ done' = 1..cursor /\ group' = NoSource
        BY <1>5 DEF Begin, durable
    <2>2. GroupLines' = {}
        BY <2>1, Facts DEF GroupLines
    <2>3. QED
        BY <1>3, <2>1, <2>2 DEF LinesKept, CursorMeansDone, Settled
<1>6. CASE TakeGroup
    <2>1. CASE UNCHANGED <<group, todo, seen>>
        BY <1>4, <1>6, <2>1 DEF TakeGroup, durable
    <2>2. CASE \E n \in Lines : OpenGroup(n)
        <3>1. GroupLines' = todo' /\ UNCHANGED <<done, cursor>>
            BY <1>6, <2>2 DEF TakeGroup, durable, OpenGroup, GroupLines
        <3>2. QED
            BY <1>3, <3>1 DEF LinesKept, CursorMeansDone, Settled
    <2>3. QED
        BY <1>6, <2>1, <2>2 DEF TakeGroup
<1>7. CASE LinkRow
    <2>1. PICK n \in todo :
              /\ todo' = todo \ {n}
              /\ Skip(n) \/ Refuse(n) \/ \E i \in Ideas : Decide(n, i)
        BY <1>7 DEF LinkRow
    <2>2. n \in Lines /\ pc = "link"
        BY <1>7, <2>1 DEF LinkRow, StoreInv, TypeOK
    <2>3. PlanLines \subseteq PlanLines'
        <3>1. CASE Skip(n) \/ Refuse(n)
            BY <3>1, PlanKept DEF Skip, Refuse
        <3>2. CASE \E i \in Ideas : Decide(n, i)
            BY <3>2, <2>2, Facts DEF Decide, PlanLines, StoreInv, TypeOK
        <3>3. QED
            BY <2>1, <3>1, <3>2
    <2>4. Staging[n] \in Settled' \/ \E m \in PlanLines' : Staging[m] = Staging[n]
        <3>1. CASE Skip(n)
            <4>1. Staging[n] \in Stored \/ \E m \in PlanLines : Staging[m] = Staging[n]
                BY <2>2, <3>1 DEF Skip, StoreInv, SeenKnown
            <4>2. QED
                BY <1>3, <2>3, <4>1 DEF Settled
        <3>2. CASE Refuse(n)
            BY <3>2 DEF Refuse, Settled
        <3>3. CASE \E i \in Ideas : Decide(n, i)
            <4>1. n \in PlanLines'
                BY <3>3, <2>2, Facts DEF Decide, PlanLines, StoreInv, TypeOK
            <4>2. QED
                BY <4>1
        <3>4. QED
            BY <2>1, <3>1, <3>2, <3>3
    <2>5. UNCHANGED <<done, group, cursor>> /\ GroupLines' = GroupLines
        BY <1>7 DEF LinkRow, GroupLines
    <2>6. \A k \in GroupLines : \/ k \in todo'
                                \/ Staging[k] \in Settled'
                                \/ \E m \in PlanLines' : Staging[m] = Staging[k]
        BY <1>3, <2>1, <2>3, <2>4 DEF LinesKept
    <2>7. QED
        BY <1>3, <2>5, <2>6 DEF LinesKept, CursorMeansDone, Settled
<1>8. CASE IndexIdea
    <2>1. PICK i \in Ideas :
              /\ IsNext(i)
              /\ plan' = [n \in Lines |-> IF plan[n] = i THEN NoIdea ELSE plan[n]]
        BY <1>8 DEF IndexIdea
    <2>2. PlanLines' = {n \in PlanLines : plan[n] # i}
        BY <2>1 DEF PlanLines
    <2>3. \A n \in PlanLines : plan[n] = i => Staging[n] \in Stored
        BY <1>8, <2>1 DEF StoreInv, PlanFresh, IndexIdea
    <2>4. UNCHANGED <<done, group, cursor, todo>> /\ GroupLines' = GroupLines
        BY <1>8 DEF IndexIdea, GroupLines
    <2>5. \A n \in GroupLines : \/ n \in todo
                                \/ Staging[n] \in Settled'
                                \/ \E m \in PlanLines' : Staging[m] = Staging[n]
        BY <1>1, <1>3, <2>2, <2>3 DEF LinesKept, Settled
    <2>6. QED
        BY <1>3, <2>4, <2>5 DEF LinesKept, CursorMeansDone, Settled
<1>9. CASE Advance
    <2>1. /\ done' = done \cup GroupLines /\ group' = NoSource
          /\ 1..cursor' \subseteq done'
        BY <1>9 DEF Advance, Watermark
    <2>2. GroupLines' = {}
        BY <2>1, Facts DEF GroupLines
    <2>3. todo = {} /\ PlanLines = {}
        BY <1>9 DEF Advance, StoreInv, StepsInOrder, Batching
    <2>4. \A n \in done' : Staging[n] \in Settled'
        BY <1>3, <2>1, <2>3 DEF LinesKept
    <2>5. QED
        BY <2>1, <2>2, <2>4 DEF LinesKept, CursorMeansDone, Settled
<1>10. CASE Ends
    <2>1. done' = {} /\ group' = NoSource /\ cursor' = cursor
        BY <1>10, EndsEffect DEF EndPass, StoreInv, TypeOK
    <2>2. GroupLines' = {}
        BY <2>1, Facts DEF GroupLines
    <2>3. QED
        BY <1>3, <2>1, <2>2 DEF LinesKept, CursorMeansDone, Settled
<1>11. CASE UNCHANGED <<todo, plan, group, done, cursor>>
    BY <1>4, <1>11
<1>12. QED
    BY <1>5, <1>6, <1>7, <1>8, <1>9, <1>10, <1>11     DEF Next, Pass, Repair, Link,
       Write, Split, vars, durable, batchVars, ReadStore, IndexMissing,
       RepairStale, LinkDone, CreateIdea, FindPairs, CitePair, CiteDone,
       SplitDue, SplitFails, SplitCommit, Resnap, RebuildIndex, SplitsDone, Ends,
       Reindex, ReindexRebuild, StoreHypothesis, IndexHypothesis

-----------------------------------------------------------------------------
(* Co-citation.  The leaves of a source do not move while it is connected. *)
LEMMA PairsStep ==
    ASSUME StoreInv, PairsInHand, [Next]_vars
    PROVE  PairsInHand'
<1>1. ASSUME NEW s \in Sources, \E h \in Syntheses : StoreHypothesis(h)
      PROVE  /\ {k \in Stored' : k[1] = s} = {k \in Stored : k[1] = s}
             /\ \A k \in Stored : k[1] = s => home'[k] = home[k]
    <2>1. PICK h \in Syntheses, i \in Unused : home' = [home EXCEPT ![h] = i]
        BY <1>1 DEF StoreHypothesis
    <2>2. \A l \in Leaf : l[1] = s => home'[l] = home[l]
        BY <2>1, Facts
    <2>3. QED
        BY <2>2 DEF Stored
<1>2. ASSUME NEW s \in Sources, home' = home \/ \E h \in Syntheses : StoreHypothesis(h)
      PROVE  {home'[l] : l \in {k \in Stored' : k[1] = s}} =
                 {home[l] : l \in {k \in Stored : k[1] = s}}
    BY <1>1, <1>2, StoreKept
<1>3. pc = "cite" => group \in Sources
    BY DEF StoreInv, StepsInOrder, TypeOK
<1>4. group # NoSource => group \in Sources
    BY DEF StoreInv, TypeOK
<1>5. CASE FindPairs
    <2>1. /\ home' = home /\ group' = group /\ pc' = "cite"
          /\ pairs' = PairsOf(group)
        BY <1>5 DEF FindPairs, durable, storeVars
    <2>2. \A i, j \in {home[l] : l \in {k \in Stored : k[1] = group}} :
              i # j => {i, j} \in PairsOf(group)
        <3> DEFINE cited == {home[l] : l \in {k \in Stored : k[1] = group}}
        <3>1. ASSUME NEW i \in cited, NEW j \in cited, i # j
              PROVE  {i, j} \in PairsOf(group)
            <4>1. <<i, j>> \in {q \in cited \X cited : q[1] # q[2]}
                BY <3>1
            <4> HIDE DEF cited
            <4>2. {<<i, j>>[1], <<i, j>>[2]} \in
                      {{p[1], p[2]} : p \in {q \in cited \X cited : q[1] # q[2]}}
                BY <4>1
            <4>3. QED
                BY <4>2 DEF PairsOf, cited
        <3>2. QED
            BY <3>1
    <2>3. QED
        BY <2>1, <2>2, StoreKept DEF PairsInHand, Cited
<1>6. CASE CitePair
    <2>1. PICK p \in pairs : cites' = cites \cup {<<p, group>>} /\ pairs' = pairs \ {p}
        BY <1>6 DEF CitePair
    <2>2. /\ home' = home /\ group' = group
          /\ pc = "cite" /\ pc' = "cite"
        BY <1>6 DEF CitePair
    <2>3. QED
        BY <2>1, <2>2, StoreKept DEF PairsInHand, Cited
<1>7. CASE CiteDone
    BY <1>7, StoreKept DEF CiteDone, PairsInHand, Cited, durable, storeVars
<1>8. CASE \/ ReadStore \/ IndexMissing
           \/ \E h \in Syntheses : StoreHypothesis(h) \/ IndexHypothesis(h)
           \/ UNCHANGED vars
    <2>1. /\ cites' = cites /\ group' = group /\ pairs' = pairs
          /\ home' = home \/ \E h \in Syntheses : StoreHypothesis(h)
          /\ pc' = "cite" => pc = "cite"
          /\ pc' \in {"read", "missing", "stale"} => pc \in {"read", "missing", "stale"}
        BY <1>8 DEF ReadStore, IndexMissing, StoreHypothesis, IndexHypothesis, vars,
                    durable, storeVars
    <2>2. ASSUME pc' = "cite" PROVE Cited(group, pairs)'
        <3>1. Cited(group, pairs)
            BY <2>1, <2>2 DEF PairsInHand
        <3>2. QED
            BY <1>2, <1>3, <2>1, <2>2, <3>1 DEF Cited
    <2>3. ASSUME pc' \in {"read", "missing", "stale"}, group' # NoSource
          PROVE  Cited(group, {})'
        <3>1. Cited(group, {})
            BY <2>1, <2>3 DEF PairsInHand
        <3>2. QED
            BY <1>2, <1>4, <2>1, <2>3, <3>1 DEF Cited
    <2>4. QED
        BY <2>2, <2>3 DEF PairsInHand
<1>9. CASE \/ pc' \notin {"cite", "read", "missing", "stale"}
           \/ group' = NoSource /\ pc' # "cite"
    BY <1>9 DEF PairsInHand
<1>10. QED
    BY <1>5, <1>6, <1>7, <1>8, <1>9
    DEF Next, Pass, Repair, Link, Write, Split, Begin, RepairStale, AfterRepair, TakeGroup,
        LinkRow, LinkDone, CreateIdea, IndexIdea, SplitDue, SplitFails, SplitCommit,
        Resnap, RebuildIndex, SplitsDone, Advance, Raise, Die, MeetsBroken, EndPass,
        Reindex, ReindexRebuild

-----------------------------------------------------------------------------
(* Between a commit and its index write the pass is at a step from which   *)
(* it first reads the store again.                                         *)
LEMMA ViewStep ==
    ASSUME StoreInv, IndexHoldsNoGhost, IndexInStep, [Next]_vars
    PROVE  IndexInStep'
<1> USE DEF IndexInStep, InStep, history
<1>1. CASE StaleLinks = {} /\ RepairStale
    <2>1. \A l \in Staged : index[l] = home[l]
        <3>1. SUFFICES ASSUME NEW l \in Staged PROVE index[l] = home[l]
            OBVIOUS
        <3>2. /\ l \in Leaf /\ snap[l] = home[l]
              /\ index[l] = NoIdea => home[l] = NoIdea
            BY <1>1, Facts DEF RepairStale
        <3>3. snap[l] # NoIdea => index[l] \in {snap[l], NoIdea}
            BY <1>1, <3>2 DEF StaleLinks
        <3>4. index[l] # NoIdea => home[l] # NoIdea
            BY <3>2 DEF IndexHoldsNoGhost, Stored
        <3>5. QED
            BY <3>2, <3>3, <3>4
    <2>2. QED
        BY <1>1, <2>1 DEF RepairStale, AfterRepair, storeVars
<1>2. CASE StaleLinks # {} /\ RepairStale
    BY <1>2 DEF RepairStale, AfterRepair, storeVars
<1>3. CASE ReadStore
    BY <1>3 DEF ReadStore, durable, storeVars
<1>4. CASE IndexMissing
    BY <1>4, Facts DEF IndexMissing, storeVars
<1>5. CASE RebuildIndex
    BY <1>5 DEF RebuildIndex, Rebuilds, storeVars
<1>6. CASE Resnap
    BY <1>6 DEF Resnap, durable, storeVars
<1>7. CASE \E h \in Syntheses : StoreHypothesis(h) \/ IndexHypothesis(h)
    <2>1. \A l \in Staged : home'[l] = home[l] /\ index'[l] = index[l]
        <3>1. PICK h \in Syntheses : StoreHypothesis(h) \/ IndexHypothesis(h)
            BY <1>7
        <3>2. \A l \in Staged : l \in Leaf /\ l # h
            BY Facts
        <3>3. CASE StoreHypothesis(h)
            BY <3>2, <3>3 DEF StoreHypothesis, indexVars, StoreInv, TypeOK
        <3>4. CASE IndexHypothesis(h)
            <4>1. index' = index \/ index' = [index EXCEPT ![h] = opened[h]]
                BY <3>4 DEF IndexHypothesis
            <4>2. home' = home
                BY <3>4 DEF IndexHypothesis, storeVars
            <4>3. QED
                BY <3>2, <4>1, <4>2 DEF StoreInv, TypeOK
        <3>5. QED
            BY <3>1, <3>3, <3>4
    <2>2. pc' = pc /\ snap' = snap /\ blind' = blind
        BY <1>7 DEF StoreHypothesis, IndexHypothesis
    <2>3. QED
        BY <2>1, <2>2
<1>8. CASE TakeGroup \/ LinkRow \/ SplitDue \/ SplitFails \/ SplitsDone \/ Advance
    BY <1>8 DEF TakeGroup, LinkRow, SplitDue, SplitFails, SplitsDone, Advance, durable,
                indexVars, storeVars
<1>9. CASE UNCHANGED vars
    BY <1>9 DEF vars, durable, storeVars
<1>10. CASE pc' \in {"idle", "read", "create", "index", "cite", "resnap", "reindex"}
    BY <1>10
<1>11. QED
    BY <1>1, <1>2, <1>3, <1>4, <1>5, <1>6, <1>7, <1>8, <1>9, <1>10
    DEF Next, Pass, Repair, Link, Write, Split, Begin, LinkDone, CreateIdea, IndexIdea,
        FindPairs, CitePair, CiteDone, SplitCommit, Raise, Die, MeetsBroken, EndPass,
        Reindex, ReindexRebuild

-----------------------------------------------------------------------------
LEMMA PassInit == Init => PassInv
<1>1. SUFFICES ASSUME Init PROVE PassInv
    OBVIOUS
<1> USE <1>1, Facts DEF Init, Nowhere, Undecided
<1>2. TypeOK
    <2>1. tables \in Tables /\ pc \in Steps /\ blind \in BOOLEAN
        BY DEF Tables, Steps
    <2>2. QED
        BY <2>1 DEF TypeOK
<1>3. PlanLines = {} /\ Stored = {}
    BY DEF PlanLines, Stored
<1>4. StepsInOrder /\ PlanFresh /\ SeenKnown /\ HypStored /\ NoBareIdea
    BY <1>3 DEF StepsInOrder, Batching, PlanFresh, SeenKnown, HypStored, NoBareIdea
<1>5. LinesKept /\ CursorMeansDone
    BY DEF LinesKept, CursorMeansDone, GroupLines
<1>6. SnapHoldsNoGhost /\ IndexHoldsNoGhost /\ PairsInHand
    BY DEF SnapHoldsNoGhost, IndexHoldsNoGhost, PairsInHand
<1>7. QED
    BY <1>2, <1>4, <1>5, <1>6 DEF PassInv, StoreInv

LEMMA PassNext == PassInv /\ [Next]_vars => PassInv'
BY StoreNext, LinesStep, GhostStep, PairsStep DEF PassInv

(* Everything a pass keeps, over raises, deaths, failed rebuilds and the  *)
(* hypothesis tool.                                                       *)
THEOREM PassKeepsInv == Spec => []PassInv
BY PassInit, PassNext, PTL DEF Spec

(* The variables of a pass have their types.                              *)
THEOREM TypeCorrect == Spec => []TypeOK
BY PassKeepsInv, PTL DEF PassInv, StoreInv

(* No idea of the store is ever without a leaf, no leaf without an idea.  *)
THEOREM StoreHasNoBareIdea == Spec => []NoBareIdea
BY PassKeepsInv, PTL DEF PassInv, StoreInv

(* The index never holds a leaf the store does not.                       *)
THEOREM IndexFollowsStore == Spec => []IndexHoldsNoGhost
BY PassKeepsInv, PTL DEF PassInv

(* No line behind the cursor is lost.                                     *)
THEOREM CursorIsSound == Spec => []CursorMeansDone
BY PassKeepsInv, PTL DEF PassInv

(* The repair after a source finds its co-citation complete.              *)
THEOREM CitationIsComplete == Spec => []SourceIsCited
<1>1. PassInv => SourceIsCited
    BY DEF PassInv, PairsInHand, Cited, SourceIsCited
<1>2. QED
    BY <1>1, PassKeepsInv, PTL

(* A leaf stays in the store, and only a split re-homes it.               *)
THEOREM LinksAreKept == Spec => LeavesStay
<1>1. PassInv /\ [Next]_vars =>
          [\A l \in Stored :
              /\ home'[l] # NoIdea
              /\ home'[l] # home[l] =>
                  /\ home'[l] \notin ideas
                  /\ Cardinality(Leaves(home[l])) > MaxLeaves
                  /\ \E k \in Leaves(home[l]) : home'[k] = home[l]]_vars
    BY LeavesStep DEF PassInv
<1>2. QED
    BY <1>1, PassKeepsInv, PTL DEF Spec, LeavesStay

(* The arbiter decides over an index in step with the store, whatever      *)
(* raised, died or was rebuilt before, except while the last rebuild of a  *)
(* sweep raised and no repair has run since.                               *)
THEOREM ArbiterSeesTheStore == Spec => []LinkSeesTheStore
<1>1. Init => IndexInStep
    BY DEF Init, IndexInStep
<1>2. PassInv /\ IndexInStep /\ [Next]_vars => IndexInStep'
    BY ViewStep DEF PassInv
<1>3. IndexInStep => LinkSeesTheStore
    BY DEF IndexInStep, InStep, LinkSeesTheStore
<1>4. QED
    BY <1>1, <1>2, <1>3, PassKeepsInv, PTL DEF Spec

=============================================================================
