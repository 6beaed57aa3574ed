------------------------- MODULE IdeaUpkeep_proofs -------------------------
(***************************************************************************)
(* A clean idea carries the score of the leaves it has, no idea counts     *)
(* more leaves than it has, only an edit under a derivation parts a text   *)
(* and its vector, co-citation is symmetric and no edge weighs more than   *)
(* its evidence: for any leaves and sources, any bounds on splits,         *)
(* derivations and judgements, any edits, failures and deaths.             *)
(*                                                                         *)
(* What a sweep read of an idea stays true until it writes (SlotInv): its  *)
(* job has the slot, and only a job that has it moves leaves.  The score   *)
(* it writes is therefore of the leaves the idea has then, and so is the   *)
(* count.  The text is the exception: an edit takes no slot (Drift).       *)
(***************************************************************************)
EXTENDS IdeaUpkeep, WellFoundedInduction, FiniteSetTheorems, SequenceTheorems, TLAPS

Sweeps == {"split", "derive", "last", "judge"}
OfSource == {"land", "cite", "split", "derive"}

SlotInv ==
    /\ cur # Idle => /\ pc \in Sweeps /\ cur.idea \in Exists
                     /\ cur.leaves = LeavesOf(cur.idea)
    /\ todo \subseteq Exists
    /\ \A l \in Leaves : plan[l] # None => home[l] = None
    /\ pc \in OfSource => cursor < LastSource
    /\ tool.source = 0 => tool.pairs = {}

Counts == \A i \in Ideas : counted[i] <= Cardinality(LeavesOf(i))

Drift ==
    /\ DriftNeedsRace
    /\ cur # Idle /\ pc # "judge" => cur.text = text[cur.idea] \/ cur.idea \in raced

UpkeepInv == TypeOK /\ SlotInv /\ CleanMeansJudged /\ Counts /\ Drift /\ EdgesBothWays

-----------------------------------------------------------------------------
(* Counting leaves.                                                        *)
LEMMA LeafCount ==
    ASSUME NEW S \in SUBSET Leaves
    PROVE  IsFiniteSet(S) /\ Cardinality(S) \in Nat
BY UpkeepAssumption, FS_Subset, FS_CardinalityType

LEMMA MoreLeaves ==
    ASSUME NEW S \in SUBSET Leaves, NEW T \in SUBSET S
    PROVE  Cardinality(T) <= Cardinality(S)
BY LeafCount, FS_Subset

LEMMA LeastNumber ==
    ASSUME NEW T \in SUBSET Nat, T # {}
    PROVE  Min(T) \in T /\ \A x \in T : Min(T) <= x
<1>1. PICK x \in T : \A y \in T : ~ (<<y, x>> \in OpToRel(<, Nat))
    BY NatLessThanWellFounded, WFMin
<1>2. \A y \in T : ~ (y < x)
    BY <1>1 DEF OpToRel
<1>3. \A y \in T : x =< y
    BY <1>2
<1>4. QED
    BY <1>3 DEF Min

LEMMA ExistIdeas ==
    ASSUME TypeOK
    PROVE  /\ Exists \subseteq Ideas
           /\ \A n \in 1..Len(born) : born[n] \in Exists
<1>1. born \in Seq(Ideas)
    BY DEF TypeOK
<1>2. QED
    BY <1>1 DEF Exists

(* The pairs of a source weigh a natural number.                           *)
LEMMA PairsType ==
    ASSUME TypeOK, NEW s
    PROVE  PairsOf(s) \subseteq Pair
<1> SUFFICES ASSUME NEW p \in kSubset(2, Exists)
             PROVE  [pair |-> p, increment |-> Min({CountOf(s, i) : i \in p})] \in Pair
    BY DEF PairsOf
<1>1. p \in SUBSET Ideas /\ Cardinality(p) = 2
    BY ExistIdeas DEF kSubset
<1>2. p # {}
    BY <1>1, FS_EmptySet
<1> DEFINE T == {CountOf(s, i) : i \in p}
<1>3. T \in SUBSET Nat /\ T # {}
    <2>1. \A i \in p : CountOf(s, i) \in Nat
        BY LeafCount DEF CountOf, LeavesOf
    <2>2. QED
        BY <1>2, <2>1
<1>4. Min(T) \in Nat
    <2> HIDE DEF T
    <2>1. QED
        BY <1>3, LeastNumber
<1> DEFINE m == Min(T)
<1>5. m \in Nat
    BY <1>4
<1> HIDE DEF m
<1>6. [pair |-> p, increment |-> m] \in Pair
    BY <1>1, <1>5 DEF Pair
<1>7. QED
    BY <1>6 DEF m, T

(* A pair is written in both directions.                                   *)
LEMMA PairWritten ==
    ASSUME TypeOK, EdgesBothWays, NEW s \in Sources, NEW p \in Pair, WriteCocitePair(s, p)
    PROVE  edges' \in [Ideas \X Ideas -> Edge] /\ EdgesBothWays'
<1>1. edges \in [Ideas \X Ideas -> Edge] /\ p.increment \in Nat
    BY DEF TypeOK, Pair
<1>2. \A e \in Edge : Upsert(e, s, p.increment) \in Edge
    BY <1>1 DEF Upsert, Edge
<1>3. edges' = [q \in Ideas \X Ideas |->
                IF p.pair = {q[1], q[2]} THEN Upsert(edges[q], s, p.increment) ELSE edges[q]]
    BY <1>1 DEF WriteCocitePair
<1>4. edges' \in [Ideas \X Ideas -> Edge]
    BY <1>1, <1>2, <1>3
<1>5. ASSUME NEW q \in Ideas \X Ideas PROVE edges'[q] = edges'[<<q[2], q[1]>>]
    <2> DEFINE r == <<q[2], q[1]>>
    <2>1. r \in Ideas \X Ideas /\ r[1] = q[2] /\ r[2] = q[1] /\ {r[1], r[2]} = {q[1], q[2]}
        OBVIOUS
    <2>2. edges[q] = edges[r]
        BY <1>1 DEF EdgesBothWays
    <2> HIDE DEF r
    <2>3. edges'[q] = edges'[r]
        BY <1>3, <2>1, <2>2
    <2>4. QED
        BY <2>3 DEF r
<1>6. QED
    BY <1>4, <1>5 DEF EdgesBothWays

-----------------------------------------------------------------------------
LEMMA InitInv == Init => UpkeepInv
<1> SUFFICES ASSUME Init PROVE UpkeepInv
    OBVIOUS
<1> USE UpkeepAssumption DEF Init
<1>1. TypeOK
    <2>1. /\ home \in [Leaves -> Ideas \cup {None}] /\ plan \in [Leaves -> Ideas \cup {None}]
          /\ born \in Seq(Ideas)
        BY DEF NoPlan
    <2>2. /\ text \in [Ideas -> Texts \cup {None}] /\ vector \in [Ideas -> Texts \cup {None}]
          /\ counted \in [Ideas -> Nat] /\ score \in [Ideas -> SUBSET Leaves]
          /\ dirty \in [Ideas -> BOOLEAN]
        OBVIOUS
    <2>3. edges \in [Ideas \X Ideas -> Edge]
        BY DEF Edge
    <2>4. /\ pc \in Steps /\ cursor \in 0..LastSource /\ pairs \subseteq Pair /\ todo \subseteq Ideas
          /\ cur \in [idea : Ideas \cup {None}, text : Texts \cup {None}, leaves : SUBSET Leaves]
          /\ tool \in [source : 0..LastSource, pairs : SUBSET Pair]
          /\ raced \subseteq Ideas /\ edits \in 0..MaxEdits /\ aborts \in 0..MaxAborts
        BY DEF Steps, Idle, AtRest
    <2>5. QED
        BY <2>1, <2>2, <2>3, <2>4 DEF TypeOK
<1>2. Exists = {}
    BY DEF Exists
<1>3. SlotInv
    BY DEF SlotInv, NoPlan, OfSource, AtRest
<1>4. Counts
    <2>1. \A i \in Ideas : Cardinality(LeavesOf(i)) \in Nat
        BY LeafCount DEF LeavesOf
    <2>2. QED
        BY <2>1 DEF Counts
<1>5. CleanMeansJudged /\ Drift
    BY <1>2 DEF CleanMeansJudged, Drift, DriftNeedsRace
<1>6. EdgesBothWays
    BY DEF EdgesBothWays
<1>7. QED
    BY <1>1, <1>3, <1>4, <1>5, <1>6 DEF UpkeepInv

(* A step that writes no idea and goes on to nothing else: what the ideas  *)
(* promise stays.                                                          *)
Apart == UNCHANGED <<home, born, fields, trust, raced>>

LEMMA ApartKeeps ==
    ASSUME UpkeepInv, Apart, cur' = Idle \/ (cur' = cur /\ pc' = pc)
    PROVE  /\ CleanMeansJudged' /\ Counts' /\ Drift'
           /\ Exists' = Exists
           /\ cur' # Idle => /\ pc' \in Sweeps /\ cur'.idea \in Exists
                             /\ cur'.leaves = LeavesOf(cur.idea)'
<1> USE DEF UpkeepInv, Apart, fields, trust
<1>1. Exists' = Exists /\ \A i : LeavesOf(i)' = LeavesOf(i)
    BY DEF Exists, LeavesOf
<1>2. CleanMeansJudged' /\ Counts'
    BY <1>1 DEF CleanMeansJudged, Counts
<1>3. Drift'
    BY <1>1 DEF Drift, DriftNeedsRace
<1>4. QED
    BY <1>1, <1>2, <1>3 DEF SlotInv

(* The steps between a pass and its sources.                               *)
Between ==
    \/ Begin \/ RunTrust \/ TakeGroup \/ Landed \/ Cited \/ SplitDone
    \/ DeriveDone \/ EndLoop \/ LastDone \/ JudgeDone \/ Fail \/ Abort

LEMMA BetweenInv ==
    ASSUME UpkeepInv, Between
    PROVE  UpkeepInv'
<1> USE DEF Between, UpkeepInv, Begin, RunTrust, TakeGroup, Landed, Cited, SplitDone, DeriveDone,
            EndLoop, LastDone, JudgeDone, Fail, Abort, SweepDone
<1>1. Apart /\ UNCHANGED <<edges, tool, edits>>
    BY DEF store, Apart
<1>2. cur' = Idle \/ (cur' = cur /\ pc' = pc)
    BY DEF SlotInv, Sweeps
<1>3. /\ CleanMeansJudged' /\ Counts' /\ Drift' /\ Exists' = Exists
      /\ cur' # Idle => /\ pc' \in Sweeps /\ cur'.idea \in Exists
                        /\ cur'.leaves = LeavesOf(cur.idea)'
    BY <1>1, <1>2, ApartKeeps
<1>4. todo' \subseteq Exists
    <2>1. OverCeiling \subseteq Exists /\ RederiveDue \subseteq Exists
        BY DEF OverCeiling, RederiveDue
    <2>2. TrustDue \subseteq Exists
        BY ExistIdeas DEF TrustDue
    <2>3. todo \subseteq Exists
        BY DEF SlotInv
    <2>4. QED
        BY <2>1, <2>2, <2>3
<1>5. \A l \in Leaves : plan'[l] # None => home[l] = None
    <2>1. CASE TakeGroup
        BY <2>1
    <2>2. CASE plan' = NoPlan
        BY <2>2 DEF NoPlan
    <2>3. CASE plan' = plan
        BY <2>3 DEF SlotInv
    <2>4. QED
        BY <2>1, <2>2, <2>3
<1>6. plan' \in [Leaves -> Ideas \cup {None}]
    <2>1. CASE TakeGroup
        <3>1. PICK given \in SUBSET Leaves : \E f \in [given -> Ideas] :
                plan' = [l \in Leaves |-> IF l \in given THEN f[l] ELSE None]
            BY <2>1
        <3>2. QED
            BY <3>1
    <2>2. CASE plan' = NoPlan
        BY <2>2 DEF NoPlan
    <2>3. CASE plan' = plan
        BY <2>3 DEF TypeOK
    <2>4. QED
        BY <2>1, <2>2, <2>3
<1>7. pc' \in Steps /\ cursor' \in 0..LastSource /\ (pc' \in OfSource => cursor' < LastSource)
    BY UpkeepAssumption DEF SlotInv, OfSource, Steps, TypeOK
<1>8. pairs' \subseteq Pair
    BY PairsType DEF TypeOK
<1>9. aborts' \in 0..MaxAborts
    BY UpkeepAssumption DEF TypeOK
<1>10. TypeOK'
    <2>1. todo' \subseteq Ideas
        BY <1>4, ExistIdeas
    <2>2. cur' \in [idea : Ideas \cup {None}, text : Texts \cup {None}, leaves : SUBSET Leaves]
        BY <1>2 DEF TypeOK, Idle
    <2>3. QED
        BY <1>1, <1>6, <1>7, <1>8, <1>9, <2>1, <2>2 DEF TypeOK, Apart, fields, trust
<1>11. SlotInv'
    BY <1>1, <1>3, <1>4, <1>5, <1>7 DEF SlotInv, Apart
<1>12. EdgesBothWays'
    BY <1>1 DEF EdgesBothWays
<1>13. QED
    BY <1>3, <1>10, <1>11, <1>12

(* Co-citation, by the pass and by the backfill.                           *)
LEMMA CiteInv ==
    ASSUME UpkeepInv, Cite \/ (\E s \in Sources : BackfillRead(s)) \/ BackfillWrite \/ BackfillLeave
    PROVE  UpkeepInv'
<1> USE DEF UpkeepInv
<1>1. Apart /\ UNCHANGED <<pc, cursor, plan, todo, cur, edits, aborts>>
    BY DEF Cite, BackfillRead, BackfillWrite, BackfillLeave, store, slot, Apart
<1>2. /\ CleanMeansJudged' /\ Counts' /\ Drift' /\ Exists' = Exists
      /\ (cur # Idle => /\ pc \in Sweeps /\ cur.idea \in Exists
                        /\ cur.leaves = LeavesOf(cur.idea))'
    BY <1>1, ApartKeeps
<1>3. /\ edges' \in [Ideas \X Ideas -> Edge] /\ EdgesBothWays'
      /\ pairs' \subseteq Pair
      /\ tool' \in [source : 0..LastSource, pairs : SUBSET Pair]
      /\ tool'.source = 0 => tool'.pairs = {}
    <2>1. CASE Cite
        <3>1. PICK p \in pairs : WriteCocitePair(cursor + 1, p) /\ pairs' = pairs \ {p}
            BY <2>1 DEF Cite
        <3>2. cursor + 1 \in Sources /\ p \in Pair
            BY <2>1, <3>1, UpkeepAssumption DEF Cite, SlotInv, OfSource, TypeOK, Sources
        <3>3. tool' = tool
            BY <2>1 DEF Cite
        <3>4. edges' \in [Ideas \X Ideas -> Edge] /\ EdgesBothWays'
            BY <3>1, <3>2, PairWritten
        <3>5. QED
            BY <3>1, <3>3, <3>4 DEF TypeOK, SlotInv
    <2>2. ASSUME NEW s \in Sources, BackfillRead(s)
          PROVE  /\ edges' \in [Ideas \X Ideas -> Edge] /\ EdgesBothWays'
                 /\ pairs' \subseteq Pair
                 /\ tool' \in [source : 0..LastSource, pairs : SUBSET Pair]
                 /\ tool'.source = 0 => tool'.pairs = {}
        <3>1. edges' = edges /\ pairs' = pairs /\ tool' = [source |-> s, pairs |-> PairsOf(s)]
            BY <2>2 DEF BackfillRead, store, slot
        <3>2. s \in 1..LastSource /\ PairsOf(s) \subseteq Pair
            BY PairsType DEF Sources
        <3>3. QED
            BY <3>1, <3>2, UpkeepAssumption DEF TypeOK, EdgesBothWays
    <2>3. CASE BackfillWrite
        <3>1. PICK p \in tool.pairs : /\ WriteCocitePair(tool.source, p)
                                      /\ tool' = [tool EXCEPT !.pairs = @ \ {p}]
            BY <2>3 DEF BackfillWrite
        <3>2. /\ tool \in [source : 0..LastSource, pairs : SUBSET Pair] /\ tool.source # 0
              /\ pairs' = pairs
            BY <2>3, <3>1 DEF BackfillWrite, slot, TypeOK, SlotInv
        <3>3. tool.source \in Sources /\ p \in Pair
            BY <3>1, <3>2, UpkeepAssumption DEF Sources
        <3>4. edges' \in [Ideas \X Ideas -> Edge] /\ EdgesBothWays'
            BY <3>1, <3>3, PairWritten
        <3>5. QED
            BY <3>1, <3>2, <3>4 DEF TypeOK
    <2>4. CASE BackfillLeave
        <3>1. edges' = edges /\ pairs' = pairs /\ tool' = AtRest
            BY <2>4 DEF BackfillLeave, store, slot
        <3>2. QED
            BY <3>1, UpkeepAssumption DEF TypeOK, EdgesBothWays, AtRest
    <2>5. QED
        BY <2>1, <2>2, <2>3, <2>4
<1>4. TypeOK'
    BY <1>1, <1>3 DEF TypeOK, Apart, fields, trust
<1>5. SlotInv'
    BY <1>1, <1>2, <1>3 DEF SlotInv, Apart
<1>6. QED
    BY <1>2, <1>3, <1>4, <1>5

(* A sweep reads the idea it takes.                                        *)
LEMMA TakeInv ==
    ASSUME UpkeepInv, Take
    PROVE  UpkeepInv'
<1> USE DEF UpkeepInv
<1>1. PICK i \in todo : cur' = Read(i) /\ todo' = todo \ {i}
    BY DEF Take
<1>2. Apart /\ UNCHANGED <<pc, cursor, plan, pairs, edges, tool, edits, aborts>> /\ pc \in Sweeps
    BY DEF Take, store, Apart, Sweeps
<1>3. i \in Exists /\ i \in Ideas
    BY <1>1, ExistIdeas DEF SlotInv
<1>4. Exists' = Exists /\ \A j : LeavesOf(j)' = LeavesOf(j)
    BY <1>2 DEF Exists, LeavesOf, Apart
<1>5. cur'.idea = i /\ cur'.text = text[i] /\ cur'.leaves = LeavesOf(i)
    BY <1>1 DEF Read
<1>6. TypeOK'
    <2>1. Read(i) \in [idea : Ideas \cup {None}, text : Texts \cup {None}, leaves : SUBSET Leaves]
        BY <1>3 DEF Read, TypeOK, LeavesOf
    <2>2. QED
        BY <1>1, <1>2, <2>1 DEF TypeOK, Apart, fields, trust
<1>7. SlotInv'
    BY <1>1, <1>2, <1>3, <1>4, <1>5 DEF SlotInv, Apart
<1>8. CleanMeansJudged' /\ Counts'
    BY <1>2, <1>4 DEF CleanMeansJudged, Counts, Apart, fields, trust
<1>9. Drift'
    BY <1>2, <1>3, <1>4, <1>5 DEF Drift, DriftNeedsRace, Apart, fields
<1>10. EdgesBothWays'
    BY <1>2 DEF EdgesBothWays
<1>11. QED
    BY <1>6, <1>7, <1>8, <1>9, <1>10

(* Leaves land on an idea: it has more of them, and is marked.             *)
LEMMA LandInv ==
    ASSUME UpkeepInv, NEW i \in Ideas, Land(i)
    PROVE  UpkeepInv'
<1> USE DEF UpkeepInv
<1> DEFINE batch == {l \in Leaves : plan[l] = i}
<1>1. /\ home' = [l \in Leaves |-> IF l \in batch THEN i ELSE home[l]]
      /\ plan' = [l \in Leaves |-> IF l \in batch THEN None ELSE plan[l]]
      /\ dirty' = [dirty EXCEPT ![i] = TRUE]
      /\ pc = "land"
      /\ UNCHANGED <<counted, score, edges, pc, cursor, pairs, todo, cur, tool, raced, edits, aborts>>
    BY DEF Land
<1>2. cur = Idle
    BY <1>1 DEF SlotInv, Sweeps
<1>3. /\ home \in [Leaves -> Ideas \cup {None}] /\ plan \in [Leaves -> Ideas \cup {None}]
      /\ dirty \in [Ideas -> BOOLEAN] /\ born \in Seq(Ideas)
      /\ text \in [Ideas -> Texts \cup {None}] /\ vector \in [Ideas -> Texts \cup {None}]
      /\ counted \in [Ideas -> Nat] /\ None \notin Ideas
    BY UpkeepAssumption DEF TypeOK
<1>4. /\ born' \in Seq(Ideas)
      /\ text' \in [Ideas -> Texts \cup {None}] /\ vector' \in [Ideas -> Texts \cup {None}]
      /\ Exists' = Exists \cup {i}
      /\ \A j \in Ideas : j # i => text'[j] = text[j] /\ vector'[j] = vector[j]
      /\ vector'[i] = text'[i] \/ (vector'[i] = vector[i] /\ text'[i] = text[i] /\ i \in Exists)
    <2>1. CASE i \in Exists
        BY <1>3, <2>1 DEF Land, Exists
    <2>2. CASE i \notin Exists
        <3>1. PICK t \in Texts : text' = [text EXCEPT ![i] = t] /\ vector' = [vector EXCEPT ![i] = t]
            BY <2>2 DEF Land
        <3>2. born' = Append(born, i)
            BY <2>2 DEF Land
        <3>3. Exists' = Exists \cup {i} /\ born' \in Seq(Ideas)
            <4>1. /\ born' \in Seq(Ideas) /\ Len(born') = Len(born) + 1 /\ Len(born) \in Nat
                  /\ \A n \in 1..Len(born) : born'[n] = born[n]
                  /\ born'[Len(born) + 1] = i
                BY <1>3, <3>2, AppendProperties
            <4>2. \A n : n \in 1..Len(born') <=> n \in 1..Len(born) \/ n = Len(born) + 1
                BY <4>1
            <4>3. QED
                BY <4>1, <4>2 DEF Exists
        <3>4. /\ text' \in [Ideas -> Texts \cup {None}] /\ vector' \in [Ideas -> Texts \cup {None}]
              /\ \A j \in Ideas : j # i => text'[j] = text[j] /\ vector'[j] = vector[j]
              /\ vector'[i] = text'[i]
            BY <1>3, <3>1
        <3>5. QED
            BY <3>3, <3>4
    <2>3. QED
        BY <2>1, <2>2
<1>5. \A l \in batch : home[l] = None
    BY <1>3 DEF SlotInv
<1>6. LeavesOf(i) \subseteq LeavesOf(i)' /\ \A j \in Ideas : j # i => LeavesOf(j)' = LeavesOf(j)
    BY <1>1, <1>3, <1>5 DEF LeavesOf
<1>7. TypeOK'
    <2>1. /\ home' \in [Leaves -> Ideas \cup {None}] /\ plan' \in [Leaves -> Ideas \cup {None}]
          /\ dirty' \in [Ideas -> BOOLEAN]
        BY <1>1, <1>3
    <2>2. QED
        BY <1>1, <1>4, <2>1 DEF TypeOK
<1>8. SlotInv'
    BY <1>1, <1>2, <1>3, <1>4 DEF SlotInv
<1>9. CleanMeansJudged'
    BY <1>1, <1>3, <1>4, <1>6, ExistIdeas DEF CleanMeansJudged
<1>10. Counts'
    <2> SUFFICES ASSUME NEW j \in Ideas PROVE counted[j] <= Cardinality(LeavesOf(j)')
        BY <1>1 DEF Counts
    <2>1. /\ LeavesOf(j) \in SUBSET LeavesOf(j)' /\ LeavesOf(j)' \in SUBSET Leaves
          /\ LeavesOf(j) \in SUBSET Leaves
        BY <1>6 DEF LeavesOf
    <2>2. /\ Cardinality(LeavesOf(j)) <= Cardinality(LeavesOf(j)')
          /\ Cardinality(LeavesOf(j)) \in Nat /\ Cardinality(LeavesOf(j)') \in Nat
        <3> DEFINE a == LeavesOf(j)
                   b == LeavesOf(j)'
        <3>1. a \in SUBSET b /\ a \in SUBSET Leaves /\ b \in SUBSET Leaves
            BY <2>1
        <3> HIDE DEF a, b
        <3>2. Cardinality(a) <= Cardinality(b) /\ Cardinality(a) \in Nat /\ Cardinality(b) \in Nat
            BY <3>1, MoreLeaves, LeafCount
        <3>3. QED
            BY <3>2 DEF a, b
    <2>3. counted[j] <= Cardinality(LeavesOf(j)) /\ counted[j] \in Nat
        BY <1>3 DEF Counts
    <2> DEFINE m == Cardinality(LeavesOf(j))
               n == Cardinality(LeavesOf(j)')
    <2>4. m <= n /\ m \in Nat /\ n \in Nat /\ counted[j] <= m
        BY <2>2, <2>3
    <2> HIDE DEF m, n
    <2>5. counted[j] <= n
        BY <2>3, <2>4
    <2>6. QED
        BY <2>5 DEF n
<1>11. Drift'
    BY <1>1, <1>2, <1>4, ExistIdeas DEF Drift, DriftNeedsRace
<1>12. EdgesBothWays'
    BY <1>1 DEF EdgesBothWays
<1>13. QED
    BY <1>7, <1>8, <1>9, <1>10, <1>11, <1>12

-----------------------------------------------------------------------------
(* What a sweep that writes can rely on.                                   *)
LEMMA Taken ==
    ASSUME UpkeepInv, cur # Idle
    PROVE  /\ cur.idea \in Exists /\ cur.idea \in Ideas /\ cur.leaves = LeavesOf(cur.idea)
           /\ cur.leaves \in SUBSET Leaves
BY ExistIdeas DEF UpkeepInv, SlotInv, LeavesOf

LEMMA RederiveInv ==
    ASSUME UpkeepInv, Rederive
    PROVE  UpkeepInv'
<1> USE DEF UpkeepInv
<1> DEFINE i == cur.idea
<1>1. /\ pc = "derive" /\ cur # Idle /\ cur' = Idle
      /\ counted' = [counted EXCEPT ![i] = Cardinality(cur.leaves)]
      /\ UNCHANGED <<home, born, trust, edges, pc, cursor, plan, pairs, todo, tool, raced, edits, aborts>>
    BY DEF Rederive
<1>2. PICK t \in Texts : Derived(t)
    BY DEF Rederive
<1>3. i \in Exists /\ i \in Ideas /\ cur.leaves = LeavesOf(i) /\ cur.leaves \in SUBSET Leaves
    BY <1>1, Taken
<1>4. Exists' = Exists /\ \A j : LeavesOf(j)' = LeavesOf(j)
    BY <1>1 DEF Exists, LeavesOf
<1>5. TypeOK'
    <2>1. counted' \in [Ideas -> Nat]
        BY <1>1, <1>3, LeafCount DEF TypeOK
    <2>2. text' \in [Ideas -> Texts \cup {None}] /\ vector' \in [Ideas -> Texts \cup {None}]
        BY <1>2, <1>3 DEF Derived, TypeOK
    <2>3. cur' \in [idea : Ideas \cup {None}, text : Texts \cup {None}, leaves : SUBSET Leaves]
        BY <1>1 DEF Idle
    <2>4. QED
        BY <1>1, <2>1, <2>2, <2>3 DEF TypeOK, trust
<1>6. SlotInv'
    BY <1>1, <1>4 DEF SlotInv
<1>7. CleanMeansJudged'
    BY <1>1, <1>4 DEF CleanMeansJudged, trust
<1>8. Counts'
    <2>1. counted \in [Ideas -> Nat] /\ Cardinality(LeavesOf(i)) \in Nat
        BY <1>3, LeafCount DEF TypeOK
    <2>2. \A j \in Ideas : counted'[j] = IF j = i THEN Cardinality(LeavesOf(i)) ELSE counted[j]
        BY <1>1, <1>3, <2>1
    <2>3. \A j \in Ideas : counted'[j] <= Cardinality(LeavesOf(j))
        BY <2>1, <2>2 DEF Counts
    <2>4. QED
        BY <1>4, <2>3 DEF Counts
<1>9. Drift'
    <2>1. text \in [Ideas -> Texts \cup {None}] /\ vector \in [Ideas -> Texts \cup {None}]
        BY DEF TypeOK
    <2>2. /\ text'[i] = t /\ vector'[i] = IF t = cur.text THEN vector[i] ELSE t
          /\ \A j \in Ideas : j # i => text'[j] = text[j] /\ vector'[j] = vector[j]
        BY <1>2, <1>3, <2>1 DEF Derived
    <2>3. i \in raced \/ (cur.text = text[i] /\ vector[i] = text[i])
        BY <1>1, <1>3 DEF Drift, DriftNeedsRace
    <2>4. \A j \in Exists : vector'[j] = text'[j] \/ j \in raced
        BY <2>2, <2>3, ExistIdeas DEF Drift, DriftNeedsRace
    <2>5. QED
        BY <1>1, <1>4, <2>4 DEF Drift, DriftNeedsRace
<1>10. EdgesBothWays'
    BY <1>1 DEF EdgesBothWays
<1>11. QED
    BY <1>5, <1>6, <1>7, <1>8, <1>9, <1>10

LEMMA JudgeInv ==
    ASSUME UpkeepInv, Judge
    PROVE  UpkeepInv'
<1> USE DEF UpkeepInv
<1> DEFINE i == cur.idea
<1>1. /\ cur # Idle /\ cur' = Idle
      /\ score' = [score EXCEPT ![i] = cur.leaves] /\ dirty' = [dirty EXCEPT ![i] = FALSE]
      /\ UNCHANGED <<home, born, text, vector, counted, edges, pc, cursor, plan, pairs, todo, tool, raced, edits, aborts>>
    BY DEF Judge, SetTrust, fields
<1>2. i \in Exists /\ i \in Ideas /\ cur.leaves = LeavesOf(i) /\ cur.leaves \in SUBSET Leaves
    BY <1>1, Taken
<1>3. Exists' = Exists /\ \A j : LeavesOf(j)' = LeavesOf(j)
    BY <1>1 DEF Exists, LeavesOf
<1>4. score \in [Ideas -> SUBSET Leaves] /\ dirty \in [Ideas -> BOOLEAN]
    BY DEF TypeOK
<1>5. TypeOK'
    <2>1. score' \in [Ideas -> SUBSET Leaves] /\ dirty' \in [Ideas -> BOOLEAN]
        BY <1>1, <1>2, <1>4
    <2>2. cur' \in [idea : Ideas \cup {None}, text : Texts \cup {None}, leaves : SUBSET Leaves]
        BY <1>1 DEF Idle
    <2>3. QED
        BY <1>1, <2>1, <2>2 DEF TypeOK
<1>6. SlotInv'
    BY <1>1, <1>3 DEF SlotInv
<1>7. CleanMeansJudged'
    BY <1>1, <1>2, <1>3, <1>4, ExistIdeas DEF CleanMeansJudged
<1>8. Counts' /\ Drift'
    BY <1>1, <1>3 DEF Counts, Drift, DriftNeedsRace
<1>9. EdgesBothWays'
    BY <1>1 DEF EdgesBothWays
<1>10. QED
    BY <1>5, <1>6, <1>7, <1>8, <1>9

(* An edit takes its vector along, and is remembered when it lands under a *)
(* derivation.                                                             *)
LEMMA PatchInv ==
    ASSUME UpkeepInv, NEW i \in Ideas, NEW t \in Texts, PatchIdea(i, t)
    PROVE  UpkeepInv'
<1> USE DEF UpkeepInv
<1>1. /\ text' = [text EXCEPT ![i] = t] /\ vector' = [vector EXCEPT ![i] = t]
      /\ raced' = IF i = cur.idea /\ pc # "judge" THEN raced \cup {i} ELSE raced
      /\ edits < MaxEdits /\ edits' = edits + 1
      /\ UNCHANGED <<home, born, counted, score, dirty, edges, pc, cursor, plan, pairs, todo, cur, tool, aborts>>
    BY DEF PatchIdea, trust, slot
<1>2. Exists' = Exists /\ \A j : LeavesOf(j)' = LeavesOf(j)
    BY <1>1 DEF Exists, LeavesOf
<1>3. text \in [Ideas -> Texts \cup {None}] /\ vector \in [Ideas -> Texts \cup {None}]
    BY DEF TypeOK
<1>4. TypeOK'
    <2>1. text' \in [Ideas -> Texts \cup {None}] /\ vector' \in [Ideas -> Texts \cup {None}]
        BY <1>1, <1>3
    <2>2. raced' \subseteq Ideas /\ edits' \in 0..MaxEdits
        BY <1>1, UpkeepAssumption DEF TypeOK
    <2>3. QED
        BY <1>1, <2>1, <2>2 DEF TypeOK
<1>5. SlotInv' /\ CleanMeansJudged' /\ Counts'
    BY <1>1, <1>2 DEF SlotInv, CleanMeansJudged, Counts
<1>6. Drift'
    <2>1. DriftNeedsRace'
        BY <1>1, <1>2, <1>3, ExistIdeas DEF Drift, DriftNeedsRace
    <2>2. ASSUME cur # Idle, pc # "judge" PROVE cur.text = text'[cur.idea] \/ cur.idea \in raced'
        BY <1>1, <1>3, <2>2, Taken DEF Drift
    <2>3. QED
        BY <1>1, <2>1, <2>2 DEF Drift
<1>7. EdgesBothWays'
    BY <1>1 DEF EdgesBothWays
<1>8. QED
    BY <1>4, <1>5, <1>6, <1>7

-----------------------------------------------------------------------------
(* A listing of a finite set names each of its members.                    *)
LEMMA Listing ==
    ASSUME NEW S, IsFiniteSet(S), NEW order \in SetToSeqs(S)
    PROVE  order \in Seq(S) /\ S = {order[n] : n \in 1..Len(order)}
<1> DEFINE D == 1..Cardinality(S)
<1>1. Cardinality(S) \in Nat
    BY FS_CardinalityType
<1>2. order \in [D -> S] /\ \A m, n \in D : m # n => order[m] # order[n]
    BY DEF SetToSeqs
<1>3. order \in Injection(D, S)
    BY <1>2 DEF Injection, IsInjective
<1>4. Cardinality(D) = Cardinality(S)
    BY <1>1, FS_Interval
<1>5. order \in Surjection(D, S)
    BY <1>3, <1>4, FS_Injection
<1>6. order \in Seq(S) /\ Len(order) = Cardinality(S)
    BY <1>1, <1>2
<1>7. QED
    BY <1>5, <1>6 DEF Surjection

(* The parts of a split are disjoint, and make up what was split.          *)
LEMMA PartsOf ==
    ASSUME NEW S \in SUBSET Leaves, NEW parts \in Clusters[S]
    PROVE  /\ parts \in SUBSET SUBSET S /\ UNION parts = S
           /\ \A P, Q \in parts : P # Q => P \cap Q = {}
BY DEF Clusters

LEMMA SplitInv ==
    ASSUME UpkeepInv, Split
    PROVE  UpkeepInv'
<1> USE DEF UpkeepInv
<1>0. PICK i : i = cur.idea
    OBVIOUS
<1>1. /\ pc \in Sweeps /\ cur # Idle /\ cur' = Idle /\ pc # "judge"
      /\ UNCHANGED <<score, edges, pc, cursor, plan, pairs, todo, tool, raced, edits, aborts>>
    BY DEF Split, Sweeps
<1>2. i \in Exists /\ i \in Ideas /\ cur.leaves = LeavesOf(i) /\ cur.leaves \in SUBSET Leaves
    BY <1>0, <1>1, Taken
<1>3. PICK parts \in Clusters[cur.leaves] : \E keep \in parts : \E f \in [parts \ {keep} -> New] :
        /\ \A P, Q \in parts \ {keep} : f[P] = f[Q] => P = Q
        /\ SplitInto(keep, f)
    BY DEF Split
<1>4. PICK keep \in parts : \E f \in [parts \ {keep} -> New] :
        /\ \A P, Q \in parts \ {keep} : f[P] = f[Q] => P = Q
        /\ SplitInto(keep, f)
    BY <1>3
<1> DEFINE away == parts \ {keep}
<1>5. PICK f \in [away -> New] : /\ \A P, Q \in away : f[P] = f[Q] => P = Q
                                 /\ SplitInto(keep, f)
    BY <1>4
<1>6. /\ parts \in SUBSET SUBSET cur.leaves /\ UNION parts = cur.leaves
      /\ \A P, Q \in parts : P # Q => P \cap Q = {}
    BY <1>2, PartsOf
<1> DEFINE kids == {f[P] : P \in DOMAIN f}
           part(j) == CHOOSE P \in DOMAIN f : f[P] = j
           place(l) == CHOOSE P \in DOMAIN f : l \in P
<1>7. DOMAIN f = away
    OBVIOUS
<1>8. kids \subseteq Ideas /\ kids \cap Exists = {} /\ i \notin kids
    BY <1>2, <1>5 DEF New
(* where the leaves go                                                     *)
<1>9. /\ home' = [l \in Leaves |-> IF l \in cur.leaves \ keep THEN f[place(l)] ELSE home[l]]
      /\ \E order \in SetToSeqs(kids) : born' = born \o order
      /\ counted' = [j \in Ideas |->
                     IF j = cur.idea THEN Cardinality(keep)
                     ELSE IF j \in kids THEN Cardinality(part(j)) ELSE counted[j]]
      /\ dirty' = [j \in Ideas |-> j = cur.idea \/ j \in kids \/ dirty[j]]
    BY <1>5 DEF SplitInto, CountOfKept
<1>10. PICK t \in Texts, g \in [kids -> Texts] :
         /\ text' = [j \in Ideas |-> IF j = cur.idea THEN t ELSE IF j \in kids THEN g[j] ELSE text[j]]
         /\ vector' = [j \in Ideas |->
                       IF j \in kids THEN g[j] ELSE IF j = cur.idea /\ t # cur.text THEN t ELSE vector[j]]
    BY <1>5 DEF SplitInto
<1>11. \A l \in cur.leaves \ keep : place(l) \in away /\ l \in place(l)
    <2> SUFFICES ASSUME NEW l \in cur.leaves \ keep PROVE \E P \in away : l \in P
        OBVIOUS
    <2>1. QED
        BY <1>6
<1>12. \A j \in kids : part(j) \in away /\ f[part(j)] = j
    OBVIOUS
<1> HIDE DEF place, part
<1>13. ASSUME NEW P \in away PROVE P \subseteq cur.leaves \ keep /\ \A l \in P : place(l) = P
    <2>1. P \subseteq cur.leaves \ keep
        BY <1>4, <1>6
    <2>2. QED
        BY <1>6, <1>11, <2>1
<1>14. /\ home \in [Leaves -> Ideas \cup {None}] /\ None \notin Ideas
       /\ dirty \in [Ideas -> BOOLEAN] /\ counted \in [Ideas -> Nat] /\ born \in Seq(Ideas)
       /\ text \in [Ideas -> Texts \cup {None}] /\ vector \in [Ideas -> Texts \cup {None}]
    BY UpkeepAssumption DEF TypeOK
<1>15. \A l \in cur.leaves \ keep : f[place(l)] \in kids
    BY <1>11
(* the ideas there are afterwards                                          *)
<1>16. born' \in Seq(Ideas) /\ Exists' = Exists \cup kids
    <2>1. IsFiniteSet(away)
        <3>1. IsFiniteSet(SUBSET cur.leaves)
            BY <1>2, LeafCount, FS_SUBSET
        <3>2. away \in SUBSET SUBSET cur.leaves
            BY <1>6
        <3>3. QED
            BY <3>1, <3>2, FS_Subset
    <2>2. f \in Surjection(away, kids)
        BY <1>5 DEF Surjection
    <2>3. PICK order \in SetToSeqs(kids) : born' = born \o order
        BY <1>0, <1>9
    <2> HIDE DEF kids, away
    <2>4. IsFiniteSet(kids)
        BY <2>1, <2>2, FS_Surjection
    <2>5. order \in Seq(kids) /\ kids = {order[n] : n \in 1..Len(order)}
        <3>1. order \in SetToSeqs(kids)
            BY <2>3
        <3>2. QED
            BY ONLY <2>4, <3>1, Listing
    <2>6. order \in Seq(Ideas)
        BY <1>8, <2>5
    <2>7. /\ born' \in Seq(Ideas) /\ Len(born') = Len(born) + Len(order)
          /\ \A n \in 1..Len(born) : born'[n] = born[n]
          /\ \A n \in 1..Len(order) : born'[Len(born) + n] = order[n]
          /\ Len(born) \in Nat /\ Len(order) \in Nat
        BY <1>14, <2>3, <2>6, ConcatProperties
    <2>8. \A n \in 1..Len(born') : n \in 1..Len(born) \/ n - Len(born) \in 1..Len(order)
        BY <2>7
    <2>9. Exists' \subseteq Exists \cup kids
        <3> SUFFICES ASSUME NEW n \in 1..Len(born') PROVE born'[n] \in Exists \cup kids
            BY DEF Exists
        <3>1. CASE n \in 1..Len(born)
            BY <2>7, <3>1 DEF Exists
        <3>2. CASE n - Len(born) \in 1..Len(order)
            <4>1. born'[Len(born) + (n - Len(born))] = order[n - Len(born)]
                BY <2>7, <3>2
            <4>2. Len(born) + (n - Len(born)) = n
                BY <2>7
            <4>3. QED
                BY <2>5, <3>2, <4>1, <4>2
        <3>3. QED
            BY <2>8, <3>1, <3>2
    <2>10. Exists \cup kids \subseteq Exists'
        <3>1. ASSUME NEW n \in 1..Len(born) PROVE born[n] \in Exists'
            <4>1. n \in 1..Len(born') /\ born'[n] = born[n]
                BY <2>7
            <4>2. QED
                BY <4>1 DEF Exists
        <3>2. ASSUME NEW n \in 1..Len(order) PROVE order[n] \in Exists'
            <4>1. Len(born) + n \in 1..Len(born') /\ born'[Len(born) + n] = order[n]
                BY <2>7
            <4>2. QED
                BY <4>1 DEF Exists
        <3>3. QED
            BY <2>5, <3>1, <3>2 DEF Exists
    <2>11. QED
        BY <2>7, <2>9, <2>10
<1>17. \A j \in Ideas : j # i /\ j \notin kids => LeavesOf(j)' = LeavesOf(j)
    <2> SUFFICES ASSUME NEW j \in Ideas, j # i, j \notin kids, NEW l \in Leaves
                 PROVE  home'[l] = j <=> home[l] = j
        BY DEF LeavesOf
    <2>1. CASE l \in cur.leaves \ keep
        BY <1>0, <1>2, <1>9, <1>15, <2>1 DEF LeavesOf
    <2>2. CASE l \notin cur.leaves \ keep
        BY <1>0, <1>9, <2>2
    <2>3. QED
        BY <2>1, <2>2
<1>18. keep \subseteq LeavesOf(i)'
    <2> SUFFICES ASSUME NEW l \in keep PROVE l \in LeavesOf(i)'
        OBVIOUS
    <2>1. l \in Leaves /\ home[l] = i /\ l \notin cur.leaves \ keep
        BY <1>2, <1>4, <1>6 DEF LeavesOf
    <2>2. home'[l] = home[l]
        <3>1. home' = [m \in Leaves |-> IF m \in cur.leaves \ keep THEN f[place(m)] ELSE home[m]]
            BY <1>0, <1>9
        <3> HIDE DEF kids, away
        <3>2. QED
            BY <2>1, <3>1
    <2>3. QED
        BY <2>1, <2>2 DEF LeavesOf
<1>19. \A j \in kids : part(j) \subseteq LeavesOf(j)'
    <2> SUFFICES ASSUME NEW j \in kids, NEW l \in part(j) PROVE l \in LeavesOf(j)'
        OBVIOUS
    <2>1. part(j) \in away /\ f[part(j)] = j
        BY <1>12
    <2>2. l \in cur.leaves \ keep /\ place(l) = part(j)
        BY <1>13, <2>1
    <2>3. QED
        BY <1>0, <1>2, <1>9, <2>1, <2>2 DEF LeavesOf
<1>20. TypeOK'
    <2>1. home' \in [Leaves -> Ideas \cup {None}]
        BY <1>0, <1>8, <1>9, <1>14, <1>15
    <2>2. counted' \in [Ideas -> Nat]
        <3>1. Cardinality(keep) \in Nat
            BY <1>2, <1>4, <1>6, LeafCount
        <3>2. \A j \in kids : Cardinality(part(j)) \in Nat
            BY <1>2, <1>6, <1>12, LeafCount
        <3>3. QED
            BY <1>0, <1>9, <1>14, <3>1, <3>2
    <2>3. dirty' \in [Ideas -> BOOLEAN]
        BY <1>0, <1>9
    <2>4. text' \in [Ideas -> Texts \cup {None}] /\ vector' \in [Ideas -> Texts \cup {None}]
        BY <1>0, <1>10, <1>14
    <2>5. cur' \in [idea : Ideas \cup {None}, text : Texts \cup {None}, leaves : SUBSET Leaves]
        BY <1>1 DEF Idle
    <2>6. QED
        BY <1>1, <1>16, <2>1, <2>2, <2>3, <2>4, <2>5 DEF TypeOK
<1>21. SlotInv'
    <2>1. \A l \in Leaves : plan'[l] # None => home'[l] = None
        <3> SUFFICES ASSUME NEW l \in Leaves, plan[l] # None PROVE home'[l] = None
            BY <1>1
        <3>1. home[l] = None
            BY DEF SlotInv
        <3>2. l \notin cur.leaves
            BY <1>2, <1>14, <3>1 DEF LeavesOf
        <3>3. QED
            BY <1>0, <1>9, <3>1, <3>2
    <2>2. QED
        BY <1>1, <1>16, <2>1 DEF SlotInv
<1>22. CleanMeansJudged'
    <2> SUFFICES ASSUME NEW j \in Exists' PROVE dirty'[j] \/ score'[j] = LeavesOf(j)'
        BY DEF CleanMeansJudged
    <2>1. j \in Ideas
        BY <1>8, <1>16, ExistIdeas
    <2>2. CASE j = i \/ j \in kids
        BY <1>0, <1>9, <2>1, <2>2
    <2>3. CASE j # i /\ j \notin kids
        <3>1. j \in Exists /\ LeavesOf(j)' = LeavesOf(j) /\ score' = score
            BY <1>1, <1>16, <1>17, <2>1, <2>3
        <3>2. dirty[j] => dirty'[j]
            BY <1>0, <1>9, <2>1
        <3>3. QED
            BY <3>1, <3>2 DEF CleanMeansJudged
    <2>4. QED
        BY <2>2, <2>3
<1>23. Counts'
    <2> SUFFICES ASSUME NEW j \in Ideas PROVE counted'[j] <= Cardinality(LeavesOf(j)')
        BY DEF Counts
    <2> DEFINE mine == LeavesOf(j)'
    <2>1. mine \in SUBSET Leaves
        BY DEF LeavesOf
    <2>2. CASE j = i
        <3>1. keep \in SUBSET mine
            BY <1>18, <2>2
        <3> HIDE DEF mine
        <3>2. counted'[j] = Cardinality(keep)
            <4> DEFINE n == Cardinality(keep)
            <4>1. counted' = [h \in Ideas |->
                              IF h = cur.idea THEN n
                              ELSE IF h \in kids THEN Cardinality(part(h)) ELSE counted[h]]
                BY <1>0, <1>9
            <4> HIDE DEF kids, n
            <4>2. QED
                BY <1>0, <2>2, <4>1 DEF n
        <3>3. QED
            BY <2>1, <3>1, <3>2, MoreLeaves DEF mine
    <2>3. CASE j # i /\ j \in kids
        <3>1. part(j) \in SUBSET mine /\ counted'[j] = Cardinality(part(j))
            BY <1>0, <1>9, <1>19, <2>3
        <3> HIDE DEF mine
        <3>2. QED
            BY <2>1, <3>1, MoreLeaves DEF mine
    <2>4. CASE j # i /\ j \notin kids
        BY <1>0, <1>9, <1>17, <2>4 DEF Counts
    <2>5. QED
        BY <2>2, <2>3, <2>4
<1>24. Drift'
    <2>1. i \in raced \/ (cur.text = text[i] /\ vector[i] = text[i])
        BY <1>0, <1>1, <1>2 DEF Drift, DriftNeedsRace
    <2>2. \A j \in kids : vector'[j] = text'[j]
        BY <1>0, <1>8, <1>10
    <2>3. i \in raced \/ vector'[i] = text'[i]
        BY <1>0, <1>2, <1>8, <1>10, <2>1
    <2>4. \A j \in Exists : j # i => vector'[j] = text'[j] \/ j \in raced
        BY <1>0, <1>8, <1>10, ExistIdeas DEF Drift, DriftNeedsRace
    <2>5. DriftNeedsRace'
        BY <1>1, <1>16, <2>2, <2>3, <2>4 DEF DriftNeedsRace
    <2>6. QED
        BY <1>1, <2>5 DEF Drift
<1>25. EdgesBothWays'
    BY <1>1 DEF EdgesBothWays
<1>26. QED
    BY <1>20, <1>21, <1>22, <1>23, <1>24, <1>25

-----------------------------------------------------------------------------
LEMMA StutterInv ==
    ASSUME UpkeepInv, UNCHANGED vars
    PROVE  UpkeepInv'
<1> USE DEF UpkeepInv, vars, store, slot, fields, trust
<1>1. Apart /\ cur' = cur /\ pc' = pc
    BY DEF Apart
<1>2. CleanMeansJudged' /\ Counts' /\ Drift' /\ Exists' = Exists
    BY <1>1, ApartKeeps
<1>3. TypeOK'
    BY DEF TypeOK
<1>4. SlotInv' /\ EdgesBothWays'
    BY <1>2 DEF SlotInv, EdgesBothWays, LeavesOf
<1>5. QED
    BY <1>2, <1>3, <1>4

LEMMA NextInv ==
    ASSUME UpkeepInv, [Next]_vars
    PROVE  UpkeepInv'
<1>1. CASE Between
    BY <1>1, BetweenInv
<1>2. CASE Cite \/ (\E s \in Sources : BackfillRead(s)) \/ BackfillWrite \/ BackfillLeave
    BY <1>2, CiteInv
<1>3. CASE Take
    BY <1>3, TakeInv
<1>4. CASE \E i \in Ideas : Land(i)
    BY <1>4, LandInv
<1>5. CASE Rederive
    BY <1>5, RederiveInv
<1>6. CASE Split
    BY <1>6, SplitInv
<1>7. CASE Judge
    BY <1>7, JudgeInv
<1>8. CASE \E i \in Ideas, t \in Texts : PatchIdea(i, t)
    BY <1>8, PatchInv
<1>9. CASE UNCHANGED vars
    BY <1>9, StutterInv
<1>10. QED
    BY <1>1, <1>2, <1>3, <1>4, <1>5, <1>6, <1>7, <1>8, <1>9 DEF Next, Pass, Between

(* What a sweep read stays true until it writes, and the promises below.   *)
THEOREM UpkeepInvariant == Spec => []UpkeepInv
<1>1. Init => UpkeepInv
    BY InitInv
<1>2. UpkeepInv /\ [Next]_vars => UpkeepInv'
    BY NextInv
<1>3. QED
    BY <1>1, <1>2, PTL DEF Spec

(* The variables of the ideas and of the job in the slot stay in their     *)
(* types.                                                                  *)
THEOREM TypeCorrect == Spec => []TypeOK
<1>1. UpkeepInv => TypeOK
    BY DEF UpkeepInv
<1>2. QED
    BY <1>1, UpkeepInvariant, PTL

(* A clean idea carries the score of the leaves it has, whatever landed on *)
(* it, was split off it or died since (set_trust, split_idea).             *)
THEOREM CleanIsJudged == Spec => []CleanMeansJudged
<1>1. UpkeepInv => CleanMeansJudged
    BY DEF UpkeepInv
<1>2. QED
    BY <1>1, UpkeepInvariant, PTL

(* rederived_at_leaf_count never runs ahead of the leaves of an idea.      *)
THEOREM CounterBehind == Spec => []CounterNotAhead
<1>1. UpkeepInv => CounterNotAhead
    BY ExistIdeas DEF UpkeepInv, Counts, CounterNotAhead
<1>2. QED
    BY <1>1, UpkeepInvariant, PTL

(* A text and its vector part only by an edit under a derivation.          *)
THEOREM DriftIsRace == Spec => []DriftNeedsRace
<1>1. UpkeepInv => DriftNeedsRace
    BY DEF UpkeepInv, Drift
<1>2. QED
    BY <1>1, UpkeepInvariant, PTL

(* Co-citation is symmetric after every commit (_write_cocite_pair).       *)
THEOREM CocitationIsSymmetric == Spec => []EdgesBothWays
<1>1. UpkeepInv => EdgesBothWays
    BY DEF UpkeepInv
<1>2. QED
    BY <1>1, UpkeepInvariant, PTL

-----------------------------------------------------------------------------
(* The weight of an edge.  Stored leaves are never taken back, so a source *)
(* accounts for at least as much tomorrow as today; what a pair is written *)
(* with was counted over the leaves of its source (Earned), and Upsert     *)
(* adds it only when the source is not yet evidence: the leaves of the old *)
(* evidence and of the source are disjoint then.                           *)
Stored(T) == {l \in Leaves : home[l] # None /\ SourceOf[l] \in T}
Fits(n, s) == 2 * n <= Cardinality(Stored({s}))

Earned ==
    /\ WeightIsEarned
    /\ \A p \in pairs : pc = "cite" /\ Fits(p.increment, cursor + 1)
    /\ \A p \in tool.pairs : Fits(p.increment, tool.source)

LEMMA StoredType == \A T : Stored(T) \in SUBSET Leaves
BY DEF Stored

(* Two ideas of a pair have at most half of the leaves of a source each.   *)
LEMMA PairsFit ==
    ASSUME TypeOK, NEW s, NEW p \in PairsOf(s)
    PROVE  Fits(p.increment, s)
<1>1. PICK q \in kSubset(2, Exists) : p = [pair |-> q, increment |-> Min({CountOf(s, i) : i \in q})]
    BY DEF PairsOf
<1>2. q \in SUBSET Exists /\ Cardinality(q) = 2 /\ IsFiniteSet(q)
    <2>1. q \in SUBSET Exists /\ Cardinality(q) = 2
        BY <1>1 DEF kSubset
    <2>2. born \in Seq(Ideas) /\ Len(born) \in Nat
        BY DEF TypeOK
    <2>3. IsFiniteSet(Exists)
        <3> DEFINE f == [n \in 1..Len(born) |-> born[n]]
        <3>1. f \in Surjection(1..Len(born), Exists)
            BY DEF Exists, Surjection
        <3>2. IsFiniteSet(1..Len(born))
            BY <2>2, FS_Interval
        <3> HIDE DEF f
        <3>3. QED
            BY <3>1, <3>2, FS_Surjection
    <2>4. QED
        BY <2>1, <2>3, FS_Subset
<1>3. PICK i \in q, j \in q : i # j
    <2>1. PICK i \in q : TRUE
        BY <1>2, FS_EmptySet
    <2>2. Cardinality(q \ {i}) = Cardinality(q) - 1
        BY <1>2, <2>1, FS_RemoveElement
    <2>3. q \ {i} # {}
        BY <1>2, <2>2, FS_EmptySet
    <2>4. PICK j \in q \ {i} : TRUE
        BY <2>3
    <2>5. QED
        BY <2>1, <2>4
<1> DEFINE A == {l \in LeavesOf(i) : SourceOf[l] = s}
           B == {l \in LeavesOf(j) : SourceOf[l] = s}
           C == Stored({s})
           N == {CountOf(s, x) : x \in q}
<1>4. Min(N) <= Cardinality(A) /\ Min(N) <= Cardinality(B) /\ Min(N) \in Nat
    <2>1. \A x \in q : CountOf(s, x) \in Nat
        BY LeafCount DEF CountOf, LeavesOf
    <2>2. N \in SUBSET Nat /\ Cardinality(A) \in N /\ Cardinality(B) \in N
        BY <1>3, <2>1 DEF CountOf
    <2>3. Min(N) \in Nat /\ \A x \in N : Min(N) <= x
        <3> HIDE DEF N
        <3>1. QED
            BY <2>2, LeastNumber
    <2>4. QED
        BY <2>2, <2>3
<1>5. /\ A \in SUBSET Leaves /\ B \in SUBSET Leaves /\ C \in SUBSET Leaves
      /\ A \cap B = {} /\ A \cup B \subseteq C
    <2>1. i \in Ideas /\ j \in Ideas
        BY <1>2, <1>3, ExistIdeas
    <2>2. QED
        BY <1>3, <2>1, UpkeepAssumption DEF LeavesOf, Stored
<1> DEFINE least == Min(N)
<1> HIDE DEF A, B, C, N, least
<1>6. Cardinality(A \cup B) = Cardinality(A) + Cardinality(B)
    <2>1. IsFiniteSet(A) /\ IsFiniteSet(B) /\ Cardinality(A) \in Nat /\ Cardinality(B) \in Nat
        BY <1>5, LeafCount
    <2>2. Cardinality(A \cup B) = Cardinality(A) + Cardinality(B) - Cardinality({})
        BY <1>5, <2>1, FS_Union
    <2>3. QED
        BY <2>1, <2>2, FS_EmptySet
<1>7. Cardinality(A \cup B) <= Cardinality(C)
    BY <1>5, MoreLeaves
<1>8. 2 * least <= Cardinality(C)
    <2>1. Cardinality(A) \in Nat /\ Cardinality(B) \in Nat /\ Cardinality(C) \in Nat
        BY <1>5, LeafCount
    <2>2. least <= Cardinality(A) /\ least <= Cardinality(B) /\ least \in Nat
        BY <1>4 DEF least
    <2>3. QED
        BY <1>6, <1>7, <2>1, <2>2
<1>9. p.increment = least
    BY <1>1 DEF least, N
<1>10. QED
    BY <1>8, <1>9 DEF Fits, C

(* A source that was no evidence yet brings leaves the edge did not count. *)
LEMMA WeightGrows ==
    ASSUME TypeOK, WeightIsEarned, NEW s \in Sources, NEW p \in Pair, Fits(p.increment, s),
           WriteCocitePair(s, p), home' = home
    PROVE  WeightIsEarned'
<1>1. edges \in [Ideas \X Ideas -> Edge] /\ p.increment \in Nat
    BY DEF TypeOK, Pair
<1>2. edges' = [q \in Ideas \X Ideas |->
                IF p.pair = {q[1], q[2]} THEN Upsert(edges[q], s, p.increment) ELSE edges[q]]
    BY <1>1 DEF WriteCocitePair
<1>3. ASSUME NEW q \in Ideas \X Ideas PROVE 2 * edges'[q].weight <= Cardinality(Stored(edges'[q].evidence))
    <2>1. 2 * edges[q].weight <= Cardinality(Stored(edges[q].evidence))
        BY <1>1 DEF WeightIsEarned, Stored
    <2>2. CASE edges'[q] = edges[q]
        BY <2>1, <2>2
    <2>3. CASE edges'[q] # edges[q]
        <3> DEFINE e == edges[q]
                   w == e.weight
                   n == p.increment
                   A == Stored(e.evidence)
                   B == Stored({s})
                   C == Stored(e.evidence \cup {s})
        <3>1. s \notin e.evidence /\ edges'[q] = [weight |-> w + n, evidence |-> e.evidence \cup {s}]
            BY <1>2, <2>3 DEF Upsert
        <3>2. w \in Nat /\ n \in Nat
            BY <1>1 DEF Edge
        <3>3. A \cup B = C /\ A \cap B = {} /\ A \in SUBSET Leaves /\ B \in SUBSET Leaves
            BY <3>1 DEF Stored
        <3>4. 2 * w <= Cardinality(A) /\ 2 * n <= Cardinality(B)
            BY <2>1 DEF Fits
        <3>5. edges'[q].weight = w + n /\ Stored(edges'[q].evidence) = C
            BY <3>1
        <3> HIDE DEF A, B, C, w, n, e
        <3>6. Cardinality(C) = Cardinality(A) + Cardinality(B)
            <4>1. IsFiniteSet(A) /\ IsFiniteSet(B) /\ Cardinality(A) \in Nat /\ Cardinality(B) \in Nat
                BY <3>3, LeafCount
            <4>2. Cardinality(A \cup B) = Cardinality(A) + Cardinality(B) - Cardinality(A \cap B)
                BY <4>1, FS_Union
            <4>3. Cardinality(A \cap B) = 0
                BY <3>3, FS_EmptySet
            <4>4. Cardinality(A \cup B) = Cardinality(C)
                BY <3>3, Zenon
            <4>5. QED
                BY <4>1, <4>2, <4>3, <4>4
        <3>7. 2 * (w + n) <= Cardinality(C)
            <4>1. Cardinality(A) \in Nat /\ Cardinality(B) \in Nat
                BY <3>3, LeafCount
            <4>2. QED
                BY <3>2, <3>4, <3>6, <4>1
        <3>8. QED
            BY <3>5, <3>7
    <2>4. QED
        BY <2>2, <2>3
<1>4. DOMAIN edges' = Ideas \X Ideas
    BY <1>2
<1>5. \A T : Stored(T)' = Stored(T)
    BY DEF Stored
<1>6. QED
    BY <1>3, <1>4 DEF WeightIsEarned, Stored

(* Every other step: no leaf is taken out of the lake, no edge is written. *)
LEMMA EarnedKeeps ==
    ASSUME TypeOK, Earned, edges' = edges,
           \A l \in Leaves : home[l] # None => home'[l] # None,
           pairs' = {} \/ UNCHANGED <<pairs, pc, cursor>>,
           tool' = tool \/ tool'.pairs = {}
    PROVE  Earned'
<1>1. ASSUME NEW T PROVE /\ Cardinality(Stored(T)) \in Nat /\ Cardinality(Stored(T)') \in Nat
                         /\ Cardinality(Stored(T)) <= Cardinality(Stored(T)')
    <2> DEFINE a == Stored(T)
               b == {l \in Leaves : home'[l] # None /\ SourceOf[l] \in T}
    <2>1. a \in SUBSET b /\ a \in SUBSET Leaves /\ b \in SUBSET Leaves
        BY DEF Stored
    <2>2. Stored(T)' = b
        BY DEF Stored
    <2> HIDE DEF a, b
    <2>3. Cardinality(a) <= Cardinality(b) /\ Cardinality(a) \in Nat /\ Cardinality(b) \in Nat
        BY <2>1, MoreLeaves, LeafCount
    <2>4. QED
        BY <2>2, <2>3 DEF a
<1>2. ASSUME NEW n \in Nat, NEW s, Fits(n, s)
      PROVE  2 * n <= Cardinality({l \in Leaves : home'[l] # None /\ SourceOf[l] \in {s}})
    <2> DEFINE new == {l \in Leaves : home'[l] # None /\ SourceOf[l] \in {s}}
    <2>1. Cardinality(Stored({s})) \in Nat /\ Cardinality(new) \in Nat /\ Cardinality(Stored({s})) <= Cardinality(new)
        BY <1>1 DEF Stored
    <2>2. 2 * n <= Cardinality(Stored({s}))
        BY <1>2 DEF Fits
    <2> HIDE DEF new
    <2>3. QED
        BY <2>1, <2>2 DEF new
<1>3. WeightIsEarned'
    <2> SUFFICES ASSUME NEW q \in DOMAIN edges
                 PROVE  2 * edges[q].weight <= Cardinality(Stored(edges[q].evidence)')
        BY DEF WeightIsEarned, Stored
    <2> DEFINE w == edges[q].weight
               a == Cardinality(Stored(edges[q].evidence))
               b == Cardinality(Stored(edges[q].evidence)')
    <2>1. w \in Nat
        BY DEF TypeOK, Edge
    <2>2. a \in Nat /\ b \in Nat /\ a <= b
        BY <1>1
    <2>3. 2 * w <= a
        BY DEF Earned, WeightIsEarned, Stored
    <2> HIDE DEF w, a, b
    <2>4. 2 * w <= b
        BY <2>1, <2>2, <2>3
    <2>5. QED
        BY <2>4 DEF w, b
<1>4. \A p \in pairs' : (pc = "cite" /\ Fits(p.increment, cursor + 1))'
    <2> SUFFICES ASSUME NEW p \in pairs, UNCHANGED <<pairs, pc, cursor>>
                 PROVE  (pc = "cite" /\ Fits(p.increment, cursor + 1))'
        OBVIOUS
    <2>1. pc = "cite" /\ Fits(p.increment, cursor + 1) /\ p.increment \in Nat
        BY DEF Earned, TypeOK, Pair
    <2>2. QED
        BY <1>2, <2>1 DEF Fits, Stored
<1>5. \A p \in tool'.pairs : Fits(p.increment, tool.source)'
    <2> SUFFICES ASSUME NEW p \in tool.pairs, tool' = tool
                 PROVE  Fits(p.increment, tool.source)'
        OBVIOUS
    <2>1. Fits(p.increment, tool.source) /\ p.increment \in Nat
        BY DEF Earned, TypeOK, Pair
    <2>2. QED
        BY <1>2, <2>1 DEF Fits, Stored
<1>6. QED
    BY <1>3, <1>4, <1>5 DEF Earned

LEMMA EarnedCites ==
    ASSUME UpkeepInv, Earned, Landed \/ Cite \/ (\E s \in Sources : BackfillRead(s)) \/ BackfillWrite
    PROVE  Earned'
<1>1. home' = home /\ TypeOK
    BY DEF Landed, Cite, BackfillRead, BackfillWrite, store, UpkeepInv
<1>2. \A n, s : Fits(n, s)' <=> Fits(n, s)
    BY <1>1 DEF Fits, Stored
<1>3. CASE Landed
    <2>1. pairs' = PairsOf(cursor + 1) /\ pc' = "cite" /\ UNCHANGED <<cursor, tool, edges>>
        BY <1>3 DEF Landed, store
    <2>2. \A p \in pairs' : Fits(p.increment, cursor + 1)
        BY <1>1, <2>1, PairsFit
    <2>3. WeightIsEarned'
        BY <1>1, <2>1 DEF Earned, WeightIsEarned
    <2>4. QED
        BY <1>1, <2>1, <2>2, <2>3 DEF Earned, Fits, Stored
<1>4. CASE Cite
    <2>1. PICK p \in pairs : WriteCocitePair(cursor + 1, p) /\ pairs' = pairs \ {p}
        BY <1>4 DEF Cite
    <2>2. cursor + 1 \in Sources /\ p \in Pair
        BY <1>4, <2>1, UpkeepAssumption DEF Cite, UpkeepInv, SlotInv, OfSource, TypeOK, Sources
    <2>3. Fits(p.increment, cursor + 1)
        BY <2>1 DEF Earned
    <2>4. WeightIsEarned'
        BY <1>1, <2>1, <2>2, <2>3, WeightGrows DEF Earned
    <2>5. UNCHANGED <<pc, cursor, tool>>
        BY <1>4 DEF Cite
    <2>6. QED
        BY <1>1, <2>1, <2>4, <2>5 DEF Earned, Fits, Stored
<1>5. ASSUME NEW s \in Sources, BackfillRead(s) PROVE Earned'
    <2>1. /\ tool' = [source |-> s, pairs |-> PairsOf(s)]
          /\ UNCHANGED <<edges, pairs, pc, cursor>>
        BY <1>5 DEF BackfillRead, store, slot
    <2>2. \A p \in tool'.pairs : Fits(p.increment, s)
        BY <1>1, <2>1, PairsFit
    <2>3. WeightIsEarned'
        BY <1>1, <2>1 DEF Earned, WeightIsEarned
    <2>4. QED
        BY <1>1, <2>1, <2>2, <2>3 DEF Earned, Fits, Stored
<1>6. CASE BackfillWrite
    <2>1. PICK p \in tool.pairs : WriteCocitePair(tool.source, p) /\ tool' = [tool EXCEPT !.pairs = @ \ {p}]
        BY <1>6 DEF BackfillWrite
    <2>2. tool \in [source : 0..LastSource, pairs : SUBSET Pair] /\ tool.source # 0
        BY <2>1 DEF UpkeepInv, TypeOK, SlotInv
    <2>3. tool.source \in Sources /\ p \in Pair /\ Fits(p.increment, tool.source)
        BY <2>1, <2>2, UpkeepAssumption DEF Sources, Earned
    <2>4. WeightIsEarned'
        BY <1>1, <2>1, <2>3, WeightGrows DEF Earned
    <2>5. tool'.source = tool.source /\ tool'.pairs \subseteq tool.pairs /\ UNCHANGED <<pairs, pc, cursor>>
        BY <1>6, <2>1, <2>2 DEF BackfillWrite, slot
    <2>6. QED
        BY <1>1, <2>4, <2>5 DEF Earned, Fits, Stored
<1>7. QED
    BY <1>3, <1>4, <1>5, <1>6

(* The leaves a step moves stay in the lake.                               *)
LEMMA LeavesStay ==
    ASSUME UpkeepInv, Split \/ \E i \in Ideas : Land(i)
    PROVE  \A l \in Leaves : home[l] # None => home'[l] # None
<1>1. ASSUME NEW i \in Ideas, Land(i) PROVE \A l \in Leaves : home[l] # None => home'[l] # None
    BY <1>1, UpkeepAssumption DEF Land
<1>2. CASE Split
    <2>1. cur # Idle /\ cur.leaves \in SUBSET Leaves
        BY <1>2, Taken DEF Split
    <2>2. PICK parts \in Clusters[cur.leaves] : \E keep \in parts : \E f \in [parts \ {keep} -> New] :
                SplitInto(keep, f)
        BY <1>2 DEF Split
    <2>3. PICK keep \in parts : \E f \in [parts \ {keep} -> New] : SplitInto(keep, f)
        BY <2>2
    <2>4. PICK f \in [parts \ {keep} -> New] : SplitInto(keep, f)
        BY <2>3
    <2>5. UNION parts = cur.leaves
        BY <2>1, PartsOf
    <2> DEFINE place(l) == CHOOSE P \in DOMAIN f : l \in P
    <2>6. home' = [l \in Leaves |-> IF l \in cur.leaves \ keep THEN f[place(l)] ELSE home[l]]
        BY <2>4 DEF SplitInto
    <2>7. ASSUME NEW l \in cur.leaves \ keep PROVE f[place(l)] \in Ideas
        <3>1. \E P \in DOMAIN f : l \in P
            BY <2>5
        <3>2. place(l) \in DOMAIN f
            BY <3>1
        <3> HIDE DEF place
        <3>3. QED
            BY <3>2 DEF New
    <2> HIDE DEF place
    <2>8. QED
        BY <2>6, <2>7, UpkeepAssumption
<1>3. QED
    BY <1>1, <1>2

LEMMA EarnedNext ==
    ASSUME UpkeepInv, Earned, [Next]_vars
    PROVE  Earned'
<1>1. CASE Landed \/ Cite \/ (\E s \in Sources : BackfillRead(s)) \/ BackfillWrite
    BY <1>1, EarnedCites
<1>2. CASE Split \/ \E i \in Ideas : Land(i)
    <2>1. UNCHANGED <<edges, pairs, pc, cursor, tool>>
        BY <1>2 DEF Split, Land
    <2>2. QED
        BY <1>2, <2>1, LeavesStay, EarnedKeeps DEF UpkeepInv
<1>3. CASE Begin \/ RunTrust \/ TakeGroup \/ Cited \/ SplitDone \/ DeriveDone \/ EndLoop \/ LastDone \/ JudgeDone
    <2>1. pairs = {}
        BY <1>3 DEF Begin, RunTrust, TakeGroup, Cited, SplitDone, DeriveDone, EndLoop, LastDone,
                    JudgeDone, SweepDone, Earned
    <2>2. pairs' = pairs /\ UNCHANGED <<home, edges, tool>>
        BY <1>3 DEF Begin, RunTrust, TakeGroup, Cited, SplitDone, DeriveDone, EndLoop, LastDone,
                    JudgeDone, store
    <2>3. QED
        BY <2>1, <2>2, EarnedKeeps DEF UpkeepInv
<1>4. CASE Take \/ Fail \/ Rederive \/ Judge \/ (\E i \in Ideas, t \in Texts : PatchIdea(i, t)) \/ UNCHANGED vars
    <2>1. UNCHANGED <<home, edges, pairs, pc, cursor, tool>>
        BY <1>4 DEF Take, Fail, Rederive, Judge, PatchIdea, vars, store, slot
    <2>2. QED
        BY <2>1, EarnedKeeps DEF UpkeepInv
<1>5. CASE Abort
    <2>1. pairs' = {} /\ UNCHANGED <<home, edges, tool>>
        BY <1>5 DEF Abort, store
    <2>2. QED
        BY <2>1, EarnedKeeps DEF UpkeepInv
<1>6. CASE BackfillLeave
    <2>1. tool'.pairs = {} /\ UNCHANGED <<home, edges, pairs, pc, cursor>>
        BY <1>6 DEF BackfillLeave, AtRest, store, slot
    <2>2. QED
        BY <2>1, EarnedKeeps DEF UpkeepInv
<1>7. QED
    BY <1>1, <1>2, <1>3, <1>4, <1>5, <1>6 DEF Next, Pass

(* No edge weighs more than half of the leaves of its evidence, however    *)
(* often a pass and the backfill come to the same source, in whatever      *)
(* order they write and wherever either dies.                              *)
THEOREM EdgesAreEarned == Spec => []WeightIsEarned
<1>1. Init => Earned
    <2> SUFFICES ASSUME Init PROVE Earned
        OBVIOUS
    <2>1. \A q \in DOMAIN edges : edges[q].weight = 0
        BY DEF Init
    <2>2. \A T : Cardinality(Stored(T)) \in Nat
        BY StoredType, LeafCount
    <2>3. \A T : 0 <= Cardinality(Stored(T))
        BY <2>2
    <2>4. WeightIsEarned
        <3> SUFFICES ASSUME NEW q \in DOMAIN edges
                     PROVE  2 * edges[q].weight <= Cardinality(Stored(edges[q].evidence))
            BY DEF WeightIsEarned, Stored
        <3>1. QED
            BY <2>1, <2>3
    <2>5. QED
        BY <2>4 DEF Init, Earned, AtRest
<1>2. UpkeepInv /\ Earned /\ [Next]_vars => Earned'
    BY EarnedNext
<1>3. Earned => WeightIsEarned
    BY DEF Earned
<1>4. QED
    BY <1>1, <1>2, <1>3, UpkeepInvariant, PTL DEF Spec

=============================================================================
