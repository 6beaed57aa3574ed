------------------------------- MODULE RunLog -------------------------------
(***************************************************************************)
(* What a run log becomes (src/lake/ingest/runlog.py, from_payload): which *)
(* of its mutants are converted, in which order, and under which reason    *)
(* each of the others is counted.                                          *)
(*                                                                         *)
(* A batch is the sequence of its mutants: program, parents, its fitness,  *)
(* the fitness given for its parents, and its two forms of output, each    *)
(* the number of its changes, Broken, or NoValue.  Texts, leakage and the  *)
(* metadata of a source are left out.                                      *)
(***************************************************************************)
EXTENDS Integers, Sequences, SequencesExt, FiniteSetsExt

CONSTANTS NoValue, Broken   (* null; an output without its two fields      *)

DeadFitness == -1000

(* fitness_map: built before any row is visited, so a parent may come      *)
(* after its child; of two rows of one program the last one counts         *)
FitnessOf(batch, p) ==
    LET rows == {n \in DOMAIN batch : batch[n].program = p}
    IN  IF rows = {} THEN NoValue ELSE batch[Max(rows)].fitness

Own(batch, n) == FitnessOf(batch, batch[n].program)

(* A fitness given for the parents wins over the batch, the marker of a    *)
(* dead one included; of several parents the best counts.                  *)
ParentFitness(batch, n) ==
    LET given == batch[n].parent_fitness
        joined == {FitnessOf(batch, p) : p \in batch[n].parents} \ {NoValue, DeadFitness}
    IN  IF given # NoValue THEN IF given = DeadFitness THEN NoValue ELSE given
        ELSE IF joined = {} THEN NoValue ELSE Max(joined)

(* _mutation_output: the parsed form wins, whatever it holds               *)
Changes(mutant) == IF mutant.output # NoValue THEN mutant.output ELSE mutant.raw

(* The gates, each over what the one before let through.                   *)
DroppedNoFitness(batch) == {n \in DOMAIN batch : Own(batch, n) = NoValue}
DroppedDead(batch) == {n \in DOMAIN batch : Own(batch, n) = DeadFitness}
Alive(batch) == DOMAIN batch \ (DroppedNoFitness(batch) \cup DroppedDead(batch))
DroppedRoot(batch) == {n \in Alive(batch) : batch[n].parents = {}}
DroppedUnmeasured(batch) ==
    {n \in Alive(batch) \ DroppedRoot(batch) : ParentFitness(batch, n) = NoValue}
Measured(batch) == Alive(batch) \ (DroppedRoot(batch) \cup DroppedUnmeasured(batch))
Unparsed(batch) == {n \in Measured(batch) : Changes(batch[n]) \in {NoValue, Broken}}
NoChanges(batch) == {n \in Measured(batch) : Changes(batch[n]) = 0}
Candidates(batch) == Measured(batch) \ (Unparsed(batch) \cup NoChanges(batch))

Delta(batch, n) == Own(batch, n) - ParentFitness(batch, n)
Size(x) == IF x < 0 THEN -x ELSE x
Kept(batch, threshold) == {n \in Candidates(batch) : Size(Delta(batch, n)) >= threshold}

(* The largest change of fitness first, rows of one size as they came.     *)
Selected(batch, limit, threshold) ==
    LET size(n) == Size(Delta(batch, n))
        kept == SetToSortSeq(Kept(batch, threshold),
                             LAMBDA m, n : size(m) > size(n) \/ (size(m) = size(n) /\ m < n))
    IN  IF limit = NoValue THEN kept ELSE SubSeq(kept, 1, Min({limit, Len(kept)}))

(* A staging line: the source of its mutant, and the place of the change.  *)
StagingLines(batch, limit, threshold) ==
    FlattenSeq([k \in DOMAIN Selected(batch, limit, threshold) |->
        LET mutant == batch[Selected(batch, limit, threshold)[k]]
        IN  [c \in 1..Changes(mutant) |-> [source |-> mutant.program, change |-> c - 1]]])

(* Why a batch without a line fails for good.                              *)
Reason(batch) ==
    CASE Measured(batch) = {} -> "dropped before measurement"
      [] Measured(batch) # {} /\ Candidates(batch) = {} -> "no changes"
      [] OTHER -> "none selected"

-----------------------------------------------------------------------------
(* What a report of this may be held to, over any batch.                   *)

(* The counters of the report and the sources add up to the mutants, with  *)
(* a limit all but the rows behind it.                                     *)
ReportAddsUp(batch, limit, threshold) ==
    LET dropped == Cardinality(DroppedNoFitness(batch)) + Cardinality(DroppedDead(batch))
                   + Cardinality(DroppedRoot(batch)) + Cardinality(DroppedUnmeasured(batch))
                   + Cardinality(Unparsed(batch)) + Cardinality(NoChanges(batch))
                   + Cardinality(Candidates(batch) \ Kept(batch, threshold))
        behind == Cardinality(Kept(batch, threshold)) - Len(Selected(batch, limit, threshold))
    IN  dropped + behind + Len(Selected(batch, limit, threshold)) = Len(batch)

(* -1000 is a marker and never a number: no converted mutant has it for    *)
(* its own fitness or for that of its parents.                             *)
MarkerIsNoNumber(batch, limit, threshold) ==
    \A n \in ToSet(Selected(batch, limit, threshold)) :
      {Own(batch, n), ParentFitness(batch, n)} \cap {NoValue, DeadFitness} = {}

(* What a limit cuts off changed the fitness no more than what it leaves.  *)
BestFirst(batch, limit, threshold) ==
    LET chosen == ToSet(Selected(batch, limit, threshold))
    IN  \A n \in chosen, m \in Kept(batch, threshold) \ chosen :
          Size(Delta(batch, n)) >= Size(Delta(batch, m))

(* The log is in no order: where no program comes twice, a log backwards   *)
(* gives the same lines.                                                   *)
OrderDoesNotMatter(batch, threshold) ==
    (\A m, n \in DOMAIN batch : batch[m].program = batch[n].program => m = n) =>
      ToSet(StagingLines(batch, NoValue, threshold))
        = ToSet(StagingLines(Reverse(batch), NoValue, threshold))

=============================================================================
