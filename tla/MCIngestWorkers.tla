--------------------------- MODULE MCIngestWorkers ---------------------------
(* One key, one body of a batch, and what they consist of: an article is   *)
(* one source, a batch is two, and they share the first.                   *)
EXTENDS IngestWorkers, RunLog, TLC

CONSTANTS k1, h1, s1, s2, root

PostOneFetch == {<<k1, NoHash>>}
PostOneRun == {<<k1, h1>>}
PostBoth == {<<k1, NoHash>>, <<k1, h1>>}

Row(program, parents, fitness, given, changes) ==
    [program |-> program, parents |-> parents, fitness |-> fitness,
     parent_fitness |-> given, output |-> changes, raw |-> NoValue]

(* s2 before its parent, s1 changed more than s2                           *)
MCBatch == <<Row(s2, {root}, 1, NoValue, 1), Row(root, {}, 0, NoValue, 1),
             Row(s1, {root}, 2, NoValue, 1)>>

MCLines == [x \in Posts |->
    IF x[2] = NoHash THEN <<s1>> ELSE <<s1, s2>>]

(* The lines of the batch are what from_payload makes of it.               *)
ASSUME BatchIsTwoSources ==
    \A x \in Posts : x[2] # NoHash =>
      MCLines[x] = [n \in 1..2 |-> StagingLines(MCBatch, NoValue, 0)[n].source]

-----------------------------------------------------------------------------
(* The conversion of all small logs: two rows of two programs or of one,   *)
(* each with a parent or none, dead, unmeasured or measured; and two rows  *)
(* behind which their parent comes.                                        *)
Rows(programs, fitnesses, changes) ==
    {Row(p, ps, f, g, c) :
     p \in programs, ps \in {{}, {root}}, f \in fitnesses,
     g \in {NoValue, DeadFitness, 2}, c \in changes}

Pairs ==
    [1..2 -> Rows({s1, root}, {NoValue, DeadFitness, 3}, {0, 2})]
Triples ==
    {<<a, b, Row(root, {}, f, NoValue, 1)>> :
     a, b \in {m \in Rows({s1, s2}, {1, 3}, {Broken, 1}) : m.parents # {}},
     f \in {NoValue, DeadFitness, 1}}

ConversionHolds(batch, limit, threshold) ==
    /\ ReportAddsUp(batch, limit, threshold)
    /\ MarkerIsNoNumber(batch, limit, threshold)
    /\ BestFirst(batch, limit, threshold)
    /\ OrderDoesNotMatter(batch, threshold)

ASSUME RunLogsConvert ==
    \A batch \in Pairs \cup Triples, limit \in {NoValue, 1}, threshold \in {0, 2} :
      ConversionHolds(batch, limit, threshold)

=============================================================================
