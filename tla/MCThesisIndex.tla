--------------------------- MODULE MCThesisIndex ---------------------------
(* Two leaves in batches of one and two, and snapshots of the store in two *)
(* orders and with a leaf less.                                            *)
EXTENDS ThesisIndex, TLC

CONSTANTS lake, tool, t1, t2

MCBatches == {<<t1>>, <<t2>>, <<t1, t2>>}
MCSnapshots == {<<t1, t2>>, <<t2, t1>>, <<t2>>}

Symmetry == Permutations(Procs)

=============================================================================
