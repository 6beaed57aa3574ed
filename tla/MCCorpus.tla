------------------------------ MODULE MCCorpus ------------------------------
(* A document parses into one line or two.                                 *)
EXTENDS Corpus

CONSTANTS t1, t2

MCParses == {<<t1>>, <<t2, t1>>}

=============================================================================
