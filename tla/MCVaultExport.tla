--------------------------- MODULE MCVaultExport ---------------------------
(* A lake of two sources, an idea and two leaves, and room for one more of *)
(* each.                                                                   *)
EXTENDS VaultExport, TLC

CONSTANTS s1, s2, s3, i1, i2, l1, l2, l3

MCLake ==
    [sources |-> <<s1, s2>>, ideas |-> <<i1>>, leaves |-> <<l1, l2>>,
     home |-> [l \in Leaves |-> IF l = l3 THEN None ELSE i1],
     origin |-> [l \in Leaves |-> IF l = l3 THEN None ELSE s1]]

MCEntries == <<"ideas", "README.md">>
Symmetry == Permutations(Exports)

=============================================================================
