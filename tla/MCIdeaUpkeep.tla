---------------------------- MODULE MCIdeaUpkeep ----------------------------
(* One leaf of source 1 and two of source 2: together one more than an     *)
(* idea may keep.                                                          *)
EXTENDS IdeaUpkeep

CONSTANTS l1, l2, l3

MCSourceOf == [l \in Leaves |-> IF l = l1 THEN 1 ELSE 2]

(* _clusters as it is written: cut in two, then each side that is over.    *)
Bisected[S \in SUBSET Leaves] ==
    IF Cardinality(S) <= MaxLeaves THEN {{S}}
    ELSE UNION {{P \cup Q : P \in Bisected[A], Q \in Bisected[S \ A]} :
                A \in (SUBSET S) \ {{}, S}}

ASSUME ClustersAreBisections == \A S \in (SUBSET Leaves) \ {{}} : Clusters[S] = Bisected[S]

=============================================================================
