----------------------------- MODULE MCRetrieve -----------------------------
(* Edges from the first two ideas to the others, one of them both ways.    *)
EXTENDS Retrieve, TLC

CONSTANTS l1, l2, l3, l4, i1, i2, i3, i4

MCLinks == {<<i1, i2>>, <<i1, i3>>, <<i2, i3>>, <<i3, i1>>}

-----------------------------------------------------------------------------
(* Both fusions, over all pairs of arms of up to four documents, and the   *)
(* order of the candidates for every way the documents belong to ideas.    *)
Lake == INSTANCE Fusion WITH RrfK <- 60, Window <- 10

(* Short of 32 bits, for differences of scores.                            *)
Small == INSTANCE Fusion WITH RrfK <- 2, Window <- 10

Documents == {l1, l2, l3, l4}
Arms == UNION {SetToSeqs(S) : S \in SUBSET Documents}

ASSUME ArmsAreFused ==
    \A a \in {<<l1, l2, l3, l4>>, <<l1, l2, l3>>, <<l1>>, <<>>}, b \in Arms :
      Lake!FusionRespectsArms(<<a, b>>)

ASSUME CandidatesAreOrdered ==
    \A b \in Arms, idea \in [Documents -> {i1, i2, i3}] :
      Small!BestThesisDecides(<<<<l1, l2, l3>>, b>>, idea)

(* The arm of an idea with many leaves, over all arms of up to five hits.  *)
ASSUME VolumeIsPricedOut ==
    \A n \in 1..5 : \A hits \in [1..n -> {i1, i2, i3}] : Lake!VolumeBuysNoPlace(hits)

(* A new idea, closest of all, behind eleven that are in both arms.        *)
ASSUME WindowHidesNewIdea ==
    LET known == [n \in 1..11 |-> n] IN ~Lake!NewIdeaIsSeen(known, <<0>> \o known)

=============================================================================
