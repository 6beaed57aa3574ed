------------------------------- MODULE Fusion -------------------------------
(***************************************************************************)
(* How ranked lists become one: reciprocal rank fusion (src/lake/index.py),*)
(* min-max fusion and one candidate per idea on the read path              *)
(* (src/lake/retrieve/search.py, rank.py), and the candidates the linking  *)
(* arbiter is shown (src/lake/ingest/link.py).                             *)
(*                                                                         *)
(* An arm is a sequence without repetition, best first; a score is a       *)
(* fraction, numerator and denominator.  A sort is stable: what scores the *)
(* same stays in the order it came in.                                     *)
(***************************************************************************)
EXTENDS Integers, Sequences, SequencesExt, FiniteSetsExt

CONSTANTS
    RrfK,       (* index.K_RRF                                             *)
    Window      (* candidates the arbiter is shown                         *)

Position(seq, d) == Min({n \in DOMAIN seq : seq[n] = d})
Before(seq, d, e) == Position(seq, d) < Position(seq, e)
Greater(s, t) == s[1] * t[2] > t[1] * s[2]

Distinct(seq) ==
    FoldLeft(LAMBDA out, d : IF Contains(out, d) THEN out ELSE Append(out, d), <<>>, seq)

(* the elements of a sequence, by falling score, ties as they came         *)
SortedBy(seq, score(_)) ==
    SortSeq(Distinct(seq), LAMBDA d, e :
        \/ Greater(score(d), score(e))
        \/ ~Greater(score(e), score(d)) /\ Before(seq, d, e))

-----------------------------------------------------------------------------
(* index.rrf_fuse: 1/(k + rank), added up over the arms.                   *)
RrfScore(arms, d) ==
    FoldLeft(LAMBDA s, arm :
               IF d \in ToSet(arm)
               THEN LET below == RrfK + Position(arm, d)
                    IN  <<s[1] * below + s[2], s[2] * below>>
               ELSE s,
             <<0, 1>>, arms)

RrfFuse(arms) == SortedBy(FlattenSeq(arms), LAMBDA d : RrfScore(arms, d))

(* search._arm: the best rank is 1, the worst as little as none at all     *)
Arm(arm, d) ==
    IF d \notin ToSet(arm) THEN <<0, 1>>
    ELSE IF Len(arm) <= 1 THEN <<1, 1>> ELSE <<Len(arm) - Position(arm, d), Len(arm) - 1>>

MinMaxScore(arms, d) ==
    LET s == Arm(arms[1], d)
        t == Arm(arms[2], d)
    IN  <<s[1] * t[2] + t[1] * s[2], 2 * s[2] * t[2]>>

(* search._minmax: the hits of the fusion above, in another order          *)
MinMax(arms) == SortedBy(RrfFuse(arms), LAMBDA d : MinMaxScore(arms, d))

(* rank: an idea counts as its best thesis, and the scores are spread      *)
(* between the worst and the best of all candidates                        *)
CandidateOrder(arms, idea) ==
    LET hits == RrfFuse(arms)
        ideas == [n \in DOMAIN hits |-> idea[hits[n]]]
        raw(i) == RrfScore(arms, hits[Position(ideas, i)])
        lo == raw(Last(Distinct(ideas)))
    IN  SortedBy(ideas, LAMBDA i : <<raw(i)[1] * lo[2] - lo[1] * raw(i)[2], raw(i)[2] * lo[2]>>)

-----------------------------------------------------------------------------
(* link._first_per_idea: the hits of an arm, each the idea of a thesis; an *)
(* idea is ranked by its best place times its number of hits.              *)
FirstPerIdea(hits) ==
    LET count(i) == Cardinality({n \in DOMAIN hits : hits[n] = i})
    IN  SortedBy(hits, LAMBDA i : <<-(Position(hits, i) * count(i)), 1>>)

(* link.fts_candidates: the index and the theses of this batch, fused      *)
Candidates(store, overlay) ==
    LET fused == RrfFuse(<<FirstPerIdea(store), FirstPerIdea(overlay)>>)
    IN  SubSeq(fused, 1, Min({Window, Len(fused)}))

-----------------------------------------------------------------------------
(* A document that no arm ranks below another is not below it in either    *)
(* fusion, whatever the other documents are.                               *)
FusionRespectsArms(arms) ==
    \A d, e \in ToSet(FlattenSeq(arms)) :
      (d # e /\ \A n \in DOMAIN arms : e \in ToSet(arms[n]) =>
                  d \in ToSet(arms[n]) /\ Before(arms[n], d, e))
        => /\ Before(RrfFuse(arms), d, e)
           /\ Before(MinMax(arms), d, e)

(* Leaf count buys a place in the draw, not one at the top of it: a leaf   *)
(* more never moves an idea up, and an idea that comes no earlier than its *)
(* share of the draw alone would bring it is behind all of a single leaf.  *)
VolumeBuysNoPlace(hits) ==
    LET count(i) == Cardinality({n \in DOMAIN hits : hits[n] = i})
    IN  /\ \A i \in ToSet(hits) :
             Position(FirstPerIdea(Append(hits, i)), i) >= Position(FirstPerIdea(hits), i)
        /\ \A i, j \in ToSet(hits) :
             count(j) = 1 /\ Position(hits, i) * count(i) > Len(hits) =>
               Before(FirstPerIdea(hits), j, i)

(* Max and not sum: candidates come in the order of their best thesis.     *)
BestThesisDecides(arms, idea) ==
    LET hits == RrfFuse(arms)
        order == CandidateOrder(arms, idea)
    IN  \A m, n \in DOMAIN hits :
          (idea[hits[m]] # idea[hits[n]] /\ \A k \in 1..n : idea[hits[k]] = idea[hits[n]] => m < k)
            => Before(order, idea[hits[m]], idea[hits[n]])

(* What link_batch says of the batch: the next thesis must be able to see  *)
(* the idea an earlier one has just opened, here one that is the closest   *)
(* of all.  It fails: ideas that are in both arms fill the window.         *)
NewIdeaIsSeen(store, overlay) ==
    overlay # <<>> => overlay[1] \in ToSet(Candidates(store, overlay))

=============================================================================
