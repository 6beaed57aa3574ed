------------------------------ MODULE Retrieve ------------------------------
(***************************************************************************)
(* One POST /retrieve (src/lake/retrieve/api.py, rank.py) beside the jobs  *)
(* that write the store and the index: a linking pass, a split, a repair   *)
(* of the index, the judge and the co-citation edges.                      *)
(*                                                                         *)
(* The request holds nothing: the gate, the search, the bodies, the edges  *)
(* and the bodies behind them are separate reads.  Any of them may raise.  *)
(*                                                                         *)
(* Abstractions: scores are the order they sort the candidates into, and   *)
(* any order may come out of a search; a query matches every leaf, of      *)
(* which the best TopK are hits; trust is zero or not.  Rewriting the      *)
(* query changes nothing here: it fails into the query as it was.          *)
(***************************************************************************)
EXTENDS Integers, Sequences, SequencesExt, FiniteSetsExt

CONSTANTS
    Leaves, Ideas, None,
    Links,          (* the edges there may be                              *)
    Ks,             (* the lengths that may be asked for                   *)
    TopK,           (* leaves a search returns                             *)
    QuotaDivisor,   (* 1 / TRUST_QUOTA_FRACTION                            *)
    MaxWrites       (* bound                                               *)

ASSUME RetrieveAssumption ==
    /\ IsFiniteSet(Leaves) /\ IsFiniteSet(Ideas)
    /\ None \notin Ideas /\ Links \subseteq Ideas \X Ideas
    /\ Ks \subseteq Nat \ {0} /\ TopK \in Nat \ {0} /\ QuotaDivisor \in Nat \ {0}
    /\ MaxWrites \in Nat

VARIABLES
    home,           (* the store: the idea of each leaf, None if absent    *)
    trusted, edges, (* the store: ideas with a score, edges                *)
    idx,            (* the index: the idea it has for each leaf            *)
    writer,         (* the next step of the job                            *)
    batch, snap,    (* its leaf and idea; the store as it read it          *)
    pc, k,          (* the next step of the request; the length asked      *)
    order,          (* the candidates, best first                          *)
    fair,           (* those of them, and of the targets, with trust       *)
    out,            (* the answer: idea and via                            *)
    deferred,       (* candidates over the quota                           *)
    targets,        (* neighbours that fill the answer                     *)
    near,           (* history: all the neighbours of the candidates       *)
    status, lines,  (* the answer's status; the lines it left in the log   *)
    writes

store == <<home, trusted, edges>>
job == <<writer, batch, snap>>
ranking == <<order, fair, out, deferred, targets, near>>
request == <<pc, k, ranking, status, lines>>
vars == <<store, idx, job, request, writes>>

Absent == [l \in Leaves |-> None]
Known == {home[l] : l \in Leaves} \ {None}
Indexed == {l \in Leaves : idx[l] # None}
Quota == k \div QuotaDivisor
Vias == {"thesis", "edge", "padding"}
Items == [idea : Ideas, via : Vias]
IdeasOf(items) == {items[n].idea : n \in DOMAIN items}
Tagged(ideas, via) == [n \in DOMAIN ideas |-> [idea |-> ideas[n], via |-> via]]
Line == [status : {200, 503}, returned : Seq(Items), cut : SUBSET Ideas, quota : Int, over : Int]
First(n, s) == SubSeq(s, 1, Min({n, Len(s)}))
Unanswered(quota, over) ==
    [status |-> 503, returned |-> <<>>, cut |-> {}, quota |-> quota, over |-> over]

TypeOK ==
    /\ home \in [Leaves -> Ideas \cup {None}] /\ idx \in [Leaves -> Ideas \cup {None}]
    /\ trusted \subseteq Ideas /\ edges \subseteq Links
    /\ writer \in {"idle", "index", "read", "rebuild"}
    /\ batch \in (Leaves \X Ideas) \cup {<<>>} /\ snap \in [Leaves -> Ideas \cup {None}]
    /\ pc \in {"idle", "gate", "counts", "search", "bodies", "edges", "fill", "reply"}
    /\ k \in Ks \cup {0} /\ status \in {0, 200, 503}
    /\ order \in Seq(Ideas) /\ deferred \in Seq(Ideas) /\ targets \in Seq(Ideas)
    /\ fair \subseteq Ideas /\ near \subseteq Ideas
    /\ out \in Seq(Items) /\ Len(out) <= k
    /\ lines \in Seq(Line) /\ writes \in 0..MaxWrites

(* A lake some passes have filled, indexed as it is.                       *)
Init ==
    /\ home \in [Leaves -> Ideas \cup {None}] /\ idx = home
    /\ trusted \in SUBSET Known
    /\ edges \in {e \in SUBSET Links : \A a \in e : a[1] \in Known /\ a[2] \in Known}
    /\ writer = "idle" /\ batch = <<>> /\ snap = Absent
    /\ pc = "idle" /\ k = 0 /\ status = 0 /\ lines = <<>>
    /\ order = <<>> /\ fair = {} /\ out = <<>>
    /\ deferred = <<>> /\ targets = <<>> /\ near = {}
    /\ writes = 0

(***************************************************************************)
(* The request.                                                            *)
(***************************************************************************)
NoRanking ==
    /\ order' = <<>> /\ fair' = {} /\ out' = <<>>
    /\ deferred' = <<>> /\ targets' = <<>> /\ near' = {}

Ask(n) ==
    /\ pc = "idle"
    /\ pc' = "gate" /\ k' = n /\ status' = 0 /\ NoRanking /\ lines' = <<>>

(* index.count() == 0 ...                                                  *)
CountIndex ==
    /\ pc = "gate"
    /\ pc' = IF Indexed = {} THEN "counts" ELSE "search"
    /\ UNCHANGED <<k, ranking, status, lines>>

(* The line of a 503: nothing returned, nothing cut off.  The quota fields *)
(* stay as rank() filled them.                                             *)
Failed ==
    IF pc = "reply"
    THEN Unanswered(Quota, Max({0, Cardinality(IdeasOf(out) \ fair) - Quota}))
    ELSE Unanswered(-1, -1)

Fail ==
    /\ pc' = "idle" /\ status' = 503 /\ lines' = Append(lines, Failed)
    /\ NoRanking /\ UNCHANGED k

(* ... and counts()["theses"] > 0: an index that was wiped                 *)
CountStore ==
    /\ pc = "counts"
    /\ IF Known # {} THEN Fail
       ELSE pc' = "search" /\ UNCHANGED <<k, ranking, status, lines>>

(* search_theses, and one candidate per idea                               *)
Search ==
    /\ pc = "search"
    /\ \E hits \in kSubset(Min({TopK, Cardinality(Indexed)}), Indexed) :
         order' \in SetToSeqs({idx[l] : l \in hits})
    /\ pc' = "bodies"
    /\ UNCHANGED <<k, fair, out, deferred, targets, near, status, lines>>

(* Bug: one more than the quota.                                           *)
TakesOneMore(acc, i) == i \in trusted \/ acc.used <= Quota

(* rank: a trusted candidate, or one within the quota                      *)
Takes(acc, i) == i \in trusted \/ acc.used < Quota

(* the scan looks at one more candidate, unless the answer is full         *)
Examined(acc, i) ==
    IF Len(acc.out) = k THEN acc
    ELSE IF Takes(acc, i)
    THEN [acc EXCEPT !.out = Append(@, i), !.used = IF i \in trusted THEN @ ELSE @ + 1]
    ELSE [acc EXCEPT !.deferred = Append(@, i)]

(* the candidates, best first                                              *)
After[n \in 0..Len(order)] ==
    IF n = 0 THEN [out |-> <<>>, deferred |-> <<>>, used |-> 0]
    ELSE Examined(After[n - 1], order[n])

Scanned == After[Len(order)]

(* _bodies of the candidates: one that is not in the store is an error     *)
Bodies ==
    /\ pc = "bodies"
    /\ IF Range(order) \subseteq Known
       THEN /\ out' = Tagged(Scanned.out, "thesis") /\ deferred' = Scanned.deferred
            /\ fair' = Range(order) \cap trusted
            /\ pc' = IF Len(out') < k THEN "edges" ELSE "reply"
            /\ UNCHANGED <<k, order, targets, near, status, lines>>
       ELSE Fail

Reached(from) == {e[2] : e \in {d \in edges : d[1] \in from}}

(* Bug: the anchors are the ideas of the answer so far.                    *)
NeighboursOfAnswer == Reached(IdeasOf(out)) \ Range(order)

(* neighbors() of every candidate, the candidates left out                 *)
Neighbours == Reached(Range(order)) \ Range(order)

ReadEdges ==
    /\ pc = "edges"
    /\ near' = Reached(Range(order))
    /\ \E s \in SetToSeqs(Neighbours) : targets' = First(k - Len(out), s)
    /\ pc' = "fill"
    /\ UNCHANGED <<k, order, fair, out, deferred, status, lines>>

(* Bug: the room for the padding is measured before the edges.             *)
PaddingLong == Tagged(First(k - Len(out), deferred), "padding")

(* what the quota held back fills the rest                                 *)
Padding == Tagged(First(k - Len(out) - Len(targets), deferred), "padding")

(* _bodies of the neighbours, and the padding                              *)
Fill ==
    /\ pc = "fill"
    /\ IF Range(targets) \subseteq Known
       THEN /\ out' = out \o Tagged(targets, "edge") \o Padding
            /\ fair' = fair \cup (Range(targets) \cap trusted)
            /\ pc' = "reply"
            /\ UNCHANGED <<k, order, deferred, targets, near, status, lines>>
       ELSE Fail

(* Bug: cut off is what the quota held back.                               *)
CutDeferred == Range(deferred)

(* cut_off: the candidates that are not in the answer                      *)
CutOff == Range(order) \ IdeasOf(out)

Served == [status |-> 200, returned |-> out, cut |-> CutOff, quota |-> Quota,
           over |-> Max({0, Cardinality(IdeasOf(out) \ fair) - Quota})]

Reply ==
    /\ pc = "reply"
    /\ pc' = "idle" /\ status' = 200 /\ lines' = Append(lines, Served)
    /\ UNCHANGED <<k, ranking>>

(* A read raises, or the body does not validate.                           *)
Raise == pc # "idle" /\ Fail

Step == CountIndex \/ CountStore \/ Search \/ Bodies \/ ReadEdges \/ Fill \/ Reply

Retrieve ==
    /\ (\E n \in Ks : Ask(n)) \/ Step \/ Raise
    /\ UNCHANGED <<store, idx, job, writes>>

(***************************************************************************)
(* The jobs, one at a time.                                                *)
(***************************************************************************)
Begin(w) ==
    /\ writer = "idle" /\ writes < MaxWrites /\ writes' = writes + 1
    /\ writer' = w

(* Bug: the leaf is indexed before it is stored.                           *)
LinkIndexFirst(l, i) ==
    /\ Begin("index") /\ home[l] = None /\ idx[l] = None
    /\ idx' = [idx EXCEPT ![l] = i]
    /\ batch' = <<l, i>>
    /\ UNCHANGED <<store, snap, request>>

(* create_idea_with_theses, then index_theses: two files                   *)
Link(l, i) ==
    /\ Begin("index") /\ home[l] = None
    /\ home' = [home EXCEPT ![l] = i]
    /\ batch' = <<l, i>>
    /\ UNCHANGED <<trusted, edges, idx, snap, request>>

IndexLeaf ==
    /\ writer = "index" /\ writer' = "idle" /\ batch' = <<>>
    /\ idx' = [idx EXCEPT ![batch[1]] = batch[2]]
    /\ UNCHANGED <<store, snap, request, writes>>

(* split_idea, then reconcile; the parent keeps a leaf                     *)
MoveLeaf(l, i) ==
    /\ Begin("read") /\ home[l] # None /\ i \notin Known
    /\ \E m \in Leaves \ {l} : home[m] = home[l]
    /\ home' = [home EXCEPT ![l] = i]
    /\ UNCHANGED <<trusted, edges, idx, batch, snap, request>>

(* POST /admin/reindex, or a pass that finds the index apart               *)
Repair ==
    /\ Begin("read")
    /\ UNCHANGED <<store, idx, batch, snap, request>>

ReadAll ==
    /\ writer = "read" /\ writer' = "rebuild" /\ snap' = home
    /\ UNCHANGED <<store, idx, batch, request, writes>>

(* _rebuild: both tables are dropped first; refilling them may fail        *)
Rebuild ==
    /\ writer = "rebuild" /\ writer' = "idle" /\ snap' = Absent
    /\ idx' \in {snap, Absent}
    /\ UNCHANGED <<store, batch, request, writes>>

(* A pass that fails between its two files.                                *)
Abandon ==
    /\ writer \in {"index", "read"} /\ writer' = "idle" /\ batch' = <<>>
    /\ UNCHANGED <<store, idx, snap, request, writes>>

SetTrust(i) ==
    /\ Begin("idle") /\ i \in Known
    /\ trusted' \in {trusted \cup {i}, trusted \ {i}}
    /\ UNCHANGED <<home, edges, idx, batch, snap, request>>

Cite(e) ==
    /\ Begin("idle") /\ e[1] \in Known /\ e[2] \in Known
    /\ edges' = edges \cup {e}
    /\ UNCHANGED <<home, trusted, idx, batch, snap, request>>

Job ==
    \/ \E l \in Leaves, i \in Ideas : Link(l, i) \/ MoveLeaf(l, i)
    \/ IndexLeaf \/ Repair \/ ReadAll \/ Rebuild \/ Abandon
    \/ \E i \in Ideas : SetTrust(i)
    \/ \E e \in Links : Cite(e)

Next == Retrieve \/ Job

Spec == Init /\ [][Next]_vars

(***************************************************************************)
(* Properties.                                                             *)
(***************************************************************************)
Ranked == pc = "reply" \/ status = 200

(* An answer shorter than asked for leaves out no candidate and no         *)
(* neighbour of one: neither the quota nor the edges shorten it            *)
(* (rank.py, recall first).                                                *)
RecallFirst ==
    Ranked /\ Len(out) < k => Range(order) \cup near \subseteq IdeasOf(out)

(* More ideas without trust than the quota come in only when no trusted    *)
(* candidate is left out, whatever the judge does between the reads.       *)
QuotaGivesWay ==
    Ranked =>
      LET base == {out[n].idea : n \in {m \in DOMAIN out : out[m].via # "edge"}} \ fair
      IN  Cardinality(base) > Quota => Range(order) \cap fair \subseteq IdeasOf(out)

(* The line of an answer is the answer: what it returned and what it cut   *)
(* off are the candidates and the neighbours taken, nothing lost between;  *)
(* the line of a failure returns nothing; and every request that has an    *)
(* answer leaves one line (api._write_log, "never skipped").               *)
LogIsTheAnswer ==
    /\ pc = "idle" /\ status # 0 => Len(lines) = 1
    /\ \A n \in DOMAIN lines :
         /\ lines[n].status = status
         /\ status = 503 => lines[n].returned = <<>> /\ lines[n].cut = {}
         /\ status = 200 =>
              /\ lines[n].returned = out
              /\ lines[n].cut \cap IdeasOf(out) = {}
              /\ lines[n].cut \cup IdeasOf(out) = Range(order) \cup Range(targets)

(* A candidate and a neighbour are in the store when their bodies are      *)
(* read, while leaves arrive, move and are indexed anew: no request fails  *)
(* for a divergence that is not one (rank._bodies).                        *)
NoGhost ==
    /\ pc = "bodies" => Range(order) \subseteq Known
    /\ pc = "fill" => Range(targets) \subseteq Known

(* What api.py says of the boundary it holds: a broken store is not an     *)
(* empty answer.  It fails: the index is counted, a repair drops it and    *)
(* fails, and the search finds nothing.                                    *)
BrokenIsNotEmpty ==
    status = 200 /\ out = <<>> => Known = {} \/ writer = "index"

(* What api.py says of the gate: a few leaves of lag are not a wipe.  It   *)
(* fails for the first leaf of a lake.                                     *)
LagIsNotAWipe ==
    [][CountStore /\ status' = 503 => writer # "index"]_vars

=============================================================================
