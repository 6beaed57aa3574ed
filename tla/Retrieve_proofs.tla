--------------------------- MODULE Retrieve_proofs ---------------------------
(***************************************************************************)
(* POST /retrieve, for every lake, every length asked for and every quota. *)
(*                                                                         *)
(* The scan of the candidates is a recursive function, so what it returns  *)
(* takes an induction.  The induction theorems of the library take a       *)
(* predicate, which no prover here can instantiate; Induction takes a set  *)
(* of numbers and follows from WFMin, which takes a set too.  Iterates     *)
(* then gives the scan its existence and ScannedIs what it returns.        *)
(*                                                                         *)
(* AnswerInv says what each step of the request knows: the candidates are  *)
(* in the store (StoreInv, since the store never loses an idea), the scan  *)
(* that leaves room has looked at all of them (RoomLeft), the neighbours   *)
(* taken are all of them unless they fill the answer (Targeted).           *)
(***************************************************************************)
EXTENDS Retrieve, FiniteSetTheorems, SequenceTheorems, WellFoundedInduction, TLAPS

(* What the index and its repairs name is in the store: no step takes the *)
(* last leaf of an idea, and each file is written behind the store.       *)
StoreInv ==
    /\ \A l \in Leaves : idx[l] # None => idx[l] \in Known
    /\ \A l \in Leaves : snap[l] # None => snap[l] \in Known
    /\ writer = "index" => batch \in Leaves \X Known
    /\ \A e \in edges : e[1] \in Known /\ e[2] \in Known

(* Nothing is ranked before the bodies of the candidates are read.        *)
Unranked == fair = {} /\ out = <<>> /\ deferred = <<>> /\ targets = <<>> /\ near = {}

(* The candidates are read with room to spare: each is in the answer or   *)
(* held back, and what is held back has no trust.                         *)
RoomLeft ==
    /\ Len(out) < k
    /\ Range(order) = IdeasOf(out) \cup Range(deferred)
    /\ Range(order) \cap fair \subseteq IdeasOf(out)

(* The neighbours that fit, all of them unless they fill the answer.      *)
Targeted ==
    /\ near \subseteq Known
    /\ Range(targets) \subseteq near \ Range(order)
    /\ Len(targets) <= k - Len(out)
    /\ Len(targets) < k - Len(out) => near \subseteq Range(order) \cup Range(targets)

(* The answer is made of candidates and of the neighbours taken.          *)
Answered ==
    /\ Range(targets) \subseteq IdeasOf(out)
    /\ IdeasOf(out) \subseteq Range(order) \cup Range(targets)
    /\ RecallFirst /\ QuotaGivesWay

RequestInv ==
    /\ pc # "idle" => status = 0 /\ lines = <<>> /\ k \in Ks
    /\ pc \in {"gate", "counts", "search"} => order = <<>> /\ Unranked
    /\ pc = "bodies" => Range(order) \subseteq Known /\ Unranked
    /\ pc = "edges" => Range(order) \subseteq Known /\ RoomLeft /\ targets = <<>> /\ near = {}
    /\ pc = "fill" => RoomLeft /\ Targeted
    /\ Ranked => Answered
    /\ LogIsTheAnswer

AnswerInv == TypeOK /\ StoreInv /\ RequestInv

-----------------------------------------------------------------------------
(* A set of numbers with 0 and every successor is Nat: the form of        *)
(* induction that takes a set, where the library's take a predicate.      *)
LEMMA Induction ==
    ASSUME NEW S, S \subseteq Nat, 0 \in S, \A n \in S : n + 1 \in S
    PROVE  S = Nat
<1> DEFINE R == OpToRel(<, Nat)
<1>1. IsWellFoundedOn(R, Nat)
    BY NatLessThanWellFounded
<1>2. \A x, y \in Nat : y < x => <<y, x>> \in R
    BY DEF OpToRel
<1> HIDE DEF R
<1> SUFFICES ASSUME Nat \ S # {} PROVE FALSE
    OBVIOUS
<1>3. PICK x \in Nat \ S : \A y \in Nat \ S : ~ (<<y, x>> \in R)
    BY <1>1, WFMin
<1>4. x # 0 /\ x - 1 \in Nat /\ x - 1 < x
    BY <1>3
<1>5. x - 1 \in S
    BY <1>2, <1>3, <1>4
<1>6. QED
    BY <1>3, <1>4, <1>5

(* f makes n steps from a: such a function there is.                      *)
IsIteration(f, S, a, step) ==
    f \in [Nat -> S] /\ f[0] = a /\ \A n \in Nat : f[n + 1] = step[<<n, f[n]>>]

(* A step applied again and again gives a sequence: induction builds its  *)
(* prefixes, and they agree.                                              *)
LEMMA Iterates ==
    ASSUME NEW S, NEW a \in S, NEW step \in [Nat \X S -> S]
    PROVE  \E f : IsIteration(f, S, a, step)
<1> DEFINE Walks(n) == {g \in [0..n -> S] :
                          g[0] = a /\ \A m \in 0..(n - 1) : g[m + 1] = step[<<m, g[m]>>]}
           Walked == {n \in Nat : Walks(n) # {}}
<1>1. Walked = Nat
    <2>1. 0 \in Walked
        <3>1. [m \in 0..0 |-> a] \in Walks(0)
            OBVIOUS
        <3>2. QED
            BY <3>1
    <2>2. ASSUME NEW n \in Walked PROVE n + 1 \in Walked
        <3>1. PICK g \in [0..n -> S] :
                  g[0] = a /\ \A m \in 0..(n - 1) : g[m + 1] = step[<<m, g[m]>>]
            OBVIOUS
        <3> DEFINE h == [m \in 0..(n + 1) |-> IF m = n + 1 THEN step[<<n, g[n]>>] ELSE g[m]]
        <3>2. n \in Nat /\ g[n] \in S
            OBVIOUS
        <3>3. step[<<n, g[n]>>] \in S
            BY <3>2
        <3>4. h \in [0..(n + 1) -> S]
            BY <3>2, <3>3
        <3>5. h[0] = a
            BY <3>1, <3>2
        <3>6. ASSUME NEW m \in 0..n PROVE h[m + 1] = step[<<m, h[m]>>]
            <4>1. CASE m = n
                BY <4>1, <3>2
            <4>2. CASE m < n
                BY <4>2, <3>1, <3>2
            <4>3. QED
                BY <4>1, <4>2, <3>2
        <3> HIDE DEF h
        <3>7. h \in Walks(n + 1)
            <4>1. (n + 1) - 1 = n
                BY <3>2
            <4>2. QED
                BY <4>1, <3>4, <3>5, <3>6
        <3>8. QED
            BY <3>2, <3>7
    <2> HIDE DEF Walked
    <2>3. Walked \subseteq Nat
        BY DEF Walked
    <2>4. QED
        BY <2>1, <2>2, <2>3, Induction
<1>2. ASSUME NEW n \in Nat, NEW g \in Walks(n), NEW h \in Walks(n + 1)
      PROVE  g[n] = h[n]
    <2> DEFINE Same == {m \in Nat : m <= n => g[m] = h[m]}
    <2>1. 0 \in Same
        OBVIOUS
    <2>2. ASSUME NEW m \in Same PROVE m + 1 \in Same
        <3>1. CASE m + 1 <= n
            <4>1. m \in 0..(n - 1) /\ m \in 0..n /\ g[m] = h[m]
                BY <3>1
            <4>2. g[m + 1] = step[<<m, g[m]>>]
                BY <4>1
            <4>3. h[m + 1] = step[<<m, h[m]>>]
                BY <4>1
            <4>4. QED
                BY <4>1, <4>2, <4>3
        <3>2. QED
            BY <3>1
    <2> HIDE DEF Same
    <2>3. Same = Nat
        <3>1. Same \subseteq Nat
            BY DEF Same
        <3>2. QED
            BY <2>1, <2>2, <3>1, Induction
    <2>4. QED
        BY <2>3 DEF Same
<1> DEFINE f == [n \in Nat |-> (CHOOSE g \in Walks(n) : TRUE)[n]]
<1>3. ASSUME NEW n \in Nat PROVE \E g \in Walks(n) : f[n] = g[n]
    <2>1. Walks(n) # {}
        BY <1>1
    <2> HIDE DEF Walks
    <2>2. (CHOOSE g \in Walks(n) : TRUE) \in Walks(n)
        BY <2>1
    <2>3. f[n] = (CHOOSE g \in Walks(n) : TRUE)[n]
        OBVIOUS
    <2> HIDE DEF f
    <2>4. QED
        BY <2>2, <2>3
<1>4. f[0] = a
    BY <1>3
<1>5. f \in [Nat -> S]
    <2>1. ASSUME NEW n \in Nat PROVE f[n] \in S
        BY <1>3
    <2>2. QED
        BY <2>1
<1> HIDE DEF f
<1>6. ASSUME NEW n \in Nat PROVE f[n + 1] = step[<<n, f[n]>>]
    <2>1. PICK g \in Walks(n) : f[n] = g[n]
        BY <1>3
    <2>2. PICK h \in Walks(n + 1) : f[n + 1] = h[n + 1]
        <3>1. n + 1 \in Nat
            OBVIOUS
        <3> HIDE DEF Walks
        <3>2. QED
            BY <1>3, <3>1
    <2>3. h[n + 1] = step[<<n, h[n]>>]
        BY <2>2
    <2>4. g[n] = h[n]
        BY <1>2, <2>1, <2>2
    <2>5. QED
        BY <2>1, <2>2, <2>3, <2>4
<1>7. QED
    BY <1>4, <1>5, <1>6 DEF IsIteration

-----------------------------------------------------------------------------
(* What the scan has put where.                                           *)
Scans == [out : Seq(Ideas), deferred : Seq(Ideas), used : Nat]
Nothing == [out |-> <<>>, deferred |-> <<>>, used |-> 0]

(* One candidate examined, field by field: taken, held back, or not       *)
(* looked at in a full answer.                                            *)
LEMMA ExaminedIsScan ==
    ASSUME NEW acc \in Scans, NEW i \in Ideas
    PROVE  /\ Examined(acc, i) \in Scans
           /\ Len(acc.out) = k => Examined(acc, i) = acc
           /\ Len(acc.out) # k /\ Takes(acc, i) =>
                  Examined(acc, i) = [out |-> Append(acc.out, i), deferred |-> acc.deferred,
                                      used |-> IF i \in trusted THEN acc.used ELSE acc.used + 1]
           /\ Len(acc.out) # k /\ ~Takes(acc, i) =>
                  Examined(acc, i) = [out |-> acc.out, deferred |-> Append(acc.deferred, i),
                                      used |-> acc.used]
<1>1. PICK o \in Seq(Ideas), d \in Seq(Ideas), u \in Nat :
          acc = [out |-> o, deferred |-> d, used |-> u]
    BY DEF Scans
<1>2. Append(o, i) \in Seq(Ideas) /\ Append(d, i) \in Seq(Ideas)
    BY <1>1
<1>3. ASSUME NEW x \in Seq(Ideas), NEW y \in Seq(Ideas), NEW z \in Nat
      PROVE  [out |-> x, deferred |-> y, used |-> z] \in Scans
    BY DEF Scans
<1>4. CASE Len(o) = k
    BY <1>1, <1>4 DEF Examined
<1>5. CASE Len(o) # k /\ ~Takes(acc, i)
    <2>1. Examined(acc, i) = [out |-> o, deferred |-> Append(d, i), used |-> u]
        BY <1>1, <1>5 DEF Examined
    <2>2. QED
        BY <1>1, <1>2, <1>3, <1>5, <2>1
<1>6. CASE Len(o) # k /\ Takes(acc, i)
    <2> DEFINE v == IF i \in trusted THEN u ELSE u + 1
    <2>1. v \in Nat
        BY <1>1
    <2>2. Examined(acc, i) = [out |-> Append(o, i), deferred |-> d, used |-> v]
        BY <1>1, <1>6 DEF Examined
    <2>3. Examined(acc, i) \in Scans
        <3> HIDE DEF v
        <3>1. QED
            BY <1>2, <1>3, <2>1, <2>2
    <2>4. QED
        BY <1>1, <1>6, <2>2, <2>3
<1>7. QED
    BY <1>1, <1>4, <1>5, <1>6

(* The scan is what its definition says of it.                            *)
LEMMA ScanRuns ==
    ASSUME order \in Seq(Ideas)
    PROVE  /\ After[0] = Nothing
           /\ \A n \in 1..Len(order) : After[n] = Examined(After[n - 1], order[n])
<1> DEFINE N == 0..Len(order)
           step == [x \in Nat \X Scans |->
                       IF x[1] + 1 \in N THEN Examined(x[2], order[x[1] + 1]) ELSE x[2]]
           Def(f) == [n \in N |-> IF n = 0 THEN Nothing ELSE Examined(f[n - 1], order[n])]
<1>1. Nothing \in Scans
    BY DEF Nothing, Scans
<1>2. step \in [Nat \X Scans -> Scans]
    BY ExaminedIsScan
<1>3. PICK f : IsIteration(f, Scans, Nothing, step)
    <2> HIDE DEF step
    <2>1. QED
        BY <1>1, <1>2, Iterates
<1> DEFINE g == [n \in N |-> f[n]]
<1>4. ASSUME NEW n \in N, n # 0 PROVE f[n] = Examined(f[n - 1], order[n])
    <2>1. n - 1 \in Nat /\ (n - 1) + 1 = n
        BY <1>4
    <2>2. f[n] = step[<<n - 1, f[n - 1]>>]
        BY <1>3, <2>1 DEF IsIteration
    <2>3. f[n - 1] \in Scans
        BY <1>3, <2>1 DEF IsIteration
    <2>4. QED
        BY <2>1, <2>2, <2>3
<1>5. g = Def(g)
    <2>1. ASSUME NEW n \in N PROVE g[n] = Def(g)[n]
        <3>1. CASE n = 0
            BY <3>1, <1>3 DEF IsIteration
        <3>2. CASE n # 0
            <4>1. n - 1 \in N
                BY <3>2
            <4>2. QED
                BY <3>2, <4>1, <1>4
        <3>3. QED
            BY <3>1, <3>2
    <2>2. QED
        BY <2>1
<1>6. After = CHOOSE h : h = Def(h)
    BY DEF After, Nothing
<1>7. After = Def(After)
    <2> HIDE DEF Def, g
    <2>1. QED
        BY <1>5, <1>6
<1>8. QED
    BY <1>7

(* An element appended is one more element and one more place.            *)
LEMMA RangeAppend ==
    ASSUME NEW S, NEW s \in Seq(S), NEW e \in S
    PROVE  Range(Append(s, e)) = Range(s) \cup {e} /\ Len(Append(s, e)) = Len(s) + 1
<1>1. /\ Len(Append(s, e)) = Len(s) + 1 /\ Len(s) \in Nat
      /\ DOMAIN s = 1..Len(s) /\ DOMAIN Append(s, e) = 1..(Len(s) + 1)
      /\ \A n \in 1..Len(s) : Append(s, e)[n] = s[n]
      /\ Append(s, e)[Len(s) + 1] = e
    OBVIOUS
<1>2. ASSUME NEW x \in Range(Append(s, e)) PROVE x \in Range(s) \cup {e}
    <2>1. PICK n \in 1..(Len(s) + 1) : x = Append(s, e)[n]
        BY <1>1 DEF Range
    <2>2. CASE n = Len(s) + 1
        BY <1>1, <2>1, <2>2
    <2>3. CASE n # Len(s) + 1
        <3>1. n \in 1..Len(s)
            BY <1>1, <2>1, <2>3
        <3>2. QED
            BY <1>1, <2>1, <3>1 DEF Range
    <2>4. QED
        BY <2>2, <2>3
<1>3. ASSUME NEW x \in Range(s) \cup {e} PROVE x \in Range(Append(s, e))
    <2>1. CASE x = e
        BY <1>1, <2>1 DEF Range
    <2>2. CASE x \in Range(s)
        <3>1. PICK n \in 1..Len(s) : x = s[n]
            BY <1>1, <2>2 DEF Range
        <3>2. n \in 1..(Len(s) + 1) /\ x = Append(s, e)[n]
            BY <1>1, <3>1
        <3>3. QED
            BY <1>1, <3>2 DEF Range
    <2>3. QED
        BY <1>3, <2>1, <2>2
<1>4. QED
    BY <1>1, <1>2, <1>3

(* The quota is a number, for any length asked for.                       *)
LEMMA QuotaType ==
    ASSUME k \in Nat
    PROVE  Quota \in Nat
BY RetrieveAssumption DEF Quota

(* At most u ideas of o are without trust.                                *)
Few(o, u) == IsFiniteSet(Range(o) \ trusted) /\ Cardinality(Range(o) \ trusted) <= u

(* What a scan of the ideas in seen has put where.                        *)
ScanOf(acc, seen) ==
    /\ acc \in Scans
    /\ Len(acc.out) <= k /\ acc.used <= Quota
    /\ Range(acc.out) \subseteq seen /\ Range(acc.deferred) \subseteq seen
    /\ Few(acc.out, acc.used)
    /\ Len(acc.out) < k => /\ seen = Range(acc.out) \cup Range(acc.deferred)
                           /\ seen \cap trusted \subseteq Range(acc.out)

(* The scan of no candidate.                                              *)
LEMMA ScanStarts ==
    ASSUME k \in Nat
    PROVE  ScanOf(Nothing, {})
<1>1. Range(<<>>) = {}
    BY DEF Range
<1>2. IsFiniteSet({}) /\ Cardinality({}) = 0
    BY FS_EmptySet
<1>3. {} \ trusted = {}
    OBVIOUS
<1>4. Quota \in Nat
    BY QuotaType
<1>5. Nothing.out = <<>> /\ Nothing.deferred = <<>> /\ Nothing.used = 0 /\ Nothing \in Scans
    BY DEF Nothing, Scans
<1>6. Few(<<>>, 0)
    <2>1. Range(<<>>) \ trusted = {}
        BY <1>1
    <2>2. IsFiniteSet(Range(<<>>) \ trusted) /\ Cardinality(Range(<<>>) \ trusted) = 0
        BY <1>2, <2>1, Zenon
    <2>3. QED
        BY <2>2 DEF Few
<1>7. QED
    BY <1>1, <1>4, <1>5, <1>6 DEF ScanOf

(* The scan of one more candidate: what was taken and what was held back  *)
(* are still all there is.                                                *)
LEMMA ScanStep ==
    ASSUME k \in Nat, NEW seen, NEW acc, ScanOf(acc, seen), NEW i \in Ideas
    PROVE  ScanOf(Examined(acc, i), seen \cup {i})
<1> DEFINE next == Examined(acc, i)
<1> SUFFICES ScanOf(next, seen \cup {i})
    OBVIOUS
<1>1. /\ acc \in Scans /\ acc.out \in Seq(Ideas) /\ acc.deferred \in Seq(Ideas)
      /\ acc.used \in Nat /\ Len(acc.out) \in Nat
    BY DEF ScanOf, Scans
<1>2. next \in Scans
    BY <1>1, ExaminedIsScan
<1>3. Quota \in Nat
    BY QuotaType
<1>4. /\ Range(Append(acc.out, i)) = Range(acc.out) \cup {i}
      /\ Len(Append(acc.out, i)) = Len(acc.out) + 1
      /\ Range(Append(acc.deferred, i)) = Range(acc.deferred) \cup {i}
    BY <1>1, RangeAppend
<1>5. CASE Len(acc.out) = k
    <2>1. next = acc
        BY <1>1, <1>5, ExaminedIsScan
    <2> HIDE DEF next
    <2>2. /\ Few(acc.out, acc.used) /\ acc.used <= Quota
          /\ Range(acc.out) \subseteq seen /\ Range(acc.deferred) \subseteq seen
        BY DEF ScanOf
    <2>3. ScanOf(acc, seen \cup {i})
        BY <1>1, <1>5, <2>2 DEF ScanOf
    <2>4. QED
        BY <2>1, <2>3
<1>6. CASE Len(acc.out) # k /\ ~Takes(acc, i)
    <2>1. next.out = acc.out /\ next.deferred = Append(acc.deferred, i) /\ next.used = acc.used
        BY <1>1, <1>6, ExaminedIsScan
    <2>2. i \notin trusted
        BY <1>6 DEF Takes
    <2> HIDE DEF next
    <2>3. Few(next.out, next.used) /\ next.used <= Quota /\ Len(next.out) <= k
        BY <2>1 DEF ScanOf
    <2>4. /\ Range(next.out) = Range(acc.out)
          /\ Range(next.deferred) = Range(acc.deferred) \cup {i}
        BY <1>4, <2>1
    <2>5. Range(next.out) \subseteq seen \cup {i} /\ Range(next.deferred) \subseteq seen \cup {i}
        BY <2>4 DEF ScanOf
    <2>6. ASSUME Len(next.out) < k
          PROVE  /\ seen \cup {i} = Range(next.out) \cup Range(next.deferred)
                 /\ (seen \cup {i}) \cap trusted \subseteq Range(next.out)
        <3>1. /\ seen = Range(acc.out) \cup Range(acc.deferred)
              /\ seen \cap trusted \subseteq Range(acc.out)
            BY <2>1, <2>6 DEF ScanOf
        <3>2. QED
            BY <2>2, <2>4, <3>1
    <2>7. QED
        BY <1>2, <2>3, <2>5, <2>6 DEF ScanOf
<1>7. CASE Len(acc.out) # k /\ Takes(acc, i)
    <2>1. /\ next.out = Append(acc.out, i) /\ next.deferred = acc.deferred
          /\ next.used = IF i \in trusted THEN acc.used ELSE acc.used + 1
        BY <1>1, <1>7, ExaminedIsScan
    <2> HIDE DEF next
    <2>2. next.used <= Quota
        BY <1>1, <1>3, <1>7, <2>1 DEF ScanOf, Takes
    <2> DEFINE old == Range(acc.out) \ trusted
    <2>3. Few(next.out, next.used)
        <3>1. IsFiniteSet(old) /\ Cardinality(old) <= acc.used
            BY DEF ScanOf, Few
        <3>2. CASE i \in trusted
            <4>1. Range(next.out) \ trusted = old
                BY <1>4, <2>1, <3>2
            <4> HIDE DEF old
            <4>2. QED
                BY <2>1, <3>1, <3>2, <4>1 DEF Few
        <3>3. CASE i \notin trusted
            <4>1. Range(next.out) \ trusted = old \cup {i}
                BY <1>4, <2>1, <3>3
            <4> HIDE DEF old
            <4>2. IsFiniteSet(old \cup {i}) /\ Cardinality(old \cup {i}) <= Cardinality(old) + 1
                  /\ Cardinality(old) \in Nat
                BY <3>1, FS_AddElement, FS_CardinalityType
            <4>3. Cardinality(old \cup {i}) <= acc.used + 1
                <5>1. Cardinality(old \cup {i}) \in Nat
                    BY <4>2, FS_CardinalityType
                <5>2. QED
                    BY <1>1, <3>1, <4>2, <5>1
            <4>4. QED
                BY <2>1, <3>3, <4>1, <4>2, <4>3 DEF Few
        <3>4. QED
            BY <3>2, <3>3
    <2> HIDE DEF old
    <2>4. Len(next.out) <= k
        BY <1>1, <1>4, <1>7, <2>1 DEF ScanOf
    <2>5. Range(next.out) \subseteq seen \cup {i} /\ Range(next.deferred) \subseteq seen \cup {i}
        BY <1>4, <2>1 DEF ScanOf
    <2>6. ASSUME Len(next.out) < k
          PROVE  /\ seen \cup {i} = Range(next.out) \cup Range(next.deferred)
                 /\ (seen \cup {i}) \cap trusted \subseteq Range(next.out)
        <3>1. Len(acc.out) < k
            BY <1>1, <1>4, <2>1, <2>6
        <3>2. /\ seen = Range(acc.out) \cup Range(acc.deferred)
              /\ seen \cap trusted \subseteq Range(acc.out)
            BY <3>1 DEF ScanOf
        <3>3. QED
            BY <1>4, <2>1, <3>2
    <2>7. QED
        BY <1>2, <2>2, <2>3, <2>4, <2>5, <2>6, Zenon DEF ScanOf
<1>8. QED
    BY <1>5, <1>6, <1>7

(* rank: the scan fills the answer, or has looked at every candidate.     *)
LEMMA ScannedIs ==
    ASSUME k \in Nat, order \in Seq(Ideas)
    PROVE  ScanOf(Scanned, Range(order))
<1> DEFINE Seen(n) == {order[m] : m \in 1..n}
           Sound == {n \in Nat : n <= Len(order) => ScanOf(After[n], Seen(n))}
<1>1. 0 \in Sound
    <2>1. Seen(0) = {} /\ After[0] = Nothing
        BY ScanRuns
    <2> HIDE DEF Seen
    <2>2. QED
        BY <2>1, ScanStarts
<1>2. ASSUME NEW n \in Sound, n + 1 <= Len(order) PROVE ScanOf(After[n + 1], Seen(n + 1))
    <2>1. n \in Nat /\ n + 1 \in 1..Len(order) /\ (n + 1) - 1 = n
        BY <1>2
    <2>2. After[n + 1] = Examined(After[n], order[n + 1])
        BY <2>1, ScanRuns
    <2>3. Seen(n + 1) = Seen(n) \cup {order[n + 1]}
        BY <2>1
    <2>4. ScanOf(After[n], Seen(n)) /\ order[n + 1] \in Ideas
        BY <1>2, <2>1
    <2> HIDE DEF Seen
    <2>5. ScanOf(Examined(After[n], order[n + 1]), Seen(n) \cup {order[n + 1]})
        BY <2>4, ScanStep
    <2>6. QED
        BY <2>2, <2>3, <2>5
<1>3. Sound = Nat
    <2>1. \A n \in Sound : n + 1 \in Sound
        <3> HIDE DEF Seen
        <3>1. QED
            BY <1>2
    <2>2. Sound \subseteq Nat
        OBVIOUS
    <2> HIDE DEF Sound
    <2>3. QED
        BY <1>1, <2>1, <2>2, Induction
<1>4. Seen(Len(order)) = Range(order) /\ Len(order) \in Nat
    BY DEF Range
<1> HIDE DEF Seen
<1>5. ScanOf(After[Len(order)], Seen(Len(order)))
    BY <1>3, <1>4
<1>6. QED
    BY <1>4, <1>5 DEF Scanned

-----------------------------------------------------------------------------
(* The first n of a sequence, or all of it.                               *)
LEMMA FirstIs ==
    ASSUME NEW S, NEW s \in Seq(S), NEW n \in Nat
    PROVE  /\ First(n, s) \in Seq(S) /\ Len(First(n, s)) <= n
           /\ Range(First(n, s)) \subseteq Range(s)
           /\ Len(First(n, s)) < n => Range(First(n, s)) = Range(s)
<1> DEFINE l == Len(s)
           m == IF n < l THEN n ELSE l
<1>1. l \in Nat /\ DOMAIN s = 1..l
    OBVIOUS
<1> HIDE DEF l
<1>2. m \in 0..l /\ m <= n /\ (m < n => m = l) /\ (m = n \/ m = l)
    BY <1>1
<1> HIDE DEF m
<1>3. Min({n, l}) = m
    <2>1. m \in {n, l} /\ \A y \in {n, l} : m <= y
        BY <1>1, <1>2
    <2>2. ASSUME NEW x \in {n, l}, \A y \in {n, l} : x <= y
          PROVE  x = m
        BY <1>1, <1>2, <2>2
    <2>3. QED
        BY <2>1, <2>2 DEF Min
<1>4. First(n, s) = SubSeq(s, 1, m)
    BY <1>3 DEF First, l
<1>5. /\ SubSeq(s, 1, m) \in Seq(S) /\ Len(SubSeq(s, 1, m)) = m
      /\ \A x \in 1..m : SubSeq(s, 1, m)[x] = s[x]
    <2>1. /\ m \in Int /\ 1 \in Int /\ m - 1 + 1 = m /\ \A x \in 1..m : 1 + x - 1 = x
          /\ (IF 1 <= m THEN m - 1 + 1 ELSE 0) = m
        BY <1>1, <1>2
    <2>2. \A x \in 1..m : x \in 1..l
        BY <1>1, <1>2
    <2>3. \A x \in 1..m : s[x] \in S
        BY <2>2 DEF l
    <2>4. /\ SubSeq(s, 1, m) \in Seq(S)
          /\ Len(SubSeq(s, 1, m)) = IF 1 <= m THEN m - 1 + 1 ELSE 0
          /\ \A x \in 1..(m - 1 + 1) : SubSeq(s, 1, m)[x] = s[1 + x - 1]
        BY <2>1, <2>3, SubSeqProperties
    <2>5. QED
        BY <2>1, <2>4
<1>6. Range(SubSeq(s, 1, m)) = {s[x] : x \in 1..m}
    <2>1. DOMAIN SubSeq(s, 1, m) = 1..m
        BY <1>2, <1>5
    <2>2. QED
        BY <1>5, <2>1 DEF Range
<1>7. Range(s) = {s[x] : x \in 1..l}
    BY <1>1 DEF Range
<1>8. 1..m \subseteq 1..l
    BY <1>1, <1>2
<1>9. QED
    BY <1>2, <1>4, <1>5, <1>6, <1>7, <1>8

(* Every element of a set has its place in an ordering of the set.        *)
LEMMA OrderingIs ==
    ASSUME NEW S, IsFiniteSet(S), NEW f \in SetToSeqs(S)
    PROVE  f \in Seq(S) /\ Range(f) = S
<1> DEFINE n == Cardinality(S)
<1>1. n \in Nat
    BY FS_CardinalityType
<1> HIDE DEF n
<1>2. f \in [1..n -> S] /\ \A i, j \in 1..n : i # j => f[i] # f[j]
    BY DEF SetToSeqs, n
<1>3. f \in Seq(S)
    BY <1>1, <1>2
<1>4. f \in Injection(1..n, S)
    BY <1>2 DEF Injection, IsInjective
<1>5. Cardinality(1..n) = n
    BY <1>1, FS_Interval
<1>6. f \in Surjection(1..n, S)
    BY <1>4, <1>5, FS_Injection DEF n
<1>7. Range(f) = S
    BY <1>2, <1>6 DEF Surjection, Range
<1>8. QED
    BY <1>3, <1>7

(* Ideas put into an answer keep their number and their names.            *)
LEMMA TaggedIs ==
    ASSUME NEW s \in Seq(Ideas), NEW via \in Vias
    PROVE  /\ Tagged(s, via) \in Seq(Items) /\ Len(Tagged(s, via)) = Len(s)
           /\ IdeasOf(Tagged(s, via)) = Range(s)
<1>1. Len(s) \in Nat /\ DOMAIN s = 1..Len(s) /\ \A n \in 1..Len(s) : s[n] \in Ideas
    OBVIOUS
<1>2. DOMAIN Tagged(s, via) = 1..Len(s)
    BY <1>1 DEF Tagged
<1>3. \A n \in 1..Len(s) : Tagged(s, via)[n] = [idea |-> s[n], via |-> via]
    BY <1>1 DEF Tagged
<1>4. Tagged(s, via) \in [1..Len(s) -> Items]
    <2>1. ASSUME NEW n \in 1..Len(s) PROVE Tagged(s, via)[n] \in Items
        <3>1. s[n] \in Ideas
            BY <1>1
        <3>2. [idea |-> s[n], via |-> via] \in Items
            BY <3>1 DEF Items
        <3>3. QED
            BY <1>3, <3>2
    <2>2. Tagged(s, via) = [n \in 1..Len(s) |-> Tagged(s, via)[n]]
        BY <1>1 DEF Tagged
    <2>3. QED
        BY <2>1, <2>2
<1>5. ASSUME NEW n \in 1..Len(s) PROVE Tagged(s, via)[n].idea = s[n]
    <2>1. Tagged(s, via)[n] = [idea |-> s[n], via |-> via]
        BY <1>3
    <2>2. QED
        BY <2>1
<1>6. IdeasOf(Tagged(s, via)) = {s[n] : n \in 1..Len(s)}
    BY <1>2, <1>5 DEF IdeasOf
<1>7. Range(s) = {s[n] : n \in 1..Len(s)}
    BY <1>1 DEF Range
<1>8. Tagged(s, via) \in Seq(Items) /\ Len(Tagged(s, via)) = Len(s)
    BY <1>1, <1>2, <1>4
<1>9. QED
    BY <1>6, <1>7, <1>8

(* The ideas of two answers one after the other.                          *)
LEMMA IdeasOfConcat ==
    ASSUME NEW a \in Seq(Items), NEW b \in Seq(Items)
    PROVE  a \o b \in Seq(Items) /\ Len(a \o b) = Len(a) + Len(b)
           /\ IdeasOf(a \o b) = IdeasOf(a) \cup IdeasOf(b)
<1>1. /\ a \o b \in Seq(Items) /\ Len(a \o b) = Len(a) + Len(b)
      /\ Len(a) \in Nat /\ Len(b) \in Nat
      /\ DOMAIN a = 1..Len(a) /\ DOMAIN b = 1..Len(b)
    BY ConcatProperties
<1>2. DOMAIN (a \o b) = 1..(Len(a) + Len(b))
    BY <1>1
<1>3. /\ \A n \in 1..Len(a) : (a \o b)[n] = a[n]
      /\ \A n \in 1..Len(b) : (a \o b)[Len(a) + n] = b[n]
    <2>1. \A n \in 1..(Len(a) + Len(b)) :
              (a \o b)[n] = IF n <= Len(a) THEN a[n] ELSE b[n - Len(a)]
        BY ConcatProperties
    <2>2. QED
        BY <1>1, <2>1
<1>4. ASSUME NEW x \in IdeasOf(a \o b) PROVE x \in IdeasOf(a) \cup IdeasOf(b)
    <2>1. PICK n \in 1..(Len(a) + Len(b)) : x = (a \o b)[n].idea
        BY <1>2 DEF IdeasOf
    <2>2. CASE n <= Len(a)
        BY <1>1, <1>3, <2>1, <2>2 DEF IdeasOf
    <2>3. CASE n > Len(a)
        <3>1. n - Len(a) \in 1..Len(b) /\ Len(a) + (n - Len(a)) = n
            BY <1>1, <2>1, <2>3
        <3>2. x = b[n - Len(a)].idea
            BY <1>3, <2>1, <3>1
        <3>3. QED
            BY <1>1, <3>1, <3>2 DEF IdeasOf
    <2>4. QED
        BY <1>1, <2>2, <2>3
<1>5. ASSUME NEW x \in IdeasOf(a) PROVE x \in IdeasOf(a \o b)
    <2>1. PICK n \in 1..Len(a) : x = a[n].idea
        BY <1>1 DEF IdeasOf
    <2>2. n \in 1..(Len(a) + Len(b)) /\ x = (a \o b)[n].idea
        BY <1>1, <1>3, <2>1
    <2>3. QED
        BY <1>2, <2>2 DEF IdeasOf
<1>6. ASSUME NEW x \in IdeasOf(b) PROVE x \in IdeasOf(a \o b)
    <2>1. PICK n \in 1..Len(b) : x = b[n].idea
        BY <1>1 DEF IdeasOf
    <2>2. Len(a) + n \in 1..(Len(a) + Len(b)) /\ x = (a \o b)[Len(a) + n].idea
        BY <1>1, <1>3, <2>1
    <2>3. QED
        BY <1>2, <2>2 DEF IdeasOf
<1>7. IdeasOf(a \o b) = IdeasOf(a) \cup IdeasOf(b)
    BY <1>4, <1>5, <1>6
<1>8. QED
    BY <1>1, <1>7

(* The ideas of an answer are ideas, and so a number of them.             *)
LEMMA IdeasOfType ==
    ASSUME NEW s \in Seq(Items)
    PROVE  IdeasOf(s) \subseteq Ideas
<1>1. \A n \in DOMAIN s : s[n] \in Items
    OBVIOUS
<1>2. QED
    BY <1>1 DEF IdeasOf, Items

(* What an answer shows over its quota is an integer.                     *)
LEMMA OverType ==
    ASSUME NEW S \in SUBSET Ideas, k \in Nat
    PROVE  Max({0, Cardinality(S) - Quota}) \in Int
<1>1. IsFiniteSet(S)
    BY RetrieveAssumption, FS_Subset
<1>2. Cardinality(S) \in Nat /\ Quota \in Nat
    BY <1>1, FS_CardinalityType, QuotaType
<1> DEFINE c == Cardinality(S) - Quota
           m == IF c > 0 THEN c ELSE 0
<1>3. c \in Int
    BY <1>2
<1> HIDE DEF c
<1>4. m \in {0, c} /\ \A y \in {0, c} : m >= y
    BY <1>3
<1>5. \E x \in {0, c} : \A y \in {0, c} : x >= y
    BY <1>4
<1>6. Max({0, c}) \in {0, c}
    BY <1>5 DEF Max
<1>7. QED
    BY <1>3, <1>6 DEF c

-----------------------------------------------------------------------------
(***************************************************************************)
(* The jobs: the request stays where it is, and the store only learns.     *)
(***************************************************************************)
LEMMA RequestWaits ==
    ASSUME RequestInv, UNCHANGED request, Known \subseteq Known'
    PROVE  RequestInv'
<1> USE DEF request, ranking
<1>1. Ranked' <=> Ranked
    BY DEF Ranked
<1>2. /\ IdeasOf(out)' = IdeasOf(out) /\ Range(order)' = Range(order)
      /\ Range(targets)' = Range(targets) /\ Range(deferred)' = Range(deferred)
    BY DEF IdeasOf, Range
<1>3. RecallFirst' <=> RecallFirst
    BY <1>1, <1>2 DEF RecallFirst
<1>4. QuotaGivesWay' <=> QuotaGivesWay
    BY <1>1, <1>2 DEF QuotaGivesWay, Quota
<1>5. LogIsTheAnswer' <=> LogIsTheAnswer
    BY <1>2 DEF LogIsTheAnswer
<1>6. Answered' <=> Answered
    BY <1>2, <1>3, <1>4 DEF Answered
<1>7. Unranked' <=> Unranked
    BY DEF Unranked
<1>8. RoomLeft' <=> RoomLeft
    BY <1>2 DEF RoomLeft
<1>9. Targeted => Targeted'
    BY <1>2 DEF Targeted
<1>10. QED
    BY <1>1, <1>2, <1>5, <1>6, <1>7, <1>8, <1>9 DEF RequestInv

(* Every idea the store has it keeps: a new leaf adds one, and a split    *)
(* leaves the idea it takes from another leaf.                            *)
LEMMA StoreLearns ==
    ASSUME home \in [Leaves -> Ideas \cup {None}], NEW l \in Leaves, NEW i \in Ideas,
           home' = [home EXCEPT ![l] = i],
           home[l] # None => \E m \in Leaves \ {l} : home[m] = home[l]
    PROVE  Known \subseteq Known' /\ i \in Known'
<1>1. \A m \in Leaves : home'[m] = IF m = l THEN i ELSE home[m]
    OBVIOUS
<1>2. i \in Known'
    BY <1>1, RetrieveAssumption DEF Known
<1>3. ASSUME NEW x \in Known PROVE x \in Known'
    <2>1. PICK m \in Leaves : home[m] = x /\ x # None
        BY DEF Known
    <2>2. CASE m # l
        BY <1>1, <2>1, <2>2 DEF Known
    <2>3. CASE m = l
        <3>1. PICK n \in Leaves \ {l} : home[n] = x
            BY <2>1, <2>3
        <3>2. QED
            BY <1>1, <2>1, <3>1 DEF Known
    <2>4. QED
        BY <2>2, <2>3
<1>4. QED
    BY <1>2, <1>3

(* What the index and the edges name stays in a store that learns.        *)
LEMMA NamesStay ==
    ASSUME StoreInv, Known \subseteq Known', UNCHANGED <<idx, snap, edges>>,
           writer' = "index" => batch' \in Leaves \X Known'
    PROVE  StoreInv'
BY DEF StoreInv

(* A step of the writer: the store learns, and index and edges follow     *)
(* it; the request does not move.                                         *)
LEMMA JobStep ==
    ASSUME TypeOK, StoreInv, RequestInv, Job
    PROVE  TypeOK' /\ StoreInv' /\ RequestInv'
<1> USE RetrieveAssumption
<1>1. ASSUME NEW l \in Leaves, NEW i \in Ideas, Link(l, i) \/ MoveLeaf(l, i)
      PROVE  TypeOK' /\ StoreInv' /\ RequestInv'
    <2>1. home' = [home EXCEPT ![l] = i] /\ UNCHANGED <<trusted, edges, idx, snap, request>>
        BY <1>1 DEF Link, MoveLeaf
    <2>2. home[l] # None => \E m \in Leaves \ {l} : home[m] = home[l]
        BY <1>1 DEF Link, MoveLeaf
    <2>3. Known \subseteq Known' /\ i \in Known'
        BY <2>1, <2>2, StoreLearns DEF TypeOK
    <2>4. /\ writer' \in {"index", "read"} /\ writes' \in 0..MaxWrites
          /\ batch' \in (Leaves \X Ideas) \cup {<<>>}
          /\ writer' = "index" => batch' \in Leaves \X Known'
        BY <1>1, <2>3 DEF Link, MoveLeaf, Begin, TypeOK
    <2>5. TypeOK'
        BY <2>1, <2>4 DEF TypeOK, request, ranking
    <2>6. StoreInv'
        BY <2>1, <2>3, <2>4, NamesStay
    <2>7. QED
        BY <2>1, <2>3, <2>5, <2>6, RequestWaits
<1>2. ASSUME home' = home PROVE Known' = Known
    BY <1>2 DEF Known
<1>3. CASE IndexLeaf
    <2>1. /\ UNCHANGED <<home, trusted, edges, snap, request, writes>> /\ writer' = "idle"
          /\ batch' = <<>> /\ idx' = [idx EXCEPT ![batch[1]] = batch[2]]
          /\ batch \in Leaves \X Known
        BY <1>3 DEF IndexLeaf, StoreInv, store
    <2>2. Known' = Known /\ Known \subseteq Ideas
        BY <1>2, <2>1 DEF Known, TypeOK
    <2>3. /\ idx' \in [Leaves -> Ideas \cup {None}]
          /\ \A l \in Leaves : idx'[l] # None => idx'[l] \in Known'
        BY <2>1, <2>2 DEF StoreInv, TypeOK
    <2>4. TypeOK'
        BY <2>1, <2>3 DEF TypeOK, request, ranking
    <2>5. StoreInv'
        BY <2>1, <2>2, <2>3 DEF StoreInv
    <2>6. QED
        BY <2>1, <2>2, <2>4, <2>5, RequestWaits
<1>4. CASE Repair \/ Abandon
    <2>1. /\ UNCHANGED <<home, trusted, edges, idx, snap, request>> /\ writer' \in {"idle", "read"}
          /\ batch' \in {batch, <<>>} /\ writes' \in 0..MaxWrites
        BY <1>4 DEF Repair, Abandon, Begin, store, TypeOK
    <2>2. Known' = Known
        BY <1>2, <2>1
    <2>3. TypeOK'
        BY <2>1 DEF TypeOK, request, ranking
    <2>4. QED
        BY <2>1, <2>2, <2>3, NamesStay, RequestWaits
<1>5. CASE ReadAll
    <2>1. /\ UNCHANGED <<home, trusted, edges, idx, batch, request, writes>>
          /\ writer' = "rebuild" /\ snap' = home
        BY <1>5 DEF ReadAll, store
    <2>2. Known' = Known
        BY <1>2, <2>1
    <2>3. \A l \in Leaves : snap'[l] # None => snap'[l] \in Known'
        BY <2>1, <2>2 DEF Known
    <2>4. TypeOK'
        BY <2>1 DEF TypeOK, request, ranking
    <2>5. StoreInv'
        BY <2>1, <2>2, <2>3 DEF StoreInv
    <2>6. QED
        BY <2>1, <2>2, <2>4, <2>5, RequestWaits
<1>6. CASE Rebuild
    <2>1. /\ UNCHANGED <<home, trusted, edges, batch, request, writes>>
          /\ writer' = "idle" /\ snap' = Absent /\ idx' \in {snap, Absent}
        BY <1>6 DEF Rebuild, store
    <2>2. Known' = Known
        BY <1>2, <2>1
    <2>3. Absent \in [Leaves -> Ideas \cup {None}] /\ \A l \in Leaves : Absent[l] = None
        BY DEF Absent
    <2>4. TypeOK'
        BY <2>1, <2>3 DEF TypeOK, request, ranking
    <2>5. StoreInv'
        BY <2>1, <2>2, <2>3 DEF StoreInv
    <2>6. QED
        BY <2>1, <2>2, <2>4, <2>5, RequestWaits
<1>7. ASSUME NEW i \in Ideas, SetTrust(i) PROVE TypeOK' /\ StoreInv' /\ RequestInv'
    <2>1. /\ UNCHANGED <<home, edges, idx, batch, snap, request>> /\ writer' = "idle"
          /\ trusted' \subseteq Ideas /\ writes' \in 0..MaxWrites
        BY <1>7 DEF SetTrust, Begin, TypeOK
    <2>2. Known' = Known
        BY <1>2, <2>1
    <2>3. TypeOK'
        BY <2>1 DEF TypeOK, request, ranking
    <2>4. QED
        BY <2>1, <2>2, <2>3, NamesStay, RequestWaits
<1>8. ASSUME NEW e \in Links, Cite(e) PROVE TypeOK' /\ StoreInv' /\ RequestInv'
    <2>1. /\ UNCHANGED <<home, trusted, idx, batch, snap, request>> /\ writer' = "idle"
          /\ edges' = edges \cup {e} /\ e[1] \in Known /\ e[2] \in Known
          /\ writes' \in 0..MaxWrites
        BY <1>8 DEF Cite, Begin, TypeOK
    <2>2. Known' = Known
        BY <1>2, <2>1
    <2>3. TypeOK'
        BY <2>1 DEF TypeOK, request, ranking
    <2>4. StoreInv'
        BY <2>1, <2>2 DEF StoreInv
    <2>5. QED
        BY <2>1, <2>2, <2>3, <2>4, RequestWaits
<1>9. QED
    BY <1>1, <1>3, <1>4, <1>5, <1>6, <1>7, <1>8 DEF Job

-----------------------------------------------------------------------------
(***************************************************************************)
(* The request: the store stays as it is for one read.                     *)
(***************************************************************************)
Waiting == UNCHANGED <<store, idx, job, writes>>

(* A step of the request leaves the store as it is.                       *)
LEMMA StoreWaits ==
    ASSUME StoreInv, Waiting
    PROVE  StoreInv' /\ Known' = Known
<1>1. Known' = Known
    BY DEF Waiting, store, Known
<1>2. QED
    BY <1>1 DEF Waiting, store, job, StoreInv

(* The store's half of the types, and the request's.                      *)
RequestTypes ==
    /\ pc \in {"idle", "gate", "counts", "search", "bodies", "edges", "fill", "reply"}
    /\ k \in Ks \cup {0} /\ status \in {0, 200, 503}
    /\ order \in Seq(Ideas) /\ deferred \in Seq(Ideas) /\ targets \in Seq(Ideas)
    /\ fair \subseteq Ideas /\ near \subseteq Ideas
    /\ out \in Seq(Items) /\ Len(out) <= k
    /\ lines \in Seq(Line)

(* And so only the types of the request have to be looked at.             *)
LEMMA TypesWait ==
    ASSUME TypeOK, Waiting, RequestTypes'
    PROVE  TypeOK'
BY DEF TypeOK, RequestTypes, Waiting, store, job

(* The line of a request that failed, whether or not it had ranked.       *)
LEMMA FailedIsLine ==
    ASSUME TypeOK
    PROVE  Failed \in Line /\ Failed.status = 503 /\ Failed.returned = <<>> /\ Failed.cut = {}
<1>1. ASSUME NEW q \in Int, NEW o \in Int
      PROVE  /\ Unanswered(q, o) \in Line /\ Unanswered(q, o).status = 503
             /\ Unanswered(q, o).returned = <<>> /\ Unanswered(q, o).cut = {}
    BY DEF Unanswered, Line
<1>2. k \in Nat
    BY RetrieveAssumption DEF TypeOK
<1>3. IdeasOf(out) \ fair \in SUBSET Ideas
    BY IdeasOfType DEF TypeOK
<1>4. Max({0, Cardinality(IdeasOf(out) \ fair) - Quota}) \in Int
    BY <1>2, <1>3, OverType
<1>5. Quota \in Int
    BY <1>2, QuotaType
<1>6. -1 \in Int
    OBVIOUS
<1>7. \E q, o \in Int : Failed = Unanswered(q, o)
    BY <1>4, <1>5, <1>6 DEF Failed
<1>8. QED
    BY <1>1, <1>7

(* An exception answers 503, with one line and no idea, wherever it       *)
(* comes from.                                                            *)
LEMMA FailStep ==
    ASSUME TypeOK, RequestInv, pc # "idle", Fail, Waiting
    PROVE  TypeOK' /\ RequestInv'
<1> USE DEF Fail, NoRanking
<1>1. lines = <<>> /\ k \in Ks
    BY DEF RequestInv
<1>2. /\ lines' = <<Failed>> /\ lines' \in Seq(Line) /\ Len(lines') = 1 /\ DOMAIN lines' = {1}
      /\ lines'[1] = Failed
    BY <1>1, FailedIsLine
<1>3. RequestTypes'
    <2>1. Len(out') <= k'
        BY <1>1, RetrieveAssumption
    <2>2. QED
        BY <1>1, <1>2, <2>1 DEF RequestTypes
<1>4. TypeOK'
    BY <1>3, TypesWait
<1>5. LogIsTheAnswer'
    BY <1>2, FailedIsLine DEF LogIsTheAnswer
<1>6. ~Ranked'
    BY DEF Ranked
<1>7. QED
    BY <1>4, <1>5, <1>6 DEF RequestInv

(* A request that begins has decided nothing.                             *)
LEMMA AskStep ==
    ASSUME TypeOK, NEW n \in Ks, Ask(n), Waiting
    PROVE  TypeOK' /\ RequestInv'
<1> USE DEF Ask, NoRanking
<1>1. RequestTypes'
    BY RetrieveAssumption DEF RequestTypes
<1>2. LogIsTheAnswer'
    BY DEF LogIsTheAnswer
<1>3. Unranked' /\ ~Ranked'
    BY DEF Unranked, Ranked
<1>4. TypeOK'
    BY <1>1, TypesWait
<1>5. QED
    BY <1>2, <1>3, <1>4 DEF RequestInv

(* Until a body is read nothing is decided.                               *)
LEMMA CountStep ==
    ASSUME TypeOK, RequestInv, pc' \in {"counts", "search"}, pc \in {"gate", "counts"},
           UNCHANGED <<k, ranking, status, lines>>, Waiting
    PROVE  TypeOK' /\ RequestInv'
<1>1. RequestTypes'
    BY DEF RequestTypes, TypeOK, ranking
<1>2. TypeOK'
    BY <1>1, TypesWait
<1>3. status' = 0 /\ lines' = <<>> /\ k' \in Ks /\ order' = <<>> /\ Unranked'
    BY DEF RequestInv, Unranked, ranking
<1>4. LogIsTheAnswer' /\ ~Ranked'
    BY <1>3 DEF LogIsTheAnswer, Ranked
<1>5. QED
    BY <1>2, <1>3, <1>4 DEF RequestInv

(* The search: the candidates are the ideas its hits name in the index,   *)
(* so the store has them.                                                 *)
LEMMA SearchStep ==
    ASSUME TypeOK, StoreInv, RequestInv, Search, Waiting
    PROVE  TypeOK' /\ RequestInv'
<1>1. PICK hits \in kSubset(Min({TopK, Cardinality(Indexed)}), Indexed) :
          order' \in SetToSeqs({idx[l] : l \in hits})
    BY DEF Search
<1> DEFINE found == {idx[l] : l \in hits}
<1>2. hits \subseteq Indexed
    BY DEF kSubset
<1>3. found \subseteq Known
    BY <1>2 DEF Indexed, StoreInv
<1>4. Known \subseteq Ideas
    BY DEF Known, TypeOK
<1>5. IsFiniteSet(found)
    BY <1>3, <1>4, RetrieveAssumption, FS_Subset
<1> HIDE DEF found
<1>6. order' \in Seq(found) /\ Range(order') = found
    BY <1>1, <1>5, OrderingIs DEF found
<1>7. order' \in Seq(Ideas)
    BY <1>3, <1>4, <1>6
<1>8. /\ pc = "search" /\ pc' = "bodies"
      /\ UNCHANGED <<k, fair, out, deferred, targets, near, status, lines>>
    BY DEF Search
<1>9. RequestTypes'
    BY <1>7, <1>8 DEF RequestTypes, TypeOK
<1>10. TypeOK'
    BY <1>9, TypesWait
<1>11. status' = 0 /\ lines' = <<>> /\ k' \in Ks /\ Unranked'
    BY <1>8 DEF RequestInv, Unranked
<1>12. LogIsTheAnswer' /\ ~Ranked'
    BY <1>8, <1>11 DEF LogIsTheAnswer, Ranked
<1>13. Range(order)' \subseteq Known'
    <2>1. Known' = Known
        BY DEF Waiting, store, Known
    <2>2. QED
        BY <1>3, <1>6, <2>1
<1>14. QED
    BY <1>8, <1>10, <1>11, <1>12, <1>13 DEF RequestInv

(* The scan takes no more ideas without trust than the quota.             *)
LEMMA QuotaKept ==
    ASSUME k \in Nat, NEW seen, NEW acc, ScanOf(acc, seen),
           NEW picked, picked \subseteq Range(acc.out)
    PROVE  Cardinality(picked \ (seen \cap trusted)) <= Quota
<1> DEFINE base == picked \ (seen \cap trusted)
           untrusted == Range(acc.out) \ trusted
<1>1. base \subseteq untrusted
    BY DEF ScanOf
<1>2. IsFiniteSet(untrusted) /\ Cardinality(untrusted) <= acc.used
    BY DEF ScanOf, Few
<1>3. acc.used \in Nat /\ acc.used <= Quota /\ Quota \in Nat
    BY QuotaType DEF ScanOf, Scans
<1> HIDE DEF base, untrusted
<1>4. IsFiniteSet(base) /\ Cardinality(base) <= Cardinality(untrusted)
    BY <1>1, <1>2, FS_Subset
<1>5. Cardinality(base) \in Nat /\ Cardinality(untrusted) \in Nat
    BY <1>2, <1>4, FS_CardinalityType
<1>6. Cardinality(base) <= Quota
    BY <1>2, <1>3, <1>4, <1>5
<1>7. QED
    BY <1>6 DEF base

(* The ideas of an answer that no edge brought are among its ideas.       *)
LEMMA PickedIdeas ==
    ASSUME NEW items
    PROVE  {items[n].idea : n \in {m \in DOMAIN items : items[m].via # "edge"}}
               \subseteq IdeasOf(items)
BY DEF IdeasOf

LEMMA BodiesStep ==
    ASSUME TypeOK, RequestInv, Bodies, pc' # "idle", Waiting
    PROVE  TypeOK' /\ RequestInv'
<1>1. k \in Ks /\ k \in Nat /\ order \in Seq(Ideas) /\ pc = "bodies"
    BY RetrieveAssumption DEF Bodies, RequestInv, TypeOK
<1> DEFINE sc == Scanned
<1>2. ScanOf(sc, Range(order))
    BY <1>1, ScannedIs
<1>3. /\ out' = Tagged(sc.out, "thesis") /\ deferred' = sc.deferred
      /\ fair' = Range(order) \cap trusted
      /\ pc' = IF Len(out') < k THEN "edges" ELSE "reply"
      /\ UNCHANGED <<k, order, targets, near, status, lines>>
      /\ Range(order) \subseteq Known
    BY DEF Bodies, Fail
<1> HIDE DEF sc
<1>4. /\ sc.out \in Seq(Ideas) /\ sc.deferred \in Seq(Ideas)
      /\ Len(sc.out) \in Nat /\ Len(sc.out) <= k
    BY <1>2 DEF ScanOf, Scans
<1>5. "thesis" \in Vias
    BY DEF Vias
<1>6. out' \in Seq(Items) /\ Len(out') = Len(sc.out) /\ IdeasOf(out') = Range(sc.out)
    BY <1>3, <1>4, <1>5, TaggedIs
<1>7. RequestTypes'
    <2>1. Len(out') <= k'
        BY <1>3, <1>4, <1>6
    <2>2. fair' \subseteq Ideas
        BY <1>3 DEF TypeOK
    <2>3. QED
        BY <1>3, <1>4, <1>6, <2>1, <2>2 DEF RequestTypes, TypeOK
<1>8. TypeOK'
    BY <1>7, TypesWait
<1>9. status' = 0 /\ lines' = <<>> /\ k' \in Ks /\ targets' = <<>> /\ near' = {}
    BY <1>1, <1>3 DEF RequestInv, Unranked
<1>10. LogIsTheAnswer'
    BY <1>3, <1>9 DEF LogIsTheAnswer
<1>11. Range(sc.out) \subseteq Range(order)
    BY <1>2 DEF ScanOf
<1>12. CASE Len(out') < k
    <2>1. pc' = "edges" /\ ~Ranked'
        BY <1>3, <1>9, <1>12 DEF Ranked
    <2>2. /\ Range(order) = Range(sc.out) \cup Range(sc.deferred)
          /\ Range(order) \cap trusted \subseteq Range(sc.out)
        BY <1>2, <1>6, <1>12 DEF ScanOf
    <2>3. RoomLeft'
        BY <1>3, <1>6, <1>12, <2>2 DEF RoomLeft
    <2>4. Range(order)' \subseteq Known'
        BY <1>3 DEF Waiting, store, Known
    <2>5. QED
        BY <1>8, <1>9, <1>10, <2>1, <2>3, <2>4 DEF RequestInv
<1>13. CASE ~(Len(out') < k)
    <2>1. pc' = "reply"
        BY <1>3, <1>13
    <2>2. RecallFirst'
        BY <1>3, <1>13 DEF RecallFirst
    <2>3. QuotaGivesWay'
        <3> DEFINE picked == {out'[n].idea : n \in {m \in DOMAIN out' : out'[m].via # "edge"}}
        <3>1. picked \subseteq Range(sc.out)
            BY <1>6, PickedIdeas
        <3> HIDE DEF picked
        <3>2. Cardinality(picked \ (Range(order) \cap trusted)) <= Quota
            BY <1>1, <1>2, <3>1, QuotaKept
        <3>3. Cardinality(picked \ fair') <= Quota
            BY <1>3, <3>2, Zenon
        <3>4. Quota' = Quota /\ Quota \in Nat
            BY <1>1, <1>3, QuotaType DEF Quota
        <3>5. picked \ fair' \in SUBSET Ideas
            <4>1. Range(sc.out) \subseteq Ideas
                BY <1>4 DEF Range
            <4>2. QED
                BY <3>1, <4>1
        <3>6. Cardinality(picked \ fair') \in Nat
            BY <3>5, RetrieveAssumption, FS_Subset, FS_CardinalityType
        <3>7. ~(Cardinality(picked \ fair') > Quota')
            BY <3>3, <3>4, <3>6
        <3>8. QED
            BY <3>7 DEF QuotaGivesWay, picked
    <2>4. Range(targets)' = {}
        BY <1>9 DEF Range
    <2>5. Answered'
        BY <1>3, <1>6, <1>11, <2>2, <2>3, <2>4 DEF Answered
    <2>6. QED
        BY <1>8, <1>9, <1>10, <2>1, <2>5 DEF RequestInv
<1>14. QED
    BY <1>12, <1>13

(* The edges are read: the neighbours outside the candidates, as many as  *)
(* fit.                                                                   *)
LEMMA EdgesStep ==
    ASSUME TypeOK, StoreInv, RequestInv, ReadEdges, Waiting
    PROVE  TypeOK' /\ RequestInv'
<1>1. k \in Ks /\ k \in Nat /\ pc = "edges" /\ RoomLeft
    BY RetrieveAssumption DEF ReadEdges, RequestInv
<1> DEFINE room == k - Len(out)
           all == Reached(Range(order))
<1>2. Len(out) \in Nat /\ room \in Nat
    BY <1>1 DEF RoomLeft, TypeOK
<1>3. PICK s \in SetToSeqs(Neighbours) : targets' = First(room, s)
    BY DEF ReadEdges
<1>4. /\ near' = all /\ pc' = "fill"
      /\ UNCHANGED <<k, order, fair, out, deferred, status, lines>>
    BY DEF ReadEdges
<1>5. Neighbours = all \ Range(order)
    BY DEF Neighbours
<1>6. all \subseteq Known /\ Known \subseteq Ideas
    BY DEF Reached, StoreInv, Known, TypeOK
<1> HIDE DEF room, all
<1>7. IsFiniteSet(Neighbours)
    BY <1>5, <1>6, RetrieveAssumption, FS_Subset
<1>8. s \in Seq(Neighbours) /\ Range(s) = Neighbours
    BY <1>7, OrderingIs
<1>9. s \in Seq(Ideas)
    BY <1>5, <1>6, <1>8
<1>10. /\ targets' \in Seq(Ideas) /\ Len(targets') <= room
       /\ Range(targets') \subseteq all \ Range(order)
       /\ Len(targets') < room => Range(targets') = all \ Range(order)
    BY <1>2, <1>3, <1>5, <1>8, <1>9, FirstIs
<1>11. RequestTypes'
    BY <1>4, <1>6, <1>10 DEF RequestTypes, TypeOK
<1>12. TypeOK'
    BY <1>11, TypesWait
<1>13. status' = 0 /\ lines' = <<>> /\ k' \in Ks
    BY <1>1, <1>4 DEF RequestInv
<1>14. LogIsTheAnswer' /\ ~Ranked'
    BY <1>4, <1>13 DEF LogIsTheAnswer, Ranked
<1>15. RoomLeft'
    BY <1>1, <1>4 DEF RoomLeft, IdeasOf
<1>16. Targeted'
    <2>1. Known' = Known
        BY DEF Waiting, store, Known
    <2>2. near' \subseteq Known'
        BY <1>4, <1>6, <2>1
    <2>3. Len(targets') <= k' - Len(out')
        BY <1>4, <1>10 DEF room
    <2>4. Len(targets') < k' - Len(out') => near' \subseteq Range(order') \cup Range(targets')
        <3>1. k' - Len(out') = room
            BY <1>4 DEF room
        <3>2. QED
            BY <1>4, <1>10, <3>1
    <2>5. Range(targets') \subseteq near' \ Range(order')
        BY <1>4, <1>10
    <2>6. QED
        BY <2>2, <2>3, <2>4, <2>5 DEF Targeted
<1>17. QED
    BY <1>4, <1>12, <1>13, <1>14, <1>15, <1>16 DEF RequestInv

(* The answer is completed from the neighbours and then from what was     *)
(* held back.                                                             *)
LEMMA FillStep ==
    ASSUME TypeOK, StoreInv, RequestInv, Fill, pc' # "idle", Waiting
    PROVE  TypeOK' /\ RequestInv'
<1>1. k \in Ks /\ k \in Nat /\ pc = "fill" /\ RoomLeft /\ Targeted
    BY RetrieveAssumption DEF Fill, RequestInv
<1> DEFINE kept == First(k - Len(out) - Len(targets), deferred)
           room == k - Len(out) - Len(targets)
           linked == Tagged(targets, "edge")
           padded == Tagged(kept, "padding")
<1>2. /\ out' = out \o linked \o padded /\ fair' = fair \cup (Range(targets) \cap trusted)
      /\ pc' = "reply" /\ UNCHANGED <<k, order, deferred, targets, near, status, lines>>
    BY DEF Fill, Fail, Padding
<1>3. /\ out \in Seq(Items) /\ targets \in Seq(Ideas) /\ deferred \in Seq(Ideas)
      /\ Len(out) \in Nat /\ Len(targets) \in Nat
    BY DEF TypeOK
<1>4. room \in Nat
    BY <1>1, <1>3 DEF Targeted
<1>5. /\ kept \in Seq(Ideas) /\ Len(kept) <= room /\ Range(kept) \subseteq Range(deferred)
      /\ Len(kept) < room => Range(kept) = Range(deferred)
    BY <1>3, <1>4, FirstIs
<1>6. "edge" \in Vias /\ "padding" \in Vias
    BY DEF Vias
<1> HIDE DEF kept
<1>7. /\ linked \in Seq(Items) /\ Len(linked) = Len(targets) /\ IdeasOf(linked) = Range(targets)
      /\ padded \in Seq(Items) /\ Len(padded) = Len(kept) /\ IdeasOf(padded) = Range(kept)
    BY <1>3, <1>5, <1>6, TaggedIs
<1> HIDE DEF linked, padded
<1>8. /\ out \o linked \in Seq(Items) /\ Len(out \o linked) = Len(out) + Len(targets)
      /\ IdeasOf(out \o linked) = IdeasOf(out) \cup Range(targets)
    BY <1>3, <1>7, IdeasOfConcat
<1>9. /\ out' \in Seq(Items) /\ Len(out') = Len(out) + Len(targets) + Len(kept)
      /\ IdeasOf(out') = IdeasOf(out) \cup Range(targets) \cup Range(kept)
    BY <1>2, <1>7, <1>8, IdeasOfConcat
<1>10. Len(kept) \in Nat
    BY <1>5
<1>11. Len(out') <= k
    BY <1>1, <1>3, <1>5, <1>9, <1>10
<1>12. RequestTypes'
    <2>1. fair' \subseteq Ideas
        BY <1>2 DEF TypeOK
    <2>2. QED
        BY <1>2, <1>9, <1>11, <2>1 DEF RequestTypes, TypeOK
<1>13. TypeOK'
    BY <1>12, TypesWait
<1>14. status' = 0 /\ lines' = <<>> /\ k' \in Ks
    BY <1>1, <1>2 DEF RequestInv
<1>15. LogIsTheAnswer'
    BY <1>2, <1>14 DEF LogIsTheAnswer
<1>16. Range(order) = IdeasOf(out) \cup Range(deferred)
    BY <1>1 DEF RoomLeft
<1>17. RecallFirst'
    <2>1. ASSUME Len(out') < k PROVE Range(order) \cup near \subseteq IdeasOf(out')
        <3>1. Len(targets) < k - Len(out) /\ Len(kept) < room
            BY <1>1, <1>3, <1>9, <1>10, <2>1
        <3>2. near \subseteq Range(order) \cup Range(targets)
            BY <1>1, <3>1 DEF Targeted
        <3>3. Range(kept) = Range(deferred)
            BY <1>5, <3>1
        <3>4. QED
            BY <1>9, <1>16, <3>2, <3>3
    <2>2. QED
        BY <1>2, <2>1 DEF RecallFirst
<1>18. Range(order') \cap fair' \subseteq IdeasOf(out')
    <2>1. Range(order) \cap Range(targets) = {}
        BY <1>1 DEF Targeted
    <2>2. Range(order) \cap fair \subseteq IdeasOf(out)
        BY <1>1 DEF RoomLeft
    <2>3. QED
        BY <1>2, <1>9, <2>1, <2>2
<1>19. QuotaGivesWay'
    BY <1>18 DEF QuotaGivesWay
<1>20. Answered'
    <2>1. /\ Range(targets') \subseteq IdeasOf(out')
          /\ IdeasOf(out') \subseteq Range(order') \cup Range(targets')
        BY <1>2, <1>5, <1>9, <1>16
    <2>2. QED
        BY <1>17, <1>19, <2>1 DEF Answered
<1>21. QED
    BY <1>2, <1>13, <1>14, <1>15, <1>20 DEF RequestInv

(* The reply writes one line, of the very answer it sends.                *)
LEMMA ReplyStep ==
    ASSUME TypeOK, RequestInv, Reply, Waiting
    PROVE  TypeOK' /\ RequestInv'
<1>1. /\ pc = "reply" /\ pc' = "idle" /\ status' = 200 /\ lines' = Append(lines, Served)
      /\ UNCHANGED <<k, ranking>>
    BY DEF Reply
<1>2. lines = <<>> /\ k \in Nat /\ Answered
    BY <1>1, RetrieveAssumption DEF RequestInv, Ranked
<1>3. IdeasOf(out) \subseteq Ideas /\ Range(order) \subseteq Ideas /\ out \in Seq(Items)
    BY IdeasOfType DEF TypeOK, Range
<1> DEFINE more == Max({0, Cardinality(IdeasOf(out) \ fair) - Quota})
<1>4. more \in Int /\ Quota \in Int
    <2>1. IdeasOf(out) \ fair \in SUBSET Ideas
        BY <1>3
    <2>2. QED
        BY <1>2, <2>1, OverType, QuotaType
<1>5. Served = [status |-> 200, returned |-> out, cut |-> CutOff, quota |-> Quota, over |-> more]
    BY DEF Served
<1> HIDE DEF more
<1>6. CutOff \subseteq Ideas
    BY <1>3 DEF CutOff
<1>7. Served \in Line
    BY <1>3, <1>4, <1>5, <1>6 DEF Line
<1>8. Served.status = 200 /\ Served.returned = out /\ Served.cut = CutOff
    BY <1>5
<1>9. lines' \in Seq(Line) /\ Len(lines') = 1 /\ DOMAIN lines' = {1} /\ lines'[1] = Served
    BY <1>1, <1>2, <1>7
<1>10. RequestTypes'
    BY <1>1, <1>9 DEF RequestTypes, TypeOK, ranking
<1>11. TypeOK'
    BY <1>10, TypesWait
<1>12. /\ out' = out /\ order' = order /\ targets' = targets /\ near' = near /\ fair' = fair
       /\ k' = k
    BY <1>1 DEF ranking
<1>13. /\ IdeasOf(out)' = IdeasOf(out) /\ Range(order)' = Range(order)
       /\ Range(targets)' = Range(targets)
    BY <1>12 DEF IdeasOf, Range
<1>14. Ranked /\ Ranked'
    BY <1>1 DEF Ranked
<1>15. RecallFirst'
    BY <1>2, <1>12, <1>13, <1>14 DEF Answered, RecallFirst
<1>16. QuotaGivesWay'
    BY <1>2, <1>12, <1>13, <1>14 DEF Answered, QuotaGivesWay, Quota
<1>17. Answered'
    BY <1>2, <1>13, <1>15, <1>16 DEF Answered
<1>18. /\ CutOff \cap IdeasOf(out) = {}
       /\ CutOff \cup IdeasOf(out) = Range(order) \cup Range(targets)
    BY <1>2 DEF CutOff, Answered
<1>19. LogIsTheAnswer'
    BY <1>1, <1>8, <1>9, <1>12, <1>13, <1>18 DEF LogIsTheAnswer
<1>20. QED
    BY <1>1, <1>11, <1>17, <1>19 DEF RequestInv

(* Every step of the request, with the store at rest.                     *)
LEMMA RequestStep ==
    ASSUME TypeOK, StoreInv, RequestInv, Retrieve
    PROVE  TypeOK' /\ StoreInv' /\ RequestInv'
<1>1. Waiting /\ ((\E n \in Ks : Ask(n)) \/ Step \/ Raise)
    BY DEF Retrieve, Waiting
<1>2. StoreInv'
    BY <1>1, StoreWaits
<1> SUFFICES TypeOK' /\ RequestInv'
    BY <1>2
<1>3. ASSUME NEW n \in Ks, Ask(n) PROVE TypeOK' /\ RequestInv'
    BY <1>1, <1>3, AskStep
<1>4. CASE pc # "idle" /\ Fail
    BY <1>1, <1>4, FailStep
<1>5. CASE CountIndex
    BY <1>1, <1>5, CountStep DEF CountIndex
<1>6. CASE CountStore
    <2>1. CASE Known # {}
        BY <1>4, <1>6, <2>1 DEF CountStore
    <2>2. CASE Known = {}
        BY <1>1, <1>6, <2>2, CountStep DEF CountStore
    <2>3. QED
        BY <2>1, <2>2
<1>7. CASE Search
    BY <1>1, <1>7, SearchStep
<1>8. CASE Bodies
    <2>1. CASE Range(order) \subseteq Known
        <3>1. pc' # "idle"
            BY <1>8, <2>1 DEF Bodies
        <3>2. QED
            BY <1>1, <1>8, <3>1, BodiesStep
    <2>2. CASE ~(Range(order) \subseteq Known)
        BY <1>4, <1>8, <2>2 DEF Bodies
    <2>3. QED
        BY <2>1, <2>2
<1>9. CASE ReadEdges
    BY <1>1, <1>9, EdgesStep
<1>10. CASE Fill
    <2>1. CASE Range(targets) \subseteq Known
        <3>1. pc' # "idle"
            BY <1>10, <2>1 DEF Fill
        <3>2. QED
            BY <1>1, <1>10, <3>1, FillStep
    <2>2. CASE ~(Range(targets) \subseteq Known)
        BY <1>4, <1>10, <2>2 DEF Fill
    <2>3. QED
        BY <2>1, <2>2
<1>11. CASE Reply
    BY <1>1, <1>11, ReplyStep
<1>12. CASE Raise
    BY <1>4, <1>12 DEF Raise
<1>13. QED
    BY <1>1, <1>2, <1>3, <1>5, <1>6, <1>7, <1>8, <1>9, <1>10, <1>11, <1>12 DEF Step

-----------------------------------------------------------------------------
(* An empty lake and no request.                                          *)
LEMMA InitAnswer == Init => AnswerInv
<1> SUFFICES ASSUME Init PROVE AnswerInv
    OBVIOUS
<1> USE RetrieveAssumption DEF Init
<1>1. Absent \in [Leaves -> Ideas \cup {None}] /\ \A l \in Leaves : Absent[l] = None
    BY DEF Absent
<1>2. Known \subseteq Ideas
    BY DEF Known
<1>3. TypeOK
    BY <1>1, <1>2 DEF TypeOK
<1>4. StoreInv
    BY <1>1 DEF StoreInv, Known
<1>5. RequestInv
    BY DEF RequestInv, Ranked, LogIsTheAnswer
<1>6. QED
    BY <1>3, <1>4, <1>5 DEF AnswerInv

(* The request, the writer, or nobody moves.                              *)
LEMMA AnswerStep == AnswerInv /\ [Next]_vars => AnswerInv'
<1> SUFFICES ASSUME AnswerInv, [Next]_vars PROVE AnswerInv'
    OBVIOUS
<1> USE DEF AnswerInv
<1>1. CASE Retrieve
    BY <1>1, RequestStep
<1>2. CASE Job
    BY <1>2, JobStep
<1>3. CASE UNCHANGED vars
    <2>1. UNCHANGED request /\ Waiting
        BY <1>3 DEF vars, Waiting
    <2>2. StoreInv' /\ Known' = Known
        BY <2>1, StoreWaits
    <2>3. RequestInv'
        BY <2>1, <2>2, RequestWaits
    <2>4. TypeOK'
        BY <1>3 DEF vars, TypeOK, store, job, request, ranking
    <2>5. QED
        BY <2>2, <2>3, <2>4
<1>4. QED
    BY <1>1, <1>2, <1>3 DEF Next

(* The store, the index and the request agree at every step, for every    *)
(* lake, every length asked for and every quota.                          *)
THEOREM AnswerInvariant == Spec => []AnswerInv
BY InitAnswer, AnswerStep, PTL DEF Spec

(* Every variable keeps its type, and no answer is longer than asked for. *)
THEOREM AnswerTypes == Spec => []TypeOK
<1>1. AnswerInv => TypeOK
    BY DEF AnswerInv
<1>2. QED
    BY <1>1, AnswerInvariant, PTL

(* Recall first (rank.py): a short answer left out no candidate and no    *)
(* neighbour of one.                                                      *)
THEOREM ShortAnswersAreComplete == Spec => []RecallFirst
<1>1. AnswerInv => RecallFirst
    BY DEF AnswerInv, RequestInv, Answered, RecallFirst
<1>2. QED
    BY <1>1, AnswerInvariant, PTL

(* The quota (rank.py): ideas without trust exceed it only when no        *)
(* candidate with trust is left out.                                      *)
THEOREM QuotaIsRespected == Spec => []QuotaGivesWay
<1>1. AnswerInv => QuotaGivesWay
    BY DEF AnswerInv, RequestInv, Answered, QuotaGivesWay
<1>2. QED
    BY <1>1, AnswerInvariant, PTL

(* The log (api._write_log): one line per request, and it is the answer.  *)
THEOREM LogKeepsTheAnswer == Spec => []LogIsTheAnswer
<1>1. AnswerInv => LogIsTheAnswer
    BY DEF AnswerInv, RequestInv
<1>2. QED
    BY <1>1, AnswerInvariant, PTL

(* rank._bodies: what was searched for, or reached, is in the store when  *)
(* its body is read, whatever a job writes in between.                    *)
THEOREM NothingReadIsGone == Spec => []NoGhost
<1>1. AnswerInv => NoGhost
    BY DEF AnswerInv, RequestInv, Targeted, NoGhost
<1>2. QED
    BY <1>1, AnswerInvariant, PTL

=============================================================================
