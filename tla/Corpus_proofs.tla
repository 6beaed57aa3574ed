--------------------------- MODULE Corpus_proofs ---------------------------
(***************************************************************************)
(* The cursor skips nothing and never points past the file, and the file   *)
(* holds of every source the lines of its last parse, in a server that is  *)
(* the only one to run phase 1: for any sources and documents, any order   *)
(* of lines, any limits, aborts and deaths.                                *)
(*                                                                         *)
(* Phase 1 drops the cursor before it touches the file and holds the slot  *)
(* until its threads are through, so lines move only while the cursor is   *)
(* 0, and a torn line is in the file only then too; a pass reads the file  *)
(* and the cursor in the slot, so both stay as it read them (PassInv).     *)
(*                                                                         *)
(* The thread in the staging lock is the only one that moves lines: what   *)
(* it keeps, writes, renames and appends to is the file without its own    *)
(* source and nothing else (FileInv).  The lemmas on pages of a sequence   *)
(* say what survives when lines are left out or appended.                  *)
(*                                                                         *)
(* The cursor is the end of the lines done without a gap (Watermark): that *)
(* there is one needs the least number of a set, which LeastNumber takes   *)
(* from the well-founded order of the naturals.                            *)
(***************************************************************************)
EXTENDS Corpus, WellFoundedInduction, FiniteSetTheorems, SequenceTheorems, TLAPS

Alone == Procs = {Server}

NoGroup == group = {} /\ todo = {}

SlotInv ==
    /\ slot # "phase1" => Quiet(Server)
    /\ slot = "phase1" \/ Unreadable => cursor = 0
    /\ slot # "phase2" => NoGroup

Settled(n) == rows[n] \in lake \cup pending

PassInv ==
    slot = "phase2" =>
      /\ rows = staging /\ ~Unreadable
      /\ mark = -1 => NoGroup
      /\ mark # -1 => /\ mark = cursor
                      /\ 1..mark \subseteq done /\ done \subseteq 1..Len(rows)
                      /\ \A n \in done \cup (group \ todo) : Settled(n)

CorpusInv == TypeOK /\ SlotInv /\ PassInv /\ CursorSkipsNothing

-----------------------------------------------------------------------------
(* Every set of naturals has a least member, and a bounded one a greatest. *)
LEMMA LeastNumber ==
    ASSUME NEW T \in SUBSET Nat, T # {}
    PROVE  \E x \in T : \A y \in T : x <= y
<1>1. PICK x \in T : \A y \in T : ~ (<<y, x>> \in OpToRel(<, Nat))
    BY NatLessThanWellFounded, WFMin
<1>2. \A y \in T : ~ (y < x)
    BY <1>1 DEF OpToRel
<1>3. QED
    BY <1>2

LEMMA Greatest ==
    ASSUME NEW S \in SUBSET Nat, S # {}, NEW b \in Nat, \A x \in S : x <= b
    PROVE  Max(S) \in S /\ \A x \in S : x <= Max(S)
<1> DEFINE T == {n \in Nat : \A x \in S : x <= n}
<1>1. T \in SUBSET Nat /\ b \in T
    OBVIOUS
<1>2. PICK m \in T : \A y \in T : m <= y
    BY <1>1, LeastNumber
<1>3. m \in S
    <2> SUFFICES ASSUME m \notin S PROVE FALSE
        OBVIOUS
    <2>1. \A x \in S : x \in Nat /\ x <= m - 1
        OBVIOUS
    <2>2. m - 1 \in Nat
        <3>1. PICK x \in S : TRUE
            OBVIOUS
        <3>2. QED
            BY <2>1, <3>1
    <2>3. m - 1 \in T
        BY <2>1, <2>2
    <2>4. QED
        BY <1>2, <2>3
<1>4. \A x \in S : m >= x
    OBVIOUS
<1>5. QED
    BY <1>3, <1>4 DEF Max

(* The watermark: no gap behind it, and within the file.                   *)
LEMMA WatermarkSound ==
    ASSUME NEW L \in Nat, NEW lines \in SUBSET (1..L), NEW from \in 0..L
    PROVE  /\ Watermark(from, lines) \in from..L
           /\ (from + 1)..Watermark(from, lines) \subseteq lines
<1> DEFINE S == lines \cup {from}
           M == Max(S)
           T == {n \in Nat : from <= n /\ n + 1 \notin lines}
<1>1. M \in S /\ \A x \in S : x <= M
    <2>1. S \in SUBSET Nat /\ S # {} /\ \A x \in S : x <= L
        OBVIOUS
    <2> HIDE DEF S
    <2>2. QED
        BY <2>1, Greatest
<1> HIDE DEF M
<1>2. M \in from..L
    BY <1>1
<1>3. T \in SUBSET Nat /\ M \in T
    BY <1>1, <1>2
<1>4. PICK n \in T : \A y \in T : n <= y
    BY <1>3, LeastNumber
<1>5. n \in from..M /\ n + 1 \notin lines
    BY <1>2, <1>3, <1>4
<1>6. (from + 1)..n \subseteq lines
    <2> SUFFICES ASSUME NEW k \in (from + 1)..n, k \notin lines PROVE FALSE
        OBVIOUS
    <2>1. k - 1 \in T
        OBVIOUS
    <2>2. QED
        BY <1>4, <2>1
<1> DEFINE P(k) == (from + 1)..k \subseteq lines /\ k + 1 \notin lines
           w == CHOOSE k \in from..M : P(k)
<1>7. Watermark(from, lines) = w
    BY DEF Watermark, M
<1>8. \E k \in from..M : P(k)
    BY <1>5, <1>6
<1> HIDE DEF P
<1>9. w \in from..M /\ P(w)
    BY <1>8
<1> HIDE DEF w
<1>10. QED
    BY <1>2, <1>7, <1>9 DEF P

(* A page of lines taken out of a sequence, in their order.                *)
LEMMA TakenType ==
    ASSUME NEW S, NEW s \in Seq(S), NEW I \in SUBSET (1..Len(s)), NEW f \in InOrder(I)
    PROVE  Taken(s, f) \in Seq(S)
<1>1. IsFiniteSet(1..Len(s))
    BY FS_Interval
<1>2. Cardinality(I) \in Nat
    BY <1>1, FS_Subset, FS_CardinalityType
<1>3. f \in [1..Cardinality(I) -> I]
    BY DEF InOrder
<1>4. Taken(s, f) = [n \in 1..Cardinality(I) |-> s[f[n]]]
    BY <1>3 DEF Taken
<1>5. ASSUME NEW n \in 1..Cardinality(I) PROVE s[f[n]] \in S
    <2>1. f[n] \in 1..Len(s)
        BY <1>3
    <2>2. QED
        BY <2>1
<1>6. QED
    BY <1>2, <1>4, <1>5

LEMMA LinesType ==
    ASSUME NEW s \in Sources, NEW texts \in Seq(Texts)
    PROVE  LinesOf(s, texts) \in Seq(Lines)
BY DEF LinesOf, LineOf, Lines

-----------------------------------------------------------------------------
(* Pages of a sequence: LinesAre is what NothingLost says of one source.   *)
At(s) == thread[<<Server, s>>]
Places(seq, s) == {n \in 1..Len(seq) : seq[n].source = s}
Increasing(f) == \A m, n \in DOMAIN f : m < n => f[m] < f[n]

(* An order of a set of places is increasing and leaves none of them out.  *)
LEMMA OrderOf ==
    ASSUME NEW L \in Nat, NEW I \in SUBSET (1..L), NEW f \in InOrder(I)
    PROVE  /\ Cardinality(I) \in Nat /\ f \in [1..Cardinality(I) -> I] /\ Increasing(f)
           /\ \A m \in I : \E n \in 1..Cardinality(I) : f[n] = m
<1> DEFINE k == Cardinality(I)
<1>1. IsFiniteSet(I) /\ k \in Nat
    <2>1. IsFiniteSet(1..L)
        BY FS_Interval
    <2>2. QED
        BY <2>1, FS_Subset, FS_CardinalityType
<1>2. f \in [1..k -> I] /\ Increasing(f)
    BY DEF InOrder, Increasing
<1>3. f \in Injection(1..k, I)
    <2>1. \A m, n \in 1..k : f[m] = f[n] => m = n
        <3> SUFFICES ASSUME NEW m \in 1..k, NEW n \in 1..k, f[m] = f[n], m < n PROVE FALSE
            BY <1>1
        <3>1. f[m] < f[n]
            BY <1>2 DEF Increasing
        <3>2. f[m] \in I /\ f[n] \in I
            BY <1>2
        <3>3. f[m] \in 1..L /\ f[n] \in 1..L
            BY <3>2
        <3>4. QED
            BY <3>1, <3>3
    <2>2. QED
        BY <1>2, <2>1 DEF Injection, IsInjective
<1>4. Cardinality(1..k) = k
    BY <1>1, FS_Interval
<1>5. f \in Surjection(1..k, I)
    <2> HIDE DEF k
    <2>1. Cardinality(1..k) = Cardinality(I)
        BY <1>4 DEF k
    <2>2. QED
        BY <1>1, <1>3, <2>1, FS_Injection
<1>6. QED
    BY <1>1, <1>2, <1>5 DEF Surjection

(* The converse: an increasing list of all the places is the order.        *)
LEMMA OrderIs ==
    ASSUME NEW L \in Nat, NEW I \in SUBSET (1..L), NEW k \in Nat, NEW f \in [1..k -> I],
           Increasing(f), \A m \in I : \E n \in 1..k : f[n] = m
    PROVE  f \in InOrder(I)
<1>1. f \in Surjection(1..k, I)
    BY DEF Surjection
<1>2. f \in Injection(1..k, I)
    <2>1. \A m, n \in 1..k : f[m] = f[n] => m = n
        <3> SUFFICES ASSUME NEW m \in 1..k, NEW n \in 1..k, f[m] = f[n], m < n PROVE FALSE
            OBVIOUS
        <3>1. f[m] < f[n]
            BY DEF Increasing
        <3>2. f[m] \in I /\ f[n] \in I
            OBVIOUS
        <3>3. f[m] \in 1..L /\ f[n] \in 1..L
            BY <3>2
        <3>4. QED
            BY <3>1, <3>3
    <2>2. QED
        BY <2>1 DEF Injection, IsInjective
<1>3. IsFiniteSet(1..k) /\ Cardinality(1..k) = k
    BY FS_Interval
<1>4. Cardinality(I) = k
    BY <1>1, <1>2, <1>3, FS_Surjection
<1>5. QED
    BY <1>4 DEF InOrder, Increasing

LEMMA PlacesOf ==
    ASSUME NEW seq, NEW s
    PROVE  \A lines : LinesAre(seq, s, lines) <=> \E f \in InOrder(Places(seq, s)) : Taken(seq, f) = lines
BY DEF LinesAre, Places

(* A sequence without some of its lines has the lines of a source none of  *)
(* whose lines was left out.                                               *)
LEMMA OthersStay ==
    ASSUME NEW seq \in Seq(Lines), NEW I \in SUBSET (1..Len(seq)), NEW g \in InOrder(I),
           NEW s, Places(seq, s) \subseteq I, NEW lines, LinesAre(seq, s, lines)
    PROVE  LinesAre(Taken(seq, g), s, lines)
<1> DEFINE less == Taken(seq, g)
           k == Cardinality(I)
           P == Places(seq, s)
           Q == Places(less, s)
           j == Cardinality(P)
<1>1. Len(seq) \in Nat /\ P \in SUBSET (1..Len(seq))
    BY DEF Places
<1>2. k \in Nat /\ g \in [1..k -> I] /\ Increasing(g) /\ \A m \in I : \E n \in 1..k : g[n] = m
    BY <1>1, OrderOf
<1>3. PICK f \in InOrder(P) : Taken(seq, f) = lines
    BY PlacesOf
<1>4. j \in Nat /\ f \in [1..j -> P] /\ Increasing(f) /\ \A m \in P : \E n \in 1..j : f[n] = m
    <2> HIDE DEF P
    <2>1. QED
        BY <1>1, <1>3, OrderOf DEF j
<1>5. less = [n \in 1..k |-> seq[g[n]]] /\ Len(less) = k
    <2>1. less = [n \in 1..k |-> seq[g[n]]]
        BY <1>2 DEF Taken
    <2>2. less \in Seq(Lines)
        BY TakenType
    <2>3. QED
        BY <1>2, <2>1, <2>2, LenProperties
<1>6. Q = {n \in 1..k : seq[g[n]].source = s}
    BY <1>5 DEF Places
<1> DEFINE h == [n \in 1..j |-> CHOOSE m \in 1..k : g[m] = f[n]]
<1> HIDE DEF k, j, P, Q, less
<1>7. \A n \in 1..j : h[n] \in 1..k /\ g[h[n]] = f[n]
    <2> SUFFICES ASSUME NEW n \in 1..j PROVE h[n] \in 1..k /\ g[h[n]] = f[n]
        OBVIOUS
    <2>1. \E m \in 1..k : g[m] = f[n]
        BY <1>2, <1>4 DEF P
    <2>2. QED
        BY <2>1
<1> HIDE DEF h
<1>8. DOMAIN h = 1..j
    BY DEF h
<1>9. h \in [1..j -> Q]
    <2>1. \A n \in 1..j : h[n] \in Q
        <3> SUFFICES ASSUME NEW n \in 1..j PROVE h[n] \in Q
            OBVIOUS
        <3>1. f[n] \in P
            BY <1>4
        <3>2. seq[f[n]].source = s
            BY <3>1 DEF P, Places
        <3>3. QED
            BY <1>6, <1>7, <3>2
    <2>2. QED
        BY <2>1 DEF h
<1>10. Increasing(h)
    <2> SUFFICES ASSUME NEW m \in 1..j, NEW n \in 1..j, m < n PROVE h[m] < h[n]
        BY <1>8 DEF Increasing
    <2>1. f[m] < f[n] /\ f[m] \in Nat /\ f[n] \in Nat
        <3>1. f[m] < f[n]
            BY <1>4 DEF Increasing
        <3>2. f[m] \in P /\ f[n] \in P
            BY <1>4
        <3>3. P \subseteq Nat
            BY <1>1
        <3>4. QED
            BY <3>1, <3>2, <3>3
    <2>2. h[n] < h[m] => g[h[n]] < g[h[m]]
        BY <1>2, <1>7 DEF Increasing
    <2>3. g[h[m]] = f[m] /\ g[h[n]] = f[n] /\ h[m] \in Nat /\ h[n] \in Nat
        BY <1>2, <1>7
    <2>4. h[m] # h[n]
        BY <2>1, <2>3
    <2>5. QED
        BY <2>1, <2>2, <2>3, <2>4
<1>11. \A m \in Q : \E n \in 1..j : h[n] = m
    <2> SUFFICES ASSUME NEW m \in Q PROVE \E n \in 1..j : h[n] = m
        OBVIOUS
    <2>1. m \in 1..k /\ g[m] \in P
        BY <1>2, <1>6 DEF P, Places
    <2>2. PICK n \in 1..j : f[n] = g[m]
        BY <1>4, <2>1
    <2>3. h[n] \in 1..k /\ g[h[n]] = g[m]
        BY <1>7, <2>2
    <2>4. g[m] \in Nat /\ m \in Nat /\ h[n] \in Nat
        <3>1. g[m] \in 1..Len(seq)
            BY <1>1, <2>1
        <3>2. QED
            BY <1>1, <1>2, <2>1, <2>3, <3>1
    <2>5. ~ (m < h[n]) /\ ~ (h[n] < m)
        BY <1>2, <2>1, <2>3, <2>4 DEF Increasing
    <2>6. QED
        BY <2>4, <2>5
<1>12. h \in InOrder(Q)
    <2>1. Q \in SUBSET (1..k)
        BY <1>6
    <2>2. QED
        BY <1>2, <1>4, <1>9, <1>10, <1>11, <2>1, OrderIs
<1>13. Taken(less, h) = lines
    <2>1. Taken(less, h) = [n \in 1..j |-> less[h[n]]]
        BY <1>8 DEF Taken
    <2>2. lines = [n \in 1..j |-> seq[f[n]]]
        BY <1>3, <1>4 DEF Taken
    <2>3. \A n \in 1..j : less[h[n]] = seq[f[n]]
        BY <1>5, <1>7
    <2>4. QED
        BY <2>1, <2>2, <2>3
<1>14. QED
    BY <1>12, <1>13, PlacesOf DEF less, Q

(* Lines appended to a file are the lines of their own source only.        *)
LEMMA AppendOthers ==
    ASSUME NEW seq \in Seq(Lines), NEW more \in Seq(Lines), NEW s,
           \A n \in 1..Len(more) : more[n].source # s, NEW lines, LinesAre(seq, s, lines)
    PROVE  LinesAre(seq \o more, s, lines)
<1> DEFINE all == seq \o more
<1>1. /\ Len(seq) \in Nat /\ Len(more) \in Nat /\ Len(all) = Len(seq) + Len(more)
      /\ \A n \in 1..Len(all) : all[n] = IF n <= Len(seq) THEN seq[n] ELSE more[n - Len(seq)]
    BY ConcatProperties, LenProperties
<1> HIDE DEF all
<1>2. Places(all, s) = Places(seq, s)
    <2>1. \A n \in 1..Len(all) : n \notin 1..Len(seq) => n - Len(seq) \in 1..Len(more)
        BY <1>1
    <2>2. QED
        BY <1>1, <2>1 DEF Places
<1>3. PICK f \in InOrder(Places(seq, s)) : Taken(seq, f) = lines
    BY PlacesOf
<1>4. f \in [DOMAIN f -> Places(seq, s)]
    BY DEF InOrder
<1>5. \A n \in DOMAIN f : all[f[n]] = seq[f[n]]
    BY <1>1, <1>4 DEF Places
<1>6. Taken(all, f) = Taken(seq, f)
    BY <1>5 DEF Taken
<1>7. QED
    BY <1>2, <1>3, <1>6, PlacesOf DEF all

LEMMA AppendOwn ==
    ASSUME NEW seq \in Seq(Lines), NEW more \in Seq(Lines), NEW s,
           \A n \in 1..Len(seq) : seq[n].source # s, \A n \in 1..Len(more) : more[n].source = s
    PROVE  LinesAre(seq \o more, s, more)
<1> DEFINE all == seq \o more
           L == Len(seq)
           k == Len(more)
           P == Places(all, s)
           f == [n \in 1..k |-> L + n]
<1>1. /\ L \in Nat /\ k \in Nat /\ Len(all) = L + k
      /\ \A n \in 1..Len(all) : all[n] = IF n <= L THEN seq[n] ELSE more[n - L]
    BY ConcatProperties, LenProperties
<1>2. more = [n \in 1..k |-> more[n]]
    BY LenProperties
<1>3. (\A n \in 1..L : seq[n].source # s) /\ \A n \in 1..k : more[n].source = s
    OBVIOUS
<1> HIDE DEF all, L, k
<1>4. P = (L + 1)..(L + k)
    <2>1. \A n \in 1..(L + k) : all[n].source = s <=> n > L
        <3> SUFFICES ASSUME NEW n \in 1..(L + k) PROVE all[n].source = s <=> n > L
            OBVIOUS
        <3>1. CASE n <= L
            <4>1. n \in 1..L /\ all[n] = seq[n]
                BY <1>1, <3>1
            <4>2. all[n].source # s
                BY <1>3, <4>1
            <4>3. ~ (n > L)
                BY <1>1, <3>1
            <4>4. QED
                BY <4>2, <4>3
        <3>2. CASE n > L
            <4>1. n - L \in 1..k /\ all[n] = more[n - L]
                BY <1>1, <3>2
            <4>2. QED
                BY <1>3, <3>2, <4>1
        <3>3. QED
            BY <1>1, <3>1, <3>2
    <2>2. QED
        BY <1>1, <2>1 DEF Places
<1>5. f \in [1..k -> P] /\ Increasing(f) /\ \A m \in P : \E n \in 1..k : f[n] = m
    <2>1. \A m \in P : m - L \in 1..k /\ f[m - L] = m
        <3> SUFFICES ASSUME NEW m \in (L + 1)..(L + k) PROVE m - L \in 1..k /\ f[m - L] = m
            BY <1>4
        <3>1. m - L \in 1..k /\ L + (m - L) = m
            BY <1>1
        <3>2. QED
            BY <3>1
    <2>2. f \in [1..k -> P] /\ Increasing(f)
        BY <1>1, <1>4 DEF Increasing
    <2>3. QED
        BY <2>1, <2>2
<1>6. f \in InOrder(P)
    <2>1. L + k \in Nat /\ P \in SUBSET (1..(L + k))
        BY <1>1, <1>4
    <2> HIDE DEF P, f
    <2>2. QED
        BY <1>1, <1>5, <2>1, OrderIs
<1>7. Taken(all, f) = more
    <2>1. \A n \in 1..k : all[f[n]] = more[n]
        <3> SUFFICES ASSUME NEW n \in 1..k PROVE all[f[n]] = more[n]
            OBVIOUS
        <3>1. f[n] \in 1..Len(all) /\ f[n] > L /\ f[n] - L = n
            BY <1>1
        <3> HIDE DEF f
        <3>2. QED
            BY <1>1, <3>1
    <2>2. Taken(all, f) = [n \in 1..k |-> all[f[n]]]
        BY DEF Taken
    <2> HIDE DEF f
    <2>3. QED
        BY <1>2, <2>1, <2>2
<1>8. QED
    BY <1>6, <1>7, PlacesOf DEF P, all

-----------------------------------------------------------------------------
LEMMA InitInv == Init => CorpusInv
<1> SUFFICES ASSUME Init PROVE CorpusInv
    OBVIOUS
<1> USE CorpusAssumption DEF Init
<1>1. Cardinality(Sources) \in Nat
    BY FS_CardinalityType
<1>2. Len(<<>>) = 0
    OBVIOUS
<1>3. TypeOK
    <2>1. /\ staging \in Seq(Lines) /\ cursor \in Nat /\ tmp = <<>>
          /\ slot \in {"free", "phase1", "phase2"}
          /\ rows \in Seq(Lines) /\ done \subseteq Nat /\ mark \in Nat \cup {-1}
          /\ group \subseteq 1..Len(rows) /\ todo \subseteq group /\ limit \in 0..Cardinality(Sources)
        BY <1>1
    <2>2. /\ thread \in [Procs \X Sources -> Steps] /\ kept \in [Procs \X Sources -> Seq(Lines)]
        BY DEF Steps
    <2>3. /\ lake \subseteq Lines /\ pending \subseteq Lines
          /\ outcome \in [Sources -> BOOLEAN] /\ reported \in [Sources -> BOOLEAN]
          /\ latest \in [Sources -> Seq(Lines)] /\ cut \subseteq Sources
          /\ starts \in 0..MaxPhase1 /\ stops \in 0..MaxStops
        OBVIOUS
    <2>4. QED
        BY <2>1, <2>2, <2>3 DEF TypeOK
<1>4. SlotInv
    BY DEF SlotInv, Quiet, NoGroup
<1>5. PassInv
    BY DEF PassInv
<1>6. CursorSkipsNothing
    BY <1>2 DEF CursorSkipsNothing
<1>7. QED
    BY <1>3, <1>4, <1>5, <1>6 DEF CorpusInv

-----------------------------------------------------------------------------
(* Every variable stays in its type.                                       *)
LEMMA SourcesCount == Cardinality(Sources) \in Nat /\ Cardinality(Sources) >= 1
<1>1. Cardinality(Sources) \in Nat /\ Cardinality(Sources) # 0
    BY CorpusAssumption, FS_CardinalityType, FS_EmptySet
<1>2. QED
    BY <1>1

LEMMA StartType ==
    ASSUME TypeOK, NEW p \in Procs, NEW entries \in SUBSET Sources, Start(p, entries)
    PROVE  TypeOK'
<1> USE DEF Start, DropCursor, pass, graph, history, Steps
<1>1. /\ staging' = staging /\ cursor' \in Nat /\ tmp' = tmp /\ kept' = kept
      /\ UNCHANGED <<rows, done, mark, group, todo, limit, lake, pending, outcome, latest, cut, reported, stops>>
    BY ZenonT(60)
<1>2. slot' \in {"free", "phase1", "phase2"}
    BY DEF TypeOK
<1>3. thread' \in [Procs \X Sources -> Steps]
    BY DEF TypeOK
<1>4. starts' \in 0..MaxPhase1
    BY CorpusAssumption DEF TypeOK
<1>5. QED
    BY <1>1, <1>2, <1>3, <1>4 DEF TypeOK

LEMMA Phase1Type ==
    ASSUME TypeOK, NEW p \in Procs, NEW s \in Sources, Phase1Step(p, s)
    PROVE  TypeOK'
<1> USE DEF Rest, pass, graph, bounds, history
<1>1. thread' \in [Procs \X Sources -> Steps]
    BY DEF Phase1Step, Lose, DropSource, WriteTmp, Replace, AppendLines, Step, TypeOK, Steps
<1>2. /\ UNCHANGED <<cursor, slot, rows, done, mark, group, todo, limit, lake, pending, outcome, starts, stops>>
      /\ reported' = reported
    BY DEF Phase1Step, Lose, DropSource, WriteTmp, Replace, AppendLines
<1>3. /\ staging' \in Seq(Lines) /\ (tmp' = <<>> \/ tmp'[1] \in Seq(Lines))
      /\ kept' \in [Procs \X Sources -> Seq(Lines)]
      /\ latest' \in [Sources -> Seq(Lines)] /\ cut' \subseteq Sources
    <2>1. CASE Lose(p, s)
        BY <2>1 DEF Lose, TypeOK
    <2>2. CASE DropSource(p, s)
        <3>1. UNCHANGED <<staging, tmp, latest, cut>>
            BY <2>2 DEF DropSource
        <3>2. kept' \in [Procs \X Sources -> Seq(Lines)]
            <4>1. CASE Unreadable
                BY <2>2, <4>1 DEF DropSource, TypeOK
            <4>2. CASE ~Unreadable
                <5> DEFINE I == {n \in 1..Len(staging) : staging[n].source # s}
                <5>1. PICK f \in InOrder(I) : kept' = [kept EXCEPT ![<<p, s>>] = Taken(staging, f)]
                    BY <2>2, <4>2 DEF DropSource
                <5>2. Taken(staging, f) \in Seq(Lines)
                    <6>1. I \in SUBSET (1..Len(staging)) /\ staging \in Seq(Lines)
                        BY DEF TypeOK
                    <6> HIDE DEF I
                    <6>2. QED
                        BY <5>1, <6>1, TakenType
                <5>3. QED
                    BY <5>1, <5>2 DEF TypeOK
            <4>3. QED
                BY <4>1, <4>2
        <3>3. QED
            BY <3>1, <3>2 DEF TypeOK
    <2>3. CASE WriteTmp(p, s)
        <3>1. tmp' = <<kept[<<p, s>>]>> /\ UNCHANGED <<staging, kept, latest, cut>>
            BY <2>3 DEF WriteTmp
        <3>2. kept[<<p, s>>] \in Seq(Lines)
            BY DEF TypeOK
        <3>3. QED
            BY <3>1, <3>2 DEF TypeOK
    <2>4. CASE Replace(p, s)
        <3>1. staging' \in Seq(Lines) /\ (tmp' = <<>> \/ tmp'[1] \in Seq(Lines))
            BY <2>4 DEF Replace, TypeOK
        <3>2. kept' = [kept EXCEPT ![<<p, s>>] = <<>>] /\ UNCHANGED <<latest, cut>>
            BY <2>4 DEF Replace
        <3>3. QED
            BY <3>1, <3>2 DEF TypeOK
    <2>5. ASSUME NEW texts \in Parses, AppendLines(p, s, texts)
          PROVE  /\ staging' \in Seq(Lines) /\ (tmp' = <<>> \/ tmp'[1] \in Seq(Lines))
                 /\ kept' \in [Procs \X Sources -> Seq(Lines)]
                 /\ latest' \in [Sources -> Seq(Lines)] /\ cut' \subseteq Sources
        <3>1. LinesOf(s, texts) \in Seq(Lines)
            BY CorpusAssumption, LinesType
        <3>2. /\ staging' = staging \o LinesOf(s, texts) /\ UNCHANGED <<tmp, kept>>
              /\ latest' = [latest EXCEPT ![s] = LinesOf(s, texts)] /\ cut' = cut \ {s}
            BY <2>5 DEF AppendLines
        <3>3. QED
            BY <3>1, <3>2 DEF TypeOK
    <2>6. QED
        BY <2>1, <2>2, <2>3, <2>4, <2>5 DEF Phase1Step
<1>4. QED
    BY <1>1, <1>2, <1>3 DEF TypeOK

LEMMA PassType ==
    ASSUME CorpusInv, ReadStaging \/ PassStep
    PROVE  TypeOK'
<1> USE DEF files, phase1, graph, history, bounds, CorpusInv
<1>1. CASE ReadStaging
    <2>1. limit' \in 0..Cardinality(Sources)
        BY <1>1, SourcesCount DEF ReadStaging
    <2>2. TypeOK
        OBVIOUS
    <2>3. group = {} /\ todo = {}
        BY <1>1 DEF ReadStaging, SlotInv, NoGroup
    <2>4. QED
        BY <1>1, <2>1, <2>2, <2>3 DEF ReadStaging, TypeOK
<1>2. CASE ReadCursor
    BY <1>2 DEF ReadCursor, TypeOK
<1>3. CASE TakeGroup
    <2>1. group' \subseteq 1..Len(rows)
        BY <1>3 DEF TakeGroup, NextGroup
    <2>2. limit' \in 0..Cardinality(Sources)
        BY <1>3, SourcesCount DEF TakeGroup, TypeOK
    <2>3. outcome' \in [Sources -> BOOLEAN]
        <3>1. outcome \in [Sources -> BOOLEAN]
            BY DEF TypeOK
        <3>2. outcome' = [outcome EXCEPT ![rows[Min(group')].source] = FALSE]
            BY <1>3 DEF TakeGroup
        <3> DEFINE x == rows[Min(group')].source
        <3> HIDE DEF x
        <3>3. outcome' = [outcome EXCEPT ![x] = FALSE]
            BY <3>2 DEF x
        <3>4. QED
            BY <3>1, <3>3
    <2>4. /\ todo' = group'
          /\ UNCHANGED <<files, slot, phase1, rows, done, mark, lake, pending, history, bounds>>
        BY <1>3 DEF TakeGroup
    <2>5. QED
        BY <2>1, <2>2, <2>3, <2>4 DEF TypeOK
<1>4. CASE Link
    <2>1. PICK n \in todo : /\ todo' = todo \ {n}
                            /\ \/ UNCHANGED <<lake, pending>>
                               \/ lake' = lake \cup {rows[n]} /\ UNCHANGED pending
                               \/ pending' = pending \cup {rows[n]} /\ UNCHANGED lake
        BY <1>4 DEF Link
    <2>2. rows[n] \in Lines
        BY <2>1 DEF TypeOK
    <2>3. UNCHANGED <<files, slot, phase1, rows, done, mark, group, limit, outcome, history, bounds>>
        BY <1>4 DEF Link
    <2>4. QED
        BY <2>1, <2>2, <2>3 DEF TypeOK
<1>5. CASE WriteCursor
    <2>1. slot = "phase2" /\ mark # -1
        BY <1>5 DEF WriteCursor, SlotInv, PassInv, NoGroup
    <2>2. /\ Len(rows) \in Nat /\ done' \in SUBSET (1..Len(rows)) /\ mark \in 0..Len(rows)
        BY <1>5, <2>1 DEF WriteCursor, PassInv, TypeOK, CursorSkipsNothing
    <2>3. mark' \in mark..Len(rows)
        <3> DEFINE d == done'
        <3>1. mark' = Watermark(mark, d)
            BY <1>5 DEF WriteCursor
        <3>2. d \in SUBSET (1..Len(rows))
            BY <2>2
        <3> HIDE DEF d
        <3>3. QED
            BY <2>2, <3>1, <3>2, WatermarkSound
    <2>4. done' \subseteq Nat /\ mark' \in Nat
        BY <2>2, <2>3
    <2>5. /\ group' = {} /\ cursor' = mark' /\ todo = {}
          /\ UNCHANGED <<staging, tmp, slot, phase1, rows, todo, limit, graph, history, bounds>>
        BY <1>5 DEF WriteCursor
    <2>6. QED
        BY <2>4, <2>5 DEF TypeOK
<1>6. CASE EndPass
    BY <1>6, SourcesCount DEF EndPass, NoPass, TypeOK
<1>7. QED
    BY <1>1, <1>2, <1>3, <1>4, <1>5, <1>6 DEF PassStep

(* What a death leaves of the file: all of it, and a part of what the      *)
(* thread in its append was writing.                                       *)
LEMMA DieType ==
    ASSUME TypeOK, NEW p \in Procs, Die(p)
    PROVE  TypeOK'
<1> DEFINE midway == {s \in Sources : thread[<<p, s>>] = "append"}
<1>1. staging' \in Seq(Lines)
    <2>1. CASE UNCHANGED staging
        BY <2>1 DEF TypeOK
    <2>2. ASSUME NEW s \in midway, NEW texts \in Parses, NEW n \in 1..Len(texts),
                 \/ staging' = staging \o LinesOf(s, SubSeq(texts, 1, n))
                 \/ staging' = Append(staging \o LinesOf(s, SubSeq(texts, 1, n - 1)), LineOf(s, Torn))
          PROVE  staging' \in Seq(Lines)
        <3>1. s \in Sources /\ staging \in Seq(Lines) /\ texts \in Seq(Texts)
            BY CorpusAssumption DEF TypeOK
        <3>2. SubSeq(texts, 1, n) \in Seq(Texts) /\ SubSeq(texts, 1, n - 1) \in Seq(Texts)
            BY <3>1
        <3>3. /\ LinesOf(s, SubSeq(texts, 1, n)) \in Seq(Lines)
              /\ LinesOf(s, SubSeq(texts, 1, n - 1)) \in Seq(Lines)
            BY <3>1, <3>2, LinesType
        <3>4. LineOf(s, Torn) \in Lines
            BY <3>1 DEF LineOf, Lines
        <3> DEFINE some == LinesOf(s, SubSeq(texts, 1, n))
                   fewer == LinesOf(s, SubSeq(texts, 1, n - 1))
                   rest == LineOf(s, Torn)
        <3>5. some \in Seq(Lines) /\ fewer \in Seq(Lines) /\ rest \in Lines
            BY <3>3, <3>4
        <3>6. staging' = staging \o some \/ staging' = Append(staging \o fewer, rest)
            BY <2>2
        <3> HIDE DEF midway, some, fewer, rest
        <3>7. staging \o some \in Seq(Lines) /\ staging \o fewer \in Seq(Lines)
            BY <3>1, <3>5
        <3>8. Append(staging \o fewer, rest) \in Seq(Lines)
            BY <3>5, <3>7, AppendProperties
        <3>9. QED
            BY <3>6, <3>7, <3>8
    <2>3. QED
        BY <2>1, <2>2 DEF Die
<1>2. thread' \in [Procs \X Sources -> Steps] /\ kept' \in [Procs \X Sources -> Seq(Lines)]
    <2>1. \A t \in Procs \X Sources : thread[t] \in Steps /\ kept[t] \in Seq(Lines)
        BY DEF TypeOK
    <2>2. "out" \in Steps /\ <<>> \in Seq(Lines)
        BY DEF Steps
    <2>3. /\ thread' = [t \in Procs \X Sources |-> IF t[1] = p THEN "out" ELSE thread[t]]
          /\ kept' = [t \in Procs \X Sources |-> IF t[1] = p THEN <<>> ELSE kept[t]]
        BY DEF Die
    <2>4. QED
        BY <2>1, <2>2, <2>3
<1>3. /\ slot' \in {"free", "phase1", "phase2"} /\ rows' \in Seq(Lines) /\ done' \subseteq Nat
      /\ mark' \in Nat \cup {-1} /\ group' \subseteq 1..Len(rows') /\ todo' \subseteq group'
      /\ limit' \in 0..Cardinality(Sources)
    <2>1. CASE p = Server
        <3>1. NoPass
            BY <2>1 DEF Die
        <3>2. QED
            BY <3>1, SourcesCount DEF NoPass
    <2>2. CASE p # Server
        <3>1. UNCHANGED <<slot, pass>>
            BY <2>2 DEF Die
        <3>2. QED
            BY <3>1 DEF TypeOK, pass
    <2>3. QED
        BY <2>1, <2>2
<1>4. /\ cut' = cut \cup midway /\ stops' = stops + 1 /\ stops < MaxStops
      /\ UNCHANGED <<cursor, tmp, graph, latest, reported, starts>>
    BY DEF Die
<1>5. stops' \in 0..MaxStops
    BY <1>4, CorpusAssumption DEF TypeOK
<1>6. QED
    BY <1>1, <1>2, <1>3, <1>4, <1>5 DEF TypeOK, graph

LEMMA AroundType ==
    ASSUME TypeOK, EndPhase1 \/ Abort \/ Mend \/ \E s \in Runs : Report(s)
    PROVE  TypeOK'
<1>1. CASE EndPhase1
    BY <1>1 DEF EndPhase1, TypeOK, files, phase1, pass, graph, history, bounds
<1>2. CASE Abort
    <2>1. stops' \in 0..MaxStops
        BY <1>2, CorpusAssumption DEF Abort, TypeOK
    <2>2. QED
        BY <1>2, <2>1, SourcesCount DEF Abort, NoPass, TypeOK, files, phase1, graph, history
<1>3. CASE Mend
    <2> DEFINE I == {n \in 1..Len(staging) : staging[n].text # Torn}
    <2>1. PICK f \in InOrder(I) : staging' = Taken(staging, f)
        BY <1>3 DEF Mend
    <2>2. I \in SUBSET (1..Len(staging)) /\ staging \in Seq(Lines)
        BY DEF TypeOK
    <2> HIDE DEF I
    <2>3. staging' \in Seq(Lines)
        BY <2>1, <2>2, TakenType
    <2>4. QED
        BY <1>3, <2>3 DEF Mend, TypeOK, phase1, pass, graph, history, bounds
<1>4. ASSUME NEW s \in Runs, Report(s) PROVE TypeOK'
    <2>1. s \in Sources
        BY CorpusAssumption
    <2>2. outcome' \in [Sources -> BOOLEAN] /\ reported' \in [Sources -> BOOLEAN]
        BY <1>4, <2>1 DEF Report, TypeOK
    <2>3. QED
        BY <1>4, <2>2 DEF Report, TypeOK, files, phase1, pass, bounds
<1>5. QED
    BY <1>1, <1>2, <1>3, <1>4

-----------------------------------------------------------------------------
(* The four ways a step may go: phase 1 works while the cursor is 0, a     *)
(* pass works while nobody touches the file.                               *)
StepInv == SlotInv /\ PassInv /\ CursorSkipsNothing

LEMMA StartInv ==
    ASSUME Alone, CorpusInv, NEW p \in Procs, NEW entries \in SUBSET Sources, Start(p, entries)
    PROVE  StepInv'
<1>1. /\ slot = "free" /\ slot' = "phase1" /\ cursor' = 0
      /\ UNCHANGED <<staging, rows, done, mark, group, todo, limit, lake, pending>>
    BY DEF Start, Alone, DropCursor, pass, graph
<1>2. NoGroup'
    BY <1>1 DEF CorpusInv, SlotInv, NoGroup
<1>3. Len(staging) \in Nat
    BY DEF CorpusInv, TypeOK
<1>4. QED
    BY <1>1, <1>2, <1>3 DEF StepInv, SlotInv, PassInv, CursorSkipsNothing

LEMMA Phase1Inv ==
    ASSUME Alone, CorpusInv, NEW p \in Procs, NEW s \in Sources, Phase1Step(p, s)
    PROVE  StepInv'
<1>1. p = Server /\ thread[<<Server, s>>] # "out"
    BY DEF Alone, Phase1Step, Lose, DropSource, WriteTmp, Replace, AppendLines, Step
<1>2. slot = "phase1" /\ cursor = 0 /\ NoGroup
    BY <1>1 DEF CorpusInv, SlotInv, Quiet
<1>3. UNCHANGED <<cursor, slot, rows, done, mark, group, todo, limit, lake, pending>>
    BY DEF Phase1Step, Lose, DropSource, WriteTmp, Replace, AppendLines, Rest, pass, graph
<1>4. Len(staging') \in Nat
    BY Phase1Type DEF CorpusInv, TypeOK
<1>5. QED
    BY <1>2, <1>3, <1>4 DEF StepInv, SlotInv, PassInv, NoGroup, CursorSkipsNothing

LEMMA ReadInv ==
    ASSUME CorpusInv, ReadStaging \/ ReadCursor
    PROVE  StepInv'
<1>1. UNCHANGED <<staging, cursor, thread, kept, group, todo, lake, pending>>
    BY DEF ReadStaging, ReadCursor, files, phase1, graph
<1>2. CursorSkipsNothing'
    BY <1>1 DEF CorpusInv, CursorSkipsNothing
<1>3. CASE ReadStaging
    <2>1. slot = "free" /\ ~Unreadable /\ slot' = "phase2" /\ rows' = staging /\ mark' = -1
        BY <1>3 DEF ReadStaging
    <2>2. QED
        BY <1>1, <1>2, <2>1 DEF CorpusInv, StepInv, SlotInv, PassInv, NoGroup, Quiet, Unreadable
<1>4. CASE ReadCursor
    <2>1. /\ slot = "phase2" /\ mark = -1 /\ mark' = cursor /\ done' = 1..cursor
          /\ slot' = slot /\ rows' = rows
        BY <1>4 DEF ReadCursor
    <2>2. rows = staging /\ ~Unreadable /\ NoGroup
        BY <2>1 DEF CorpusInv, PassInv
    <2>3. cursor \in Nat /\ cursor <= Len(rows) /\ Len(rows) \in Nat
        BY <2>2 DEF CorpusInv, TypeOK, CursorSkipsNothing
    <2>4. 1..mark' \subseteq done' /\ done' \subseteq 1..Len(rows')
        BY <2>1, <2>3
    <2>5. \A n \in done' \cup (group' \ todo') : Settled(n)'
        BY <1>1, <2>1, <2>2 DEF CorpusInv, CursorSkipsNothing, Settled, NoGroup
    <2>6. PassInv'
        BY <1>1, <2>1, <2>2, <2>4, <2>5 DEF PassInv, NoGroup, Unreadable
    <2>7. SlotInv'
        BY <1>1, <2>1 DEF CorpusInv, SlotInv, NoGroup, Quiet, Unreadable
    <2>8. QED
        BY <1>2, <2>6, <2>7 DEF StepInv
<1>5. QED
    BY <1>3, <1>4

LEMMA GroupInv ==
    ASSUME CorpusInv, TakeGroup \/ Link
    PROVE  StepInv'
<1>1. /\ slot = "phase2" /\ mark # -1
      /\ UNCHANGED <<staging, cursor, slot, thread, rows, done, mark>>
    BY DEF TakeGroup, Link, CorpusInv, TypeOK, SlotInv, PassInv, NoGroup, files, phase1
<1>2. lake \subseteq lake' /\ pending \subseteq pending'
    BY DEF TakeGroup, Link
<1>3. CursorSkipsNothing'
    BY <1>1, <1>2 DEF CorpusInv, CursorSkipsNothing
<1>4. SlotInv'
    BY <1>1 DEF CorpusInv, SlotInv, Quiet, Unreadable
<1>5. \A n \in done \cup (group \ todo) : Settled(n)'
    BY <1>1, <1>2 DEF CorpusInv, PassInv, Settled
<1>6. \A n \in done' \cup (group' \ todo') : Settled(n)'
    <2>1. CASE TakeGroup
        BY <1>1, <1>5, <2>1 DEF TakeGroup
    <2>2. CASE Link
        <3>1. PICK n \in todo : todo' = todo \ {n} /\ Settled(n)'
            BY <2>2 DEF Link, Settled
        <3>2. group' = group
            BY <2>2 DEF Link
        <3>3. QED
            BY <1>1, <1>5, <3>1, <3>2
    <2>3. QED
        BY <2>1, <2>2
<1>7. PassInv'
    BY <1>1, <1>6 DEF CorpusInv, PassInv, Unreadable
<1>8. QED
    BY <1>3, <1>4, <1>7 DEF StepInv

LEMMA WriteCursorInv ==
    ASSUME CorpusInv, WriteCursor
    PROVE  StepInv'
<1>1. /\ group # {} /\ todo = {} /\ done' = done \cup group /\ group' = {}
      /\ mark' = Watermark(mark, done') /\ cursor' = mark'
      /\ UNCHANGED <<staging, slot, thread, rows, todo, lake, pending>>
    BY DEF WriteCursor, phase1, graph
<1>2. slot = "phase2" /\ mark # -1
    BY <1>1 DEF CorpusInv, SlotInv, PassInv, NoGroup
<1>3. /\ rows = staging /\ ~Unreadable /\ mark = cursor /\ 1..mark \subseteq done
      /\ done \subseteq 1..Len(rows) /\ \A n \in done \cup group : Settled(n)
    BY <1>1, <1>2 DEF CorpusInv, PassInv
<1>4. group \subseteq 1..Len(rows) /\ Len(rows) \in Nat /\ mark \in 0..Len(rows)
    BY <1>3 DEF CorpusInv, TypeOK, CursorSkipsNothing
<1> DEFINE d == done \cup group
<1>5. d \in SUBSET (1..Len(rows)) /\ mark' = Watermark(mark, d)
    BY <1>1, <1>3, <1>4
<1>6. mark' \in mark..Len(rows) /\ (mark + 1)..mark' \subseteq d
    <2> HIDE DEF d
    <2>1. QED
        BY <1>4, <1>5, WatermarkSound
<1>7. 1..mark' \subseteq d
    <2>1. 1..mark \subseteq d
        BY <1>3
    <2> HIDE DEF d
    <2>2. \A k \in 1..mark' : k \in 1..mark \/ k \in (mark + 1)..mark'
        BY <1>4, <1>6
    <2>3. QED
        BY <1>6, <2>1, <2>2
<1>8. \A n \in d : Settled(n)'
    BY <1>1, <1>3 DEF Settled
<1>9. PassInv'
    <2>1. mark' \in Nat /\ mark' # -1
        BY <1>4, <1>6
    <2>2. done' = d /\ group' \ todo' = {}
        BY <1>1
    <2>3. 1..mark' \subseteq done' /\ done' \subseteq 1..Len(rows')
        BY <1>1, <1>5, <1>7, <2>2
    <2>4. \A n \in done' \cup (group' \ todo') : Settled(n)'
        BY <1>8, <2>2
    <2>5. rows' = staging' /\ ~Unreadable' /\ mark' = cursor'
        BY <1>1, <1>3 DEF Unreadable
    <2>6. QED
        BY <2>1, <2>3, <2>4, <2>5 DEF PassInv
<1>10. CursorSkipsNothing'
    <2>1. cursor' <= Len(staging')
        BY <1>1, <1>3, <1>4, <1>6
    <2>2. \A n \in 1..cursor' : staging'[n] \in lake' \cup pending'
        BY <1>1, <1>3, <1>7, <1>8 DEF Settled
    <2>3. QED
        BY <2>1, <2>2 DEF CursorSkipsNothing
<1>11. SlotInv'
    BY <1>1, <1>2, <1>3 DEF CorpusInv, SlotInv, Quiet, Unreadable
<1>12. QED
    BY <1>9, <1>10, <1>11 DEF StepInv

(* A pass that ends leaves the file and the cursor as they are.            *)
LEMMA EndInv ==
    ASSUME CorpusInv, EndPass \/ Abort \/ EndPhase1 \/ \E s \in Runs : Report(s)
    PROVE  StepInv'
<1>1. UNCHANGED <<staging, cursor, thread, lake, pending>>
    BY DEF EndPass, Abort, EndPhase1, Report, files, phase1, graph
<1>2. CursorSkipsNothing'
    BY <1>1 DEF CorpusInv, CursorSkipsNothing
<1>3. CASE EndPass \/ Abort
    <2>1. slot = "phase2" /\ slot' = "free" /\ NoGroup'
        BY <1>3 DEF EndPass, Abort, NoPass, NoGroup
    <2>2. QED
        BY <1>1, <1>2, <2>1 DEF CorpusInv, StepInv, SlotInv, PassInv, Quiet, Unreadable
<1>4. CASE EndPhase1
    <2>1. slot = "phase1" /\ slot' = "free" /\ Quiet(Server) /\ UNCHANGED <<group, todo>>
        BY <1>4 DEF EndPhase1, pass
    <2>2. QED
        BY <1>1, <1>2, <2>1 DEF CorpusInv, StepInv, SlotInv, PassInv, NoGroup, Quiet, Unreadable
<1>5. ASSUME NEW s \in Runs, Report(s) PROVE StepInv'
    <2>1. UNCHANGED <<slot, rows, done, mark, group, todo>>
        BY <1>5 DEF Report, pass
    <2>2. SlotInv'
        BY <1>1, <2>1 DEF CorpusInv, SlotInv, NoGroup, Quiet, Unreadable
    <2>3. PassInv'
        BY <1>1, <2>1 DEF CorpusInv, PassInv, NoGroup, Unreadable, Settled
    <2>4. QED
        BY <1>2, <2>2, <2>3 DEF StepInv
<1>6. QED
    BY <1>3, <1>4, <1>5

LEMMA DieInv ==
    ASSUME Alone, CorpusInv, NEW p \in Procs, Die(p)
    PROVE  StepInv'
<1>1. p = Server
    BY DEF Alone
<1>2. slot' = "free" /\ NoGroup' /\ UNCHANGED <<cursor, lake, pending>>
    BY <1>1 DEF Die, NoPass, NoGroup, graph
<1>3. Quiet(Server)'
    <2>1. thread' = [t \in Procs \X Sources |-> IF t[1] = p THEN "out" ELSE thread[t]]
        BY DEF Die
    <2>2. QED
        BY <1>1, <2>1 DEF Quiet
<1>4. CASE slot = "phase1"
    <2>1. cursor = 0 /\ cursor' = 0
        BY <1>2, <1>4 DEF CorpusInv, SlotInv
    <2>2. Len(staging') \in Nat
        BY DieType DEF CorpusInv, TypeOK
    <2>3. QED
        BY <1>2, <1>3, <2>1, <2>2 DEF StepInv, SlotInv, PassInv, CursorSkipsNothing
<1>5. CASE slot # "phase1"
    <2>1. {s \in Sources : thread[<<p, s>>] = "append"} = {}
        BY <1>1, <1>5 DEF CorpusInv, SlotInv, Quiet
    <2>2. staging' = staging
        BY <2>1 DEF Die
    <2>3. QED
        BY <1>2, <1>3, <1>5, <2>2 DEF CorpusInv, StepInv, SlotInv, PassInv, CursorSkipsNothing, Unreadable
<1>6. QED
    BY <1>4, <1>5

LEMMA MendInv ==
    ASSUME CorpusInv, Mend
    PROVE  StepInv'
<1>1. Unreadable /\ UNCHANGED <<cursor, slot, thread, group, todo>>
    BY DEF Mend, phase1, pass
<1>2. cursor = 0 /\ slot # "phase2"
    BY <1>1 DEF CorpusInv, SlotInv, PassInv
<1>3. Len(staging') \in Nat
    BY AroundType DEF CorpusInv, TypeOK
<1>4. QED
    BY <1>1, <1>2, <1>3 DEF CorpusInv, StepInv, SlotInv, PassInv, NoGroup, Quiet, CursorSkipsNothing

LEMMA NextInv ==
    ASSUME Alone, CorpusInv, [Next]_vars
    PROVE  CorpusInv'
<1> USE DEF CorpusInv, StepInv
<1>1. ASSUME NEW p \in Procs, NEW entries \in SUBSET Sources, Start(p, entries) PROVE CorpusInv'
    BY <1>1, StartType, StartInv
<1>2. ASSUME NEW p \in Procs, NEW s \in Sources, Phase1Step(p, s) PROVE CorpusInv'
    BY <1>2, Phase1Type, Phase1Inv
<1>3. ASSUME ReadStaging \/ PassStep PROVE CorpusInv'
    <2>1. TypeOK'
        BY <1>3, PassType
    <2>2. StepInv'
        BY <1>3, ReadInv, GroupInv, WriteCursorInv, EndInv DEF PassStep
    <2>3. QED
        BY <2>1, <2>2
<1>4. ASSUME EndPhase1 \/ Abort \/ \E s \in Runs : Report(s) PROVE CorpusInv'
    BY <1>4, AroundType, EndInv
<1>5. ASSUME NEW p \in Procs, Die(p) PROVE CorpusInv'
    BY <1>5, DieType, DieInv
<1>6. ASSUME Mend PROVE CorpusInv'
    BY <1>6, AroundType, MendInv
<1>7. ASSUME UNCHANGED vars PROVE CorpusInv'
    <2> USE <1>7 DEF vars, files, phase1, pass, graph, history, bounds
    <2>1. TypeOK'
        BY DEF TypeOK
    <2>2. SlotInv'
        BY DEF SlotInv, NoGroup, Quiet, Unreadable
    <2>3. PassInv' /\ CursorSkipsNothing'
        BY DEF PassInv, NoGroup, Unreadable, Settled, CursorSkipsNothing
    <2>4. QED
        BY <2>1, <2>2, <2>3
<1>8. QED
    BY <1>1, <1>2, <1>3, <1>4, <1>5, <1>6, <1>7 DEF Next

-----------------------------------------------------------------------------
(* The slot and the dropped cursor, and what a running pass relies on.     *)
THEOREM CorpusInvariant ==
    ASSUME Alone
    PROVE  Spec => []CorpusInv
<1>1. Init => CorpusInv
    BY InitInv
<1>2. CorpusInv /\ [Next]_vars => CorpusInv'
    BY NextInv
<1>3. QED
    BY <1>1, <1>2, PTL DEF Spec

(* Every line behind the cursor was stored or refused, and the cursor is   *)
(* within the file: ops.staging_state never has to refuse it.              *)
THEOREM CursorIsSound ==
    ASSUME Alone
    PROVE  Spec => []CursorSkipsNothing
<1>1. CorpusInv => CursorSkipsNothing
    BY DEF CorpusInv
<1>2. QED
    BY <1>1, CorpusInvariant, PTL

(* The variables of the staging file and of its phases stay in their       *)
(* types.                                                                  *)
THEOREM TypeCorrect ==
    ASSUME Alone
    PROVE  Spec => []TypeOK
<1>1. CorpusInv => TypeOK
    BY DEF CorpusInv
<1>2. QED
    BY <1>1, CorpusInvariant, PTL
-----------------------------------------------------------------------------
(* The file under its lock.  A thread that has the lock of the server is   *)
(* alone with a readable file; what it keeps, writes and renames is the    *)
(* file without its own source, and its append comes to a file that has    *)
(* every other source as its last parse left it.                           *)
HasOthers(seq, s) ==
    /\ \A n \in 1..Len(seq) : seq[n].source # s /\ seq[n].text # Torn
    /\ \A t \in Sources \ {s} : t \in cut \/ LinesAre(seq, t, latest[t])

OneLocked == \A s, t \in Sources : At(s) \in Locked /\ At(t) \in Locked => s = t
TornIsCut == \A n \in 1..Len(staging) : staging[n].text = Torn => staging[n].source \in cut

ThreadInv(s) ==
    /\ At(s) \in Locked => ~Unreadable
    /\ At(s) \in {"write", "swap"} => HasOthers(kept[<<Server, s>>], s)
    /\ At(s) = "swap" => tmp = <<kept[<<Server, s>>]>>
    /\ At(s) = "append" => HasOthers(staging, s)

Whole == \A s \in Sources : s \in cut \/ At(s) = "append" \/ LinesAre(staging, s, latest[s])

FileInv ==
    /\ OneLocked /\ TornIsCut /\ Whole
    /\ \A s \in Sources : ThreadInv(s)

(* What NothingLost says while no thread appends: then Whole says more.    *)
LEMMA WholeIsEnough == Alone /\ FileInv => NothingLost
BY CorpusAssumption DEF Alone, FileInv, Whole, NothingLost, At

LEMMA FileInit == Init => FileInv
<1> SUFFICES ASSUME Init PROVE FileInv
    OBVIOUS
<1>1. /\ staging = <<>> /\ \A s \in Sources : At(s) = "out" /\ latest[s] = <<>>
    BY CorpusAssumption DEF Init, At
<1>2. ASSUME NEW s \in Sources PROVE LinesAre(<<>>, s, <<>>)
    <2> DEFINE none == <<>>
    <2>1. none \in Seq(Lines) /\ none \o none = none /\ Len(none) = 0
        OBVIOUS
    <2>2. \A n \in 1..Len(none) : none[n].source # s /\ none[n].source = s
        BY <2>1
    <2> HIDE DEF none
    <2>3. LinesAre(none \o none, s, none)
        BY <2>1, <2>2, AppendOwn
    <2>4. QED
        BY <2>1, <2>3 DEF none
<1>3. Whole
    BY <1>1, <1>2 DEF Whole
<1>4. OneLocked /\ TornIsCut /\ \A s \in Sources : ThreadInv(s)
    BY <1>1 DEF OneLocked, TornIsCut, ThreadInv, Locked
<1>5. QED
    BY <1>3, <1>4 DEF FileInv

(* A step of another thread or of nobody: the files and the lock stay.     *)
LEMMA FileStays ==
    ASSUME FileInv, UNCHANGED <<staging, tmp, kept, latest, cut>>,
           \A s \in Sources : At(s)' = At(s) \/ (At(s) \notin Locked /\ At(s)' \notin Locked)
    PROVE  FileInv'
<1>1. OneLocked'
    BY DEF FileInv, OneLocked
<1>2. TornIsCut' /\ Whole'
    <2>1. \A s \in Sources : At(s) = "append" => At(s)' = "append"
        BY DEF Locked
    <2>2. QED
        BY <2>1 DEF FileInv, TornIsCut, Whole
<1>3. ASSUME NEW s \in Sources PROVE ThreadInv(s)'
    <2>1. ThreadInv(s)
        BY DEF FileInv
    <2>2. CASE At(s)' = At(s)
        BY <2>1, <2>2 DEF ThreadInv, Unreadable, HasOthers
    <2>3. CASE At(s)' \notin Locked
        BY <2>3 DEF ThreadInv, Locked
    <2>4. QED
        BY <2>2, <2>3
<1>4. QED
    BY <1>1, <1>2, <1>3 DEF FileInv

(* The thread that has the lock: the others are outside it.                *)
LEMMA ThreadMoves ==
    ASSUME Alone, TypeOK, NEW p \in Procs, NEW s \in Sources, NEW from, NEW to, Step(p, s, from, to)
    PROVE  p = Server /\ At(s) = from /\ At(s)' = to /\ \A t \in Sources \ {s} : At(t)' = At(t)
<1>1. p = Server /\ Server \in Procs
    BY CorpusAssumption DEF Alone
<1>2. thread \in [Procs \X Sources -> Steps]
    BY DEF TypeOK
<1>3. thread[<<Server, s>>] = from /\ thread' = [thread EXCEPT ![<<Server, s>>] = to]
    BY <1>1 DEF Step
<1>4. \A t \in Sources : <<Server, t>> \in Procs \X Sources
    BY <1>1
<1>5. \A t \in Sources \ {s} : <<Server, t>> # <<Server, s>>
    OBVIOUS
<1>6. QED
    BY <1>1, <1>2, <1>3, <1>4, <1>5 DEF At

(* _drop_source: what is kept has every other source, for the whole file   *)
(* was read and none of its lines is torn.                                 *)
LEMMA DropFile ==
    ASSUME Alone, TypeOK, FileInv, NEW p \in Procs, NEW s \in Sources, DropSource(p, s)
    PROVE  FileInv'
<1>1. \A t \in Sources : p = Server /\ At(t) \notin Locked
    BY CorpusAssumption DEF Alone, DropSource, LockFree, At
<1>2. UNCHANGED <<staging, tmp, latest, cut>>
    BY DEF DropSource, history
<1>3. CASE Unreadable
    <2>1. Step(p, s, "parse", "out") /\ kept' = kept
        BY <1>3 DEF DropSource
    <2>2. \A t \in Sources : At(t)' = At(t) \/ (At(t) \notin Locked /\ At(t)' \notin Locked)
        BY <1>1, <2>1, ThreadMoves DEF Locked
    <2>3. QED
        BY <1>2, <2>1, <2>2, FileStays
<1>4. CASE ~Unreadable
    <2> DEFINE I == {n \in 1..Len(staging) : staging[n].source # s}
    <2>1. PICK f \in InOrder(I) : kept' = [kept EXCEPT ![<<p, s>>] = Taken(staging, f)]
        BY <1>4 DEF DropSource
    <2>2. Step(p, s, "parse", "write")
        BY <1>4 DEF DropSource
    <2>3. /\ At(s)' = "write" /\ \A t \in Sources \ {s} : At(t)' = At(t)
          /\ \A t \in Sources : At(t) # "append"
        BY <1>1, <2>2, ThreadMoves DEF Locked
    <2> DEFINE less == Taken(staging, f)
    <2>4. kept'[<<Server, s>>] = less
        BY <1>1, <2>1, CorpusAssumption DEF TypeOK
    <2>5. HasOthers(less, s)
        <3>1. staging \in Seq(Lines) /\ Len(staging) \in Nat /\ I \in SUBSET (1..Len(staging))
            BY DEF TypeOK
        <3>2. ASSUME NEW t \in Sources \ {s} PROVE t \in cut \/ LinesAre(less, t, latest[t])
            <4>1. t \in cut \/ LinesAre(staging, t, latest[t])
                BY <2>3 DEF FileInv, Whole
            <4>2. Places(staging, t) \subseteq I
                BY DEF Places
            <4>3. LinesAre(staging, t, latest[t]) => LinesAre(less, t, latest[t])
                <5> HIDE DEF I
                <5>1. QED
                    BY <2>1, <3>1, <4>2, OthersStay
            <4>4. QED
                BY <4>1, <4>3
        <3>3. ASSUME NEW n \in 1..Len(less) PROVE less[n].source # s /\ less[n].text # Torn
            <4> DEFINE k == Cardinality(I)
            <4>1. f \in [1..k -> I] /\ k \in Nat
                <5> HIDE DEF I
                <5>1. QED
                    BY <2>1, <3>1, OrderOf DEF k
            <4>2. less = [m \in 1..k |-> staging[f[m]]]
                BY <4>1 DEF Taken
            <4>3. less \in Seq(Lines)
                <5> HIDE DEF I
                <5>1. QED
                    BY <2>1, <3>1, TakenType
            <4>4. n \in 1..k
                <5> HIDE DEF less, k
                <5>1. QED
                    BY <4>1, <4>2, <4>3, LenProperties
            <4>5. f[n] \in I /\ less[n] = staging[f[n]]
                BY <4>1, <4>2, <4>4
            <4>6. QED
                BY <1>4, <4>5 DEF Unreadable
        <3>4. QED
            BY <3>2, <3>3 DEF HasOthers
    <2>6. ThreadInv(s)'
        <3> HIDE DEF less
        <3>1. HasOthers(kept[<<Server, s>>], s)'
            BY <1>2, <2>4, <2>5 DEF HasOthers
        <3>2. ~Unreadable'
            BY <1>2, <1>4 DEF Unreadable
        <3>3. QED
            BY <2>3, <3>1, <3>2 DEF ThreadInv
    <2>7. \A t \in Sources \ {s} : ThreadInv(t)'
        BY <1>1, <2>3 DEF ThreadInv, Locked
    <2>8. OneLocked'
        BY <1>1, <2>3 DEF OneLocked
    <2>9. TornIsCut' /\ Whole'
        BY <1>2, <2>3 DEF FileInv, TornIsCut, Whole
    <2>10. QED
        BY <2>6, <2>7, <2>8, <2>9 DEF FileInv
<1>5. QED
    BY <1>3, <1>4

(* The threads that hold the lock, seen from the one that moves.           *)
LEMMA TheLockIsOurs ==
    ASSUME FileInv, NEW s \in Sources, At(s) \in Locked
    PROVE  /\ ~Unreadable /\ ThreadInv(s)
           /\ \A t \in Sources \ {s} : At(t) \notin Locked
BY DEF FileInv, OneLocked, ThreadInv

LEMMA WriteFile ==
    ASSUME Alone, TypeOK, FileInv, NEW p \in Procs, NEW s \in Sources, WriteTmp(p, s)
    PROVE  FileInv'
<1>1. /\ p = Server /\ At(s) = "write" /\ At(s)' = "swap"
      /\ \A t \in Sources \ {s} : At(t)' = At(t)
    BY ThreadMoves DEF WriteTmp
<1>2. tmp' = <<kept[<<Server, s>>]>> /\ UNCHANGED <<staging, kept, latest, cut>>
    BY <1>1 DEF WriteTmp, history
<1>3. ~Unreadable /\ HasOthers(kept[<<Server, s>>], s) /\ \A t \in Sources \ {s} : At(t) \notin Locked
    BY <1>1, TheLockIsOurs DEF Locked, ThreadInv
<1>4. ThreadInv(s)'
    <2>1. HasOthers(kept[<<Server, s>>], s)'
        BY <1>2, <1>3 DEF HasOthers
    <2>2. QED
        BY <1>1, <1>2, <1>3, <2>1 DEF ThreadInv, Unreadable
<1>5. \A t \in Sources \ {s} : ThreadInv(t)'
    BY <1>1, <1>3 DEF ThreadInv, Locked
<1>6. OneLocked'
    BY <1>1, <1>3 DEF OneLocked
<1>7. TornIsCut' /\ Whole'
    BY <1>1, <1>2 DEF FileInv, TornIsCut, Whole
<1>8. QED
    BY <1>4, <1>5, <1>6, <1>7 DEF FileInv

LEMMA ReplaceFile ==
    ASSUME Alone, TypeOK, FileInv, NEW p \in Procs, NEW s \in Sources, Replace(p, s)
    PROVE  FileInv'
<1>1. p = Server /\ At(s) = "swap" /\ \A t \in Sources \ {s} : At(t)' = At(t)
    BY ThreadMoves DEF Replace
<1>2. /\ tmp = <<kept[<<Server, s>>]>> /\ HasOthers(kept[<<Server, s>>], s)
      /\ \A t \in Sources \ {s} : At(t) \notin Locked
    BY <1>1, TheLockIsOurs DEF Locked, ThreadInv
<1>3. tmp # <<>> /\ tmp[1] = kept[<<Server, s>>]
    BY <1>2
<1>4. At(s)' = "append" /\ staging' = kept[<<Server, s>>] /\ UNCHANGED <<latest, cut>>
    BY <1>3, ThreadMoves DEF Replace, history
<1>5. HasOthers(staging', s)
    BY <1>2, <1>4
<1>6. HasOthers(staging, s)'
    BY <1>4, <1>5 DEF HasOthers
<1>7. ThreadInv(s)'
    <2>1. ~Unreadable'
        BY <1>5 DEF HasOthers, Unreadable
    <2>2. QED
        BY <1>4, <1>6, <2>1 DEF ThreadInv
<1>8. \A t \in Sources \ {s} : ThreadInv(t)'
    BY <1>1, <1>2 DEF ThreadInv, Locked
<1>9. OneLocked'
    BY <1>1, <1>2 DEF OneLocked
<1>10. TornIsCut' /\ Whole'
    <2>1. Whole'
        BY <1>4, <1>6 DEF HasOthers, Whole
    <2>2. TornIsCut'
        BY <1>6 DEF HasOthers, TornIsCut
    <2>3. QED
        BY <2>1, <2>2
<1>11. QED
    BY <1>7, <1>8, <1>9, <1>10 DEF FileInv

LEMMA LinesOfSource ==
    ASSUME NEW s \in Sources, NEW texts \in Seq(Texts)
    PROVE  /\ LinesOf(s, texts) \in Seq(Lines)
           /\ \A n \in 1..Len(LinesOf(s, texts)) :
                LinesOf(s, texts)[n].source = s /\ LinesOf(s, texts)[n].text # Torn
<1> DEFINE more == LinesOf(s, texts)
<1>1. more \in Seq(Lines)
    BY LinesType
<1>2. more = [n \in 1..Len(texts) |-> LineOf(s, texts[n])] /\ Len(texts) \in Nat
    BY DEF LinesOf
<1>3. Len(more) = Len(texts)
    <2> HIDE DEF more
    <2>1. QED
        BY <1>1, <1>2, LenProperties
<1>4. ASSUME NEW n \in 1..Len(more) PROVE more[n].source = s /\ more[n].text # Torn
    <2>1. n \in 1..Len(texts)
        BY <1>3
    <2>2. texts[n] \in Texts /\ more[n] = LineOf(s, texts[n])
        BY <1>2, <2>1
    <2>3. QED
        BY <2>2, CorpusAssumption DEF LineOf
<1>5. QED
    BY <1>1, <1>4

LEMMA AppendFile ==
    ASSUME Alone, TypeOK, FileInv, NEW p \in Procs, NEW s \in Sources, NEW texts \in Parses,
           AppendLines(p, s, texts)
    PROVE  FileInv'
<1>1. /\ p = Server /\ At(s) = "append" /\ At(s)' = "out"
      /\ \A t \in Sources \ {s} : At(t)' = At(t)
    BY ThreadMoves DEF AppendLines
<1>2. HasOthers(staging, s) /\ \A t \in Sources \ {s} : At(t) \notin Locked
    BY <1>1, TheLockIsOurs DEF Locked, ThreadInv
<1> DEFINE more == LinesOf(s, texts)
<1>3. /\ more \in Seq(Lines) /\ staging \in Seq(Lines)
      /\ \A n \in 1..Len(more) : more[n].source = s /\ more[n].text # Torn
    BY CorpusAssumption, LinesOfSource DEF TypeOK
<1>4. /\ staging' = staging \o more /\ cut' = cut \ {s}
      /\ latest' = [latest EXCEPT ![s] = more]
    BY DEF AppendLines
<1> HIDE DEF more
<1>5. latest'[s] = more /\ \A t \in Sources \ {s} : latest'[t] = latest[t]
    BY <1>4 DEF TypeOK
<1>6. LinesAre(staging', s, latest'[s])
    BY <1>2, <1>3, <1>4, <1>5, AppendOwn DEF HasOthers
<1>7. ASSUME NEW t \in Sources \ {s} PROVE t \in cut' \/ LinesAre(staging', t, latest'[t])
    <2>1. t \in cut \/ LinesAre(staging, t, latest[t])
        BY <1>2 DEF HasOthers
    <2>2. LinesAre(staging, t, latest[t]) => LinesAre(staging', t, latest[t])
        BY <1>3, <1>4, AppendOthers
    <2>3. QED
        BY <1>4, <1>5, <2>1, <2>2
<1>8. Whole'
    BY <1>6, <1>7 DEF Whole
<1>9. TornIsCut'
    <2>1. ASSUME NEW n \in 1..Len(staging \o more) PROVE (staging \o more)[n].text # Torn
        <3>1. /\ Len(staging) \in Nat /\ Len(more) \in Nat /\ n \in 1..(Len(staging) + Len(more))
              /\ (staging \o more)[n] = IF n <= Len(staging) THEN staging[n] ELSE more[n - Len(staging)]
            BY <1>3, ConcatProperties, LenProperties
        <3>2. CASE n <= Len(staging)
            BY <1>2, <3>1, <3>2 DEF HasOthers
        <3>3. CASE n > Len(staging)
            <4>1. n - Len(staging) \in 1..Len(more)
                BY <3>1, <3>3
            <4>2. QED
                BY <1>3, <3>1, <3>3, <4>1
        <3>4. QED
            BY <3>1, <3>2, <3>3
    <2>2. QED
        BY <1>4, <2>1 DEF TornIsCut
<1>10. \A t \in Sources : At(t)' \notin Locked
    BY <1>1, <1>2 DEF Locked
<1>11. OneLocked' /\ \A t \in Sources : ThreadInv(t)'
    BY <1>10 DEF OneLocked, ThreadInv, Locked
<1>12. QED
    BY <1>8, <1>9, <1>11 DEF FileInv

(* A death leaves the file as it was, or with some lines of the source in  *)
(* its append, the last of them cut short: that source is in cut.          *)
LEMMA DieFile ==
    ASSUME Alone, TypeOK, FileInv, NEW p \in Procs, Die(p)
    PROVE  FileInv'
<1> DEFINE midway == {s \in Sources : thread[<<p, s>>] = "append"}
<1>1. p = Server /\ Server \in Procs
    BY CorpusAssumption DEF Alone
<1>2. /\ cut' = cut \cup midway /\ latest' = latest
      /\ thread' = [t \in Procs \X Sources |-> IF t[1] = p THEN "out" ELSE thread[t]]
    BY DEF Die
<1>3. midway = {s \in Sources : At(s) = "append"}
    BY <1>1 DEF At
<1>4. \A s \in Sources : At(s)' = "out"
    BY <1>1, <1>2 DEF At
<1>5. OneLocked' /\ \A s \in Sources : ThreadInv(s)'
    BY <1>4 DEF OneLocked, ThreadInv, Locked
<1> HIDE DEF midway
<1>6. CASE staging' = staging
    BY <1>2, <1>3, <1>5, <1>6 DEF FileInv, TornIsCut, Whole
<1>7. ASSUME NEW s \in midway, NEW more \in Seq(Lines), staging' = staging \o more,
             \A n \in 1..Len(more) : more[n].source = s
      PROVE  FileInv'
    <2>1. s \in Sources /\ At(s) = "append" /\ s \in cut' /\ staging \in Seq(Lines)
        BY <1>2, <1>3 DEF TypeOK
    <2>2. HasOthers(staging, s)
        BY <2>1, TheLockIsOurs DEF ThreadInv, Locked
    <2>3. ASSUME NEW t \in Sources \ {s} PROVE t \in cut' \/ LinesAre(staging', t, latest'[t])
        <3>1. t \in cut \/ LinesAre(staging, t, latest[t])
            BY <2>2 DEF HasOthers
        <3>2. LinesAre(staging, t, latest[t]) => LinesAre(staging', t, latest[t])
            BY <1>7, <2>1, AppendOthers
        <3>3. QED
            BY <1>2, <3>1, <3>2
    <2>4. Whole'
        BY <2>1, <2>3 DEF Whole
    <2>5. ASSUME NEW n \in 1..Len(staging \o more), (staging \o more)[n].text = Torn
          PROVE  (staging \o more)[n].source = s
        <3>1. /\ Len(staging) \in Nat /\ Len(more) \in Nat /\ n \in 1..(Len(staging) + Len(more))
              /\ (staging \o more)[n] = IF n <= Len(staging) THEN staging[n] ELSE more[n - Len(staging)]
            BY <2>1, ConcatProperties, LenProperties
        <3>2. CASE n <= Len(staging)
            BY <2>2, <2>5, <3>1, <3>2 DEF HasOthers
        <3>3. CASE n > Len(staging)
            <4>1. n - Len(staging) \in 1..Len(more)
                BY <3>1, <3>3
            <4>2. QED
                BY <1>7, <3>1, <3>3, <4>1
        <3>4. QED
            BY <3>1, <3>2, <3>3
    <2>6. TornIsCut'
        BY <1>7, <2>1, <2>5 DEF TornIsCut
    <2>7. QED
        BY <1>5, <2>4, <2>6 DEF FileInv
<1>8. ASSUME NEW s \in midway, NEW texts \in Parses, NEW n \in 1..Len(texts),
             \/ staging' = staging \o LinesOf(s, SubSeq(texts, 1, n))
             \/ staging' = Append(staging \o LinesOf(s, SubSeq(texts, 1, n - 1)), LineOf(s, Torn))
      PROVE  FileInv'
    <2>1. s \in Sources /\ staging \in Seq(Lines) /\ texts \in Seq(Texts)
        BY <1>3, CorpusAssumption DEF TypeOK
    <2>2. SubSeq(texts, 1, n) \in Seq(Texts) /\ SubSeq(texts, 1, n - 1) \in Seq(Texts)
        BY <2>1
    <2> DEFINE some == LinesOf(s, SubSeq(texts, 1, n))
               fewer == LinesOf(s, SubSeq(texts, 1, n - 1))
               rest == LineOf(s, Torn)
    <2>3. /\ some \in Seq(Lines) /\ \A m \in 1..Len(some) : some[m].source = s
          /\ fewer \in Seq(Lines) /\ \A m \in 1..Len(fewer) : fewer[m].source = s
        BY <2>1, <2>2, LinesOfSource
    <2>4. rest \in Lines /\ rest.source = s
        BY <2>1 DEF LineOf, Lines
    <2>5. staging' = staging \o some \/ staging' = Append(staging \o fewer, rest)
        BY <1>8
    <2> HIDE DEF some, fewer, rest
    <2>6. CASE staging' = staging \o some
        BY <1>7, <2>3, <2>6
    <2>7. CASE staging' = Append(staging \o fewer, rest)
        <3>1. Append(fewer, rest) \in Seq(Lines)
            BY <2>3, <2>4
        <3>2. Append(staging \o fewer, rest) = staging \o Append(fewer, rest)
            <4>1. staging \o fewer \in Seq(Lines) /\ <<rest>> \in Seq(Lines)
                BY <2>1, <2>3, <2>4
            <4>2. /\ Append(staging \o fewer, rest) = (staging \o fewer) \o <<rest>>
                  /\ Append(fewer, rest) = fewer \o <<rest>>
                BY <2>3, <2>4, <4>1, AppendIsConcat
            <4>3. (staging \o fewer) \o <<rest>> = staging \o (fewer \o <<rest>>)
                BY <2>1, <2>3, <4>1, ConcatAssociative
            <4>4. QED
                BY <4>2, <4>3
        <3>3. \A m \in 1..Len(Append(fewer, rest)) : Append(fewer, rest)[m].source = s
            BY <2>3, <2>4
        <3>4. QED
            BY <1>7, <2>7, <3>1, <3>2, <3>3
    <2>8. QED
        BY <2>5, <2>6, <2>7
<1>9. QED
    <2>1. \/ staging' = staging
          \/ \E s \in midway, texts \in Parses : \E n \in 1..Len(texts) :
               \/ staging' = staging \o LinesOf(s, SubSeq(texts, 1, n))
               \/ staging' = Append(staging \o LinesOf(s, SubSeq(texts, 1, n - 1)), LineOf(s, Torn))
        BY DEF Die, midway
    <2>2. QED
        BY <1>6, <1>8, <2>1

(* The operator deletes torn lines: they are lines of sources in cut.      *)
LEMMA MendFile ==
    ASSUME TypeOK, FileInv, Mend
    PROVE  FileInv'
<1> DEFINE I == {n \in 1..Len(staging) : staging[n].text # Torn}
<1>1. Unreadable /\ UNCHANGED <<tmp, thread, kept, latest, cut>>
    BY DEF Mend, phase1, history
<1>2. PICK f \in InOrder(I) : staging' = Taken(staging, f)
    BY DEF Mend
<1>3. staging \in Seq(Lines) /\ Len(staging) \in Nat /\ I \in SUBSET (1..Len(staging))
    BY DEF TypeOK
<1>4. \A s \in Sources : At(s) \notin Locked /\ At(s)' \notin Locked
    BY <1>1 DEF FileInv, ThreadInv, At
<1>5. ASSUME NEW s \in Sources PROVE s \in cut' \/ LinesAre(staging', s, latest'[s])
    <2>1. s \in cut \/ LinesAre(staging, s, latest[s])
        BY <1>4 DEF FileInv, Whole, Locked
    <2>2. s \notin cut => Places(staging, s) \subseteq I
        BY DEF FileInv, TornIsCut, Places
    <2> HIDE DEF I
    <2>3. Places(staging, s) \subseteq I /\ LinesAre(staging, s, latest[s]) => LinesAre(staging', s, latest[s])
        BY <1>2, <1>3, OthersStay
    <2>4. QED
        BY <1>1, <2>1, <2>2, <2>3
<1>6. Whole'
    BY <1>5 DEF Whole
<1>7. TornIsCut'
    <2> DEFINE less == Taken(staging, f)
               k == Cardinality(I)
    <2>1. f \in [1..k -> I] /\ k \in Nat /\ less \in Seq(Lines)
        <3> HIDE DEF I
        <3>1. QED
            BY <1>2, <1>3, OrderOf, TakenType DEF k
    <2>2. less = [m \in 1..k |-> staging[f[m]]]
        BY <2>1 DEF Taken
    <2>3. Len(less) = k
        <3> HIDE DEF less, k
        <3>1. QED
            BY <2>1, <2>2, LenProperties
    <2>4. \A n \in 1..Len(less) : less[n].text # Torn
        <3> SUFFICES ASSUME NEW n \in 1..Len(less) PROVE less[n].text # Torn
            OBVIOUS
        <3>1. n \in 1..k
            BY <2>3
        <3>2. less[n] = staging[f[n]] /\ f[n] \in I
            BY <2>1, <2>2, <3>1
        <3>3. QED
            BY <3>2
    <2> HIDE DEF less
    <2>5. staging' = less
        BY <1>2 DEF less
    <2>6. QED
        BY <2>4, <2>5 DEF TornIsCut
<1>8. OneLocked' /\ \A s \in Sources : ThreadInv(s)'
    BY <1>4 DEF OneLocked, ThreadInv, Locked
<1>9. QED
    BY <1>6, <1>7, <1>8 DEF FileInv

LEMMA StartFile ==
    ASSUME Alone, TypeOK, FileInv, NEW p \in Procs, NEW entries \in SUBSET Sources, Start(p, entries)
    PROVE  FileInv'
<1>1. p = Server /\ Server \in Procs
    BY CorpusAssumption DEF Alone
<1>2. /\ Quiet(Server) /\ UNCHANGED <<staging, tmp, kept, latest, cut>>
      /\ thread' = [t \in Procs \X Sources |->
                    IF t[1] = Server /\ t[2] \in entries THEN "parse" ELSE thread[t]]
    BY <1>1 DEF Start, history
<1>3. ASSUME NEW s \in Sources PROVE At(s) \notin Locked /\ At(s)' \notin Locked
    <2>1. At(s) = "out"
        BY <1>2 DEF Quiet, At
    <2>2. At(s)' = "parse" \/ At(s)' = At(s)
        BY <1>1, <1>2 DEF At
    <2>3. QED
        BY <2>1, <2>2 DEF Locked
<1>4. QED
    BY <1>2, <1>3, FileStays

LEMMA FileNext ==
    ASSUME Alone, TypeOK, FileInv, [Next]_vars
    PROVE  FileInv'
<1>1. ASSUME NEW p \in Procs, NEW entries \in SUBSET Sources, Start(p, entries) PROVE FileInv'
    BY <1>1, StartFile
<1>2. ASSUME NEW p \in Procs, NEW s \in Sources, Phase1Step(p, s) PROVE FileInv'
    <2>1. CASE Lose(p, s)
        <3>1. Step(p, s, "parse", "out") /\ UNCHANGED <<staging, tmp, kept, latest, cut>>
            BY <2>1 DEF Lose, history
        <3>2. \A t \in Sources : At(t)' = At(t) \/ (At(t) \notin Locked /\ At(t)' \notin Locked)
            BY <3>1, ThreadMoves DEF Locked
        <3>3. QED
            BY <3>1, <3>2, FileStays
    <2>2. QED
        BY <1>2, <2>1, DropFile, WriteFile, ReplaceFile, AppendFile DEF Phase1Step
<1>3. ASSUME EndPhase1 \/ ReadStaging \/ PassStep \/ Abort \/ (\E s \in Runs : Report(s)) \/ UNCHANGED vars
      PROVE  FileInv'
    <2>1. UNCHANGED <<staging, tmp, thread, kept, latest, cut>>
        BY <1>3 DEF EndPhase1, ReadStaging, PassStep, ReadCursor, TakeGroup, Link, WriteCursor, EndPass,
                    Abort, Report, vars, files, phase1, history
    <2>2. \A s \in Sources : At(s)' = At(s)
        BY <2>1 DEF At
    <2>3. QED
        BY <2>1, <2>2, FileStays
<1>4. ASSUME NEW p \in Procs, Die(p) PROVE FileInv'
    BY <1>4, DieFile
<1>5. CASE Mend
    BY <1>5, MendFile
<1>6. QED
    BY <1>1, <1>2, <1>3, <1>4, <1>5 DEF Next

(* The staging file has of every source the lines of its last parse and no *)
(* others, whatever the threads of the server do side by side and wherever *)
(* it dies: only a source caught in its own append is not covered.         *)
THEOREM LinesOfTheLastParse ==
    ASSUME Alone
    PROVE  Spec => []NothingLost
<1>1. Init => FileInv
    BY FileInit
<1>2. TypeOK /\ FileInv /\ [Next]_vars => FileInv'
    BY FileNext
<1>3. FileInv => NothingLost
    BY WholeIsEnough
<1>4. QED
    BY <1>1, <1>2, <1>3, TypeCorrect, PTL DEF Spec

=============================================================================
