------------------------------- MODULE Corpus -------------------------------
(***************************************************************************)
(* The corpus staging file between the two phases (src/lake/ingest/run.py):*)
(* phase 1 parses its sources in threads and replaces the lines of each,   *)
(* phase 2 consumes the lines up to a cursor kept in a file beside it.     *)
(*                                                                         *)
(* In the server both take the one slot of the process (api/jobs.py); the  *)
(* command line runs phase 1 as well, takes no slot and no lock, and knows *)
(* nothing of the server's staging lock.  POST /sources reports outcomes   *)
(* meanwhile.                                                              *)
(*                                                                         *)
(* Abstractions: a line is its source and its text; what linking does with *)
(* a line is the subject of Phase2, here the line ends in the lake or in   *)
(* the queue of refusals.                                                  *)
(***************************************************************************)
EXTENDS Integers, Sequences, SequencesExt, FiniteSetsExt

CONSTANTS
    Sources, Texts, Torn,   (* the text of a line that was cut short       *)
    Parses,                 (* what a document may be parsed into          *)
    Procs, Server,          (* processes that run phase 1, server included *)
    Runs,                   (* sources POST /sources reports on            *)
    MaxPhase1, MaxStops     (* bounds                                      *)

Lines == [source : Sources, text : Texts \cup {Torn}]

ASSUME CorpusAssumption ==
    /\ Torn \notin Texts /\ Parses \subseteq Seq(Texts) /\ Server \in Procs
    /\ IsFiniteSet(Sources) /\ Sources # {}
    /\ Runs \subseteq Sources /\ MaxPhase1 \in Nat /\ MaxStops \in Nat

VARIABLES
    staging, cursor,    (* the files; no cursor is 0                       *)
    tmp,                (* staging.jsonl.tmp, <<>> or <<its content>>      *)
    slot,               (* who has the slot of the server                  *)
    thread,             (* the step of each source in each process         *)
    kept,               (* what a thread keeps of the file                 *)
    rows, done, mark,   (* the pass: lines read, lines done, its cursor    *)
    group, todo,        (* the lines of its source; those not yet decided  *)
    limit,              (* sources the pass may still take                 *)
    lake, pending,      (* lines stored; lines the arbiter refused         *)
    outcome,            (* is the outcome of the source in its node?       *)
    latest,             (* history: the last lines a parse appended        *)
    cut,                (* history: sources caught by a death between the  *)
                        (* replacement and the end of the append           *)
    reported,           (* history: was an outcome reported?               *)
    starts, stops

files == <<staging, cursor, tmp>>
phase1 == <<thread, kept>>
pass == <<rows, done, mark, group, todo, limit>>
graph == <<lake, pending, outcome>>
history == <<latest, cut, reported>>
bounds == <<starts, stops>>
vars == <<files, slot, phase1, pass, graph, history, bounds>>

Steps == {"out", "parse", "write", "swap", "append"}
Locked == {"write", "swap", "append"}
LineOf(s, t) == [source |-> s, text |-> t]

(* A sequence without some of its lines, the others in their order.        *)
InOrder(I) ==
    {f \in [1..Cardinality(I) -> I] : \A m, n \in DOMAIN f : m < n => f[m] < f[n]}
Taken(seq, f) == [n \in DOMAIN f |-> seq[f[n]]]

(* The lines of s in a sequence, in their order, are these.                *)
LinesAre(seq, s, lines) ==
    \E f \in InOrder({n \in 1..Len(seq) : seq[n].source = s}) : Taken(seq, f) = lines
Unreadable == \E n \in 1..Len(staging) : staging[n].text = Torn
Quiet(p) == \A s \in Sources : thread[<<p, s>>] = "out"

TypeOK ==
    /\ staging \in Seq(Lines) /\ cursor \in Nat
    /\ tmp = <<>> \/ tmp[1] \in Seq(Lines)
    /\ slot \in {"free", "phase1", "phase2"}
    /\ thread \in [Procs \X Sources -> Steps] /\ kept \in [Procs \X Sources -> Seq(Lines)]
    /\ rows \in Seq(Lines) /\ done \subseteq Nat /\ mark \in Nat \cup {-1} /\ group \subseteq 1..Len(rows)
    /\ todo \subseteq group /\ limit \in 0..Cardinality(Sources)
    /\ lake \subseteq Lines /\ pending \subseteq Lines
    /\ outcome \in [Sources -> BOOLEAN] /\ reported \in [Sources -> BOOLEAN]
    /\ latest \in [Sources -> Seq(Lines)] /\ cut \subseteq Sources
    /\ starts \in 0..MaxPhase1 /\ stops \in 0..MaxStops

Init ==
    /\ staging = <<>> /\ cursor = 0 /\ tmp = <<>> /\ slot = "free"
    /\ thread = [t \in Procs \X Sources |-> "out"] /\ kept = [t \in Procs \X Sources |-> <<>>]
    /\ rows = <<>> /\ done = {} /\ mark = 0 /\ group = {} /\ todo = {} /\ limit = 0
    /\ lake = {} /\ pending = {} /\ outcome = [s \in Sources |-> FALSE]
    /\ latest = [s \in Sources |-> <<>>] /\ cut = {} /\ reported = outcome
    /\ starts = 0 /\ stops = 0

(***************************************************************************)
(* Phase 1.                                                                *)
(***************************************************************************)
(* Bug: the cursor outlives the lines it counts.                           *)
KeepCursor == UNCHANGED cursor

DropCursor == cursor' = 0

(* phase1 of some entries; the server answers 409 while its slot is taken  *)
Start(p, entries) ==
    /\ starts < MaxPhase1 /\ starts' = starts + 1
    /\ Quiet(p)
    /\ IF p = Server THEN slot = "free" /\ slot' = "phase1" ELSE UNCHANGED slot
    /\ DropCursor
    /\ thread' = [t \in Procs \X Sources |->
                  IF t[1] = p /\ t[2] \in entries THEN "parse" ELSE thread[t]]
    /\ UNCHANGED <<staging, tmp, kept, pass, graph, history, stops>>

Step(p, s, from, to) == thread[<<p, s>>] = from /\ thread' = [thread EXCEPT ![<<p, s>>] = to]
Rest == <<cursor, slot, pass, graph, bounds>>

(* the document is not fetched or parsed: its old lines stay               *)
Lose(p, s) ==
    /\ Step(p, s, "parse", "out")
    /\ UNCHANGED <<staging, tmp, kept, history, Rest>>

(* Bug: the file is rewritten outside the lock.                            *)
LockFreeAnyway(p) == TRUE

(* _staging_lock, of one process                                           *)
LockFree(p) == \A s \in Sources : thread[<<p, s>>] \notin Locked

(* _drop_source: every line is parsed, one that is torn ends the source    *)
DropSource(p, s) ==
    /\ LockFree(p)
    /\ IF Unreadable THEN Step(p, s, "parse", "out") /\ UNCHANGED kept
       ELSE /\ Step(p, s, "parse", "write")
            /\ \E f \in InOrder({n \in 1..Len(staging) : staging[n].source # s}) :
                 kept' = [kept EXCEPT ![<<p, s>>] = Taken(staging, f)]
    /\ UNCHANGED <<staging, tmp, history, Rest>>

WriteTmp(p, s) ==
    /\ Step(p, s, "write", "swap")
    /\ tmp' = <<kept[<<p, s>>]>>
    /\ UNCHANGED <<staging, kept, history, Rest>>

(* tmp.replace(staging): another process may have taken the file           *)
Replace(p, s) ==
    /\ \/ /\ tmp # <<>> /\ Step(p, s, "swap", "append")
          /\ staging' = tmp[1] /\ tmp' = <<>>
       \/ tmp = <<>> /\ Step(p, s, "swap", "out") /\ UNCHANGED <<staging, tmp>>
    /\ kept' = [kept EXCEPT ![<<p, s>>] = <<>>]
    /\ UNCHANGED <<history, Rest>>

LinesOf(s, texts) == [n \in 1..Len(texts) |-> LineOf(s, texts[n])]

AppendLines(p, s, texts) ==
    /\ Step(p, s, "append", "out")
    /\ staging' = staging \o LinesOf(s, texts)
    /\ latest' = [latest EXCEPT ![s] = LinesOf(s, texts)]
    /\ cut' = cut \ {s}
    /\ UNCHANGED <<tmp, kept, reported, Rest>>

(* the report, and the slot                                                *)
EndPhase1 ==
    /\ slot = "phase1" /\ Quiet(Server)
    /\ slot' = "free"
    /\ UNCHANGED <<files, phase1, pass, graph, history, bounds>>

Phase1Step(p, s) ==
    \/ Lose(p, s) \/ DropSource(p, s) \/ WriteTmp(p, s) \/ Replace(p, s)
    \/ \E texts \in Parses : AppendLines(p, s, texts)

(***************************************************************************)
(* Phase 2, in the slot of the server.                                     *)
(***************************************************************************)
(* _read_staging: a torn line ends the pass                                *)
ReadStaging ==
    /\ slot = "free" /\ ~Unreadable
    /\ slot' = "phase2" /\ rows' = staging /\ mark' = -1
    /\ limit' \in {1, Cardinality(Sources)}
    /\ UNCHANGED <<files, phase1, done, group, todo, graph, history, bounds>>

ReadCursor ==
    /\ slot = "phase2" /\ mark = -1
    /\ mark' = cursor /\ done' = 1..cursor
    /\ UNCHANGED <<files, slot, phase1, rows, group, todo, limit, graph, history, bounds>>

(* Bug: the lines behind the cursor are grouped again.                     *)
FirstGroup == {{m \in 1..Len(rows) : rows[m].source = rows[n].source} : n \in 1..Min({1, Len(rows)})}

(* _group_by_source: the next group, by the first line that is not done    *)
NextGroup ==
    LET left == (1..Len(rows)) \ done
    IN  IF left = {} THEN {} ELSE {{m \in left : rows[m].source = rows[Min(left)].source}}

(* write_source of the copy in the first line: it carries no outcome       *)
TakeGroup ==
    /\ slot = "phase2" /\ mark >= 0 /\ group = {} /\ limit > 0
    /\ group' \in NextGroup /\ todo' = group' /\ limit' = limit - 1
    /\ outcome' = [outcome EXCEPT ![rows[Min(group')].source] = FALSE]
    /\ UNCHANGED <<files, slot, phase1, rows, done, mark, lake, pending, history, bounds>>

(* link_batch, line by line: stored already, stored or refused             *)
Link ==
    /\ \E n \in todo :
         /\ todo' = todo \ {n}
         /\ \/ rows[n] \in lake /\ UNCHANGED <<lake, pending>>
            \/ rows[n] \notin lake /\ lake' = lake \cup {rows[n]} /\ UNCHANGED pending
            \/ rows[n] \notin lake /\ pending' = pending \cup {rows[n]} /\ UNCHANGED lake
    /\ UNCHANGED <<files, slot, phase1, rows, done, mark, group, limit, outcome, history, bounds>>

(* _advance: nothing that is not done lies behind the cursor               *)
Watermark(from, lines) ==
    CHOOSE n \in from..Max(lines \cup {from}) :
      (from + 1)..n \subseteq lines /\ n + 1 \notin lines

(* the cursor is written when the source is behind it                      *)
WriteCursor ==
    /\ group # {} /\ todo = {}
    /\ done' = done \cup group /\ group' = {}
    /\ mark' = Watermark(mark, done') /\ cursor' = mark'
    /\ UNCHANGED <<staging, tmp, slot, phase1, rows, todo, limit, graph, history, bounds>>

NoPass ==
    /\ slot' = "free" /\ rows' = <<>> /\ done' = {} /\ mark' = 0
    /\ group' = {} /\ todo' = {} /\ limit' = 0

(* the limit, or no more groups                                            *)
EndPass ==
    /\ slot = "phase2" /\ mark >= 0 /\ group = {}
    /\ limit = 0 \/ NextGroup = {}
    /\ NoPass
    /\ UNCHANGED <<files, phase1, graph, history, bounds>>

PassStep == ReadCursor \/ TakeGroup \/ Link \/ WriteCursor \/ EndPass

(***************************************************************************)
(* Around them.                                                            *)
(***************************************************************************)
(* ops.upsert_source: a run is reported, or reported again                 *)
Report(s) ==
    /\ outcome' = [outcome EXCEPT ![s] = TRUE] /\ reported' = [reported EXCEPT ![s] = TRUE]
    /\ UNCHANGED <<files, slot, phase1, pass, lake, pending, latest, cut, bounds>>

(* A pass raises.                                                          *)
Abort ==
    /\ slot = "phase2" /\ stops < MaxStops /\ stops' = stops + 1
    /\ NoPass
    /\ UNCHANGED <<files, phase1, graph, history, starts>>

(* A process dies; an append of several lines may be cut anywhere.         *)
Die(p) ==
    /\ stops < MaxStops /\ stops' = stops + 1
    /\ thread' = [t \in Procs \X Sources |-> IF t[1] = p THEN "out" ELSE thread[t]]
    /\ kept' = [t \in Procs \X Sources |-> IF t[1] = p THEN <<>> ELSE kept[t]]
    /\ IF p = Server THEN NoPass ELSE UNCHANGED <<slot, pass>>
    /\ LET midway == {s \in Sources : thread[<<p, s>>] = "append"}
       IN  /\ cut' = cut \cup midway
           /\ \/ UNCHANGED staging
              \/ \E s \in midway, texts \in Parses : \E n \in 1..Len(texts) :
                   \/ staging' = staging \o LinesOf(s, SubSeq(texts, 1, n))
                   \/ staging' = Append(staging \o LinesOf(s, SubSeq(texts, 1, n - 1)), LineOf(s, Torn))
    /\ UNCHANGED <<cursor, tmp, graph, latest, reported, starts>>

(* The operator deletes a torn line.                                       *)
Mend ==
    /\ Unreadable
    /\ \E f \in InOrder({n \in 1..Len(staging) : staging[n].text # Torn}) :
         staging' = Taken(staging, f)
    /\ UNCHANGED <<cursor, tmp, slot, phase1, pass, graph, history, bounds>>

Next ==
    \/ \E p \in Procs, entries \in SUBSET Sources \ {{}} : Start(p, entries)
    \/ \E p \in Procs, s \in Sources : Phase1Step(p, s)
    \/ EndPhase1
    \/ ReadStaging \/ PassStep \/ Abort
    \/ \E s \in Runs : Report(s)
    \/ \E p \in Procs : Die(p)
    \/ Mend

Spec == Init /\ [][Next]_vars

(* Threads run, and passes are asked for again and again.                  *)
FairSpec ==
    /\ Spec
    /\ \A p \in Procs, s \in Sources : WF_vars(Phase1Step(p, s))
    /\ WF_vars(EndPhase1) /\ WF_vars(PassStep) /\ SF_vars(ReadStaging)

(***************************************************************************)
(* Properties.                                                             *)
(***************************************************************************)
(* Every line behind the cursor went to the lake or to the refusals: phase *)
(* 2 never comes back to it.  Nor does the cursor point past the file,     *)
(* what ops.staging_state refuses as corruption.  Phase 1 moves lines and  *)
(* drops the cursor, passes are limited, raise and die between any two     *)
(* steps.                                                                  *)
CursorSkipsNothing ==
    /\ cursor <= Len(staging)
    /\ \A n \in 1..cursor : staging[n] \in lake \cup pending

(* The file holds of every source the lines of its last parse and no       *)
(* others, whatever threads rewrite it side by side; a death during an     *)
(* append is the one exception (_staging_lock, _drop_source).              *)
NothingLost ==
    \A s \in Sources : \/ s \in cut \/ \E p \in Procs : thread[<<p, s>>] = "append"
                      \/ LinesAre(staging, s, latest[s])

(* Every line is offered to the linker, replaced by a later parse or cut   *)
(* off by a torn line: no limit and no cursor holds it back for ever.      *)
EveryLineIsOffered ==
    \A s \in Sources, t \in Texts :
      LineOf(s, t) \in Range(staging) ~>
        LineOf(s, t) \in lake \cup pending \/ LineOf(s, t) \notin Range(staging) \/ Unreadable

(* What run.phase1 says of the cursor it drops, "dropping it costs         *)
(* nothing", and ops.upsert_source of a report, a call that is safe after  *)
(* every run: a reported outcome stays.  It fails: a pass over the source, *)
(* a replay included, writes its node anew from the staging line.          *)
OutcomeKept == \A s \in Sources : reported[s] => outcome[s]

=============================================================================
