---------------------------- MODULE IngestWorkers ----------------------------
(***************************************************************************)
(* The ingest threads of the API process (src/lake/api/workers.py) with    *)
(* everything they share: the job table, the payload and staging files and *)
(* their cursors, the in-process ingest slot (src/lake/api/jobs.py), the   *)
(* OS writer lock, and the graph.                                          *)
(*                                                                         *)
(* A process starts (lock, recover, threads), serves POST /fetch and       *)
(* POST /run and the manual jobs, stops or dies; files, table and graph    *)
(* stay.  With two processes, a deploy overlaps.                           *)
(*                                                                         *)
(* Abstractions: one source is one staging line and one group; the arbiter *)
(* accepts or refuses a source whole; the graph is the set of sources with *)
(* a leaf and pending_link the set of sources refused.                     *)
(***************************************************************************)
EXTENDS JobTable, Sequences

CONSTANTS
    Procs,      (* processes: one, or two when a deploy overlaps          *)
    Fetchers,   (* fetch threads of a process                             *)
    Writer,     (* its phase-2 thread                                     *)
    Posts,      (* what callers may post: <<key, NoHash>> is POST /fetch, *)
                (* <<key, hash>> is POST /run with that body              *)
    Lines,      (* per post, the sources its article or batch consists of *)
    NoFile,
    MaxStarts,  (* bound: process starts, and so crashes and deploys      *)
    MaxManual   (* bound: manual jobs an operator starts                  *)

Kinds == {"fetch", "run"}
Sources == UNION {{Lines[x][i] : i \in 1..Len(Lines[x])} : x \in Posts}

ASSUME WorkersAssumption ==
    /\ Writer \notin Fetchers
    /\ Posts \subseteq Keys \X (Hashes \cup {NoHash})
    /\ \A x \in Posts : Lines[x] \in Seq(Sources) /\ Len(Lines[x]) > 0 /\ Lines[x] # NoFile
    /\ MaxStarts \in Nat /\ MaxManual \in Nat

Workers == Fetchers \cup {Writer}

VARIABLES
    mode,       (* per process: down, recovering, up, stopping, stopped   *)
    depth,      (* per process: levels of the writer lock it holds        *)
    slot,       (* per process: jobs._current, by who holds it            *)
    manual,     (* per process: the manual job's thread                   *)
    pc, held,   (* per process and thread: its step, and its job          *)
    rows, pos,  (* per process: staging lines the writer read, and how    *)
                (* many of them are behind it                             *)
    written,    (* per process: the pass wrote a thesis                   *)
    denied,     (* per process: the pass had a thesis refused             *)
    payload,    (* per key: the body under data/run/<run_id>.json         *)
    staging,    (* per kind and key: the lines of the staging file        *)
    cursor,     (* per kind and key: the staging cursor, 0 when no file   *)
    graph,      (* sources with a leaf in the store                       *)
    refused,    (* sources in pending_link                                *)
    offered,    (* history: sources phase 2 of a job took from its file   *)
    answered,   (* history: bodies whose POST was answered with this job  *)
    lost,       (* history: jobs whose last write raised, until the next  *)
                (* claim or restart                                       *)
    starts, manuals

procVars == <<mode, depth, slot, manual>>
passVars == <<rows, pos, written, denied>>
fileVars == <<payload, staging, cursor>>
lakeVars == <<graph, refused, offered>>
bounds == <<starts, manuals>>
vars == <<tableVars, procVars, pc, held, passVars, fileVars, lakeVars, answered, lost,
          bounds>>

Steps == {"off", "idle", "drop", "convert", "commit", "clean", "failNow", "failGood",
          "slot", "read", "link", "advance", "check", "unlink", "uncursor", "finish"}

TypeOK ==
    /\ TableTypeOK
    /\ mode \in [Procs -> {"down", "recovering", "up", "stopping", "stopped"}]
    /\ depth \in [Procs -> 0..2]
    /\ slot \in [Procs -> {"free", "writer", "manual"}]
    /\ manual \in [Procs -> {"off", "phase2", "linking", "repair"}]
    /\ pc \in [Procs -> [Workers -> Steps]]
    /\ held \in [Procs -> [Workers -> Jobs \cup {NoJob}]]
    /\ \A p \in Procs : pos[p] \in 0..Len(rows[p])
    /\ written \in [Procs -> BOOLEAN] /\ denied \in [Procs -> BOOLEAN]
    /\ payload \in [Keys -> Hashes \cup {NoFile}]
    /\ \A kind \in Kinds, k \in Keys : cursor[kind][k] \in Nat
    /\ graph \subseteq Sources /\ refused \subseteq Sources
    /\ offered \in [Jobs -> SUBSET Sources]
    /\ answered \in [Jobs -> SUBSET (Hashes \cup {NoHash})]
    /\ lost \subseteq Jobs

Init ==
    /\ TableInit
    /\ mode = [p \in Procs |-> "down"]
    /\ depth = [p \in Procs |-> 0]
    /\ slot = [p \in Procs |-> "free"]
    /\ manual = [p \in Procs |-> "off"]
    /\ pc = [p \in Procs |-> [w \in Workers |-> "off"]]
    /\ held = [p \in Procs |-> [w \in Workers |-> NoJob]]
    /\ rows = [p \in Procs |-> <<>>] /\ pos = [p \in Procs |-> 0]
    /\ written = [p \in Procs |-> FALSE] /\ denied = [p \in Procs |-> FALSE]
    /\ payload = [k \in Keys |-> NoFile]
    /\ staging = [kind \in Kinds |-> [k \in Keys |-> NoFile]]
    /\ cursor = [kind \in Kinds |-> [k \in Keys |-> 0]]
    /\ graph = {} /\ refused = {}
    /\ offered = [j \in Jobs |-> {}] /\ answered = [j \in Jobs |-> {}] /\ lost = {}
    /\ starts = 0 /\ manuals = 0

KindOf(j) == IF hash[j] = NoHash THEN "fetch" ELSE "run"
StagingOf(j) == staging[KindOf(j)][key[j]]
LockFree(p) == \A q \in Procs \ {p} : depth[q] = 0

Goes(p, w, step) == pc' = [pc EXCEPT ![p][w] = step]

(* Back to the top of _loop(): a thread that meets _stop there ends.      *)
Rests(p, w) ==
    /\ Goes(p, w, IF mode[p] = "up" THEN "idle" ELSE "off")
    /\ held' = [held EXCEPT ![p][w] = NoJob]

(* A pass of the writer begins, or its locals are dropped with its frame. *)
FreshPass(p, lines) ==
    /\ rows' = [rows EXCEPT ![p] = lines]
    /\ pos' = [pos EXCEPT ![p] = 0]
    /\ written' = [written EXCEPT ![p] = FALSE]
    /\ denied' = [denied EXCEPT ![p] = FALSE]

-----------------------------------------------------------------------------
(* The API: POST /fetch and POST /run.                                    *)

(* A new job: on_accept writes the payload, then the row goes in.         *)
Post(p, k, h, j) ==
    /\ mode[p] = "up" /\ <<k, h>> \in Posts
    /\ Insert(k, h, j)
    /\ payload' = IF h = NoHash THEN payload ELSE [payload EXCEPT ![k] = h]
    /\ answered' = [answered EXCEPT ![j] = {h}]
    /\ UNCHANGED <<procVars, pc, held, passVars, staging, cursor, lakeVars, lost, bounds>>

(* The live job under this key is handed back.                            *)
Repost(p, k, h, j) ==
    /\ mode[p] = "up" /\ <<k, h>> \in Posts
    /\ Replays(k, h, j)
    /\ answered' = [answered EXCEPT ![j] = @ \cup {h}]
    /\ UNCHANGED <<tableVars, procVars, pc, held, passVars, fileVars, lakeVars, lost, bounds>>

-----------------------------------------------------------------------------
(* A thread at the top of its loop.  One that read _stop just before it   *)
(* was set claims one more job.                                           *)
Claim(p, w, j) ==
    /\ mode[p] \in {"up", "stopping"} /\ pc[p][w] = "idle"
    /\ IF w = Writer THEN ClaimRow("staged", "phase2", j) ELSE ClaimRow("queued", "phase1", j)
    /\ held' = [held EXCEPT ![p][w] = j]
    /\ Goes(p, w, IF w = Writer THEN "slot"
                  ELSE IF KindOf(j) = "fetch" THEN "drop" ELSE "convert")
    /\ lost' = lost \ {j}
    /\ UNCHANGED <<procVars, passVars, fileVars, lakeVars, answered, bounds>>

ThreadEnds(p, w) ==
    /\ mode[p] \in {"stopping", "stopped"} /\ pc[p][w] = "idle"
    /\ Goes(p, w, "off")
    /\ UNCHANGED <<tableVars, procVars, held, passVars, fileVars, lakeVars, answered, lost,
                   bounds>>

(* _fail(): terminal or back in the queue, and the payload goes with a    *)
(* run job that is terminal now, unless the prune behind its row raised.  *)
Fail(p, w) ==
    LET j == held[p][w] IN
    /\ \/ pc[p][w] = "failGood" /\ FinishRow(j, "failed")
       \/ pc[p][w] = "failNow" /\ RetryRow(j, IF w = Writer THEN "staged" ELSE "queued")
    /\ \/ /\ status'[j] = "failed" /\ KindOf(j) = "run"
          /\ Goes(p, w, "clean") /\ UNCHANGED held
       \/ Rests(p, w)
    /\ UNCHANGED <<procVars, passVars, fileVars, lakeVars, answered, lost, bounds>>

(* The write that ends the step raises: the one of _fail(), release() on  *)
(* a busy slot, or the second finish() of a drained job.  Nothing catches *)
(* it before _loop(): the row stays as it is, and no thread has it.       *)
RecordLost(p, w) ==
    /\ \/ pc[p][w] \in {"failNow", "failGood", "finish"}
       \/ pc[p][w] = "slot" /\ slot[p] # "free"
    /\ Rests(p, w)
    /\ lost' = lost \cup {held[p][w]}
    /\ UNCHANGED <<tableVars, procVars, passVars, fileVars, lakeVars, answered, bounds>>

(* _cleanup_run(), after stage() or after a terminal _fail(): by path.    *)
(* An unlink that raises ends the step in _loop() too.                    *)
Cleanup(p, w) ==
    /\ pc[p][w] = "clean"
    /\ payload' \in {payload, [payload EXCEPT ![key[held[p][w]]] = NoFile]}
    /\ Rests(p, w)
    /\ UNCHANGED <<tableVars, procVars, passVars, staging, cursor, lakeVars, answered, lost,
                   bounds>>

-----------------------------------------------------------------------------
(* Phase 1, fetch_step().                                                 *)

(* Bug: the cursor of the earlier lines survives.                         *)
DropStagingOnly(p, w) ==
    /\ pc[p][w] = "drop"
    /\ staging' = [staging EXCEPT !["fetch"][key[held[p][w]]] = NoFile]
    /\ Goes(p, w, "convert")
    /\ UNCHANGED <<tableVars, procVars, held, passVars, payload, cursor, lakeVars, answered,
                   lost, bounds>>

(* stage_one() of a fetch job drops its staging file and its cursor first.*)
DropStaging(p, w) ==
    LET k == key[held[p][w]] IN
    /\ pc[p][w] = "drop"
    /\ staging' = [staging EXCEPT !["fetch"][k] = NoFile]
    /\ cursor' = [cursor EXCEPT !["fetch"][k] = 0]
    /\ Goes(p, w, "convert")
    /\ UNCHANGED <<tableVars, procVars, held, passVars, payload, lakeVars, answered, lost,
                   bounds>>

(* The article is fetched and parsed, or the payload converted, into the  *)
(* staging file; from_payload() opens it for writing and leaves its       *)
(* cursor alone.                                                          *)
Convert(p, w) ==
    LET j == held[p][w]
        body == IF KindOf(j) = "run" THEN payload[key[j]] ELSE NoHash
    IN  /\ pc[p][w] = "convert"
        /\ body # NoFile
        /\ staging' = [staging EXCEPT ![KindOf(j)][key[j]] = Lines[<<key[j], body>>]]
        /\ Goes(p, w, "commit")
        /\ UNCHANGED <<tableVars, procVars, held, passVars, payload, cursor, lakeVars,
                       answered, lost, bounds>>

(* Bug: only Exception is caught, and an interrupt escapes to _loop().    *)
ConvertEscapes(p, w) ==
    /\ pc[p][w] = "convert"
    /\ Rests(p, w)
    /\ UNCHANGED <<tableVars, procVars, passVars, fileVars, lakeVars, answered, lost, bounds>>

(* A canary, the network, no payload: for now.  Nothing to ingest: for    *)
(* good.                                                                  *)
ConvertRaises(p, w) ==
    /\ pc[p][w] = "convert"
    /\ \/ Goes(p, w, "failNow")
       \/ /\ KindOf(held[p][w]) = "fetch" \/ payload[key[held[p][w]]] # NoFile
          /\ Goes(p, w, "failGood")
    /\ UNCHANGED <<tableVars, procVars, held, passVars, fileVars, lakeVars, answered, lost,
                   bounds>>

Commit(p, w) ==
    LET j == held[p][w] IN
    /\ pc[p][w] = "commit"
    /\ StageRow(j)
    /\ IF KindOf(j) = "run" THEN Goes(p, w, "clean") /\ UNCHANGED held ELSE Rests(p, w)
    /\ UNCHANGED <<procVars, passVars, fileVars, lakeVars, answered, lost, bounds>>

CommitRaises(p, w) ==
    /\ pc[p][w] = "commit"
    /\ Goes(p, w, "failNow")
    /\ UNCHANGED <<tableVars, procVars, held, passVars, fileVars, lakeVars, answered, lost,
                   bounds>>

-----------------------------------------------------------------------------
(* Phase 2, write_step() with drain_one() and drain_run().                *)

TakeSlot(p) ==
    /\ pc[p][Writer] = "slot" /\ slot[p] = "free"
    /\ slot' = [slot EXCEPT ![p] = "writer"]
    /\ Goes(p, Writer, "read")
    /\ UNCHANGED <<tableVars, mode, depth, manual, held, passVars, fileVars, lakeVars,
                   answered, lost, bounds>>

(* jobs.Busy: the row goes back as it was.                                *)
Busy(p) ==
    /\ pc[p][Writer] = "slot" /\ slot[p] # "free"
    /\ ReleaseRow(held[p][Writer], "staged")
    /\ Rests(p, Writer)
    /\ UNCHANGED <<procVars, passVars, fileVars, lakeVars, answered, lost, bounds>>

(* Bug: the slot is given back only when the work went well.              *)
KeepsSlot(p, failure) ==
    /\ Goes(p, Writer, failure)
    /\ FreshPass(p, <<>>)
    /\ UNCHANGED <<tableVars, mode, slot, manual, held, payload, staging, cursor, answered,
                   lost, bounds>>

(* An exception leaves jobs.exclusive() before _fail() looks at it.       *)
LeavesSlot(p, failure) ==
    /\ slot' = [slot EXCEPT ![p] = "free"]
    /\ Goes(p, Writer, failure)
    /\ FreshPass(p, <<>>)
    /\ UNCHANGED <<tableVars, mode, manual, held, payload, staging, cursor, answered, lost,
                   bounds>>

(* _read_staging() and phase2(): one more level of the lock, the lines at *)
(* or below the cursor count as done.                                     *)
ReadStaging(p) ==
    LET j == held[p][Writer]
        lines == StagingOf(j)
        done == cursor[KindOf(j)][key[j]]
    IN  /\ pc[p][Writer] = "read" /\ lines # NoFile
        /\ depth[p] > 0 \/ LockFree(p)
        /\ depth' = [depth EXCEPT ![p] = @ + 1]
        /\ rows' = [rows EXCEPT ![p] = lines]
        /\ pos' = [pos EXCEPT ![p] = IF done < Len(lines) THEN done ELSE Len(lines)]
        /\ Goes(p, Writer, "link")
        /\ UNCHANGED <<tableVars, mode, slot, manual, held, written, denied, fileVars,
                       lakeVars, answered, lost, bounds>>

StagingMissing(p) ==
    /\ pc[p][Writer] = "read" /\ StagingOf(held[p][Writer]) = NoFile
    /\ LeavesSlot(p, "failNow")
    /\ UNCHANGED <<depth, lakeVars>>

(* One group: already stored, linked, or refused by the arbiter.          *)
LinkSource(p) ==
    /\ pc[p][Writer] = "link" /\ pos[p] < Len(rows[p])
    /\ LET s == rows[p][pos[p] + 1] IN
       /\ \/ s \in graph /\ UNCHANGED <<graph, refused, written, denied>>
          \/ /\ s \notin graph
             /\ graph' = graph \cup {s}
             /\ written' = [written EXCEPT ![p] = TRUE]
             /\ UNCHANGED <<refused, denied>>
          \/ /\ s \notin graph
             /\ refused' = refused \cup {s}
             /\ denied' = [denied EXCEPT ![p] = TRUE]
             /\ UNCHANGED <<graph, written>>
       /\ offered' = [offered EXCEPT ![held[p][Writer]] = @ \cup {s}]
    /\ Goes(p, Writer, "advance")
    /\ UNCHANGED <<tableVars, procVars, held, rows, pos, fileVars, answered, lost, bounds>>

(* Bug: the level of the lock is not given back on an exception.          *)
PassRaisesLocked(p, failure) ==
    /\ pc[p][Writer] \in {"link", "advance"}
    /\ LeavesSlot(p, failure)
    /\ UNCHANGED <<depth, lakeVars>>

(* The pass dies: on a canary, inside a group, between the leaves of a    *)
(* group and the cursor, or in the trust pass after the last group.       *)
PassRaises(p, failure) ==
    /\ pc[p][Writer] \in {"link", "advance"}
    /\ depth' = [depth EXCEPT ![p] = @ - 1]
    /\ LeavesSlot(p, failure)
    /\ UNCHANGED lakeVars

AdvanceCursor(p) ==
    LET j == held[p][Writer] IN
    /\ pc[p][Writer] = "advance"
    /\ pos' = [pos EXCEPT ![p] = @ + 1]
    /\ cursor' = [cursor EXCEPT ![KindOf(j)][key[j]] = pos'[p]]
    /\ Goes(p, Writer, "link")
    /\ UNCHANGED <<tableVars, procVars, held, rows, written, denied, payload, staging,
                   lakeVars, answered, lost, bounds>>

(* Bug: the staging file goes before the guards are asked.                *)
EndOfPassUnguarded(p) ==
    /\ pc[p][Writer] = "link" /\ pos[p] = Len(rows[p])
    /\ depth' = [depth EXCEPT ![p] = @ - 1]
    /\ Goes(p, Writer, "unlink")
    /\ UNCHANGED <<tableVars, mode, slot, manual, held, passVars, fileVars, lakeVars,
                   answered, lost, bounds>>

EndOfPass(p) ==
    /\ pc[p][Writer] = "link" /\ pos[p] = Len(rows[p])
    /\ depth' = [depth EXCEPT ![p] = @ - 1]
    /\ Goes(p, Writer, "check")
    /\ UNCHANGED <<tableVars, mode, slot, manual, held, passVars, fileVars, lakeVars,
                   answered, lost, bounds>>

(* The two guards: this run's counters, and the store.  A fetch job asks  *)
(* for a leaf of the file's first source, a run job for a leaf of any.    *)
HasLeaf(p) ==
    IF KindOf(held[p][Writer]) = "fetch" THEN rows[p][1] \in graph
    ELSE \E i \in 1..Len(rows[p]) : rows[p][i] \in graph

(* Bug: only the counters are asked, not the store.                       *)
CountersPass(p) == written[p] \/ ~denied[p]

GuardsPass(p) == (written[p] \/ ~denied[p]) /\ HasLeaf(p)

Check(p) ==
    /\ pc[p][Writer] = "check" /\ GuardsPass(p)
    /\ Goes(p, Writer, "unlink")
    /\ UNCHANGED <<tableVars, procVars, held, passVars, fileVars, lakeVars, answered, lost,
                   bounds>>

CheckRefuses(p) ==
    /\ pc[p][Writer] = "check" /\ ~GuardsPass(p)
    /\ LeavesSlot(p, "failNow")
    /\ UNCHANGED <<depth, lakeVars>>

UnlinkStaging(p) ==
    LET j == held[p][Writer] IN
    /\ pc[p][Writer] = "unlink"
    /\ staging' = [staging EXCEPT ![KindOf(j)][key[j]] = NoFile]
    /\ Goes(p, Writer, "uncursor")
    /\ UNCHANGED <<tableVars, procVars, held, passVars, payload, cursor, lakeVars, answered,
                   lost, bounds>>

(* The cursor goes too, and the slot with the end of the drain.           *)
UnlinkCursor(p) ==
    LET j == held[p][Writer] IN
    /\ pc[p][Writer] = "uncursor"
    /\ cursor' = [cursor EXCEPT ![KindOf(j)][key[j]] = 0]
    /\ slot' = [slot EXCEPT ![p] = "free"]
    /\ FreshPass(p, <<>>)
    /\ Goes(p, Writer, "finish")
    /\ UNCHANGED <<tableVars, mode, depth, manual, held, payload, staging, lakeVars,
                   answered, lost, bounds>>

(* finish("ok"), or, when that raises, finish("failed") with the truth.   *)
Finish(p) ==
    /\ pc[p][Writer] = "finish"
    /\ \E outcome \in Finished : FinishRow(held[p][Writer], outcome)
    /\ Rests(p, Writer)
    /\ UNCHANGED <<procVars, passVars, fileVars, lakeVars, answered, lost, bounds>>

-----------------------------------------------------------------------------
(* Manual jobs (jobs.start): the slot first; /ingest/phase2 then takes    *)
(* the writer lock, a trust pass or a repair takes nothing more.  What    *)
(* they write is not this queue's work and is left out.                   *)
StartManual(p, kind) ==
    /\ mode[p] = "up" /\ slot[p] = "free" /\ manuals < MaxManual
    /\ slot' = [slot EXCEPT ![p] = "manual"]
    /\ manual' = [manual EXCEPT ![p] = kind]
    /\ manuals' = manuals + 1
    /\ UNCHANGED <<tableVars, mode, depth, pc, held, passVars, fileVars, lakeVars, answered,
                   lost, starts>>

ManualPhase2(p) ==
    /\ manual[p] = "phase2"
    /\ depth[p] > 0 \/ LockFree(p)
    /\ depth' = [depth EXCEPT ![p] = @ + 1]
    /\ manual' = [manual EXCEPT ![p] = "linking"]
    /\ UNCHANGED <<tableVars, mode, slot, pc, held, passVars, fileVars, lakeVars, answered,
                   lost, bounds>>

(* Done, or SecondWriter.                                                 *)
EndManual(p) ==
    /\ \/ manual[p] \in {"linking", "repair"}
       \/ manual[p] = "phase2" /\ depth[p] = 0 /\ ~LockFree(p)
    /\ depth' = IF manual[p] = "linking" THEN [depth EXCEPT ![p] = @ - 1] ELSE depth
    /\ manual' = [manual EXCEPT ![p] = "off"]
    /\ slot' = [slot EXCEPT ![p] = "free"]
    /\ UNCHANGED <<tableVars, mode, pc, held, passVars, fileVars, lakeVars, answered, lost,
                   bounds>>

-----------------------------------------------------------------------------
(* workers.start(): the lock, or SecondWriter before anything moves.      *)
Start(p) ==
    /\ mode[p] = "down" /\ starts < MaxStarts
    /\ LockFree(p)
    /\ depth' = [depth EXCEPT ![p] = 1]
    /\ mode' = [mode EXCEPT ![p] = "recovering"]
    /\ starts' = starts + 1
    /\ UNCHANGED <<tableVars, slot, manual, pc, held, passVars, fileVars, lakeVars, answered,
                   lost, manuals>>

(* queue.recover(), row by row.                                           *)
Recover(p, j) ==
    /\ mode[p] = "recovering"
    /\ RecoverRow(j)
    /\ lost' = lost \ {j}
    /\ UNCHANGED <<procVars, pc, held, passVars, fileVars, lakeVars, answered, bounds>>

StartThreads(p) ==
    /\ mode[p] = "recovering"
    /\ JobsIn({"running"}) = {}
    /\ mode' = [mode EXCEPT ![p] = "up"]
    /\ pc' = [pc EXCEPT ![p] = [w \in Workers |-> "idle"]]
    /\ UNCHANGED <<tableVars, depth, slot, manual, held, passVars, fileVars, lakeVars,
                   answered, lost, bounds>>

(* workers.stop(): _stop is set, the threads are joined for a while, and  *)
(* the lock is given back only if the writer ended.                       *)
Stop(p) ==
    /\ mode[p] = "up" /\ starts < MaxStarts
    /\ mode' = [mode EXCEPT ![p] = "stopping"]
    /\ UNCHANGED <<tableVars, depth, slot, manual, pc, held, passVars, fileVars, lakeVars,
                   answered, lost, bounds>>

(* Bug: the lock is given back whether or not the writer ended.           *)
StopReleases(p) ==
    /\ mode[p] = "stopping"
    /\ mode' = [mode EXCEPT ![p] = "stopped"]
    /\ depth' = [depth EXCEPT ![p] = 0]
    /\ UNCHANGED <<tableVars, slot, manual, pc, held, passVars, fileVars, lakeVars, answered,
                   lost, bounds>>

StopReturns(p) ==
    /\ mode[p] = "stopping"
    /\ mode' = [mode EXCEPT ![p] = "stopped"]
    /\ depth' = IF pc[p][Writer] = "off" THEN [depth EXCEPT ![p] = @ - 1] ELSE depth
    /\ UNCHANGED <<tableVars, slot, manual, pc, held, passVars, fileVars, lakeVars, answered,
                   lost, bounds>>

(* The process is gone, and the threads, the slot and the flock with it.  *)
Gone(p) ==
    /\ mode' = [mode EXCEPT ![p] = "down"]
    /\ depth' = [depth EXCEPT ![p] = 0]
    /\ slot' = [slot EXCEPT ![p] = "free"]
    /\ manual' = [manual EXCEPT ![p] = "off"]
    /\ pc' = [pc EXCEPT ![p] = [w \in Workers |-> "off"]]
    /\ held' = [held EXCEPT ![p] = [w \in Workers |-> NoJob]]
    /\ FreshPass(p, <<>>)
    /\ UNCHANGED <<tableVars, fileVars, lakeVars, answered, lost, bounds>>

Exit(p) == mode[p] = "stopped" /\ Gone(p)

Crash(p) == mode[p] # "down" /\ starts < MaxStarts /\ Gone(p)

-----------------------------------------------------------------------------
FetchStep(p, w) ==
    \/ \E j \in Jobs : Claim(p, w, j)
    \/ ThreadEnds(p, w) \/ DropStaging(p, w) \/ Convert(p, w) \/ ConvertRaises(p, w)
    \/ Commit(p, w) \/ CommitRaises(p, w) \/ Fail(p, w) \/ RecordLost(p, w) \/ Cleanup(p, w)

WriteStep(p) ==
    \/ \E j \in Jobs : Claim(p, Writer, j)
    \/ ThreadEnds(p, Writer) \/ TakeSlot(p) \/ Busy(p) \/ ReadStaging(p) \/ StagingMissing(p)
    \/ LinkSource(p) \/ \E failure \in {"failNow", "failGood"} : PassRaises(p, failure)
    \/ AdvanceCursor(p) \/ EndOfPass(p) \/ Check(p) \/ CheckRefuses(p) \/ UnlinkStaging(p)
    \/ UnlinkCursor(p) \/ Finish(p) \/ Fail(p, Writer) \/ RecordLost(p, Writer)
    \/ Cleanup(p, Writer)

ManualStep(p) == ManualPhase2(p) \/ EndManual(p)

Boot(p) == Start(p) \/ StartThreads(p) \/ \E j \in Jobs : Recover(p, j)

Next ==
    \E p \in Procs :
        \/ \E k \in Keys, h \in Hashes \cup {NoHash}, j \in Jobs :
               Post(p, k, h, j) \/ Repost(p, k, h, j)
        \/ \E w \in Fetchers : FetchStep(p, w)
        \/ WriteStep(p) \/ ManualStep(p)
        \/ \E kind \in {"phase2", "repair"} : StartManual(p, kind)
        \/ Boot(p) \/ Stop(p) \/ StopReturns(p) \/ Exit(p) \/ Crash(p)

(* Threads are scheduled by the OS, a supervisor restarts the process, a  *)
(* join has a timeout.  Nothing else is fair: callers, operators and      *)
(* crashes may stop.                                                      *)
Fairness ==
    /\ \A p \in Procs :
        /\ WF_vars(WriteStep(p)) /\ WF_vars(ManualStep(p))
        /\ WF_vars(Boot(p)) /\ WF_vars(StopReturns(p)) /\ WF_vars(Exit(p))
        /\ \A w \in Fetchers : WF_vars(FetchStep(p, w))

Spec == Init /\ [][Next]_vars

FairSpec == Spec /\ Fairness

-----------------------------------------------------------------------------
(* The part of phase 2 that writes the graph: a job's pass or a manual    *)
(* /ingest/phase2.                                                        *)
Linking(p) ==
    (IF pc[p][Writer] \in {"link", "advance"} THEN {Writer} ELSE {})
        \cup (IF manual[p] = "linking" THEN {"manual"} ELSE {})

(* Ingest is sequential globally: whatever stops, dies, times out or      *)
(* overlaps, at most one pass anywhere is linking.                        *)
PhaseTwoExclusive ==
    \A p, q \in Procs : Linking(p) # {} /\ Linking(q) # {} =>
        p = q /\ Cardinality(Linking(p)) = 1

(* "ok" is never said of work that left nothing: a source of the job has  *)
(* a leaf in the store, whatever was retried, refused or replayed.        *)
OkHasLeaf ==
    \A j \in JobsIn({"ok"}) :
        \E i \in 1..Len(Lines[<<key[j], hash[j]>>]) : Lines[<<key[j], hash[j]>>][i] \in graph

(* A job that waits for phase 2 never loses its parse for nothing: its    *)
(* staging file is there, or its work reached the store.                  *)
StagedKeepsItsWork ==
    \A j \in JobsIn({"staged"}) : StagingOf(j) = NoFile =>
        \E i \in 1..Len(Lines[<<key[j], hash[j]>>]) : Lines[<<key[j], hash[j]>>][i] \in graph

Offered(j) ==
    \A i \in 1..Len(Lines[<<key[j], hash[j]>>]) :
        Lines[<<key[j], hash[j]>>][i] \in offered[j]

(* A fetch job that ends "ok" had its article linked by a pass of its own:*)
(* no cursor left by an earlier job of the same article hides it.         *)
OkFetchOffered ==
    \A j \in JobsIn({"ok"}) : KindOf(j) = "fetch" => Offered(j)

(* In a served queue a job that reads "running" is some live thread's     *)
(* job, or one whose last write raised: no exception of a phase, no stop  *)
(* and no restart leaves a row that says it works while no thread does.   *)
RunningIsHeld ==
    \A p \in Procs : mode[p] = "up" =>
        \A j \in JobsIn({"running"}) : j \in lost \/ \E w \in Workers : held[p][w] = j

(* Its last write raised and no process was started since: nothing in the *)
(* processes that run will ever look at the row again.                    *)
Abandoned(j) ==
    /\ j \in lost /\ status[j] = "running"
    /\ \A p \in Procs, w \in Workers : held[p][w] # j
    /\ \E p \in Procs : mode[p] = "up"

(* Every job settles: no accepted job waits for ever behind failures,     *)
(* a busy slot, a stop or a crash.  The one way to be stuck is a write    *)
(* that raised, and a restart gets it going again.                        *)
EveryJobSettles ==
    \A j \in Jobs : status[j] \in Live ~> (status[j] \notin Live \/ Abandoned(j))

-----------------------------------------------------------------------------
(* What the code says of itself and does not keep.                        *)

(* queue.py:25-26: a staged job is "parsed but not linked, its staging    *)
(* file is on disk".  A death between the unlink and finish() has         *)
(* recover() put a linked job back to staged without its file.            *)
StagedHasStaging ==
    \A j \in JobsIn({"staged"}) : StagingOf(j) # NoFile

(* queue.py:153-154: "a worker can never see a queued row whose payload   *)
(* is not on disk yet".  The cleanup of the job before it, by path and    *)
(* after its terminal state is committed, takes the new payload.          *)
QueuedRunHasPayload ==
    \A j \in JobsIn({"queued"}) : KindOf(j) = "run" => payload[key[j]] = hash[j]

(* run.py:412-413: "The cursor goes with it: it counts lines that are     *)
(* about to be rewritten."  Phase 1 of a run job rewrites the lines and   *)
(* leaves the cursor, so a second POST of a batch can end "ok" over a     *)
(* source that is not in the lake and that no pass of it ever took.       *)
OkRunCovered ==
    \A j \in JobsIn({"ok"}) : KindOf(j) = "run" =>
        \A i \in 1..Len(Lines[<<key[j], hash[j]>>]) :
            Lines[<<key[j], hash[j]>>][i] \in offered[j] \cup graph

(* queue.py:292: "nothing is running, whatever says otherwise died with   *)
(* the last process".  stop() gives the lock back while a fetch thread    *)
(* still works, and the next process hands its job out again.             *)
JobInOneHand ==
    \A p, q \in Procs, v, w \in Workers :
        held[p][v] = held[q][w] /\ held[p][v] # NoJob => p = q /\ v = w

(* queue.py:144-145: a different body wearing the same id "raises         *)
(* DedupConflict instead of silently serving the old one".  A run id that *)
(* is a live fetch's arXiv id is served the fetch job.                    *)
AnswerIsYours ==
    \A j \in Jobs : answered[j] \subseteq {hash[j]}

=============================================================================
