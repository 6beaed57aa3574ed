------------------------------- MODULE JobTable -------------------------------
(***************************************************************************)
(* The durable job table (src/lake/queue.py): one row per job in its own   *)
(* SQLite file, and the operations the API and the workers call on it.     *)
(*                                                                         *)
(* Every operation runs under one lock over one connection, so each is one *)
(* step.  None of stage, release, retry and finish asks who is calling or  *)
(* what the row's status is: they update the row by id, and so do these.   *)
(* What keeps them apart is the protocol of the callers (JobQueue,         *)
(* IngestWorkers), which is why the operations are kept apart from it.     *)
(***************************************************************************)
EXTENDS Naturals, FiniteSets

CONSTANTS
    MaxJobs,        (* bound: rows ever inserted                          *)
    Keys,           (* dedup keys: arXiv ids and run ids, one namespace   *)
    NoKey,
    Hashes,         (* payload hashes, one per body of POST /run          *)
    NoHash,         (* the job carries none: POST /fetch                  *)
    MaxAttempts,    (* MAX_ATTEMPTS                                       *)
    KeepFinished,   (* KEEP_FINISHED: finished rows the ring keeps        *)
    Ceiling         (* QUEUE_MAX: unfinished rows before Full             *)

ASSUME TableAssumption ==
    /\ MaxJobs \in Nat
    /\ NoKey \notin Keys
    /\ NoHash \notin Hashes
    /\ MaxAttempts \in Nat \ {0}
    /\ KeepFinished \in Nat \ {0}
    /\ Ceiling \in Nat \ {0}

(* Rows are named in the order of their insertion: created_at, rowid.     *)
Jobs == 1..MaxJobs
NoJob == 0

Live == {"queued", "running", "staged"}
Finished == {"ok", "failed"}
Statuses == {"unborn", "pruned"} \cup Live \cup Finished
Stages == {"none", "phase1", "phase2"}

VARIABLES
    status,     (* "unborn" before the INSERT, "pruned" after the DELETE  *)
    stage,
    attempts,
    key,        (* dedup_key                                              *)
    hash        (* args["payload_hash"]                                   *)

tableVars == <<status, stage, attempts, key, hash>>

TableTypeOK ==
    /\ status \in [Jobs -> Statuses]
    /\ stage \in [Jobs -> Stages]
    /\ attempts \in [Jobs -> 0..MaxAttempts]
    /\ key \in [Jobs -> Keys \cup {NoKey}]
    /\ hash \in [Jobs -> Hashes \cup {NoHash}]

TableInit ==
    /\ status = [j \in Jobs |-> "unborn"]
    /\ stage = [j \in Jobs |-> "none"]
    /\ attempts = [j \in Jobs |-> 0]
    /\ key = [j \in Jobs |-> NoKey]
    /\ hash = [j \in Jobs |-> NoHash]

JobsIn(S) == {j \in Jobs : status[j] \in S}

(* Bug: only the rows that wait for phase 1 count as live.                *)
QueuedWith(k) == {j \in JobsIn({"queued"}) : key[j] = k}

LiveWith(k) == {j \in JobsIn(Live) : key[j] = k}

(* The stage of a waiting row, by the status it waits in.                 *)
StageOf(waiting) == IF waiting = "staged" THEN "phase1" ELSE "none"

-----------------------------------------------------------------------------
(* enqueue(): a live job under the same key is handed back, or refused    *)
(* when both sides carry a hash and the hashes differ.                    *)
Replays(k, h, j) ==
    /\ j \in LiveWith(k)
    /\ h = NoHash \/ hash[j] = NoHash \/ h = hash[j]

(* Neither a live job under this key nor a full queue: a new row.         *)
Insert(k, h, j) ==
    /\ LiveWith(k) = {}
    /\ Cardinality(JobsIn(Live)) < Ceiling
    /\ status[j] = "unborn"
    /\ \A i \in Jobs : i < j => status[i] # "unborn"
    /\ status' = [status EXCEPT ![j] = "queued"]
    /\ key' = [key EXCEPT ![j] = k]
    /\ hash' = [hash EXCEPT ![j] = h]
    /\ UNCHANGED <<stage, attempts>>

(* claim(): the oldest row in that status, of any kind, in one UPDATE.    *)
ClaimRow(from, at, j) ==
    /\ status[j] = from
    /\ \A i \in JobsIn({from}) : j <= i
    /\ status' = [status EXCEPT ![j] = "running"]
    /\ stage' = [stage EXCEPT ![j] = at]
    /\ attempts' = [attempts EXCEPT ![j] = @ + 1]
    /\ UNCHANGED <<key, hash>>

(* Bug: phase 2 inherits the attempts of phase 1.                         *)
StageRowWorn(j) ==
    /\ status[j] \notin {"unborn", "pruned"}
    /\ status' = [status EXCEPT ![j] = "staged"]
    /\ stage' = [stage EXCEPT ![j] = "phase1"]
    /\ UNCHANGED <<attempts, key, hash>>

(* stage(): phase 1 is done, and phase 2 starts with all its attempts.    *)
StageRow(j) ==
    /\ status[j] \notin {"unborn", "pruned"}
    /\ status' = [status EXCEPT ![j] = "staged"]
    /\ stage' = [stage EXCEPT ![j] = "phase1"]
    /\ attempts' = [attempts EXCEPT ![j] = 0]
    /\ UNCHANGED <<key, hash>>

(* release(): put a claimed row back and refund the attempt.              *)
ReleaseRow(j, waiting) ==
    /\ status' = [status EXCEPT ![j] = waiting]
    /\ stage' = [stage EXCEPT ![j] = StageOf(waiting)]
    /\ attempts' = [attempts EXCEPT ![j] = @ - 1]
    /\ UNCHANGED <<key, hash>>

(* finish() with its _prune(): the newest KeepFinished finished rows stay.*)
(* finished_at is not kept, so any older finished row may be the one that *)
(* falls out of the ring; the row just finished is the newest.  A prune   *)
(* that raises comes after the UPDATE is committed and takes nothing.     *)
FinishRow(j, outcome) ==
    \E gone \in SUBSET (JobsIn(Finished) \ {j}) :
        LET kept == (JobsIn(Finished) \cup {j}) \ gone
        IN  /\ gone # {} => Cardinality(kept) = KeepFinished
            /\ status' = [i \in Jobs |-> IF i = j THEN outcome
                                         ELSE IF i \in gone THEN "pruned"
                                         ELSE status[i]]
            /\ UNCHANGED <<stage, attempts, key, hash>>

GivesUp(j) == attempts[j] >= MaxAttempts

(* retry(): back to the status it was claimed from, or failed for good.   *)
RetryRow(j, waiting) ==
    \/ /\ GivesUp(j)
       /\ FinishRow(j, "failed")
    \/ /\ ~GivesUp(j)
       /\ status' = [status EXCEPT ![j] = waiting]
       /\ stage' = [stage EXCEPT ![j] = StageOf(waiting)]
       /\ UNCHANGED <<attempts, key, hash>>

(* Bug: a recovered job starts with phase 1 again.                        *)
AlwaysQueued(j) == "queued"

CameFrom(j) == IF stage[j] = "phase2" THEN "staged" ELSE "queued"

(* recover(), one row of its loop: a row still "running" goes back to the *)
(* status its stage says it was claimed from.                             *)
RecoverRow(j) ==
    /\ status[j] = "running"
    /\ RetryRow(j, CameFrom(j))

=============================================================================
