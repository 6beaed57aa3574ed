------------------------------- MODULE JobQueue -------------------------------
(***************************************************************************)
(* The job table under the protocol of its callers: the API enqueues, a    *)
(* pool of fetch workers runs phase 1, exactly one writer runs phase 2     *)
(* (src/lake/api/workers.py), and one process after another owns them all. *)
(* The process may die between any two operations; the next one recovers   *)
(* the rows left "running", row by row, before it starts its workers.      *)
(*                                                                         *)
(* What a worker does with a job is left out: here it succeeds, fails for  *)
(* now, fails for good, or finds the ingest slot taken; and the write that *)
(* would say so may raise.                                                 *)
(***************************************************************************)
EXTENDS JobTable

CONSTANTS
    Fetchers,   (* the fetch pool                                         *)
    Writer      (* the one phase-2 worker                                 *)

ASSUME WorkerAssumption == Writer \notin Fetchers

Workers == Fetchers \cup {Writer}

VARIABLES
    mode,       (* the process: "down", "recovering" or "up"              *)
    held,       (* the job each worker is on: `job` of its current step   *)
    spent,      (* history: real failures of the job in its current phase *)
    gaveUp,     (* history: jobs failed for having spent their attempts   *)
    lost        (* history: jobs whose last write raised, until a restart *)

vars == <<status, stage, attempts, key, hash, mode, held, spent, gaveUp, lost>>

TypeOK ==
    /\ TableTypeOK
    /\ mode \in {"down", "recovering", "up"}
    /\ held \in [Workers -> Jobs \cup {NoJob}]
    /\ spent \in [Jobs -> 0..MaxAttempts]
    /\ gaveUp \in SUBSET Jobs
    /\ lost \in SUBSET Jobs

Init ==
    /\ TableInit
    /\ mode = "down"
    /\ held = [w \in Workers |-> NoJob]
    /\ spent = [j \in Jobs |-> 0]
    /\ gaveUp = {}
    /\ lost = {}

WaitsIn(w) == IF w = Writer THEN "staged" ELSE "queued"
RunsAt(w) == IF w = Writer THEN "phase2" ELSE "phase1"

-----------------------------------------------------------------------------
(* POST /fetch or POST /run that opens a new job.                         *)
Post(k, h, j) ==
    /\ mode = "up"
    /\ Insert(k, h, j)
    /\ UNCHANGED <<mode, held, spent, gaveUp, lost>>

(* The top of fetch_step() and write_step().                              *)
Claim(w, j) ==
    /\ mode = "up" /\ held[w] = NoJob
    /\ ClaimRow(WaitsIn(w), RunsAt(w), j)
    /\ held' = [held EXCEPT ![w] = j]
    /\ UNCHANGED <<mode, spent, gaveUp, lost>>

LetGo(w) == held' = [held EXCEPT ![w] = NoJob] /\ UNCHANGED mode

(* A fetch worker commits its phase 1.                                    *)
Stage(w) ==
    /\ w \in Fetchers /\ held[w] # NoJob
    /\ StageRow(held[w])
    /\ LetGo(w)
    /\ spent' = [spent EXCEPT ![held[w]] = 0]
    /\ UNCHANGED <<gaveUp, lost>>

(* The writer finds the slot busy: not a failure, the attempt comes back. *)
Busy ==
    /\ held[Writer] # NoJob
    /\ ReleaseRow(held[Writer], "staged")
    /\ LetGo(Writer)
    /\ UNCHANGED <<spent, gaveUp, lost>>

FinishOk ==
    /\ held[Writer] # NoJob
    /\ FinishRow(held[Writer], "ok")
    /\ LetGo(Writer)
    /\ UNCHANGED <<spent, gaveUp, lost>>

(* _fail() on a permanent error.                                          *)
FailPermanently(w) ==
    /\ held[w] # NoJob
    /\ FinishRow(held[w], "failed")
    /\ LetGo(w)
    /\ UNCHANGED <<spent, gaveUp, lost>>

(* History of one more failure of job j.                                  *)
CountFailure(j) ==
    /\ spent' = [spent EXCEPT ![j] = @ + 1]
    /\ gaveUp' = IF GivesUp(j) THEN gaveUp \cup {j} ELSE gaveUp

(* _fail() on a transient error.                                          *)
FailForNow(w) ==
    /\ held[w] # NoJob
    /\ RetryRow(held[w], WaitsIn(w))
    /\ LetGo(w)
    /\ CountFailure(held[w])
    /\ UNCHANGED lost

(* The write that ends a step raises: the one of _fail(), the release()   *)
(* of a busy slot, or both finish() of a drained job.  Nothing catches it *)
(* before _loop(), which prints it and goes on: the row stays "running".  *)
RecordLost(w) ==
    /\ held[w] # NoJob
    /\ LetGo(w)
    /\ lost' = lost \cup {held[w]}
    /\ UNCHANGED <<status, stage, attempts, key, hash, spent, gaveUp>>

(* The process dies with every thread; the table is a file and stays.     *)
Die ==
    /\ mode # "down"
    /\ mode' = "down"
    /\ held' = [w \in Workers |-> NoJob]
    /\ UNCHANGED <<status, stage, attempts, key, hash, spent, gaveUp, lost>>

(* workers.start(): recover first, then the threads.                      *)
Boot ==
    /\ mode = "down"
    /\ mode' = "recovering"
    /\ UNCHANGED <<status, stage, attempts, key, hash, held, spent, gaveUp, lost>>

Recover(j) ==
    /\ mode = "recovering"
    /\ RecoverRow(j)
    /\ CountFailure(j)
    /\ lost' = lost \ {j}
    /\ UNCHANGED <<mode, held>>

(* Bug: threads before the recovery is through.                           *)
StartThreadsEarly ==
    /\ mode = "recovering"
    /\ mode' = "up"
    /\ UNCHANGED <<status, stage, attempts, key, hash, held, spent, gaveUp, lost>>

StartThreads ==
    /\ mode = "recovering"
    /\ JobsIn({"running"}) = {}
    /\ mode' = "up"
    /\ UNCHANGED <<status, stage, attempts, key, hash, held, spent, gaveUp, lost>>

Next ==
    \/ \E k \in Keys, h \in Hashes \cup {NoHash}, j \in Jobs : Post(k, h, j)
    \/ \E w \in Workers, j \in Jobs : Claim(w, j)
    \/ \E w \in Workers :
           Stage(w) \/ FailPermanently(w) \/ FailForNow(w) \/ RecordLost(w)
    \/ Busy \/ FinishOk \/ Die \/ Boot \/ StartThreads
    \/ \E j \in Jobs : Recover(j)

Spec == Init /\ [][Next]_vars

-----------------------------------------------------------------------------
(* A job is in at most one pair of hands, and a held row reads "running"  *)
(* at the stage of its worker: claim never hands one job out twice.  And  *)
(* in a served queue a running row that nobody holds is one whose last    *)
(* write raised: no failure, busy slot or restart leaves one behind.      *)
HandedOutOnce ==
    /\ \A v, w \in Workers : held[v] = held[w] /\ held[v] # NoJob => v = w
    /\ \A w \in Workers : held[w] # NoJob =>
           status[held[w]] = "running" /\ stage[held[w]] = RunsAt(w)
    /\ mode = "up" =>
           \A j \in JobsIn({"running"}) :
               (\E w \in Workers : held[w] = j) <=> j \notin lost

(* Two live jobs never share a dedup key: one source is never parsed by   *)
(* two jobs at a time.                                                    *)
OneLiveJobPerKey ==
    \A i, j \in JobsIn(Live) : key[i] = key[j] => i = j

(* A job that gave up had really failed MaxAttempts times in the phase it *)
(* died in: busy slots cost it nothing, phase 2 got its own lives, and a  *)
(* restart cost the rows it found running exactly one, however they got   *)
(* there.                                                                 *)
GaveUpForCause ==
    \A j \in gaveUp : spent[j] = MaxAttempts

(* The same count while the job lives: attempts are the failures so far,  *)
(* plus the one being run.                                                *)
AttemptsAreFailures ==
    \A j \in JobsIn(Live) :
        attempts[j] = spent[j] + (IF status[j] = "running" THEN 1 ELSE 0)

(* The lifecycle each caller sees.                                        *)
PhaseOf(j) ==
    CASE status[j] = "unborn" -> "absent"
      [] status[j] = "queued" -> "accepted"
      [] status[j] = "staged" -> "parsed"
      [] status[j] = "running" -> IF stage[j] = "phase2" THEN "parsed" ELSE "accepted"
      [] status[j] = "ok" -> "ingested"
      [] status[j] = "failed" -> "failed"
      [] status[j] = "pruned" -> "forgotten"

Phase == [j \in Jobs |-> PhaseOf(j)]

Lifecycle == INSTANCE JobLifecycle WITH phase <- Phase

(* The queue implements the lifecycle: retries, releases, crashes and     *)
(* recoveries are invisible in it, and no outcome is ever taken back.     *)
ImplementsLifecycle == Lifecycle!Spec

=============================================================================
