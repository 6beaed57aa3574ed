--------------------------- MODULE JobQueue_proofs ---------------------------
(***************************************************************************)
(* The job queue hands every job out once, keeps an exact account of its   *)
(* attempts and implements its lifecycle, for any number of jobs, keys,    *)
(* bodies, workers and attempts.                                           *)
(*                                                                         *)
(* None of the operations of the table checks who calls it, so none of the *)
(* properties is inductive by itself: that the row a worker updates is the *)
(* row it claimed (Hands) needs the account to be in step (Account), and   *)
(* the other way round.  QueueInv is their conjunction.                    *)
(***************************************************************************)
EXTENDS JobQueue, TLAPS

(* Who holds what: a held row is running at its holder's stage, nobody    *)
(* else holds it, and only a process that is up holds anything.           *)
Hands ==
    /\ \A v, w \in Workers : held[v] = held[w] /\ held[v] # NoJob => v = w
    /\ \A w \in Workers : held[w] # NoJob =>
           status[held[w]] = "running" /\ stage[held[w]] = RunsAt(w)
    /\ mode # "up" => \A w \in Workers : held[w] = NoJob

(* No row is running while the process is up unless a worker holds it or  *)
(* its last write raised.                                                 *)
NoOrphan ==
    mode = "up" =>
        \A j \in Jobs : status[j] = "running" => j \in lost \/ \E w \in Workers : held[w] = j

(* Such a row stays as it is: running, and nobody's.                      *)
Abandoned ==
    \A j \in lost : status[j] = "running" /\ \A w \in Workers : held[w] # j

(* What a row's attempts are, by its status.                              *)
AccountOf(j) ==
    /\ status[j] = "unborn" => attempts[j] = 0 /\ spent[j] = 0
    /\ status[j] \in {"queued", "staged"} =>
           attempts[j] = spent[j] /\ attempts[j] < MaxAttempts
    /\ status[j] = "running" => attempts[j] = spent[j] + 1
    /\ j \in gaveUp => status[j] \in {"failed", "pruned"} /\ spent[j] = MaxAttempts

Account == \A j \in Jobs : AccountOf(j)

QueueInv == TypeOK /\ Hands /\ NoOrphan /\ Abandoned /\ Account /\ OneLiveJobPerKey

-----------------------------------------------------------------------------
(* The literals are different numbers and different workers.              *)
LEMMA Facts ==
    /\ Jobs \subseteq Nat /\ NoJob \notin Jobs
    /\ MaxAttempts \in Nat /\ MaxAttempts > 0
    /\ Writer \in Workers /\ Fetchers \subseteq Workers /\ Writer \notin Fetchers
BY TableAssumption, WorkerAssumption DEF Jobs, NoJob, Workers

(* What finish() does to the statuses, its prune included: the row gets   *)
(* its outcome, every other row keeps its status or drops out of the ring.*)
LEMMA FinishEffect ==
    ASSUME TableTypeOK, NEW j \in Jobs, NEW outcome \in Finished, FinishRow(j, outcome)
    PROVE  /\ status' \in [Jobs -> Statuses]
           /\ status'[j] = outcome
           /\ \A i \in Jobs : i # j =>
                  \/ status'[i] = status[i]
                  \/ status[i] \in Finished /\ status'[i] = "pruned"
           /\ UNCHANGED <<stage, attempts, key, hash>>
<1>1. PICK gone \in SUBSET (JobsIn(Finished) \ {j}) :
          /\ status' = [i \in Jobs |-> IF i = j THEN outcome
                                       ELSE IF i \in gone THEN "pruned"
                                       ELSE status[i]]
          /\ UNCHANGED <<stage, attempts, key, hash>>
    BY DEF FinishRow
<1>2. \A i \in gone : i # j /\ status[i] \in Finished
    BY DEF JobsIn
<1>3. QED
    BY <1>1, <1>2 DEF TableTypeOK, Statuses, Finished

(* The step of an operation that leaves the row of job j with a finished  *)
(* status: used for each way a job ends.                                  *)
LEMMA FinishStep ==
    ASSUME QueueInv, NEW w \in Workers, held[w] # NoJob, NEW outcome \in Finished,
           FinishRow(held[w], outcome), LetGo(w), lost' = lost,
           spent' \in [Jobs -> 0..MaxAttempts], gaveUp' \in SUBSET Jobs,
           \A i \in Jobs : i # held[w] => spent'[i] = spent[i],
           \A i \in Jobs : i # held[w] => (i \in gaveUp' <=> i \in gaveUp),
           held[w] \in gaveUp' => outcome = "failed" /\ spent'[held[w]] = MaxAttempts
    PROVE  QueueInv'
<1> DEFINE j == held[w]
<1>1. j \in Jobs
    BY DEF QueueInv, TypeOK
<1>2. /\ status' \in [Jobs -> Statuses]
      /\ status'[j] = outcome
      /\ \A i \in Jobs : i # j =>
             status'[i] = status[i] \/ (status[i] \in Finished /\ status'[i] = "pruned")
      /\ UNCHANGED <<stage, attempts, key, hash>>
    BY <1>1, FinishEffect DEF QueueInv, TypeOK
<1> HIDE DEF j
<1>3. held' = [held EXCEPT ![w] = NoJob] /\ mode' = mode
    BY DEF LetGo
<1>4. mode = "up"
    BY DEF QueueInv, Hands
<1>5. TypeOK'
    BY <1>2, <1>3 DEF QueueInv, TypeOK, TableTypeOK
<1>6. Hands'
    <2>1. \A v \in Workers : v # w /\ held[v] # NoJob => held[v] # j /\ held[v] \in Jobs
        BY DEF QueueInv, Hands, TypeOK, j
    <2>2. \A v \in Workers : held'[v] = IF v = w THEN NoJob ELSE held[v]
        BY <1>3 DEF QueueInv, TypeOK
    <2>3. QED
        BY <1>2, <1>3, <1>4, <2>1, <2>2 DEF QueueInv, Hands, Finished, RunsAt
<1>7. NoOrphan'
    BY <1>2, <1>3, <1>4 DEF QueueInv, NoOrphan, TypeOK, Finished, j
<1>8. Account'
    BY <1>1, <1>2 DEF QueueInv, Account, AccountOf, Finished, j
<1>9. OneLiveJobPerKey'
    BY <1>1, <1>2 DEF QueueInv, OneLiveJobPerKey, JobsIn, Live, Finished
<1>10. Abandoned'
    <2>1. \A v \in Workers : held'[v] = NoJob \/ held'[v] = held[v]
        BY <1>3 DEF QueueInv, TypeOK
    <2>2. \A i \in lost : i # j /\ i \in Jobs /\ i # NoJob /\ status'[i] = status[i]
        BY <1>2, Facts DEF QueueInv, Abandoned, TypeOK, Finished, j
    <2>3. QED
        BY <2>1, <2>2 DEF QueueInv, Abandoned
<1>11. QED
    BY <1>5, <1>6, <1>7, <1>8, <1>9, <1>10 DEF QueueInv

(* The step of an operation that puts the held row back to a waiting      *)
(* status or on to phase 2: one job leaves one pair of hands.             *)
LEMMA PutBackStep ==
    ASSUME QueueInv, NEW w \in Workers, held[w] # NoJob,
           NEW waiting \in {"queued", "staged"},
           status' = [status EXCEPT ![held[w]] = waiting],
           stage' \in [Jobs -> Stages],
           \A i \in Jobs : i # held[w] => stage'[i] = stage[i],
           attempts' \in [Jobs -> 0..MaxAttempts],
           spent' \in [Jobs -> 0..MaxAttempts],
           \A i \in Jobs : i # held[w] =>
               attempts'[i] = attempts[i] /\ spent'[i] = spent[i],
           attempts'[held[w]] = spent'[held[w]],
           attempts'[held[w]] < MaxAttempts,
           gaveUp' = gaveUp, lost' = lost, UNCHANGED <<key, hash>>, LetGo(w)
    PROVE  QueueInv'
<1> DEFINE j == held[w]
<1>1. j \in Jobs /\ status[j] = "running"
    BY DEF QueueInv, TypeOK, Hands
<1>2. /\ \A i \in Jobs : status'[i] = IF i = j THEN waiting ELSE status[i]
      /\ status' \in [Jobs -> Statuses]
    BY <1>1 DEF QueueInv, TypeOK, TableTypeOK, Statuses, Live
<1>3. held' = [held EXCEPT ![w] = NoJob] /\ mode' = mode /\ mode = "up"
    BY DEF LetGo, QueueInv, Hands
<1>4. TypeOK'
    BY <1>2, <1>3 DEF QueueInv, TypeOK, TableTypeOK
<1>5. Hands'
    <2>1. \A v \in Workers : held'[v] = IF v = w THEN NoJob ELSE held[v]
        BY <1>3 DEF QueueInv, TypeOK
    <2>2. \A v \in Workers : v # w /\ held[v] # NoJob => held[v] # j /\ held[v] \in Jobs
        BY DEF QueueInv, Hands, TypeOK
    <2> HIDE DEF j
    <2>3. ASSUME NEW v \in Workers, held'[v] # NoJob
          PROVE  status'[held'[v]] = "running" /\ stage'[held'[v]] = RunsAt(v)
        <3>1. v # w /\ held'[v] = held[v] /\ held[v] # j /\ held[v] \in Jobs
            BY <2>1, <2>2, <2>3
        <3>2. status[held[v]] = "running" /\ stage[held[v]] = RunsAt(v)
            BY <3>1, <2>3 DEF QueueInv, Hands
        <3>3. stage'[held[v]] = stage[held[v]]
            BY <3>1 DEF j
        <3>4. QED
            BY <3>1, <3>2, <3>3, <1>2
    <2>4. QED
        BY <2>1, <2>3, <1>3 DEF QueueInv, Hands
<1>6. NoOrphan'
    BY <1>2, <1>3 DEF QueueInv, NoOrphan, TypeOK
<1>7. Account'
    BY <1>1, <1>2 DEF QueueInv, Account, AccountOf
<1>8. OneLiveJobPerKey'
    BY <1>1, <1>2 DEF QueueInv, OneLiveJobPerKey, JobsIn, Live
<1>9. Abandoned'
    <2>1. \A v \in Workers : held'[v] = NoJob \/ held'[v] = held[v]
        BY <1>3 DEF QueueInv, TypeOK
    <2>2. \A i \in lost : i # j /\ i \in Jobs /\ i # NoJob
        BY Facts DEF QueueInv, Abandoned, TypeOK
    <2>3. QED
        BY <1>2, <2>1, <2>2 DEF QueueInv, Abandoned
<1>10. QED
    BY <1>4, <1>5, <1>6, <1>7, <1>8, <1>9 DEF QueueInv

-----------------------------------------------------------------------------
(* Each action of the protocol preserves the invariant.                   *)
LEMMA PostStep ==
    ASSUME QueueInv, NEW k \in Keys, NEW h \in Hashes \cup {NoHash}, NEW j \in Jobs,
           Post(k, h, j)
    PROVE  QueueInv'
<1> USE DEF Post, Insert
<1>1. TypeOK'
    BY DEF QueueInv, TypeOK, TableTypeOK, Statuses, Live
<1>2. Hands'
    BY DEF QueueInv, Hands, TypeOK, TableTypeOK
<1>3. NoOrphan'
    BY DEF QueueInv, NoOrphan, TypeOK, TableTypeOK
<1>4. Account'
    BY Facts DEF QueueInv, Account, AccountOf, TypeOK, TableTypeOK
<1>5. OneLiveJobPerKey'
    BY DEF QueueInv, OneLiveJobPerKey, LiveWith, JobsIn, Live, TypeOK, TableTypeOK
<1>6. Abandoned'
    BY DEF QueueInv, Abandoned, TypeOK, TableTypeOK
<1>7. QED
    BY <1>1, <1>2, <1>3, <1>4, <1>5, <1>6 DEF QueueInv

LEMMA ClaimStep ==
    ASSUME QueueInv, NEW w \in Workers, NEW j \in Jobs, Claim(w, j)
    PROVE  QueueInv'
<1> USE DEF Claim, ClaimRow
<1>1. status[j] \in {"queued", "staged"} /\ attempts[j] < MaxAttempts
    BY DEF QueueInv, Account, AccountOf, WaitsIn
<1>2. TypeOK'
    BY <1>1, Facts DEF QueueInv, TypeOK, TableTypeOK, Statuses, Live, Stages, RunsAt
<1>3. Hands'
    BY <1>1, Facts DEF QueueInv, Hands, TypeOK, TableTypeOK
<1>4. NoOrphan'
    <2>1. \A v \in Workers : held'[v] = IF v = w THEN j ELSE held[v]
        BY DEF QueueInv, TypeOK
    <2>2. \A i \in Jobs : status'[i] = IF i = j THEN "running" ELSE status[i]
        BY DEF QueueInv, TypeOK, TableTypeOK
    <2>3. \A i \in Jobs : i # NoJob
        BY Facts
    <2>4. ASSUME NEW i \in Jobs, status'[i] = "running"
          PROVE  i \in lost' \/ \E v \in Workers : held'[v] = i
        <3>1. CASE i = j
            BY <2>1, <3>1
        <3>2. CASE i # j
            <4>1. i \in lost \/ \E v \in Workers : held[v] = i
                BY <2>2, <2>4, <3>2 DEF QueueInv, NoOrphan
            <4>2. QED
                BY <4>1, <2>1, <2>3
        <3>3. QED
            BY <3>1, <3>2
    <2>5. QED
        BY <2>4 DEF NoOrphan
<1>5. Account'
    BY <1>1, Facts DEF QueueInv, Account, AccountOf, TypeOK, TableTypeOK
<1>6. OneLiveJobPerKey'
    BY <1>1 DEF QueueInv, OneLiveJobPerKey, JobsIn, Live, TypeOK, TableTypeOK
<1>7. Abandoned'
    BY <1>1, Facts DEF QueueInv, Abandoned, TypeOK, TableTypeOK
<1>8. QED
    BY <1>2, <1>3, <1>4, <1>5, <1>6, <1>7 DEF QueueInv

(* What the invariant says of a row in hand.                              *)
LEMMA HeldRow ==
    ASSUME QueueInv, NEW w \in Workers, held[w] # NoJob
    PROVE  /\ held[w] \in Jobs /\ status[held[w]] = "running"
           /\ attempts[held[w]] = spent[held[w]] + 1
           /\ attempts[held[w]] \in 1..MaxAttempts /\ held[w] \notin gaveUp
           /\ attempts \in [Jobs -> 0..MaxAttempts] /\ spent \in [Jobs -> 0..MaxAttempts]
           /\ stage \in [Jobs -> Stages] /\ gaveUp \in SUBSET Jobs
<1>1. held[w] \in Jobs /\ status[held[w]] = "running"
    BY DEF QueueInv, TypeOK, Hands
<1>2. /\ attempts \in [Jobs -> 0..MaxAttempts] /\ spent \in [Jobs -> 0..MaxAttempts]
      /\ stage \in [Jobs -> Stages] /\ gaveUp \in SUBSET Jobs
    BY DEF QueueInv, TypeOK, TableTypeOK
<1>3. attempts[held[w]] = spent[held[w]] + 1 /\ held[w] \notin gaveUp
    BY <1>1 DEF QueueInv, Account, AccountOf
<1>4. attempts[held[w]] \in 1..MaxAttempts
    <2>1. attempts[held[w]] \in 0..MaxAttempts /\ spent[held[w]] \in 0..MaxAttempts
        BY <1>1, <1>2
    <2>2. QED
        BY <2>1, <1>3, Facts
<1>5. QED
    BY <1>1, <1>2, <1>3, <1>4

LEMMA StageStep ==
    ASSUME QueueInv, NEW w \in Workers, Stage(w)
    PROVE  QueueInv'
<1>1. held[w] # NoJob
    BY DEF Stage
<1> DEFINE j == held[w]
<1>2. /\ j \in Jobs
      /\ attempts \in [Jobs -> 0..MaxAttempts] /\ spent \in [Jobs -> 0..MaxAttempts]
      /\ stage \in [Jobs -> Stages]
    BY <1>1, HeldRow
<1>3. /\ status' = [status EXCEPT ![j] = "staged"]
      /\ stage' = [stage EXCEPT ![j] = "phase1"]
      /\ attempts' = [attempts EXCEPT ![j] = 0]
      /\ spent' = [spent EXCEPT ![j] = 0]
      /\ UNCHANGED <<key, hash>> /\ gaveUp' = gaveUp /\ lost' = lost /\ LetGo(w)
    BY DEF Stage, StageRow
<1>4. /\ stage' \in [Jobs -> Stages]
      /\ attempts' \in [Jobs -> 0..MaxAttempts] /\ spent' \in [Jobs -> 0..MaxAttempts]
      /\ attempts'[j] = 0 /\ spent'[j] = 0
      /\ \A i \in Jobs : i # j =>
             stage'[i] = stage[i] /\ attempts'[i] = attempts[i] /\ spent'[i] = spent[i]
    BY <1>2, <1>3, Facts DEF Stages
<1>5. QED
    BY <1>1, <1>3, <1>4, PutBackStep, Facts

LEMMA BusyStep == QueueInv /\ Busy => QueueInv'
<1> SUFFICES ASSUME QueueInv, Busy PROVE QueueInv'
    OBVIOUS
<1>1. held[Writer] # NoJob /\ Writer \in Workers
    BY Facts DEF Busy
<1> DEFINE j == held[Writer]
<1>2. /\ j \in Jobs
      /\ attempts \in [Jobs -> 0..MaxAttempts] /\ spent \in [Jobs -> 0..MaxAttempts]
      /\ stage \in [Jobs -> Stages]
      /\ attempts[j] = spent[j] + 1 /\ attempts[j] \in 1..MaxAttempts
    BY <1>1, HeldRow
<1>3. /\ status' = [status EXCEPT ![j] = "staged"]
      /\ stage' = [stage EXCEPT ![j] = "phase1"]
      /\ attempts' = [attempts EXCEPT ![j] = @ - 1]
      /\ spent' = spent
      /\ UNCHANGED <<key, hash>> /\ gaveUp' = gaveUp /\ lost' = lost /\ LetGo(Writer)
    BY DEF Busy, ReleaseRow, StageOf
<1>4. /\ stage' \in [Jobs -> Stages]
      /\ attempts' \in [Jobs -> 0..MaxAttempts] /\ spent' \in [Jobs -> 0..MaxAttempts]
      /\ attempts'[j] = spent'[j] /\ attempts'[j] < MaxAttempts
      /\ \A i \in Jobs : i # j =>
             stage'[i] = stage[i] /\ attempts'[i] = attempts[i] /\ spent'[i] = spent[i]
    <2> HIDE DEF j
    <2>1. attempts'[j] = attempts[j] - 1 /\ attempts[j] - 1 \in 0..MaxAttempts
        BY <1>2, <1>3, Facts
    <2>2. QED
        BY <1>2, <1>3, <2>1, Facts DEF Stages
<1>5. QED
    BY <1>1, <1>3, <1>4, PutBackStep

LEMMA FinishOkStep == QueueInv /\ FinishOk => QueueInv'
<1> SUFFICES ASSUME QueueInv, FinishOk PROVE QueueInv'
    OBVIOUS
<1>1. held[Writer] # NoJob /\ Writer \in Workers
    BY Facts DEF FinishOk
<1>2. /\ FinishRow(held[Writer], "ok") /\ LetGo(Writer)
      /\ spent' = spent /\ gaveUp' = gaveUp /\ lost' = lost
    BY DEF FinishOk
<1>3. /\ spent' \in [Jobs -> 0..MaxAttempts] /\ gaveUp' \in SUBSET Jobs
      /\ held[Writer] \notin gaveUp' /\ "ok" \in Finished
    BY <1>1, <1>2, HeldRow DEF Finished
<1>4. QED
    BY <1>1, <1>2, <1>3, FinishStep

LEMMA FailPermanentlyStep ==
    ASSUME QueueInv, NEW w \in Workers, FailPermanently(w)
    PROVE  QueueInv'
<1>1. held[w] # NoJob
    BY DEF FailPermanently
<1>2. /\ FinishRow(held[w], "failed") /\ LetGo(w)
      /\ spent' = spent /\ gaveUp' = gaveUp /\ lost' = lost
    BY DEF FailPermanently
<1>3. /\ spent' \in [Jobs -> 0..MaxAttempts] /\ gaveUp' \in SUBSET Jobs
      /\ held[w] \notin gaveUp' /\ "failed" \in Finished
    BY <1>1, <1>2, HeldRow DEF Finished
<1>4. QED
    BY <1>1, <1>2, <1>3, FinishStep

LEMMA FailForNowStep ==
    ASSUME QueueInv, NEW w \in Workers, FailForNow(w)
    PROVE  QueueInv'
<1>1. held[w] # NoJob
    BY DEF FailForNow
<1>2. /\ spent' = [spent EXCEPT ![held[w]] = @ + 1]
      /\ gaveUp' = IF GivesUp(held[w]) THEN gaveUp \cup {held[w]} ELSE gaveUp
      /\ LetGo(w) /\ lost' = lost /\ RetryRow(held[w], WaitsIn(w))
    BY DEF FailForNow, CountFailure
<1>3. spent' \in [Jobs -> 0..MaxAttempts]
    BY <1>1, <1>2, HeldRow, Facts
<1>4. CASE GivesUp(held[w])
    <2>1. FinishRow(held[w], "failed")
        BY <1>2, <1>4 DEF RetryRow
    <2>2. spent'[held[w]] = MaxAttempts
        BY <1>1, <1>2, <1>4, HeldRow, Facts DEF GivesUp
    <2>3. QED
        BY <1>1, <1>2, <1>3, <1>4, <2>1, <2>2, HeldRow, FinishStep DEF Finished
<1>5. CASE ~GivesUp(held[w])
    <2>1. /\ status' = [status EXCEPT ![held[w]] = WaitsIn(w)]
          /\ stage' = [stage EXCEPT ![held[w]] = StageOf(WaitsIn(w))]
          /\ UNCHANGED <<attempts, key, hash>>
        BY <1>2, <1>5 DEF RetryRow
    <2>2. WaitsIn(w) \in {"queued", "staged"} /\ StageOf(WaitsIn(w)) \in Stages
        BY DEF WaitsIn, StageOf, Stages
    <2>3. attempts[held[w]] < MaxAttempts /\ spent'[held[w]] = attempts[held[w]]
        BY <1>1, <1>2, <1>5, HeldRow, Facts DEF GivesUp
    <2>4. QED
        BY <1>1, <1>2, <1>3, <1>5, <2>1, <2>2, <2>3, HeldRow, PutBackStep
<1>6. QED
    BY <1>4, <1>5

LEMMA DieStep == QueueInv /\ (Die \/ Boot) => QueueInv'
<1> SUFFICES ASSUME QueueInv, Die \/ Boot PROVE QueueInv'
    OBVIOUS
<1>1. /\ mode' \in {"down", "recovering"}
      /\ held' \in [Workers -> {NoJob}] \/ (mode = "down" /\ held' = held)
      /\ UNCHANGED <<status, stage, attempts, key, hash, spent, gaveUp, lost>>
    BY DEF Die, Boot
<1>2. TypeOK' /\ Hands' /\ NoOrphan'
    BY <1>1 DEF QueueInv, TypeOK, TableTypeOK, Hands, NoOrphan
<1>3. Abandoned'
    BY <1>1, Facts DEF QueueInv, TypeOK, Abandoned
<1>4. Account' /\ OneLiveJobPerKey'
    BY <1>1 DEF QueueInv, Account, AccountOf, OneLiveJobPerKey, JobsIn
<1>5. QED
    BY <1>2, <1>3, <1>4 DEF QueueInv

LEMMA StartThreadsStep == QueueInv /\ StartThreads => QueueInv'
BY DEF QueueInv, StartThreads, TypeOK, TableTypeOK, Hands, NoOrphan, Abandoned, Account,
       AccountOf, OneLiveJobPerKey, JobsIn

(* A write that raises leaves the row running and in nobody's hands.      *)
LEMMA RecordLostStep ==
    ASSUME QueueInv, NEW w \in Workers, RecordLost(w)
    PROVE  QueueInv'
<1>1. /\ held[w] \in Jobs /\ held[w] # NoJob /\ status[held[w]] = "running"
      /\ held' = [held EXCEPT ![w] = NoJob] /\ mode' = mode
      /\ lost' = lost \cup {held[w]}
      /\ UNCHANGED <<status, stage, attempts, key, hash, spent, gaveUp>>
    BY HeldRow DEF RecordLost, LetGo
<1>2. \A v \in Workers : held'[v] = IF v = w THEN NoJob ELSE held[v]
    BY <1>1 DEF QueueInv, TypeOK
<1>3. TypeOK'
    BY <1>1 DEF QueueInv, TypeOK, TableTypeOK
<1>4. Hands'
    BY <1>1, <1>2 DEF QueueInv, Hands, RunsAt
<1>5. NoOrphan'
    BY <1>1, <1>2 DEF QueueInv, NoOrphan
<1>6. Abandoned'
    <2>1. \A v \in Workers : held'[v] # held[w]
        BY <1>1, <1>2 DEF QueueInv, Hands
    <2>2. \A i \in lost, v \in Workers : held'[v] # i
        BY <1>2, Facts DEF QueueInv, Abandoned, TypeOK
    <2>3. QED
        BY <1>1, <2>1, <2>2 DEF QueueInv, Abandoned
<1>7. Account' /\ OneLiveJobPerKey'
    BY <1>1 DEF QueueInv, Account, AccountOf, OneLiveJobPerKey, JobsIn
<1>8. QED
    BY <1>3, <1>4, <1>5, <1>6, <1>7 DEF QueueInv

(* One row of recover(): the row a dead worker left behind goes back, one *)
(* attempt poorer, or fails for good.                                     *)
LEMMA RecoverStep ==
    ASSUME QueueInv, NEW j \in Jobs, Recover(j)
    PROVE  QueueInv'
<1>1. /\ mode = "recovering" /\ mode' = mode /\ held' = held
      /\ status[j] = "running" /\ RetryRow(j, CameFrom(j))
      /\ spent' = [spent EXCEPT ![j] = @ + 1]
      /\ gaveUp' = IF GivesUp(j) THEN gaveUp \cup {j} ELSE gaveUp
      /\ lost' = lost \ {j}
    BY DEF Recover, RecoverRow, CountFailure
<1>2. \A w \in Workers : held[w] = NoJob
    BY <1>1 DEF QueueInv, Hands
<1>3. /\ attempts \in [Jobs -> 0..MaxAttempts] /\ spent \in [Jobs -> 0..MaxAttempts]
      /\ attempts[j] = spent[j] + 1 /\ j \notin gaveUp
    BY <1>1 DEF QueueInv, TypeOK, TableTypeOK, Account, AccountOf
<1>4. spent' \in [Jobs -> 0..MaxAttempts] /\ spent'[j] = attempts[j]
    <2>1. attempts[j] \in 0..MaxAttempts /\ spent[j] \in 0..MaxAttempts
        BY <1>3
    <2>2. QED
        BY <1>1, <1>3, <2>1, Facts
<1>5. Hands' /\ NoOrphan'
    BY <1>1, <1>2 DEF Hands, NoOrphan
<1>6. CASE GivesUp(j)
    <2>1. FinishRow(j, "failed") /\ "failed" \in Finished
        BY <1>1, <1>6 DEF RetryRow, Finished
    <2>2. /\ status' \in [Jobs -> Statuses]
          /\ status'[j] = "failed"
          /\ \A i \in Jobs : i # j =>
                 status'[i] = status[i] \/ (status[i] \in Finished /\ status'[i] = "pruned")
          /\ UNCHANGED <<stage, attempts, key, hash>>
        BY <2>1, FinishEffect DEF QueueInv, TypeOK
    <2>3. spent'[j] = MaxAttempts
        BY <1>3, <1>4, <1>6, Facts DEF GivesUp
    <2>4. TypeOK'
        BY <1>1, <1>4, <2>2 DEF QueueInv, TypeOK, TableTypeOK
    <2>5. Account'
        BY <1>1, <1>6, <2>2, <2>3 DEF QueueInv, Account, AccountOf, Finished
    <2>6. OneLiveJobPerKey'
        BY <2>2 DEF QueueInv, OneLiveJobPerKey, JobsIn, Live, Finished
    <2>7. Abandoned'
        BY <1>1, <1>2, <2>2 DEF QueueInv, TypeOK, Abandoned, Finished
    <2>8. QED
        BY <1>5, <2>4, <2>5, <2>6, <2>7 DEF QueueInv
<1>7. CASE ~GivesUp(j)
    <2>1. /\ status' = [status EXCEPT ![j] = CameFrom(j)]
          /\ stage' = [stage EXCEPT ![j] = StageOf(CameFrom(j))]
          /\ UNCHANGED <<attempts, key, hash>> /\ gaveUp' = gaveUp
        BY <1>1, <1>7 DEF RetryRow
    <2>2. CameFrom(j) \in {"queued", "staged"} /\ StageOf(CameFrom(j)) \in Stages
        BY DEF CameFrom, StageOf, Stages
    <2>3. attempts[j] < MaxAttempts
        BY <1>3, <1>7, Facts DEF GivesUp
    <2>4. TypeOK'
        BY <1>1, <1>4, <2>1, <2>2 DEF QueueInv, TypeOK, TableTypeOK, Statuses, Live
    <2>5. Account'
        BY <1>1, <1>4, <2>1, <2>2, <2>3 DEF QueueInv, TypeOK, TableTypeOK, Account, AccountOf
    <2>6. OneLiveJobPerKey'
        BY <1>1, <2>1, <2>2 DEF QueueInv, TypeOK, TableTypeOK, OneLiveJobPerKey, JobsIn, Live
    <2>7. Abandoned'
        BY <1>1, <1>2, <2>1 DEF QueueInv, TypeOK, TableTypeOK, Abandoned
    <2>8. QED
        BY <1>5, <2>4, <2>5, <2>6, <2>7 DEF QueueInv
<1>8. QED
    BY <1>6, <1>7

(* The inductive step of the whole invariant.                             *)
LEMMA QueueInvStep == QueueInv /\ [Next]_vars => QueueInv'
<1> SUFFICES ASSUME QueueInv, [Next]_vars PROVE QueueInv'
    OBVIOUS
<1>1. CASE UNCHANGED vars
    BY <1>1 DEF vars, QueueInv, TypeOK, TableTypeOK, Hands, NoOrphan, Abandoned,
                Account, AccountOf, OneLiveJobPerKey, JobsIn
<1>2. ASSUME NEW k \in Keys, NEW h \in Hashes \cup {NoHash}, NEW j \in Jobs, Post(k, h, j)
      PROVE  QueueInv'
    BY <1>2, PostStep
<1>3. ASSUME NEW w \in Workers, NEW j \in Jobs, Claim(w, j) PROVE QueueInv'
    BY <1>3, ClaimStep
<1>4. ASSUME NEW w \in Workers,
             Stage(w) \/ FailPermanently(w) \/ FailForNow(w) \/ RecordLost(w)
      PROVE  QueueInv'
    BY <1>4, StageStep, FailPermanentlyStep, FailForNowStep, RecordLostStep
<1>5. CASE Busy \/ FinishOk \/ Die \/ Boot \/ StartThreads
    BY <1>5, BusyStep, FinishOkStep, DieStep, StartThreadsStep
<1>6. ASSUME NEW j \in Jobs, Recover(j) PROVE QueueInv'
    BY <1>6, RecoverStep
<1>7. QED
    BY <1>1, <1>2, <1>3, <1>4, <1>5, <1>6 DEF Next

LEMMA QueueInvInit == Init => QueueInv
<1> SUFFICES ASSUME Init PROVE QueueInv
    OBVIOUS
<1> USE DEF Init, TableInit
<1>1. TypeOK
    BY Facts, TableAssumption DEF TypeOK, TableTypeOK, Statuses, Stages
<1>2. Hands /\ NoOrphan /\ Abandoned
    BY DEF Hands, NoOrphan, Abandoned
<1>3. Account
    BY DEF Account, AccountOf
<1>4. OneLiveJobPerKey
    BY DEF OneLiveJobPerKey, JobsIn, Live
<1>5. QED
    BY <1>1, <1>2, <1>3, <1>4 DEF QueueInv

(* The invariant the others follow from.                                  *)
THEOREM QueueInvariant == Spec => []QueueInv
<1>1. QED
    BY QueueInvInit, QueueInvStep, PTL DEF Spec

(* The table and the workers keep their types: in particular no release   *)
(* takes attempts below zero and no claim takes them past MAX_ATTEMPTS.   *)
THEOREM QueueTypes == Spec => []TypeOK
<1>1. QueueInv => TypeOK
    BY DEF QueueInv
<1>2. QED
    BY <1>1, QueueInvariant, PTL

(* claim() never hands one job to two workers, and "running" lies of no   *)
(* row but those whose last write raised: of all of them.                 *)
THEOREM ClaimIsExclusive == Spec => []HandedOutOnce
<1>1. QueueInv => HandedOutOnce
    BY DEF QueueInv, Hands, NoOrphan, Abandoned, HandedOutOnce, JobsIn
<1>2. QED
    BY <1>1, QueueInvariant, PTL

(* enqueue() keeps one live job per dedup key.                            *)
THEOREM DedupHolds == Spec => []OneLiveJobPerKey
<1>1. QueueInv => OneLiveJobPerKey
    BY DEF QueueInv
<1>2. QED
    BY <1>1, QueueInvariant, PTL

(* A job gives up after exactly MAX_ATTEMPTS real failures of one phase.  *)
THEOREM GivesUpForCause == Spec => [](GaveUpForCause /\ AttemptsAreFailures)
<1>1. QueueInv => GaveUpForCause
    BY DEF QueueInv, TypeOK, Account, AccountOf, GaveUpForCause
<1>2. QueueInv => AttemptsAreFailures
    BY DEF QueueInv, TypeOK, TableTypeOK, Account, AccountOf, AttemptsAreFailures, JobsIn, Live
<1>3. QED
    BY <1>1, <1>2, QueueInvariant, PTL

-----------------------------------------------------------------------------
(* The queue implements the lifecycle its callers see: each step of the    *)
(* queue is one step of JobLifecycle under Phase, or leaves it alone.      *)

(* A job's phase is a function of its status and its stage.               *)
LEMMA PhaseLocal ==
    ASSUME TableTypeOK, NEW j \in Jobs,
           status'[j] = status[j], stage'[j] = stage[j] \/ status[j] # "running"
    PROVE  Phase'[j] = Phase[j]
<1>1. status[j] \in Statuses
    BY DEF TableTypeOK
<1>2. CASE status[j] = "running"
    BY <1>2 DEF Phase, PhaseOf
<1>3. CASE status[j] # "running"
    BY <1>1, <1>3 DEF Phase, PhaseOf, Statuses, Live, Finished
<1>4. QED
    BY <1>2, <1>3

(* Rows whose phase does not move make a step the lifecycle does not see. *)
LEMMA PhaseStutter ==
    ASSUME \A j \in Jobs : Phase'[j] = Phase[j]
    PROVE  Phase' = Phase
BY DEF Phase

(* The phase of one row, by its status.                                   *)
LEMMA PhaseValues ==
    ASSUME NEW j \in Jobs
    PROVE  /\ status[j] = "unborn" => Phase[j] = "absent"
           /\ status[j] = "queued" => Phase[j] = "accepted"
           /\ status[j] = "staged" => Phase[j] = "parsed"
           /\ status[j] = "running" =>
                  Phase[j] = IF stage[j] = "phase2" THEN "parsed" ELSE "accepted"
           /\ status[j] = "ok" => Phase[j] = "ingested"
           /\ status[j] = "failed" => Phase[j] = "failed"
           /\ status[j] = "pruned" => Phase[j] = "forgotten"
BY DEF Phase, PhaseOf

(* finish() with its prune is one Settle of the lifecycle.                *)
LEMMA FinishSettles ==
    ASSUME TableTypeOK, NEW j \in Jobs, status[j] = "running",
           NEW outcome \in Finished, FinishRow(j, outcome)
    PROVE  Lifecycle!Settle(j, IF outcome = "ok" THEN "ingested" ELSE "failed")
<1> DEFINE ph == IF outcome = "ok" THEN "ingested" ELSE "failed"
           old == {i \in Jobs : i # j /\ status[i] \in Finished /\ status'[i] = "pruned"}
<1>1. /\ status' \in [Jobs -> Statuses]
      /\ status'[j] = outcome
      /\ \A i \in Jobs : i # j =>
             status'[i] = status[i] \/ (status[i] \in Finished /\ status'[i] = "pruned")
      /\ stage' = stage
    BY FinishEffect
<1>2. old \in SUBSET {i \in Jobs : Phase[i] \in {"ingested", "failed"}} /\ j \notin old
    BY PhaseValues DEF Finished
<1>3. Phase'[j] = ph
    BY <1>1 DEF Phase, PhaseOf, Finished
<1>4. \A i \in old : Phase'[i] = "forgotten"
    BY DEF Phase, PhaseOf
<1>5. \A i \in Jobs \ (old \cup {j}) : Phase'[i] = Phase[i]
    <2>1. \A i \in Jobs \ (old \cup {j}) : status'[i] = status[i]
        BY <1>1
    <2>2. QED
        BY <1>1, <2>1, PhaseLocal
<1>6. Phase' = [i \in Jobs |-> IF i = j THEN ph ELSE IF i \in old THEN "forgotten"
                                ELSE Phase[i]]
    <2> HIDE DEF old, ph
    <2>1. \A i \in Jobs : Phase'[i] = IF i = j THEN ph ELSE IF i \in old THEN "forgotten"
                                       ELSE Phase[i]
        BY <1>2, <1>3, <1>4, <1>5
    <2>2. Phase' = [i \in Jobs |-> Phase'[i]]
        BY DEF Phase
    <2>3. QED
        BY <2>1, <2>2
<1>7. QED
    BY <1>2, <1>6 DEF Lifecycle!Settle

(* A single row that moves to another status moves a single phase.        *)
LEMMA PhaseMoves ==
    ASSUME TableTypeOK, NEW j \in Jobs, NEW s, status' = [status EXCEPT ![j] = s],
           \A i \in Jobs : i # j => stage'[i] = stage[i]
    PROVE  Phase' = [Phase EXCEPT ![j] = Phase'[j]]
<1>1. \A i \in Jobs : i # j => Phase'[i] = Phase[i]
    BY PhaseLocal DEF TableTypeOK
<1>2. Phase \in [Jobs -> {Phase[i] : i \in Jobs}] /\ Phase' = [i \in Jobs |-> Phase'[i]]
    BY DEF Phase
<1>3. QED
    BY <1>1, <1>2

-----------------------------------------------------------------------------
(* Every step of the queue is a step of the lifecycle or invisible in it. *)
LEMMA LifecycleStep == QueueInv /\ [Next]_vars => [Lifecycle!Next]_Phase
<1> SUFFICES ASSUME QueueInv, [Next]_vars PROVE Lifecycle!Next \/ Phase' = Phase
    OBVIOUS
<1>t. TableTypeOK /\ status \in [Jobs -> Statuses] /\ stage \in [Jobs -> Stages]
    BY DEF QueueInv, TypeOK, TableTypeOK
<1>1. CASE UNCHANGED vars
    <2>1. \A j \in Jobs : Phase'[j] = Phase[j]
        BY <1>t, <1>1, PhaseLocal DEF vars
    <2>2. QED
        BY <2>1, PhaseStutter
<1>2. ASSUME NEW k \in Keys, NEW h \in Hashes \cup {NoHash}, NEW j \in Jobs, Post(k, h, j)
      PROVE  Lifecycle!Next
    <2>1. status[j] = "unborn" /\ status' = [status EXCEPT ![j] = "queued"] /\ stage' = stage
        BY <1>2 DEF Post, Insert
    <2>2. Phase[j] = "absent" /\ Phase'[j] = "accepted"
        BY <1>t, <2>1 DEF Phase, PhaseOf
    <2>3. Phase' = [Phase EXCEPT ![j] = "accepted"]
        BY <1>t, <2>1, <2>2, PhaseMoves
    <2>4. QED
        BY <2>2, <2>3 DEF Lifecycle!Next, Lifecycle!Accept
<1>3. ASSUME NEW w \in Workers, NEW j \in Jobs, Claim(w, j) PROVE Phase' = Phase
    <2>1. /\ status[j] = WaitsIn(w) /\ status' = [status EXCEPT ![j] = "running"]
          /\ stage' = [stage EXCEPT ![j] = RunsAt(w)]
        BY <1>3 DEF Claim, ClaimRow
    <2>2. Phase'[j] = Phase[j]
        BY <1>t, <2>1 DEF Phase, PhaseOf, WaitsIn, RunsAt
    <2>3. \A i \in Jobs : i # j => Phase'[i] = Phase[i]
        BY <1>t, <2>1, PhaseLocal
    <2>4. QED
        BY <2>2, <2>3, PhaseStutter
<1>4. ASSUME NEW w \in Workers, Stage(w) PROVE Lifecycle!Next
    <2> DEFINE j == held[w]
    <2>1. j \in Jobs /\ status[j] = "running" /\ stage[j] = "phase1"
        BY <1>4, HeldRow, Facts DEF Stage, QueueInv, Hands, RunsAt
    <2>2. status' = [status EXCEPT ![j] = "staged"] /\ stage' = [stage EXCEPT ![j] = "phase1"]
        BY <1>4 DEF Stage, StageRow
    <2> HIDE DEF j
    <2>3. Phase[j] = "accepted" /\ Phase'[j] = "parsed"
        BY <1>t, <2>1, <2>2 DEF Phase, PhaseOf
    <2>4. \A i \in Jobs : i # j => stage'[i] = stage[i]
        BY <1>t, <2>2
    <2>5. Phase' = [Phase EXCEPT ![j] = "parsed"]
        BY <1>t, <2>1, <2>2, <2>3, <2>4, PhaseMoves
    <2>6. QED
        BY <2>1, <2>3, <2>5 DEF Lifecycle!Next, Lifecycle!Parse
<1>5. CASE Busy
    <2> DEFINE j == held[Writer]
    <2>1. j \in Jobs /\ status[j] = "running" /\ stage[j] = "phase2"
        BY <1>5, HeldRow, Facts DEF Busy, QueueInv, Hands, RunsAt
    <2>2. status' = [status EXCEPT ![j] = "staged"] /\ stage' = [stage EXCEPT ![j] = "phase1"]
        BY <1>5 DEF Busy, ReleaseRow, StageOf
    <2> HIDE DEF j
    <2>3. Phase'[j] = Phase[j]
        BY <1>t, <2>1, <2>2 DEF Phase, PhaseOf
    <2>4. \A i \in Jobs : i # j => Phase'[i] = Phase[i]
        BY <1>t, <2>2, PhaseLocal
    <2>5. QED
        BY <2>3, <2>4, PhaseStutter
<1>6. CASE FinishOk
    <2> DEFINE j == held[Writer]
    <2>1. j \in Jobs /\ status[j] = "running" /\ stage[j] = "phase2" /\ FinishRow(j, "ok")
        BY <1>6, HeldRow, Facts DEF FinishOk, QueueInv, Hands, RunsAt
    <2> HIDE DEF j
    <2>2. Phase[j] = "parsed" /\ Lifecycle!Settle(j, "ingested")
        BY <1>t, <2>1, PhaseValues, FinishSettles DEF Finished
    <2>3. QED
        BY <2>1, <2>2 DEF Lifecycle!Next, Lifecycle!Ingest
<1>7. ASSUME NEW j \in Jobs, status[j] = "running", FinishRow(j, "failed")
      PROVE  Lifecycle!Next
    <2>1. Phase[j] \in {"accepted", "parsed"} /\ Lifecycle!Settle(j, "failed")
        BY <1>t, <1>7, PhaseValues, FinishSettles DEF Finished
    <2>2. QED
        BY <2>1 DEF Lifecycle!Next, Lifecycle!Fail
<1>8. ASSUME NEW j \in Jobs, status[j] = "running",
             status' = [status EXCEPT ![j] = CameFrom(j)],
             stage' = [stage EXCEPT ![j] = StageOf(CameFrom(j))]
      PROVE  Phase' = Phase
    <2>1. Phase'[j] = Phase[j]
        BY <1>t, <1>8 DEF Phase, PhaseOf, CameFrom
    <2>2. \A i \in Jobs : i # j => Phase'[i] = Phase[i]
        BY <1>t, <1>8, PhaseLocal
    <2>3. QED
        BY <2>1, <2>2, PhaseStutter
<1>9. ASSUME NEW w \in Workers, FailPermanently(w) PROVE Lifecycle!Next
    BY <1>7, <1>9, HeldRow DEF FailPermanently
<1>10. ASSUME NEW w \in Workers, FailForNow(w) PROVE Lifecycle!Next \/ Phase' = Phase
    <2>1. /\ held[w] \in Jobs /\ status[held[w]] = "running" /\ stage[held[w]] = RunsAt(w)
          /\ RetryRow(held[w], WaitsIn(w))
        BY <1>10, HeldRow DEF FailForNow, QueueInv, Hands
    <2>2. WaitsIn(w) = CameFrom(held[w])
        BY <2>1 DEF WaitsIn, RunsAt, CameFrom
    <2>3. QED
        BY <2>1, <2>2, <1>7, <1>8 DEF RetryRow
<1>11. ASSUME NEW j \in Jobs, Recover(j) PROVE Lifecycle!Next \/ Phase' = Phase
    BY <1>7, <1>8, <1>11 DEF Recover, RecoverRow, RetryRow
<1>12. ASSUME Die \/ Boot \/ StartThreads \/ \E w \in Workers : RecordLost(w)
       PROVE  Phase' = Phase
    <2>1. \A j \in Jobs : Phase'[j] = Phase[j]
        BY <1>t, <1>12, PhaseLocal DEF Die, Boot, StartThreads, RecordLost
    <2>2. QED
        BY <2>1, PhaseStutter
<1>13. QED
    BY <1>1, <1>2, <1>3, <1>4, <1>5, <1>6, <1>9, <1>10, <1>11, <1>12 DEF Next

(* Retries, refunds, crashes and recoveries never show: a job's outcome   *)
(* is final, nothing is ingested that was not parsed, nothing is parsed   *)
(* twice after stage() recorded it.                                       *)
THEOREM QueueImplementsLifecycle == Spec => ImplementsLifecycle
<1>1. Init => Lifecycle!Init
    BY DEF Init, TableInit, Lifecycle!Init, Phase, PhaseOf
<1>2. QED
    BY <1>1, LifecycleStep, QueueInvariant, PTL DEF Spec, Lifecycle!Spec, ImplementsLifecycle

=============================================================================
