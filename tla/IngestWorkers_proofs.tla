------------------------ MODULE IngestWorkers_proofs ------------------------
(***************************************************************************)
(* The ingest workers, for any number of jobs, keys, bodies, threads and   *)
(* processes.                                                              *)
(*                                                                         *)
(* ProcInv accounts for the levels of the writer lock thread by thread: it *)
(* gives PhaseTwoExclusive and RunningIsHeld for processes that overlap as *)
(* they like.                                                              *)
(*                                                                         *)
(* Those levels are what WriterMutex promises (WorkersShareTheMutex), and  *)
(* the lock itself, at the end of this module, promises no less to the     *)
(* processes that take it system call by system call (LockIsAMutex).       *)
(*                                                                         *)
(* JobInv follows a job's files from its payload to its leaf.  It holds    *)
(* while one process follows another (Alone); a fetch thread that outlives *)
(* the stop of its process breaks it, and JobInOneHand says so.            *)
(***************************************************************************)
EXTENDS IngestWorkers, WriterLock, FiniteSetTheorems, TLAPS

(* No two processes overlap.                                              *)
Alone == \A p, q \in Procs : p = q

-----------------------------------------------------------------------------
FetchSteps == {"off", "idle", "drop", "convert", "commit", "clean", "failNow", "failGood"}
PassSteps == {"link", "advance", "check", "unlink", "uncursor"}
WriteSteps ==
    {"off", "idle", "slot", "read", "finish", "clean", "failNow", "failGood"} \cup PassSteps

(* A thread with a job of its own, whose row it has not settled yet.      *)
Active(p, w) == pc[p][w] \notin {"off", "idle", "clean"}

ProcTypes ==
    /\ status \in [Jobs -> Statuses]
    /\ mode \in [Procs -> {"down", "recovering", "up", "stopping", "stopped"}]
    /\ depth \in [Procs -> Nat]
    /\ slot \in [Procs -> {"free", "writer", "manual"}]
    /\ manual \in [Procs -> {"off", "phase2", "linking", "repair"}]
    /\ pc \in [Procs -> [Workers -> FetchSteps \cup WriteSteps]]
    /\ \A p \in Procs : /\ pc[p][Writer] \in WriteSteps
                        /\ \A w \in Fetchers : pc[p][w] \in FetchSteps
    /\ held \in [Procs -> [Workers -> Jobs \cup {NoJob}]]
    /\ lost \subseteq Jobs

(* The levels of the writer lock that passes in process p count.          *)
LinkLevels(p) ==
    (IF pc[p][Writer] \in {"link", "advance"} THEN 1 ELSE 0)
        + (IF manual[p] = "linking" THEN 1 ELSE 0)

(* Every other level is start()'s, and stop() takes it back only from a   *)
(* process whose writer has ended.                                        *)
LevelsOf(p) ==
    /\ mode[p] = "down" => depth[p] = 0
    /\ mode[p] \in {"recovering", "up", "stopping"} => depth[p] = 1 + LinkLevels(p)
    /\ mode[p] = "stopped" =>
           \/ depth[p] = 1 + LinkLevels(p)
           \/ depth[p] = LinkLevels(p) /\ pc[p][Writer] = "off"

Levels == \A p \in Procs : LevelsOf(p)

LockExcludes == \A p, q \in Procs : p # q => depth[p] = 0 \/ depth[q] = 0

(* The slot is the writer's from its claim of it to the cursor's unlink,  *)
(* or the manual job's while there is one.                                *)
SlotOf(p) ==
    /\ slot[p] = "writer" <=> pc[p][Writer] \in {"read"} \cup PassSteps
    /\ slot[p] = "manual" <=> manual[p] # "off"

(* Threads and manual jobs live from the start of the threads to the end  *)
(* of the process, and a thread holds a job while it is at work.          *)
ThreadsOf(p) ==
    /\ mode[p] \in {"down", "recovering"} =>
           manual[p] = "off" /\ \A w \in Workers : pc[p][w] = "off"
    /\ \A w \in Workers : pc[p][w] \in {"off", "idle"} <=> held[p][w] = NoJob

Threads == \A p \in Procs : SlotOf(p) /\ ThreadsOf(p)

(* In a served queue each running row is some thread's unsettled job, or  *)
(* one whose last write raised.                                           *)
NoOrphan ==
    \A p \in Procs : mode[p] = "up" =>
        \A j \in Jobs : status[j] = "running" =>
            j \in lost \/ \E w \in Workers : held[p][w] = j /\ Active(p, w)

ProcInv == ProcTypes /\ Levels /\ LockExcludes /\ Threads /\ NoOrphan

-----------------------------------------------------------------------------
(* What a job consists of.                                                *)
Work(j) == Lines[<<key[j], hash[j]>>]
Leaf(j) == \E i \in 1..Len(Work(j)) : Work(j)[i] \in graph

(* Phase 1 is behind the job and phase 2 is not.                          *)
Parsed(j) == status[j] = "staged" \/ (status[j] = "running" /\ stage[j] = "phase2")

RunsAt(w) == IF w = Writer THEN "phase2" ELSE "phase1"

Files == {Lines[x] : x \in Posts} \cup {NoFile}

JobTypes ==
    /\ TableTypeOK
    /\ rows \in [Procs -> Seq(Sources)] /\ pos \in [Procs -> Nat]
    /\ written \in [Procs -> BOOLEAN] /\ denied \in [Procs -> BOOLEAN]
    /\ payload \in [Keys -> Hashes \cup {NoFile}]
    /\ staging \in [Kinds -> [Keys -> Files]]
    /\ cursor \in [Kinds -> [Keys -> Nat]]
    /\ graph \subseteq Sources /\ refused \subseteq Sources
    /\ offered \in [Jobs -> SUBSET Sources]
    /\ answered \in [Jobs -> SUBSET (Hashes \cup {NoHash})]

(* A row that exists was posted, its attempts are in step, and its bytes  *)
(* are its own or gone.  A parsed job has its lines on disk, or it left   *)
(* them in the store; the cursor of a fetch job counts only lines that    *)
(* this very job took.  Work that ended "ok" is in the store.             *)
ParseOf(j) ==
    /\ StagingOf(j) \in {Work(j), NoFile}
    /\ StagingOf(j) = NoFile => Leaf(j)
    /\ KindOf(j) = "fetch" => \A i \in 1..Len(Work(j)) :
           i <= cursor["fetch"][key[j]] => Work(j)[i] \in offered[j]

JobOf(j) ==
    /\ status[j] # "unborn" => <<key[j], hash[j]>> \in Posts
    /\ status[j] = "unborn" => attempts[j] = 0
    /\ status[j] \in {"queued", "staged"} => attempts[j] < MaxAttempts
    /\ status[j] = "running" => attempts[j] > 0
    /\ status[j] \in Live /\ KindOf(j) = "run" => payload[key[j]] \in {hash[j], NoFile}
    /\ Parsed(j) => ParseOf(j)
    /\ status[j] = "ok" => Leaf(j) /\ (KindOf(j) = "fetch" => Offered(j))

JobsInOrder == \A j \in Jobs : JobOf(j)

OneLiveJobPerKey == \A i, j \in JobsIn(Live) : key[i] = key[j] => i = j

(* The job in a thread's hands is running at the thread's stage and in no *)
(* other hands.  A fetch job drops its files first and has no cursor from *)
(* then on; once converted, a job's lines are on disk.                    *)
HandOf(p, w) ==
    LET j == held[p][w] IN
    /\ Active(p, w) => status[j] = "running" /\ stage[j] = RunsAt(w)
    /\ pc[p][w] = "drop" => KindOf(j) = "fetch"
    /\ pc[p][w] = "commit" => StagingOf(j) = Work(j)
    /\ pc[p][w] \in {"convert", "commit"} /\ KindOf(j) = "fetch" => cursor["fetch"][key[j]] = 0

Hands ==
    /\ \A p \in Procs, w \in Workers : HandOf(p, w)
    /\ \A p \in Procs, v, w \in Workers :
           Active(p, v) /\ Active(p, w) /\ held[p][v] = held[p][w] => v = w

(* Where the pass of process p stands, and what it took by then.          *)
TakenUpTo(j, n) == \A i \in 1..Len(Work(j)) : i <= n => Work(j)[i] \in offered[j]

PassOf(p) ==
    LET j == held[p][Writer]
        at == pc[p][Writer]
        fetch == KindOf(j) = "fetch"
    IN  /\ at \in PassSteps => rows[p] = Work(j)
        /\ at \notin PassSteps => rows[p] = <<>> /\ pos[p] = 0
        /\ at = "link" => pos[p] <= Len(rows[p]) /\ (fetch => TakenUpTo(j, pos[p]))
        /\ at = "advance" => pos[p] < Len(rows[p]) /\ (fetch => TakenUpTo(j, pos[p] + 1))
        /\ at \in {"check", "unlink", "uncursor"} => pos[p] = Len(rows[p])
        /\ at \in {"check", "unlink", "uncursor", "finish"} /\ fetch => Offered(j)
        /\ at \in {"unlink", "uncursor", "finish"} => Leaf(j)

Passes == \A p \in Procs : PassOf(p)

JobInv == ProcInv /\ JobTypes /\ JobsInOrder /\ OneLiveJobPerKey /\ Hands /\ Passes

-----------------------------------------------------------------------------
(* The literals are different numbers and different threads.              *)
LEMMA Facts ==
    /\ Jobs \subseteq Nat /\ NoJob \notin Jobs
    /\ MaxAttempts \in Nat /\ MaxAttempts > 0
    /\ Writer \in Workers /\ Fetchers \subseteq Workers /\ Writer \notin Fetchers
    /\ Workers = Fetchers \cup {Writer}
BY TableAssumption, WorkersAssumption DEF Jobs, NoJob, Workers

(* An operation of the table moves row j to one of S; another row keeps   *)
(* its status or, finished, drops out of the ring.                        *)
RowMoves(j, S) ==
    /\ status' \in [Jobs -> Statuses]
    /\ status'[j] \in S
    /\ \A i \in Jobs : i # j =>
           \/ status'[i] = status[i]
           \/ status[i] \in Finished /\ status'[i] = "pruned"

LEMMA FinishEffect ==
    ASSUME status \in [Jobs -> Statuses], NEW j \in Jobs, NEW outcome \in Finished,
           FinishRow(j, outcome)
    PROVE  RowMoves(j, {outcome}) /\ UNCHANGED <<stage, attempts, key, hash>>
<1>1. PICK gone \in SUBSET (JobsIn(Finished) \ {j}) :
          /\ status' = [i \in Jobs |-> IF i = j THEN outcome
                                       ELSE IF i \in gone THEN "pruned"
                                       ELSE status[i]]
          /\ UNCHANGED <<stage, attempts, key, hash>>
    BY DEF FinishRow
<1>2. \A i \in gone : i # j /\ status[i] \in Finished
    BY DEF JobsIn
<1>3. QED
    BY <1>1, <1>2 DEF RowMoves, Statuses, Finished

LEMMA RetryEffect ==
    ASSUME status \in [Jobs -> Statuses], NEW j \in Jobs, NEW waiting \in {"queued", "staged"},
           RetryRow(j, waiting)
    PROVE  /\ UNCHANGED <<attempts, key, hash>>
           /\ \/ GivesUp(j) /\ RowMoves(j, {"failed"}) /\ stage' = stage
              \/ /\ ~GivesUp(j) /\ RowMoves(j, {waiting})
                 /\ stage' = [stage EXCEPT ![j] = StageOf(waiting)]
<1>1. CASE GivesUp(j) /\ FinishRow(j, "failed")
    BY <1>1, FinishEffect DEF Finished
<1>2. CASE /\ ~GivesUp(j)
           /\ status' = [status EXCEPT ![j] = waiting]
           /\ stage' = [stage EXCEPT ![j] = StageOf(waiting)]
           /\ UNCHANGED <<attempts, key, hash>>
    BY <1>2 DEF RowMoves, Statuses, Live
<1>3. QED
    BY <1>1, <1>2 DEF RetryRow

-----------------------------------------------------------------------------
(* ProcInv, part by part.  A thread takes a step: its levels of the lock  *)
(* and its hold on the slot change with its position, and nothing else of *)
(* the process does.                                                      *)
IsLink(step) == IF step \in {"link", "advance"} THEN 1 ELSE 0

ThreadMoves(p, w, step) ==
    /\ pc[p][w] # "off" /\ Goes(p, w, step) /\ UNCHANGED <<mode, manual>>
    /\ step \in (IF w = Writer THEN WriteSteps ELSE FetchSteps)
    /\ held' \in [Procs -> [Workers -> Jobs \cup {NoJob}]]
    /\ held'[p][w] = NoJob <=> step \in {"off", "idle"}
    /\ \A q \in Procs, v \in Workers : q # p \/ v # w => held'[q][v] = held[q][v]
    /\ slot' \in [Procs -> {"free", "writer", "manual"}]
    /\ \A q \in Procs : q # p \/ w # Writer => slot'[q] = slot[q]
    /\ w = Writer => /\ slot'[p] = "writer" <=> step \in {"read"} \cup PassSteps
                     /\ slot'[p] = "manual" <=> slot[p] = "manual"
    /\ depth' \in [Procs -> Nat]
    /\ \A q \in Procs : q # p \/ w # Writer => depth'[q] = depth[q]
    /\ w = Writer => depth'[p] + IsLink(pc[p][Writer]) = depth[p] + IsLink(step)
    /\ depth'[p] = 0 \/ depth[p] > 0 \/ LockFree(p)

LEMMA ThreadMoveKeeps ==
    ASSUME ProcTypes, Levels, LockExcludes, Threads, status' \in [Jobs -> Statuses], lost' \subseteq Jobs,
           NEW p \in Procs, NEW w \in Workers, NEW step, ThreadMoves(p, w, step)
    PROVE  ProcTypes' /\ Levels' /\ LockExcludes' /\ Threads'
<1> USE Facts
<1>1. /\ pc' \in [Procs -> [Workers -> FetchSteps \cup WriteSteps]]
      /\ \A q \in Procs, v \in Workers : pc'[q][v] = IF q = p /\ v = w THEN step ELSE pc[q][v]
    BY DEF ThreadMoves, Goes, ProcTypes
<1>2. mode[p] \notin {"down", "recovering"}
    BY DEF ThreadMoves, Threads, ThreadsOf
<1>3. ProcTypes'
    <2>1. /\ mode' \in [Procs -> {"down", "recovering", "up", "stopping", "stopped"}]
          /\ manual' \in [Procs -> {"off", "phase2", "linking", "repair"}]
        BY DEF ThreadMoves, ProcTypes
    <2>2. ASSUME NEW q \in Procs
          PROVE  pc'[q][Writer] \in WriteSteps /\ \A v \in Fetchers : pc'[q][v] \in FetchSteps
        <3>1. pc[q][Writer] \in WriteSteps /\ \A v \in Fetchers : pc[q][v] \in FetchSteps
            BY DEF ProcTypes
        <3>2. (w = Writer => step \in WriteSteps) /\ (w # Writer => step \in FetchSteps)
            BY DEF ThreadMoves
        <3>3. \A v \in Workers : pc'[q][v] = IF q = p /\ v = w THEN step ELSE pc[q][v]
            BY <1>1
        <3>4. Writer \in Workers /\ \A v \in Fetchers : v \in Workers /\ v # Writer
            OBVIOUS
        <3>5. QED
            BY <3>1, <3>2, <3>3, <3>4
    <2>3. QED
        BY <1>1, <2>1, <2>2 DEF ThreadMoves, ProcTypes
<1>4. Threads'
    <2>1. ASSUME NEW q \in Procs PROVE ThreadsOf(q)'
        <3>1. mode'[q] \in {"down", "recovering"} =>
                  manual'[q] = "off" /\ \A v \in Workers : pc'[q][v] = "off"
            BY <1>1, <1>2 DEF ThreadMoves, Threads, ThreadsOf
        <3>2. ASSUME NEW v \in Workers
              PROVE  pc'[q][v] \in {"off", "idle"} <=> held'[q][v] = NoJob
            BY <1>1 DEF ThreadMoves, Threads, ThreadsOf
        <3>3. QED
            BY <3>1, <3>2 DEF ThreadsOf
    <2>2. \A q \in Procs : SlotOf(q)'
        BY <1>1 DEF ThreadMoves, Threads, SlotOf, ProcTypes
    <2>3. QED
        BY <2>1, <2>2 DEF Threads
<1>5. Levels'
    <2>1. ASSUME NEW q \in Procs, q # p PROVE LevelsOf(q)'
        BY <1>1, <2>1 DEF ThreadMoves, Levels, LevelsOf, LinkLevels
    <2>2. CASE w # Writer
        BY <1>1, <2>1, <2>2 DEF ThreadMoves, Levels, LevelsOf, LinkLevels
    <2>3. CASE w = Writer
        <3>1. LinkLevels(p)' + IsLink(pc[p][Writer]) = LinkLevels(p) + IsLink(step)
            BY <1>1, <2>3 DEF ThreadMoves, LinkLevels, IsLink
        <3>2. LinkLevels(p) \in Nat /\ LinkLevels(p)' \in Nat /\ IsLink(pc[p][Writer]) \in Nat
              /\ IsLink(step) \in Nat
            BY DEF LinkLevels, IsLink
        <3>3. depth[p] \in Nat /\ depth'[p] \in Nat
            BY DEF ThreadMoves, ProcTypes
        <3>4. depth[p] = 1 + LinkLevels(p)
            BY <1>2, <2>3 DEF ThreadMoves, Levels, LevelsOf, ProcTypes
        <3>5. depth'[p] = 1 + LinkLevels(p)'
            BY <2>3, <3>1, <3>2, <3>3, <3>4 DEF ThreadMoves
        <3>6. LevelsOf(p)'
            BY <1>2, <3>5 DEF LevelsOf, ThreadMoves
        <3>7. QED
            BY <2>1, <3>6 DEF Levels
    <2>4. QED
        BY <2>2, <2>3
<1>6. LockExcludes'
    <2>1. ASSUME NEW q \in Procs, q # p PROVE depth'[p] = 0 \/ depth'[q] = 0
        <3>1. depth'[q] = depth[q]
            BY <2>1 DEF ThreadMoves
        <3>2. depth[p] > 0 => depth[q] = 0
            BY <2>1 DEF LockExcludes, ProcTypes
        <3>3. QED
            BY <2>1, <3>1, <3>2 DEF ThreadMoves, LockFree
    <2>2. ASSUME NEW q \in Procs, NEW r \in Procs, q # p, r # p, q # r
          PROVE  depth'[q] = 0 \/ depth'[r] = 0
        BY <2>2 DEF ThreadMoves, LockExcludes
    <2>3. QED
        BY <2>1, <2>2 DEF LockExcludes
<1>7. QED
    BY <1>3, <1>4, <1>5, <1>6

(* A thread that settles its row, or keeps it, leaves no orphan.          *)
LEMMA NoOrphanKept ==
    ASSUME ProcTypes, NoOrphan, mode' = mode, \A j \in lost : j \in lost',
           NEW p \in Procs, NEW w \in Workers,
           \A q \in Procs, v \in Workers : q # p \/ v # w =>
               held'[q][v] = held[q][v] /\ pc'[q][v] = pc[q][v],
           \A j \in Jobs : status'[j] = "running" => status[j] = "running",
           Active(p, w) /\ held[p][w] \in Jobs =>
               \/ status'[held[p][w]] # "running" \/ held[p][w] \in lost'
               \/ held'[p][w] = held[p][w] /\ pc'[p][w] \notin {"off", "idle", "clean"}
    PROVE  NoOrphan'
<1> SUFFICES ASSUME NEW q \in Procs, mode[q] = "up", NEW j \in Jobs, status'[j] = "running"
             PROVE  j \in lost' \/ \E v \in Workers : held'[q][v] = j /\ Active(q, v)'
    BY DEF NoOrphan
<1>1. CASE j \in lost
    BY <1>1
<1>2. CASE \E v \in Workers : held[q][v] = j /\ Active(q, v)
    <2>1. PICK v \in Workers : held[q][v] = j /\ Active(q, v)
        BY <1>2
    <2>2. j \in lost' \/ (held'[q][v] = j /\ Active(q, v)')
        BY <2>1 DEF Active
    <2>3. QED
        BY <2>2
<1>3. QED
    BY <1>1, <1>2 DEF NoOrphan

LEMMA ThreadStep ==
    ASSUME ProcInv, status' \in [Jobs -> Statuses],
           \A j \in lost : j \in lost', lost' \subseteq Jobs,
           NEW p \in Procs, NEW w \in Workers, NEW step, ThreadMoves(p, w, step),
           \A j \in Jobs : status'[j] = "running" => status[j] = "running",
           Active(p, w) /\ held[p][w] \in Jobs =>
               \/ status'[held[p][w]] # "running" \/ held[p][w] \in lost'
               \/ held' = held /\ step \notin {"off", "idle", "clean"}
    PROVE  ProcInv'
<1>1. ProcTypes' /\ Levels' /\ LockExcludes' /\ Threads'
    BY ThreadMoveKeeps DEF ProcInv
<1>2. /\ \A q \in Procs, v \in Workers : q # p \/ v # w =>
             held'[q][v] = held[q][v] /\ pc'[q][v] = pc[q][v]
      /\ pc'[p][w] = step
    BY DEF ProcInv, ProcTypes, ThreadMoves, Goes
<1>3. NoOrphan'
    BY <1>2, NoOrphanKept DEF ProcInv, ThreadMoves
<1>4. QED
    BY <1>1, <1>3 DEF ProcInv

(* A thread at work has a job.                                            *)
LEMMA AtWork ==
    ASSUME ProcInv, NEW p \in Procs, NEW w \in Workers, pc[p][w] \notin {"off", "idle"}
    PROVE  held[p][w] \in Jobs
BY Facts DEF ProcInv, ProcTypes, Threads, ThreadsOf

(* A step that neither the lock nor the slot takes part in.               *)
LEMMA PlainMove ==
    ASSUME ProcInv, NEW p \in Procs, NEW w \in Workers, NEW step, NEW job \in Jobs \cup {NoJob},
           Goes(p, w, step), UNCHANGED <<mode, depth, slot, manual>>,
           held' = [held EXCEPT ![p][w] = job], job = NoJob <=> step \in {"off", "idle"},
           pc[p][w] # "off", step \in (IF w = Writer THEN WriteSteps ELSE FetchSteps),
           w = Writer => /\ IsLink(step) = IsLink(pc[p][w])
                         /\ step \in {"read"} \cup PassSteps <=>
                                pc[p][w] \in {"read"} \cup PassSteps
    PROVE  ThreadMoves(p, w, step)
<1>1. /\ held' \in [Procs -> [Workers -> Jobs \cup {NoJob}]]
      /\ held'[p][w] = job
      /\ \A q \in Procs, v \in Workers : q # p \/ v # w => held'[q][v] = held[q][v]
    BY DEF ProcInv, ProcTypes
<1>2. w = Writer => /\ slot[p] = "writer" <=> step \in {"read"} \cup PassSteps
                    /\ IsLink(pc[p][Writer]) = IsLink(step)
    BY DEF ProcInv, Threads, SlotOf
<1>3. /\ slot \in [Procs -> {"free", "writer", "manual"}] /\ depth \in [Procs -> Nat]
      /\ depth[p] = 0 \/ depth[p] > 0
    BY DEF ProcInv, ProcTypes
<1>4. QED
    BY <1>1, <1>2, <1>3 DEF ThreadMoves

LEMMA KeepMove ==
    ASSUME ProcInv, NEW p \in Procs, NEW w \in Workers, NEW step,
           Goes(p, w, step), UNCHANGED <<mode, depth, slot, manual, held>>,
           pc[p][w] \notin {"off", "idle"}, step \notin {"off", "idle"},
           step \in (IF w = Writer THEN WriteSteps ELSE FetchSteps),
           w = Writer => /\ IsLink(step) = IsLink(pc[p][w])
                         /\ step \in {"read"} \cup PassSteps <=>
                                pc[p][w] \in {"read"} \cup PassSteps
    PROVE  ThreadMoves(p, w, step)
<1>1. held[p][w] \in Jobs
    BY AtWork
<1>2. held' = [held EXCEPT ![p][w] = held[p][w]]
    BY DEF ProcInv, ProcTypes
<1>3. QED
    BY <1>1, <1>2, PlainMove, Facts

LEMMA RestMove ==
    ASSUME ProcInv, NEW p \in Procs, NEW w \in Workers,
           Rests(p, w), UNCHANGED <<mode, depth, slot, manual>>,
           pc[p][w] # "off", w = Writer => pc[p][w] \notin {"read"} \cup PassSteps
    PROVE  \E step : ThreadMoves(p, w, step)
<1> DEFINE step == IF mode[p] = "up" THEN "idle" ELSE "off"
<1>1. Goes(p, w, step) /\ held' = [held EXCEPT ![p][w] = NoJob]
    BY DEF Rests
<1>2. /\ step \in {"off", "idle"} /\ step \in WriteSteps /\ step \in FetchSteps
      /\ step \notin {"read"} \cup PassSteps /\ IsLink(step) = 0
    BY DEF WriteSteps, FetchSteps, PassSteps, IsLink
<1>3. w = Writer => IsLink(pc[p][w]) = 0
    BY DEF PassSteps, IsLink
<1> HIDE DEF step
<1>4. ThreadMoves(p, w, step)
    BY <1>1, <1>2, <1>3, PlainMove
<1>5. QED
    BY <1>4

-----------------------------------------------------------------------------
(* The steps that both kinds of thread take.                              *)
LEMMA ClaimProc ==
    ASSUME ProcInv, NEW p \in Procs, NEW w \in Workers, NEW j \in Jobs, Claim(p, w, j)
    PROVE  ProcInv'
<1> DEFINE step == IF w = Writer THEN "slot" ELSE IF KindOf(j) = "fetch" THEN "drop" ELSE "convert"
<1>1. /\ mode[p] \in {"up", "stopping"} /\ pc[p][w] = "idle"
      /\ status' = [status EXCEPT ![j] = "running"] /\ status[j] \in {"queued", "staged"}
      /\ held' = [held EXCEPT ![p][w] = j] /\ Goes(p, w, step)
      /\ lost' = lost \ {j} /\ UNCHANGED <<mode, depth, slot, manual>>
    BY DEF Claim, ClaimRow, procVars
<1>2. step \in (IF w = Writer THEN WriteSteps ELSE FetchSteps)
      /\ step \notin {"off", "idle", "clean", "read"} \cup PassSteps
    BY Facts DEF WriteSteps, FetchSteps, PassSteps
<1> HIDE DEF step
<1>3. status' \in [Jobs -> Statuses]
    BY <1>1 DEF ProcInv, ProcTypes, Statuses, Live
<1>4. ThreadMoves(p, w, step)
    BY <1>1, <1>2, PlainMove, Facts DEF IsLink, PassSteps
<1>5. ProcTypes' /\ Levels' /\ LockExcludes' /\ Threads'
    BY <1>1, <1>3, <1>4, ThreadMoveKeeps DEF ProcInv, ProcTypes
<1>6. NoOrphan'
    <2> SUFFICES ASSUME NEW q \in Procs, mode[q] = "up", NEW i \in Jobs, status'[i] = "running"
                 PROVE  i \in lost' \/ \E v \in Workers : held'[q][v] = i /\ Active(q, v)'
        BY <1>1 DEF NoOrphan
    <2>1. q = p
        <3>1. depth[p] > 0 /\ depth[q] > 0
            BY <1>1 DEF ProcInv, Levels, LevelsOf, LinkLevels
        <3>2. QED
            BY <3>1 DEF ProcInv, LockExcludes
    <2>2. \A v \in Workers : v # w => held'[p][v] = held[p][v] /\ pc'[p][v] = pc[p][v]
        BY <1>1 DEF ProcInv, ProcTypes, Goes
    <2>3. held'[p][w] = j /\ pc'[p][w] = step
        BY <1>1 DEF ProcInv, ProcTypes, Goes
    <2>4. CASE i = j
        BY <1>2, <2>1, <2>3, <2>4 DEF Active
    <2>5. CASE i # j
        <3>1. i \in lost \/ \E v \in Workers : held[p][v] = i /\ Active(p, v)
            BY <1>1, <2>1, <2>5 DEF ProcInv, ProcTypes, NoOrphan
        <3>2. CASE i \in lost
            BY <1>1, <2>5, <3>2
        <3>3. ASSUME NEW v \in Workers, held[p][v] = i, Active(p, v)
              PROVE  held'[q][v] = i /\ Active(q, v)'
            <4>1. v # w
                BY <1>1, <3>3 DEF Active
            <4>2. QED
                BY <2>1, <2>2, <3>3, <4>1 DEF Active
        <3>4. QED
            BY <3>1, <3>2, <3>3
    <2>6. QED
        BY <2>4, <2>5
<1>7. QED
    BY <1>5, <1>6 DEF ProcInv

LEMMA ThreadEndsProc ==
    ASSUME ProcInv, NEW p \in Procs, NEW w \in Workers, ThreadEnds(p, w)
    PROVE  ProcInv'
<1>1. /\ pc[p][w] = "idle" /\ Goes(p, w, "off") /\ UNCHANGED <<status, lost>>
      /\ UNCHANGED <<mode, depth, slot, manual, held>>
    BY DEF ThreadEnds, procVars, tableVars
<1>2. held[p][w] = NoJob /\ held' = [held EXCEPT ![p][w] = NoJob]
    BY <1>1 DEF ProcInv, ProcTypes, Threads, ThreadsOf
<1>3. ThreadMoves(p, w, "off")
    BY <1>1, <1>2, PlainMove DEF IsLink, PassSteps, WriteSteps, FetchSteps
<1>4. QED
    BY <1>1, <1>2, <1>3, ThreadStep, Facts DEF ProcInv, ProcTypes

(* A step with a job at the end of which the row is settled.              *)
LEMMA SettleProc ==
    ASSUME ProcInv, NEW p \in Procs, NEW w \in Workers, NEW step, ThreadMoves(p, w, step),
           NEW S, RowMoves(held[p][w], S), "running" \notin S,
           lost' = lost,
           pc[p][w] \notin {"off", "idle"}
    PROVE  ProcInv'
<1>1. held[p][w] \in Jobs
    BY AtWork
<1>2. /\ status' \in [Jobs -> Statuses] /\ status'[held[p][w]] # "running"
      /\ \A j \in Jobs : status'[j] = "running" => status[j] = "running"
    BY <1>1 DEF RowMoves
<1>3. QED
    BY <1>2, ThreadStep DEF ProcInv, ProcTypes

(* One that leaves the table alone.                                       *)
LEMMA QuietProc ==
    ASSUME ProcInv, NEW p \in Procs, NEW w \in Workers, NEW step, ThreadMoves(p, w, step),
           status' = status, lost' = lost, held' = held, step \notin {"off", "idle", "clean"}
    PROVE  ProcInv'
BY ThreadStep DEF ProcInv, ProcTypes

LEMMA FailProc ==
    ASSUME ProcInv, NEW p \in Procs, NEW w \in Workers, Fail(p, w)
    PROVE  ProcInv'
<1> DEFINE j == held[p][w]
<1>1. pc[p][w] \in {"failGood", "failNow"} /\ UNCHANGED <<mode, depth, slot, manual, lost>>
    BY DEF Fail, procVars
<1>2. j \in Jobs
    BY <1>1, AtWork
<1>3. RowMoves(j, {"queued", "staged", "failed"})
    <2>1. CASE FinishRow(j, "failed")
        BY <1>2, <2>1, FinishEffect DEF ProcInv, ProcTypes, Finished, RowMoves
    <2>2. CASE RetryRow(j, IF w = Writer THEN "staged" ELSE "queued")
        BY <1>2, <2>2, RetryEffect DEF ProcInv, ProcTypes, RowMoves
    <2>3. QED
        BY <2>1, <2>2 DEF Fail
<1>4. \E step : ThreadMoves(p, w, step)
    <2>1. CASE Goes(p, w, "clean") /\ UNCHANGED held
        <3>1. ThreadMoves(p, w, "clean")
            BY <1>1, <2>1, KeepMove DEF IsLink, PassSteps, WriteSteps, FetchSteps
        <3>2. QED
            BY <3>1
    <2>2. CASE Rests(p, w)
        BY <1>1, <2>2, RestMove DEF PassSteps
    <2>3. QED
        BY <2>1, <2>2 DEF Fail
<1>5. QED
    BY <1>1, <1>3, <1>4, SettleProc

LEMMA CleanupProc ==
    ASSUME ProcInv, NEW p \in Procs, NEW w \in Workers, Cleanup(p, w)
    PROVE  ProcInv'
<1>1. /\ pc[p][w] = "clean" /\ Rests(p, w)
      /\ UNCHANGED <<status, lost, mode, depth, slot, manual>>
    BY DEF Cleanup, procVars, tableVars
<1>2. PICK step : ThreadMoves(p, w, step)
    BY <1>1, RestMove DEF PassSteps
<1>3. QED
    BY <1>1, <1>2, ThreadStep DEF Active, ProcInv, ProcTypes

-----------------------------------------------------------------------------
(* Phase 1.                                                               *)
LEMMA FetchProc ==
    ASSUME ProcInv, NEW p \in Procs, NEW w \in Fetchers,
           DropStaging(p, w) \/ Convert(p, w) \/ ConvertRaises(p, w) \/ CommitRaises(p, w)
    PROVE  ProcInv'
<1>1. PICK step \in {"convert", "commit", "failNow", "failGood"} :
          /\ pc[p][w] \in {"drop", "convert", "commit"} /\ Goes(p, w, step)
          /\ UNCHANGED <<status, lost, mode, depth, slot, manual, held>>
    BY DEF DropStaging, Convert, ConvertRaises, CommitRaises, procVars, tableVars
<1>2. ThreadMoves(p, w, step)
    BY <1>1, KeepMove, Facts DEF FetchSteps
<1>3. QED
    BY <1>1, <1>2, QuietProc, Facts

LEMMA CommitProc ==
    ASSUME ProcInv, NEW p \in Procs, NEW w \in Fetchers, Commit(p, w)
    PROVE  ProcInv'
<1>1. pc[p][w] = "commit" /\ UNCHANGED <<mode, depth, slot, manual, lost>> /\ StageRow(held[p][w])
    BY DEF Commit, procVars
<1>2. held[p][w] \in Jobs /\ w \in Workers /\ w # Writer
    BY <1>1, AtWork, Facts
<1>3. RowMoves(held[p][w], {"staged"})
    BY <1>1, <1>2 DEF StageRow, RowMoves, ProcInv, ProcTypes, Statuses, Live
<1>4. \E step : ThreadMoves(p, w, step)
    <2>1. CASE Goes(p, w, "clean") /\ UNCHANGED held
        <3>1. ThreadMoves(p, w, "clean")
            BY <1>1, <1>2, <2>1, KeepMove DEF FetchSteps
        <3>2. QED
            BY <3>1
    <2>2. CASE Rests(p, w)
        BY <1>1, <1>2, <2>2, RestMove
    <2>3. QED
        BY <2>1, <2>2 DEF Commit
<1>5. QED
    BY <1>1, <1>2, <1>3, <1>4, SettleProc

-----------------------------------------------------------------------------
(* Phase 2.  The writer at work counts its own level above start()'s.     *)
LEMMA WriterLevels ==
    ASSUME ProcInv, NEW p \in Procs, pc[p][Writer] \notin {"off", "idle"}
    PROVE  /\ depth[p] \in Nat /\ depth[p] > 0
           /\ pc[p][Writer] \in {"link", "advance"} => depth[p] > 1
<1>1. mode[p] \notin {"down", "recovering"} /\ LinkLevels(p) \in Nat
    BY Facts DEF ProcInv, Threads, ThreadsOf, LinkLevels
<1>2. depth[p] = 1 + LinkLevels(p) /\ depth[p] \in Nat
    BY <1>1 DEF ProcInv, ProcTypes, Levels, LevelsOf
<1>3. pc[p][Writer] \in {"link", "advance"} => LinkLevels(p) > 0
    BY DEF LinkLevels
<1>4. QED
    BY <1>1, <1>2, <1>3

(* A step of the writer that keeps its job, changing its levels of the    *)
(* lock or its hold on the slot.                                          *)
LEMMA WriterMove ==
    ASSUME ProcInv, NEW p \in Procs, NEW step \in WriteSteps \ {"off", "idle"},
           Goes(p, Writer, step), UNCHANGED <<mode, manual, held>>,
           pc[p][Writer] \notin {"off", "idle"},
           NEW owner \in {"free", "writer"}, owner = "writer" <=> step \in {"read"} \cup PassSteps,
           slot[p] # "manual", slot' = [slot EXCEPT ![p] = owner],
           NEW levels \in Nat, depth' = [depth EXCEPT ![p] = levels],
           levels + IsLink(pc[p][Writer]) = depth[p] + IsLink(step)
    PROVE  ThreadMoves(p, Writer, step)
<1>1. depth[p] > 0 /\ held[p][Writer] \in Jobs
    BY WriterLevels, AtWork, Facts
<1>2. /\ slot' \in [Procs -> {"free", "writer", "manual"}] /\ slot'[p] = owner
      /\ \A q \in Procs : q # p => slot'[q] = slot[q]
    BY DEF ProcInv, ProcTypes
<1>3. /\ depth' \in [Procs -> Nat] /\ depth'[p] = levels
      /\ \A q \in Procs : q # p => depth'[q] = depth[q]
    BY DEF ProcInv, ProcTypes
<1>4. held' \in [Procs -> [Workers -> Jobs \cup {NoJob}]] /\ held'[p][Writer] # NoJob
    BY <1>1, Facts DEF ProcInv, ProcTypes
<1>5. QED
    BY <1>1, <1>2, <1>3, <1>4, Facts DEF ThreadMoves

LEMMA SlotIsWriters ==
    ASSUME ProcInv, NEW p \in Procs, pc[p][Writer] \in {"read"} \cup PassSteps
    PROVE  /\ slot[p] = "writer" /\ slot = [slot EXCEPT ![p] = "writer"]
           /\ depth = [depth EXCEPT ![p] = depth[p]]
BY DEF ProcInv, ProcTypes, Threads, SlotOf

LEMMA TakeSlotProc ==
    ASSUME ProcInv, NEW p \in Procs, TakeSlot(p)
    PROVE  ProcInv'
<1>1. /\ pc[p][Writer] = "slot" /\ slot[p] = "free" /\ Goes(p, Writer, "read")
      /\ slot' = [slot EXCEPT ![p] = "writer"] /\ UNCHANGED <<status, lost, mode, depth, manual, held>>
    BY DEF TakeSlot, tableVars
<1>2. depth[p] \in Nat /\ depth' = [depth EXCEPT ![p] = depth[p]]
    BY <1>1 DEF ProcInv, ProcTypes
<1>3. ThreadMoves(p, Writer, "read")
    BY <1>1, <1>2, WriterMove DEF IsLink, WriteSteps, PassSteps
<1>4. QED
    BY <1>1, <1>3, QuietProc, Facts

LEMMA BusyProc ==
    ASSUME ProcInv, NEW p \in Procs, Busy(p)
    PROVE  ProcInv'
<1>1. /\ pc[p][Writer] = "slot" /\ UNCHANGED <<mode, depth, slot, manual, lost>>
      /\ ReleaseRow(held[p][Writer], "staged") /\ Rests(p, Writer)
    BY DEF Busy, procVars
<1>2. held[p][Writer] \in Jobs
    BY <1>1, AtWork, Facts
<1>3. RowMoves(held[p][Writer], {"staged"})
    BY <1>1, <1>2 DEF ReleaseRow, RowMoves, ProcInv, ProcTypes, Statuses, Live
<1>4. PICK step : ThreadMoves(p, Writer, step)
    BY <1>1, RestMove, Facts DEF PassSteps
<1>5. QED
    BY <1>1, <1>3, <1>4, SettleProc, Facts

LEMMA ReadProc ==
    ASSUME ProcInv, NEW p \in Procs, ReadStaging(p)
    PROVE  ProcInv'
<1>1. /\ pc[p][Writer] = "read" /\ Goes(p, Writer, "link")
      /\ depth' = [depth EXCEPT ![p] = depth[p] + 1] /\ UNCHANGED <<status, lost, mode, slot, manual, held>>
    BY DEF ReadStaging, tableVars
<1>2. slot[p] = "writer" /\ slot' = [slot EXCEPT ![p] = "writer"] /\ depth[p] \in Nat
    BY <1>1, SlotIsWriters, WriterLevels
<1> DEFINE levels == depth[p] + 1
<1>3. levels \in Nat /\ levels + IsLink(pc[p][Writer]) = depth[p] + IsLink("link")
    BY <1>1, <1>2 DEF IsLink
<1> HIDE DEF levels
<1>4. "link" \in WriteSteps \ {"off", "idle"} /\ "link" \in {"read"} \cup PassSteps
    BY DEF WriteSteps, PassSteps
<1>5. ThreadMoves(p, Writer, "link")
    BY <1>1, <1>2, <1>3, <1>4, WriterMove DEF levels
<1>6. QED
    BY <1>1, <1>5, QuietProc, Facts

(* The pass ends, well or not, and gives its level back.                  *)
LEMMA PassEndsProc ==
    ASSUME ProcInv, NEW p \in Procs,
           EndOfPass(p) \/ \E failure \in {"failNow", "failGood"} : PassRaises(p, failure)
    PROVE  ProcInv'
<1>1. PICK step \in {"check", "failNow", "failGood"}, owner \in {"free", "writer"} :
          /\ pc[p][Writer] \in {"link", "advance"} /\ Goes(p, Writer, step)
          /\ owner = "writer" <=> step = "check"
          /\ owner = "writer" => slot' = slot
          /\ owner = "free" => slot' = [slot EXCEPT ![p] = "free"]
          /\ depth' = [depth EXCEPT ![p] = depth[p] - 1]
          /\ UNCHANGED <<status, lost, mode, manual, held>>
    <2>1. CASE EndOfPass(p)
        BY <2>1 DEF EndOfPass, tableVars
    <2>2. ASSUME NEW failure \in {"failNow", "failGood"}, PassRaises(p, failure)
          PROVE  /\ pc[p][Writer] \in {"link", "advance"} /\ Goes(p, Writer, failure)
                 /\ slot' = [slot EXCEPT ![p] = "free"]
                 /\ depth' = [depth EXCEPT ![p] = depth[p] - 1]
                 /\ UNCHANGED <<status, lost, mode, manual, held>>
        BY <2>2 DEF PassRaises, LeavesSlot, tableVars
    <2>3. QED
        BY <2>1, <2>2
<1>2. slot[p] = "writer" /\ slot' = [slot EXCEPT ![p] = owner]
    BY <1>1, SlotIsWriters DEF PassSteps
<1> DEFINE levels == depth[p] - 1
<1>3. levels \in Nat /\ levels + IsLink(pc[p][Writer]) = depth[p] + IsLink(step)
    BY <1>1, WriterLevels DEF IsLink
<1> HIDE DEF levels
<1>4. /\ step \in WriteSteps \ {"off", "idle"}
      /\ owner = "writer" <=> step \in {"read"} \cup PassSteps
    BY <1>1 DEF WriteSteps, PassSteps
<1>5. ThreadMoves(p, Writer, step)
    BY <1>1, <1>2, <1>3, <1>4, WriterMove DEF levels
<1>6. QED
    BY <1>1, <1>5, QuietProc, Facts

(* Steps that give only the slot back.                                    *)
LEMMA LeaveProc ==
    ASSUME ProcInv, NEW p \in Procs, StagingMissing(p) \/ CheckRefuses(p) \/ UnlinkCursor(p)
    PROVE  ProcInv'
<1>1. PICK step \in {"failNow", "finish"} :
          /\ pc[p][Writer] \in {"read", "check", "uncursor"} /\ Goes(p, Writer, step)
          /\ slot' = [slot EXCEPT ![p] = "free"]
          /\ UNCHANGED <<status, lost, mode, depth, manual, held>>
    BY DEF StagingMissing, CheckRefuses, UnlinkCursor, LeavesSlot, tableVars
<1>2. /\ slot[p] = "writer" /\ depth[p] \in Nat /\ depth' = [depth EXCEPT ![p] = depth[p]]
    BY <1>1, SlotIsWriters, WriterLevels DEF PassSteps
<1>3. ThreadMoves(p, Writer, step)
    BY <1>1, <1>2, WriterMove DEF IsLink, WriteSteps, PassSteps
<1>4. QED
    BY <1>1, <1>3, QuietProc, Facts

(* Steps within the pass.                                                 *)
LEMMA WithinPassProc ==
    ASSUME ProcInv, NEW p \in Procs,
           LinkSource(p) \/ AdvanceCursor(p) \/ Check(p) \/ UnlinkStaging(p)
    PROVE  ProcInv'
<1>1. PICK step \in PassSteps :
          /\ pc[p][Writer] \in PassSteps /\ IsLink(pc[p][Writer]) = IsLink(step)
          /\ Goes(p, Writer, step) /\ UNCHANGED <<status, lost, mode, depth, slot, manual, held>>
    BY DEF LinkSource, AdvanceCursor, Check, UnlinkStaging, procVars, tableVars, PassSteps, IsLink
<1>2. ThreadMoves(p, Writer, step)
    BY <1>1, KeepMove, Facts DEF WriteSteps, PassSteps
<1>3. QED
    BY <1>1, <1>2, QuietProc, Facts DEF PassSteps

LEMMA FinishProc ==
    ASSUME ProcInv, NEW p \in Procs, Finish(p)
    PROVE  ProcInv'
<1>1. PICK outcome \in Finished :
          /\ pc[p][Writer] = "finish" /\ FinishRow(held[p][Writer], outcome) /\ Rests(p, Writer)
          /\ UNCHANGED <<mode, depth, slot, manual, lost>>
    BY DEF Finish, procVars
<1>2. held[p][Writer] \in Jobs
    BY <1>1, AtWork, Facts
<1>3. RowMoves(held[p][Writer], {outcome}) /\ outcome # "running"
    BY <1>1, <1>2, FinishEffect DEF ProcInv, ProcTypes, Finished
<1>4. PICK step : ThreadMoves(p, Writer, step)
    BY <1>1, RestMove, Facts DEF PassSteps
<1>5. QED
    BY <1>1, <1>3, <1>4, SettleProc, Facts

(* A write that raises: the row stays running, and is known to be lost.   *)
LEMMA RecordLostProc ==
    ASSUME ProcInv, NEW p \in Procs, NEW w \in Workers, RecordLost(p, w)
    PROVE  ProcInv'
<1>1. /\ pc[p][w] \in {"failNow", "failGood", "finish", "slot"} /\ Rests(p, w)
      /\ lost' = lost \cup {held[p][w]}
      /\ UNCHANGED <<status, mode, depth, slot, manual>>
    BY DEF RecordLost, procVars, tableVars
<1>2. held[p][w] \in Jobs
    BY <1>1, AtWork
<1>3. PICK step : ThreadMoves(p, w, step)
    BY <1>1, RestMove DEF PassSteps
<1>4. QED
    BY <1>1, <1>2, <1>3, ThreadStep DEF ProcInv, ProcTypes

LEMMA FetchStepProc ==
    ASSUME ProcInv, NEW p \in Procs, NEW w \in Fetchers, FetchStep(p, w)
    PROVE  ProcInv'
BY Facts, ClaimProc, ThreadEndsProc, FetchProc, CommitProc, FailProc, RecordLostProc,
   CleanupProc DEF FetchStep

LEMMA WriteStepProc ==
    ASSUME ProcInv, NEW p \in Procs, WriteStep(p)
    PROVE  ProcInv'
BY Facts, ClaimProc, ThreadEndsProc, TakeSlotProc, BusyProc, ReadProc, PassEndsProc, LeaveProc,
   WithinPassProc, FinishProc, FailProc, RecordLostProc, CleanupProc DEF WriteStep

-----------------------------------------------------------------------------
(* What a process does outside its threads.                               *)
LEMMA PostProc ==
    ASSUME ProcInv, NEW p \in Procs, NEW k \in Keys, NEW h \in Hashes \cup {NoHash},
           NEW j \in Jobs, Post(p, k, h, j) \/ Repost(p, k, h, j)
    PROVE  ProcInv'
<1>1. /\ UNCHANGED <<mode, depth, slot, manual, pc, held, lost>>
      /\ status' = status \/ status' = [status EXCEPT ![j] = "queued"]
    BY DEF Post, Repost, Insert, procVars, tableVars
<1>2. status' \in [Jobs -> Statuses] /\ \A i \in Jobs : status'[i] = "running" => status[i] = "running"
    BY <1>1 DEF ProcInv, ProcTypes, Statuses, Live
<1>3. ProcTypes' /\ Levels' /\ LockExcludes' /\ Threads'
    BY <1>1, <1>2 DEF ProcInv, ProcTypes, Levels, LevelsOf, LinkLevels, LockExcludes, Threads,
                      SlotOf, ThreadsOf
<1>4. NoOrphan'
    BY <1>1, <1>2 DEF ProcInv, NoOrphan, Active
<1>5. QED
    BY <1>3, <1>4 DEF ProcInv

(* A manual job takes the slot, then for a phase 2 the lock, and gives    *)
(* both back.                                                             *)
LEMMA ManualProc ==
    ASSUME ProcInv, NEW p \in Procs, NEW job \in {"off", "phase2", "linking", "repair"},
           NEW owner \in {"free", "manual"}, NEW levels \in Nat,
           UNCHANGED <<status, mode, pc, held, lost>>,
           manual' = [manual EXCEPT ![p] = job], slot' = [slot EXCEPT ![p] = owner],
           depth' = [depth EXCEPT ![p] = levels],
           owner = "manual" <=> job # "off", slot[p] # "writer",
           mode[p] \notin {"down", "recovering"},
           levels + (IF manual[p] = "linking" THEN 1 ELSE 0)
               = depth[p] + (IF job = "linking" THEN 1 ELSE 0),
           levels = 0 \/ depth[p] > 0 \/ LockFree(p)
    PROVE  ProcInv'
<1>1. /\ manual' \in [Procs -> {"off", "phase2", "linking", "repair"}]
      /\ slot' \in [Procs -> {"free", "writer", "manual"}]
      /\ depth' \in [Procs -> Nat]
      /\ manual'[p] = job /\ slot'[p] = owner /\ depth'[p] = levels
      /\ \A q \in Procs : q # p =>
             manual'[q] = manual[q] /\ slot'[q] = slot[q] /\ depth'[q] = depth[q]
    BY DEF ProcInv, ProcTypes
<1>2. ProcTypes'
    BY <1>1 DEF ProcInv, ProcTypes
<1>3. Threads'
    BY <1>1 DEF ProcInv, Threads, SlotOf, ThreadsOf
<1>4. Levels'
    <2>1. ASSUME NEW q \in Procs, q # p PROVE LevelsOf(q)'
        BY <1>1, <2>1 DEF ProcInv, Levels, LevelsOf, LinkLevels
    <2>2. LevelsOf(p)'
        <3>1. LinkLevels(p)' + (IF manual[p] = "linking" THEN 1 ELSE 0)
                  = LinkLevels(p) + (IF job = "linking" THEN 1 ELSE 0)
              /\ LinkLevels(p) \in Nat /\ LinkLevels(p)' \in Nat
            <4> DEFINE link == IF pc[p][Writer] \in {"link", "advance"} THEN 1 ELSE 0
            <4>1. /\ LinkLevels(p) = link + (IF manual[p] = "linking" THEN 1 ELSE 0)
                  /\ LinkLevels(p)' = link + (IF job = "linking" THEN 1 ELSE 0)
                BY <1>1 DEF LinkLevels
            <4>2. link \in Nat
                OBVIOUS
            <4> HIDE DEF link
            <4>3. QED
                BY <4>1, <4>2
        <3>2. levels + LinkLevels(p) = depth[p] + LinkLevels(p)' /\ depth[p] \in Nat
            <4> DEFINE was == IF manual[p] = "linking" THEN 1 ELSE 0
                       is == IF job = "linking" THEN 1 ELSE 0
            <4>1. depth[p] \in Nat /\ was \in Nat /\ is \in Nat
                BY DEF ProcInv, ProcTypes
            <4>2. levels + was = depth[p] + is /\ LinkLevels(p)' + was = LinkLevels(p) + is
                BY <3>1
            <4> HIDE DEF was, is
            <4>3. QED
                BY <3>1, <4>1, <4>2
        <3>3. \/ depth[p] = 1 + LinkLevels(p)
              \/ mode[p] = "stopped" /\ depth[p] = LinkLevels(p) /\ pc[p][Writer] = "off"
            BY DEF ProcInv, ProcTypes, Levels, LevelsOf
        <3>4. \/ levels = 1 + LinkLevels(p)'
              \/ mode[p] = "stopped" /\ levels = LinkLevels(p)' /\ pc[p][Writer] = "off"
            BY <3>1, <3>2, <3>3
        <3>5. QED
            BY <1>1, <3>4 DEF LevelsOf
    <2>3. QED
        BY <2>1, <2>2 DEF Levels
<1>5. LockExcludes'
    <2>1. ASSUME NEW q \in Procs, q # p PROVE depth'[p] = 0 \/ depth'[q] = 0
        <3>1. depth[p] > 0 => depth[q] = 0
            BY <2>1 DEF ProcInv, ProcTypes, LockExcludes
        <3>2. QED
            BY <1>1, <2>1, <3>1 DEF LockFree
    <2>2. QED
        BY <1>1, <2>1 DEF ProcInv, LockExcludes
<1>6. NoOrphan'
    BY DEF ProcInv, NoOrphan, Active
<1>7. QED
    BY <1>2, <1>3, <1>4, <1>5, <1>6 DEF ProcInv

LEMMA StartManualProc ==
    ASSUME ProcInv, NEW p \in Procs, NEW kind \in {"phase2", "repair"}, StartManual(p, kind)
    PROVE  ProcInv'
<1>1. /\ mode[p] = "up" /\ slot[p] = "free" /\ slot' = [slot EXCEPT ![p] = "manual"]
      /\ manual' = [manual EXCEPT ![p] = kind]
      /\ UNCHANGED <<status, mode, depth, pc, held, lost>>
    BY DEF StartManual, tableVars
<1>2. /\ manual[p] = "off" /\ depth' = [depth EXCEPT ![p] = depth[p]]
      /\ depth[p] \in Nat /\ (depth[p] = 0 \/ depth[p] > 0)
    BY <1>1 DEF ProcInv, ProcTypes, Threads, SlotOf
<1>3. QED
    BY <1>1, <1>2, ManualProc

LEMMA ManualStepProc ==
    ASSUME ProcInv, NEW p \in Procs, ManualStep(p)
    PROVE  ProcInv'
<1>1. /\ depth[p] \in Nat /\ slot[p] \in {"free", "writer", "manual"}
      /\ depth = [depth EXCEPT ![p] = depth[p]] /\ slot = [slot EXCEPT ![p] = slot[p]]
      /\ manual[p] # "off" => slot[p] = "manual" /\ mode[p] \notin {"down", "recovering"}
    BY DEF ProcInv, ProcTypes, Threads, SlotOf, ThreadsOf
<1>2. CASE ManualPhase2(p)
    <2>1. /\ manual[p] = "phase2"
          /\ depth[p] > 0 \/ LockFree(p)
          /\ depth' = [depth EXCEPT ![p] = depth[p] + 1]
          /\ manual' = [manual EXCEPT ![p] = "linking"]
          /\ UNCHANGED <<status, mode, slot, pc, held, lost>>
        BY <1>2 DEF ManualPhase2, tableVars
    <2> DEFINE levels == depth[p] + 1
    <2>2. levels \in Nat /\ levels + 0 = depth[p] + 1
        BY <1>1
    <2> HIDE DEF levels
    <2>3. depth' = [depth EXCEPT ![p] = levels]
        BY <2>1 DEF levels
    <2>4. slot' = [slot EXCEPT ![p] = "manual"] /\ mode[p] \notin {"down", "recovering"}
        BY <1>1, <2>1
    <2>5. QED
        BY <1>1, <2>1, <2>2, <2>3, <2>4, ManualProc
<1>3. CASE EndManual(p)
    <2> DEFINE levels == IF manual[p] = "linking" THEN depth[p] - 1 ELSE depth[p]
    <2>1. /\ manual[p] # "off" /\ manual' = [manual EXCEPT ![p] = "off"]
          /\ slot' = [slot EXCEPT ![p] = "free"] /\ UNCHANGED <<status, mode, pc, held, lost>>
          /\ depth' = [depth EXCEPT ![p] = levels]
        BY <1>1, <1>3 DEF EndManual, tableVars
    <2>2. manual[p] = "linking" => depth[p] > 0
        <3>1. manual[p] = "linking" => LinkLevels(p) \in Nat /\ LinkLevels(p) > 0
            BY DEF LinkLevels
        <3>2. manual[p] = "linking" => mode[p] \in {"up", "stopping", "stopped"}
            BY DEF ProcInv, ProcTypes, Threads, ThreadsOf
        <3>3. QED
            BY <1>1, <3>1, <3>2 DEF ProcInv, Levels, LevelsOf
    <2>3. /\ levels \in Nat /\ (levels = 0 \/ depth[p] > 0)
          /\ levels + (IF manual[p] = "linking" THEN 1 ELSE 0) = depth[p] + 0
        BY <1>1, <2>2
    <2> HIDE DEF levels
    <2>4. QED
        BY <1>1, <2>1, <2>3, ManualProc
<1>4. QED
    BY <1>2, <1>3 DEF ManualStep

(* The process starts, recovers, serves, stops and is gone.               *)
LEMMA StartProc ==
    ASSUME ProcInv, NEW p \in Procs, Start(p)
    PROVE  ProcInv'
<1>1. /\ mode[p] = "down" /\ LockFree(p) /\ depth' = [depth EXCEPT ![p] = 1]
      /\ mode' = [mode EXCEPT ![p] = "recovering"]
      /\ UNCHANGED <<status, slot, manual, pc, held, lost>>
    BY DEF Start, tableVars
<1>2. /\ mode' \in [Procs -> {"down", "recovering", "up", "stopping", "stopped"}]
      /\ depth' \in [Procs -> Nat]
      /\ depth'[p] = 1 /\ mode'[p] = "recovering"
      /\ \A q \in Procs : q # p => depth'[q] = depth[q] /\ mode'[q] = mode[q]
    BY <1>1 DEF ProcInv, ProcTypes
<1>3. ProcTypes' /\ Threads' /\ NoOrphan'
    BY <1>1, <1>2 DEF ProcInv, ProcTypes, Threads, SlotOf, ThreadsOf, NoOrphan, Active
<1>4. Levels'
    <2>1. ASSUME NEW q \in Procs, q # p PROVE LevelsOf(q)'
        BY <1>1, <1>2, <2>1 DEF ProcInv, Levels, LevelsOf, LinkLevels
    <2>2. LinkLevels(p)' = 0
        BY <1>1, Facts DEF ProcInv, Threads, ThreadsOf, LinkLevels
    <2>3. QED
        BY <1>2, <2>1, <2>2 DEF Levels, LevelsOf
<1>5. LockExcludes'
    BY <1>1, <1>2 DEF ProcInv, LockExcludes, LockFree
<1>6. QED
    BY <1>3, <1>4, <1>5 DEF ProcInv

LEMMA RecoverProc ==
    ASSUME ProcInv, NEW p \in Procs, NEW j \in Jobs, Recover(p, j)
    PROVE  ProcInv'
<1>1. /\ status[j] = "running" /\ RetryRow(j, CameFrom(j))
      /\ UNCHANGED <<mode, depth, slot, manual, pc, held>> /\ mode[p] = "recovering"
      /\ lost' = lost \ {j} /\ depth[p] > 0
    BY DEF Recover, RecoverRow, procVars, ProcInv, Levels, LevelsOf, LinkLevels
<1>2. /\ status' \in [Jobs -> Statuses]
      /\ \A i \in Jobs : status'[i] = "running" => status[i] = "running"
    BY <1>1, RetryEffect DEF ProcInv, ProcTypes, RowMoves, CameFrom
<1>3. ProcTypes' /\ Levels' /\ LockExcludes' /\ Threads'
    BY <1>1, <1>2 DEF ProcInv, ProcTypes, Levels, LevelsOf, LinkLevels, LockExcludes, Threads,
                      SlotOf, ThreadsOf
<1>4. NoOrphan'
    <2>1. \A q \in Procs : mode[q] # "up"
        BY <1>1 DEF ProcInv, LockExcludes, Levels, LevelsOf, LinkLevels
    <2>2. QED
        BY <1>1, <2>1 DEF NoOrphan
<1>5. QED
    BY <1>3, <1>4 DEF ProcInv

LEMMA StartThreadsProc ==
    ASSUME ProcInv, NEW p \in Procs, StartThreads(p)
    PROVE  ProcInv'
<1>1. /\ mode[p] = "recovering" /\ mode' = [mode EXCEPT ![p] = "up"]
      /\ pc' = [pc EXCEPT ![p] = [w \in Workers |-> "idle"]]
      /\ UNCHANGED <<status, depth, slot, manual, held, lost>>
      /\ \A j \in Jobs : status[j] # "running"
    BY DEF StartThreads, tableVars, JobsIn
<1>2. /\ mode' \in [Procs -> {"down", "recovering", "up", "stopping", "stopped"}]
      /\ mode'[p] = "up" /\ \A q \in Procs : q # p => mode'[q] = mode[q] /\ pc'[q] = pc[q]
      /\ \A w \in Workers : pc'[p][w] = "idle" /\ held[p][w] = NoJob /\ pc[p][w] = "off"
      /\ pc' \in [Procs -> [Workers -> FetchSteps \cup WriteSteps]]
    BY <1>1 DEF ProcInv, ProcTypes, Threads, ThreadsOf, FetchSteps
<1>3. ProcTypes'
    <2>1. \A q \in Procs : /\ pc'[q][Writer] \in WriteSteps
                           /\ \A w \in Fetchers : pc'[q][w] \in FetchSteps
        BY <1>2, Facts DEF ProcInv, ProcTypes, WriteSteps, FetchSteps
    <2>2. QED
        BY <1>1, <1>2, <2>1 DEF ProcInv, ProcTypes
<1>4. Threads'
    BY <1>1, <1>2, Facts DEF ProcInv, Threads, SlotOf, ThreadsOf, PassSteps
<1>5. Levels'
    <2>1. ASSUME NEW q \in Procs, q # p PROVE LevelsOf(q)'
        BY <1>1, <1>2, <2>1 DEF ProcInv, Levels, LevelsOf, LinkLevels
    <2>2. LevelsOf(p)'
        BY <1>1, <1>2, Facts DEF ProcInv, Levels, LevelsOf, LinkLevels
    <2>3. QED
        BY <2>1, <2>2 DEF Levels
<1>6. LockExcludes' /\ NoOrphan'
    BY <1>1 DEF ProcInv, LockExcludes, NoOrphan
<1>7. QED
    BY <1>3, <1>4, <1>5, <1>6 DEF ProcInv

LEMMA StopProc ==
    ASSUME ProcInv, NEW p \in Procs, Stop(p) \/ StopReturns(p)
    PROVE  ProcInv'
<1>1. PICK to \in {"stopping", "stopped"}, levels \in {depth[p], depth[p] - 1} :
          /\ mode[p] \in {"up", "stopping"} /\ mode' = [mode EXCEPT ![p] = to]
          /\ depth' = [depth EXCEPT ![p] = levels]
          /\ levels # depth[p] => to = "stopped" /\ pc[p][Writer] = "off"
          /\ UNCHANGED <<status, slot, manual, pc, held, lost>>
    <2>1. depth = [depth EXCEPT ![p] = depth[p]]
        BY DEF ProcInv, ProcTypes
    <2>2. QED
        BY <2>1 DEF Stop, StopReturns, tableVars
<1>2. depth[p] = 1 + LinkLevels(p) /\ LinkLevels(p) \in Nat /\ depth[p] \in Nat
    BY <1>1 DEF ProcInv, ProcTypes, Levels, LevelsOf, LinkLevels
<1>3. /\ levels \in Nat
      /\ levels = 1 + LinkLevels(p) \/ levels = LinkLevels(p)
      /\ levels > 0 => depth[p] > 0
    BY <1>1, <1>2
<1>4. /\ mode' \in [Procs -> {"down", "recovering", "up", "stopping", "stopped"}]
      /\ depth' \in [Procs -> Nat]
      /\ depth'[p] = levels /\ mode'[p] = to
      /\ \A q \in Procs : q # p => depth'[q] = depth[q] /\ mode'[q] = mode[q]
    <2>1. mode' = [mode EXCEPT ![p] = to] /\ depth' = [depth EXCEPT ![p] = levels]
        BY <1>1
    <2>2. levels \in Nat
        BY <1>3
    <2>3. QED
        BY <2>1, <2>2 DEF ProcInv, ProcTypes
<1>5. ProcTypes' /\ Threads' /\ NoOrphan'
    BY <1>1, <1>4 DEF ProcInv, ProcTypes, Threads, SlotOf, ThreadsOf, NoOrphan, Active
<1>6. Levels'
    <2>1. ASSUME NEW q \in Procs, q # p PROVE LevelsOf(q)'
        BY <1>1, <1>4, <2>1 DEF ProcInv, Levels, LevelsOf, LinkLevels
    <2>2. LinkLevels(p)' = LinkLevels(p)
        BY <1>1 DEF LinkLevels
    <2>3. LevelsOf(p)'
        BY <1>1, <1>2, <1>3, <1>4, <2>2 DEF LevelsOf
    <2>4. QED
        BY <2>1, <2>3 DEF Levels
<1>7. LockExcludes'
    <2>1. \A q \in Procs : depth'[q] # 0 => depth[q] # 0
        BY <1>2, <1>3, <1>4
    <2>2. QED
        BY <2>1 DEF ProcInv, LockExcludes
<1>8. QED
    BY <1>5, <1>6, <1>7 DEF ProcInv

LEMMA GoneProc ==
    ASSUME ProcInv, NEW p \in Procs, Gone(p)
    PROVE  ProcInv'
<1>1. /\ mode' = [mode EXCEPT ![p] = "down"] /\ depth' = [depth EXCEPT ![p] = 0]
      /\ slot' = [slot EXCEPT ![p] = "free"] /\ manual' = [manual EXCEPT ![p] = "off"]
      /\ pc' = [pc EXCEPT ![p] = [w \in Workers |-> "off"]]
      /\ held' = [held EXCEPT ![p] = [w \in Workers |-> NoJob]] 
      /\ UNCHANGED <<status, lost>>
    BY DEF Gone, tableVars
<1>2. /\ mode'[p] = "down" /\ depth'[p] = 0 /\ slot'[p] = "free" /\ manual'[p] = "off"
      /\ \A w \in Workers : pc'[p][w] = "off" /\ held'[p][w] = NoJob
      /\ \A q \in Procs : q # p =>
             /\ mode'[q] = mode[q] /\ depth'[q] = depth[q] /\ slot'[q] = slot[q]
             /\ manual'[q] = manual[q] /\ pc'[q] = pc[q] /\ held'[q] = held[q]
    BY <1>1 DEF ProcInv, ProcTypes
<1>3. ProcTypes'
    <2>1. /\ pc' \in [Procs -> [Workers -> FetchSteps \cup WriteSteps]]
          /\ held' \in [Procs -> [Workers -> Jobs \cup {NoJob}]]
        BY <1>1 DEF ProcInv, ProcTypes, FetchSteps
    <2>2. \A q \in Procs : /\ pc'[q][Writer] \in WriteSteps
                           /\ \A w \in Fetchers : pc'[q][w] \in FetchSteps
        BY <1>2, Facts DEF ProcInv, ProcTypes, WriteSteps, FetchSteps
    <2>3. QED
        BY <1>1, <2>1, <2>2 DEF ProcInv, ProcTypes
<1>4. Threads'
    <2>1. ASSUME NEW q \in Procs, q # p PROVE SlotOf(q)' /\ ThreadsOf(q)'
        BY <1>2, <2>1 DEF ProcInv, Threads, SlotOf, ThreadsOf
    <2>2. SlotOf(p)' /\ ThreadsOf(p)'
        BY <1>2, Facts DEF SlotOf, ThreadsOf, PassSteps
    <2>3. QED
        BY <2>1, <2>2 DEF Threads
<1>5. Levels'
    <2>1. ASSUME NEW q \in Procs, q # p PROVE LevelsOf(q)'
        BY <1>2, <2>1 DEF ProcInv, Levels, LevelsOf, LinkLevels
    <2>2. LevelsOf(p)'
        BY <1>2 DEF LevelsOf
    <2>3. QED
        BY <2>1, <2>2 DEF Levels
<1>6. LockExcludes'
    BY <1>2 DEF ProcInv, LockExcludes
<1>7. NoOrphan'
    BY <1>1, <1>2 DEF ProcInv, NoOrphan, Active
<1>8. QED
    BY <1>3, <1>4, <1>5, <1>6, <1>7 DEF ProcInv

LEMMA ProcInvStep == ProcInv /\ [Next]_vars => ProcInv'
<1> SUFFICES ASSUME ProcInv, [Next]_vars PROVE ProcInv'
    OBVIOUS
<1>1. CASE UNCHANGED vars
    <2>1. UNCHANGED <<status, mode, depth, slot, manual, pc, held, lost>>
        BY <1>1 DEF vars, tableVars, procVars
    <2>2. QED
        BY <2>1 DEF ProcInv, ProcTypes, Levels, LevelsOf, LinkLevels, LockExcludes, Threads, SlotOf,
                    ThreadsOf, NoOrphan, Active
<1>2. CASE Next
    <2> SUFFICES ASSUME NEW p \in Procs,
                        \/ \E k \in Keys, h \in Hashes \cup {NoHash}, j \in Jobs :
                               Post(p, k, h, j) \/ Repost(p, k, h, j)
                        \/ \E w \in Fetchers : FetchStep(p, w)
                        \/ WriteStep(p) \/ ManualStep(p)
                        \/ \E kind \in {"phase2", "repair"} : StartManual(p, kind)
                        \/ Boot(p) \/ Stop(p) \/ StopReturns(p) \/ Exit(p) \/ Crash(p)
                 PROVE  ProcInv'
        BY <1>2 DEF Next
    <2>1. QED
        BY PostProc, FetchStepProc, WriteStepProc, ManualStepProc, StartManualProc, StartProc,
           RecoverProc, StartThreadsProc, StopProc, GoneProc DEF Boot, Exit, Crash
<1>3. QED
    BY <1>1, <1>2

LEMMA ProcInvInit == Init => ProcInv
<1> SUFFICES ASSUME Init PROVE ProcInv
    OBVIOUS
<1> USE DEF Init, TableInit
<1>1. ProcTypes
    BY Facts DEF ProcTypes, FetchSteps, WriteSteps, Statuses
<1>2. Levels /\ LockExcludes
    BY Facts DEF Levels, LevelsOf, LockExcludes
<1>3. Threads
    BY Facts DEF Threads, SlotOf, ThreadsOf, PassSteps
<1>4. NoOrphan
    BY DEF NoOrphan
<1>5. QED
    BY <1>1, <1>2, <1>3, <1>4 DEF ProcInv

(* Lock, slot and threads stay in step, in every process.                 *)
THEOREM ProcessesInStep == Spec => []ProcInv
<1>1. QED
    BY ProcInvInit, ProcInvStep, PTL DEF Spec

(* Any number of processes, threads and jobs: at most one pass anywhere   *)
(* is linking.                                                            *)
THEOREM OnePass == Spec => []PhaseTwoExclusive
<1>1. ProcInv => PhaseTwoExclusive
    <2> SUFFICES ASSUME ProcInv, NEW p \in Procs, NEW q \in Procs, Linking(p) # {}, Linking(q) # {}
                 PROVE  p = q /\ Cardinality(Linking(p)) = 1
        BY DEF PhaseTwoExclusive
    <2>1. ASSUME NEW r \in Procs, Linking(r) # {} PROVE depth[r] # 0
        <3>1. LinkLevels(r) \in Nat /\ LinkLevels(r) > 0
            BY <2>1 DEF Linking, LinkLevels
        <3>2. mode[r] \notin {"down", "recovering"}
            BY <2>1, Facts DEF ProcInv, Threads, ThreadsOf, Linking
        <3>3. QED
            BY <3>1, <3>2 DEF ProcInv, ProcTypes, Levels, LevelsOf
    <2>2. p = q
        BY <2>1 DEF ProcInv, LockExcludes
    <2>3. \E x : Linking(p) = {x}
        BY DEF ProcInv, Threads, SlotOf, Linking, PassSteps
    <2>4. QED
        BY <2>2, <2>3, FS_Singleton
<1>2. QED
    BY <1>1, ProcessesInStep, PTL

(* Whatever processes come, go and overlap, a row that reads "running" in *)
(* a served queue is in the hands of a thread that has yet to settle it,  *)
(* unless the write that was to settle it raised.                         *)
THEOREM RunningRowsAreHeld == Spec => []RunningIsHeld
<1>1. ProcInv => RunningIsHeld
    BY DEF ProcInv, NoOrphan, RunningIsHeld, JobsIn
<1>2. QED
    BY <1>1, ProcessesInStep, PTL

-----------------------------------------------------------------------------
(* The same promise, kept by what the workers count of the lock.          *)
Shared == INSTANCE WriterMutex WITH writers <- {p \in Procs : depth[p] > 0}

(* A step leaves the levels of every process but one, and that one counts *)
(* its first only while nobody else has any.                              *)
DepthMove(p) ==
    /\ \A q \in Procs \ {p} : depth'[q] = depth[q]
    /\ depth'[p] > 0 => depth[p] > 0 \/ LockFree(p)

LEMMA DepthStep ==
    ASSUME ProcInv, NEW p \in Procs,
           \/ \E k \in Keys, h \in Hashes \cup {NoHash}, j \in Jobs :
                  Post(p, k, h, j) \/ Repost(p, k, h, j)
           \/ \E w \in Fetchers : FetchStep(p, w)
           \/ WriteStep(p) \/ ManualStep(p)
           \/ \E kind \in {"phase2", "repair"} : StartManual(p, kind)
           \/ Boot(p) \/ Stop(p) \/ StopReturns(p) \/ Exit(p) \/ Crash(p)
    PROVE  DepthMove(p)
<1>1. depth \in [Procs -> Nat]
    BY DEF ProcInv, ProcTypes
<1>2. ASSUME depth' = depth PROVE DepthMove(p)
    BY <1>1, <1>2 DEF DepthMove
<1>3. ASSUME NEW k \in Keys, NEW h \in Hashes \cup {NoHash}, NEW j \in Jobs,
             Post(p, k, h, j) \/ Repost(p, k, h, j)
      PROVE  DepthMove(p)
    BY <1>2, <1>3 DEF Post, Repost, procVars
<1>4. ASSUME NEW w \in Fetchers, FetchStep(p, w) PROVE DepthMove(p)
    BY <1>2, <1>4 DEF FetchStep, Claim, ThreadEnds, DropStaging, Convert, ConvertRaises,
       Commit, CommitRaises, Fail, RecordLost, Cleanup, procVars
<1>5. CASE WriteStep(p)
    <2>1. CASE ReadStaging(p)
        BY <1>1, <2>1 DEF ReadStaging, DepthMove
    <2>2. CASE EndOfPass(p) \/ \E failure \in {"failNow", "failGood"} : PassRaises(p, failure)
        BY <1>1, <2>2 DEF EndOfPass, PassRaises, DepthMove
    <2>3. QED
        BY <1>2, <1>5, <2>1, <2>2 DEF WriteStep, Claim, ThreadEnds, TakeSlot, Busy, StagingMissing,
           LinkSource, AdvanceCursor, Check, CheckRefuses, UnlinkStaging, UnlinkCursor, Finish,
           Fail, RecordLost, Cleanup, procVars
<1>6. CASE ManualStep(p) \/ Stop(p) \/ StopReturns(p)
           \/ \E kind \in {"phase2", "repair"} : StartManual(p, kind)
    BY <1>1, <1>6 DEF ManualStep, ManualPhase2, EndManual, Stop, StopReturns, StartManual, DepthMove
<1>7. CASE Boot(p) \/ Exit(p) \/ Crash(p)
    BY <1>1, <1>7 DEF Boot, Start, StartThreads, Recover, Exit, Crash, Gone, procVars, DepthMove
<1>8. QED
    BY <1>3, <1>4, <1>5, <1>6, <1>7

(* Workers, manual passes and processes that come, go and overlap use the *)
(* lake as the mutex says: the levels they count are one writer's.        *)
THEOREM WorkersShareTheMutex == Spec => Shared!Spec
<1>1. Init => Shared!Init
    BY DEF Init, Shared!Init
<1>2. ProcInv /\ ProcInv' /\ [Next]_vars => [Shared!Next]_({p \in Procs : depth[p] > 0})
    <2> DEFINE W == {p \in Procs : depth[p] > 0}
    <2> SUFFICES ASSUME ProcInv, ProcInv', [Next]_vars
                 PROVE  (\E p \in Procs : \/ W = {} /\ W' = {p}
                                          \/ W = {p} /\ W' = {}) \/ W' = W
        BY DEF Shared!Next, Shared!Enter, Shared!Leave
    <2>1. CASE UNCHANGED vars
        BY <2>1 DEF vars, procVars
    <2>2. ASSUME NEW p \in Procs, DepthMove(p)
          PROVE  \/ W = {} /\ W' = {p}
                 \/ W = {p} /\ W' = {}
                 \/ W' = W
        <3>1. /\ \A q \in Procs : depth[q] \in Nat /\ depth'[q] \in Nat
              /\ \A q, r \in Procs : q # r => depth[q] = 0 \/ depth[r] = 0
              /\ \A q \in Procs \ {p} : depth'[q] = depth[q]
              /\ depth'[p] > 0 => depth[p] > 0 \/ \A q \in Procs \ {p} : depth[q] = 0
            BY <2>2 DEF DepthMove, LockFree, ProcInv, ProcTypes, LockExcludes
        <3>2. CASE depth[p] > 0
            <4>1. W = {p}
                BY <3>1, <3>2
            <4>2. W' = {} \/ W' = {p}
                BY <3>1, <3>2
            <4>3. QED
                BY <4>1, <4>2
        <3>3. CASE ~(depth[p] > 0) /\ depth'[p] > 0
            <4>1. \A q \in Procs : ~(depth[q] > 0)
                BY <3>1, <3>3
            <4>2. W = {} /\ W' = {p}
                BY <3>1, <3>3, <4>1
            <4>3. QED
                BY <4>2
        <3>4. CASE ~(depth[p] > 0) /\ ~(depth'[p] > 0)
            BY <3>1, <3>4
        <3>5. QED
            BY <3>2, <3>3, <3>4
    <2>3. QED
        BY <2>1, <2>2, DepthStep DEF Next
<1>3. QED
    BY <1>1, <1>2, ProcessesInStep, PTL DEF Spec, Shared!Spec

-----------------------------------------------------------------------------
(* JobInv.  First what a job's row, a thread's hands and a pass depend on.*)
LEMMA WorkFacts ==
    ASSUME JobInv, NEW j \in Jobs, status[j] # "unborn"
    PROVE  /\ <<key[j], hash[j]>> \in Posts
           /\ key[j] \in Keys /\ hash[j] \in Hashes \cup {NoHash}
           /\ Work(j) \in Seq(Sources) /\ Len(Work(j)) \in Nat /\ Len(Work(j)) > 0
           /\ Work(j) # NoFile /\ Work(j) \in Files
           /\ \A i \in 1..Len(Work(j)) : Work(j)[i] \in Sources
           /\ KindOf(j) \in Kinds /\ "fetch" \in Kinds /\ "run" \in Kinds
<1>1. <<key[j], hash[j]>> \in Posts
    BY DEF JobInv, JobsInOrder, JobOf
<1>2. key[j] \in Keys /\ hash[j] \in Hashes \cup {NoHash}
    BY <1>1, WorkersAssumption
<1>3. Work(j) \in Seq(Sources) /\ Len(Work(j)) > 0 /\ Work(j) # NoFile /\ Work(j) \in Files
    BY <1>1, WorkersAssumption DEF Work, Files
<1>4. Len(Work(j)) \in Nat /\ \A i \in 1..Len(Work(j)) : Work(j)[i] \in Sources
    BY <1>3
<1>5. QED
    BY <1>1, <1>2, <1>3, <1>4 DEF KindOf, Kinds

LEMMA JobFrame ==
    ASSUME NEW i \in Jobs, JobOf(i),
           \/ status'[i] = status[i]
           \/ status[i] \in Finished /\ status'[i] = "pruned",
           stage'[i] = stage[i], attempts'[i] = attempts[i],
           key'[i] = key[i], hash'[i] = hash[i],
           status[i] \in Live /\ KindOf(i) = "run" =>
               payload'[key[i]] \in {payload[key[i]], NoFile},
           Parsed(i) => /\ StagingOf(i)' = StagingOf(i)
                        /\ cursor'["fetch"][key[i]] = cursor["fetch"][key[i]],
           graph \subseteq graph', offered[i] \subseteq offered'[i]
    PROVE  JobOf(i)'
<1>1. Work(i)' = Work(i) /\ (KindOf(i)' = "fetch" <=> KindOf(i) = "fetch")
      /\ (KindOf(i)' = "run" <=> KindOf(i) = "run")
    BY DEF Work, KindOf
<1>2. Leaf(i) => Leaf(i)'
    BY <1>1 DEF Leaf
<1>3. Offered(i) => Offered(i)'
    BY DEF Offered
<1>4. Parsed(i)' => Parsed(i) /\ status'[i] = status[i]
    BY DEF Parsed, Finished
<1>5. Parsed(i)' => ParseOf(i)'
    BY <1>1, <1>2, <1>4 DEF JobOf, ParseOf
<1>6. /\ status'[i] # "unborn" => <<key'[i], hash'[i]>> \in Posts
      /\ status'[i] = "unborn" => attempts'[i] = 0
      /\ status'[i] \in {"queued", "staged"} => attempts'[i] < MaxAttempts
      /\ status'[i] = "running" => attempts'[i] > 0
    BY DEF JobOf, Finished
<1>7. status'[i] \in Live /\ KindOf(i)' = "run" => payload'[key'[i]] \in {hash'[i], NoFile}
    BY <1>1 DEF JobOf, Live, Finished
<1>8. status'[i] = "ok" => Leaf(i)' /\ (KindOf(i)' = "fetch" => Offered(i)')
    BY <1>1, <1>2, <1>3 DEF JobOf
<1>9. QED
    BY <1>5, <1>6, <1>7, <1>8 DEF JobOf

LEMMA HandFrame ==
    ASSUME NEW p \in Procs, NEW v \in Workers, HandOf(p, v),
           pc'[p][v] = pc[p][v], held'[p][v] = held[p][v],
           Active(p, v) =>
               LET i == held[p][v] IN
               /\ status'[i] = status[i] /\ stage'[i] = stage[i]
               /\ key'[i] = key[i] /\ hash'[i] = hash[i]
               /\ StagingOf(i)' = StagingOf(i)
               /\ cursor'["fetch"][key[i]] = cursor["fetch"][key[i]]
    PROVE  HandOf(p, v)'
<1> DEFINE i == held[p][v]
<1>1. CASE ~Active(p, v)
    BY <1>1 DEF HandOf, Active
<1>2. CASE Active(p, v)
    <2>1. /\ status'[i] = status[i] /\ stage'[i] = stage[i]
          /\ key'[i] = key[i] /\ hash'[i] = hash[i]
          /\ StagingOf(i)' = StagingOf(i) /\ held'[p][v] = i
          /\ cursor'["fetch"][key[i]] = cursor["fetch"][key[i]]
        BY <1>2
    <2>2. StagingOf(held[p][v])' = StagingOf(i)
        BY <2>1 DEF StagingOf, KindOf
    <2>3. Work(held[p][v])' = Work(i) /\ (KindOf(held[p][v])' = "fetch" <=> KindOf(i) = "fetch")
        BY <2>1 DEF Work, KindOf
    <2>4. QED
        BY <1>2, <2>1, <2>2, <2>3 DEF HandOf, Active, RunsAt
<1>3. QED
    BY <1>1, <1>2

LEMMA PassFrame ==
    ASSUME NEW p \in Procs, PassOf(p),
           \/ pc'[p][Writer] = pc[p][Writer]
           \/ {pc'[p][Writer], pc[p][Writer]} \cap (PassSteps \cup {"finish"}) = {},
           rows'[p] = rows[p], pos'[p] = pos[p],
           pc[p][Writer] \in PassSteps \cup {"finish"} =>
               /\ held'[p][Writer] = held[p][Writer]
               /\ key'[held[p][Writer]] = key[held[p][Writer]]
               /\ hash'[held[p][Writer]] = hash[held[p][Writer]]
               /\ offered[held[p][Writer]] \subseteq offered'[held[p][Writer]],
           graph \subseteq graph'
    PROVE  PassOf(p)'
<1> DEFINE j == held[p][Writer]
<1>1. CASE pc[p][Writer] \notin PassSteps \cup {"finish"}
    BY <1>1 DEF PassOf, PassSteps
<1>2. CASE pc[p][Writer] \in PassSteps \cup {"finish"}
    <2>1. /\ held'[p][Writer] = j /\ key'[j] = key[j] /\ hash'[j] = hash[j]
          /\ offered[j] \subseteq offered'[j] /\ pc'[p][Writer] = pc[p][Writer]
        BY <1>2
    <2>2. /\ Work(held[p][Writer])' = Work(j)
          /\ KindOf(held[p][Writer])' = "fetch" <=> KindOf(j) = "fetch"
        BY <2>1 DEF Work, KindOf
    <2>3. /\ Leaf(j) => Leaf(held[p][Writer])'
          /\ Offered(j) => Offered(held[p][Writer])'
        BY <2>1, <2>2 DEF Leaf, Offered
    <2>4. \A n : TakenUpTo(j, n) => TakenUpTo(held[p][Writer], n)'
        BY <2>1, <2>2 DEF TakenUpTo
    <2>5. QED
        BY <1>2, <2>1, <2>2, <2>3, <2>4 DEF PassOf, PassSteps
<1>3. QED
    BY <1>1, <1>2

-----------------------------------------------------------------------------
(* The four ways a step touches jobs.  Threads come to rest or pause, and *)
(* a payload may go; nothing else of a job moves.                         *)
LEMMA IdleStep ==
    ASSUME JobInv, ProcInv', UNCHANGED tableVars, UNCHANGED <<staging, cursor, graph, refused, offered>>,
           \A q \in Procs, v \in Workers :
               \/ pc'[q][v] = pc[q][v] /\ held'[q][v] = held[q][v]
               \/ pc'[q][v] \in {"off", "idle"},
           payload' \in [Keys -> Hashes \cup {NoFile}],
           \A k \in Keys : payload'[k] \in {payload[k], NoFile},
           answered' \in [Jobs -> SUBSET (Hashes \cup {NoHash})],
           rows' \in [Procs -> Seq(Sources)], pos' \in [Procs -> Nat],
           written' \in [Procs -> BOOLEAN], denied' \in [Procs -> BOOLEAN],
           \A q \in Procs : PassOf(q)'
    PROVE  JobInv'
<1>1. UNCHANGED <<status, stage, attempts, key, hash>>
    BY DEF tableVars
<1>2. JobTypes'
    BY <1>1 DEF JobInv, JobTypes, TableTypeOK
<1>3. JobsInOrder'
    <2> SUFFICES ASSUME NEW i \in Jobs PROVE JobOf(i)'
        BY DEF JobsInOrder
    <2>1. status[i] \in Live => payload'[key[i]] \in {payload[key[i]], NoFile}
        BY WorkFacts DEF Live
    <2>2. StagingOf(i)' = StagingOf(i)
        BY <1>1 DEF StagingOf, KindOf
    <2>3. JobOf(i)
        BY DEF JobInv, JobsInOrder
    <2>4. QED
        BY <1>1, <2>1, <2>2, <2>3, JobFrame
<1>4. OneLiveJobPerKey'
    BY <1>1 DEF JobInv, OneLiveJobPerKey, JobsIn
<1>5. Hands'
    <2>1. ASSUME NEW q \in Procs, NEW v \in Workers PROVE HandOf(q, v)'
        <3>1. CASE pc'[q][v] = pc[q][v] /\ held'[q][v] = held[q][v]
            <4>1. \A i : StagingOf(i)' = StagingOf(i)
                BY <1>1 DEF StagingOf, KindOf
            <4>2. HandOf(q, v)
                BY DEF JobInv, Hands
            <4>3. QED
                BY <1>1, <3>1, <4>1, <4>2, HandFrame
        <3>2. CASE pc'[q][v] \in {"off", "idle"}
            BY <3>2 DEF HandOf, Active
        <3>3. QED
            BY <3>1, <3>2
    <2>2. ASSUME NEW q \in Procs, NEW u \in Workers, NEW v \in Workers,
                 Active(q, u)', Active(q, v)', held'[q][u] = held'[q][v]
          PROVE  u = v
        <3>1. /\ Active(q, u) /\ held'[q][u] = held[q][u]
              /\ Active(q, v) /\ held'[q][v] = held[q][v]
            BY <2>2 DEF Active
        <3>2. QED
            BY <2>2, <3>1 DEF JobInv, Hands
    <2>3. QED
        BY <2>1, <2>2 DEF Hands
<1>6. QED
    BY <1>2, <1>3, <1>4, <1>5 DEF JobInv, Passes

(* A thread works on its job: the table is left alone, and of the files   *)
(* only the job's own change.                                             *)
LEMMA WorkStep ==
    ASSUME JobInv, ProcInv', Alone, NEW p \in Procs, NEW w \in Workers, Active(p, w),
           NEW step, step \notin {"off", "idle", "clean"}, Goes(p, w, step),
           UNCHANGED tableVars, UNCHANGED <<held, payload, answered>>,
           staging' \in [Kinds -> [Keys -> Files]], cursor' \in [Kinds -> [Keys -> Nat]],
           \A kind \in Kinds, k \in Keys :
               <<kind, k>> # <<KindOf(held[p][w]), key[held[p][w]]>> =>
                   staging'[kind][k] = staging[kind][k] /\ cursor'[kind][k] = cursor[kind][k],
           graph \subseteq graph', graph' \subseteq Sources, refused' \subseteq Sources,
           offered' \in [Jobs -> SUBSET Sources],
           \A i \in Jobs : offered[i] \subseteq offered'[i],
           rows' \in [Procs -> Seq(Sources)], pos' \in [Procs -> Nat],
           written' \in [Procs -> BOOLEAN], denied' \in [Procs -> BOOLEAN],
           Parsed(held[p][w]) => ParseOf(held[p][w])', HandOf(p, w)', PassOf(p)'
    PROVE  JobInv'
<1> DEFINE j == held[p][w]
<1>1. UNCHANGED <<status, stage, attempts, key, hash>>
    BY DEF tableVars
<1>2. j \in Jobs /\ status[j] = "running"
    BY AtWork DEF JobInv, Hands, HandOf, Active
<1>3. JobTypes'
    BY <1>1 DEF JobInv, JobTypes, TableTypeOK
<1> HIDE DEF j
<1>4. \A i : KindOf(i)' = KindOf(i)
    BY <1>1 DEF KindOf
(* Another live job has other files.                                      *)
<1>5. ASSUME NEW i \in Jobs, status[i] \in Live, i # j
      PROVE  /\ StagingOf(i)' = StagingOf(i)
             /\ cursor'["fetch"][key[i]] = cursor["fetch"][key[i]]
    <2>1. key[i] # key[j]
        BY <1>2, <1>5 DEF JobInv, OneLiveJobPerKey, JobsIn, Live
    <2>2. key[i] \in Keys /\ KindOf(i) \in Kinds /\ "fetch" \in Kinds
        BY <1>5, WorkFacts DEF Live
    <2>3. /\ staging'[KindOf(i)][key[i]] = staging[KindOf(i)][key[i]]
          /\ cursor'["fetch"][key[i]] = cursor["fetch"][key[i]]
        BY <2>1, <2>2 DEF j
    <2>4. QED
        BY <1>1, <1>4, <2>3 DEF StagingOf
<1>6. JobsInOrder'
    <2> SUFFICES ASSUME NEW i \in Jobs PROVE JobOf(i)'
        BY DEF JobsInOrder
    <2>1. JobOf(i)
        BY DEF JobInv, JobsInOrder
    <2>2. CASE i # j
        <3>1. Parsed(i) => /\ StagingOf(i)' = StagingOf(i)
                           /\ cursor'["fetch"][key[i]] = cursor["fetch"][key[i]]
            BY <1>5, <2>2 DEF Parsed, Live
        <3>2. QED
            BY <1>1, <2>1, <3>1, JobFrame
    <2>3. CASE i = j
        <3>1. Parsed(i)' => ParseOf(i)'
            BY <1>1, <2>3 DEF j, Parsed
        <3>2. status'[i] = "running"
            BY <1>1, <1>2, <2>3
        <3>3. QED
            BY <1>1, <1>4, <2>1, <3>1, <3>2 DEF JobOf, Live
    <2>4. QED
        BY <2>2, <2>3
<1>7. OneLiveJobPerKey'
    BY <1>1 DEF JobInv, OneLiveJobPerKey, JobsIn
<1>8. \A q \in Procs, v \in Workers : pc'[q][v] = IF q = p /\ v = w THEN step ELSE pc[q][v]
    BY DEF JobInv, ProcInv, ProcTypes, Goes
<1>9. Hands'
    <2>1. ASSUME NEW q \in Procs, NEW v \in Workers PROVE HandOf(q, v)'
        <3>1. q = p
            BY DEF Alone
        <3>2. CASE v = w
            BY <3>1, <3>2
        <3>3. CASE v # w
            <4>1. Active(q, v) => /\ held[q][v] \in Jobs /\ held[q][v] # j
                                  /\ status[held[q][v]] \in Live
                BY <3>1, <3>3, AtWork DEF JobInv, Hands, HandOf, Active, Live, j
            <4>2. HandOf(q, v) /\ pc'[q][v] = pc[q][v]
                BY <1>8, <3>3 DEF JobInv, Hands
            <4>3. QED
                BY <1>1, <1>5, <4>1, <4>2, HandFrame
        <3>4. QED
            BY <3>2, <3>3
    <2>2. ASSUME NEW q \in Procs, NEW v \in Workers PROVE Active(q, v)' => Active(q, v)
        BY <1>8 DEF Active
    <2>3. QED
        BY <2>1, <2>2 DEF JobInv, Hands
<1>10. Passes'
    BY DEF Passes, Alone
<1>11. QED
    BY <1>3, <1>6, <1>7, <1>9, <1>10 DEF JobInv

(* The row of a job that is running moves, and the rest of the table, the *)
(* files and the graph stay as they are.                                  *)
LEMMA RowStep ==
    ASSUME JobInv, NEW j \in Jobs, status[j] = "running", NEW S, RowMoves(j, S),
           stage' \in [Jobs -> Stages], attempts' \in [Jobs -> 0..MaxAttempts],
           \A i \in Jobs : i # j => stage'[i] = stage[i] /\ attempts'[i] = attempts[i],
           UNCHANGED <<key, hash>>, UNCHANGED <<passVars, fileVars, lakeVars, answered>>,
           JobOf(j)'
    PROVE  /\ JobTypes' /\ JobsInOrder' /\ OneLiveJobPerKey'
           /\ \A i \in Jobs : i # j /\ status[i] = "running" => status'[i] = "running"
<1> USE DEF passVars, fileVars, lakeVars
<1>1. /\ status' \in [Jobs -> Statuses]
      /\ \A i \in Jobs : i # j =>
             status'[i] = status[i] \/ (status[i] \in Finished /\ status'[i] = "pruned")
    BY DEF RowMoves
<1>2. JobTypes'
    BY <1>1 DEF JobInv, JobTypes, TableTypeOK
<1>3. JobsInOrder'
    <2> SUFFICES ASSUME NEW i \in Jobs, i # j PROVE JobOf(i)'
        BY DEF JobsInOrder
    <2>1. StagingOf(i)' = StagingOf(i)
        BY DEF StagingOf, KindOf
    <2>2. JobOf(i)
        BY DEF JobInv, JobsInOrder
    <2>3. QED
        BY <1>1, <2>1, <2>2, JobFrame
<1>4. OneLiveJobPerKey'
    <2>1. \A i \in Jobs : status'[i] \in Live => status[i] \in Live
        BY <1>1 DEF Live, Finished
    <2>2. QED
        BY <2>1 DEF JobInv, OneLiveJobPerKey, JobsIn
<1>5. \A i \in Jobs : i # j /\ status[i] = "running" => status'[i] = "running"
    BY <1>1 DEF Finished
<1>6. QED
    BY <1>2, <1>3, <1>4, <1>5

(* A thread is done with its row.                                         *)
LEMMA SettleStep ==
    ASSUME JobInv, ProcInv', Alone, NEW p \in Procs, NEW w \in Workers, Active(p, w),
           w = Writer => pc[p][w] \notin PassSteps,
           NEW j \in Jobs, j = held[p][w], NEW S, RowMoves(j, S),
           stage' \in [Jobs -> Stages], attempts' \in [Jobs -> 0..MaxAttempts],
           \A i \in Jobs : i # j => stage'[i] = stage[i] /\ attempts'[i] = attempts[i],
           UNCHANGED <<key, hash>>, UNCHANGED <<passVars, fileVars, lakeVars, answered>>,
           JobOf(j)',
           \/ Rests(p, w)
           \/ Goes(p, w, "clean") /\ held' = held
    PROVE  JobInv'
<1>1. status[j] = "running"
    BY DEF JobInv, Hands, HandOf
<1>2. /\ JobTypes' /\ JobsInOrder' /\ OneLiveJobPerKey'
      /\ \A i \in Jobs : i # j /\ status[i] = "running" => status'[i] = "running"
    BY <1>1, RowStep
<1>3. /\ pc'[p][w] \in {"off", "idle", "clean"}
      /\ \A q \in Procs, v \in Workers : q # p \/ v # w =>
             pc'[q][v] = pc[q][v] /\ held'[q][v] = held[q][v]
    BY DEF JobInv, ProcInv, ProcTypes, Rests, Goes
<1>4. Hands'
    <2>1. ASSUME NEW q \in Procs, NEW v \in Workers PROVE HandOf(q, v)'
        <3>1. q = p
            BY DEF Alone
        <3>2. CASE v = w
            BY <1>3, <3>1, <3>2 DEF HandOf, Active
        <3>3. CASE v # w
            <4>1. HandOf(q, v) /\ pc'[q][v] = pc[q][v] /\ held'[q][v] = held[q][v]
                BY <1>3, <3>3 DEF JobInv, Hands
            <4>2. Active(q, v) => /\ held[q][v] \in Jobs /\ held[q][v] # j
                                  /\ status[held[q][v]] = "running"
                BY <3>1, <3>3, AtWork DEF JobInv, Hands, HandOf, Active
            <4>3. /\ \A i : StagingOf(i)' = StagingOf(i)
                  /\ cursor' = cursor
                BY DEF StagingOf, KindOf, fileVars
            <4>4. QED
                BY <1>2, <4>1, <4>2, <4>3, HandFrame
        <3>4. QED
            BY <3>2, <3>3
    <2>2. \A q \in Procs, v \in Workers : Active(q, v)' => (q # p \/ v # w) /\ Active(q, v)
        BY <1>3 DEF Active
    <2>3. QED
        BY <1>3, <2>1, <2>2 DEF JobInv, Hands
<1>5. PassOf(p)'
    <2>1. PassOf(p) /\ Writer \in Workers
        BY Facts DEF JobInv, Passes
    <2>2. CASE w = Writer
        BY <1>3, <2>1, <2>2 DEF PassOf, PassSteps, passVars
    <2>3. CASE w # Writer
        BY <1>3, <2>1, <2>3, PassFrame DEF passVars, lakeVars
    <2>4. QED
        BY <2>2, <2>3
<1>6. QED
    BY <1>2, <1>4, <1>5 DEF JobInv, Passes, Alone

-----------------------------------------------------------------------------
(* Phase 1.                                                               *)
LEMMA Phase1Job ==
    ASSUME JobInv, NEW p \in Procs, NEW w \in Fetchers, Active(p, w)
    PROVE  LET j == held[p][w] IN
           /\ w \in Workers /\ w # Writer
           /\ j \in Jobs /\ status[j] = "running" /\ stage[j] = "phase1" /\ ~Parsed(j)
           /\ KindOf(j) \in Kinds /\ key[j] \in Keys
<1>1. w \in Workers /\ w # Writer
    BY Facts
<1>2. held[p][w] \in Jobs
    BY <1>1, AtWork DEF JobInv, Active
<1>3. status[held[p][w]] = "running" /\ stage[held[p][w]] = "phase1"
    BY <1>1 DEF JobInv, Hands, HandOf, RunsAt
<1>4. QED
    BY <1>1, <1>2, <1>3, WorkFacts DEF Parsed

LEMMA FetchJob ==
    ASSUME JobInv, ProcInv', Alone, NEW p \in Procs, NEW w \in Fetchers,
           DropStaging(p, w) \/ Convert(p, w) \/ ConvertRaises(p, w) \/ CommitRaises(p, w)
    PROVE  JobInv'
<1> DEFINE j == held[p][w]
           kind == KindOf(j)
           k == key[j]
<1>1. /\ pc[p][w] \in {"drop", "convert", "commit"} /\ Active(p, w)
      /\ UNCHANGED tableVars /\ UNCHANGED <<status, stage, attempts, key, hash>>
      /\ UNCHANGED <<held, payload, answered, graph, refused, offered, rows, pos, written, denied>>
    BY DEF DropStaging, Convert, ConvertRaises, CommitRaises, Active, lakeVars, passVars, fileVars,
           tableVars
<1>2. /\ w \in Workers /\ w # Writer
      /\ j \in Jobs /\ status[j] = "running" /\ stage[j] = "phase1" /\ ~Parsed(j)
      /\ kind \in Kinds /\ k \in Keys
    BY <1>1, Phase1Job
<1>3. JobTypes /\ HandOf(p, w) /\ JobOf(j)
    BY <1>2 DEF JobInv, Hands, JobsInOrder
<1>4. Work(j) \in Files /\ NoFile \in Files /\ Work(j) = Lines[<<k, hash[j]>>]
    BY <1>2, WorkFacts DEF Files, Work
<1>5. ASSUME NEW step \in {"convert", "commit", "failNow", "failGood"}, Goes(p, w, step),
             NEW lines \in Files, NEW n \in Nat,
             staging' = [staging EXCEPT ![kind][k] = lines],
             cursor' = [cursor EXCEPT ![kind][k] = n],
             step = "commit" => lines = Work(j),
             step \in {"convert", "commit"} /\ kind = "fetch" => n = 0
      PROVE  JobInv'
    <2>1. /\ staging' \in [Kinds -> [Keys -> Files]] /\ cursor' \in [Kinds -> [Keys -> Nat]]
          /\ staging'[kind][k] = lines /\ cursor'[kind][k] = n
          /\ \A a \in Kinds, b \in Keys : <<a, b>> # <<kind, k>> =>
                 staging'[a][b] = staging[a][b] /\ cursor'[a][b] = cursor[a][b]
        BY <1>2, <1>3, <1>5 DEF JobTypes
    <2>2. /\ held'[p][w] = j /\ KindOf(j)' = kind /\ Work(j)' = Work(j) /\ StagingOf(j)' = lines
          /\ pc'[p][w] = step /\ pc'[p][Writer] = pc[p][Writer] /\ key'[j] = k
        BY <1>1, <1>2, <1>5, <2>1, Facts DEF KindOf, Work, StagingOf, JobInv, ProcInv, ProcTypes,
                                             Goes
    <2>3. HandOf(p, w)'
        <3>1. status'[j] = "running" /\ stage'[j] = RunsAt(w)
            BY <1>1, <1>2 DEF RunsAt
        <3>2. KindOf(held[p][w])' = kind /\ StagingOf(held[p][w])' = lines
              /\ Work(held[p][w])' = Work(j)
            BY <1>1, <2>2 DEF KindOf, StagingOf, Work
        <3>3. QED
            BY <1>5, <2>1, <2>2, <3>1, <3>2 DEF HandOf, RunsAt
    <2>4. PassOf(p)'
        <3>1. PassOf(p)
            BY DEF JobInv, Passes
        <3>2. QED
            BY <1>1, <2>2, <3>1, PassFrame
    <2>5. JobTypes
        BY <1>3
    <2> HIDE DEF j, kind, k
    <2>6. QED
        BY <1>1, <1>2, <1>5, <2>1, <2>3, <2>4, <2>5, WorkStep DEF JobTypes, j, kind, k
<1>6. /\ staging = [staging EXCEPT ![kind][k] = staging[kind][k]] /\ staging[kind][k] \in Files
      /\ cursor = [cursor EXCEPT ![kind][k] = cursor[kind][k]] /\ cursor[kind][k] \in Nat
    BY <1>2, <1>3 DEF JobTypes
<1>7. CASE DropStaging(p, w)
    <2>1. kind = "fetch"
        BY <1>3, <1>7 DEF HandOf, DropStaging
    <2>2. /\ staging' = [staging EXCEPT ![kind][k] = NoFile]
          /\ cursor' = [cursor EXCEPT ![kind][k] = 0] /\ Goes(p, w, "convert")
        BY <1>7, <2>1 DEF DropStaging
    <2>3. QED
        BY <1>4, <1>5, <2>2
<1>8. CASE Convert(p, w)
    <2>1. CASE kind = "fetch"
        <3>1. hash[j] = NoHash
            BY <2>1 DEF KindOf
        <3>2. /\ staging' = [staging EXCEPT ![kind][k] = Work(j)] /\ cursor' = cursor
              /\ Goes(p, w, "commit")
            BY <1>4, <1>8, <2>1, <3>1 DEF Convert
        <3>3. cursor[kind][k] = 0
            BY <1>3, <1>8, <2>1 DEF HandOf, Convert
        <3>4. QED
            BY <1>4, <1>5, <1>6, <3>2, <3>3
    <2>2. CASE kind = "run"
        <3>1. payload[k] = hash[j]
            BY <1>2, <1>3, <1>8, <2>2 DEF JobOf, Live, Convert
        <3>2. /\ staging' = [staging EXCEPT ![kind][k] = Work(j)] /\ cursor' = cursor
              /\ Goes(p, w, "commit")
            BY <1>4, <1>8, <2>2, <3>1 DEF Convert
        <3>3. QED
            BY <1>4, <1>5, <1>6, <2>2, <3>2
    <2>3. QED
        BY <1>2, <2>1, <2>2 DEF Kinds
<1>9. CASE ConvertRaises(p, w) \/ CommitRaises(p, w)
    <2>1. PICK step \in {"failNow", "failGood"} : Goes(p, w, step) /\ UNCHANGED <<staging, cursor>>
        BY <1>9 DEF ConvertRaises, CommitRaises, fileVars
    <2>2. QED
        BY <1>5, <1>6, <2>1
<1>10. QED
    BY <1>7, <1>8, <1>9

LEMMA CommitJob ==
    ASSUME JobInv, ProcInv', Alone, NEW p \in Procs, NEW w \in Fetchers, Commit(p, w)
    PROVE  JobInv'
<1>1. PICK j \in Jobs : j = held[p][w]
    BY Phase1Job DEF Commit, Active
<1>2. /\ pc[p][w] = "commit" /\ Active(p, w) /\ w \in Workers /\ w # Writer
      /\ status[j] = "running"
      /\ status' = [status EXCEPT ![j] = "staged"] /\ stage' = [stage EXCEPT ![j] = "phase1"]
      /\ attempts' = [attempts EXCEPT ![j] = 0] /\ UNCHANGED <<key, hash>>
      /\ UNCHANGED <<passVars, fileVars, lakeVars, answered>>
      /\ (Goes(p, w, "clean") /\ held' = held) \/ Rests(p, w)
    BY <1>1, Phase1Job DEF Commit, StageRow, Active
<1>3. JobTypes /\ HandOf(p, w) /\ JobOf(j)
    BY <1>2 DEF JobInv, Hands, JobsInOrder
<1>4. /\ RowMoves(j, {"staged"})
      /\ stage' \in [Jobs -> Stages] /\ attempts' \in [Jobs -> 0..MaxAttempts]
      /\ status'[j] = "staged" /\ attempts'[j] = 0
      /\ \A i \in Jobs : i # j => stage'[i] = stage[i] /\ attempts'[i] = attempts[i]
    BY <1>2, <1>3, Facts DEF JobTypes, TableTypeOK, RowMoves, Statuses, Live, Stages
<1>5. JobOf(j)'
    <2>1. /\ StagingOf(j)' = StagingOf(j) /\ Work(j)' = Work(j) /\ payload' = payload
          /\ (KindOf(j)' = "fetch" <=> KindOf(j) = "fetch") /\ (KindOf(j)' = "run" <=> KindOf(j) = "run")
          /\ cursor' = cursor
        BY <1>2 DEF StagingOf, Work, KindOf, fileVars
    <2>2. /\ StagingOf(j) = Work(j) /\ Work(j) # NoFile
          /\ KindOf(j) = "fetch" => cursor["fetch"][key[j]] = 0
        BY <1>1, <1>2, <1>3, WorkFacts DEF HandOf
    <2>3. ParseOf(j)'
        BY <1>2, <2>1, <2>2 DEF ParseOf
    <2>4. QED
        BY <1>2, <1>3, <1>4, <2>1, <2>3, Facts DEF JobOf, Live
<1>6. QED
    BY <1>1, <1>2, <1>4, <1>5, SettleStep

-----------------------------------------------------------------------------
(* A row that fails for now or for good, or is finished.                  *)
LEMMA FinishedRow ==
    ASSUME JobInv, NEW j \in Jobs, status[j] = "running", NEW outcome \in Finished,
           FinishRow(j, outcome), UNCHANGED <<graph, offered>>,
           outcome = "ok" => Leaf(j) /\ (KindOf(j) = "fetch" => Offered(j))
    PROVE  /\ RowMoves(j, {"failed", "ok"}) /\ JobOf(j)'
           /\ UNCHANGED <<stage, attempts, key, hash>>
<1>1. RowMoves(j, {outcome}) /\ UNCHANGED <<stage, attempts, key, hash>> /\ JobOf(j)
    BY FinishEffect DEF JobInv, ProcInv, ProcTypes, JobsInOrder
<1>2. /\ Leaf(j) => Leaf(j)'
      /\ Offered(j) => Offered(j)'
      /\ KindOf(j)' = "fetch" <=> KindOf(j) = "fetch"
    BY <1>1 DEF Leaf, Offered, KindOf, Work
<1>3. QED
    BY <1>1, <1>2 DEF RowMoves, JobOf, Parsed, Finished, Live

LEMMA RetriedRow ==
    ASSUME JobInv, NEW j \in Jobs, status[j] = "running", NEW waiting \in {"queued", "staged"},
           RetryRow(j, waiting), UNCHANGED <<fileVars, lakeVars>>,
           waiting = "staged" => stage[j] = "phase2"
    PROVE  /\ RowMoves(j, {"failed", waiting}) /\ JobOf(j)'
           /\ stage' \in [Jobs -> Stages] /\ \A i \in Jobs : i # j => stage'[i] = stage[i]
           /\ UNCHANGED <<attempts, key, hash>>
<1>1. JobTypes /\ JobOf(j) /\ attempts[j] \in 0..MaxAttempts
    BY DEF JobInv, JobTypes, TableTypeOK, JobsInOrder
<1>2. /\ UNCHANGED <<attempts, key, hash>>
      /\ \/ GivesUp(j) /\ RowMoves(j, {"failed"}) /\ stage' = stage
         \/ /\ ~GivesUp(j) /\ RowMoves(j, {waiting})
            /\ stage' = [stage EXCEPT ![j] = StageOf(waiting)]
    BY RetryEffect DEF JobInv, ProcInv, ProcTypes
<1>3. /\ stage' \in [Jobs -> Stages] /\ \A i \in Jobs : i # j => stage'[i] = stage[i]
    BY <1>1, <1>2 DEF JobTypes, TableTypeOK, StageOf, Stages
<1>4. Parsed(j)' => Parsed(j)
    BY <1>2 DEF Parsed, RowMoves
<1>5. Parsed(j)' => ParseOf(j)'
    <2>1. ParseOf(j) => ParseOf(j)'
        BY <1>2 DEF ParseOf, StagingOf, Work, KindOf, Leaf, fileVars, lakeVars
    <2>2. QED
        BY <1>1, <1>4, <2>1 DEF JobOf
<1>6. attempts[j] < MaxAttempts \/ status'[j] = "failed"
    BY <1>1, <1>2, Facts DEF GivesUp, RowMoves
<1>7. status'[j] \in {"failed", waiting} /\ (KindOf(j)' = "run" <=> KindOf(j) = "run")
    BY <1>2 DEF RowMoves, KindOf
<1>8. JobOf(j)'
    BY <1>1, <1>2, <1>5, <1>6, <1>7 DEF JobOf, Live, fileVars
<1>9. QED
    BY <1>2, <1>3, <1>8 DEF RowMoves

LEMMA FailJob ==
    ASSUME JobInv, ProcInv', Alone, NEW p \in Procs, NEW w \in Workers, Fail(p, w)
    PROVE  JobInv'
<1>1. /\ pc[p][w] \in {"failGood", "failNow"} /\ Active(p, w)
      /\ UNCHANGED <<passVars, fileVars, lakeVars, answered>>
      /\ (Goes(p, w, "clean") /\ held' = held) \/ Rests(p, w)
    BY DEF Fail, Active
<1>2. PICK j \in Jobs : j = held[p][w]
    BY <1>1, AtWork DEF JobInv
<1>3. status[j] = "running" /\ stage[j] = RunsAt(w)
    BY <1>1, <1>2 DEF JobInv, Hands, HandOf
<1>4. UNCHANGED <<graph, offered>>
    BY <1>1 DEF lakeVars
<1>5. PICK S : /\ RowMoves(j, S) /\ JobOf(j)' /\ UNCHANGED <<attempts, key, hash>>
               /\ stage' \in [Jobs -> Stages] /\ \A i \in Jobs : i # j => stage'[i] = stage[i]
    <2>1. CASE FinishRow(j, "failed")
        <3>1. /\ RowMoves(j, {"failed", "ok"}) /\ JobOf(j)'
              /\ UNCHANGED <<stage, attempts, key, hash>>
            BY <1>3, <1>4, <2>1, FinishedRow DEF Finished
        <3>2. stage \in [Jobs -> Stages]
            BY DEF JobInv, JobTypes, TableTypeOK
        <3>3. QED
            BY <3>1, <3>2
    <2>2. CASE RetryRow(j, IF w = Writer THEN "staged" ELSE "queued")
        BY <1>1, <1>3, <2>2, RetriedRow DEF RunsAt
    <2>3. QED
        BY <1>2, <2>1, <2>2 DEF Fail
<1>6. attempts' \in [Jobs -> 0..MaxAttempts]
    BY <1>5 DEF JobInv, JobTypes, TableTypeOK
<1>7. QED
    BY <1>1, <1>2, <1>5, <1>6, SettleStep DEF PassSteps

LEMMA FinishJob ==
    ASSUME JobInv, ProcInv', Alone, NEW p \in Procs, Finish(p)
    PROVE  JobInv'
<1>1. /\ pc[p][Writer] = "finish" /\ Active(p, Writer) /\ Writer \in Workers
      /\ UNCHANGED <<passVars, fileVars, lakeVars, answered>> /\ Rests(p, Writer)
    BY Facts DEF Finish, Active
<1>2. PICK j \in Jobs : j = held[p][Writer]
    BY <1>1, AtWork DEF JobInv
<1>3. status[j] = "running"
    BY <1>1, <1>2 DEF JobInv, Hands, HandOf
<1>4. Leaf(j) /\ (KindOf(j) = "fetch" => Offered(j))
    BY <1>1, <1>2 DEF JobInv, Passes, PassOf
<1>5. /\ RowMoves(j, {"failed", "ok"}) /\ JobOf(j)' /\ UNCHANGED <<stage, attempts, key, hash>>
    <2>1. PICK outcome \in Finished : FinishRow(j, outcome)
        BY <1>2 DEF Finish
    <2>2. UNCHANGED <<graph, offered>>
        BY <1>1 DEF lakeVars
    <2>3. QED
        BY <1>3, <1>4, <2>1, <2>2, FinishedRow
<1>6. stage' \in [Jobs -> Stages] /\ attempts' \in [Jobs -> 0..MaxAttempts]
    BY <1>5 DEF JobInv, JobTypes, TableTypeOK
<1>7. QED
    BY <1>1, <1>2, <1>5, <1>6, SettleStep DEF PassSteps

(* Busy: the attempt comes back.                                          *)
LEMMA BusyJob ==
    ASSUME JobInv, ProcInv', Alone, NEW p \in Procs, Busy(p)
    PROVE  JobInv'
<1>1. /\ pc[p][Writer] = "slot" /\ Active(p, Writer) /\ Writer \in Workers
      /\ UNCHANGED <<passVars, fileVars, lakeVars, answered>> /\ Rests(p, Writer)
    BY Facts DEF Busy, Active
<1>2. PICK j \in Jobs : j = held[p][Writer]
    BY <1>1, AtWork DEF JobInv
<1>3. status[j] = "running" /\ stage[j] = "phase2" /\ Parsed(j) /\ JobOf(j)
    BY <1>1, <1>2 DEF JobInv, Hands, HandOf, RunsAt, Parsed, JobsInOrder
<1>4. /\ status' = [status EXCEPT ![j] = "staged"] /\ stage' = [stage EXCEPT ![j] = "phase1"]
      /\ attempts' = [attempts EXCEPT ![j] = @ - 1] /\ UNCHANGED <<key, hash>>
    BY <1>2 DEF Busy, ReleaseRow, StageOf
<1>5. attempts \in [Jobs -> 0..MaxAttempts] /\ attempts[j] \in 1..MaxAttempts
    <2>1. attempts \in [Jobs -> 0..MaxAttempts] /\ attempts[j] > 0
        BY <1>3 DEF JobInv, JobTypes, TableTypeOK, JobOf
    <2>2. attempts[j] \in 0..MaxAttempts
        BY <2>1
    <2>3. QED
        BY <2>1, <2>2, Facts
<1>6. /\ attempts' \in [Jobs -> 0..MaxAttempts] /\ attempts'[j] < MaxAttempts
      /\ \A i \in Jobs : i # j => attempts'[i] = attempts[i]
    <2>1. attempts[j] - 1 \in 0..MaxAttempts /\ attempts[j] - 1 < MaxAttempts
        BY <1>5, Facts
    <2>2. QED
        BY <1>4, <1>5, <2>1
<1>7. /\ RowMoves(j, {"staged"}) /\ status'[j] = "staged"
      /\ stage' \in [Jobs -> Stages] /\ \A i \in Jobs : i # j => stage'[i] = stage[i]
    BY <1>4 DEF JobInv, JobTypes, TableTypeOK, RowMoves, Statuses, Live, Stages
<1>8. JobOf(j)'
    <2>1. ParseOf(j) => ParseOf(j)'
        BY <1>1, <1>4 DEF ParseOf, StagingOf, Work, KindOf, Leaf, fileVars, lakeVars
    <2>2. KindOf(j)' = "run" <=> KindOf(j) = "run"
        BY <1>4 DEF KindOf
    <2>3. QED
        BY <1>1, <1>3, <1>4, <1>6, <1>7, <2>1, <2>2 DEF JobOf, Live, fileVars
<1>9. QED
    BY <1>1, <1>2, <1>4, <1>6, <1>7, <1>8, SettleStep DEF PassSteps

-----------------------------------------------------------------------------
(* Phase 2.                                                               *)
LEMMA Phase2Job ==
    ASSUME JobInv, NEW p \in Procs, Active(p, Writer)
    PROVE  LET j == held[p][Writer] IN
           /\ Writer \in Workers /\ j \in Jobs /\ status[j] = "running" /\ stage[j] = "phase2"
           /\ JobOf(j) /\ ParseOf(j) /\ PassOf(p) /\ JobTypes
           /\ pos[p] \in Nat /\ Len(Work(j)) \in Nat /\ Len(Work(j)) > 0
           /\ Work(j) \in Seq(Sources)
           /\ \A i \in 1..Len(Work(j)) : Work(j)[i] \in Sources
           /\ KindOf(j) \in Kinds /\ key[j] \in Keys
<1>1. Writer \in Workers /\ held[p][Writer] \in Jobs
    BY Facts, AtWork DEF JobInv, Active
<1>2. status[held[p][Writer]] = "running" /\ stage[held[p][Writer]] = "phase2"
    BY <1>1 DEF JobInv, Hands, HandOf, RunsAt
<1>3. JobOf(held[p][Writer]) /\ PassOf(p) /\ JobTypes /\ pos[p] \in Nat
    BY <1>1 DEF JobInv, JobsInOrder, Passes, JobTypes
<1>4. ParseOf(held[p][Writer])
    BY <1>2, <1>3 DEF JobOf, Parsed
<1>5. QED
    BY <1>1, <1>2, <1>3, <1>4, WorkFacts

(* The writer's own step on its job's files and on the graph.             *)
LEMMA WriterStep ==
    ASSUME JobInv, ProcInv', Alone, NEW p \in Procs, Active(p, Writer),
           NEW step \in WriteSteps \ {"off", "idle", "clean"}, Goes(p, Writer, step),
           UNCHANGED tableVars, UNCHANGED <<held, payload, answered>>,
           NEW j \in Jobs, j = held[p][Writer],
           NEW lines \in Files, NEW n \in Nat,
           staging' = [staging EXCEPT ![KindOf(j)][key[j]] = lines],
           cursor' = [cursor EXCEPT ![KindOf(j)][key[j]] = n],
           graph \subseteq graph', graph' \subseteq Sources, refused' \subseteq Sources,
           offered' \in [Jobs -> SUBSET Sources],
           \A i \in Jobs : offered[i] \subseteq offered'[i],
           rows' \in [Procs -> Seq(Sources)], pos' \in [Procs -> Nat],
           written' \in [Procs -> BOOLEAN], denied' \in [Procs -> BOOLEAN],
           lines \in {Work(j), NoFile}, lines = NoFile => Leaf(j),
           KindOf(j) = "fetch" =>
               \A i \in 1..Len(Work(j)) : i <= n => Work(j)[i] \in offered'[j],
           PassOf(p)'
    PROVE  JobInv'
<1>1. /\ Writer \in Workers /\ status[j] = "running" /\ stage[j] = "phase2" /\ JobTypes
      /\ KindOf(j) \in Kinds /\ key[j] \in Keys
    BY Phase2Job
<1>2. UNCHANGED <<status, stage, attempts, key, hash>>
    BY DEF tableVars
<1>3. /\ staging' \in [Kinds -> [Keys -> Files]] /\ cursor' \in [Kinds -> [Keys -> Nat]]
      /\ staging'[KindOf(j)][key[j]] = lines /\ cursor'[KindOf(j)][key[j]] = n
      /\ \A a \in Kinds, b \in Keys : <<a, b>> # <<KindOf(j), key[j]>> =>
             staging'[a][b] = staging[a][b] /\ cursor'[a][b] = cursor[a][b]
    BY <1>1 DEF JobTypes
<1>4. /\ KindOf(j)' = KindOf(j) /\ Work(j)' = Work(j) /\ StagingOf(j)' = lines
      /\ Leaf(j) => Leaf(j)'
    BY <1>1, <1>2, <1>3 DEF KindOf, Work, StagingOf, Leaf
<1>5. ParseOf(j)'
    BY <1>2, <1>3, <1>4 DEF ParseOf
<1>6. HandOf(p, Writer)'
    <2>1. held'[p][Writer] = j /\ pc'[p][Writer] = step /\ step \notin {"drop", "convert", "commit"}
        BY <1>1 DEF JobInv, ProcInv, ProcTypes, Goes, WriteSteps, PassSteps
    <2>2. status'[j] = "running" /\ stage'[j] = RunsAt(Writer)
        BY <1>1, <1>2 DEF RunsAt
    <2>3. QED
        BY <2>1, <2>2 DEF HandOf, RunsAt
<1>7. ParseOf(held[p][Writer])'
    BY <1>5 DEF ParseOf, StagingOf, Work, KindOf, Leaf
<1>8. QED
    BY <1>1, <1>3, <1>6, <1>7, WorkStep

(* One that leaves the files alone.                                       *)
LEMMA WriterPause ==
    ASSUME JobInv, ProcInv', Alone, NEW p \in Procs, Active(p, Writer),
           NEW step \in WriteSteps \ {"off", "idle", "clean"}, Goes(p, Writer, step),
           UNCHANGED tableVars, UNCHANGED <<held, fileVars, lakeVars, answered>>,
           rows' \in [Procs -> Seq(Sources)], pos' \in [Procs -> Nat],
           written' \in [Procs -> BOOLEAN], denied' \in [Procs -> BOOLEAN],
           PassOf(p)'
    PROVE  JobInv'
<1>1. PICK j \in Jobs : j = held[p][Writer]
    BY Phase2Job
<1>2. /\ JobTypes /\ KindOf(j) \in Kinds /\ key[j] \in Keys /\ ParseOf(j)
      /\ UNCHANGED <<payload, staging, cursor, graph, refused, offered>>
    BY <1>1, Phase2Job DEF fileVars, lakeVars
<1> DEFINE lines == staging[KindOf(j)][key[j]]
           n == cursor[KindOf(j)][key[j]]
<1>3. /\ staging' = [staging EXCEPT ![KindOf(j)][key[j]] = lines]
      /\ cursor' = [cursor EXCEPT ![KindOf(j)][key[j]] = n]
      /\ lines \in Files /\ n \in Nat
    BY <1>2 DEF JobTypes
<1>4. /\ lines \in {Work(j), NoFile} /\ (lines = NoFile => Leaf(j))
      /\ KindOf(j) = "fetch" =>
             \A i \in 1..Len(Work(j)) : i <= n => Work(j)[i] \in offered'[j]
    BY <1>2 DEF ParseOf, StagingOf
<1> HIDE DEF lines, n
<1>5. /\ graph \subseteq graph' /\ graph' \subseteq Sources /\ refused' \subseteq Sources
      /\ offered' \in [Jobs -> SUBSET Sources] /\ \A i \in Jobs : offered[i] \subseteq offered'[i]
    BY <1>2 DEF JobTypes
<1>6. QED
    BY <1>1, <1>2, <1>3, <1>4, <1>5, WriterStep

(* A pass that is left drops its lines.                                   *)
LEMMA LeftPass ==
    ASSUME JobInv, NEW p \in Procs, FreshPass(p, <<>>), pc'[p][Writer] \notin PassSteps \cup {"finish"}
    PROVE  /\ PassOf(p)'
           /\ rows' \in [Procs -> Seq(Sources)] /\ pos' \in [Procs -> Nat]
           /\ written' \in [Procs -> BOOLEAN] /\ denied' \in [Procs -> BOOLEAN]
<1>1. JobTypes /\ <<>> \in Seq(Sources)
    BY DEF JobInv
<1>2. /\ rows' = [rows EXCEPT ![p] = <<>>] /\ pos' = [pos EXCEPT ![p] = 0]
      /\ written' = [written EXCEPT ![p] = FALSE] /\ denied' = [denied EXCEPT ![p] = FALSE]
    BY DEF FreshPass
<1>3. rows'[p] = <<>> /\ pos'[p] = 0
    BY <1>1, <1>2 DEF JobTypes
<1>4. PassOf(p)'
    BY <1>3 DEF PassOf, PassSteps
<1>5. QED
    BY <1>1, <1>2, <1>4 DEF JobTypes

LEMMA GoesTo ==
    ASSUME JobInv, NEW p \in Procs, NEW step, Goes(p, Writer, step)
    PROVE  pc'[p][Writer] = step
BY Facts DEF JobInv, ProcInv, ProcTypes, Goes

(* The writer takes the slot, or loses it with an exception.              *)
LEMMA SlotJob ==
    ASSUME JobInv, ProcInv', Alone, NEW p \in Procs,
           \/ TakeSlot(p) \/ StagingMissing(p) \/ CheckRefuses(p)
           \/ \E failure \in {"failNow", "failGood"} : PassRaises(p, failure)
    PROVE  JobInv'
<1>1. CASE TakeSlot(p)
    <2>1. /\ Active(p, Writer) /\ pc[p][Writer] = "slot" /\ Goes(p, Writer, "read")
          /\ UNCHANGED tableVars /\ UNCHANGED <<held, fileVars, lakeVars, answered>>
          /\ UNCHANGED <<rows, pos, written, denied>>
        BY <1>1 DEF TakeSlot, Active, passVars
    <2>2. PassOf(p)'
        BY <2>1, GoesTo DEF JobInv, Passes, PassOf, PassSteps
    <2>3. "read" \in WriteSteps \ {"off", "idle", "clean"}
        BY DEF WriteSteps
    <2>4. QED
        BY <2>1, <2>2, <2>3, WriterPause DEF JobInv, JobTypes
<1>2. CASE ~TakeSlot(p)
    <2>1. PICK failure \in {"failNow", "failGood"} :
              /\ pc[p][Writer] \in {"read", "check", "link", "advance"}
              /\ LeavesSlot(p, failure) /\ UNCHANGED lakeVars
        BY <1>2 DEF StagingMissing, CheckRefuses, PassRaises
    <2>2. /\ Active(p, Writer) /\ Goes(p, Writer, failure) /\ FreshPass(p, <<>>)
          /\ UNCHANGED tableVars /\ UNCHANGED <<held, fileVars, lakeVars, answered>>
        BY <2>1 DEF LeavesSlot, Active, fileVars
    <2>3. failure \in WriteSteps \ {"off", "idle", "clean"} /\ pc'[p][Writer] \notin PassSteps \cup {"finish"}
        BY <2>2, GoesTo DEF WriteSteps, PassSteps
    <2>4. QED
        BY <2>2, <2>3, LeftPass, WriterPause
<1>3. QED
    BY <1>1, <1>2

LEMMA ReadJob ==
    ASSUME JobInv, ProcInv', Alone, NEW p \in Procs, ReadStaging(p)
    PROVE  JobInv'
<1>1. PICK j \in Jobs : j = held[p][Writer]
    BY Phase2Job DEF ReadStaging, Active
<1> DEFINE done == cursor[KindOf(j)][key[j]]
           at == IF done < Len(Work(j)) THEN done ELSE Len(Work(j))
<1>2. /\ Active(p, Writer) /\ pc[p][Writer] = "read" /\ StagingOf(j) # NoFile
    BY <1>1 DEF ReadStaging, Active
<1>3. /\ ParseOf(j) /\ JobTypes /\ Len(Work(j)) \in Nat /\ Work(j) \in Seq(Sources)
      /\ KindOf(j) \in Kinds /\ key[j] \in Keys
    BY <1>1, <1>2, Phase2Job
<1>4. StagingOf(j) = Work(j) /\ done \in Nat
    BY <1>2, <1>3 DEF ParseOf, JobTypes
<1>5. /\ rows' = [rows EXCEPT ![p] = Work(j)] /\ pos' = [pos EXCEPT ![p] = at]
      /\ Goes(p, Writer, "link") /\ UNCHANGED tableVars
      /\ UNCHANGED <<held, written, denied, fileVars, lakeVars, answered>>
    BY <1>1, <1>4 DEF ReadStaging
<1>6. at \in Nat /\ at <= Len(Work(j)) /\ at <= done
    BY <1>3, <1>4
<1>7. KindOf(j) = "fetch" => TakenUpTo(j, at)
    <2>1. KindOf(j) = "fetch" => \A i \in 1..Len(Work(j)) : i <= done => Work(j)[i] \in offered[j]
        BY <1>3 DEF ParseOf
    <2> HIDE DEF at
    <2>2. \A i \in 1..Len(Work(j)) : i <= at => i <= done
        BY <1>3, <1>4, <1>6
    <2>3. QED
        BY <2>1, <2>2 DEF TakenUpTo
<1> HIDE DEF at
<1>8. /\ rows' \in [Procs -> Seq(Sources)] /\ pos' \in [Procs -> Nat]
      /\ rows'[p] = Work(j) /\ pos'[p] = at
      /\ written' \in [Procs -> BOOLEAN] /\ denied' \in [Procs -> BOOLEAN]
    BY <1>3, <1>5, <1>6 DEF JobTypes
<1>9. PassOf(p)'
    <2>1. /\ held'[p][Writer] = j /\ pc'[p][Writer] = "link"
          /\ Work(held[p][Writer])' = Work(j)
          /\ KindOf(held[p][Writer])' = KindOf(j)
          /\ KindOf(j) = "fetch" => TakenUpTo(held[p][Writer], pos[p])'
        BY <1>1, <1>5, <1>7, <1>8, GoesTo DEF Work, KindOf, TakenUpTo, tableVars, lakeVars
    <2>2. QED
        BY <1>6, <1>8, <2>1 DEF PassOf, PassSteps
<1>10. "link" \in WriteSteps \ {"off", "idle", "clean"}
    BY DEF WriteSteps, PassSteps
<1>11. QED
    BY <1>2, <1>5, <1>8, <1>9, <1>10, WriterPause

(* A group is taken: linked, known or refused.                            *)
LEMMA LinkJob ==
    ASSUME JobInv, ProcInv', Alone, NEW p \in Procs, LinkSource(p)
    PROVE  JobInv'
<1>1. PICK j \in Jobs : j = held[p][Writer]
    BY Phase2Job DEF LinkSource, Active
<1>2. /\ Active(p, Writer) /\ pc[p][Writer] = "link" /\ pos[p] < Len(rows[p])
      /\ Goes(p, Writer, "advance") /\ UNCHANGED tableVars
      /\ UNCHANGED <<held, rows, pos, fileVars, answered>>
    BY DEF LinkSource, Active
<1>3. /\ JobOf(j) /\ ParseOf(j) /\ PassOf(p) /\ JobTypes /\ pos[p] \in Nat /\ Len(Work(j)) \in Nat
      /\ \A i \in 1..Len(Work(j)) : Work(j)[i] \in Sources
      /\ KindOf(j) \in Kinds /\ key[j] \in Keys
    BY <1>1, <1>2, Phase2Job
<1>4. rows[p] = Work(j) /\ (KindOf(j) = "fetch" => TakenUpTo(j, pos[p]))
    BY <1>1, <1>2, <1>3 DEF PassOf, PassSteps
<1> DEFINE s == Work(j)[pos[p] + 1]
<1>5. s \in Sources
    BY <1>2, <1>3, <1>4
<1>6. /\ graph' \in {graph, graph \cup {s}} /\ refused' \in {refused, refused \cup {s}}
      /\ offered' = [offered EXCEPT ![j] = @ \cup {s}]
      /\ written' \in {written, [written EXCEPT ![p] = TRUE]}
      /\ denied' \in {denied, [denied EXCEPT ![p] = TRUE]}
    BY <1>1, <1>4 DEF LinkSource
<1> HIDE DEF s
<1>7. /\ graph \subseteq graph' /\ graph' \subseteq Sources /\ refused' \subseteq Sources
      /\ written' \in [Procs -> BOOLEAN] /\ denied' \in [Procs -> BOOLEAN]
    BY <1>3, <1>5, <1>6 DEF JobTypes
<1>8. /\ offered' \in [Jobs -> SUBSET Sources] /\ s \in offered'[j]
      /\ \A i \in Jobs : offered[i] \subseteq offered'[i]
    BY <1>3, <1>5, <1>6 DEF JobTypes
<1>9. PassOf(p)'
    <2>1. /\ held'[p][Writer] = j /\ pc'[p][Writer] = "advance" /\ rows' = rows /\ pos' = pos
          /\ Work(held[p][Writer])' = Work(j)
          /\ KindOf(held[p][Writer])' = KindOf(j)
        BY <1>1, <1>2, GoesTo DEF Work, KindOf, tableVars
    <2>2. KindOf(j) = "fetch" =>
              \A i \in 1..Len(Work(j)) : i <= pos[p] + 1 => Work(j)[i] \in offered'[j]
        <3>1. \A i \in 1..Len(Work(j)) : i <= pos[p] + 1 => i <= pos[p] \/ i = pos[p] + 1
            BY <1>3
        <3>2. QED
            BY <1>4, <1>8, <3>1 DEF TakenUpTo, s
    <2>3. KindOf(j) = "fetch" => TakenUpTo(held[p][Writer], pos[p] + 1)'
        BY <2>1, <2>2 DEF TakenUpTo
    <2>4. QED
        BY <1>2, <1>4, <2>1, <2>3 DEF PassOf, PassSteps
<1>10. /\ staging' = [staging EXCEPT ![KindOf(j)][key[j]] = StagingOf(j)] /\ StagingOf(j) \in Files
       /\ cursor' = [cursor EXCEPT ![KindOf(j)][key[j]] = cursor[KindOf(j)][key[j]]]
       /\ cursor[KindOf(j)][key[j]] \in Nat /\ payload' = payload
    BY <1>2, <1>3 DEF JobTypes, StagingOf, fileVars
<1>11. KindOf(j) = "fetch" => \A i \in 1..Len(Work(j)) :
           i <= cursor[KindOf(j)][key[j]] => Work(j)[i] \in offered'[j]
    BY <1>3, <1>8 DEF ParseOf
<1>12. StagingOf(j) \in {Work(j), NoFile} /\ (StagingOf(j) = NoFile => Leaf(j))
    BY <1>3 DEF ParseOf
<1>13. "advance" \in WriteSteps \ {"off", "idle", "clean"}
    BY DEF WriteSteps, PassSteps
<1>14. rows' \in [Procs -> Seq(Sources)] /\ pos' \in [Procs -> Nat]
    BY <1>2, <1>3 DEF JobTypes
<1>15. QED
    BY <1>1, <1>2, <1>7, <1>8, <1>9, <1>10, <1>11, <1>12, <1>13, <1>14, WriterStep

(* The cursor moves over a group that was taken.                          *)
LEMMA AdvanceJob ==
    ASSUME JobInv, ProcInv', Alone, NEW p \in Procs, AdvanceCursor(p)
    PROVE  JobInv'
<1>1. PICK j \in Jobs : j = held[p][Writer]
    BY Phase2Job DEF AdvanceCursor, Active
<1> DEFINE n == pos[p] + 1
<1>2. /\ Active(p, Writer) /\ pc[p][Writer] = "advance" /\ Goes(p, Writer, "link")
      /\ pos' = [pos EXCEPT ![p] = n] /\ cursor' = [cursor EXCEPT ![KindOf(j)][key[j]] = pos'[p]]
      /\ UNCHANGED tableVars
      /\ UNCHANGED <<held, rows, written, denied, payload, staging, graph, refused, offered, answered>>
    BY <1>1 DEF AdvanceCursor, Active, lakeVars
<1>3. /\ ParseOf(j) /\ PassOf(p) /\ JobTypes /\ pos[p] \in Nat /\ Len(Work(j)) \in Nat
      /\ KindOf(j) \in Kinds /\ key[j] \in Keys
    BY <1>1, <1>2, Phase2Job
<1>4. /\ rows[p] = Work(j) /\ n \in Nat /\ n <= Len(Work(j))
      /\ KindOf(j) = "fetch" => TakenUpTo(j, n)
    BY <1>1, <1>2, <1>3 DEF PassOf, PassSteps
<1> HIDE DEF n
<1>5. pos'[p] = n /\ pos' \in [Procs -> Nat] /\ cursor' = [cursor EXCEPT ![KindOf(j)][key[j]] = n]
    BY <1>2, <1>3, <1>4 DEF JobTypes
<1>6. PassOf(p)'
    <2>1. /\ held'[p][Writer] = j /\ pc'[p][Writer] = "link" /\ rows' = rows
          /\ Work(held[p][Writer])' = Work(j)
          /\ KindOf(held[p][Writer])' = KindOf(j)
          /\ KindOf(j) = "fetch" => TakenUpTo(held[p][Writer], pos[p])'
        BY <1>1, <1>2, <1>4, <1>5, GoesTo DEF Work, KindOf, TakenUpTo, tableVars
    <2>2. QED
        BY <1>4, <1>5, <2>1 DEF PassOf, PassSteps
<1>7. /\ staging' = [staging EXCEPT ![KindOf(j)][key[j]] = StagingOf(j)] /\ StagingOf(j) \in Files
      /\ StagingOf(j) \in {Work(j), NoFile} /\ (StagingOf(j) = NoFile => Leaf(j))
    BY <1>2, <1>3 DEF JobTypes, StagingOf, ParseOf
<1>8. KindOf(j) = "fetch" => \A i \in 1..Len(Work(j)) : i <= n => Work(j)[i] \in offered'[j]
    BY <1>2, <1>4 DEF TakenUpTo
<1>9. /\ graph \subseteq graph' /\ graph' \subseteq Sources /\ refused' \subseteq Sources
      /\ offered' \in [Jobs -> SUBSET Sources] /\ \A i \in Jobs : offered[i] \subseteq offered'[i]
      /\ rows' \in [Procs -> Seq(Sources)]
      /\ written' \in [Procs -> BOOLEAN] /\ denied' \in [Procs -> BOOLEAN]
    BY <1>2, <1>3 DEF JobTypes
<1>10. "link" \in WriteSteps \ {"off", "idle", "clean"}
    BY DEF WriteSteps, PassSteps
<1>11. /\ Active(p, Writer) /\ Goes(p, Writer, "link") /\ UNCHANGED tableVars
       /\ UNCHANGED <<held, payload, answered>> /\ n \in Nat
    BY <1>2, <1>4
<1>12. QED
    BY <1>1, <1>5, <1>6, <1>7, <1>8, <1>9, <1>10, <1>11, WriterStep

(* The pass is over, and its guards let the job go on.                    *)
LEMMA PassOverJob ==
    ASSUME JobInv, ProcInv', Alone, NEW p \in Procs, EndOfPass(p) \/ Check(p)
    PROVE  JobInv'
<1>1. /\ Active(p, Writer) /\ pc[p][Writer] \in {"link", "check"}
      /\ UNCHANGED tableVars /\ UNCHANGED <<held, fileVars, lakeVars, answered>>
      /\ UNCHANGED <<rows, pos, written, denied>>
    BY DEF EndOfPass, Check, Active, passVars
<1>2. PICK j \in Jobs : j = held[p][Writer]
    BY <1>1, Phase2Job
<1>3. /\ PassOf(p) /\ JobTypes /\ pos[p] \in Nat /\ Len(Work(j)) \in Nat /\ Len(Work(j)) > 0
    BY <1>1, <1>2, Phase2Job
<1>4. rows[p] = Work(j)
    BY <1>1, <1>2, <1>3 DEF PassOf, PassSteps
<1>5. /\ held'[p][Writer] = j
      /\ Work(held[p][Writer])' = Work(j) /\ Work(j)' = Work(j)
      /\ KindOf(held[p][Writer])' = KindOf(j)
      /\ Offered(j) => Offered(held[p][Writer])'
      /\ Leaf(j) => Leaf(held[p][Writer])'
    BY <1>1, <1>2 DEF Work, KindOf, Offered, Leaf, tableVars, lakeVars
<1>6. CASE EndOfPass(p)
    <2>1. pos[p] = Len(rows[p]) /\ Goes(p, Writer, "check") /\ pc'[p][Writer] = "check"
        BY <1>6, GoesTo DEF EndOfPass
    <2>2. KindOf(j) = "fetch" => Offered(j)
        <3>1. KindOf(j) = "fetch" => TakenUpTo(j, Len(Work(j)))
            BY <1>2, <1>3, <1>4, <1>6, <2>1 DEF PassOf, EndOfPass
        <3>2. \A i \in 1..Len(Work(j)) : i <= Len(Work(j))
            BY <1>3
        <3>3. QED
            BY <3>1, <3>2 DEF TakenUpTo, Offered, Work
    <2>3. PassOf(p)'
        BY <1>1, <1>4, <1>5, <2>1, <2>2 DEF PassOf, PassSteps
    <2>4. "check" \in WriteSteps \ {"off", "idle", "clean"}
        BY DEF WriteSteps, PassSteps
    <2>5. QED
        BY <1>1, <1>3, <2>1, <2>3, <2>4, WriterPause DEF JobTypes
<1>7. CASE Check(p)
    <2>1. /\ pc[p][Writer] = "check" /\ HasLeaf(p) /\ Goes(p, Writer, "unlink")
          /\ pc'[p][Writer] = "unlink"
        BY <1>7, GoesTo DEF Check, GuardsPass
    <2>2. Leaf(j)
        <3>1. 1 \in 1..Len(Work(j))
            BY <1>3
        <3>2. QED
            BY <1>2, <1>4, <2>1, <3>1 DEF HasLeaf, Leaf
    <2>3. pos[p] = Len(rows[p]) /\ (KindOf(j) = "fetch" => Offered(j))
        BY <1>2, <1>3, <2>1 DEF PassOf
    <2>4. PassOf(p)'
        BY <1>1, <1>4, <1>5, <2>1, <2>2, <2>3 DEF PassOf, PassSteps
    <2>5. "unlink" \in WriteSteps \ {"off", "idle", "clean"}
        BY DEF WriteSteps, PassSteps
    <2>6. QED
        BY <1>1, <1>3, <2>1, <2>4, <2>5, WriterPause DEF JobTypes
<1>8. QED
    BY <1>6, <1>7

(* The staging file goes, then its cursor, of a job that left a leaf.     *)
LEMMA UnlinkJob ==
    ASSUME JobInv, ProcInv', Alone, NEW p \in Procs, UnlinkStaging(p) \/ UnlinkCursor(p)
    PROVE  JobInv'
<1>1. /\ Active(p, Writer) /\ pc[p][Writer] \in {"unlink", "uncursor"} /\ UNCHANGED tableVars
      /\ UNCHANGED <<held, payload, answered, graph, refused, offered>>
    BY DEF UnlinkStaging, UnlinkCursor, Active, lakeVars
<1>2. PICK j \in Jobs : j = held[p][Writer]
    BY <1>1, Phase2Job
<1>3. /\ ParseOf(j) /\ PassOf(p) /\ JobTypes /\ KindOf(j) \in Kinds /\ key[j] \in Keys
      /\ Len(Work(j)) \in Nat
    BY <1>1, <1>2, Phase2Job
<1>4. rows[p] = Work(j) /\ Leaf(j) /\ pos[p] = Len(rows[p]) /\ (KindOf(j) = "fetch" => Offered(j))
    BY <1>1, <1>2, <1>3 DEF PassOf, PassSteps
<1>5. /\ held'[p][Writer] = j
      /\ Work(held[p][Writer])' = Work(j)
      /\ KindOf(held[p][Writer])' = KindOf(j)
      /\ Offered(j) => Offered(held[p][Writer])'
      /\ Leaf(held[p][Writer])'
    BY <1>1, <1>2, <1>4 DEF Work, KindOf, Offered, Leaf, tableVars
<1>6. /\ staging = [staging EXCEPT ![KindOf(j)][key[j]] = StagingOf(j)] /\ StagingOf(j) \in Files
      /\ StagingOf(j) \in {Work(j), NoFile} /\ (StagingOf(j) = NoFile => Leaf(j))
      /\ cursor = [cursor EXCEPT ![KindOf(j)][key[j]] = cursor[KindOf(j)][key[j]]]
      /\ cursor[KindOf(j)][key[j]] \in Nat /\ NoFile \in Files /\ 0 \in Nat
    BY <1>3 DEF JobTypes, StagingOf, ParseOf, Files
<1>7. /\ graph \subseteq graph' /\ graph' \subseteq Sources /\ refused' \subseteq Sources
      /\ offered' \in [Jobs -> SUBSET Sources] /\ \A i \in Jobs : offered[i] \subseteq offered'[i]
    BY <1>1, <1>3 DEF JobTypes
<1>8. /\ "uncursor" \in WriteSteps \ {"off", "idle", "clean"}
      /\ "finish" \in WriteSteps \ {"off", "idle", "clean"}
    BY DEF WriteSteps, PassSteps
<1>9. CASE UnlinkStaging(p)
    <2>1. /\ staging' = [staging EXCEPT ![KindOf(j)][key[j]] = NoFile] /\ cursor' = cursor
          /\ Goes(p, Writer, "uncursor") /\ pc'[p][Writer] = "uncursor"
          /\ UNCHANGED <<rows, pos, written, denied>>
        BY <1>2, <1>9, GoesTo DEF UnlinkStaging, passVars
    <2>2. PassOf(p)'
        BY <1>4, <1>5, <2>1 DEF PassOf, PassSteps
    <2>3. KindOf(j) = "fetch" => \A i \in 1..Len(Work(j)) :
              i <= cursor[KindOf(j)][key[j]] => Work(j)[i] \in offered'[j]
        BY <1>1, <1>3 DEF ParseOf
    <2>4. /\ rows' \in [Procs -> Seq(Sources)] /\ pos' \in [Procs -> Nat]
          /\ written' \in [Procs -> BOOLEAN] /\ denied' \in [Procs -> BOOLEAN]
        BY <1>3, <2>1 DEF JobTypes
    <2>5. QED
        BY <1>1, <1>2, <1>4, <1>6, <1>7, <1>8, <2>1, <2>2, <2>3, <2>4, WriterStep
<1>10. CASE UnlinkCursor(p)
    <2>1. /\ cursor' = [cursor EXCEPT ![KindOf(j)][key[j]] = 0] /\ staging' = staging
          /\ Goes(p, Writer, "finish") /\ pc'[p][Writer] = "finish" /\ FreshPass(p, <<>>)
        BY <1>2, <1>10, GoesTo DEF UnlinkCursor
    <2>2. /\ rows' \in [Procs -> Seq(Sources)] /\ pos' \in [Procs -> Nat]
          /\ written' \in [Procs -> BOOLEAN] /\ denied' \in [Procs -> BOOLEAN]
          /\ rows'[p] = <<>> /\ pos'[p] = 0
        BY <1>3, <2>1 DEF JobTypes, FreshPass
    <2>3. PassOf(p)'
        BY <1>4, <1>5, <2>1, <2>2 DEF PassOf, PassSteps
    <2>4. KindOf(j) = "fetch" => \A i \in 1..Len(Work(j)) : i <= 0 => Work(j)[i] \in offered'[j]
        BY <1>3
    <2>5. QED
        BY <1>1, <1>2, <1>6, <1>7, <1>8, <2>1, <2>2, <2>3, <2>4, WriterStep
<1>11. QED
    BY <1>9, <1>10


-----------------------------------------------------------------------------
(* Rows come in, are claimed, and are recovered.                          *)
LEMMA ClaimJob ==
    ASSUME JobInv, ProcInv', Alone, NEW p \in Procs, NEW w \in Workers, NEW j \in Jobs,
           Claim(p, w, j)
    PROVE  JobInv'
<1> DEFINE from == IF w = Writer THEN "staged" ELSE "queued"
           step == IF w = Writer THEN "slot" ELSE IF KindOf(j) = "fetch" THEN "drop" ELSE "convert"
<1>1. /\ pc[p][w] = "idle" /\ status[j] = from
      /\ status' = [status EXCEPT ![j] = "running"] /\ stage' = [stage EXCEPT ![j] = RunsAt(w)]
      /\ attempts' = [attempts EXCEPT ![j] = @ + 1] /\ UNCHANGED <<key, hash>>
      /\ held' = [held EXCEPT ![p][w] = j] /\ Goes(p, w, step)
      /\ UNCHANGED <<passVars, fileVars, lakeVars, answered>>
      /\ UNCHANGED <<payload, staging, cursor, graph, refused, offered>>
    BY DEF Claim, ClaimRow, RunsAt, fileVars, lakeVars
<1>2. JobTypes /\ JobOf(j) /\ attempts[j] \in 0..MaxAttempts /\ attempts[j] < MaxAttempts
    BY <1>1 DEF JobInv, JobTypes, TableTypeOK, JobsInOrder, JobOf
<1>3. /\ status' \in [Jobs -> Statuses] /\ stage' \in [Jobs -> Stages]
      /\ attempts' \in [Jobs -> 0..MaxAttempts] /\ attempts'[j] > 0
      /\ status'[j] = "running" /\ stage'[j] = RunsAt(w)
      /\ \A i \in Jobs : i # j =>
             status'[i] = status[i] /\ stage'[i] = stage[i] /\ attempts'[i] = attempts[i]
    <2>1. attempts[j] + 1 \in 0..MaxAttempts /\ attempts[j] + 1 > 0
        BY <1>2, Facts
    <2>2. QED
        BY <1>1, <1>2, <2>1 DEF JobTypes, TableTypeOK, Statuses, Live, Stages, RunsAt
<1>4. \A i : KindOf(i)' = KindOf(i) /\ StagingOf(i)' = StagingOf(i) /\ Work(i)' = Work(i)
    BY <1>1 DEF KindOf, StagingOf, Work
<1>5. JobTypes'
    BY <1>1, <1>2, <1>3 DEF JobTypes, TableTypeOK, passVars, fileVars, lakeVars
<1>6. JobsInOrder'
    <2>1. JobOf(j)'
        <3>1. Parsed(j)' => Parsed(j)
            BY <1>1, <1>3 DEF Parsed, RunsAt
        <3>2. ParseOf(j) => ParseOf(j)'
            BY <1>1, <1>4 DEF ParseOf, Leaf
        <3>3. QED
            BY <1>1, <1>2, <1>3, <1>4, <3>1, <3>2 DEF JobOf, Live
    <2>2. ASSUME NEW i \in Jobs, i # j PROVE JobOf(i)'
        BY <1>1, <1>3, <1>4, <2>2, JobFrame DEF JobInv, JobsInOrder
    <2>3. QED
        BY <2>1, <2>2 DEF JobsInOrder
<1>7. OneLiveJobPerKey'
    <2>1. \A i \in Jobs : status'[i] \in Live => status[i] \in Live
        BY <1>1, <1>3 DEF Live
    <2>2. QED
        BY <1>1, <2>1 DEF JobInv, OneLiveJobPerKey, JobsIn
<1>8. /\ held'[p][w] = j /\ pc'[p][w] = step
      /\ \A q \in Procs, v \in Workers : q # p \/ v # w =>
             pc'[q][v] = pc[q][v] /\ held'[q][v] = held[q][v]
    BY <1>1 DEF JobInv, ProcInv, ProcTypes, Goes
(* A job in other hands is running; this one was not.                     *)
<1>9. ASSUME NEW q \in Procs, NEW v \in Workers, Active(q, v)
      PROVE  held[q][v] \in Jobs /\ held[q][v] # j
    BY <1>1, <1>9, AtWork DEF JobInv, Hands, HandOf, Active
<1>10. Hands'
    <2>1. HandOf(p, w)'
        BY <1>3, <1>4, <1>8 DEF HandOf, RunsAt
    <2>2. ASSUME NEW q \in Procs, NEW v \in Workers, q # p \/ v # w PROVE HandOf(q, v)'
        BY <1>1, <1>3, <1>4, <1>8, <1>9, <2>2, HandFrame DEF JobInv, Hands
    <2>3. ASSUME NEW q \in Procs, NEW u \in Workers, NEW v \in Workers,
                 Active(q, u)', Active(q, v)', held'[q][u] = held'[q][v]
          PROVE  u = v
        <3>1. \A x \in Workers : Active(q, x)' /\ (q # p \/ x # w) =>
                  Active(q, x) /\ held'[q][x] = held[q][x] /\ held[q][x] # j
            BY <1>8, <1>9 DEF Active
        <3>2. QED
            BY <1>8, <2>3, <3>1 DEF JobInv, Hands
    <2>4. QED
        BY <2>1, <2>2, <2>3 DEF Hands
<1>11. Passes'
    <2>1. ASSUME NEW q \in Procs PROVE PassOf(q)'
        <3>1. /\ PassOf(q) /\ Writer \in Workers
              /\ rows'[q] = rows[q] /\ pos'[q] = pos[q]
            BY <1>1, Facts DEF JobInv, Passes, passVars
        <3>2. CASE q = p /\ w = Writer
            BY <1>1, <1>8, <3>1, <3>2, PassFrame DEF PassSteps
        <3>3. CASE q # p \/ w # Writer
            BY <1>1, <1>8, <3>1, <3>3, PassFrame
        <3>4. QED
            BY <3>2, <3>3
    <2>2. QED
        BY <2>1 DEF Passes
<1>12. QED
    BY <1>5, <1>6, <1>7, <1>10, <1>11 DEF JobInv

LEMMA PostJob ==
    ASSUME JobInv, ProcInv', NEW p \in Procs, NEW k \in Keys, NEW h \in Hashes \cup {NoHash},
           NEW j \in Jobs, Post(p, k, h, j)
    PROVE  JobInv'
<1>1. /\ <<k, h>> \in Posts /\ status[j] = "unborn" /\ LiveWith(k) = {}
      /\ status' = [status EXCEPT ![j] = "queued"]
      /\ key' = [key EXCEPT ![j] = k] /\ hash' = [hash EXCEPT ![j] = h]
      /\ payload' = IF h = NoHash THEN payload ELSE [payload EXCEPT ![k] = h]
      /\ answered' = [answered EXCEPT ![j] = {h}]
      /\ UNCHANGED <<stage, attempts, pc, held, passVars, staging, cursor, graph, refused, offered>>
    BY DEF Post, Insert, lakeVars
<1>2. JobTypes /\ JobOf(j) /\ attempts[j] = 0
    BY <1>1 DEF JobInv, JobsInOrder, JobOf
<1>3. /\ status' \in [Jobs -> Statuses] /\ key' \in [Jobs -> Keys \cup {NoKey}]
      /\ hash' \in [Jobs -> Hashes \cup {NoHash}]
      /\ status'[j] = "queued" /\ key'[j] = k /\ hash'[j] = h
      /\ \A i \in Jobs : i # j => status'[i] = status[i] /\ key'[i] = key[i] /\ hash'[i] = hash[i]
    BY <1>1, <1>2 DEF JobTypes, TableTypeOK, Statuses, Live
<1>4. /\ payload' \in [Keys -> Hashes \cup {NoFile}]
      /\ h # NoHash => payload'[k] = h
      /\ \A a \in Keys : a # k => payload'[a] = payload[a]
    BY <1>1, <1>2 DEF JobTypes
<1>5. JobTypes'
    <2>1. answered' \in [Jobs -> SUBSET (Hashes \cup {NoHash})]
        BY <1>1, <1>2 DEF JobTypes
    <2>2. QED
        BY <1>1, <1>2, <1>3, <1>4, <2>1 DEF JobTypes, TableTypeOK, passVars
<1>6. ASSUME NEW i \in Jobs, status[i] \in Live
      PROVE  /\ i # j /\ key[i] \in Keys /\ key[i] # k
             /\ KindOf(i)' = KindOf(i) /\ StagingOf(i)' = StagingOf(i)
    <2>1. i # j /\ key[i] # k /\ key[i] \in Keys
        BY <1>1, <1>6, WorkFacts DEF LiveWith, JobsIn, Live
    <2>2. QED
        BY <1>1, <1>3, <2>1 DEF KindOf, StagingOf
<1>7. JobsInOrder'
    <2>1. JobOf(j)'
        <3>1. ~Parsed(j)' /\ (KindOf(j)' = "run" => h # NoHash)
            BY <1>3 DEF Parsed, KindOf
        <3>2. QED
            BY <1>1, <1>2, <1>3, <1>4, <3>1, Facts DEF JobOf
    <2>2. ASSUME NEW i \in Jobs, i # j PROVE JobOf(i)'
        <3>1. status[i] \in Live => payload'[key[i]] = payload[key[i]] /\ StagingOf(i)' = StagingOf(i)
            BY <1>4, <1>6
        <3>2. Parsed(i) => StagingOf(i)' = StagingOf(i)
            BY <3>1 DEF Parsed, Live
        <3>3. JobOf(i)
            BY DEF JobInv, JobsInOrder
        <3>4. QED
            BY <1>1, <1>3, <2>2, <3>1, <3>2, <3>3, JobFrame
    <2>3. QED
        BY <2>1, <2>2 DEF JobsInOrder
<1>8. OneLiveJobPerKey'
    <2>1. ASSUME NEW i \in Jobs, i # j, status'[i] \in Live PROVE status[i] \in Live /\ key'[i] # k
        BY <1>3, <1>6, <2>1
    <2>2. QED
        BY <1>3, <2>1 DEF JobInv, OneLiveJobPerKey, JobsIn
<1>9. ASSUME NEW q \in Procs, NEW v \in Workers, Active(q, v)
      PROVE  held[q][v] \in Jobs /\ status[held[q][v]] \in Live /\ held[q][v] # j
    <2>1. held[q][v] \in Jobs /\ status[held[q][v]] = "running"
        BY <1>9, AtWork DEF JobInv, Hands, HandOf, Active
    <2>2. QED
        BY <1>1, <2>1 DEF Live
<1>10. Hands'
    <2>1. ASSUME NEW q \in Procs, NEW v \in Workers PROVE HandOf(q, v)'
        BY <1>1, <1>3, <1>6, <1>9, HandFrame DEF JobInv, Hands
    <2>2. QED
        BY <1>1, <2>1 DEF JobInv, Hands, Active
<1>11. Passes'
    <2>1. ASSUME NEW q \in Procs PROVE PassOf(q)'
        <3>1. /\ PassOf(q) /\ Writer \in Workers
              /\ rows'[q] = rows[q] /\ pos'[q] = pos[q]
            BY <1>1, Facts DEF JobInv, Passes, passVars
        <3>2. pc[q][Writer] \in PassSteps \cup {"finish"} => Active(q, Writer)
            BY DEF Active, PassSteps
        <3>3. QED
            BY <1>1, <1>3, <1>9, <3>1, <3>2, PassFrame
    <2>2. QED
        BY <2>1 DEF Passes
<1>12. QED
    BY <1>5, <1>7, <1>8, <1>10, <1>11 DEF JobInv

LEMMA RecoverJob ==
    ASSUME JobInv, ProcInv', Alone, NEW p \in Procs, NEW j \in Jobs, Recover(p, j)
    PROVE  JobInv'
<1>1. /\ mode[p] = "recovering" /\ status[j] = "running" /\ RetryRow(j, CameFrom(j))
      /\ UNCHANGED <<pc, held>> /\ UNCHANGED <<passVars, fileVars, lakeVars, answered>>
    BY DEF Recover, RecoverRow
<1>2. /\ CameFrom(j) \in {"queued", "staged"} /\ (CameFrom(j) = "staged" => stage[j] = "phase2")
    BY DEF CameFrom
<1>3. /\ RowMoves(j, {"failed", CameFrom(j)}) /\ JobOf(j)'
      /\ stage' \in [Jobs -> Stages] /\ \A i \in Jobs : i # j => stage'[i] = stage[i]
      /\ UNCHANGED <<attempts, key, hash>>
    <2>1. UNCHANGED <<fileVars, lakeVars>>
        BY <1>1
    <2>2. QED
        BY <1>1, <1>2, <2>1, RetriedRow
<1>4. JobTypes' /\ JobsInOrder' /\ OneLiveJobPerKey'
    <2>1. attempts' \in [Jobs -> 0..MaxAttempts]
        BY <1>3 DEF JobInv, JobTypes, TableTypeOK
    <2>2. QED
        BY <1>1, <1>3, <2>1, RowStep
(* No thread runs during the recovery.                                    *)
<1>5. \A q \in Procs, v \in Workers : pc[q][v] = "off" /\ pc'[q][v] = "off"
    BY <1>1 DEF Alone, JobInv, ProcInv, Threads, ThreadsOf
<1>6. Hands'
    BY <1>5 DEF Hands, HandOf, Active
<1>7. Passes'
    <2>1. ASSUME NEW q \in Procs PROVE PassOf(q)'
        <3>1. /\ PassOf(q) /\ pc[q][Writer] = "off" /\ pc' = pc
              /\ rows'[q] = rows[q] /\ pos'[q] = pos[q] /\ graph' = graph
            BY <1>1, <1>5, Facts DEF JobInv, Passes, passVars, lakeVars
        <3>2. QED
            BY <3>1, PassFrame DEF PassSteps
    <2>2. QED
        BY <2>1 DEF Passes
<1>8. QED
    BY <1>4, <1>6, <1>7 DEF JobInv

(* Threads begin and end, and what processes do besides their threads.    *)
LEMMA QuietJob ==
    ASSUME JobInv, ProcInv', NEW p \in Procs,
           \/ \E w \in Workers : ThreadEnds(p, w) \/ Cleanup(p, w)
           \/ \E k \in Keys, h \in Hashes \cup {NoHash}, j \in Jobs : Repost(p, k, h, j)
           \/ StartThreads(p) \/ Start(p) \/ Stop(p) \/ StopReturns(p)
           \/ ManualStep(p) \/ \E kind \in {"phase2", "repair"} : StartManual(p, kind)
    PROVE  JobInv'
<1>1. JobTypes /\ Writer \in Workers
    BY Facts DEF JobInv
<1>2. UNCHANGED tableVars /\ UNCHANGED <<staging, cursor, graph, refused, offered>>
      /\ UNCHANGED <<rows, pos, written, denied>> /\ UNCHANGED <<key, hash>>
    BY DEF ThreadEnds, Cleanup, Repost, StartThreads, Start, Stop, StopReturns, ManualStep,
           ManualPhase2, EndManual, StartManual, fileVars, lakeVars, passVars, tableVars
<1>3. \A q \in Procs, v \in Workers :
          \/ pc'[q][v] = pc[q][v] /\ held'[q][v] = held[q][v]
          \/ pc'[q][v] \in {"off", "idle"} /\ pc[q][v] \in {"off", "idle", "clean"}
    <2>1. CASE \E w \in Workers : ThreadEnds(p, w) \/ Cleanup(p, w)
        <3>1. PICK w \in Workers : ThreadEnds(p, w) \/ Cleanup(p, w)
            BY <2>1
        <3>2. PICK step \in {"off", "idle"} : Goes(p, w, step)
            BY <3>1 DEF ThreadEnds, Cleanup, Rests
        <3>3. pc[p][w] \in {"idle", "clean"} /\ (held' = held \/ held' = [held EXCEPT ![p][w] = NoJob])
            BY <3>1 DEF ThreadEnds, Cleanup, Rests
        <3>4. \A q \in Procs, v \in Workers : pc'[q][v] = IF q = p /\ v = w THEN step ELSE pc[q][v]
            BY <3>2 DEF JobInv, ProcInv, ProcTypes, Goes
        <3>5. \A q \in Procs, v \in Workers : q # p \/ v # w => held'[q][v] = held[q][v]
            BY <3>3 DEF JobInv, ProcInv, ProcTypes
        <3>6. QED
            BY <3>3, <3>4, <3>5
    <2>2. CASE StartThreads(p)
        BY <2>2 DEF StartThreads, JobInv, ProcInv, ProcTypes, Threads, ThreadsOf
    <2>3. CASE \/ \E k \in Keys, h \in Hashes \cup {NoHash}, j \in Jobs : Repost(p, k, h, j)
               \/ Start(p) \/ Stop(p) \/ StopReturns(p)
               \/ ManualStep(p) \/ \E kind \in {"phase2", "repair"} : StartManual(p, kind)
        BY <2>3 DEF Repost, Start, Stop, StopReturns, ManualStep, ManualPhase2, EndManual,
                    StartManual
    <2>4. QED
        BY <2>1, <2>2, <2>3
<1>4. payload' \in [Keys -> Hashes \cup {NoFile}] /\ \A k \in Keys : payload'[k] \in {payload[k], NoFile}
    <2>1. payload' = payload \/ \E k : payload' = [payload EXCEPT ![k] = NoFile]
        BY DEF ThreadEnds, Cleanup, Repost, StartThreads, Start, Stop, StopReturns, ManualStep,
               ManualPhase2, EndManual, StartManual, fileVars
    <2>2. QED
        BY <1>1, <2>1 DEF JobTypes
<1>5. answered' \in [Jobs -> SUBSET (Hashes \cup {NoHash})]
    <2>1. \/ answered' = answered
          \/ \E h \in Hashes \cup {NoHash}, j \in Jobs :
                 answered' = [answered EXCEPT ![j] = @ \cup {h}]
        BY DEF ThreadEnds, Cleanup, Repost, StartThreads, Start, Stop, StopReturns, ManualStep,
               ManualPhase2, EndManual, StartManual
    <2>2. ASSUME NEW h \in Hashes \cup {NoHash}, NEW j \in Jobs,
                 answered' = [answered EXCEPT ![j] = @ \cup {h}]
          PROVE  answered' \in [Jobs -> SUBSET (Hashes \cup {NoHash})]
        <3>1. answered[j] \cup {h} \in SUBSET (Hashes \cup {NoHash})
            BY <1>1 DEF JobTypes
        <3>2. QED
            BY <1>1, <2>2, <3>1 DEF JobTypes
    <2>3. QED
        BY <1>1, <2>1, <2>2 DEF JobTypes
<1>6. \A q \in Procs : PassOf(q)'
    <2> SUFFICES ASSUME NEW q \in Procs PROVE PassOf(q)'
        OBVIOUS
    <2>1. /\ PassOf(q)
          /\ \/ pc'[q][Writer] = pc[q][Writer] /\ held'[q][Writer] = held[q][Writer]
             \/ {pc'[q][Writer], pc[q][Writer]} \cap (PassSteps \cup {"finish"}) = {}
        BY <1>1, <1>3 DEF JobInv, Passes, PassSteps
    <2>2. pc[q][Writer] \in PassSteps \cup {"finish"} => held'[q][Writer] = held[q][Writer]
        BY <2>1
    <2>3. QED
        BY <1>2, <2>1, <2>2, PassFrame
<1>7. QED
    BY <1>1, <1>2, <1>3, <1>4, <1>5, <1>6, IdleStep DEF JobTypes

(* A step whose last write raises, or whose unlink does: the thread rests *)
(* and the row stays.                                                     *)
LEMMA RecordLostJob ==
    ASSUME JobInv, ProcInv', NEW p \in Procs, NEW w \in Workers, RecordLost(p, w)
    PROVE  JobInv'
<1>1. /\ JobTypes /\ Writer \in Workers
      /\ UNCHANGED tableVars /\ UNCHANGED <<payload, staging, cursor, graph, refused, offered, answered>>
      /\ UNCHANGED <<rows, pos, written, denied>>
      /\ pc[p][w] \notin PassSteps
    BY Facts DEF JobInv, RecordLost, fileVars, lakeVars, passVars, PassSteps
<1>2. PICK step \in {"off", "idle"} : Goes(p, w, step)
    BY DEF RecordLost, Rests
<1>3. /\ \A q \in Procs, v \in Workers : pc'[q][v] = IF q = p /\ v = w THEN step ELSE pc[q][v]
      /\ \A q \in Procs, v \in Workers : q # p \/ v # w => held'[q][v] = held[q][v]
    BY <1>2 DEF JobInv, ProcInv, ProcTypes, Goes, RecordLost, Rests
<1>4. ASSUME NEW q \in Procs PROVE PassOf(q)'
    <2>1. PassOf(q) /\ rows'[q] = rows[q] /\ pos'[q] = pos[q]
        BY <1>1 DEF JobInv, Passes
    <2>2. CASE q = p /\ w = Writer
        <3>1. /\ pc[q][Writer] \notin PassSteps /\ pc'[q][Writer] \notin PassSteps \cup {"finish"}
            BY <1>1, <1>2, <1>3, <2>2 DEF PassSteps
        <3>2. rows'[q] = <<>> /\ pos'[q] = 0
            BY <2>1, <3>1 DEF PassOf
        <3>3. QED
            BY <3>1, <3>2 DEF PassOf, PassSteps
    <2>3. CASE ~(q = p /\ w = Writer)
        <3>1. pc'[q][Writer] = pc[q][Writer] /\ held'[q][Writer] = held[q][Writer]
            BY <1>1, <1>3, <2>3
        <3>2. UNCHANGED <<key, hash, offered, graph>>
            BY <1>1 DEF tableVars
        <3>3. QED
            BY <2>1, <3>1, <3>2, PassFrame
    <2>4. QED
        BY <2>2, <2>3
<1>5. \A q \in Procs, v \in Workers :
          \/ pc'[q][v] = pc[q][v] /\ held'[q][v] = held[q][v]
          \/ pc'[q][v] \in {"off", "idle"}
    BY <1>3
<1>6. QED
    BY <1>1, <1>4, <1>5, IdleStep DEF JobTypes

(* A process that is gone leaves the table and the files as they are.     *)
LEMMA GoneJob ==
    ASSUME JobInv, ProcInv', NEW p \in Procs, Gone(p)
    PROVE  JobInv'
<1>1. /\ UNCHANGED tableVars /\ UNCHANGED <<payload, staging, cursor, graph, refused, offered, answered>>
      /\ pc' = [pc EXCEPT ![p] = [w \in Workers |-> "off"]]
      /\ held' = [held EXCEPT ![p] = [w \in Workers |-> NoJob]]
      /\ UNCHANGED <<key, hash>> /\ FreshPass(p, <<>>)
    BY DEF Gone, fileVars, lakeVars, tableVars
<1>2. /\ JobTypes /\ Writer \in Workers
      /\ \A w \in Workers : pc'[p][w] = "off"
      /\ \A q \in Procs : q # p => pc'[q] = pc[q] /\ held'[q] = held[q]
    BY <1>1, Facts DEF JobInv, ProcInv, ProcTypes
<1>3. /\ PassOf(p)'
      /\ rows' \in [Procs -> Seq(Sources)] /\ pos' \in [Procs -> Nat]
      /\ written' \in [Procs -> BOOLEAN] /\ denied' \in [Procs -> BOOLEAN]
    BY <1>1, <1>2, LeftPass DEF PassSteps
<1>4. ASSUME NEW q \in Procs, q # p PROVE PassOf(q)'
    <2>1. PassOf(q) /\ rows'[q] = rows[q] /\ pos'[q] = pos[q]
        BY <1>1, <1>2, <1>4 DEF JobInv, Passes, FreshPass, JobTypes
    <2>2. QED
        BY <1>1, <1>2, <1>4, <2>1, PassFrame
<1>5. /\ payload' \in [Keys -> Hashes \cup {NoFile}]
      /\ answered' \in [Jobs -> SUBSET (Hashes \cup {NoHash})]
    BY <1>1, <1>2 DEF JobTypes
<1>6. \A q \in Procs, v \in Workers :
          \/ pc'[q][v] = pc[q][v] /\ held'[q][v] = held[q][v]
          \/ pc'[q][v] \in {"off", "idle"}
    BY <1>2
<1>7. QED
    BY <1>1, <1>3, <1>4, <1>5, <1>6, IdleStep

-----------------------------------------------------------------------------
LEMMA JobInvInit == Init => JobInv
<1> SUFFICES ASSUME Init PROVE JobInv
    OBVIOUS
<1>1. ProcInv
    BY ProcInvInit
<1>2. JobTypes
    BY Facts DEF Init, TableInit, JobTypes, TableTypeOK, Statuses, Stages, Files
<1>3. JobsInOrder /\ OneLiveJobPerKey
    BY DEF Init, TableInit, JobsInOrder, JobOf, Parsed, OneLiveJobPerKey, JobsIn, Live
<1>4. Hands /\ Passes
    BY Facts DEF Init, Hands, HandOf, Active, Passes, PassOf, PassSteps
<1>5. QED
    BY <1>1, <1>2, <1>3, <1>4 DEF JobInv

LEMMA JobInvStep == Alone /\ JobInv /\ [Next]_vars => JobInv'
<1> SUFFICES ASSUME Alone, JobInv, [Next]_vars PROVE JobInv'
    OBVIOUS
<1>1. ProcInv'
    BY ProcInvStep DEF JobInv
<1>2. CASE UNCHANGED vars
    <2> USE <1>2 DEF vars, tableVars, procVars, passVars, fileVars, lakeVars
    <2>1. JobTypes' /\ OneLiveJobPerKey'
        BY DEF JobInv, JobTypes, TableTypeOK, OneLiveJobPerKey, JobsIn
    <2>2. JobsInOrder'
        BY DEF JobInv, JobsInOrder, JobOf, Parsed, ParseOf, KindOf, StagingOf, Work, Leaf, Offered
    <2>3. Hands'
        BY DEF JobInv, Hands, HandOf, Active, KindOf, StagingOf, Work
    <2>4. Passes'
        BY DEF JobInv, Passes, PassOf, KindOf, Work, Leaf, TakenUpTo, Offered
    <2>5. QED
        BY <1>1, <2>1, <2>2, <2>3, <2>4 DEF JobInv
<1>3. CASE Next
    <2>1. PICK p \in Procs :
              \/ \E k \in Keys, h \in Hashes \cup {NoHash}, j \in Jobs :
                     Post(p, k, h, j) \/ Repost(p, k, h, j)
              \/ \E w \in Fetchers : FetchStep(p, w)
              \/ WriteStep(p) \/ ManualStep(p)
              \/ \E kind \in {"phase2", "repair"} : StartManual(p, kind)
              \/ Boot(p) \/ Stop(p) \/ StopReturns(p) \/ Exit(p) \/ Crash(p)
        BY <1>3 DEF Next
    <2>2. ASSUME NEW w \in Fetchers, FetchStep(p, w) PROVE JobInv'
        BY <1>1, <2>2, ClaimJob, FetchJob, CommitJob, FailJob, QuietJob, RecordLostJob, Facts
           DEF FetchStep
    <2>3. CASE WriteStep(p)
        BY <1>1, <2>3, ClaimJob, BusyJob, SlotJob, ReadJob, LinkJob, AdvanceJob, PassOverJob,
           UnlinkJob, FinishJob, FailJob, QuietJob, RecordLostJob, Facts DEF WriteStep
    <2>4. CASE Boot(p)
        BY <1>1, <2>4, QuietJob, RecoverJob DEF Boot
    <2>5. CASE Exit(p) \/ Crash(p)
        BY <1>1, <2>5, GoneJob DEF Exit, Crash
    <2>6. CASE \E k \in Keys, h \in Hashes \cup {NoHash}, j \in Jobs :
                   Post(p, k, h, j) \/ Repost(p, k, h, j)
        BY <1>1, <2>6, PostJob, QuietJob
    <2>7. CASE \/ ManualStep(p) \/ Stop(p) \/ StopReturns(p)
               \/ \E kind \in {"phase2", "repair"} : StartManual(p, kind)
        BY <1>1, <2>7, QuietJob
    <2>8. QED
        BY <2>1, <2>2, <2>3, <2>4, <2>5, <2>6, <2>7
<1>4. QED
    BY <1>2, <1>3

(* One process after another: a job's bytes, files, cursor and threads    *)
(* stay those of the job, whatever fails, is retried, stops or dies.      *)
THEOREM JobsKeepTheirWork == Alone => (Spec => []JobInv)
<1>1. Alone /\ Init => JobInv
    BY JobInvInit
<1>2. Alone /\ JobInv /\ [Next]_vars => JobInv'
    BY JobInvStep
<1>3. Alone => Alone'
    BY DEF Alone
<1>4. QED
    BY <1>1, <1>2, <1>3, PTL DEF Spec

(* Every variable keeps its type: no release of an attempt that was never *)
(* taken, no third level of the lock, no cursor past the lines read.      *)
THEOREM TypeCorrect == Alone => (Spec => []TypeOK)
<1>1. JobInv => TypeOK
    <2> SUFFICES ASSUME JobInv PROVE TypeOK
        OBVIOUS
    <2>1. ProcTypes /\ JobTypes
        BY DEF JobInv, ProcInv
    <2>2. depth \in [Procs -> 0..2]
        <3>1. ASSUME NEW p \in Procs PROVE depth[p] \in 0..2
            <4>1. LinkLevels(p) \in 0..1
                BY DEF JobInv, ProcInv, Threads, SlotOf, LinkLevels, PassSteps
            <4>2. depth[p] \in {0, LinkLevels(p), 1 + LinkLevels(p)}
                BY <2>1 DEF JobInv, ProcInv, ProcTypes, Levels, LevelsOf
            <4>3. QED
                BY <4>1, <4>2
        <3>2. QED
            BY <2>1, <3>1 DEF ProcTypes
    <2>3. pc \in [Procs -> [Workers -> Steps]]
        BY <2>1 DEF ProcTypes, FetchSteps, WriteSteps, PassSteps, Steps
    <2>4. ASSUME NEW p \in Procs PROVE pos[p] \in 0..Len(rows[p])
        <3>1. PassOf(p) /\ pos[p] \in Nat /\ rows[p] \in Seq(Sources)
            BY <2>1 DEF JobInv, Passes, JobTypes
        <3>2. pos[p] <= Len(rows[p])
            BY <3>1 DEF PassOf, PassSteps
        <3>3. QED
            BY <3>1, <3>2
    <2>5. \A kind \in Kinds, k \in Keys : cursor[kind][k] \in Nat
        BY <2>1 DEF JobTypes
    <2>6. QED
        BY <2>1, <2>2, <2>3, <2>4, <2>5 DEF TypeOK, ProcTypes, JobTypes
<1>2. QED
    BY <1>1, JobsKeepTheirWork, PTL

(* A job that reads "ok" has a leaf in the store.                         *)
THEOREM OkMeansALeaf == Alone => (Spec => []OkHasLeaf)
<1>1. JobInv => OkHasLeaf
    BY DEF JobInv, JobsInOrder, JobOf, OkHasLeaf, Leaf, Work, JobsIn
<1>2. QED
    BY <1>1, JobsKeepTheirWork, PTL

(* A job that waits for phase 2 has its staging file, or its work is in   *)
(* the store.                                                             *)
THEOREM StagedWorkIsKept == Alone => (Spec => []StagedKeepsItsWork)
<1>1. JobInv => StagedKeepsItsWork
    BY DEF JobInv, JobsInOrder, JobOf, StagedKeepsItsWork, Parsed, ParseOf, Leaf, Work, JobsIn
<1>2. QED
    BY <1>1, JobsKeepTheirWork, PTL

(* A fetch job that ends "ok" had every source of its article taken by a  *)
(* pass of its own.                                                       *)
THEOREM OkFetchWasTaken == Alone => (Spec => []OkFetchOffered)
<1>1. JobInv => OkFetchOffered
    BY DEF JobInv, JobsInOrder, JobOf, OkFetchOffered, JobsIn
<1>2. QED
    BY <1>1, JobsKeepTheirWork, PTL

-----------------------------------------------------------------------------
(* The lock itself, whose levels the workers count: its own variables,    *)
(* and the steps between open(), flock() and the pid (module WriterLock). *)

(* A process owns the flock exactly when it has counted a level or is     *)
(* about to; a dead process is nowhere; and the pid follows the level.    *)
LockInv ==
    /\ \A p \in Processes : holder = p <=> (place[p] = "locked" \/ level[p] > 0)
    /\ \A p \in Processes : place[p] # "idle" => p \in alive /\ level[p] = 0
    /\ \A p \in Processes : level[p] > 0 => p \in alive
    /\ PidNamesWriter

(* Every variable of the lock keeps its type.                             *)
LEMMA LockTypes == LockTypeOK /\ [LockNext]_lockVars => LockTypeOK'
<1> SUFFICES ASSUME LockTypeOK, [LockNext]_lockVars PROVE LockTypeOK'
    OBVIOUS
<1> USE LockAssumption DEF LockTypeOK
<1>1. ASSUME NEW p \in Processes, Reenter(p) PROVE LockTypeOK'
    BY <1>1 DEF Reenter
<1>2. ASSUME NEW p \in Processes, OpenFile(p) PROVE LockTypeOK'
    BY <1>2 DEF OpenFile
<1>3. ASSUME NEW p \in Processes, FlockGranted(p) PROVE LockTypeOK'
    BY <1>3 DEF FlockGranted
<1>4. ASSUME NEW p \in Processes, FlockRefused(p) \/ FlockError(p) PROVE LockTypeOK'
    BY <1>4 DEF FlockRefused, FlockError
<1>5. ASSUME NEW p \in Processes, WritePid(p) PROVE LockTypeOK'
    BY <1>5 DEF WritePid
<1>6. ASSUME NEW p \in Processes, Release(p) PROVE LockTypeOK'
    BY <1>6 DEF Release
<1>7. ASSUME NEW p \in Processes, Spawn(p) PROVE LockTypeOK'
    BY <1>7 DEF Spawn
<1>8. ASSUME NEW p \in Processes, Die(p) PROVE LockTypeOK'
    BY <1>8 DEF Die
<1>9. CASE UNCHANGED lockVars
    BY <1>9 DEF lockVars
<1>10. QED
    BY <1>1, <1>2, <1>3, <1>4, <1>5, <1>6, <1>7, <1>8, <1>9 DEF LockNext

(* The inductive step of LockInv, one action at a time.                   *)
LEMMA LockStep ==
    LockTypeOK /\ LockInv /\ [LockNext]_lockVars => LockInv'
<1> SUFFICES ASSUME LockTypeOK, LockInv, [LockNext]_lockVars PROVE LockInv'
    OBVIOUS
<1> USE LockAssumption DEF LockTypeOK, LockInv, PidNamesWriter
<1>1. ASSUME NEW p \in Processes, Reenter(p) PROVE LockInv'
    BY <1>1 DEF Reenter
<1>2. ASSUME NEW p \in Processes, OpenFile(p) PROVE LockInv'
    BY <1>2 DEF OpenFile
<1>3. ASSUME NEW p \in Processes, FlockGranted(p) PROVE LockInv'
    BY <1>3 DEF FlockGranted
<1>4. ASSUME NEW p \in Processes, FlockRefused(p) \/ FlockError(p) PROVE LockInv'
    BY <1>4 DEF FlockRefused, FlockError
<1>5. ASSUME NEW p \in Processes, WritePid(p) PROVE LockInv'
    BY <1>5 DEF WritePid
<1>6. ASSUME NEW p \in Processes, Release(p) PROVE LockInv'
    BY <1>6 DEF Release
<1>7. ASSUME NEW p \in Processes, Spawn(p) PROVE LockInv'
    BY <1>7 DEF Spawn
<1>8. ASSUME NEW p \in Processes, Die(p) PROVE LockInv'
    BY <1>8 DEF Die
<1>9. CASE UNCHANGED lockVars
    BY <1>9 DEF lockVars
<1>10. QED
    BY <1>1, <1>2, <1>3, <1>4, <1>5, <1>6, <1>7, <1>8, <1>9 DEF LockNext

(* The state of every process keeps its type, and the flock agrees with   *)
(* what each process believes about it.                                   *)
THEOREM LockInvariant == LockSpec => [](LockTypeOK /\ LockInv)
<1>1. LockInit => LockTypeOK /\ LockInv
    BY LockAssumption DEF LockInit, LockTypeOK, LockInv, PidNamesWriter
<1>2. LockTypeOK /\ LockInv /\ [LockNext]_lockVars => (LockTypeOK /\ LockInv)'
    BY LockTypes, LockStep
<1>3. QED
    BY <1>1, <1>2, PTL DEF LockSpec

(* acquire() of writer_lock.py: two processes never both hold the lock.   *)
THEOREM WriterExclusion ==
    LockSpec => [](\A p, q \in Processes : level[p] > 0 /\ level[q] > 0 => p = q)
<1>1. LockInv => \A p, q \in Processes : level[p] > 0 /\ level[q] > 0 => p = q
    BY DEF LockInv
<1>2. QED
    BY <1>1, LockInvariant, PTL

(* The pid in the lock file is the holder's, refusals notwithstanding.    *)
THEOREM PidIsTheWriters == LockSpec => []PidNamesWriter
<1>1. LockInv => PidNamesWriter
    BY DEF LockInv
<1>2. QED
    BY <1>1, LockInvariant, PTL

(* release() of an inner level never frees the OS lock.                   *)
THEOREM NestedRelease == LockSpec => InnerReleaseKeepsLock
<1> DEFINE Keeps == \A p \in Processes : level'[p] > 0 => holder' = p
<1>1. LockInv' => Keeps
    BY DEF LockInv
<1>2. LockTypeOK /\ LockInv /\ [LockNext]_lockVars => [Keeps]_lockVars
    BY <1>1, LockStep
<1>3. QED
    BY <1>2, LockInvariant, PTL DEF LockSpec, InnerReleaseKeepsLock

(* One step of the lock under the mutex: the pid is written into a lake   *)
(* without a writer, and the last level or the process goes.              *)
LEMMA MutexStep ==
    ASSUME LockTypeOK, LockInv, [LockNext]_lockVars
    PROVE  [Mutex!Next]_({p \in Processes : level[p] > 0})
<1> DEFINE W == {p \in Processes : level[p] > 0}
<1> SUFFICES (\E p \in Processes : \/ W = {} /\ W' = {p}
                                   \/ W = {p} /\ W' = {}) \/ W' = W
    BY DEF Mutex!Next, Mutex!Enter, Mutex!Leave
<1> USE LockAssumption
<1>1. ASSUME NEW p \in Processes, WritePid(p) PROVE W = {} /\ W' = {p}
    BY <1>1 DEF WritePid, LockInv, LockTypeOK
<1>2. ASSUME NEW p \in Processes, Release(p) \/ Die(p)
      PROVE  (W = {p} /\ W' = {}) \/ W' = W
    BY <1>2 DEF Release, Die, LockInv, LockTypeOK
<1>3. ASSUME NEW p \in Processes, Reenter(p) PROVE W' = W
    BY <1>3 DEF Reenter, LockTypeOK
<1>4. ASSUME level' = level PROVE W' = W
    BY <1>4
<1>5. QED
    BY <1>1, <1>2, <1>3, <1>4 DEF LockNext, lockVars, OpenFile, FlockGranted,
       FlockRefused, FlockError, Spawn

(* For any processes and any nesting, the lock is a mutex: a process      *)
(* enters an unwritten lake only, and leaves by its last release or dead. *)
THEOREM LockIsAMutex == LockSpec => ImplementsMutex
<1>1. LockInit => Mutex!Init
    BY DEF LockInit, Mutex!Init
<1>2. LockTypeOK /\ LockInv /\ [LockNext]_lockVars
        => [Mutex!Next]_({p \in Processes : level[p] > 0})
    BY MutexStep
<1>3. QED
    BY <1>1, <1>2, LockInvariant, PTL DEF LockSpec, ImplementsMutex, Mutex!Spec

=============================================================================
