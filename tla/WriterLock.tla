------------------------------ MODULE WriterLock ------------------------------
(***************************************************************************)
(* The OS-level writer lock of the lake (src/lake/writer_lock.py).         *)
(*                                                                         *)
(* A process takes the lock with flock on one file, without waiting, and   *)
(* counts how many levels deep it holds it; the file's content is the pid  *)
(* of the writer.  Inside a process the module's own mutex serialises      *)
(* acquire and release, so a process is one sequential actor here.  Taking *)
(* the lock is three separate system calls (open, flock, write the pid),   *)
(* and another process or a death may come between any two of them.        *)
(* The names are the lock's own: IngestWorkers counts levels of it too.    *)
(***************************************************************************)
EXTENDS Naturals

CONSTANTS
    Processes,  (* processes that may want to write the lake              *)
    NoProc,     (* nobody                                                 *)
    MaxDepth    (* bound: levels one process nests                        *)

ASSUME LockAssumption ==
    /\ NoProc \notin Processes
    /\ MaxDepth \in Nat \ {0}

VARIABLES
    alive,      (* processes that run                                     *)
    place,      (* where each process is inside acquire()                 *)
    level,      (* _depth of each process                                 *)
    holder,     (* who owns the flock                                     *)
    pidFile     (* the content of the lock file                           *)

lockVars == <<alive, place, level, holder, pidFile>>

LockTypeOK ==
    /\ alive \subseteq Processes
    /\ place \in [Processes -> {"idle", "opened", "locked"}]
    /\ level \in [Processes -> 0..MaxDepth]
    /\ holder \in Processes \cup {NoProc}
    /\ pidFile \in Processes \cup {NoProc}

LockInit ==
    /\ alive = {}
    /\ place = [p \in Processes |-> "idle"]
    /\ level = [p \in Processes |-> 0]
    /\ holder = NoProc
    /\ pidFile = NoProc

-----------------------------------------------------------------------------
(* acquire() of a process that already holds the lock: one level deeper.  *)
Reenter(p) ==
    /\ p \in alive /\ place[p] = "idle"
    /\ level[p] \in 1..(MaxDepth - 1)
    /\ level' = [level EXCEPT ![p] = @ + 1]
    /\ UNCHANGED <<alive, place, holder, pidFile>>

(* Bug: opened with "w", which truncates before the lock is asked for.    *)
OpenTruncating(p) ==
    /\ p \in alive /\ place[p] = "idle"
    /\ level[p] = 0
    /\ place' = [place EXCEPT ![p] = "opened"]
    /\ pidFile' = NoProc
    /\ UNCHANGED <<alive, level, holder>>

(* The file is opened for append: its content stays.                      *)
OpenFile(p) ==
    /\ p \in alive /\ place[p] = "idle"
    /\ level[p] = 0
    /\ place' = [place EXCEPT ![p] = "opened"]
    /\ UNCHANGED <<alive, level, holder, pidFile>>

(* Bug: a lock that everybody gets (no LOCK_EX).                          *)
FlockShared(p) ==
    /\ place[p] = "opened"
    /\ holder' = p
    /\ place' = [place EXCEPT ![p] = "locked"]
    /\ UNCHANGED <<alive, level, pidFile>>

FlockGranted(p) ==
    /\ place[p] = "opened"
    /\ holder = NoProc
    /\ holder' = p
    /\ place' = [place EXCEPT ![p] = "locked"]
    /\ UNCHANGED <<alive, level, pidFile>>

(* SecondWriter: another process has the lock.  The file is not touched.  *)
FlockRefused(p) ==
    /\ place[p] = "opened"
    /\ holder # NoProc
    /\ place' = [place EXCEPT ![p] = "idle"]
    /\ UNCHANGED <<alive, level, holder, pidFile>>

(* A filesystem without flock (ENOTSUP): the OSError is raised as itself. *)
FlockError(p) ==
    /\ place[p] = "opened"
    /\ place' = [place EXCEPT ![p] = "idle"]
    /\ UNCHANGED <<alive, level, holder, pidFile>>

(* Truncate the file, write the pid, and only then count one level.       *)
WritePid(p) ==
    /\ place[p] = "locked"
    /\ pidFile' = p
    /\ level' = [level EXCEPT ![p] = 1]
    /\ place' = [place EXCEPT ![p] = "idle"]
    /\ UNCHANGED <<alive, holder>>

(* Bug: every release closes the handle.                                   *)
ReleaseClosing(p) ==
    /\ p \in alive /\ place[p] = "idle"
    /\ level[p] > 0
    /\ level' = [level EXCEPT ![p] = @ - 1]
    /\ holder' = NoProc
    /\ UNCHANGED <<alive, place, pidFile>>

(* release(): one level; the handle, and with it the flock, at level 0.   *)
(* At level 0 the call does nothing.                                      *)
Release(p) ==
    /\ p \in alive /\ place[p] = "idle"
    /\ level[p] > 0
    /\ level' = [level EXCEPT ![p] = @ - 1]
    /\ holder' = IF level[p] = 1 THEN NoProc ELSE holder
    /\ UNCHANGED <<alive, place, pidFile>>

(* External: the OS starts a process, and takes its flock when it dies.   *)
Spawn(p) ==
    /\ p \notin alive
    /\ alive' = alive \cup {p}
    /\ UNCHANGED <<place, level, holder, pidFile>>

Die(p) ==
    /\ p \in alive
    /\ alive' = alive \ {p}
    /\ place' = [place EXCEPT ![p] = "idle"]
    /\ level' = [level EXCEPT ![p] = 0]
    /\ holder' = IF holder = p THEN NoProc ELSE holder
    /\ UNCHANGED pidFile

LockNext ==
    \E p \in Processes :
        \/ Reenter(p) \/ OpenFile(p) \/ FlockGranted(p) \/ FlockRefused(p)
        \/ FlockError(p) \/ WritePid(p) \/ Release(p) \/ Spawn(p) \/ Die(p)

LockSpec == LockInit /\ [][LockNext]_lockVars

-----------------------------------------------------------------------------
(* Who writes: a process between acquire() and its last release().        *)
Mutex == INSTANCE WriterMutex WITH Procs <- Processes, writers <- {p \in Processes : level[p] > 0}

(* Exactly one process at a time is inside acquire() .. release(): the    *)
(* guard against two phase-2 writers on one lake, whatever dies between   *)
(* open, flock and the pid.  The levels implement the mutex: a process    *)
(* enters only a lake without a writer, and no step hands it over.        *)
ImplementsMutex == Mutex!Spec

(* The lock file names the process that writes: a refused second writer   *)
(* must not wipe the pid it is told to look at.                           *)
PidNamesWriter ==
    \A p \in Processes : level[p] > 0 => pidFile = p

(* An inner release gives back one level and not the OS lock: while a     *)
(* process still counts a level, no step frees the flock under it.        *)
InnerReleaseKeepsLock ==
    [][\A p \in Processes : level'[p] > 0 => holder' = p]_lockVars

=============================================================================
