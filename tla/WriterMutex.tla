----------------------------- MODULE WriterMutex -----------------------------
(***************************************************************************)
(* What the writer lock promises: one process at a time writes the lake.   *)
(* The lake passes from a writer to nobody and from nobody to a writer,    *)
(* never from hand to hand, and a writer leaves before another enters      *)
(* whether it gives the lock back or dies with it.                         *)
(***************************************************************************)
CONSTANT Procs
VARIABLE writers

Init == writers = {}

Enter(p) == writers = {} /\ writers' = {p}

Leave(p) == writers = {p} /\ writers' = {}

Next == \E p \in Procs : Enter(p) \/ Leave(p)

Spec == Init /\ [][Next]_writers

=============================================================================
