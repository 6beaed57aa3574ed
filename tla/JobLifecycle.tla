----------------------------- MODULE JobLifecycle -----------------------------
(***************************************************************************)
(* What the job queue promises a caller who polls a job id: the job goes   *)
(* forward only.  Accepted work is parsed, parsed work is ingested, either *)
(* may fail, and an outcome is final until the ring forgets the row.       *)
(* Nothing ever parses a job twice after its parse was recorded, and no    *)
(* job is ingested that was not parsed.                                    *)
(***************************************************************************)
CONSTANT Jobs
VARIABLE phase

Phases == {"absent", "accepted", "parsed", "ingested", "failed", "forgotten"}

TypeOK == phase \in [Jobs -> Phases]

Init == phase = [j \in Jobs |-> "absent"]

Accept(j) ==
    /\ phase[j] = "absent"
    /\ phase' = [phase EXCEPT ![j] = "accepted"]

Parse(j) ==
    /\ phase[j] = "accepted"
    /\ phase' = [phase EXCEPT ![j] = "parsed"]

(* An outcome is recorded, and older outcomes may be forgotten with it.   *)
Settle(j, outcome) ==
    \E old \in SUBSET {i \in Jobs : phase[i] \in {"ingested", "failed"}} :
        /\ j \notin old
        /\ phase' = [i \in Jobs |-> IF i = j THEN outcome
                                    ELSE IF i \in old THEN "forgotten"
                                    ELSE phase[i]]

Ingest(j) == phase[j] = "parsed" /\ Settle(j, "ingested")

Fail(j) == phase[j] \in {"accepted", "parsed"} /\ Settle(j, "failed")

Next == \E j \in Jobs : Accept(j) \/ Parse(j) \/ Ingest(j) \/ Fail(j)

Spec == Init /\ [][Next]_phase

=============================================================================
