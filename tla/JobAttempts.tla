---------------------------- MODULE JobAttempts ----------------------------
(***************************************************************************)
(* What a basket-split job promises, whoever writes its row: a job is a    *)
(* series of attempts, an attempt is claimed at most once, only the worker *)
(* that claimed the current attempt completes the job, and an attempt that *)
(* failed or was replaced by a retry never comes back.                     *)
(***************************************************************************)
EXTENDS Naturals

CONSTANTS
    Jobs,
    Legacy,    \* jobs that are already queued
    None

VARIABLE row

Status == {"none", "queued", "running", "completed", "failed"}

Row == [status: Status, attempt: Nat, result: Nat \cup {None}]

Init ==
    row = [j \in Jobs |-> [status  |-> IF j \in Legacy THEN "queued" ELSE "none",
                           attempt |-> 0, result |-> None]]

\* A job is submitted, or retried whatever became of it: a later attempt starts.
Start(old, new) ==
    /\ new.status = "queued" /\ new.attempt > old.attempt
    /\ new.result \in {old.result, None}

Claim(old, new) == old.status = "queued" /\ new = [old EXCEPT !.status = "running"]

Complete(old, new) ==
    /\ old.status = "running"
    /\ new = [status |-> "completed", attempt |-> old.attempt, result |-> old.attempt]

Fail(old, new) ==
    /\ old.status \in {"queued", "running"}
    /\ new = [old EXCEPT !.status = "failed"]

Advance(old, new) ==
    \/ Start(old, new)
    \/ Claim(old, new)
    \/ Complete(old, new)
    \/ Fail(old, new)

\* One transaction may write several rows, each by a step of its own.
Next ==
    /\ row' \in [Jobs -> Row]
    /\ \A j \in Jobs : row'[j] = row[j] \/ Advance(row[j], row'[j])

Spec == Init /\ [][Next]_row

\* The result a completed job shows is the one its current attempt computed.
CurrentResult == \A j \in Jobs : row[j].status = "completed" => row[j].result = row[j].attempt
=============================================================================
