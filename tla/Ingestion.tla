------------------------------ MODULE Ingestion ------------------------------
(***************************************************************************)
(* Inbound e-mail.  The webhook of the mail provider stores the message    *)
(* and inserts a job; worker processes claim jobs under a lease that       *)
(* expires, and turn each message into a quotation in one transaction,     *)
(* keyed by its Message-ID.  Nothing fences a worker whose lease was taken *)
(* over: it may still commit, or write the outcome of its job, long after. *)
(***************************************************************************)
EXTENDS Integers, FiniteSets

CONSTANTS
    Jobs,           \* ingestion_jobs of type email_ingest, numbered as they are created
    Messages,       \* Message-IDs
    MessageOf,      \* the message of each job; a redelivered message makes a second job
    Workers,
    MaxAttempts,    \* ingestion_jobs.max_attempts
    MaxRequeues,    \* bound: how often the operator resets a failed job
    None

ASSUME JobsAssumption == Jobs \subseteq Nat /\ MessageOf \in [Jobs -> Messages]
ASSUME BoundsAssumption == MaxAttempts \in Nat \ {0} /\ MaxRequeues \in Nat
ASSUME NoneAssumption == None \notin Jobs \cup Workers

VARIABLES
    content,    \* what parsing and validation say of each message, always the same
    job,        \* ingestion_jobs; "stale" once locked_at is older than the lease
    log,        \* committed ingestion_email_log.status of each message
    row,        \* the worker whose transaction holds the log row of a message
    quotations, \* how many quotations each message became
    worker,     \* what each worker has claimed and does
    requeues    \* how often the operator has requeued

vars == <<content, job, log, row, quotations, worker, requeues>>

Job == [status: {"none", "pending", "processing", "completed", "failed"},
        attempts: 0..MaxAttempts, stale: BOOLEAN]

Content == {"quotation", "refused", "unparsable"}

LogStatus == {"none", "failed", "rejected", "completed"}

\* A worker goes through the jobs of one pass, with the attempts it claimed them with.
Worker == [pc: {"idle", "fetch", "insert", "work", "after", "note", "complete", "fail"},
           job: Jobs \cup {None}, todo: SUBSET Jobs, claimed: [Jobs -> 0..MaxAttempts]]

Idle == [pc |-> "idle", job |-> None, todo |-> {}, claimed |-> [j \in Jobs |-> 0]]

MessageAt(w) == MessageOf[worker[w].job]

Handled == {"rejected", "completed"}
-----------------------------------------------------------------------------
Init ==
    /\ content \in [Messages -> Content]
    /\ job = [j \in Jobs |-> [status |-> "none", attempts |-> 0, stale |-> FALSE]]
    /\ log = [m \in Messages |-> "none"]
    /\ row = [m \in Messages |-> None]
    /\ quotations = [m \in Messages |-> 0]
    /\ worker = [w \in Workers |-> Idle]
    /\ requeues = 0

\* POST /webhooks/inbound-email.
Accept(j) ==
    /\ job[j].status = "none"
    /\ \A i \in Jobs : i < j => job[i].status # "none"
    /\ job' = [job EXCEPT ![j].status = "pending"]
    /\ UNCHANGED <<content, log, row, quotations, worker, requeues>>

LeaseExpires(j) ==
    /\ job[j].status = "processing" /\ ~job[j].stale
    /\ job' = [job EXCEPT ![j].stale = TRUE]
    /\ UNCHANGED <<content, log, row, quotations, worker, requeues>>

(***************************************************************************)
(* One pass of a worker claims what is pending or stale in a transaction   *)
(* of its own.  A stale job counts an attempt and fails at the limit.      *)
(***************************************************************************)
Claimable == {j \in Jobs : job[j].status = "pending" \/ job[j].stale}

Reclaimed(j) ==
    IF job[j].status = "pending" THEN [job[j] EXCEPT !.status = "processing"]
    ELSE [status |-> IF job[j].attempts + 1 >= MaxAttempts THEN "failed" ELSE "processing",
          attempts |-> job[j].attempts + 1, stale |-> FALSE]

Claim(w) ==
    /\ worker[w].pc = "idle" /\ worker[w].todo = {}
    /\ Claimable # {}
    /\ job' = [j \in Jobs |-> IF j \in Claimable THEN Reclaimed(j) ELSE job[j]]
    /\ worker' = [worker EXCEPT ![w].todo = {j \in Claimable : Reclaimed(j).status = "processing"},
                    ![w].claimed = [j \in Jobs |-> IF j \in Claimable THEN Reclaimed(j).attempts ELSE 0]]
    /\ UNCHANGED <<content, log, row, quotations, requeues>>

Goto(w, pc) == worker' = [worker EXCEPT ![w].pc = pc]

Take(w) ==
    /\ worker[w].pc = "idle"
    /\ \E j \in worker[w].todo :
          /\ \A i \in worker[w].todo : j <= i
          /\ worker' = [worker EXCEPT ![w].pc = "fetch", ![w].job = j, ![w].todo = @ \ {j}]
    /\ UNCHANGED <<content, job, log, row, quotations, requeues>>

\* The raw message is downloaded and parsed.
Fetch(w) ==
    /\ worker[w].pc = "fetch"
    /\ \/ Goto(w, IF content[MessageAt(w)] = "unparsable" THEN "complete" ELSE "insert")
       \/ Goto(w, "fail")
    /\ UNCHANGED <<content, job, log, row, quotations, requeues>>

(***************************************************************************)
(* The transaction of one message.  The unique key makes a second insert   *)
(* wait for the first; a committed row is a duplicate, a failed one is     *)
(* opened again under its lock.                                            *)
(***************************************************************************)
\* Mutant: any committed row may be opened again.
ReopensAny(m) == TRUE

Reopens(m) == log[m] \in {"none", "failed"}

InsertLog(w) ==
    LET m == MessageAt(w) IN
    /\ worker[w].pc = "insert"
    /\ row[m] = None
    /\ IF Reopens(m) THEN row' = [row EXCEPT ![m] = w] /\ Goto(w, "work")
       ELSE UNCHANGED row /\ Goto(w, "complete")
    /\ UNCHANGED <<content, job, log, quotations, requeues>>

Reject(w) ==
    LET m == MessageAt(w) IN
    /\ worker[w].pc = "work" /\ content[m] = "refused"
    /\ log' = [log EXCEPT ![m] = "rejected"]
    /\ row' = [row EXCEPT ![m] = None]
    /\ Goto(w, "complete")
    /\ UNCHANGED <<content, job, quotations, requeues>>

\* Document, quotation job and log row in one commit.
MakeQuotation(w) ==
    LET m == MessageAt(w) IN
    /\ worker[w].pc = "work" /\ content[m] = "quotation"
    /\ quotations' = [quotations EXCEPT ![m] = @ + 1]
    /\ log' = [log EXCEPT ![m] = "completed"]
    /\ row' = [row EXCEPT ![m] = None]
    /\ Goto(w, "after")
    /\ UNCHANGED <<content, job, requeues>>

RollBack(w) ==
    /\ worker[w].pc = "work"
    /\ row' = [row EXCEPT ![MessageAt(w)] = None]
    /\ Goto(w, "note")
    /\ UNCHANGED <<content, job, log, quotations, requeues>>

\* Mutant: the failure is recorded over whatever is there.
NotedOver(m) == "failed"

Noted(m) == IF log[m] \in Handled THEN log[m] ELSE "failed"

\* The failure is recorded in a second transaction, unless that one fails too.
NoteFailure(w) ==
    LET m == MessageAt(w) IN
    /\ worker[w].pc = "note"
    /\ \/ row[m] = None /\ log' = [log EXCEPT ![m] = Noted(m)]
       \/ UNCHANGED log
    /\ Goto(w, "fail")
    /\ UNCHANGED <<content, job, row, quotations, requeues>>

\* After the commit: the extraction is pushed or released (module Extraction), and inserting
\* the review task of an unmatched supplier may still fail.
AfterCommit(w) ==
    /\ worker[w].pc = "after"
    /\ Goto(w, "complete") \/ Goto(w, "fail")
    /\ UNCHANGED <<content, job, log, row, quotations, requeues>>

Done(w) ==
    worker' = [worker EXCEPT ![w].pc = "idle", ![w].job = None,
                             ![w].claimed[worker[w].job] = 0]

Complete(w) ==
    /\ worker[w].pc = "complete"
    /\ job' = [job EXCEPT ![worker[w].job] = [@ EXCEPT !.status = "completed", !.stale = FALSE]]
    /\ Done(w)
    /\ UNCHANGED <<content, log, row, quotations, requeues>>

\* Mutant: a failed attempt is not counted.
FailUncounted(w) ==
    /\ worker[w].pc = "fail"
    /\ job' = [job EXCEPT ![worker[w].job] = [status |-> "pending", attempts |-> @.attempts,
                                              stale |-> FALSE]]
    /\ Done(w)
    /\ UNCHANGED <<content, log, row, quotations, requeues>>

\* The attempts are those of the claim, whatever the row says by now.
Fail(w) ==
    LET n == worker[w].claimed[worker[w].job] + 1 IN
    /\ worker[w].pc = "fail"
    /\ job' = [job EXCEPT ![worker[w].job] =
                 [status |-> IF n < MaxAttempts THEN "pending" ELSE "failed", attempts |-> n,
                  stale |-> FALSE]]
    /\ Done(w)
    /\ UNCHANGED <<content, log, row, quotations, requeues>>

\* The process dies, or an outcome cannot be written: the pass ends where it is.
Crash(w) ==
    /\ worker[w] # Idle
    /\ worker' = [worker EXCEPT ![w] = Idle]
    /\ row' = [m \in Messages |-> IF row[m] = w THEN None ELSE row[m]]
    /\ UNCHANGED <<content, job, log, quotations, requeues>>

\* workers/requeue_email_ingest.py
Requeue(j) ==
    /\ job[j].status = "failed"
    /\ requeues < MaxRequeues
    /\ requeues' = requeues + 1
    /\ job' = [job EXCEPT ![j] = [status |-> "pending", attempts |-> 0, stale |-> FALSE]]
    /\ UNCHANGED <<content, log, row, quotations, worker>>
-----------------------------------------------------------------------------
Step(w) ==
    \/ Claim(w) \/ Take(w) \/ Fetch(w) \/ InsertLog(w)
    \/ Reject(w) \/ MakeQuotation(w) \/ RollBack(w) \/ NoteFailure(w)
    \/ AfterCommit(w) \/ Complete(w) \/ Fail(w)

Next ==
    \/ \E j \in Jobs : Accept(j) \/ LeaseExpires(j) \/ Requeue(j)
    \/ \E w \in Workers : Step(w) \/ Crash(w)

Spec == Init /\ [][Next]_vars

(***************************************************************************)
(* The worker processes run passes for ever and leases expire with time.   *)
(***************************************************************************)
Fairness ==
    /\ \A w \in Workers : WF_vars(Step(w))
    /\ \A j \in Jobs : WF_vars(LeaseExpires(j))

FairSpec == Spec /\ Fairness
=============================================================================
