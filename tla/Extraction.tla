------------------------------ MODULE Extraction ------------------------------
(***************************************************************************)
(* The extraction of one quotation.  API calls and the operator's tool     *)
(* insert a job, mark the quotation extracting and push the job to Redis,  *)
(* one statement at a time, and undo the writes when the push fails; the   *)
(* extraction workers take jobs from Redis and write lines and outcome in  *)
(* one transaction; reviewers decide on a status they read earlier.  Only  *)
(* two constraints of the database coordinate them: one active job for a   *)
(* quotation, and a job is completed exactly when its status is terminal.  *)
(***************************************************************************)
EXTENDS Integers, Sequences

CONSTANTS
    Docs,       \* documents the quotation may be read from
    Jobs,       \* rows of extraction_job, numbered as they are created
    Calls,      \* API calls and runs of the requeue tool
    Keys,       \* idempotency keys
    KeysSent,   \* the key of each call, in each of the cases considered
    FirstDoc,   \* the document the quotation came with
    Workers,    \* processes of the extraction worker
    None

\* What is assumed of them, here and in every instance.
Assumptions ==
    /\ Jobs \subseteq Nat /\ KeysSent \subseteq [Calls -> Keys] /\ FirstDoc \in Docs
    /\ None \notin Jobs \cup Docs \cup Keys

VARIABLES
    quote,      \* quotation: status, document_id, and the document its lines were read from
    job,        \* extraction_job; "unsent" is failed with the error redis_enqueue_failed
    queue,      \* job ids waiting in Redis
    payload,    \* the document of the last push of each job id
    call,       \* what each call read and has left to do
    worker,     \* what each worker runs
    left        \* the jobs a call or a worker left half-way

vars == <<quote, job, queue, payload, call, worker, left>>

QuoteStatus == {"pending", "extracting", "extracted", "in_review", "reviewed", "refused"}
Quote == [status: QuoteStatus, doc: Docs, lines: Docs \cup {None}]

Failed == {"failed", "unsent"}
Job == [status: {"none", "queued", "succeeded"} \cup Failed,
        key: Keys \cup {None}]

Requests == {"extract", "retry", "replace", "patch", "confirm", "refuse"}

Verdict == [patch |-> "in_review", confirm |-> "reviewed", refuse |-> "refused"]

\* status and doc are what the call read, target is the document it pushes.
Call == [kind: Requests \cup {"none", "requeue", "ingest"},
         pc: {"start", "lookup", "insert", "check", "reopen", "mark", "push", "undo_job",
              "undo_quote", "release", "requeue", "decide", "done"},
         key: Keys, status: QuoteStatus, doc: Docs, target: Docs, job: Jobs \cup {None}]

Worker == [pc: {"idle", "start", "run", "fail"}, job: Jobs \cup {None}, doc: Docs \cup {None}]

Idle == [pc |-> "idle", job |-> None, doc |-> None]

Free(j) == \A w \in Workers : ~(worker[w].pc = "run" /\ worker[w].job = j)
IsNext(j) == job[j].status = "none" /\ \A i \in Jobs : i < j => job[i].status # "none"
NoJobActive == \A j \in Jobs : job[j].status # "queued"
HasKey(j, c) == job[j].status # "none" /\ job[j].key = call[c].key

Goto(c, pc) == call' = [call EXCEPT ![c].pc = pc]
-----------------------------------------------------------------------------
NoJob == [status |-> "none", key |-> None]
Queued == [status |-> "queued", key |-> None]

IsFirst(j) == \A i \in Jobs : j <= i

\* A person uploads the quotation.
Uploaded ==
    /\ quote = [status |-> "pending", doc |-> FirstDoc, lines |-> None]
    /\ job = [j \in Jobs |-> NoJob]

\* It was read before.
Extracted(j) ==
    /\ IsFirst(j)
    /\ quote \in [status: {"extracted", "in_review", "reviewed"}, doc: {FirstDoc}, lines: {FirstDoc}]
    /\ job = [i \in Jobs |-> IF i = j THEN [Queued EXCEPT !.status = "succeeded"] ELSE NoJob]

Unused(key) ==
    [kind |-> "none", pc |-> "start", key |-> key, status |-> "pending", doc |-> FirstDoc,
     target |-> FirstDoc, job |-> None]

\* A call that is over keeps its key and its job for the questions asked of it.
End(c) == call' = [call EXCEPT ![c] = [Unused(call[c].key) EXCEPT !.pc = "done", !.job = call[c].job]]

\* An e-mail or a capture commits quotation and job, and has the push before it.
Ingested(c, j) ==
    /\ IsFirst(j)
    /\ quote = [status |-> "extracting", doc |-> FirstDoc, lines |-> None]
    /\ job = [i \in Jobs |-> IF i = j THEN Queued ELSE NoJob]
    /\ \E key \in KeysSent :
          call = [b \in Calls |-> IF b # c THEN Unused(key[b])
                                  ELSE [Unused(key[c]) EXCEPT !.kind = "ingest", !.pc = "push",
                                                              !.job = j]]

Init ==
    /\ \/ /\ Uploaded \/ \E j \in Jobs : Extracted(j)
          /\ \E key \in KeysSent : call = [c \in Calls |-> Unused(key[c])]
       \/ \E c \in Calls, j \in Jobs : Ingested(c, j)
    /\ queue = <<>>
    /\ payload = [j \in Jobs |-> None]
    /\ worker = [w \in Workers |-> Idle]
    /\ left = {}

\* A call reads the quotation; only a replacement brings a document of its own.
Read(c, kind, d) ==
    /\ call[c].pc = "start"
    /\ d # quote.doc => kind = "replace"
    /\ call' = [call EXCEPT ![c] =
                  [@ EXCEPT !.kind = kind, !.status = quote.status, !.doc = quote.doc, !.target = d,
                            !.pc = IF kind \in DOMAIN Verdict THEN "decide" ELSE "lookup"]]
    /\ UNCHANGED <<quote, job, queue, payload, worker, left>>

Extractable(kind, status) ==
    CASE kind = "extract" -> status \in {"pending", "refused"}
      [] kind = "retry"   -> status \notin {"pending", "extracting"}
      [] kind = "replace" -> status \notin {"pending", "extracting"}

(***************************************************************************)
(* A used key ends the call, but a replacement whose job failed is sent    *)
(* again, whatever the status of the quotation.                            *)
(***************************************************************************)
Lookup(c) ==
    /\ call[c].pc = "lookup"
    /\ \/ \E j \in Jobs :
            /\ HasKey(j, c)
            /\ IF call[c].kind = "replace" /\ job[j].status \in Failed
                 THEN call' = [call EXCEPT ![c].pc = "check", ![c].job = j]
                 ELSE End(c)
       \/ /\ \A j \in Jobs : ~HasKey(j, c)
          /\ Goto(c, IF Extractable(call[c].kind, call[c].status) THEN "insert" ELSE "done")
    /\ UNCHANGED <<quote, job, queue, payload, worker, left>>

\* Both unique indexes decide; a call that loses ends without a write.
Insert(c) ==
    /\ call[c].pc = "insert"
    /\ IF NoJobActive /\ \A j \in Jobs : ~HasKey(j, c)
         THEN \E j \in Jobs :
                /\ IsNext(j)
                /\ job' = [job EXCEPT ![j] = [status |-> "queued", key |-> call[c].key]]
                /\ call' = [call EXCEPT ![c].pc = "mark", ![c].job = j]
         ELSE End(c) /\ UNCHANGED job
    /\ UNCHANGED <<quote, queue, payload, worker, left>>

\* A repeated replacement looks for an active job first.
Check(c) ==
    /\ call[c].pc = "check"
    /\ Goto(c, IF NoJobActive THEN "reopen" ELSE "done")
    /\ UNCHANGED <<quote, job, queue, payload, worker, left>>

Reopen(c) ==
    LET j == call[c].job IN
    /\ call[c].pc = "reopen" /\ Free(j)
    /\ IF \A i \in Jobs \ {j} : job[i].status # "queued"
         THEN job' = [job EXCEPT ![j].status = "queued"] /\ Goto(c, "mark")
         ELSE End(c) /\ UNCHANGED job
    /\ UNCHANGED <<quote, queue, payload, worker, left>>

Mark(c) ==
    /\ call[c].pc = "mark"
    /\ quote' = [quote EXCEPT !.status = "extracting",
                              !.doc = IF call[c].kind = "replace" THEN call[c].target ELSE @]
    /\ Goto(c, "push")
    /\ UNCHANGED <<job, queue, payload, worker, left>>

Undoing == [extract |-> "undo_job", retry |-> "undo_job", replace |-> "undo_job",
            requeue |-> "release", ingest |-> "release"]

\* Redis takes the job, or not; its answer may be lost.
Push(c) ==
    LET j == call[c].job IN
    /\ call[c].pc = "push"
    /\ \/ /\ queue' = Append(queue, j)
          /\ payload' = [payload EXCEPT ![j] = call[c].target]
          /\ End(c) \/ Goto(c, Undoing[call[c].kind])
       \/ Goto(c, Undoing[call[c].kind]) /\ UNCHANGED <<queue, payload>>
    /\ UNCHANGED <<quote, job, worker, left>>

\* Mutant: a failed push puts back the quotation only.
UndoJobSkipped(c) ==
    /\ call[c].pc = "undo_job" /\ Goto(c, "undo_quote")
    /\ UNCHANGED <<quote, job, queue, payload, worker, left>>

\* The job, then the quotation, by id and whatever they say by now.
UndoJob(c) ==
    /\ call[c].pc = "undo_job" /\ Free(call[c].job)
    /\ job' = [job EXCEPT ![call[c].job].status = "unsent"]
    /\ Goto(c, "undo_quote")
    /\ UNCHANGED <<quote, queue, payload, worker, left>>

UndoQuote(c) ==
    /\ call[c].pc = "undo_quote"
    /\ quote' = [quote EXCEPT !.status = call[c].status,
                              !.doc = IF call[c].kind = "replace" THEN call[c].doc ELSE @]
    /\ End(c)
    /\ UNCHANGED <<job, queue, payload, worker, left>>

\* Ingestion puts back what is still as it left it, in one transaction.
Release(c) ==
    LET j == call[c].job IN
    /\ call[c].pc = "release" /\ call[c].kind = "ingest" /\ Free(j)
    /\ job' = [job EXCEPT ![j].status = IF @ = "queued" THEN "unsent" ELSE @]
    /\ quote' = [quote EXCEPT !.status = IF @ = "extracting" THEN "pending" ELSE @]
    /\ End(c)
    /\ UNCHANGED <<queue, payload, worker, left>>

\* The operator's tool reads a refused quotation whose last job failed in the worker ...
LastJobFailed ==
    \E j \in Jobs : job[j].status = "failed" /\ \A i \in Jobs : i > j => job[i].status = "none"

FindRefused(c) ==
    /\ call[c].pc = "start"
    /\ quote.status = "refused" /\ LastJobFailed
    /\ call' = [call EXCEPT ![c] = [@ EXCEPT !.kind = "requeue", !.pc = "requeue",
                                                 !.status = "refused", !.doc = quote.doc,
                                                 !.target = quote.doc]]
    /\ UNCHANGED <<quote, job, queue, payload, worker, left>>

\* ... marks it if it is still refused and inserts the job, in one transaction, ...
Requeue(c) ==
    /\ call[c].pc = "requeue"
    /\ IF quote.status = "refused" /\ NoJobActive
         THEN \E j \in Jobs :
                /\ IsNext(j)
                /\ job' = [job EXCEPT ![j] = Queued]
                /\ quote' = [quote EXCEPT !.status = "extracting"]
                /\ call' = [call EXCEPT ![c].pc = "push", ![c].job = j]
         ELSE End(c) /\ UNCHANGED <<quote, job>>
    /\ UNCHANGED <<queue, payload, worker, left>>

\* ... and puts both back together, by id.
Refuse(c) ==
    /\ call[c].pc = "release" /\ call[c].kind = "requeue" /\ Free(call[c].job)
    /\ job' = [job EXCEPT ![call[c].job].status = "unsent"]
    /\ quote' = [quote EXCEPT !.status = "refused"]
    /\ End(c)
    /\ UNCHANGED <<queue, payload, worker, left>>

\* A reviewer's statement goes by id, on the status that was read.
Decide(c) ==
    /\ call[c].pc = "decide"
    /\ quote' = IF call[c].status \in {"extracted", "in_review"}
                  THEN [quote EXCEPT !.status = Verdict[call[c].kind]] ELSE quote
    /\ End(c)
    /\ UNCHANGED <<job, queue, payload, worker, left>>

\* The process of a call is killed, or the database fails it, between two statements.
Die(c) ==
    /\ call[c].pc \notin {"start", "done"}
    /\ left' = left \cup ({call[c].job} \ {None})
    /\ End(c)
    /\ UNCHANGED <<quote, job, queue, payload, worker>>
-----------------------------------------------------------------------------
Pop(w) ==
    /\ worker[w] = Idle /\ queue # <<>>
    /\ worker' = [worker EXCEPT ![w] = [pc |-> "start", job |-> Head(queue),
                                        doc |-> payload[Head(queue)]]]
    /\ queue' = Tail(queue)
    /\ UNCHANGED <<quote, job, payload, call, left>>

\* The check constraint on completed_at refuses to run a job that is over.
Starts(j) == job[j].status = "queued"

\* The document was found and the job is marked: from here on the worker's transaction holds it.
Start(w) ==
    LET j == worker[w].job IN
    /\ worker[w].pc = "start" /\ Free(j)
    /\ worker' = [worker EXCEPT ![w] = IF Starts(j) THEN [@ EXCEPT !.pc = "run"] ELSE Idle]
    /\ UNCHANGED <<quote, job, queue, payload, call, left>>

\* The lines are replaced, and the quotation gets its status, with the job.
Succeed(w) ==
    /\ worker[w].pc = "run"
    /\ \E status \in {"extracted", "in_review"} :
          quote' = [quote EXCEPT !.status = status, !.lines = worker[w].doc]
    /\ job' = [job EXCEPT ![worker[w].job].status = "succeeded"]
    /\ worker' = [worker EXCEPT ![w] = Idle]
    /\ UNCHANGED <<queue, payload, call, left>>

\* Whatever fails in between undoes it all.
RollBack(w) ==
    /\ worker[w].pc = "run"
    /\ worker' = [worker EXCEPT ![w].pc = "fail"]
    /\ UNCHANGED <<quote, job, queue, payload, call, left>>

\* Mutant: the failure is not committed before it is raised.
FailUncommitted(w) ==
    /\ worker[w].pc = "fail" /\ Free(worker[w].job)
    /\ worker' = [worker EXCEPT ![w] = Idle]
    /\ UNCHANGED <<quote, job, queue, payload, call, left>>

\* The failure is recorded in a second transaction.
Fail(w) ==
    /\ worker[w].pc = "fail" /\ Free(worker[w].job)
    /\ job' = [job EXCEPT ![worker[w].job].status = "failed"]
    /\ quote' = [quote EXCEPT !.status = "refused"]
    /\ worker' = [worker EXCEPT ![w] = Idle]
    /\ UNCHANGED <<queue, payload, call, left>>

\* A worker leaves its job without a trace: it is killed, or raises where it catches nothing, as
\* it connects, looks for the document or marks the job, commits what it read, or records and
\* commits its failure.  Redis does not run the job again.
Leave(w) ==
    /\ worker[w] # Idle
    /\ left' = left \cup {worker[w].job}
    /\ worker' = [worker EXCEPT ![w] = Idle]
    /\ UNCHANGED <<quote, job, queue, payload, call>>
-----------------------------------------------------------------------------
CallStep(c) ==
    \/ Lookup(c) \/ Insert(c) \/ Check(c) \/ Reopen(c) \/ Mark(c) \/ Push(c)
    \/ UndoJob(c) \/ UndoQuote(c) \/ Release(c) \/ Requeue(c) \/ Refuse(c) \/ Decide(c)

WorkerStep(w) == Pop(w) \/ Start(w) \/ Succeed(w) \/ RollBack(w) \/ Fail(w)

Next ==
    \/ \E c \in Calls : \/ CallStep(c) \/ FindRefused(c) \/ Die(c)
                        \/ \E kind \in Requests, d \in Docs : Read(c, kind, d)
    \/ \E w \in Workers : WorkerStep(w) \/ Leave(w)

Spec == Init /\ [][Next]_vars

\* Requests run to their end and workers take jobs for ever, unless they die or raise.
Fairness ==
    /\ \A c \in Calls : WF_vars(CallStep(c))
    /\ \A w \in Workers : WF_vars(WorkerStep(w))

FairSpec == Spec /\ Fairness
=============================================================================
