---------------------------- MODULE BasketSplit ----------------------------
(***************************************************************************)
(* Basket-split jobs: the API inserts a row of basket_split_job and, after *)
(* the commit, puts a delivery into a queue of Redis; an optimiser process *)
(* takes the delivery, claims the row, solves and writes the result.  None *)
(* of these steps waits for another, so a retry, a poll that finds the job *)
(* stuck, a slow worker and a late delivery all write the same row.  The   *)
(* row's created_at is the token of the attempt: the optimiser compares it *)
(* in every write (the attempt fence).                                     *)
(***************************************************************************)
EXTENDS Integers, FiniteSets

CONSTANTS
    Jobs,           \* ids of basket_split_job rows
    Creators,       \* POST /baskets/optimise calls in progress at the same time
    Pollers,        \* GET /baskets/{id} calls in progress at the same time
    Viewers,        \* the pollers whose role may not write the row
    Workers,        \* optimiser processes
    Keys,           \* Idempotency-Key values clients send
    Baskets,        \* suppliers, items and settings a split is asked for
    Legacy,         \* jobs queued by a delivery from before deliveries carried a token
    MaxAttempts,    \* bound: how many attempts are started
    None

ASSUME IdsAssumption == None \notin Jobs \cup Keys \cup Baskets \cup Nat
ASSUME CallersAssumption == Viewers \subseteq Pollers /\ Creators \cap Pollers = {}
ASSUME LegacyAssumption == Legacy \subseteq Jobs
ASSUME BoundAssumption == MaxAttempts \in Nat

VARIABLES
    job,        \* basket_split_job
    age,        \* of the attempt since it was queued or claimed, in Ages
    attempts,   \* created_at values given out so far
    delivery,   \* entries of the RQ queue
    worker,     \* the optimiser processes
    call        \* what each API call has read and does next

jobVars == <<job, age, attempts>>
vars == <<job, age, attempts, delivery, worker, call>>

JobStatus == {"none", "queued", "running", "completed", "failed"}

\* An error names who failed the job: a reader that found it stuck, the API that could not
\* enqueue it, or the optimiser.
JobError == {"stuck", "enqueue", "solve"}

\* Timestamps are compared for equality only, so an attempt is a number.  The result is
\* known by the attempt that computed it.
Job == [status: JobStatus, attempt: Nat, key: Keys \cup {None}, basket: Baskets \cup {None},
        result: Nat \cup {None}, error: JobError \cup {None}]

NoJob == [status |-> "none", attempt |-> 0, key |-> None, basket |-> None,
          result |-> None, error |-> None]

\* 0 below basket_split_stall_seconds, 2 above basket_split_expiry_seconds.
Ages == 0..2

Delivery == [job: Jobs, attempt: Nat \cup {None}]

\* An attempt of a job, as a worker pins it and the API enqueues it.
Claim == [job: Jobs, attempt: Nat]

\* A worker that died is "lost" until its registration in Redis expires, then "off".
Resting(pc) == [pc |-> pc, claimed |-> None, delivery |-> None]

Worker == {Resting(pc) : pc \in {"off", "idle", "lost"}}
          \cup [pc: {"solving"}, claimed: Claim, delivery: Delivery]

Call == [pc: {"idle", "check", "insert", "requeue", "enqueue", "compensate", "fail"},
         key: Keys \cup {None}, basket: Baskets \cup {None},
         rows: SUBSET Claim]

Idle == [pc |-> "idle", key |-> None, basket |-> None, rows |-> {}]

Callers == Creators \cup Pollers
-----------------------------------------------------------------------------
(***************************************************************************)
(* The rows, and what a reader takes for a job nobody works on.            *)
(***************************************************************************)
Stored(j) == job[j].status # "none"

Active(j) == job[j].status \in {"queued", "running"}

Named(k) == {j \in Jobs : Stored(j) /\ job[j].key = k}

Attempt(j) == [job |-> j, attempt |-> job[j].attempt]

\* optimiser_worker_alive: the registrations in Redis, or no answer.
Answers == {None, \E w \in Workers : worker[w].pc # "off"}

\* Mutant: a queued job is never given up while a worker is registered.
StaleCodeUnlessAlive(j, alive) ==
    \/ job[j].status = "queued" /\ alive = FALSE /\ age[j] >= 1
    \/ job[j].status = "running" /\ age[j] = 2

StaleCode(j, alive) ==
    \/ job[j].status = "queued" /\ (age[j] = 2 \/ (alive = FALSE /\ age[j] >= 1))
    \/ job[j].status = "running" /\ age[j] = 2

\* The update of _fail_stuck names the job and two statuses, not the attempt it read.
FailStuck(rows, stuck) ==
    [j \in Jobs |-> IF j \in stuck /\ rows[j].status \in {"queued", "running"}
                    THEN [rows[j] EXCEPT !.status = "failed", !.error = "stuck"]
                    ELSE rows[j]]

\* cancel_rq_job asks for the delivery of the attempt it read and for one without a token,
\* and goes on when Redis does not answer.
CancelRqJob(rows) ==
    \E gone \in SUBSET {d \in delivery : \E r \in rows : r.job = d.job /\ d.attempt \in {r.attempt, None}} :
        delivery' = delivery \ gone

Enter(c, pc, rows) == call' = [call EXCEPT ![c].pc = pc, ![c].rows = rows]

Return(c) == call' = [call EXCEPT ![c] = Idle]

JobsOf(c) == {r.job : r \in call[c].rows}
-----------------------------------------------------------------------------
Init ==
    /\ \E key \in [Legacy -> Keys \cup {None}], basket \in [Legacy -> Baskets] :
          /\ \A i, j \in Legacy : i # j /\ key[i] # None => key[i] # key[j]
          /\ job = [j \in Jobs |-> IF j \in Legacy
                                  THEN [NoJob EXCEPT !.status = "queued", !.key = key[j],
                                                     !.basket = basket[j]]
                                  ELSE NoJob]
    /\ age = [j \in Jobs |-> 0]
    /\ attempts = 0
    /\ delivery = {[job |-> j, attempt |-> None] : j \in Legacy}
    /\ worker = [w \in Workers |-> Resting("off")]
    /\ call = [c \in Callers |-> Idle]

(***************************************************************************)
(* POST /baskets/optimise.  One transaction, at READ COMMITTED, reads the  *)
(* jobs that look stuck, fails them, looks for an active equivalent and    *)
(* inserts the row; a conflict rolls all of it back but the cancelled      *)
(* deliveries.  The rows it failed are locked until the commit, so they    *)
(* are written with the insert here.                                       *)
(***************************************************************************)
StartCreate(c, k, b) ==
    /\ call[c].pc = "idle"
    /\ k # None => Named(k) = {}
    /\ \E alive \in Answers :
          call' = [call EXCEPT ![c] =
                     [pc |-> "check", key |-> k, basket |-> b,
                      rows |-> {Attempt(j) : j \in {i \in Jobs : StaleCode(i, alive)}}]]
    /\ UNCHANGED <<jobVars, delivery, worker>>

ActiveEquivalent(c) ==
    \E j \in Jobs \ JobsOf(c) : Active(j) /\ job[j].basket = call[c].basket

EnsureNoActiveEquivalent(c) ==
    /\ call[c].pc = "check"
    /\ CancelRqJob(call[c].rows)
    /\ IF ActiveEquivalent(c) THEN Return(c) ELSE Enter(c, "insert", call[c].rows)
    /\ UNCHANGED <<jobVars, worker>>

InsertJob(c, j) ==
    LET new == [NoJob EXCEPT !.status = "queued", !.attempt = attempts + 1,
                             !.key = call[c].key, !.basket = call[c].basket]
    IN
    /\ call[c].pc = "insert"
    /\ call[c].key # None => Named(call[c].key) = {}
    /\ ~Stored(j)
    /\ attempts < MaxAttempts
    /\ attempts' = attempts + 1
    /\ job' = [FailStuck(job, JobsOf(c)) EXCEPT ![j] = new]
    /\ age' = [age EXCEPT ![j] = 0]
    /\ Enter(c, "enqueue", {[job |-> j, attempt |-> attempts + 1]})
    /\ UNCHANGED <<delivery, worker>>

\* The unique index on the key: another call inserted the job after this one looked.
InsertRefused(c) ==
    /\ call[c].pc = "insert"
    /\ call[c].key # None /\ Named(call[c].key) # {}
    /\ job' = FailStuck(job, JobsOf(c))
    /\ Return(c)
    /\ UNCHANGED <<age, attempts, delivery, worker>>

\* The key names a failed job: it is read here and requeued in a later statement.
StartRetry(c, j) ==
    /\ call[c].pc = "idle"
    /\ job[j].key # None /\ job[j].status = "failed"
    /\ Enter(c, "requeue", {Attempt(j)})
    /\ UNCHANGED <<jobVars, delivery, worker>>

RequeueFailedJob(c) ==
    /\ call[c].pc = "requeue"
    /\ attempts < MaxAttempts
    /\ attempts' = attempts + 1
    /\ \E j \in JobsOf(c) :
          /\ job' = [job EXCEPT ![j].status = "queued", ![j].error = None,
                                ![j].attempt = attempts + 1]
          /\ age' = [age EXCEPT ![j] = 0]
          /\ Enter(c, "enqueue", {[job |-> j, attempt |-> attempts + 1]})
    /\ UNCHANGED <<delivery, worker>>

\* After the commit.  Redis accepts the delivery and says so, or the client sees an error
\* although Redis may have accepted it.
EnqueueRedisJob(c) ==
    /\ call[c].pc = "enqueue"
    /\ \/ delivery' = delivery \cup call[c].rows /\ Return(c)
       \/ /\ delivery' \in {delivery, delivery \cup call[c].rows}
          /\ Enter(c, "compensate", call[c].rows)
    /\ UNCHANGED <<jobVars, worker>>

\* Mutant: the compensation names the job only.
CompensateUnfenced(c) ==
    /\ call[c].pc = "compensate"
    /\ job' = [j \in Jobs |-> IF j \in JobsOf(c) /\ Active(j)
                              THEN [job[j] EXCEPT !.status = "failed", !.error = "enqueue"]
                              ELSE job[j]]
    /\ Return(c)
    /\ UNCHANGED <<age, attempts, delivery, worker>>

CompensateFailedEnqueue(c) ==
    /\ call[c].pc = "compensate"
    /\ job' = [j \in Jobs |-> IF Attempt(j) \in call[c].rows /\ job[j].status = "queued"
                              THEN [job[j] EXCEPT !.status = "failed", !.error = "enqueue"]
                              ELSE job[j]]
    /\ Return(c)
    /\ UNCHANGED <<age, attempts, delivery, worker>>

\* The API process dies, or its connection to the database fails and the transaction is
\* rolled back.
Abandon(c) ==
    /\ call[c].pc # "idle"
    /\ Return(c)
    /\ UNCHANGED <<jobVars, delivery, worker>>

(***************************************************************************)
(* GET /baskets/{id}: a read that finds the job stuck asks Redis before it *)
(* fails the row.  Row-level security drops the update of a viewer.        *)
(***************************************************************************)
StartPoll(p, j) ==
    /\ call[p].pc = "idle"
    /\ \E alive \in Answers : StaleCode(j, alive)
    /\ Enter(p, "fail", {Attempt(j)})
    /\ UNCHANGED <<jobVars, delivery, worker>>

FinishPoll(p) ==
    /\ call[p].pc = "fail"
    /\ CancelRqJob(call[p].rows)
    /\ job' = IF p \in Viewers THEN job ELSE FailStuck(job, JobsOf(p))
    /\ Return(p)
    /\ UNCHANGED <<age, attempts, worker>>
-----------------------------------------------------------------------------
(***************************************************************************)
(* The optimiser.                                                          *)
(***************************************************************************)
\* Mutant: the claim asks for the attempt, not for the status.
MayClaimAttempt(d) == d.attempt \in {None, job[d.job].attempt}

MayClaim(d) == job[d.job].status = "queued" /\ d.attempt \in {None, job[d.job].attempt}

\* process_basket_split_job up to its first commit.
TakeDelivery(w, d) ==
    /\ worker[w].pc = "idle" /\ d \in delivery
    /\ delivery' = delivery \ {d}
    /\ IF MayClaim(d)
       THEN /\ job' = [job EXCEPT ![d.job].status = "running"]
            /\ age' = [age EXCEPT ![d.job] = 0]
            /\ worker' = [worker EXCEPT ![w] = [pc |-> "solving", claimed |-> Attempt(d.job),
                                                delivery |-> d]]
       ELSE UNCHANGED <<job, age, worker>>
    /\ UNCHANGED <<attempts, call>>

\* Mutant: the worker's writes look at the status only.
StillClaimedUnfenced(w) == job[worker[w].claimed.job].status = "running"

StillClaimed(w) ==
    /\ job[worker[w].claimed.job].status = "running"
    /\ Attempt(worker[w].claimed.job) = worker[w].claimed

MarkCompleted(w) ==
    /\ worker[w].pc = "solving"
    /\ job' = IF StillClaimed(w)
              THEN [job EXCEPT ![worker[w].claimed.job].status = "completed",
                               ![worker[w].claimed.job].result = worker[w].claimed.attempt]
              ELSE job
    /\ worker' = [worker EXCEPT ![w] = Resting("idle")]
    /\ UNCHANGED <<age, attempts, delivery, call>>

\* An operator of RQ may put a delivery that raised or was abandoned back into the queue.
MayReturn(w) == delivery' \in {delivery, delivery \cup {worker[w].delivery}}

\* The solve raised, or the connection did; then this write fails too.
MarkFailed(w) ==
    /\ worker[w].pc = "solving"
    /\ \/ job' = IF StillClaimed(w)
                 THEN [job EXCEPT ![worker[w].claimed.job].status = "failed",
                                  ![worker[w].claimed.job].error = "solve"]
                 ELSE job
       \/ UNCHANGED job
    /\ MayReturn(w)
    /\ worker' = [worker EXCEPT ![w] = Resting("idle")]
    /\ UNCHANGED <<age, attempts, call>>

\* The process dies before it writes, and leaves the row running.
Die(w) ==
    /\ worker[w].pc = "solving"
    /\ MayReturn(w)
    /\ worker' = [worker EXCEPT ![w] = Resting("lost")]
    /\ UNCHANGED <<jobVars, call>>

\* A process starts, is shut down between two jobs, or its registration expires.
Register(w) ==
    /\ \E move \in {<<"off", "idle">>, <<"idle", "off">>, <<"lost", "off">>} :
          /\ worker[w].pc = move[1]
          /\ worker' = [worker EXCEPT ![w] = Resting(move[2])]
    /\ UNCHANGED <<jobVars, delivery, call>>

\* Redis restarts without its data, or a worker dies with a delivery it has not claimed.
LoseDelivery(d) ==
    /\ delivery' = delivery \ {d}
    /\ UNCHANGED <<jobVars, worker, call>>

\* Time passes: the stall limit, then the expiry limit.
Tick(j) ==
    /\ Active(j) /\ age[j] < 2
    /\ age' = [age EXCEPT ![j] = @ + 1]
    /\ UNCHANGED <<job, attempts, delivery, worker, call>>
-----------------------------------------------------------------------------
CreateStep(c) ==
    \/ \E k \in Keys \cup {None}, b \in Baskets : StartCreate(c, k, b)
    \/ EnsureNoActiveEquivalent(c)
    \/ \E j \in Jobs : InsertJob(c, j) \/ StartRetry(c, j)
    \/ InsertRefused(c)
    \/ RequeueFailedJob(c)
    \/ EnqueueRedisJob(c)
    \/ CompensateFailedEnqueue(c)

PollStep(p) == FinishPoll(p) \/ \E j \in Jobs : StartPoll(p, j)

WorkStep(w) ==
    \/ \E d \in delivery : TakeDelivery(w, d)
    \/ MarkCompleted(w)
    \/ MarkFailed(w)
    \/ Die(w)
    \/ Register(w)

Next ==
    \/ \E c \in Creators : CreateStep(c)
    \/ \E p \in Pollers : PollStep(p)
    \/ \E c \in Callers : Abandon(c)
    \/ \E w \in Workers : WorkStep(w)
    \/ \E d \in delivery : LoseDelivery(d)
    \/ \E j \in Jobs : Tick(j)

Spec == Init /\ [][Next]_vars

\* The page of a job polls it until it has settled; after three failed polls in a row the
\* member asks again.  Time passes.  Nothing is assumed of workers, Redis or other callers.
PollsOf(j) == \E p \in Pollers \ Viewers : StartPoll(p, j)

AnswersTo(j) == \E p \in Pollers \ Viewers : j \in JobsOf(p) /\ FinishPoll(p)

Fairness ==
    \A j \in Jobs : WF_vars(Tick(j)) /\ SF_vars(PollsOf(j)) /\ SF_vars(AnswersTo(j))

FairSpec == Spec /\ Fairness
=============================================================================
