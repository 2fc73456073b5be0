-------------------------- MODULE BasketSplitProof --------------------------
(***************************************************************************)
(* The attempt fence holds for any number of jobs, callers, workers and    *)
(* attempts.  The inductive invariant adds to ClaimedAttemptRuns that      *)
(* every token in use was given out, so that a retry gets a fresh one.     *)
(***************************************************************************)
EXTENDS BasketSplitProperties, TLAPS

LEMMA TypedInit == Init => TypeOK
<1>. SUFFICES ASSUME Init PROVE TypeOK
  OBVIOUS
<1>1. job \in [Jobs -> Job]
  <2>. PICK key \in [Legacy -> Keys \cup {None}], basket \in [Legacy -> Baskets] :
          job = [j \in Jobs |-> IF j \in Legacy
                                THEN [NoJob EXCEPT !.status = "queued", !.key = key[j],
                                                   !.basket = basket[j]]
                                ELSE NoJob]
    BY DEF Init
  <2>. QED
    BY DEF NoJob, Job, JobStatus
<1>2. delivery \subseteq Delivery
  <2>1. \A j \in Legacy : [job |-> j, attempt |-> None] \in Delivery
    BY LegacyAssumption DEF Delivery
  <2>. QED
    BY <2>1 DEF Init
<1>3. worker \in [Workers -> Worker]
  BY DEF Init, Worker
<1>4. call \in [Callers -> Call]
  <2>1. Idle \in Call
    BY DEF Idle, Call
  <2>. QED
    BY <2>1 DEF Init
<1>5. age = [j \in Jobs |-> 0] /\ attempts = 0
  BY DEF Init
<1>. QED
  BY <1>1, <1>2, <1>3, <1>4, <1>5 DEF TypeOK, Ages

\* What the statements of the API and the optimiser set in a row.
LEMMA RowTyped ==
  ASSUME NEW r \in Job, NEW s \in JobStatus, NEW e \in JobError \cup {None}, NEW a \in Nat
  PROVE  /\ [r EXCEPT !.status = s] \in Job
         /\ [r EXCEPT !.status = s, !.error = e] \in Job
         /\ [r EXCEPT !.status = s, !.error = e, !.attempt = a] \in Job
         /\ [r EXCEPT !.status = s, !.result = a] \in Job
  BY DEF Job

LEMMA FailStuckTyped ==
  ASSUME job \in [Jobs -> Job], NEW stuck
  PROVE  FailStuck(job, stuck) \in [Jobs -> Job]
  BY DEF FailStuck, Job, JobStatus, JobError

LEMMA ReturnTyped ==
  ASSUME TypeOK, NEW c \in Callers, Return(c)
  PROVE  call' \in [Callers -> Call]
<1>1. Idle \in Call
  BY DEF Idle, Call
<1>. QED
  BY <1>1 DEF TypeOK, Return

LEMMA EnterTyped ==
  ASSUME TypeOK, NEW c \in Callers, NEW pc \in {"insert", "requeue", "enqueue", "compensate", "fail"},
         NEW rows \in SUBSET Claim, Enter(c, pc, rows)
  PROVE  call' \in [Callers -> Call]
<1>1. [call[c] EXCEPT !.pc = pc, !.rows = rows] \in Call
  BY DEF TypeOK, Call
<1>2. call' = [call EXCEPT ![c] = [call[c] EXCEPT !.pc = pc, !.rows = rows]]
  BY DEF Enter
<1>. QED
  BY <1>1, <1>2 DEF TypeOK

LEMMA CallRows ==
  ASSUME TypeOK, NEW c \in Callers
  PROVE  /\ call[c] \in Call /\ call[c].rows \in SUBSET Claim /\ JobsOf(c) \subseteq Jobs
         /\ \A j \in Jobs : Attempt(j) \in Claim
  BY DEF TypeOK, Call, Claim, JobsOf, Attempt, Job

LEMMA CreateTyped ==
  ASSUME TypeOK, NEW c \in Creators, CreateStep(c)
  PROVE  TypeOK'
<1>. c \in Callers
  BY DEF Callers
<1>1. ASSUME NEW k \in Keys \cup {None}, NEW b \in Baskets, StartCreate(c, k, b)
      PROVE  TypeOK'
  <2>. PICK alive \in Answers :
          call' = [call EXCEPT ![c] =
                     [pc |-> "check", key |-> k, basket |-> b,
                      rows |-> {Attempt(j) : j \in {i \in Jobs : StaleCode(i, alive)}}]]
    BY <1>1 DEF StartCreate
  <2>1. {Attempt(j) : j \in {i \in Jobs : StaleCode(i, alive)}} \in SUBSET Claim
    BY CallRows
  <2>2. call' \in [Callers -> Call]
    BY <2>1 DEF TypeOK, Call, Claim
  <2>. QED
    BY <1>1, <2>2 DEF StartCreate, TypeOK, jobVars
<1>2. CASE EnsureNoActiveEquivalent(c)
  <2>1. call' \in [Callers -> Call]
    BY <1>2, CallRows, ReturnTyped, EnterTyped DEF EnsureNoActiveEquivalent
  <2>2. delivery' \subseteq delivery
    BY <1>2 DEF EnsureNoActiveEquivalent, CancelRqJob
  <2>. QED
    BY <1>2, <2>1, <2>2 DEF EnsureNoActiveEquivalent, TypeOK, jobVars
<1>3. ASSUME NEW j \in Jobs, InsertJob(c, j) PROVE TypeOK'
  <2>1. attempts' = attempts + 1 /\ attempts' \in Nat
    BY <1>3 DEF InsertJob, TypeOK
  <2>2. {[job |-> j, attempt |-> attempts + 1]} \in SUBSET Claim
    BY <2>1 DEF Claim, TypeOK
  <2>3. call' \in [Callers -> Call]
    BY <1>3, <2>2, EnterTyped DEF InsertJob
  <2>. DEFINE new == [NoJob EXCEPT !.status = "queued", !.attempt = attempts + 1,
                                   !.key = call[c].key, !.basket = call[c].basket]
  <2>4. new \in Job
    BY <2>1, CallRows DEF NoJob, Job, JobStatus, Call, TypeOK
  <2>5. job' = [FailStuck(job, JobsOf(c)) EXCEPT ![j] = new]
    BY <1>3 DEF InsertJob
  <2>6. job' \in [Jobs -> Job]
    <3>. HIDE DEF new
    <3>. QED
      BY <2>4, <2>5, FailStuckTyped DEF TypeOK
  <2>. QED
    BY <1>3, <2>1, <2>3, <2>6 DEF InsertJob, TypeOK, Ages
<1>4. CASE InsertRefused(c)
  BY <1>4, ReturnTyped, FailStuckTyped DEF InsertRefused, TypeOK
<1>5. ASSUME NEW j \in Jobs, StartRetry(c, j) PROVE TypeOK'
  <2>1. call' \in [Callers -> Call]
    BY <1>5, CallRows, EnterTyped DEF StartRetry
  <2>. QED
    BY <1>5, <2>1 DEF StartRetry, TypeOK, jobVars
<1>6. CASE RequeueFailedJob(c)
  <2>. PICK j \in JobsOf(c) :
          /\ job' = [job EXCEPT ![j].status = "queued", ![j].error = None,
                                ![j].attempt = attempts + 1]
          /\ age' = [age EXCEPT ![j] = 0]
          /\ Enter(c, "enqueue", {[job |-> j, attempt |-> attempts + 1]})
    BY <1>6 DEF RequeueFailedJob
  <2>1. j \in Jobs /\ attempts' = attempts + 1 /\ attempts' \in Nat
    BY <1>6, CallRows DEF RequeueFailedJob, TypeOK
  <2>2. {[job |-> j, attempt |-> attempts + 1]} \in SUBSET Claim
    BY <2>1 DEF Claim
  <2>3. call' \in [Callers -> Call]
    BY <2>2, EnterTyped
  <2>4. job' \in [Jobs -> Job]
    <3>1. [job[j] EXCEPT !.status = "queued", !.error = None, !.attempt = attempts + 1] \in Job
      BY <2>1, RowTyped DEF TypeOK, JobStatus
    <3>. QED
      BY <2>1, <3>1 DEF TypeOK
  <2>. QED
    BY <1>6, <2>1, <2>3, <2>4 DEF RequeueFailedJob, TypeOK, Ages
<1>7. CASE EnqueueRedisJob(c)
  <2>1. call' \in [Callers -> Call]
    BY <1>7, CallRows, ReturnTyped, EnterTyped DEF EnqueueRedisJob
  <2>2. delivery' \subseteq delivery \cup call[c].rows
    BY <1>7 DEF EnqueueRedisJob
  <2>3. call[c].rows \subseteq Delivery
    BY CallRows DEF Claim, Delivery
  <2>. QED
    BY <1>7, <2>1, <2>2, <2>3 DEF EnqueueRedisJob, TypeOK, jobVars
<1>8. CASE CompensateFailedEnqueue(c)
  <2>1. \A j \in Jobs : [job[j] EXCEPT !.status = "failed", !.error = "enqueue"] \in Job
    BY RowTyped DEF TypeOK, JobStatus, JobError
  <2>2. job' \in [Jobs -> Job]
    BY <1>8, <2>1 DEF CompensateFailedEnqueue, TypeOK
  <2>. QED
    BY <1>8, <2>2, ReturnTyped DEF CompensateFailedEnqueue, TypeOK
<1>. QED
  BY <1>1, <1>2, <1>3, <1>4, <1>5, <1>6, <1>7, <1>8 DEF CreateStep

LEMMA PollTyped ==
  ASSUME TypeOK, NEW p \in Pollers, PollStep(p)
  PROVE  TypeOK'
<1>. p \in Callers
  BY DEF Callers
<1>1. ASSUME NEW j \in Jobs, StartPoll(p, j) PROVE TypeOK'
  <2>1. call' \in [Callers -> Call]
    BY <1>1, CallRows, EnterTyped DEF StartPoll
  <2>. QED
    BY <1>1, <2>1 DEF StartPoll, TypeOK, jobVars
<1>2. CASE FinishPoll(p)
  <2>1. delivery' \subseteq delivery
    BY <1>2 DEF FinishPoll, CancelRqJob
  <2>2. job' \in [Jobs -> Job]
    BY <1>2, FailStuckTyped DEF FinishPoll, TypeOK
  <2>. QED
    BY <1>2, <2>1, <2>2, ReturnTyped DEF FinishPoll, TypeOK
<1>. QED
  BY <1>1, <1>2 DEF PollStep

LEMMA WorkTyped ==
  ASSUME TypeOK, NEW w \in Workers, WorkStep(w)
  PROVE  TypeOK'
<1>1. ASSUME NEW d \in delivery, TakeDelivery(w, d) PROVE TypeOK'
  <2>1. d \in Delivery /\ d.job \in Jobs /\ Attempt(d.job) \in Claim
    BY <1>1 DEF TypeOK, Delivery, Attempt, Job, Claim
  <2>2. job' \in [Jobs -> Job]
    <3>1. [job[d.job] EXCEPT !.status = "running"] \in Job
      BY <2>1, RowTyped DEF TypeOK, JobStatus
    <3>. QED
      BY <1>1, <2>1, <3>1 DEF TakeDelivery, TypeOK
  <2>3. worker' \in [Workers -> Worker]
    BY <1>1, <2>1 DEF TakeDelivery, TypeOK, Worker, Claim
  <2>. QED
    BY <1>1, <2>1, <2>2, <2>3 DEF TakeDelivery, TypeOK, Ages
<1>2. ASSUME NEW pc \in {"off", "idle", "lost"}, worker' = [worker EXCEPT ![w] = Resting(pc)]
      PROVE  worker' \in [Workers -> Worker]
  <2>1. Resting(pc) \in Worker
    BY DEF Worker
  <2>. QED
    BY <1>2, <2>1 DEF TypeOK
<1>3. ASSUME worker[w].pc = "solving"
      PROVE  worker[w].claimed \in Claim /\ worker[w].delivery \in Delivery
  BY <1>3 DEF TypeOK, Worker, Resting
<1>4. CASE MarkCompleted(w)
  <2>1. worker[w].claimed.job \in Jobs /\ worker[w].claimed.attempt \in Nat
    BY <1>3, <1>4 DEF MarkCompleted, Claim
  <2>2. job' \in [Jobs -> Job]
    BY <1>4, <2>1 DEF MarkCompleted, TypeOK, Job, JobStatus
  <2>. QED
    BY <1>2, <1>4, <2>2 DEF MarkCompleted, TypeOK
<1>5. CASE MarkFailed(w)
  <2>1. worker[w].claimed.job \in Jobs /\ worker[w].delivery \in Delivery
    BY <1>3, <1>5 DEF MarkFailed, Claim
  <2>2. job' \in [Jobs -> Job]
    BY <1>5, <2>1 DEF MarkFailed, TypeOK, Job, JobStatus, JobError
  <2>. QED
    BY <1>2, <1>5, <2>1, <2>2 DEF MarkFailed, MayReturn, TypeOK
<1>6. CASE Die(w)
  BY <1>2, <1>3, <1>6 DEF Die, MayReturn, TypeOK, jobVars
<1>7. CASE Register(w)
  <2>. PICK move \in {<<"off", "idle">>, <<"idle", "off">>, <<"lost", "off">>} :
          worker' = [worker EXCEPT ![w] = Resting(move[2])]
    BY <1>7 DEF Register
  <2>1. move[2] \in {"off", "idle", "lost"}
    OBVIOUS
  <2>. QED
    BY <1>2, <1>7, <2>1 DEF Register, TypeOK, jobVars
<1>. QED
  BY <1>1, <1>4, <1>5, <1>6, <1>7 DEF WorkStep

LEMMA TypedStep == TypeOK /\ [Next]_vars => TypeOK'
<1>. SUFFICES ASSUME TypeOK, [Next]_vars PROVE TypeOK'
  OBVIOUS
<1>1. ASSUME NEW c \in Callers, Abandon(c) PROVE TypeOK'
  BY <1>1, ReturnTyped DEF Abandon, TypeOK, jobVars
<1>2. ASSUME NEW d \in delivery, LoseDelivery(d) PROVE TypeOK'
  BY <1>2 DEF LoseDelivery, TypeOK, jobVars
<1>3. ASSUME NEW j \in Jobs, Tick(j) PROVE TypeOK'
  BY <1>3 DEF Tick, TypeOK, Ages
<1>4. CASE UNCHANGED vars
  BY <1>4 DEF vars, TypeOK
<1>. QED
  BY <1>1, <1>2, <1>3, <1>4, CreateTyped, PollTyped, WorkTyped DEF Next

\* Rows, deliveries, workers and calls keep their types, for any number of each.
THEOREM TypeCorrect == Spec => []TypeOK
  BY TypedInit, TypedStep, PTL DEF Spec

-----------------------------------------------------------------------------
(***************************************************************************)
(* How one step moves a row and a worker.                                  *)
(***************************************************************************)
Begins(j) ==
    /\ attempts' = attempts + 1
    /\ job'[j].status = "queued" /\ job'[j].attempt = attempts + 1
    /\ job'[j].result \in {job[j].result, None}

\* Worker w gives up its claim, which is the current attempt of job j.
Settles(w, j) ==
    /\ worker[w].pc = "solving" /\ worker[w].claimed = Attempt(j)
    /\ worker' = [worker EXCEPT ![w] = Resting("idle")]

Fails(j, error) ==
    /\ Active(j)
    /\ job'[j] = [job[j] EXCEPT !.status = "failed", !.error = error]

RowMove(j) ==
    \/ job'[j] = job[j]
    \/ Begins(j)
    \/ job[j].status = "queued" /\ job'[j] = [job[j] EXCEPT !.status = "running"]
    \/ /\ job[j].status = "running" /\ \E w \in Workers : Settles(w, j)
       /\ job'[j] = [job[j] EXCEPT !.status = "completed", !.result = job[j].attempt]
    \/ Fails(j, "stuck")
    \/ job[j].status = "queued" /\ Fails(j, "enqueue")
    \/ Fails(j, "solve") /\ \E w \in Workers : Settles(w, j)

LEMMA FailStuckMoves ==
  ASSUME NEW stuck, NEW j \in Jobs, job' = FailStuck(job, stuck)
  PROVE  RowMove(j)
  BY DEF FailStuck, RowMove, Fails, Active

LEMMA CreateMoves ==
  ASSUME TypeOK, NEW c \in Creators, CreateStep(c), NEW j \in Jobs
  PROVE  RowMove(j) /\ attempts' \in {attempts, attempts + 1} /\ UNCHANGED worker
<1>. c \in Callers
  BY DEF Callers
<1>1. CASE UNCHANGED <<job, attempts, worker>>
  BY <1>1 DEF RowMove
<1>2. ASSUME NEW i \in Jobs, InsertJob(c, i)
      PROVE  RowMove(j) /\ attempts' = attempts + 1 /\ UNCHANGED worker
  <2>. DEFINE new == [NoJob EXCEPT !.status = "queued", !.attempt = attempts + 1,
                                   !.key = call[c].key, !.basket = call[c].basket]
  <2>1. /\ job' = [FailStuck(job, JobsOf(c)) EXCEPT ![i] = new]
        /\ attempts' = attempts + 1 /\ UNCHANGED worker
    BY <1>2 DEF InsertJob
  <2>2. new.status = "queued" /\ new.attempt = attempts + 1 /\ new.result = None
    BY DEF NoJob
  <2>3. FailStuck(job, JobsOf(c)) \in [Jobs -> Job]
    BY FailStuckTyped DEF TypeOK
  <2>. HIDE DEF new
  <2>4. CASE j = i
    BY <2>1, <2>2, <2>3, <2>4 DEF RowMove, Begins
  <2>5. CASE j # i
    <3>1. job'[j] = FailStuck(job, JobsOf(c))[j]
      BY <2>1, <2>3, <2>5
    <3>. QED
      BY <2>1, <3>1 DEF FailStuck, RowMove, Fails, Active
  <2>. QED
    BY <2>1, <2>4, <2>5
<1>3. CASE InsertRefused(c)
  BY <1>3, FailStuckMoves DEF InsertRefused
<1>4. CASE RequeueFailedJob(c)
  <2>. PICK i \in JobsOf(c) :
          job' = [job EXCEPT ![i].status = "queued", ![i].error = None,
                             ![i].attempt = attempts + 1]
    BY <1>4 DEF RequeueFailedJob
  <2>1. i \in Jobs /\ attempts' = attempts + 1 /\ UNCHANGED worker
    BY <1>4, CallRows DEF RequeueFailedJob
  <2>2. CASE j = i
    BY <2>1, <2>2 DEF RowMove, Begins, TypeOK, Job
  <2>3. CASE j # i
    BY <2>1, <2>3 DEF RowMove, TypeOK
  <2>. QED
    BY <2>1, <2>2, <2>3
<1>5. CASE CompensateFailedEnqueue(c)
  BY <1>5 DEF CompensateFailedEnqueue, RowMove, Fails, Active
<1>. QED
  BY <1>1, <1>2, <1>3, <1>4, <1>5 DEF CreateStep, StartCreate, EnsureNoActiveEquivalent,
     StartRetry, EnqueueRedisJob, jobVars

LEMMA WorkMoves ==
  ASSUME TypeOK, NEW w \in Workers, WorkStep(w), NEW j \in Jobs
  PROVE  RowMove(j) /\ UNCHANGED attempts
<1>1. CASE UNCHANGED <<job, attempts>>
  BY <1>1 DEF RowMove
<1>2. ASSUME NEW d \in delivery, TakeDelivery(w, d) PROVE RowMove(j) /\ UNCHANGED attempts
  <2>1. d.job \in Jobs
    BY <1>2 DEF TypeOK, Delivery
  <2>. QED
    BY <1>2, <2>1 DEF TakeDelivery, MayClaim, RowMove, TypeOK
<1>3. ASSUME worker[w].pc = "solving"
      PROVE  worker[w].claimed \in Claim
  BY <1>3 DEF TypeOK, Worker, Resting
<1>4. CASE MarkCompleted(w)
  <2>. DEFINE i == worker[w].claimed.job
  <2>1. /\ worker[w].pc = "solving" /\ worker' = [worker EXCEPT ![w] = Resting("idle")]
        /\ UNCHANGED attempts /\ i \in Jobs
    BY <1>3, <1>4 DEF MarkCompleted, Claim
  <2>2. CASE StillClaimed(w)
    <3>1. /\ job[i].status = "running" /\ Attempt(i) = worker[w].claimed
          /\ worker[w].claimed.attempt = job[i].attempt
      BY <2>2 DEF StillClaimed, Attempt
    <3>2. /\ job'[i] = [job[i] EXCEPT !.status = "completed", !.result = job[i].attempt]
          /\ j # i => job'[j] = job[j]
      BY <1>4, <2>1, <2>2, <3>1 DEF MarkCompleted, TypeOK
    <3>. QED
      BY <2>1, <3>1, <3>2 DEF RowMove, Settles
  <2>3. CASE ~StillClaimed(w)
    BY <1>4, <2>3 DEF MarkCompleted, RowMove
  <2>. QED
    BY <2>2, <2>3
<1>5. CASE MarkFailed(w)
  <2>. DEFINE i == worker[w].claimed.job
  <2>1. /\ worker[w].pc = "solving" /\ worker' = [worker EXCEPT ![w] = Resting("idle")]
        /\ UNCHANGED attempts /\ i \in Jobs
    BY <1>3, <1>5 DEF MarkFailed, Claim
  <2>2. CASE StillClaimed(w) /\ job' # job
    <3>1. job[i].status = "running" /\ Attempt(i) = worker[w].claimed
      BY <2>2 DEF StillClaimed
    <3>2. /\ job'[i] = [job[i] EXCEPT !.status = "failed", !.error = "solve"]
          /\ j # i => job'[j] = job[j]
      BY <1>5, <2>1, <2>2 DEF MarkFailed, TypeOK
    <3>. QED
      BY <2>1, <3>1, <3>2 DEF RowMove, Settles, Fails, Active
  <2>3. CASE ~StillClaimed(w) \/ job' = job
    BY <1>5, <2>3 DEF MarkFailed, RowMove
  <2>. QED
    BY <2>2, <2>3
<1>. QED
  BY <1>1, <1>2, <1>4, <1>5 DEF WorkStep, Die, Register, jobVars

LEMMA RowMoves ==
  ASSUME TypeOK, [Next]_vars, NEW j \in Jobs
  PROVE  RowMove(j) /\ attempts' \in {attempts, attempts + 1}
<1>1. CASE UNCHANGED <<job, attempts>>
  BY <1>1 DEF RowMove
<1>2. ASSUME NEW p \in Pollers, PollStep(p) PROVE RowMove(j) /\ UNCHANGED attempts
  <2>1. CASE UNCHANGED <<job, attempts>>
    BY <2>1 DEF RowMove
  <2>. QED
    BY <1>2, <2>1, FailStuckMoves DEF PollStep, StartPoll, FinishPoll, jobVars
<1>. QED
  BY <1>1, <1>2, CreateMoves, WorkMoves
     DEF Next, Abandon, LoseDelivery, Tick, vars, jobVars

-----------------------------------------------------------------------------
(***************************************************************************)
(* The inductive invariant of the fence.                                   *)
(***************************************************************************)
TokensIssued ==
    /\ \A j \in Jobs : job[j].attempt <= attempts
    /\ \A w \in Workers : worker[w].pc = "solving" => worker[w].claimed.attempt <= attempts

FenceInv == TokensIssued /\ ClaimedAttemptRuns /\ ResultIsCurrent

\* A worker that solves after a step solved the same attempt before it, or took a delivery
\* and claimed the queued attempt of its job.
Claims(w) ==
    \E j \in Jobs :
        /\ job[j].status = "queued"
        /\ job'[j] = [job[j] EXCEPT !.status = "running"]
        /\ worker'[w].pc = "solving" /\ worker'[w].claimed = Attempt(j)
        /\ \A v \in Workers \ {w} : worker'[v] = worker[v]
        /\ UNCHANGED attempts

LEMMA WorkerMoves ==
  ASSUME TypeOK, [Next]_vars, NEW w \in Workers, worker'[w].pc = "solving"
  PROVE  (worker[w].pc = "solving" /\ worker'[w].claimed = worker[w].claimed) \/ Claims(w)
<1>1. CASE UNCHANGED worker
  BY <1>1
<1>2. ASSUME NEW v \in Workers, NEW pc \in {"off", "idle", "lost"},
             worker' = [worker EXCEPT ![v] = Resting(pc)]
      PROVE  worker[w].pc = "solving" /\ worker'[w].claimed = worker[w].claimed
  <2>1. v # w
    BY <1>2 DEF TypeOK, Resting
  <2>. QED
    BY <1>2, <2>1 DEF TypeOK
<1>3. ASSUME NEW v \in Workers, NEW d \in delivery, TakeDelivery(v, d)
      PROVE  (worker[w].pc = "solving" /\ worker'[w].claimed = worker[w].claimed) \/ Claims(w)
  <2>1. d.job \in Jobs
    BY <1>3 DEF TypeOK, Delivery
  <2>2. CASE ~MayClaim(d)
    BY <1>3, <2>2 DEF TakeDelivery
  <2>3. CASE MayClaim(d)
    <3>1. /\ job' = [job EXCEPT ![d.job].status = "running"]
          /\ worker' = [worker EXCEPT ![v] = [pc |-> "solving", claimed |-> Attempt(d.job),
                                              delivery |-> d]]
          /\ UNCHANGED attempts /\ job[d.job].status = "queued"
      BY <1>3, <2>3 DEF TakeDelivery, MayClaim
    <3>2. CASE v # w
      BY <3>1, <3>2 DEF TypeOK
    <3>3. CASE v = w
      BY <2>1, <3>1, <3>3 DEF Claims, TypeOK
    <3>. QED
      BY <3>2, <3>3
  <2>. QED
    BY <2>2, <2>3
<1>4. ASSUME NEW v \in Workers, Register(v)
      PROVE  worker[w].pc = "solving" /\ worker'[w].claimed = worker[w].claimed
  <2>. PICK move \in {<<"off", "idle">>, <<"idle", "off">>, <<"lost", "off">>} :
          worker' = [worker EXCEPT ![v] = Resting(move[2])]
    BY <1>4 DEF Register
  <2>1. move[2] \in {"off", "idle", "lost"}
    OBVIOUS
  <2>. QED
    BY <1>2, <2>1
<1>5. ASSUME NEW v \in Workers, WorkStep(v)
      PROVE  (worker[w].pc = "solving" /\ worker'[w].claimed = worker[w].claimed) \/ Claims(w)
  BY <1>2, <1>3, <1>4, <1>5 DEF WorkStep, MarkCompleted, MarkFailed, Die
<1>6. ASSUME NEW c \in Creators, CreateStep(c) PROVE UNCHANGED worker
  BY <1>6 DEF CreateStep, StartCreate, EnsureNoActiveEquivalent, InsertJob, InsertRefused,
     StartRetry, RequeueFailedJob, EnqueueRedisJob, CompensateFailedEnqueue
<1>. QED
  BY <1>1, <1>5, <1>6 DEF Next, PollStep, StartPoll, FinishPoll, Abandon, LoseDelivery, Tick, vars

LEMMA AttemptsMove ==
  ASSUME [Next]_vars
  PROVE  attempts' \in {attempts, attempts + 1}
  BY DEF Next, CreateStep, StartCreate, EnsureNoActiveEquivalent, InsertJob, InsertRefused,
     StartRetry, RequeueFailedJob, EnqueueRedisJob, CompensateFailedEnqueue, PollStep, StartPoll,
     FinishPoll, Abandon, WorkStep, TakeDelivery, MarkCompleted, MarkFailed, Die, Register,
     LoseDelivery, Tick, jobVars, vars

LEMMA ClaimTyped ==
  ASSUME TypeOK, NEW w \in Workers, worker[w].pc = "solving"
  PROVE  worker[w].claimed \in Claim
  BY DEF TypeOK, Worker, Resting

\* A row keeps its attempt or begins a new one.
LEMMA AttemptOfRow ==
  ASSUME TypeOK, NEW j \in Jobs, RowMove(j), ~Begins(j)
  PROVE  job'[j].attempt = job[j].attempt
  BY DEF RowMove, Fails, TypeOK, Job

LEMMA TokensStep ==
  ASSUME TypeOK, TokensIssued, [Next]_vars
  PROVE  TokensIssued'
<1>1. attempts \in Nat /\ attempts' \in {attempts, attempts + 1}
  BY AttemptsMove DEF TypeOK
<1>2. ASSUME NEW j \in Jobs PROVE job'[j].attempt <= attempts'
  <2>1. job[j].attempt \in Nat /\ job[j].attempt <= attempts
    BY DEF TypeOK, Job, TokensIssued
  <2>2. CASE Begins(j)
    BY <1>1, <2>2 DEF Begins
  <2>3. CASE ~Begins(j)
    BY <1>1, <2>1, <2>3, RowMoves, AttemptOfRow
  <2>. QED
    BY <2>2, <2>3
<1>3. ASSUME NEW w \in Workers, worker'[w].pc = "solving"
      PROVE  worker'[w].claimed.attempt <= attempts'
  <2>1. CASE worker[w].pc = "solving" /\ worker'[w].claimed = worker[w].claimed
    <3>1. worker[w].claimed.attempt \in Nat /\ worker[w].claimed.attempt <= attempts
      BY <2>1, ClaimTyped DEF TokensIssued, Claim
    <3>. QED
      BY <1>1, <2>1, <3>1
  <2>2. ASSUME NEW j \in Jobs, worker'[w].claimed = Attempt(j)
        PROVE  worker'[w].claimed.attempt <= attempts'
    <3>1. job[j].attempt \in Nat /\ job[j].attempt <= attempts
      BY DEF TypeOK, Job, TokensIssued
    <3>. QED
      BY <1>1, <2>2, <3>1 DEF Attempt
  <2>. QED
    BY <1>3, <2>1, <2>2, WorkerMoves DEF Claims
<1>. QED
  BY <1>2, <1>3 DEF TokensIssued

\* What ClaimedAttemptRuns says of two workers, and of one worker and its job.
Apart(v, w) == worker[v].pc = "solving" => worker[v].claimed # worker[w].claimed

Runs(w) ==
    job[worker[w].claimed.job].attempt = worker[w].claimed.attempt =>
        \/ job[worker[w].claimed.job].status = "running"
        \/ /\ job[worker[w].claimed.job].status = "failed"
           /\ job[worker[w].claimed.job].error = "stuck"

LEMMA ClaimedSplit ==
  ClaimedAttemptRuns <=>
    \A w \in Workers : worker[w].pc = "solving" =>
        Runs(w) /\ \A v \in Workers \ {w} : Apart(v, w)
  BY DEF ClaimedAttemptRuns, Apart, Runs

\* No worker holds the attempt of a queued job.
LEMMA QueuedUnclaimed ==
  ASSUME TypeOK, ClaimedAttemptRuns, NEW j \in Jobs, job[j].status = "queued",
         NEW w \in Workers, worker[w].pc = "solving"
  PROVE  worker[w].claimed # Attempt(j)
  BY ClaimedSplit DEF Runs, Attempt

LEMMA ApartStep ==
  ASSUME TypeOK, ClaimedAttemptRuns, [Next]_vars, NEW w \in Workers, NEW v \in Workers \ {w},
         worker'[w].pc = "solving", worker'[v].pc = "solving"
  PROVE  worker'[v].claimed # worker'[w].claimed
<1>1. CASE Claims(w)
  <2>1. worker'[v] = worker[v] /\ \E j \in Jobs : /\ job[j].status = "queued"
                                                /\ worker'[w].claimed = Attempt(j)
    BY <1>1 DEF Claims
  <2>. QED
    BY <2>1, QueuedUnclaimed
<1>2. CASE Claims(v)
  <2>1. worker'[w] = worker[w] /\ \E j \in Jobs : /\ job[j].status = "queued"
                                                /\ worker'[v].claimed = Attempt(j)
    BY <1>2 DEF Claims
  <2>. QED
    BY <2>1, QueuedUnclaimed
<1>3. CASE ~Claims(w) /\ ~Claims(v)
  BY <1>3, WorkerMoves, ClaimedSplit DEF Apart
<1>. QED
  BY <1>1, <1>2, <1>3

LEMMA RunsStep ==
  ASSUME TypeOK, FenceInv, [Next]_vars, NEW w \in Workers, worker'[w].pc = "solving"
  PROVE  Runs(w)'
<1>1. CASE Claims(w)
  BY <1>1 DEF Claims, Runs, Attempt, TypeOK, Job
<1>2. CASE worker[w].pc = "solving" /\ worker'[w].claimed = worker[w].claimed
  <2>. DEFINE j == worker[w].claimed.job
  <2>1. /\ j \in Jobs /\ worker[w].claimed.attempt \in Nat
        /\ worker[w].claimed = [job |-> j, attempt |-> worker[w].claimed.attempt]
    BY <1>2, ClaimTyped DEF Claim
  <2>2. Runs(w) /\ \A v \in Workers \ {w} : Apart(v, w)
    BY <1>2, ClaimedSplit DEF FenceInv
  <2>3. RowMove(j) /\ job[j] \in Job
    BY <2>1, RowMoves DEF TypeOK
  <2>. SUFFICES ASSUME job'[j].attempt = worker[w].claimed.attempt
                PROVE  \/ job'[j].status = "running"
                       \/ job'[j].status = "failed" /\ job'[j].error = "stuck"
    BY <1>2 DEF Runs
  <2>4. ~Begins(j)
    BY <1>2, <2>1 DEF Begins, FenceInv, TokensIssued, TypeOK
  <2>5. job[j].attempt = worker[w].claimed.attempt
    BY <2>1, <2>3, <2>4, AttemptOfRow
  <2>6. worker[w].claimed = Attempt(j)
    BY <2>1, <2>5 DEF Attempt
  <2>7. ASSUME NEW v \in Workers, Settles(v, j) PROVE FALSE
    <3>1. v = w
      BY <2>2, <2>6, <2>7 DEF Settles, Apart
    <3>2. worker'[w].pc = "idle"
      BY <2>7, <3>1 DEF Settles, TypeOK, Resting
    <3>. QED
      BY <3>2
  <2>8. job[j].status = "running" \/ (job[j].status = "failed" /\ job[j].error = "stuck")
    BY <2>2, <2>5 DEF Runs
  <2>. QED
    BY <2>3, <2>4, <2>7, <2>8 DEF RowMove, Fails, Active, Job
<1>. QED
  BY <1>1, <1>2, WorkerMoves

LEMMA ResultStep ==
  ASSUME TypeOK, ResultIsCurrent, [Next]_vars
  PROVE  ResultIsCurrent'
<1>. SUFFICES ASSUME NEW j \in Jobs, job'[j].status = "completed"
              PROVE  job'[j].result = job'[j].attempt
  BY DEF ResultIsCurrent, Promise!CurrentResult
<1>1. RowMove(j) /\ job[j] \in Job
  BY RowMoves DEF TypeOK
<1>2. job[j].status = "completed" => job[j].result = job[j].attempt
  BY DEF ResultIsCurrent, Promise!CurrentResult
<1>. QED
  BY <1>1, <1>2 DEF RowMove, Begins, Fails, Job

LEMMA FenceStep == TypeOK /\ FenceInv /\ [Next]_vars => FenceInv'
<1>. SUFFICES ASSUME TypeOK, FenceInv, [Next]_vars PROVE FenceInv'
  OBVIOUS
<1>1. TokensIssued' /\ ResultIsCurrent'
  BY TokensStep, ResultStep DEF FenceInv
<1>2. ASSUME NEW w \in Workers, worker'[w].pc = "solving"
      PROVE  Runs(w)' /\ \A v \in Workers \ {w} : Apart(v, w)'
  BY <1>2, RunsStep, ApartStep DEF Apart, FenceInv
<1>3. ClaimedAttemptRuns'
  BY <1>2, ClaimedSplit DEF ClaimedAttemptRuns, Apart, Runs
<1>. QED
  BY <1>1, <1>3 DEF FenceInv

LEMMA InitialRows ==
  ASSUME Init, NEW j \in Jobs
  PROVE  /\ job[j].attempt = 0 /\ job[j].result = None
         /\ job[j].status = IF j \in Legacy THEN "queued" ELSE "none"
<1>. PICK key \in [Legacy -> Keys \cup {None}], basket \in [Legacy -> Baskets] :
        job = [i \in Jobs |-> IF i \in Legacy
                              THEN [NoJob EXCEPT !.status = "queued", !.key = key[i],
                                                 !.basket = basket[i]]
                              ELSE NoJob]
  BY DEF Init
<1>. QED
  BY DEF NoJob

LEMMA FenceInit == Init => FenceInv
<1>. SUFFICES ASSUME Init PROVE FenceInv
  OBVIOUS
<1>1. attempts = 0 /\ \A w \in Workers : worker[w].pc = "off"
  BY DEF Init, Resting
<1>2. \A j \in Jobs : /\ job[j].attempt = 0 /\ job[j].result = None
                      /\ job[j].status = IF j \in Legacy THEN "queued" ELSE "none"
  BY InitialRows
<1>. QED
  BY <1>1, <1>2 DEF FenceInv, TokensIssued, ClaimedAttemptRuns, ResultIsCurrent,
     Promise!CurrentResult

\* No attempt is solved twice, and none is taken from the worker that solves it but by a
\* reader that finds it stuck, for any number of workers, retries and late deliveries.
THEOREM ClaimsHold == Spec => []ClaimedAttemptRuns
  BY TypedInit, TypedStep, FenceInit, FenceStep, PTL DEF Spec, FenceInv

\* A completed job always shows the result of its current attempt.
THEOREM ResultsAreCurrent == Spec => []ResultIsCurrent
  BY TypedInit, TypedStep, FenceInit, FenceStep, PTL DEF Spec, FenceInv

-----------------------------------------------------------------------------
(***************************************************************************)
(* The rows implement JobAttempts.                                         *)
(***************************************************************************)
LEMMA RowsStart == Init => Promise!Init
<1>. SUFFICES ASSUME Init PROVE Promise!Init
  OBVIOUS
<1>2. \A j \in Jobs : /\ job[j].attempt = 0 /\ job[j].result = None
                      /\ job[j].status = IF j \in Legacy THEN "queued" ELSE "none"
  BY InitialRows
<1>. QED
  BY <1>2 DEF Promise!Init

LEMMA RowAdvances ==
  ASSUME TypeOK, TokensIssued, [Next]_vars, NEW j \in Jobs
  PROVE  LET old == [status |-> job[j].status, attempt |-> job[j].attempt, result |-> job[j].result]
             new == [status |-> job'[j].status, attempt |-> job'[j].attempt,
                     result |-> job'[j].result]
         IN  new = old \/ Promise!Advance(old, new)
<1>. DEFINE old == [status |-> job[j].status, attempt |-> job[j].attempt, result |-> job[j].result]
            new == [status |-> job'[j].status, attempt |-> job'[j].attempt,
                    result |-> job'[j].result]
<1>1. RowMove(j) /\ job[j] \in Job /\ attempts \in Nat /\ job[j].attempt <= attempts
  BY RowMoves DEF TypeOK, TokensIssued
<1>2. CASE Begins(j)
  BY <1>1, <1>2 DEF Begins, Promise!Advance, Promise!Start, Job
<1>3. CASE job[j].status = "queued" /\ job'[j] = [job[j] EXCEPT !.status = "running"]
  BY <1>1, <1>3 DEF Promise!Advance, Promise!Claim, Job
<1>4. CASE /\ job[j].status = "running"
           /\ job'[j] = [job[j] EXCEPT !.status = "completed", !.result = job[j].attempt]
  <2>1. /\ job'[j].status = "completed"
        /\ job'[j].attempt = job[j].attempt /\ job'[j].result = job[j].attempt
    BY <1>1, <1>4 DEF Job
  <2>. QED
    BY <2>1, <1>4 DEF Promise!Advance, Promise!Complete
<1>5. ASSUME NEW error, Fails(j, error) PROVE Promise!Advance(old, new)
  BY <1>1, <1>5 DEF Fails, Active, Promise!Advance, Promise!Fail, Job
<1>. QED
  BY <1>1, <1>2, <1>3, <1>4, <1>5 DEF RowMove

Rows == [j \in Jobs |-> [status |-> job[j].status, attempt |-> job[j].attempt,
                         result |-> job[j].result]]

LEMMA RowsStep == TypeOK /\ TypeOK' /\ TokensIssued /\ [Next]_vars => [Promise!Next]_Rows
<1>. SUFFICES ASSUME TypeOK, TypeOK', TokensIssued, [Next]_vars PROVE Promise!Next
  OBVIOUS
<1>1. Rows' \in [Jobs -> Promise!Row]
  <2>. SUFFICES ASSUME NEW j \in Jobs
                PROVE  [status |-> job'[j].status, attempt |-> job'[j].attempt,
                        result |-> job'[j].result] \in Promise!Row
    BY DEF Rows
  <2>1. job'[j] \in Job
    BY DEF TypeOK
  <2>. QED
    BY <2>1 DEF Job, JobStatus, Promise!Row, Promise!Status
<1>2. \A j \in Jobs : Rows'[j] = Rows[j] \/ Promise!Advance(Rows[j], Rows'[j])
  BY RowAdvances DEF Rows
<1>. QED
  BY <1>1, <1>2 DEF Promise!Next, Rows

\* The rows of the implementation move only as the abstract jobs do, for any number of jobs,
\* workers, callers and attempts.
THEOREM FenceImplemented == Spec => AttemptsAreFenced
  BY RowsStart, RowsStep, TypedInit, TypedStep, FenceInit, FenceStep, PTL
  DEF Spec, AttemptsAreFenced, Promise!Spec, FenceInv, Rows
=============================================================================
