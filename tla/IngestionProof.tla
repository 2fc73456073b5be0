---------------------------- MODULE IngestionProof ----------------------------
(***************************************************************************)
(* Inbound e-mail for any number of messages, redeliveries and workers,    *)
(* any limit of attempts and any number of requeues.  The invariants of    *)
(* the runs become inductive with two facts: an attempt that is claimed is *)
(* below the limit, and a worker that handles a message holds its log row, *)
(* which is open for as long.                                              *)
(***************************************************************************)
EXTENDS IngestionProperties, TLAPS

\* What is not over has an attempt left, and only what is processed has a lease.
JobInv ==
    \A j \in Jobs :
       /\ job[j].status \notin {"completed", "failed"} => job[j].attempts < MaxAttempts
       /\ job[j].stale => job[j].status = "processing"

\* A worker that does something has a job, claimed below the limit like those it has left to do.
ClaimedBelow(w) ==
    /\ worker[w].pc # "idle" => worker[w].job \in Jobs
                               /\ worker[w].claimed[worker[w].job] < MaxAttempts
    /\ \A j \in worker[w].todo : worker[w].claimed[j] < MaxAttempts

ClaimInv == \A w \in Workers : ClaimedBelow(w)

Typed == TypeOK /\ JobInv /\ ClaimInv

\* The transaction of a message is open: its worker has the row, and the row may be handled.
OpenInv ==
    \A w \in Workers : worker[w].pc = "work" =>
       row[MessageAt(w)] = w /\ log[MessageAt(w)] \in {"none", "failed"}

\* What a worker is about to call completed was dealt with.
OutcomeInv ==
    \A w \in Workers : worker[w].pc \in {"after", "complete"} =>
       \/ content[MessageAt(w)] = "unparsable"
       \/ log[MessageAt(w)] \in Handled

IInv ==
    /\ Typed
    /\ OpenInv
    /\ OutcomeInv
    /\ OneQuotationPerMessage
    /\ CompletedMeansHandled
-----------------------------------------------------------------------------
LEMMA IdleTyped == Idle \in Worker
  BY BoundsAssumption DEF Idle, Worker

LEMMA TypedInit == Init => Typed
<1>. SUFFICES ASSUME Init PROVE Typed
  OBVIOUS
<1>1. TypeOK
  BY IdleTyped, BoundsAssumption DEF Init, TypeOK, Job, LogStatus
<1>2. JobInv
  BY BoundsAssumption DEF Init, JobInv
<1>3. ClaimInv
  BY NoneAssumption DEF Init, ClaimInv, ClaimedBelow, Idle
<1>. QED
  BY <1>1, <1>2, <1>3 DEF Typed

\* What a claim makes of a job it may take.
LEMMA ReclaimedTyped ==
  ASSUME Typed, NEW j \in Claimable
  PROVE  /\ Reclaimed(j) \in Job
         /\ Reclaimed(j).status \in {"processing", "failed"}
         /\ Reclaimed(j).status = "processing" => Reclaimed(j).attempts < MaxAttempts
         /\ ~Reclaimed(j).stale
<1>1. /\ j \in Jobs /\ job[j] \in Job /\ job[j].attempts < MaxAttempts
      /\ job[j].status = "pending" => ~job[j].stale
  BY DEF Typed, TypeOK, JobInv, Claimable, Job
<1>2. CASE job[j].status = "pending"
  <2>1. Reclaimed(j) = [job[j] EXCEPT !.status = "processing"]
    BY <1>2 DEF Reclaimed
  <2>. QED
    BY <1>1, <1>2, <2>1 DEF Job
<1>3. CASE job[j].status # "pending"
  <2>1. /\ job[j].attempts + 1 \in 0..MaxAttempts
        /\ job[j].attempts + 1 < MaxAttempts \/ job[j].attempts + 1 >= MaxAttempts
    BY <1>1, BoundsAssumption DEF Job
  <2>. QED
    BY <1>3, <2>1 DEF Reclaimed, Job
<1>. QED
  BY <1>2, <1>3

\* A step of a worker through its pass that leaves the jobs to do and their attempts alone.
LEMMA GotoTyped ==
  ASSUME Typed, NEW w \in Workers, worker[w].pc # "idle",
         NEW pc \in {"fetch", "insert", "work", "after", "note", "complete", "fail"},
         Goto(w, pc), UNCHANGED job
  PROVE  worker' \in [Workers -> Worker] /\ JobInv' /\ ClaimInv'
<1>1. worker' = [worker EXCEPT ![w].pc = pc]
  BY DEF Goto
<1>2. worker' \in [Workers -> Worker]
  BY <1>1 DEF Typed, TypeOK, Worker
<1>3. JobInv'
  BY DEF Typed, JobInv
<1>4. ClaimInv'
  BY <1>1 DEF Typed, TypeOK, ClaimInv, ClaimedBelow, Worker
<1>. QED
  BY <1>2, <1>3, <1>4

\* The end of a job: its worker is idle again and looks at the next one.
LEMMA DoneTyped ==
  ASSUME Typed, NEW w \in Workers, worker[w].pc # "idle", Done(w)
  PROVE  worker' \in [Workers -> Worker] /\ ClaimInv'
<1>1. worker[w].job \in Jobs /\ 0 \in 0..MaxAttempts /\ 0 < MaxAttempts
  BY BoundsAssumption DEF Typed, ClaimInv, ClaimedBelow
<1>2. /\ worker' \in [Workers -> Worker]
      /\ \A v \in Workers \ {w} : worker'[v] = worker[v]
      /\ worker'[w].pc = "idle" /\ worker'[w].job = None /\ worker'[w].todo = worker[w].todo
      /\ worker'[w].claimed = [worker[w].claimed EXCEPT ![worker[w].job] = 0]
  BY <1>1 DEF Done, Typed, TypeOK, Worker
<1>3. ClaimInv'
  <2>. SUFFICES ASSUME NEW v \in Workers
                PROVE  ClaimedBelow(v)'
    BY DEF ClaimInv
  <2>1. CASE v # w
    BY <1>2, <2>1 DEF Typed, ClaimInv, ClaimedBelow
  <2>2. CASE v = w
    BY <1>1, <1>2, <2>2 DEF Typed, TypeOK, ClaimInv, ClaimedBelow, Worker
  <2>. QED
    BY <2>1, <2>2
<1>. QED
  BY <1>2, <1>3

LEMMA ClaimTyped ==
  ASSUME Typed, NEW w \in Workers, Claim(w)
  PROVE  Typed'
<1>1. job' \in [Jobs -> Job]
  BY ReclaimedTyped DEF Claim, Typed, TypeOK
<1>2. JobInv'
  BY ReclaimedTyped DEF Claim, Typed, JobInv
<1>. DEFINE mine == {j \in Claimable : Reclaimed(j).status = "processing"}
            given == [j \in Jobs |-> IF j \in Claimable THEN Reclaimed(j).attempts ELSE 0]
<1>3. /\ worker' = [worker EXCEPT ![w].todo = mine, ![w].claimed = given]
      /\ worker[w].pc = "idle"
  BY DEF Claim
<1>4. mine \subseteq Jobs /\ given \in [Jobs -> 0..MaxAttempts]
  BY ReclaimedTyped, BoundsAssumption DEF Claimable, Job
<1>5. \A j \in mine : given[j] < MaxAttempts
  BY ReclaimedTyped, <1>4 DEF Claimable
<1>. HIDE DEF mine, given
<1>6. /\ worker' \in [Workers -> Worker]
      /\ \A v \in Workers \ {w} : worker'[v] = worker[v]
      /\ worker'[w].pc = "idle" /\ worker'[w].todo = mine /\ worker'[w].claimed = given
  <2>1. worker' = [worker EXCEPT ![w] = [worker[w] EXCEPT !.todo = mine, !.claimed = given]]
    BY <1>3 DEF Typed, TypeOK, Worker
  <2>2. [worker[w] EXCEPT !.todo = mine, !.claimed = given] \in Worker
    BY <1>4 DEF Typed, TypeOK, Worker
  <2>. QED
    BY <1>3, <2>1, <2>2 DEF Typed, TypeOK, Worker
<1>7. ClaimInv'
  BY <1>5, <1>6 DEF Typed, ClaimInv, ClaimedBelow
<1>. QED
  BY <1>1, <1>2, <1>6, <1>7 DEF Claim, Typed, TypeOK

\* The outcome of a job, written by whoever claimed it and whatever its row says by now.
LEMMA OutcomeTyped ==
  ASSUME Typed, NEW w \in Workers, worker[w].pc # "idle", Done(w),
         NEW r \in Job, r.status \notin {"completed", "failed"} => r.attempts < MaxAttempts,
         ~r.stale, job' = [job EXCEPT ![worker[w].job] = r]
  PROVE  job' \in [Jobs -> Job] /\ JobInv' /\ worker' \in [Workers -> Worker] /\ ClaimInv'
<1>1. worker[w].job \in Jobs
  BY DEF Typed, ClaimInv, ClaimedBelow
<1>2. job' \in [Jobs -> Job]
  BY DEF Typed, TypeOK
<1>3. JobInv'
  BY <1>1 DEF Typed, TypeOK, JobInv
<1>. QED
  BY <1>2, <1>3, DoneTyped

LEMMA TypedStep == Typed /\ [Next]_vars => Typed'
<1>. SUFFICES ASSUME Typed, [Next]_vars PROVE Typed'
  OBVIOUS
<1>. USE DEF TypeOK
<1>1. ASSUME NEW j \in Jobs, Accept(j) PROVE Typed'
  <2>1. job' = [job EXCEPT ![j] = [job[j] EXCEPT !.status = "pending"]] /\ job[j].status = "none"
    BY <1>1 DEF Accept, Typed, Job
  <2>. QED
    BY <1>1, <2>1 DEF Accept, Typed, JobInv, ClaimInv, ClaimedBelow, Job
<1>2. ASSUME NEW j \in Jobs, LeaseExpires(j) PROVE Typed'
  BY <1>2 DEF LeaseExpires, Typed, JobInv, ClaimInv, ClaimedBelow, Job
<1>3. ASSUME NEW j \in Jobs, Requeue(j) PROVE Typed'
  BY <1>3, BoundsAssumption DEF Requeue, Typed, JobInv, ClaimInv, ClaimedBelow, Job
<1>4. ASSUME NEW w \in Workers, Claim(w) PROVE Typed'
  BY <1>4, ClaimTyped
<1>5. ASSUME NEW w \in Workers, Take(w) PROVE Typed'
  BY <1>5 DEF Take, Typed, JobInv, ClaimInv, ClaimedBelow, Worker
<1>6. ASSUME NEW w \in Workers, Fetch(w) PROVE Typed'
  BY <1>6, GotoTyped DEF Fetch, Typed
<1>7. ASSUME NEW w \in Workers, InsertLog(w) PROVE Typed'
  BY <1>7, GotoTyped DEF InsertLog, Typed
<1>8. ASSUME NEW w \in Workers, Reject(w) PROVE Typed'
  BY <1>8, GotoTyped DEF Reject, Typed, LogStatus
<1>9. ASSUME NEW w \in Workers, MakeQuotation(w) PROVE Typed'
  <2>1. worker' \in [Workers -> Worker] /\ JobInv' /\ ClaimInv'
    BY <1>9, GotoTyped DEF MakeQuotation
  <2>2. quotations' \in [Messages -> Nat]
    <3>1. MessageAt(w) \in Messages
      BY <1>9, JobsAssumption DEF MakeQuotation, Typed, ClaimInv, ClaimedBelow, MessageAt
    <3>2. quotations[MessageAt(w)] + 1 \in Nat
      BY <3>1 DEF Typed
    <3>. QED
      BY <1>9, <3>2 DEF MakeQuotation, Typed
  <2>. QED
    BY <1>9, <2>1, <2>2 DEF MakeQuotation, Typed, LogStatus
<1>10. ASSUME NEW w \in Workers, RollBack(w) PROVE Typed'
  BY <1>10, GotoTyped DEF RollBack, Typed
<1>11. ASSUME NEW w \in Workers, NoteFailure(w) PROVE Typed'
  BY <1>11, GotoTyped DEF NoteFailure, Noted, Typed, LogStatus
<1>12. ASSUME NEW w \in Workers, AfterCommit(w) PROVE Typed'
  BY <1>12, GotoTyped DEF AfterCommit, Typed
<1>13. ASSUME NEW w \in Workers, Complete(w) PROVE Typed'
  <2>. DEFINE r == [job[worker[w].job] EXCEPT !.status = "completed", !.stale = FALSE]
  <2>1. r \in Job /\ r.status = "completed" /\ ~r.stale
    BY <1>13 DEF Complete, Typed, ClaimInv, ClaimedBelow, Job
  <2>2. job' = [job EXCEPT ![worker[w].job] = r]
    BY <1>13 DEF Complete, Typed
  <2>. QED
    BY <1>13, <2>1, <2>2, OutcomeTyped DEF Complete, Typed
<1>14. ASSUME NEW w \in Workers, Fail(w) PROVE Typed'
  <2>. DEFINE n == worker[w].claimed[worker[w].job] + 1
              r == [status |-> IF n < MaxAttempts THEN "pending" ELSE "failed", attempts |-> n,
                    stale |-> FALSE]
  <2>1. n \in 0..MaxAttempts
    BY <1>14, BoundsAssumption DEF Fail, Typed, ClaimInv, ClaimedBelow, Worker
  <2>2. r \in Job /\ (r.status \notin {"completed", "failed"} => r.attempts < MaxAttempts) /\ ~r.stale
    BY <2>1 DEF Job
  <2>3. job' = [job EXCEPT ![worker[w].job] = r]
    BY <1>14 DEF Fail
  <2>. QED
    BY <1>14, <2>2, <2>3, OutcomeTyped DEF Fail, Typed
<1>15. ASSUME NEW w \in Workers, Crash(w) PROVE Typed'
  BY <1>15, IdleTyped DEF Crash, Typed, JobInv, ClaimInv, ClaimedBelow, Idle
<1>16. CASE UNCHANGED vars
  BY <1>16 DEF vars, Typed, JobInv, ClaimInv, ClaimedBelow
<1>17. ASSUME NEW w \in Workers, Step(w) PROVE Typed'
  BY <1>4, <1>5, <1>6, <1>7, <1>8, <1>9, <1>10, <1>11, <1>12, <1>13, <1>14, <1>17 DEF Step
<1>. QED
  BY <1>1, <1>2, <1>3, <1>15, <1>16, <1>17 DEF Next
-----------------------------------------------------------------------------
(***************************************************************************)
(* The messages.                                                           *)
(***************************************************************************)
MessageInv == OpenInv /\ OutcomeInv /\ OneQuotationPerMessage /\ CompletedMeansHandled

LEMMA MessageInit == Init => MessageInv
  BY DEF Init, MessageInv, OpenInv, OutcomeInv, OneQuotationPerMessage, CompletedMeansHandled, Idle

\* The message of a worker that does something.
LEMMA MessageTyped ==
  ASSUME Typed, NEW w \in Workers, worker[w].pc # "idle"
  PROVE  MessageAt(w) \in Messages /\ worker[w].job \in Jobs
  BY JobsAssumption DEF Typed, ClaimInv, ClaimedBelow, MessageAt

\* Steps that move one worker, and not to a place where something is claimed of its message.
LEMMA QuietMove ==
  ASSUME Typed, MessageInv, NEW w \in Workers,
         \A v \in Workers \ {w} : worker'[v] = worker[v],
         worker'[w].pc \notin {"work", "after", "complete"},
         UNCHANGED <<content, log, quotations>>,
         \A m \in Messages : row[m] # w => row'[m] = row[m],
         \A j \in Jobs : job'[j].status = "completed" => job[j].status = "completed"
  PROVE  MessageInv'
<1>1. OpenInv'
  <2>. SUFFICES ASSUME NEW v \in Workers, worker'[v].pc = "work"
                PROVE  row'[MessageAt(v)'] = v /\ log'[MessageAt(v)'] \in {"none", "failed"}
    BY DEF OpenInv
  <2>1. v # w /\ worker'[v] = worker[v] /\ MessageAt(v)' = MessageAt(v)
    BY DEF MessageAt
  <2>2. row[MessageAt(v)] = v /\ log[MessageAt(v)] \in {"none", "failed"}
    BY <2>1 DEF MessageInv, OpenInv
  <2>3. MessageAt(v) \in Messages
    BY <2>1, MessageTyped
  <2>. QED
    BY <2>1, <2>2, <2>3
<1>2. OutcomeInv'
  BY DEF MessageInv, OutcomeInv, MessageAt
<1>3. OneQuotationPerMessage' /\ CompletedMeansHandled'
  BY DEF MessageInv, OneQuotationPerMessage, CompletedMeansHandled
<1>. QED
  BY <1>1, <1>2, <1>3 DEF MessageInv

\* The transaction of a message ends: its row is let go, and the message is dealt with or not.
LEMMA CommitMove ==
  ASSUME Typed, MessageInv, NEW w \in Workers, worker[w].pc = "work",
         NEW s \in {"rejected", "completed"}, NEW pc \in {"after", "complete"},
         log' = [log EXCEPT ![MessageAt(w)] = s],
         row' = [row EXCEPT ![MessageAt(w)] = None],
         Goto(w, pc),
         quotations' = IF s = "completed" THEN [quotations EXCEPT ![MessageAt(w)] = @ + 1]
                       ELSE quotations,
         UNCHANGED <<content, job>>
  PROVE  MessageInv'
<1>. DEFINE m == MessageAt(w)
<1>1. m \in Messages /\ row[m] = w /\ log[m] \in {"none", "failed"} /\ quotations[m] = 0
  BY MessageTyped DEF MessageInv, OpenInv, OneQuotationPerMessage
<1>2. /\ \A v \in Workers : MessageAt(v)' = MessageAt(v)
      /\ \A v \in Workers \ {w} : worker'[v] = worker[v]
      /\ worker'[w].pc = pc
  BY DEF Goto, MessageAt, Typed, TypeOK, Worker
<1>. HIDE DEF m
<1>3. \A o \in Messages : /\ log'[o] = IF o = m THEN s ELSE log[o]
                          /\ row'[o] = IF o = m THEN None ELSE row[o]
                          /\ quotations'[o] = IF o = m /\ s = "completed" THEN 1 ELSE quotations[o]
  BY <1>1 DEF Typed, TypeOK, m
<1>4. OpenInv'
  <2>. SUFFICES ASSUME NEW v \in Workers, worker'[v].pc = "work"
                PROVE  row'[MessageAt(v)'] = v /\ log'[MessageAt(v)'] \in {"none", "failed"}
    BY DEF OpenInv
  <2>1. v # w /\ worker[v].pc = "work" /\ MessageAt(v) \in Messages
    BY <1>2, MessageTyped
  <2>2. row[MessageAt(v)] = v /\ log[MessageAt(v)] \in {"none", "failed"}
    BY <2>1 DEF MessageInv, OpenInv
  <2>. QED
    BY <1>1, <1>2, <1>3, <2>1, <2>2
<1>5. OutcomeInv'
  <2>. SUFFICES ASSUME NEW v \in Workers, worker'[v].pc \in {"after", "complete"}
                PROVE  content'[MessageAt(v)'] = "unparsable" \/ log'[MessageAt(v)'] \in Handled
    BY DEF OutcomeInv
  <2>1. CASE v = w
    BY <1>1, <1>2, <1>3, <2>1 DEF Handled, m
  <2>2. CASE v # w
    BY <1>1, <1>2, <1>3, <2>2, MessageTyped DEF MessageInv, OutcomeInv, Handled
  <2>. QED
    BY <2>1, <2>2
<1>6. OneQuotationPerMessage'
  BY <1>1, <1>3 DEF MessageInv, OneQuotationPerMessage
<1>7. CompletedMeansHandled'
  BY <1>3, JobsAssumption DEF MessageInv, CompletedMeansHandled, Handled
<1>. QED
  BY <1>4, <1>5, <1>6, <1>7 DEF MessageInv

LEMMA MessageStep == Typed /\ MessageInv /\ [Next]_vars => MessageInv'
<1>. SUFFICES ASSUME Typed, MessageInv, [Next]_vars PROVE MessageInv'
  OBVIOUS
<1>. USE DEF MessageInv
<1>1. ASSUME NEW j \in Jobs, Accept(j) \/ LeaseExpires(j) \/ Requeue(j) PROVE MessageInv'
  <2>1. \A i \in Jobs : job'[i].status = "completed" => job[i].status = "completed"
    BY <1>1 DEF Accept, LeaseExpires, Requeue, Typed, TypeOK, Job
  <2>. QED
    BY <1>1, <2>1 DEF Accept, LeaseExpires, Requeue, OpenInv, OutcomeInv, MessageAt,
                      OneQuotationPerMessage, CompletedMeansHandled
<1>2. ASSUME NEW w \in Workers, Claim(w) PROVE MessageInv'
  <2>1. \A j \in Jobs : job'[j].status = "completed" => job[j].status = "completed"
    BY <1>2, ReclaimedTyped DEF Claim
  <2>2. /\ \A v \in Workers \ {w} : worker'[v] = worker[v]
        /\ worker'[w].pc = "idle"
    BY <1>2 DEF Claim, Typed, TypeOK, Worker
  <2>. QED
    BY <1>2, <2>1, <2>2, QuietMove DEF Claim
<1>3. ASSUME NEW w \in Workers, Take(w) PROVE MessageInv'
  <2>1. /\ \A v \in Workers \ {w} : worker'[v] = worker[v]
        /\ worker'[w].pc = "fetch"
    BY <1>3 DEF Take, Typed, TypeOK, Worker
  <2>. QED
    BY <1>3, <2>1, QuietMove DEF Take
<1>4. ASSUME NEW w \in Workers, Fetch(w) PROVE MessageInv'
  <2>1. PICK pc \in {"complete", "insert", "fail"} :
          Goto(w, pc) /\ (pc = "complete" => content[MessageAt(w)] = "unparsable")
    BY <1>4 DEF Fetch
  <2>2. /\ \A v \in Workers \ {w} : worker'[v] = worker[v]
        /\ worker'[w].pc = pc
        /\ \A v \in Workers : MessageAt(v)' = MessageAt(v)
    BY <2>1 DEF Goto, MessageAt, Typed, TypeOK, Worker
  <2>3. CASE pc = "complete"
    BY <1>4, <2>1, <2>2, <2>3 DEF Fetch, OpenInv, OutcomeInv, OneQuotationPerMessage,
                                  CompletedMeansHandled
  <2>4. CASE pc # "complete"
    BY <1>4, <2>1, <2>2, <2>4, QuietMove DEF Fetch
  <2>. QED
    BY <2>3, <2>4
<1>5. ASSUME NEW w \in Workers, InsertLog(w) PROVE MessageInv'
  <2>. DEFINE m == MessageAt(w)
  <2>1. m \in Messages /\ row[m] = None /\ None \notin Workers
    BY <1>5, MessageTyped, NoneAssumption DEF InsertLog
  <2>2. PICK pc \in {"work", "complete"} :
          /\ Goto(w, pc)
          /\ pc = "work" => Reopens(m) /\ row' = [row EXCEPT ![m] = w]
          /\ pc = "complete" => ~Reopens(m) /\ UNCHANGED row
    BY <1>5 DEF InsertLog
  <2>3. /\ \A v \in Workers \ {w} : worker'[v] = worker[v]
        /\ worker'[w].pc = pc
        /\ \A v \in Workers : MessageAt(v)' = MessageAt(v)
    BY <2>2 DEF Goto, MessageAt, Typed, TypeOK, Worker
  <2>4. OpenInv'
    <3>. SUFFICES ASSUME NEW v \in Workers, worker'[v].pc = "work"
                  PROVE  row'[MessageAt(v)'] = v /\ log'[MessageAt(v)'] \in {"none", "failed"}
      BY DEF OpenInv
    <3>1. CASE v = w
      BY <1>5, <2>1, <2>2, <2>3, <3>1 DEF InsertLog, Reopens, Typed, TypeOK
    <3>2. CASE v # w
      <4>1. row[MessageAt(v)] = v /\ log[MessageAt(v)] \in {"none", "failed"}
        BY <2>3, <3>2 DEF OpenInv
      <4>2. MessageAt(v) # m /\ MessageAt(v) \in Messages
        BY <2>1, <2>3, <3>2, <4>1, MessageTyped
      <4>. QED
        BY <1>5, <2>2, <2>3, <4>1, <4>2 DEF InsertLog, Typed, TypeOK
    <3>. QED
      BY <3>1, <3>2
  <2>5. OutcomeInv'
    <3>1. ~Reopens(m) => log[m] \in Handled
      BY <2>1 DEF Reopens, Handled, Typed, TypeOK, LogStatus
    <3>. QED
      BY <1>5, <2>2, <2>3, <3>1 DEF InsertLog, OutcomeInv
  <2>. QED
    BY <1>5, <2>4, <2>5 DEF InsertLog, OneQuotationPerMessage, CompletedMeansHandled
<1>6. ASSUME NEW w \in Workers, Reject(w) PROVE MessageInv'
  BY <1>6, CommitMove DEF Reject
<1>7. ASSUME NEW w \in Workers, MakeQuotation(w) PROVE MessageInv'
  BY <1>7, CommitMove DEF MakeQuotation
<1>8. ASSUME NEW w \in Workers, RollBack(w) PROVE MessageInv'
  <2>1. /\ \A v \in Workers \ {w} : worker'[v] = worker[v]
        /\ worker'[w].pc = "note"
    BY <1>8 DEF RollBack, Goto, Typed, TypeOK, Worker
  <2>2. row[MessageAt(w)] = w /\ MessageAt(w) \in Messages
    BY <1>8, MessageTyped DEF RollBack, OpenInv
  <2>3. \A m \in Messages : row[m] # w => row'[m] = row[m]
    BY <1>8, <2>2 DEF RollBack, Typed, TypeOK
  <2>. QED
    BY <1>8, <2>1, <2>3, QuietMove DEF RollBack
<1>9. ASSUME NEW w \in Workers, NoteFailure(w) PROVE MessageInv'
  <2>. DEFINE m == MessageAt(w)
  <2>1. /\ \A v \in Workers \ {w} : worker'[v] = worker[v]
        /\ worker'[w].pc = "fail"
        /\ \A v \in Workers : MessageAt(v)' = MessageAt(v)
    BY <1>9 DEF NoteFailure, Goto, MessageAt, Typed, TypeOK, Worker
  <2>2. CASE UNCHANGED log
    BY <1>9, <2>1, <2>2, QuietMove DEF NoteFailure
  <2>3. CASE row[m] = None /\ log' = [log EXCEPT ![m] = Noted(m)]
    <3>1. m \in Messages /\ None \notin Workers
      BY <1>9, MessageTyped, NoneAssumption DEF NoteFailure
    <3>2. \A o \in Messages :
            /\ log[o] \in Handled => log'[o] = log[o]
            /\ log[o] \notin Handled => log'[o] \notin Handled
            /\ o # m => log'[o] = log[o]
      BY <2>3, <3>1 DEF Noted, Handled, Typed, TypeOK, LogStatus
    <3>3. OpenInv'
      <4>. SUFFICES ASSUME NEW v \in Workers, worker'[v].pc = "work"
                    PROVE  row'[MessageAt(v)'] = v /\ log'[MessageAt(v)'] \in {"none", "failed"}
        BY DEF OpenInv
      <4>1. /\ row[MessageAt(v)] = v /\ log[MessageAt(v)] \in {"none", "failed"}
            /\ MessageAt(v) \in Messages
        BY <2>1, MessageTyped DEF OpenInv
      <4>. QED
        BY <1>9, <2>1, <2>3, <3>1, <3>2, <4>1 DEF NoteFailure
    <3>4. OutcomeInv'
      BY <1>9, <2>1, <3>2, MessageTyped DEF NoteFailure, OutcomeInv
    <3>5. OneQuotationPerMessage'
      BY <1>9, <3>2 DEF NoteFailure, OneQuotationPerMessage, Handled
    <3>6. CompletedMeansHandled'
      BY <1>9, <3>2, JobsAssumption DEF NoteFailure, CompletedMeansHandled
    <3>. QED
      BY <3>3, <3>4, <3>5, <3>6
  <2>. QED
    BY <1>9, <2>2, <2>3 DEF NoteFailure
<1>10. ASSUME NEW w \in Workers, AfterCommit(w) PROVE MessageInv'
  <2>1. /\ \A v \in Workers \ {w} : worker'[v] = worker[v]
        /\ \A v \in Workers : MessageAt(v)' = MessageAt(v)
        /\ worker[w].pc = "after" /\ worker'[w].pc \in {"complete", "fail"}
    BY <1>10 DEF AfterCommit, Goto, MessageAt, Typed, TypeOK, Worker
  <2>. QED
    BY <1>10, <2>1 DEF AfterCommit, OpenInv, OutcomeInv, OneQuotationPerMessage,
                       CompletedMeansHandled
<1>11. ASSUME NEW w \in Workers, Complete(w) PROVE MessageInv'
  <2>1. /\ \A v \in Workers \ {w} : worker'[v] = worker[v] /\ MessageAt(v)' = MessageAt(v)
        /\ worker'[w].pc = "idle"
    BY <1>11 DEF Complete, Done, MessageAt, Typed, TypeOK, Worker
  <2>2. OpenInv' /\ OutcomeInv' /\ OneQuotationPerMessage'
    BY <1>11, <2>1 DEF Complete, OpenInv, OutcomeInv, OneQuotationPerMessage
  <2>3. \A j \in Jobs : job'[j].status = "completed" =>
          job[j].status = "completed" \/ j = worker[w].job
    BY <1>11 DEF Complete, Typed, TypeOK, Job
  <2>4. content[MessageOf[worker[w].job]] = "unparsable" \/ log[MessageOf[worker[w].job]] \in Handled
    BY <1>11 DEF Complete, OutcomeInv, MessageAt
  <2>. QED
    BY <1>11, <2>2, <2>3, <2>4 DEF Complete, CompletedMeansHandled
<1>12. ASSUME NEW w \in Workers, Fail(w) PROVE MessageInv'
  <2>1. /\ \A v \in Workers \ {w} : worker'[v] = worker[v]
        /\ worker'[w].pc = "idle"
    BY <1>12 DEF Fail, Done, Typed, TypeOK, Worker
  <2>2. \A j \in Jobs : job'[j].status = "completed" => job[j].status = "completed"
    BY <1>12 DEF Fail, Typed, TypeOK, Job
  <2>. QED
    BY <1>12, <2>1, <2>2, QuietMove DEF Fail
<1>13. ASSUME NEW w \in Workers, Crash(w) PROVE MessageInv'
  BY <1>13, QuietMove DEF Crash, Idle, Typed, TypeOK
<1>14. CASE UNCHANGED vars
  BY <1>14 DEF vars, OpenInv, OutcomeInv, MessageAt, OneQuotationPerMessage, CompletedMeansHandled
<1>15. ASSUME NEW w \in Workers, Step(w) PROVE MessageInv'
  BY <1>2, <1>3, <1>4, <1>5, <1>6, <1>7, <1>8, <1>9, <1>10, <1>11, <1>12, <1>15 DEF Step
<1>. QED
  BY <1>1, <1>13, <1>14, <1>15 DEF Next
-----------------------------------------------------------------------------
LEMMA Invariance == Spec => []IInv
<1>1. Init => Typed /\ MessageInv
  BY TypedInit, MessageInit
<1>2. Typed /\ MessageInv /\ [Next]_vars => Typed' /\ MessageInv'
  BY TypedStep, MessageStep
<1>3. Typed /\ MessageInv => IInv
  BY DEF MessageInv, IInv
<1>. QED
  BY <1>1, <1>2, <1>3, PTL DEF Spec

\* Every row, lock and worker keeps its shape, and no counter of attempts passes the limit.
THEOREM TypesKept == Spec => []TypeOK
<1>1. IInv => TypeOK
  BY DEF IInv, Typed
<1>. QED
  BY <1>1, Invariance, PTL

\* A message becomes one quotation, when its log row is completed, whoever else had its job.
THEOREM QuotedOnce == Spec => []OneQuotationPerMessage
<1>1. IInv => OneQuotationPerMessage
  BY DEF IInv
<1>. QED
  BY <1>1, Invariance, PTL

\* A job that says completed lost no message: not behind a duplicate, nor after a takeover.
THEOREM NothingLost == Spec => []CompletedMeansHandled
<1>1. IInv => CompletedMeansHandled
  BY DEF IInv
<1>. QED
  BY <1>1, Invariance, PTL

\* A message that was dealt with stays so: no late worker, failure or requeue opens it again.
HandledStays ==
    [][\A m \in Messages : log[m] \in Handled => log'[m] = log[m]]_vars

THEOREM HandledForGood == Spec => HandledStays
<1>. DEFINE Stays == \A m \in Messages : log[m] \in Handled => log'[m] = log[m]
<1>1. Typed /\ MessageInv /\ [Next]_vars => Stays \/ UNCHANGED vars
  <2>. SUFFICES ASSUME Typed, MessageInv, Next PROVE Stays
    BY DEF vars
  <2>1. ASSUME NEW w \in Workers, Reject(w) \/ MakeQuotation(w) PROVE Stays
    <3>1. log[MessageAt(w)] \notin Handled
      BY <2>1 DEF Reject, MakeQuotation, MessageInv, OpenInv, Handled
    <3>. QED
      BY <2>1, <3>1 DEF Reject, MakeQuotation, Typed, TypeOK
  <2>2. ASSUME NEW w \in Workers, NoteFailure(w) PROVE Stays
    BY <2>2 DEF NoteFailure, Noted, Typed, TypeOK
  <2>3. ASSUME NEW w \in Workers,
               \/ Claim(w) \/ Take(w) \/ Fetch(w) \/ InsertLog(w) \/ RollBack(w)
               \/ AfterCommit(w) \/ Complete(w) \/ Fail(w) \/ Crash(w)
        PROVE  Stays
    BY <2>3 DEF Claim, Take, Fetch, InsertLog, RollBack, AfterCommit, Complete, Fail, Crash
  <2>4. ASSUME NEW j \in Jobs, Accept(j) \/ LeaseExpires(j) \/ Requeue(j) PROVE Stays
    BY <2>4 DEF Accept, LeaseExpires, Requeue
  <2>. QED
    BY <2>1, <2>2, <2>3, <2>4 DEF Next, Step
<1>2. IInv => Typed /\ MessageInv
  BY DEF IInv, MessageInv
<1>. QED
  BY <1>1, <1>2, Invariance, PTL DEF Spec, HandledStays
=============================================================================
