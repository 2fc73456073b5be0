---------------------------- MODULE WebhooksProof ----------------------------
(***************************************************************************)
(* Outbound webhooks for any number of deliveries and workers and any      *)
(* limit of attempts.  That the endpoint gets no delivery more often than  *)
(* the limit is inductive once the posts to come are counted: each worker  *)
(* that still has to post a delivery stands for an attempt of its own.     *)
(***************************************************************************)
EXTENDS WebhooksProperties, FiniteSetTheorems, TLAPS

\* The workers that claimed a delivery and have not posted it yet.
Holders(d) ==
    {w \in Workers : \/ d \in worker[w].todo
                     \/ worker[w].pc = "post" /\ worker[w].delivery = d}

\* A worker that does something has a delivery, which it has not to do again.
BusyInv ==
    \A w \in Workers : worker[w].pc # "idle" =>
       worker[w].delivery \in Deliveries /\ worker[w].delivery \notin worker[w].todo

Typed == TypeOK /\ BusyInv

\* Every post, made or to come, was counted as an attempt.
CountInv ==
    \A d \in Deliveries :
       /\ IsFiniteSet(Holders(d))
       /\ posts[d] + Cardinality(Holders(d)) <= delivery[d].attempts

\* Who is about to write succeeded has the answer of the endpoint.
AnswerInv ==
    \A w \in Workers : worker[w].pc = "succeeded" => worker[w].delivery \in taken

IInv == Typed /\ CountInv /\ AnswerInv /\ SucceededMeansTaken
-----------------------------------------------------------------------------
LEMMA IdleTyped == Idle \in Worker
  BY BoundAssumption DEF Idle, Worker

LEMMA TypedInit ==
  ASSUME Init
  PROVE  Typed
<1>1. TypeOK
  <2>1. worker \in [Workers -> Worker]
    BY IdleTyped DEF Init
  <2>2. delivery \in [Deliveries -> Delivery]
    BY BoundAssumption, NoneAssumption DEF Init, Delivery
  <2>. QED
    BY <2>1, <2>2 DEF Init, TypeOK
<1>. QED
  BY <1>1 DEF Init, Typed, BusyInv, Idle

\* The writing of an outcome: the worker looks at its next delivery.
LEMMA OutcomeTyped ==
  ASSUME Typed, NEW w \in Workers, worker[w].pc # "idle",
         NEW s \in {"pending", "succeeded", "failed"}, Outcome(w, s)
  PROVE  /\ Typed'
         /\ \A v \in Workers \ {w} : worker'[v] = worker[v]
         /\ worker'[w].pc = "idle" /\ worker'[w].todo = worker[w].todo
         /\ \A d \in Deliveries : /\ delivery'[d].attempts = delivery[d].attempts
                                  /\ delivery'[d].status =
                                       IF d = worker[w].delivery THEN s ELSE delivery[d].status
<1>1. worker[w].delivery \in Deliveries /\ 0 \in 0..MaxAttempts
  BY BoundAssumption, NoneAssumption DEF Typed, BusyInv
<1>. DEFINE r == [delivery[worker[w].delivery] EXCEPT !.status = s, !.due = FALSE, !.stale = FALSE]
<1>2. r \in Delivery /\ r.status = s /\ r.attempts = delivery[worker[w].delivery].attempts
  BY <1>1 DEF Typed, TypeOK, Delivery
<1>3. delivery' = [delivery EXCEPT ![worker[w].delivery] = r]
  BY DEF Outcome
<1>. HIDE DEF r
<1>4. /\ delivery' \in [Deliveries -> Delivery]
      /\ \A d \in Deliveries : /\ delivery'[d].attempts = delivery[d].attempts
                               /\ delivery'[d].status =
                                    IF d = worker[w].delivery THEN s ELSE delivery[d].status
  BY <1>1, <1>2, <1>3 DEF Typed, TypeOK
<1>5. /\ worker' \in [Workers -> Worker]
      /\ \A v \in Workers \ {w} : worker'[v] = worker[v]
      /\ worker'[w].pc = "idle" /\ worker'[w].todo = worker[w].todo
  <2>. DEFINE n == [worker[w] EXCEPT !.pc = "idle", !.delivery = None,
                                     !.claimed = [worker[w].claimed EXCEPT ![worker[w].delivery] = 0]]
  <2>1. worker' = [worker EXCEPT ![w] = n]
    BY DEF Outcome, Done, Typed, TypeOK, Worker
  <2>2. n \in Worker /\ n.pc = "idle" /\ n.todo = worker[w].todo
    BY <1>1 DEF Typed, TypeOK, Worker
  <2>. HIDE DEF n
  <2>. QED
    BY <2>1, <2>2 DEF Typed, TypeOK
<1>. QED
  BY <1>4, <1>5 DEF Outcome, Typed, TypeOK, BusyInv

\* The outcome of a request, or its failure, as the worker that made it knows it.
LEMMA AnswerTyped ==
  ASSUME Typed, NEW w \in Workers, worker[w].pc = "post", NEW o \in Outcomes,
         worker' = [worker EXCEPT ![w].pc = o]
  PROVE  /\ worker' \in [Workers -> Worker] /\ BusyInv'
         /\ \A v \in Workers \ {w} : worker'[v] = worker[v]
         /\ worker'[w].pc = o /\ worker'[w].todo = worker[w].todo
         /\ worker'[w].delivery = worker[w].delivery
<1>1. [worker[w] EXCEPT !.pc = o] \in Worker
  BY DEF Typed, TypeOK, Worker
<1>2. /\ worker' \in [Workers -> Worker]
      /\ \A v \in Workers \ {w} : worker'[v] = worker[v]
      /\ worker'[w].pc = o /\ worker'[w].todo = worker[w].todo
      /\ worker'[w].delivery = worker[w].delivery
  BY <1>1 DEF Typed, TypeOK, Worker
<1>. QED
  BY <1>2 DEF Typed, BusyInv

LEMMA ClaimTyped ==
  ASSUME Typed, NEW w \in Workers, Claim(w)
  PROVE  /\ Typed'
         /\ \A v \in Workers \ {w} : worker'[v] = worker[v]
         /\ worker'[w].pc = "idle" /\ worker'[w].todo = Claimable
         /\ \A d \in Deliveries :
               IF d \in Claimable
               THEN /\ delivery'[d].attempts = delivery[d].attempts + 1
                    /\ delivery'[d].status = "processing"
               ELSE delivery'[d] = delivery[d]
<1>1. Claimable \subseteq Deliveries
  BY DEF Claimable
<1>2. \A d \in Claimable : /\ Claimed(d) \in Delivery
                           /\ Claimed(d).attempts = delivery[d].attempts + 1
                           /\ Claimed(d).attempts \in 0..MaxAttempts
                           /\ Claimed(d).status = "processing"
  BY BoundAssumption, NoneAssumption DEF Claimable, Claimed, Delivery, Typed, TypeOK
<1>. DEFINE given == [d \in Deliveries |-> IF d \in Claimable THEN Claimed(d).attempts ELSE 0]
<1>3. given \in [Deliveries -> 0..MaxAttempts]
  BY <1>2, BoundAssumption, NoneAssumption
<1>4. worker' = [worker EXCEPT ![w].todo = Claimable, ![w].claimed = given] /\ worker[w].pc = "idle"
  BY DEF Claim
<1>. HIDE DEF given
<1>5. /\ worker' \in [Workers -> Worker]
      /\ \A v \in Workers \ {w} : worker'[v] = worker[v]
      /\ worker'[w].pc = "idle" /\ worker'[w].todo = Claimable
  <2>1. worker' = [worker EXCEPT ![w] = [worker[w] EXCEPT !.todo = Claimable, !.claimed = given]]
    BY <1>4 DEF Typed, TypeOK, Worker
  <2>2. [worker[w] EXCEPT !.todo = Claimable, !.claimed = given] \in Worker
    BY <1>1, <1>3 DEF Typed, TypeOK, Worker
  <2>. QED
    BY <1>4, <2>1, <2>2 DEF Typed, TypeOK, Worker
<1>6. delivery' \in [Deliveries -> Delivery]
  BY <1>2 DEF Claim, Typed, TypeOK
<1>7. BusyInv'
  BY <1>5 DEF Typed, BusyInv
<1>. QED
  BY <1>1, <1>2, <1>5, <1>6, <1>7 DEF Claim, Typed, TypeOK

LEMMA TypedStep ==
  ASSUME Typed, [Next]_vars
  PROVE  Typed'
<1>. USE DEF TypeOK
<1>1. CASE Pause
  BY <1>1 DEF Pause, Typed, BusyInv
<1>2. ASSUME NEW d \in Deliveries, Enqueue(d) PROVE Typed'
  BY <1>2 DEF Enqueue, Typed, BusyInv, Delivery
<1>3. ASSUME NEW d \in Deliveries, BackoffEnds(d) PROVE Typed'
  BY <1>3 DEF BackoffEnds, Typed, BusyInv, Delivery
<1>4. ASSUME NEW d \in Deliveries, LeaseExpires(d) PROVE Typed'
  BY <1>4 DEF LeaseExpires, Typed, BusyInv, Delivery
<1>5. ASSUME NEW w \in Workers, Claim(w) PROVE Typed'
  BY <1>5, ClaimTyped
<1>6. ASSUME NEW w \in Workers, Take(w) PROVE Typed'
  BY <1>6 DEF Take, Typed, BusyInv, Worker
<1>7. ASSUME NEW w \in Workers, Skip(w) PROVE Typed'
  BY <1>7, AnswerTyped DEF Skip, Typed, Outcomes
<1>8. ASSUME NEW w \in Workers, Post(w) PROVE Typed'
  <2>1. posts' \in [Deliveries -> Nat] /\ taken' \subseteq Deliveries
    BY <1>8 DEF Post, Typed, BusyInv
  <2>2. worker' \in [Workers -> Worker] /\ BusyInv'
    BY <1>8, AnswerTyped DEF Post, Outcomes
  <2>. QED
    BY <1>8, <2>1, <2>2 DEF Post, Typed
<1>9. ASSUME NEW w \in Workers, MarkSucceeded(w) \/ MarkFailed(w) \/ MarkRetry(w) PROVE Typed'
  BY <1>9, OutcomeTyped DEF MarkSucceeded, MarkFailed, MarkRetry
<1>10. ASSUME NEW w \in Workers, Crash(w) PROVE Typed'
  BY <1>10, IdleTyped DEF Crash, Typed, BusyInv, Idle
<1>11. CASE UNCHANGED vars
  BY <1>11 DEF vars, Typed, BusyInv
<1>12. ASSUME NEW w \in Workers, Step(w) PROVE Typed'
  BY <1>5, <1>6, <1>7, <1>8, <1>9, <1>12 DEF Step
<1>. QED
  BY <1>1, <1>2, <1>3, <1>4, <1>10, <1>11, <1>12 DEF Next
-----------------------------------------------------------------------------
(***************************************************************************)
(* Counting the posts.                                                     *)
(***************************************************************************)
\* What a step may do to one delivery: neither its attempts nor its posts change, and nobody
\* begins to hold it.
LEMMA CountKept ==
  ASSUME Typed, NEW d \in Deliveries, CountInv,
         delivery'[d].attempts = delivery[d].attempts, posts'[d] = posts[d],
         Holders(d)' \subseteq Holders(d)
  PROVE  IsFiniteSet(Holders(d)') /\ posts'[d] + Cardinality(Holders(d)') <= delivery'[d].attempts
<1>1. /\ IsFiniteSet(Holders(d)) /\ IsFiniteSet(Holders(d)')
      /\ Cardinality(Holders(d)') <= Cardinality(Holders(d))
  BY FS_Subset DEF CountInv
<1>2. /\ Cardinality(Holders(d)) \in Nat /\ Cardinality(Holders(d)') \in Nat
  BY <1>1, FS_CardinalityType
<1>3. posts[d] \in Nat /\ delivery[d].attempts \in Nat
  BY DEF Typed, TypeOK, Delivery
<1>. QED
  BY <1>1, <1>2, <1>3 DEF CountInv

LEMMA CountStep ==
  ASSUME Typed, CountInv, [Next]_vars
  PROVE  CountInv'
<1>. SUFFICES ASSUME NEW d \in Deliveries
              PROVE  /\ IsFiniteSet(Holders(d)')
                     /\ posts'[d] + Cardinality(Holders(d)') <= delivery'[d].attempts
  BY DEF CountInv
<1>1. CASE Pause \/ UNCHANGED vars
  BY <1>1, CountKept DEF Pause, vars, Holders
<1>2. ASSUME NEW e \in Deliveries, Enqueue(e) \/ BackoffEnds(e) \/ LeaseExpires(e)
      PROVE  /\ IsFiniteSet(Holders(d)')
             /\ posts'[d] + Cardinality(Holders(d)') <= delivery'[d].attempts
  <2>1. delivery'[d].attempts = delivery[d].attempts
    BY <1>2 DEF Enqueue, BackoffEnds, LeaseExpires, Typed, TypeOK, Delivery
  <2>2. UNCHANGED <<posts, worker>>
    BY <1>2 DEF Enqueue, BackoffEnds, LeaseExpires
  <2>. QED
    BY <2>1, <2>2, CountKept DEF Holders
<1>3. ASSUME NEW w \in Workers, Claim(w)
      PROVE  /\ IsFiniteSet(Holders(d)')
             /\ posts'[d] + Cardinality(Holders(d)') <= delivery'[d].attempts
  <2>1. UNCHANGED posts
    BY <1>3 DEF Claim
  <2>2. CASE d \notin Claimable
    <3>1. Holders(d)' \subseteq Holders(d)
      BY <1>3, <2>2, ClaimTyped DEF Holders
    <3>. QED
      BY <1>3, <2>1, <2>2, <3>1, ClaimTyped, CountKept
  <2>3. CASE d \in Claimable
    <3>1. w \notin Holders(d)
      BY <1>3 DEF Claim, Holders
    <3>2. Holders(d)' = Holders(d) \cup {w}
      BY <1>3, <2>3, ClaimTyped DEF Holders
    <3>3. /\ IsFiniteSet(Holders(d) \cup {w}) /\ Cardinality(Holders(d)) \in Nat
          /\ Cardinality(Holders(d) \cup {w}) = Cardinality(Holders(d)) + 1
      BY <3>1, FS_AddElement, FS_CardinalityType DEF CountInv
    <3>4. delivery'[d].attempts = delivery[d].attempts + 1
      BY <1>3, <2>3, ClaimTyped
    <3>5. posts[d] \in Nat /\ delivery[d].attempts \in Nat
      BY DEF Typed, TypeOK, Delivery
    <3>. QED
      BY <2>1, <3>2, <3>3, <3>4, <3>5 DEF CountInv
  <2>. QED
    BY <2>2, <2>3
<1>4. ASSUME NEW w \in Workers, Take(w)
      PROVE  /\ IsFiniteSet(Holders(d)')
             /\ posts'[d] + Cardinality(Holders(d)') <= delivery'[d].attempts
  <2>1. UNCHANGED <<delivery, posts>> /\ Holders(d)' \subseteq Holders(d)
    BY <1>4 DEF Take, Holders, Typed, TypeOK, Worker
  <2>. QED
    BY <2>1, CountKept
<1>5. ASSUME NEW w \in Workers, Skip(w)
      PROVE  /\ IsFiniteSet(Holders(d)')
             /\ posts'[d] + Cardinality(Holders(d)') <= delivery'[d].attempts
  <2>1. UNCHANGED <<delivery, posts>> /\ Holders(d)' \subseteq Holders(d)
    BY <1>5, AnswerTyped DEF Skip, Holders, Outcomes
  <2>. QED
    BY <2>1, CountKept
<1>6. ASSUME NEW w \in Workers, Post(w)
      PROVE  /\ IsFiniteSet(Holders(d)')
             /\ posts'[d] + Cardinality(Holders(d)') <= delivery'[d].attempts
  <2>1. /\ \A v \in Workers \ {w} : worker'[v] = worker[v]
        /\ worker'[w].pc # "post" /\ worker'[w].todo = worker[w].todo
        /\ UNCHANGED delivery
    BY <1>6, AnswerTyped DEF Post, Outcomes
  <2>2. CASE d # worker[w].delivery
    <3>1. posts'[d] = posts[d] /\ Holders(d)' \subseteq Holders(d)
      BY <1>6, <2>1, <2>2 DEF Post, Holders, Typed, TypeOK
    <3>. QED
      BY <2>1, <3>1, CountKept
  <2>3. CASE d = worker[w].delivery
    <3>1. w \in Holders(d) /\ d \notin worker[w].todo
      BY <1>6, <2>3 DEF Post, Holders, Typed, BusyInv
    <3>2. Holders(d)' = Holders(d) \ {w}
      BY <2>1, <3>1 DEF Holders
    <3>3. /\ IsFiniteSet(Holders(d) \ {w}) /\ Cardinality(Holders(d)) \in Nat
          /\ Cardinality(Holders(d) \ {w}) = Cardinality(Holders(d)) - 1
      BY <3>1, FS_RemoveElement, FS_CardinalityType DEF CountInv
    <3>4. posts[d] \in Nat /\ posts'[d] = posts[d] + 1 /\ delivery[d].attempts \in Nat
      BY <1>6, <2>3 DEF Post, Typed, TypeOK, Delivery
    <3>. QED
      BY <2>1, <3>2, <3>3, <3>4 DEF CountInv
  <2>. QED
    BY <2>2, <2>3
<1>7. ASSUME NEW w \in Workers, MarkSucceeded(w) \/ MarkFailed(w) \/ MarkRetry(w)
      PROVE  /\ IsFiniteSet(Holders(d)')
             /\ posts'[d] + Cardinality(Holders(d)') <= delivery'[d].attempts
  <2>1. PICK s \in {"pending", "succeeded", "failed"} : Outcome(w, s)
    BY <1>7 DEF MarkSucceeded, MarkFailed, MarkRetry
  <2>2. worker[w].pc # "idle"
    BY <1>7 DEF MarkSucceeded, MarkFailed, MarkRetry
  <2>3. UNCHANGED posts /\ delivery'[d].attempts = delivery[d].attempts
    BY <2>1, <2>2, OutcomeTyped DEF Outcome
  <2>4. Holders(d)' \subseteq Holders(d)
    BY <2>1, <2>2, OutcomeTyped DEF Holders
  <2>. QED
    BY <2>3, <2>4, CountKept
<1>8. ASSUME NEW w \in Workers, Crash(w)
      PROVE  /\ IsFiniteSet(Holders(d)')
             /\ posts'[d] + Cardinality(Holders(d)') <= delivery'[d].attempts
  <2>1. UNCHANGED <<delivery, posts>> /\ Holders(d)' \subseteq Holders(d)
    BY <1>8 DEF Crash, Idle, Holders, Typed, TypeOK
  <2>. QED
    BY <2>1, CountKept
<1>9. ASSUME NEW w \in Workers, Step(w)
      PROVE  /\ IsFiniteSet(Holders(d)')
             /\ posts'[d] + Cardinality(Holders(d)') <= delivery'[d].attempts
  BY <1>3, <1>4, <1>5, <1>6, <1>7, <1>9 DEF Step
<1>. QED
  BY <1>1, <1>2, <1>8, <1>9 DEF Next
-----------------------------------------------------------------------------
AnswersInv == AnswerInv /\ SucceededMeansTaken

LEMMA AnswersStep ==
  ASSUME Typed, AnswersInv, [Next]_vars
  PROVE  AnswersInv'
<1>. USE DEF AnswersInv, AnswerInv, SucceededMeansTaken
<1>1. CASE Pause \/ UNCHANGED vars
  BY <1>1 DEF Pause, vars
<1>2. ASSUME NEW d \in Deliveries, Enqueue(d) \/ BackoffEnds(d) \/ LeaseExpires(d)
      PROVE  AnswersInv'
  BY <1>2 DEF Enqueue, BackoffEnds, LeaseExpires, Typed, TypeOK, Delivery
<1>3. ASSUME NEW w \in Workers, Claim(w) PROVE AnswersInv'
  <2>1. UNCHANGED taken
    BY <1>3 DEF Claim
  <2>2. \A v \in Workers : worker'[v].pc = "succeeded" => worker'[v] = worker[v]
    BY <1>3, ClaimTyped
  <2>3. \A d \in Deliveries : delivery'[d].status = "succeeded" => delivery'[d] = delivery[d]
    BY <1>3, ClaimTyped
  <2>. QED
    BY <2>1, <2>2, <2>3
<1>4. ASSUME NEW w \in Workers, Take(w) PROVE AnswersInv'
  BY <1>4 DEF Take, Typed, TypeOK, Worker
<1>5. ASSUME NEW w \in Workers, Skip(w) PROVE AnswersInv'
  BY <1>5, AnswerTyped DEF Skip, Outcomes
<1>6. ASSUME NEW w \in Workers, Post(w) PROVE AnswersInv'
  <2>1. /\ taken \subseteq taken' /\ UNCHANGED delivery
        /\ worker'[w].pc = "succeeded" => worker'[w].delivery \in taken'
        /\ \A v \in Workers \ {w} : worker'[v] = worker[v]
    BY <1>6, AnswerTyped DEF Post, Outcomes
  <2>. QED
    BY <2>1
<1>7. ASSUME NEW w \in Workers, MarkSucceeded(w) PROVE AnswersInv'
  <2>1. UNCHANGED taken /\ worker[w].delivery \in taken
    BY <1>7 DEF MarkSucceeded, Outcome
  <2>2. \A v \in Workers : worker'[v].pc = "succeeded" => worker'[v] = worker[v]
    BY <1>7, OutcomeTyped DEF MarkSucceeded
  <2>3. \A d \in Deliveries : delivery'[d].status = "succeeded" =>
          d = worker[w].delivery \/ delivery[d].status = "succeeded"
    BY <1>7, OutcomeTyped DEF MarkSucceeded
  <2>. QED
    BY <2>1, <2>2, <2>3
<1>8. ASSUME NEW w \in Workers, MarkFailed(w) \/ MarkRetry(w) PROVE AnswersInv'
  BY <1>8, OutcomeTyped DEF MarkFailed, MarkRetry, Outcome
<1>9. ASSUME NEW w \in Workers, Crash(w) PROVE AnswersInv'
  BY <1>9 DEF Crash, Idle, Typed, TypeOK
<1>10. ASSUME NEW w \in Workers, Step(w) PROVE AnswersInv'
  BY <1>3, <1>4, <1>5, <1>6, <1>7, <1>8, <1>10 DEF Step
<1>. QED
  BY <1>1, <1>2, <1>9, <1>10 DEF Next

LEMMA InitHolds ==
  ASSUME Init
  PROVE  IInv
<1>1. \A d \in Deliveries : Holders(d) = {} /\ posts[d] = 0 /\ delivery[d].attempts = 0
  BY DEF Init, Holders, Idle
<1>2. CountInv
  BY <1>1, FS_EmptySet DEF CountInv
<1>. QED
  BY <1>2, TypedInit DEF Init, Idle, IInv, AnswerInv, SucceededMeansTaken

LEMMA Invariance == Spec => []IInv
<1>1. Init => IInv
  BY InitHolds
<1>2. IInv /\ [Next]_vars => IInv'
  BY TypedStep, CountStep, AnswersStep DEF IInv, AnswersInv
<1>. QED
  BY <1>1, <1>2, PTL DEF Spec

\* Every delivery and worker keeps its shape, and no counter of attempts passes the limit.
THEOREM TypesKept == Spec => []TypeOK
<1>1. IInv => TypeOK
  BY DEF IInv, Typed
<1>. QED
  BY <1>1, Invariance, PTL

\* An endpoint gets no delivery more often than webhook_max_attempts, for any number of workers
\* that die after posting or go on after their lease was taken over.
THEOREM PostsBounded == Spec => []PostsWithinLimit
<1>1. IInv => PostsWithinLimit
  <2>. SUFFICES ASSUME IInv, NEW d \in Deliveries PROVE posts[d] <= MaxAttempts
    BY DEF PostsWithinLimit
  <2>1. posts[d] + Cardinality(Holders(d)) <= delivery[d].attempts /\ Cardinality(Holders(d)) \in Nat
    BY FS_CardinalityType DEF IInv, CountInv
  <2>2. posts[d] \in Nat /\ delivery[d].attempts \in 0..MaxAttempts /\ MaxAttempts \in Nat
    BY BoundAssumption DEF IInv, Typed, TypeOK, Delivery
  <2>. QED
    BY <2>1, <2>2
<1>. QED
  BY <1>1, Invariance, PTL

\* The owner sees succeeded only for what the endpoint took.
THEOREM SuccessIsTrue == Spec => []SucceededMeansTaken
<1>1. IInv => SucceededMeansTaken
  BY DEF IInv
<1>. QED
  BY <1>1, Invariance, PTL
=============================================================================
