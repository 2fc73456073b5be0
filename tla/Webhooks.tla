------------------------------- MODULE Webhooks -------------------------------
(***************************************************************************)
(* Outbound webhooks.  A trigger makes a delivery with the audit event it  *)
(* reports; worker processes claim deliveries under a lease of ten minutes *)
(* and post them one after the other.  An attempt is counted when it is    *)
(* claimed, and the outcome is written by id, also by a worker whose lease *)
(* was taken over.                                                         *)
(***************************************************************************)
EXTENDS Integers, FiniteSets

CONSTANTS
    Deliveries,     \* webhook_delivery rows
    Workers,
    MaxAttempts,    \* webhook_max_attempts
    None

ASSUME BoundAssumption == MaxAttempts \in Nat \ {0}
ASSUME NoneAssumption == None \notin Deliveries

VARIABLES
    paused,     \* the subscription is no longer active
    delivery,   \* webhook_delivery; "due" once next_attempt_at is past, "stale" once the lease is
    posts,      \* requests the endpoint got for each delivery
    taken,      \* deliveries the endpoint answered with success
    worker

vars == <<paused, delivery, posts, taken, worker>>

Delivery == [status: {"none", "pending", "processing", "succeeded", "failed"},
             attempts: 0..MaxAttempts, due: BOOLEAN, stale: BOOLEAN]

Outcomes == {"succeeded", "failed", "error"}

Worker == [pc: {"idle", "post"} \cup Outcomes, delivery: Deliveries \cup {None},
           todo: SUBSET Deliveries, claimed: [Deliveries -> 0..MaxAttempts]]

Idle == [pc |-> "idle", delivery |-> None, todo |-> {}, claimed |-> [d \in Deliveries |-> 0]]
-----------------------------------------------------------------------------
Init ==
    /\ paused = FALSE
    /\ delivery = [d \in Deliveries |-> [status |-> "none", attempts |-> 0, due |-> FALSE,
                                         stale |-> FALSE]]
    /\ posts = [d \in Deliveries |-> 0]
    /\ taken = {}
    /\ worker = [w \in Workers |-> Idle]

\* The trigger of an audit event.
Enqueue(d) ==
    /\ delivery[d].status = "none" /\ ~paused
    /\ delivery' = [delivery EXCEPT ![d].status = "pending", ![d].due = TRUE]
    /\ UNCHANGED <<paused, posts, taken, worker>>

Pause ==
    /\ ~paused
    /\ paused' = TRUE
    /\ UNCHANGED <<delivery, posts, taken, worker>>

BackoffEnds(d) ==
    /\ delivery[d].status = "pending" /\ ~delivery[d].due
    /\ delivery' = [delivery EXCEPT ![d].due = TRUE]
    /\ UNCHANGED <<paused, posts, taken, worker>>

LeaseExpires(d) ==
    /\ delivery[d].status = "processing" /\ ~delivery[d].stale
    /\ delivery' = [delivery EXCEPT ![d].stale = TRUE]
    /\ UNCHANGED <<paused, posts, taken, worker>>

\* Mutant: the limit is left to the worker that counts the failures.
ClaimableUnlimited ==
    {d \in Deliveries : ~paused /\ (delivery[d].due \/ delivery[d].stale)}

Claimable ==
    {d \in Deliveries : /\ ~paused
                        /\ delivery[d].attempts < MaxAttempts
                        /\ delivery[d].due \/ delivery[d].stale}

\* Mutant: the attempt is counted once it failed.
ClaimedUncounted(d) == [delivery[d] EXCEPT !.status = "processing", !.due = FALSE, !.stale = FALSE]

Claimed(d) ==
    [status |-> "processing", attempts |-> delivery[d].attempts + 1, due |-> FALSE, stale |-> FALSE]

Claim(w) ==
    /\ worker[w].pc = "idle" /\ worker[w].todo = {}
    /\ Claimable # {}
    /\ delivery' = [d \in Deliveries |-> IF d \in Claimable THEN Claimed(d) ELSE delivery[d]]
    /\ worker' = [worker EXCEPT ![w].todo = Claimable,
                    ![w].claimed = [d \in Deliveries |->
                                      IF d \in Claimable THEN Claimed(d).attempts ELSE 0]]
    /\ UNCHANGED <<paused, posts, taken>>

Take(w) ==
    /\ worker[w].pc = "idle"
    /\ \E d \in worker[w].todo :
          worker' = [worker EXCEPT ![w].pc = "post", ![w].delivery = d, ![w].todo = @ \ {d}]
    /\ UNCHANGED <<paused, delivery, posts, taken>>

\* The name of the endpoint cannot be resolved, or its address may not be used.
Skip(w) ==
    /\ worker[w].pc = "post"
    /\ worker' \in {[worker EXCEPT ![w].pc = o] : o \in {"error", "failed"}}
    /\ UNCHANGED <<paused, delivery, posts, taken>>

\* Mutant: an answer that is not an error is not looked at.
PostUnread(w) ==
    /\ worker[w].pc = "post"
    /\ posts' = [posts EXCEPT ![worker[w].delivery] = @ + 1]
    /\ taken' \in {taken, taken \cup {worker[w].delivery}}
    /\ worker' = [worker EXCEPT ![w].pc = "succeeded"]
    /\ UNCHANGED <<paused, delivery>>

\* The endpoint takes the request, and its answer arrives or is lost, or it answers an error.
Post(w) ==
    LET d == worker[w].delivery IN
    /\ worker[w].pc = "post"
    /\ posts' = [posts EXCEPT ![d] = @ + 1]
    /\ \/ taken' = taken \cup {d} /\ worker' = [worker EXCEPT ![w].pc = "succeeded"]
       \/ taken' \in {taken, taken \cup {d}} /\ worker' = [worker EXCEPT ![w].pc = "error"]
    /\ UNCHANGED <<paused, delivery>>

Done(w) ==
    worker' = [worker EXCEPT ![w].pc = "idle", ![w].delivery = None,
                             ![w].claimed[worker[w].delivery] = 0]

Outcome(w, status) ==
    /\ delivery' = [delivery EXCEPT ![worker[w].delivery] =
                      [@ EXCEPT !.status = status, !.due = FALSE, !.stale = FALSE]]
    /\ Done(w)
    /\ UNCHANGED <<paused, posts, taken>>

MarkSucceeded(w) == worker[w].pc = "succeeded" /\ Outcome(w, "succeeded")

LastAttempt(w) == worker[w].claimed[worker[w].delivery] >= MaxAttempts

\* The attempts are those of the claim.
MarkFailed(w) ==
    /\ worker[w].pc = "failed" \/ (worker[w].pc = "error" /\ LastAttempt(w))
    /\ Outcome(w, "failed")

MarkRetry(w) == worker[w].pc = "error" /\ ~LastAttempt(w) /\ Outcome(w, "pending")

Crash(w) ==
    /\ worker[w] # Idle
    /\ worker' = [worker EXCEPT ![w] = Idle]
    /\ UNCHANGED <<paused, delivery, posts, taken>>
-----------------------------------------------------------------------------
Step(w) ==
    \/ Claim(w) \/ Take(w) \/ Skip(w) \/ Post(w)
    \/ MarkSucceeded(w) \/ MarkFailed(w) \/ MarkRetry(w)

Next ==
    \/ Pause
    \/ \E d \in Deliveries : Enqueue(d) \/ BackoffEnds(d) \/ LeaseExpires(d)
    \/ \E w \in Workers : Step(w) \/ Crash(w)

Spec == Init /\ [][Next]_vars

\* Worker processes run passes for ever, and time passes.
Fairness ==
    /\ \A w \in Workers : WF_vars(Step(w))
    /\ \A d \in Deliveries : WF_vars(BackoffEnds(d)) /\ WF_vars(LeaseExpires(d))

FairSpec == Spec /\ Fairness
=============================================================================
