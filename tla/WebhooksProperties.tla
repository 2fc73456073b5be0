-------------------------- MODULE WebhooksProperties --------------------------
(***************************************************************************)
(* What outbound webhooks promise the endpoint and the owner.              *)
(***************************************************************************)
EXTENDS Webhooks

\* Every delivery and worker has its shape.
TypeOK ==
    /\ paused \in BOOLEAN
    /\ delivery \in [Deliveries -> Delivery]
    /\ posts \in [Deliveries -> Nat]
    /\ taken \subseteq Deliveries
    /\ worker \in [Workers -> Worker]

\* Retries are bounded: an endpoint gets an event at most webhook_max_attempts times, also
\* when workers die after posting or go on after their lease was taken over.
PostsWithinLimit == \A d \in Deliveries : posts[d] <= MaxAttempts

\* The owner never sees succeeded for an event the endpoint did not take.
SucceededMeansTaken == \A d \in Deliveries : delivery[d].status = "succeeded" => d \in taken

\* Workers come to rest: whatever crashes and late outcomes do to a delivery, it is not
\* claimed for ever.
WorkersRest == \A w \in Workers : <>[](worker[w] = Idle)
=============================================================================
