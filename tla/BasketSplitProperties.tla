----------------------- MODULE BasketSplitProperties -----------------------
(***************************************************************************)
(* What a basket-split job promises its readers, and three sentences of    *)
(* the documentation that the code does not keep.                          *)
(***************************************************************************)
EXTENDS BasketSplit

\* Every row, delivery, worker and call has the shape its table, payload or handler gives it.
TypeOK ==
    /\ job \in [Jobs -> Job]
    /\ age \in [Jobs -> Ages]
    /\ attempts \in Nat
    /\ delivery \subseteq Delivery
    /\ worker \in [Workers -> Worker]
    /\ call \in [Callers -> Call]

\* An attempt is solved by one worker at a time and runs, as its row says, for as long as the
\* worker solves it: redelivery, a retry, or an enqueue whose answer was lost never takes the
\* attempt away from the worker that claimed it.  Only a reader that finds it stuck does.
ClaimedAttemptRuns ==
    \A w \in Workers : worker[w].pc = "solving" =>
        LET c == worker[w].claimed IN
        /\ \A v \in Workers \ {w} : worker[v].pc = "solving" => worker[v].claimed # c
        /\ job[c.job].attempt = c.attempt =>
              \/ job[c.job].status = "running"
              \/ job[c.job].status = "failed" /\ job[c.job].error = "stuck"

Promise == INSTANCE JobAttempts
    WITH row <- [j \in Jobs |-> [status  |-> job[j].status,
                                 attempt |-> job[j].attempt,
                                 result  |-> job[j].result]]

\* The attempt fence: under late and repeated deliveries, slow and dying workers, retries and
\* polls, the rows move as JobAttempts allows.  A failed or replaced attempt never comes
\* back, and a result is written only by the worker that claimed the current attempt.
AttemptsAreFenced == Promise!Spec

\* A completed job shows the result of its current attempt.
ResultIsCurrent == Promise!CurrentResult

\* A job somebody looks at does not stay queued or running for ever, though its delivery was
\* lost, its worker died or no worker runs: a poll gives it up so that it can be retried.
EveryJobSettles == \A j \in Jobs : Active(j) ~> ~Active(j)
=============================================================================
