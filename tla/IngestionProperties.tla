------------------------- MODULE IngestionProperties -------------------------
(***************************************************************************)
(* What inbound e-mail promises its readers.                               *)
(***************************************************************************)
EXTENDS Ingestion

\* Every row, lock and worker has its shape, and no counter of attempts passes the limit.
TypeOK ==
    /\ content \in [Messages -> Content]
    /\ job \in [Jobs -> Job]
    /\ log \in [Messages -> LogStatus]
    /\ row \in [Messages -> Workers \cup {None}]
    /\ quotations \in [Messages -> Nat]
    /\ worker \in [Workers -> Worker]
    /\ requeues \in 0..MaxRequeues

\* A message becomes exactly one quotation when its log row is completed and none before,
\* however often it is delivered, retried, requeued or taken over from a slow worker.
OneQuotationPerMessage ==
    \A m \in Messages : quotations[m] = IF log[m] = "completed" THEN 1 ELSE 0

\* A job says completed only if its message was dealt with: it cannot be parsed, or its log
\* row says rejected or completed.  Nothing is lost behind a duplicate.
CompletedMeansHandled ==
    \A j \in Jobs : job[j].status = "completed" =>
        content[MessageOf[j]] = "unparsable" \/ log[MessageOf[j]] \in Handled

\* Every accepted job comes to rest, completed or failed, although crashes leave it to expire
\* and workers that were overtaken still write its status and its attempts.
EveryJobRests ==
    \A j \in Jobs : <>[](job[j].status \in {"none", "completed", "failed"})
=============================================================================
