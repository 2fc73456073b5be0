\* One e-mail delivered twice to two workers, and requeued once.
SPECIFICATION FairSpec
CONSTANTS
    Jobs = {1, 2}
    Messages = {m1}
    MessageOf <- Redelivered
    Workers = {w1, w2}
    MaxAttempts = 2
    MaxRequeues = 1
    None = None
    m1 = m1
INVARIANTS OneQuotationPerMessage CompletedMeansHandled
PROPERTIES EveryJobRests
CHECK_DEADLOCK FALSE
