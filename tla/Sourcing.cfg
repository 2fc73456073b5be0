\* Two callers send and remind one RFQ addressed to two suppliers, one of them without an address,
\* while a guardrail and a person prepare a request from the reply; or a client submits and retries
\* a split that two workers solve, and of the two members who poll it one may only read.
SPECIFICATION SourcingSpec
CONSTANTS
    Rfqs = {r1}
    Suppliers = {s1, s2}
    NoAddress = {s2}
    Replies = {p1}
    Requests = {1, 2}
    Splits = {}
    Senders = {c1, c2}
    People = {a1}
    Evaluators = {e1}
    Guardrails = {g1}
    Keys = {k1}
    MaxLost = 1
    None = None
    Jobs = {j1}
    Creators = {c1}
    Pollers = {m1, m2}
    Viewers = {m2}
    Workers = {w1, w2}
    Baskets = {b1}
    Legacy = {}
    MaxAttempts = 2
INVARIANTS ClaimedAttemptRuns ResultIsCurrent
PROPERTIES AttemptsAreFenced EveryPreparationEnds EveryJobSettles
CHECK_DEADLOCK FALSE
