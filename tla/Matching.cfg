\* Two lines with one wording: one is resolved and corrected, while a read of matches prepares them.
SPECIFICATION Spec
CONSTANTS
    p1 = p1
    p2 = p2
    q1 = q1
    q2 = q2
    k1 = k1
    k2 = k2
    Lines = {1, 2}
    Quotations = {q1, q2}
    QuotationOf <- OneEach
    TextOf <- SameText
    Products = {p1, p2}
    Keys = {k1, k2}
    Asked <- ResolveThenCorrect
    Found <- NoHit
    Picks <- PickSecond
    Callers = {c1, c2}
    Runs = {w1}
    MaxFailures = 1
    None = None
SYMMETRY CallersAlike
CONSTRAINTS TwoAtOnce PickOrCorrect
INVARIANTS DecisionsEvaluated CorrectionAuditedOnce RepliesAgree AnsweredIsPriced
PROPERTIES EveryLineRouted
CHECK_DEADLOCK FALSE
