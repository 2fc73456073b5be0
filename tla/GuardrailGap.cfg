\* Two lines of one quotation with one wording, one buyer, and nothing fails.
SPECIFICATION Spec
CONSTANTS
    p1 = p1
    p2 = p2
    q1 = q1
    q2 = q2
    k1 = k1
    k2 = k2
    Lines = {1, 2}
    Quotations = {q1}
    QuotationOf <- BothInOne
    TextOf <- SameText
    Products = {p1, p2}
    Keys = {k1, k2}
    Asked <- ResolveThenCorrect
    Found <- NoHit
    Picks <- PickSecond
    Callers = {c1}
    Runs = {w1}
    MaxFailures = 0
    None = None
INVARIANT GuardrailsSeeEveryDecision
CHECK_DEADLOCK FALSE
