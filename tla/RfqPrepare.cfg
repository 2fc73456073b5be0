\* Two people, two guardrail evaluations and a split prepare one RFQ with two replies; or two
\* senders mail and remind it while one person prepares it.
SPECIFICATION Spec
CONSTANTS
    Rfqs = {r1}
    Suppliers = {s1, s2}
    NoAddress = {}
    Replies = {p1, p2}
    Requests = {1, 2}
    Splits = {j1}
    Senders = {c1, c2}
    People = {a1, a2}
    Evaluators = {e1, e2}
    Guardrails = {g1}
    Keys = {k1}
    RfqOf <- OfTheRfq
    MaxLost = 1
    None = None
CONSTRAINT OneCase
SYMMETRY PrepareSymmetry
CHECK_DEADLOCK FALSE
INVARIANTS ConvertedExactlyWhenLinked OnePreparationPerRfq ReplayAnswersSame EventNamesSource MailsAccounted DraftHasNoReplies
PROPERTIES ClosedForGood NoMailAfterClose
