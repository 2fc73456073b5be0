\* Two owners and a member, rules and delegations that point at each of them, a split of two
\* requests and one more, and two calls at a time.
SPECIFICATION Spec
CONSTANTS
    ann = ann
    bob = bob
    cay = cay
    Member = {ann, bob, cay}
    Owners = {ann, bob}
    Caller = {c1, c2}
    Request = {r1, r2, r3}
    Split = {r1, r2}
    Requester <- AnnRequests
    Rules <- BranchAndWorkspace
    Delegations <- BobToCay
    MayFail = TRUE
    None = None
CONSTRAINT OneUnit
SYMMETRY Symmetric
CHECK_DEADLOCK FALSE
INVARIANTS StepFollowsRequest SplitDecidedTogether
PROPERTIES DecidedStepFrozen DecisionIsAuthorised
