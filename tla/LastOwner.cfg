\* Two owners, nothing fails.
SPECIFICATION Spec
CONSTANTS
    ann = ann
    bob = bob
    cay = cay
    Member = {ann, bob}
    Owners = {ann, bob}
    Caller = {c1, c2}
    Request = {r1}
    Split = {}
    Requester <- AnnRequests
    Rules <- BobApproves
    Delegations <- BobToAnn
    MayFail = FALSE
    None = None
SYMMETRY Symmetric
CHECK_DEADLOCK FALSE
INVARIANTS RetainsOwner
