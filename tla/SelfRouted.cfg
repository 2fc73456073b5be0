\* Two owners and an approver, calls that do not fail, one after the other.
SPECIFICATION Spec
CONSTANTS
    ann = ann
    bob = bob
    cay = cay
    Member = {ann, bob, cay}
    Owners = {ann, bob}
    Caller = {c1}
    Request = {r1}
    Split = {}
    Requester <- AnnRequests
    Rules <- CayApproves
    Delegations <- BobToAnn
    MayFail = FALSE
    None = None
SYMMETRY Symmetric
CHECK_DEADLOCK FALSE
PROPERTIES RoutedToSomebodyElse
