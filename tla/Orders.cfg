\* Two clients over two orders and one request of two lines, and a member who counts deliveries; see OneQuestion.
SPECIFICATION Spec
CONSTANTS
    Requests = {1}
    Orders = {o1, o2}
    Lines = {l1, l2}
    Buyers = {b1, b2}
    Receivers = {d1}
    Sources = {1}
    Requested <- OnePerLine
    Legacy = {}
    Keys <- OrdersKeys
    MaxOrdered = 1
    MaxReceived = 1
    None = None
CONSTRAINT OneQuestion
SYMMETRY Symmetric
INVARIANTS NoOverAllocation LiveOrderHoldsRequest KeyNamesOneOrder StatusMatchesEvidence
PROPERTIES SentOrderFrozen FinalOrderUnchanged LifecycleGuardNeverTrips
