\* Two clients edit orders of two requests in opposite directions.
SPECIFICATION FairSpec
CONSTANTS
    Requests = {1, 2}
    Orders = {o1, o2}
    Lines = {l1}
    Buyers = {b1, b2}
    Receivers = {}
    Sources = {1, 2}
    Requested <- TwoPerLine
    Legacy = {2}
    Keys <- DetachKeys
    MaxOrdered = 1
    MaxReceived = 1
    None = None
INVARIANTS OrderedHasLiveOrder LocksAscend
PROPERTY EveryCallEnds
CHECK_DEADLOCK FALSE
