\* A delivery confirmation races the cancellation of the only order.
SPECIFICATION FairSpec
CONSTANTS
    Requests = {1}
    Orders = {o1}
    Lines = {l1}
    Buyers = {b1}
    Receivers = {d1}
    Sources = {1}
    Requested <- OnePerLine
    Legacy = {}
    Keys <- DeliveryKeys
    MaxOrdered = 1
    MaxReceived = 1
    None = None
PROPERTY DeliveredOnlyFromOrdered
