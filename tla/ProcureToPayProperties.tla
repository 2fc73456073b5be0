----------------------- MODULE ProcureToPayProperties -----------------------
(***************************************************************************)
(* What purchase orders and the requests they draw on promise each other.  *)
(***************************************************************************)
EXTENDS ProcureToPay

\* Every row, call and lock has the shape its table or handler gives it.
TypeOK ==
    /\ request \in [Requests -> RequestStatus]
    /\ short \in [Requests -> BOOLEAN]
    /\ counted \in [Requests -> [Lines -> Nat \cup {None}]]
    /\ order \in [Orders -> Order]
    /\ used \in [Operations -> [Orders -> SUBSET AllKeys]]
    /\ call \in [Callers -> Call]
    /\ orderLock \in [Orders -> Callers \cup {None}]
    /\ requestLock \in [Requests -> Callers \cup {None}]

\* A request is never withdrawn, re-approved or left approved under a live order: while an
\* order that is not cancelled names it, it is ordered or delivered (ADR-025), however
\* creates, edits, cancellations, withdrawals and deliveries interleave.
LiveOrderHoldsRequest ==
    \A r \in Requests : HasLiveOrder(order, r) => request[r] \in {"ordered", "delivered"}

\* The other direction: a request is ordered only while some live order names it, so the
\* last order to leave gives the request back.  Requests that were ordered before ADR-025
\* are the documented exception.
OrderedHasLiveOrder ==
    \A r \in Requests \ Legacy : request[r] = "ordered" => HasLiveOrder(order, r)

\* Goods of a cancelled order that were received within what it ordered still count
\* against the request, and the live orders never reserve more than the rest.
Drawn(l) ==
    [o \in Orders |-> IF order[o].status = "cancelled" /\ order[o].received[l] < order[o].ordered[l]
                      THEN order[o].received[l]
                      ELSE order[o].ordered[l]]

CommittedWithin(r, l) ==
    SumFunctionOnSet(Drawn(l), {o \in Orders : order[o].source = r}) <= Requested[r][l]

\* Concurrent creates and edits on one request never reserve more than it asks for.
NoOverAllocation == \A r \in Requests, l \in Lines : CommittedWithin(r, l)

\* The stored status of an order is the one its evidence supports: no evidence under a
\* draft or a merely submitted order, every line received in full under a received or
\* closed one, whatever the order in which receipts, confirmations, withdrawals, edits
\* and late retries arrive.
StatusMatchesEvidence ==
    \A o \in Orders :
        LET full == \A l \in Lines : order[o].received[l] >= order[o].ordered[l]
            received == used["receive"][o] # {}
        IN  CASE order[o].status \in {"none", "draft", "submitted"} -> ~HasEvidence(o)
              [] order[o].status = "confirmed" -> used["confirm"][o] # {} /\ ~received
              [] order[o].status = "partially_received" -> received /\ ~full
              [] order[o].status \in {"received", "closed"} -> received /\ full
              [] OTHER -> TRUE

\* An order that was sent keeps its request and its lines: an edit that found a draft and
\* then waited for a lock cannot land after the order was submitted.
SentOrderFrozen ==
    [][\A o \in Orders : order[o].status \notin {"none", "draft"} =>
          /\ order'[o].source = order[o].source
          /\ order'[o].ordered = order[o].ordered
          /\ order'[o].edits = order[o].edits]_vars

\* A cancelled or closed order is final and takes no new evidence, also from a call that
\* was checked before the cancellation.
FinalOrderUnchanged ==
    [][\A o \in Orders : order[o].status \in {"cancelled", "closed"} =>
          /\ order'[o] = order[o]
          /\ \A op \in Operations : used'[op][o] = used[op][o]]_vars

\* The transitions the trigger purchase_order_lifecycle_guard of the database accepts.
LifecycleAllows(old, new) ==
    CASE old = "draft"              -> new \in {"submitted", "cancelled"}
      [] old = "submitted"          -> new \in {"draft", "confirmed", "partially_received",
                                               "received", "cancelled"}
      [] old = "confirmed"          -> new \in {"partially_received", "received", "cancelled"}
      [] old = "partially_received" -> new \in {"received", "cancelled"}
      [] old = "received"           -> new = "closed"
      [] OTHER                      -> FALSE

\* No handler ever runs into the trigger: whatever calls interleave, the status the service
\* writes over a stored one is one the trigger accepts, and an order goes back to a draft
\* only while nothing is recorded against it.
LifecycleGuardNeverTrips ==
    [][\A o \in Orders :
          order[o].status \notin {"none", order'[o].status} =>
              /\ LifecycleAllows(order[o].status, order'[o].status)
              /\ order'[o].status = "draft" => ~HasEvidence(o)]_vars

\* A key stands for one call: no operation stores the same key for two orders, so a retry
\* of a create that committed never makes a second order.
KeyNamesOneOrder ==
    \A op \in Operations, o, p \in Orders : used[op][o] \cap used[op][p] # {} => o = p

\* The handlers take their locks in one order, the row of the order first and then the
\* requests by ascending id, so no set of them can wait for each other in a circle.
LocksAscend ==
    /\ \A c \in Callers, o \in Orders : orderLock[o] = c =>
          call[c].pc \in {"edit_key", "edit_requests", "cancel_request"} /\ call[c].order = o
    /\ \A c \in Callers, r \in Requests : requestLock[r] = c =>
          /\ call[c].pc = "edit_requests"
          /\ \A s \in RequestsToLock(c) : r < s

\* Every call is answered: no two handlers wait for each other's locks.
EveryCallEnds == \A c \in Callers : call[c].pc # "idle" ~> call[c].pc = "idle"

-----------------------------------------------------------------------------
(***************************************************************************)
(* What the documentation says of delivery and the code does not keep.     *)
(***************************************************************************)

\* Only an ordered request is delivered: POST /requests/{id}/confirm-delivery requires the
\* status ordered, and withdrawn is a terminal state.
DeliveredOnlyFromOrdered ==
    [][\A r \in Requests :
          request[r] # "delivered" /\ request'[r] = "delivered" => request[r] = "ordered"]_vars
=============================================================================
