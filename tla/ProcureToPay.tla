---------------------------- MODULE ProcureToPay ----------------------------
(***************************************************************************)
(* Purchase orders raised against approved purchase requests, as the       *)
(* orders service and the request service of the API write them into one   *)
(* PostgreSQL database.  Every write of an order is a transaction at READ  *)
(* COMMITTED: it takes the row lock of the order (select ... for update)   *)
(* and then the advisory transaction lock of every request it touches.  A  *)
(* handler that waits for no second lock is one step here; a handler that  *)
(* first reads outside its transaction, or that holds one lock while it    *)
(* waits for another, is a call that moves from pc to pc, so that other    *)
(* clients act between its steps.                                          *)
(***************************************************************************)
EXTENDS Integers, FiniteSets, Functions

CONSTANTS
    Requests,       \* ids of ungrouped purchase requests; locks are taken in this order
    Orders,         \* ids of purchase orders, created or not
    Lines,          \* positions of request lines; an order line copies the position
    Buyers,         \* calls on orders that may be in progress at the same time
    Receivers,      \* delivery confirmations that may be in progress at the same time
    Sources,        \* what orders may be raised for: requests, or None for a manual order
    Requested,      \* quantity of every line of every request, 0 when it has no such line
    Legacy,         \* requests already "ordered", with no order, from before ADR-025
    Keys,           \* Idempotency-Key values clients send to each operation
    MaxOrdered,     \* bound: largest quantity of one order line
    MaxReceived,    \* bound: largest quantity of one receipt or delivery line
    None

Operations == {"create", "edit", "submit", "withdraw", "cancel", "close", "confirm", "receive"}

Callers == Buyers \cup Receivers

AllKeys == UNION {Keys[op] : op \in Operations}

ASSUME RequestsAssumption == Requests \subseteq Nat /\ None \notin Requests
ASSUME IdsAssumption == None \notin Orders \cup Callers
ASSUME SourcesAssumption == Sources \subseteq Requests \cup {None}
ASSUME QuantityAssumption ==
    /\ Requested \in [Requests -> [Lines -> Nat]]
    /\ MaxOrdered \in Nat /\ MaxReceived \in Nat
    /\ None \notin Nat
ASSUME LegacyAssumption == Legacy \subseteq Requests
ASSUME KeysAssumption == DOMAIN Keys = Operations /\ None \notin AllKeys

VARIABLES
    request,      \* purchase_request.status
    short,        \* purchase_request.has_delivery_discrepancy
    counted,      \* purchase_request_line.quantity_received, None while null
    order,        \* purchase_order with its lines and the receipts recorded for them
    used,         \* the idempotency keys each operation has stored for each order
    call,         \* what each caller's handler has read and waits for
    orderLock,    \* holder of the row lock of an order that outlives a step
    requestLock   \* holder of the advisory lock of a request that outlives a step

requestVars == <<request, short, counted>>
orderVars == <<order, used>>
lockVars == <<orderLock, requestLock>>
vars == <<request, short, counted, order, used, call, orderLock, requestLock>>

(***************************************************************************)
(* The rows.                                                               *)
(***************************************************************************)
RequestStatus ==
    {"draft", "submitted", "approved", "rejected", "withdrawn", "ordered", "delivered"}

OrderStatus ==
    {"none", "draft", "submitted", "confirmed", "partially_received",
     "received", "closed", "cancelled"}

Order == [status: OrderStatus, source: Requests \cup {None},
          ordered: [Lines -> Nat], received: [Lines -> Nat], edits: Nat]

NoOrder == [status |-> "none", source |-> None,
            ordered |-> [l \in Lines |-> 0], received |-> [l \in Lines |-> 0], edits |-> 0]

Waits == {"idle", "create", "edit", "edit_key", "edit_requests", "cancel", "cancel_request",
          "confirm", "receive", "deliver"}

Call == [pc: Waits, order: Orders \cup {None}, source: Requests \cup {None},
         qty: [Lines -> Nat \cup {None}], key: AllKeys \cup {None}, edits: Nat,
         pending: SUBSET Lines]

Idle == [pc |-> "idle", order |-> None, source |-> None, qty |-> [l \in Lines |-> None],
         key |-> None, edits |-> 0, pending |-> {}]

\* The quantities of an order's lines, 0 where it has no such line.  A line of zero, which
\* the schema lets a manual order carry, is left out: it reserves and receives nothing.
OrderQuantities == {q \in [Lines -> 0..MaxOrdered] : \E l \in Lines : q[l] > 0}

\* A receipt names some lines and receives a quantity on at least one of them.
ReceiptQuantities == {q \in [Lines -> 0..MaxReceived] : \E l \in Lines : q[l] > 0}

\* A delivery confirmation counts some of the lines of the request, at least one.
LinesOf(r) == {l \in Lines : Requested[r][l] > 0}

DeliveryCounts(r) ==
    {q \in [Lines -> (0..MaxReceived) \cup {None}] :
        /\ \E l \in Lines : q[l] # None
        /\ \A l \in Lines : q[l] # None => l \in LinesOf(r)}

-----------------------------------------------------------------------------
(***************************************************************************)
(* What the SQL of the orders service computes.                            *)
(***************************************************************************)
Live(o) == o.status \notin {"none", "cancelled"}

\* A live order still names request r as its source.
HasLiveOrder(rows, r) == \E o \in Orders : rows[o].source = r /\ Live(rows[o])

\* A live order reserves what it ordered, a cancelled one only what was received.
\* Mutant: drafts reserve nothing, as if an order counted only once it was sent.
ReservedOnceSent(o, l) ==
    CASE o.status \in {"none", "draft"} -> 0
      [] o.status = "cancelled"         -> o.received[l]
      [] OTHER                          -> o.ordered[l]

Reserved(o, l) ==
    CASE o.status = "none"      -> 0
      [] o.status = "cancelled" -> o.received[l]
      [] OTHER                  -> o.ordered[l]

Allocated(r, l, others) ==
    SumFunctionOnSet([o \in Orders |-> Reserved(order[o], l)], {o \in others : order[o].source = r})

AllocationAvailable(r, qty, others) ==
    \A l \in Lines : qty[l] > 0 => qty[l] <= Requested[r][l] - Allocated(r, l, others)

RequestStillOrdered(r) == request[r] \in {"approved", "ordered"}

MarkRequestOrdered(status, rows, r) ==
    IF status = "approved" /\ HasLiveOrder(rows, r) THEN "ordered" ELSE status

\* Mutant: releases the request although another live order names it.
ReleaseAlways(status, rows, r) ==
    IF status = "ordered" THEN "approved" ELSE status

ReleaseRequestWithoutOrders(status, rows, r) ==
    IF status = "ordered" /\ ~HasLiveOrder(rows, r) THEN "approved" ELSE status

EvidenceProgressable == {"submitted", "confirmed", "partially_received"}

\* Mutant: a confirmation outranks the receipts.
ProgressOrderStatusConfirmedFirst(current, confirmed, receipts, ordered, received) ==
    IF current \notin EvidenceProgressable THEN current
    ELSE IF confirmed THEN "confirmed"
    ELSE IF receipts
         THEN IF \A l \in Lines : received[l] >= ordered[l]
              THEN "received" ELSE "partially_received"
         ELSE current

\* The status an order's recorded evidence supports; received is cumulative per line.
ProgressOrderStatus(current, confirmed, receipts, ordered, received) ==
    IF current \notin EvidenceProgressable THEN current
    ELSE IF receipts
         THEN IF \A l \in Lines : received[l] >= ordered[l]
              THEN "received" ELSE "partially_received"
         ELSE IF confirmed /\ current = "submitted" THEN "confirmed" ELSE current

\* An order with this key for this operation already exists in the workspace.
KeyUsed(op, k) == \E o \in Orders : k \in used[op][o]
\* Mutant: no unique index on the key.
KeyUsedElsewhereUnchecked(op, k, o) == FALSE

KeyUsedElsewhere(op, k, o) == \E p \in Orders \ {o} : k \in used[op][p]

-----------------------------------------------------------------------------
Init ==
    /\ request = [r \in Requests |-> IF r \in Legacy THEN "ordered" ELSE "draft"]
    /\ short = [r \in Requests |-> FALSE]
    /\ counted = [r \in Requests |-> [l \in Lines |-> None]]
    /\ order = [o \in Orders |-> NoOrder]
    /\ used = [op \in Operations |-> [o \in Orders |-> {}]]
    /\ call = [c \in Callers |-> Idle]
    /\ orderLock = [o \in Orders |-> None]
    /\ requestLock = [r \in Requests |-> None]

\* The handler of c answers: its transaction ends and gives back its locks.
Return(c) ==
    /\ call' = [call EXCEPT ![c] = Idle]
    /\ orderLock' = [o \in Orders |-> IF orderLock[o] = c THEN None ELSE orderLock[o]]
    /\ requestLock' = [r \in Requests |-> IF requestLock[r] = c THEN None ELSE requestLock[r]]

Begin(c, values) ==
    /\ call[c].pc = "idle"
    /\ call' = [call EXCEPT ![c] = values]

\* The connection or the process behind c is lost.  Its transaction rolls back; what
\* it wrote through separate requests stays.
Abandon(c) ==
    /\ call[c].pc # "idle"
    /\ Return(c)
    /\ UNCHANGED <<requestVars, orderVars>>

-----------------------------------------------------------------------------
(***************************************************************************)
(* Purchase requests, as far as orders depend on them.                     *)
(***************************************************************************)
SubmitRequest(r) ==
    /\ request[r] = "draft"
    /\ request' = [request EXCEPT ![r] = "submitted"]
    /\ UNCHANGED <<short, counted, orderVars, call, lockVars>>

DecideRequest(r) ==
    /\ request[r] = "submitted"
    /\ \E decision \in {"approved", "rejected"} : request' = [request EXCEPT ![r] = decision]
    /\ UNCHANGED <<short, counted, orderVars, call, lockVars>>

WithdrawRequest(r) ==
    /\ requestLock[r] = None
    /\ request[r] \in {"draft", "submitted", "approved", "ordered"}
    /\ request[r] \in {"approved", "ordered"} => ~HasLiveOrder(order, r)
    /\ request' = [request EXCEPT ![r] = "withdrawn"]
    /\ UNCHANGED <<short, counted, orderVars, call, lockVars>>

\* confirm_delivery reads the request and its lines, then writes every line and the
\* header through requests of their own: nothing holds the row between them.
StartConfirmDelivery(c, r, qty) ==
    /\ request[r] = "ordered"
    /\ Begin(c, [Idle EXCEPT !.pc = "deliver", !.source = r, !.qty = qty,
                             !.pending = {l \in Lines : qty[l] # None}])
    /\ UNCHANGED <<requestVars, orderVars, lockVars>>

HasDiscrepancy(r, qty) ==
    \E l \in LinesOf(r) : qty[l] = None \/ qty[l] < Requested[r][l]

WriteDeliveredLine(c, l) ==
    /\ call[c].pc = "deliver" /\ l \in call[c].pending
    /\ counted' = [counted EXCEPT ![call[c].source][l] = call[c].qty[l]]
    /\ call' = [call EXCEPT ![c].pending = @ \ {l}]
    /\ UNCHANGED <<request, short, orderVars, lockVars>>

MarkDelivered(c) ==
    /\ call[c].pc = "deliver" /\ call[c].pending = {}
    /\ request' = [request EXCEPT ![call[c].source] = "delivered"]
    /\ short' = [short EXCEPT ![call[c].source] = HasDiscrepancy(call[c].source, call[c].qty)]
    /\ Return(c)
    /\ UNCHANGED <<counted, orderVars>>

-----------------------------------------------------------------------------
(***************************************************************************)
(* POST /orders.  The approval of the request is checked before the        *)
(* transaction and again under the advisory lock of the request.           *)
(***************************************************************************)
StartCreateOrder(c, r, qty, k) ==
    /\ r # None => RequestStillOrdered(r) /\ \A l \in Lines : qty[l] > 0 => l \in LinesOf(r)
    /\ Begin(c, [Idle EXCEPT !.pc = "create", !.source = r, !.qty = qty, !.key = k])
    /\ UNCHANGED <<requestVars, orderVars, lockVars>>

\* A retry of a create that committed gets that order back, before any other check.
ReplayCreateOrder(c) ==
    /\ call[c].pc = "create" /\ KeyUsed("create", call[c].key)
    /\ Return(c)
    /\ UNCHANGED <<requestVars, orderVars>>

MayCreateOrder(r, qty) ==
    r # None => RequestStillOrdered(r) /\ AllocationAvailable(r, qty, Orders)

InsertOrder(c, o) ==
    LET r == call[c].source IN
    /\ call[c].pc = "create" /\ ~KeyUsed("create", call[c].key)
    /\ r # None => requestLock[r] = None
    /\ MayCreateOrder(r, call[c].qty)
    /\ order[o].status = "none"
    /\ order' = [order EXCEPT ![o] =
           [NoOrder EXCEPT !.status = "draft", !.source = r, !.ordered = call[c].qty]]
    /\ used' = [used EXCEPT !["create"][o] = {call[c].key}]
    /\ request' = [s \in Requests |->
           IF s = r THEN MarkRequestOrdered(request[s], order', s) ELSE request[s]]
    /\ Return(c)
    /\ UNCHANGED <<short, counted>>

RefuseCreateOrder(c) ==
    LET r == call[c].source IN
    /\ call[c].pc = "create" /\ ~KeyUsed("create", call[c].key)
    /\ r # None => requestLock[r] = None
    /\ ~MayCreateOrder(r, call[c].qty)
    /\ Return(c)
    /\ UNCHANGED <<requestVars, orderVars>>

-----------------------------------------------------------------------------
(***************************************************************************)
(* PUT /orders/{id}.  The row lock of the order is held while the call     *)
(* waits for its key and for the locks of the old and the new request.     *)
(***************************************************************************)
StartUpdateDraftOrder(c, o, r, qty, k) ==
    /\ r # None => RequestStillOrdered(r) /\ \A l \in Lines : qty[l] > 0 => l \in LinesOf(r)
    /\ Begin(c, [Idle EXCEPT !.pc = "edit", !.order = o, !.source = r, !.qty = qty, !.key = k])
    /\ UNCHANGED <<requestVars, orderVars, lockVars>>

LockOrder(c, next) ==
    /\ orderLock' = [orderLock EXCEPT ![call[c].order] = c]
    /\ call' = [call EXCEPT ![c].pc = next]
    /\ UNCHANGED requestLock

EditLockOrder(c) ==
    /\ call[c].pc = "edit" /\ orderLock[call[c].order] = None
    /\ IF order[call[c].order].status = "draft" THEN LockOrder(c, "edit_key") ELSE Return(c)
    /\ UNCHANGED <<requestVars, orderVars>>

\* The insert of the key waits for a transaction that inserted the same key.
KeyInFlight(c) ==
    \E d \in Callers \ {c} : call[d].pc = "edit_requests" /\ call[d].key = call[c].key

RecordEditIdempotencyKey(c) ==
    /\ call[c].pc = "edit_key" /\ ~KeyInFlight(c)
    /\ IF KeyUsed("edit", call[c].key)
       THEN Return(c)
       ELSE /\ call' = [call EXCEPT ![c].pc = "edit_requests"]
            /\ UNCHANGED lockVars
    /\ UNCHANGED <<requestVars, orderVars>>

\* The requests an edit still has to lock, in the order of their ids.
RequestsToLock(c) ==
    {r \in {order[call[c].order].source, call[c].source} \ {None} : requestLock[r] # c}

\* Mutant: the locks are taken in any order.
EditLockRequestUnordered(c, r) ==
    /\ call[c].pc = "edit_requests" /\ r \in RequestsToLock(c)
    /\ requestLock[r] = None
    /\ requestLock' = [requestLock EXCEPT ![r] = c]
    /\ UNCHANGED <<requestVars, orderVars, call, orderLock>>

EditLockRequest(c, r) ==
    /\ call[c].pc = "edit_requests" /\ r \in RequestsToLock(c)
    /\ \A s \in RequestsToLock(c) : r <= s
    /\ requestLock[r] = None
    /\ requestLock' = [requestLock EXCEPT ![r] = c]
    /\ UNCHANGED <<requestVars, orderVars, call, orderLock>>

MayUpdateDraftOrder(c) ==
    LET r == call[c].source IN
    r # None => /\ RequestStillOrdered(r)
                /\ AllocationAvailable(r, call[c].qty, Orders \ {call[c].order})

EditHasLocks(c) == call[c].pc = "edit_requests" /\ RequestsToLock(c) = {}

\* Mutant: the request the order leaves is not released.
UpdateDraftOrderKeepsOld(c) ==
    LET o == call[c].order IN
    /\ EditHasLocks(c) /\ MayUpdateDraftOrder(c)
    /\ order' = [order EXCEPT ![o].source = call[c].source, ![o].ordered = call[c].qty,
                              ![o].edits = @ + 1]
    /\ used' = [used EXCEPT !["edit"][o] = @ \cup {call[c].key}]
    /\ request' = [s \in Requests |->
           IF s = call[c].source THEN MarkRequestOrdered(request[s], order', s) ELSE request[s]]
    /\ Return(c)
    /\ UNCHANGED <<short, counted>>

UpdateDraftOrder(c) ==
    LET o == call[c].order
        old == order[o].source
        new == call[c].source
    IN
    /\ EditHasLocks(c) /\ MayUpdateDraftOrder(c)
    /\ order' = [order EXCEPT ![o].source = new, ![o].ordered = call[c].qty,
                              ![o].edits = @ + 1]
    /\ used' = [used EXCEPT !["edit"][o] = @ \cup {call[c].key}]
    /\ request' = [s \in Requests |->
           IF s = new THEN MarkRequestOrdered(request[s], order', s)
           ELSE IF s = old THEN ReleaseRequestWithoutOrders(request[s], order', s)
           ELSE request[s]]
    /\ Return(c)
    /\ UNCHANGED <<short, counted>>

RefuseUpdateDraftOrder(c) ==
    /\ EditHasLocks(c) /\ ~MayUpdateDraftOrder(c)
    /\ Return(c)
    /\ UNCHANGED <<requestVars, orderVars>>

-----------------------------------------------------------------------------
(***************************************************************************)
(* POST /orders/{id}/cancel.  The row lock of the order is held while the  *)
(* call waits for the lock of the source request.                          *)
(***************************************************************************)
StartCancelOrder(c, o, k) ==
    /\ Begin(c, [Idle EXCEPT !.pc = "cancel", !.order = o, !.key = k])
    /\ UNCHANGED <<requestVars, orderVars, lockVars>>

Cancellable == {"draft", "submitted", "confirmed", "partially_received"}

CancelLockOrder(c) ==
    /\ call[c].pc = "cancel" /\ orderLock[call[c].order] = None
    /\ IF order[call[c].order].status \in Cancellable
       THEN LockOrder(c, "cancel_request") ELSE Return(c)
    /\ UNCHANGED <<requestVars, orderVars>>

CancelOrder(c) ==
    LET o == call[c].order
        r == order[o].source
    IN
    /\ call[c].pc = "cancel_request"
    /\ r # None => requestLock[r] = None
    /\ ~KeyUsedElsewhere("cancel", call[c].key, o)
    /\ order' = [order EXCEPT ![o].status = "cancelled"]
    /\ used' = [used EXCEPT !["cancel"][o] = {call[c].key}]
    /\ request' = [s \in Requests |->
           IF s = r THEN ReleaseRequestWithoutOrders(request[s], order', s) ELSE request[s]]
    /\ Return(c)
    /\ UNCHANGED <<short, counted>>

RefuseCancelOrder(c) ==
    LET r == order[call[c].order].source IN
    /\ call[c].pc = "cancel_request"
    /\ r # None => requestLock[r] = None
    /\ KeyUsedElsewhere("cancel", call[c].key, call[c].order)
    /\ Return(c)
    /\ UNCHANGED <<requestVars, orderVars>>

-----------------------------------------------------------------------------
(***************************************************************************)
(* Submit, withdraw and close lock the order row and nothing else: one     *)
(* step.  A call that stores no new key is a replay or a refusal and       *)
(* changes nothing, so only the call that takes effect is an action.       *)
(***************************************************************************)
\* Mutant: the row is written without waiting for its lock.
TransitionUnlocked(o, op, k, status) ==
    /\ ~KeyUsedElsewhere(op, k, o)
    /\ order' = [order EXCEPT ![o].status = status]
    /\ used' = [used EXCEPT ![op][o] = {k}]
    /\ UNCHANGED <<requestVars, call, lockVars>>

Transition(o, op, k, status) ==
    /\ orderLock[o] = None
    /\ ~KeyUsedElsewhere(op, k, o)
    /\ order' = [order EXCEPT ![o].status = status]
    /\ used' = [used EXCEPT ![op][o] = {k}]
    /\ UNCHANGED <<requestVars, call, lockVars>>

SubmitOrder(o, k) ==
    /\ k \notin used["submit"][o]
    /\ order[o].status = "draft"
    /\ Transition(o, "submit", k, "submitted")

HasEvidence(o) == used["confirm"][o] # {} \/ used["receive"][o] # {}

WithdrawOrder(o, k) ==
    /\ k \notin used["withdraw"][o]
    /\ order[o].status = "submitted"
    /\ ~HasEvidence(o)
    /\ Transition(o, "withdraw", k, "draft")

CloseOrder(o, k) ==
    /\ order[o].status = "received"
    /\ Transition(o, "close", k, "closed")

-----------------------------------------------------------------------------
(***************************************************************************)
(* POST /orders/{id}/confirmations and /receipts.  The payload is checked  *)
(* against lines read before the transaction; an edit replaces the lines   *)
(* of a draft with new rows, which "edits" numbers.                        *)
(***************************************************************************)
StartEvidence(c, op, o, qty, k) ==
    /\ order[o].status # "none"
    /\ \A l \in Lines : qty[l] # None /\ qty[l] > 0 => order[o].ordered[l] > 0
    /\ Begin(c, [Idle EXCEPT !.pc = op, !.order = o, !.qty = qty, !.key = k,
                             !.edits = order[o].edits])
    /\ UNCHANGED <<requestVars, orderVars, lockVars>>

\* Mutant: evidence is accepted for an order that is still a draft.
OpenForEvidenceDraft(o) == order[o].status \notin {"none", "cancelled", "closed"}

\* Mutant: a cancelled order still accepts evidence.
OpenForEvidenceCancelled(o) == order[o].status \notin {"none", "draft", "closed"}

OpenForEvidence(o) == order[o].status \notin {"none", "draft", "cancelled", "closed"}

RecordEvidence(c, op) ==
    LET o == call[c].order
        total == [l \in Lines |-> order[o].received[l] + call[c].qty[l]]
        received == IF op = "receive" THEN total ELSE order[o].received
        status == ProgressOrderStatus(order[o].status,
                                      op = "confirm" \/ used["confirm"][o] # {},
                                      op = "receive" \/ used["receive"][o] # {},
                                      order[o].ordered, received)
    IN
    /\ call[c].pc = op /\ orderLock[o] = None
    /\ OpenForEvidence(o)
    /\ ~KeyUsed(op, call[c].key)
    /\ call[c].edits = order[o].edits
    /\ order' = [order EXCEPT ![o].status = status, ![o].received = received]
    /\ used' = [used EXCEPT ![op][o] = @ \cup {call[c].key}]
    /\ Return(c)
    /\ UNCHANGED requestVars

\* Refused (order not open, key of another order, lines replaced since the payload was
\* checked) or a replay: the status is computed again from evidence it already counts.
AnswerEvidence(c, op) ==
    LET o == call[c].order
        replay == call[c].key \in used[op][o]
    IN
    /\ call[c].pc = op /\ orderLock[o] = None
    /\ \/ KeyUsed(op, call[c].key)
       \/ ~OpenForEvidence(o)
       \/ call[c].edits # order[o].edits
    /\ order' = IF replay
                THEN [order EXCEPT ![o].status =
                        ProgressOrderStatus(@, used["confirm"][o] # {}, used["receive"][o] # {},
                                            order[o].ordered, order[o].received)]
                ELSE order
    /\ Return(c)
    /\ UNCHANGED <<requestVars, used>>

-----------------------------------------------------------------------------
RequestStep ==
    \E r \in Requests : SubmitRequest(r) \/ DecideRequest(r) \/ WithdrawRequest(r)

OrderStep ==
    \E o \in Orders :
        \/ \E k \in Keys["submit"] : SubmitOrder(o, k)
        \/ \E k \in Keys["withdraw"] : WithdrawOrder(o, k)
        \/ \E k \in Keys["close"] : CloseOrder(o, k)

StartDelivery(c) ==
    \E r \in Requests : \E qty \in DeliveryCounts(r) : StartConfirmDelivery(c, r, qty)

StartCall(c) ==
    \/ \E r \in Sources, qty \in OrderQuantities :
          \/ \E k \in Keys["create"] : StartCreateOrder(c, r, qty, k)
          \/ \E k \in Keys["edit"], o \in Orders : StartUpdateDraftOrder(c, o, r, qty, k)
    \/ \E o \in Orders :
          \/ \E k \in Keys["cancel"] : StartCancelOrder(c, o, k)
          \/ \E k \in Keys["confirm"] : StartEvidence(c, "confirm", o, Idle.qty, k)
          \/ \E k \in Keys["receive"], qty \in ReceiptQuantities :
                StartEvidence(c, "receive", o, qty, k)

CreateStep(c) ==
    ReplayCreateOrder(c) \/ RefuseCreateOrder(c) \/ (\E o \in Orders : InsertOrder(c, o))

UpdateStep(c) ==
    \/ EditLockOrder(c) \/ RecordEditIdempotencyKey(c)
    \/ \E r \in Requests : EditLockRequest(c, r)
    \/ UpdateDraftOrder(c) \/ RefuseUpdateDraftOrder(c)

CancelStep(c) == CancelLockOrder(c) \/ CancelOrder(c) \/ RefuseCancelOrder(c)

EvidenceStep(c) ==
    \E op \in {"confirm", "receive"} : RecordEvidence(c, op) \/ AnswerEvidence(c, op)

DeliveryStep(c) == (\E l \in Lines : WriteDeliveredLine(c, l)) \/ MarkDelivered(c)

CallStep(c) ==
    CreateStep(c) \/ UpdateStep(c) \/ CancelStep(c) \/ EvidenceStep(c) \/ DeliveryStep(c)

Next ==
    \/ RequestStep
    \/ OrderStep
    \/ \E c \in Buyers : StartCall(c)
    \/ \E c \in Receivers : StartDelivery(c)
    \/ \E c \in Callers : CallStep(c) \/ Abandon(c)

\* A call goes on as long as it can; PostgreSQL grants a lock to waiters in arrival
\* order, so a call that waits for one is not overtaken forever.
Fairness == \A c \in Callers : SF_vars(CallStep(c))

Spec == Init /\ [][Next]_vars

FairSpec == Spec /\ Fairness

=============================================================================
