------------------------- MODULE ProcureToPayProof -------------------------
(***************************************************************************)
(* The invariants and action properties of ProcureToPay, proved for every  *)
(* value of the constants: types, locks, the bond between requests and     *)
(* orders, statuses and evidence, keys, and the quantities drawn.          *)
(***************************************************************************)
EXTENDS ProcureToPayProperties, Sums

\* What a call in progress carries, beyond its type: every handler that writes an order
\* or its lines has the quantities and the key its request body and header gave it.
CallOK(c) ==
    /\ call[c].pc \in {"create", "edit", "edit_key", "edit_requests", "receive"} =>
          call[c].qty \in [Lines -> Nat]
    /\ call[c].pc \notin {"idle", "deliver"} => call[c].key \in AllKeys
    /\ call[c].pc \notin {"idle", "deliver", "create"} => call[c].order \in Orders
    /\ call[c].pc = "deliver" => call[c].source \in Requests

CallsOK == \A c \in Callers : CallOK(c)

(***************************************************************************)
(* Rows and calls keep their shape under the updates the actions make.     *)
(***************************************************************************)
LEMMA NoOrderType == NoOrder \in Order
  BY DEF NoOrder, Order, OrderStatus

LEMMA StatusType ==
  ASSUME NEW row \in Order, NEW status \in OrderStatus
  PROVE  [row EXCEPT !.status = status] \in Order
  BY DEF Order

LEMMA EditType ==
  ASSUME NEW row \in Order, NEW source \in Requests \cup {None}, NEW ordered \in [Lines -> Nat]
  PROVE  [row EXCEPT !.source = source, !.ordered = ordered, !.edits = @ + 1] \in Order
<1>1. row.edits + 1 \in Nat
  BY DEF Order
<1>2. ASSUME NEW n \in Nat
      PROVE  [row EXCEPT !.source = source, !.ordered = ordered, !.edits = n] \in Order
  BY DEF Order
<1>. QED
  BY <1>1, <1>2

LEMMA IdleType == Idle \in Call
  BY DEF Idle, Call, Waits

\* Answering a call leaves the calls and the locks well formed.
LEMMA ReturnType ==
  ASSUME TypeOK, NEW c \in Callers, Return(c)
  PROVE  /\ call' \in [Callers -> Call]
         /\ orderLock' \in [Orders -> Callers \cup {None}]
         /\ requestLock' \in [Requests -> Callers \cup {None}]
  BY IdleType DEF Return, TypeOK

\* A handler that begins keeps what it read in a well-formed call.
LEMMA BeginType ==
  ASSUME TypeOK, NEW c \in Callers, NEW values \in Call, Begin(c, values)
  PROVE  call' \in [Callers -> Call]
  BY DEF Begin, TypeOK

\* The initial state has the declared types.
THEOREM InitTypeOK == Init => TypeOK
<1>. SUFFICES ASSUME Init PROVE TypeOK
  OBVIOUS
<1>1. request \in [Requests -> RequestStatus] /\ short \in [Requests -> BOOLEAN]
  BY DEF Init, RequestStatus
<1>2. counted \in [Requests -> [Lines -> Nat \cup {None}]]
  BY DEF Init
<1>3. order \in [Orders -> Order] /\ call \in [Callers -> Call]
  BY NoOrderType, IdleType DEF Init
<1>4. used \in [Operations -> [Orders -> SUBSET AllKeys]]
  BY DEF Init
<1>5. orderLock \in [Orders -> Callers \cup {None}] /\ requestLock \in [Requests -> Callers \cup {None}]
  BY DEF Init
<1>. QED
  BY <1>1, <1>2, <1>3, <1>4, <1>5 DEF TypeOK

-----------------------------------------------------------------------------
(***************************************************************************)
(* Every action keeps the types.                                           *)
(***************************************************************************)
LEMMA RequestStepType == TypeOK /\ RequestStep => TypeOK'
<1>. SUFFICES ASSUME TypeOK, NEW r \in Requests,
                     SubmitRequest(r) \/ DecideRequest(r) \/ WithdrawRequest(r)
              PROVE  TypeOK'
  BY DEF RequestStep
<1>1. request' \in [Requests -> RequestStatus]
  BY DEF SubmitRequest, DecideRequest, WithdrawRequest, RequestStatus, TypeOK
<1>2. UNCHANGED <<short, counted, order, used, call, orderLock, requestLock>>
  BY DEF SubmitRequest, DecideRequest, WithdrawRequest, orderVars, lockVars
<1>. QED
  BY <1>1, <1>2 DEF TypeOK

LEMMA OrderStepType == TypeOK /\ OrderStep => TypeOK'
<1>. SUFFICES ASSUME TypeOK, NEW o \in Orders, NEW op \in Operations, NEW k \in Keys[op],
                     NEW status \in OrderStatus, Transition(o, op, k, status)
              PROVE  TypeOK'
  BY DEF OrderStep, SubmitOrder, WithdrawOrder, CloseOrder, Operations, OrderStatus
<1>1. k \in AllKeys
  BY DEF AllKeys
<1>2. order' \in [Orders -> Order]
  <2>1. [order[o] EXCEPT !.status = status] \in Order
    BY StatusType DEF TypeOK
  <2>. QED
    BY <2>1 DEF Transition, TypeOK
<1>3. used' \in [Operations -> [Orders -> SUBSET AllKeys]]
  BY <1>1 DEF Transition, TypeOK
<1>4. UNCHANGED <<request, short, counted, call, orderLock, requestLock>>
  BY DEF Transition, requestVars, lockVars
<1>. QED
  BY <1>2, <1>3, <1>4 DEF TypeOK

\* A call that begins holds quantities, a key and a source of the declared sets.
LEMMA StartType ==
  ASSUME TypeOK, NEW c \in Callers
  PROVE  StartCall(c) \/ StartDelivery(c) => TypeOK'
<1>1. ASSUME NEW values \in Call, Begin(c, values), UNCHANGED <<requestVars, orderVars, lockVars>>
      PROVE  TypeOK'
  <2>1. call' \in [Callers -> Call]
    BY <1>1, BeginType
  <2>. QED
    BY <2>1, <1>1 DEF TypeOK, requestVars, orderVars, lockVars
<1>2. ASSUME NEW r \in Requests, NEW qty \in DeliveryCounts(r), StartConfirmDelivery(c, r, qty)
      PROVE  TypeOK'
  <2>1. qty \in [Lines -> Nat \cup {None}]
    BY QuantityAssumption DEF DeliveryCounts
  <2>2. [Idle EXCEPT !.pc = "deliver", !.source = r, !.qty = qty,
                     !.pending = {l \in Lines : qty[l] # None}] \in Call
    BY <2>1 DEF Idle, Call, Waits
  <2>. QED
    BY <1>1, <1>2, <2>2 DEF StartConfirmDelivery
<1>3. ASSUME NEW r \in Sources, NEW qty \in OrderQuantities, NEW k \in Keys["create"],
             StartCreateOrder(c, r, qty, k)
      PROVE  TypeOK'
  <2>1. qty \in [Lines -> Nat \cup {None}] /\ r \in Requests \cup {None} /\ k \in AllKeys
    BY QuantityAssumption, SourcesAssumption DEF OrderQuantities, AllKeys, Operations
  <2>2. [Idle EXCEPT !.pc = "create", !.source = r, !.qty = qty, !.key = k] \in Call
    BY <2>1 DEF Idle, Call, Waits
  <2>. QED
    BY <1>1, <1>3, <2>2 DEF StartCreateOrder
<1>4. ASSUME NEW o \in Orders, NEW r \in Sources, NEW qty \in OrderQuantities,
             NEW k \in Keys["edit"], StartUpdateDraftOrder(c, o, r, qty, k)
      PROVE  TypeOK'
  <2>1. qty \in [Lines -> Nat \cup {None}] /\ r \in Requests \cup {None} /\ k \in AllKeys
    BY QuantityAssumption, SourcesAssumption DEF OrderQuantities, AllKeys, Operations
  <2>2. [Idle EXCEPT !.pc = "edit", !.order = o, !.source = r, !.qty = qty, !.key = k] \in Call
    BY <2>1 DEF Idle, Call, Waits
  <2>. QED
    BY <1>1, <1>4, <2>2 DEF StartUpdateDraftOrder
<1>5. ASSUME NEW o \in Orders, NEW k \in Keys["cancel"], StartCancelOrder(c, o, k)
      PROVE  TypeOK'
  <2>1. k \in AllKeys
    BY DEF AllKeys, Operations
  <2>2. [Idle EXCEPT !.pc = "cancel", !.order = o, !.key = k] \in Call
    BY <2>1 DEF Idle, Call, Waits
  <2>. QED
    BY <1>1, <1>5, <2>2 DEF StartCancelOrder
<1>6. ASSUME NEW o \in Orders, NEW op \in {"confirm", "receive"}, NEW k \in Keys[op],
             NEW qty \in ReceiptQuantities \cup {Idle.qty}, StartEvidence(c, op, o, qty, k)
      PROVE  TypeOK'
  <2>1. qty \in [Lines -> Nat \cup {None}] /\ k \in AllKeys
    BY QuantityAssumption DEF ReceiptQuantities, AllKeys, Operations, Idle
  <2>2. order[o].edits \in Nat
    BY DEF TypeOK, Order
  <2>3. [Idle EXCEPT !.pc = op, !.order = o, !.qty = qty, !.key = k,
                     !.edits = order[o].edits] \in Call
    BY <2>1, <2>2 DEF Idle, Call, Waits
  <2>. QED
    BY <1>1, <1>6, <2>3 DEF StartEvidence
<1>. QED
  BY <1>2, <1>3, <1>4, <1>5, <1>6 DEF StartCall, StartDelivery

LEMMA MarkReleaseType ==
  ASSUME NEW status \in RequestStatus, NEW rows, NEW r
  PROVE  /\ MarkRequestOrdered(status, rows, r) \in RequestStatus
         /\ ReleaseRequestWithoutOrders(status, rows, r) \in RequestStatus
  BY DEF MarkRequestOrdered, ReleaseRequestWithoutOrders, RequestStatus

\* Answering without a write keeps the types.
LEMMA AnswerType ==
  ASSUME TypeOK, NEW c \in Callers, Return(c), UNCHANGED <<requestVars, orderVars>>
  PROVE  TypeOK'
  BY ReturnType DEF TypeOK, requestVars, orderVars

LEMMA CreateStepType ==
  ASSUME TypeOK, NEW c \in Callers, CreateStep(c), CallOK(c)
  PROVE  TypeOK'
<1>1. CASE ReplayCreateOrder(c) \/ RefuseCreateOrder(c)
  BY <1>1, AnswerType DEF ReplayCreateOrder, RefuseCreateOrder
<1>2. ASSUME NEW o \in Orders, InsertOrder(c, o)
      PROVE  TypeOK'
  <2>1. [NoOrder EXCEPT !.status = "draft", !.source = call[c].source, !.ordered = call[c].qty]
           \in Order
    BY <1>2 DEF InsertOrder, CallOK, NoOrder, Order, OrderStatus, TypeOK, Call
  <2>2. order' \in [Orders -> Order]
    BY <1>2, <2>1 DEF InsertOrder, TypeOK
  <2>3. used' \in [Operations -> [Orders -> SUBSET AllKeys]]
    BY <1>2 DEF InsertOrder, CallOK, TypeOK, Operations
  <2>4. request' \in [Requests -> RequestStatus]
    BY <1>2, MarkReleaseType DEF InsertOrder, TypeOK
  <2>5. UNCHANGED <<short, counted>> /\ Return(c)
    BY <1>2 DEF InsertOrder
  <2>. QED
    BY <2>2, <2>3, <2>4, <2>5, ReturnType DEF TypeOK
<1>. QED
  BY <1>1, <1>2 DEF CreateStep

\* A call that moves on to its next wait keeps the types.
LEMMA MoveOnType ==
  ASSUME TypeOK, NEW c \in Callers, NEW next \in Waits,
         call' = [call EXCEPT ![c].pc = next]
  PROVE  call' \in [Callers -> Call]
<1>1. [call[c] EXCEPT !.pc = next] \in Call
  BY DEF TypeOK, Call
<1>. QED
  BY <1>1 DEF TypeOK

LEMMA LockOrderType ==
  ASSUME TypeOK, NEW c \in Callers, call[c].order \in Orders, NEW next \in Waits,
         LockOrder(c, next), UNCHANGED <<requestVars, orderVars>>
  PROVE  TypeOK'
<1>1. call' \in [Callers -> Call]
  BY MoveOnType DEF LockOrder
<1>2. orderLock' \in [Orders -> Callers \cup {None}] /\ UNCHANGED requestLock
  BY DEF LockOrder, TypeOK
<1>. QED
  BY <1>1, <1>2 DEF TypeOK, requestVars, orderVars

LEMMA UpdateStepType ==
  ASSUME TypeOK, NEW c \in Callers, UpdateStep(c), CallOK(c)
  PROVE  TypeOK'
<1>1. CASE EditLockOrder(c)
  BY <1>1, AnswerType, LockOrderType DEF EditLockOrder, CallOK, Waits
<1>2. CASE RecordEditIdempotencyKey(c)
  <2>1. CASE call' = [call EXCEPT ![c].pc = "edit_requests"] /\ UNCHANGED lockVars
    <3>1. call' \in [Callers -> Call]
      BY <2>1, MoveOnType DEF Waits
    <3>. QED
      BY <1>2, <2>1, <3>1
         DEF RecordEditIdempotencyKey, TypeOK, requestVars, orderVars, lockVars
  <2>. QED
    BY <1>2, <2>1, AnswerType DEF RecordEditIdempotencyKey
<1>3. ASSUME NEW r \in Requests, EditLockRequest(c, r)
      PROVE  TypeOK'
  <2>1. requestLock' \in [Requests -> Callers \cup {None}]
    BY <1>3 DEF EditLockRequest, TypeOK
  <2>2. UNCHANGED <<request, short, counted, order, used, call, orderLock>>
    BY <1>3 DEF EditLockRequest, requestVars, orderVars
  <2>. QED
    BY <2>1, <2>2 DEF TypeOK
<1>4. CASE UpdateDraftOrder(c)
  <2>. DEFINE o == call[c].order
  <2>1. o \in Orders /\ call[c].qty \in [Lines -> Nat] /\ call[c].key \in AllKeys
    BY <1>4 DEF UpdateDraftOrder, EditHasLocks, CallOK
  <2>2. [order[o] EXCEPT !.source = call[c].source, !.ordered = call[c].qty, !.edits = @ + 1]
           \in Order
    <3>1. order[o] \in Order /\ call[c].source \in Requests \cup {None}
      BY <2>1 DEF TypeOK, Call
    <3>. QED
      BY <2>1, <3>1, EditType
  <2>3. order' \in [Orders -> Order]
    BY <1>4, <2>1, <2>2 DEF UpdateDraftOrder, TypeOK
  <2>4. used' \in [Operations -> [Orders -> SUBSET AllKeys]]
    BY <1>4, <2>1 DEF UpdateDraftOrder, TypeOK, Operations
  <2>5. request' \in [Requests -> RequestStatus]
    BY <1>4, MarkReleaseType DEF UpdateDraftOrder, TypeOK
  <2>6. UNCHANGED <<short, counted>> /\ Return(c)
    BY <1>4 DEF UpdateDraftOrder
  <2>. QED
    BY <2>3, <2>4, <2>5, <2>6, ReturnType DEF TypeOK
<1>5. CASE RefuseUpdateDraftOrder(c)
  BY <1>5, AnswerType DEF RefuseUpdateDraftOrder
<1>. QED
  BY <1>1, <1>2, <1>3, <1>4, <1>5 DEF UpdateStep

LEMMA CancelStepType ==
  ASSUME TypeOK, NEW c \in Callers, CancelStep(c), CallOK(c)
  PROVE  TypeOK'
<1>1. CASE CancelLockOrder(c)
  BY <1>1, AnswerType, LockOrderType DEF CancelLockOrder, CallOK, Waits
<1>2. CASE CancelOrder(c)
  <2>. DEFINE o == call[c].order
  <2>1. o \in Orders /\ call[c].key \in AllKeys
    BY <1>2 DEF CancelOrder, CallOK
  <2>2. [order[o] EXCEPT !.status = "cancelled"] \in Order
    BY <2>1, StatusType DEF TypeOK, OrderStatus
  <2>3. order' \in [Orders -> Order]
    BY <1>2, <2>1, <2>2 DEF CancelOrder, TypeOK
  <2>4. used' \in [Operations -> [Orders -> SUBSET AllKeys]]
    BY <1>2, <2>1 DEF CancelOrder, TypeOK, Operations
  <2>5. request' \in [Requests -> RequestStatus]
    BY <1>2, MarkReleaseType DEF CancelOrder, TypeOK
  <2>6. UNCHANGED <<short, counted>> /\ Return(c)
    BY <1>2 DEF CancelOrder
  <2>. QED
    BY <2>3, <2>4, <2>5, <2>6, ReturnType DEF TypeOK
<1>3. CASE RefuseCancelOrder(c)
  BY <1>3, AnswerType DEF RefuseCancelOrder
<1>. QED
  BY <1>1, <1>2, <1>3 DEF CancelStep

LEMMA ProgressType ==
  ASSUME NEW current \in OrderStatus, NEW confirmed, NEW receipts, NEW ordered, NEW received
  PROVE  ProgressOrderStatus(current, confirmed, receipts, ordered, received) \in OrderStatus
  BY DEF ProgressOrderStatus, OrderStatus

LEMMA EvidenceStepType ==
  ASSUME TypeOK, NEW c \in Callers, EvidenceStep(c), CallOK(c)
  PROVE  TypeOK'
<1>. PICK op \in {"confirm", "receive"} : RecordEvidence(c, op) \/ AnswerEvidence(c, op)
  BY DEF EvidenceStep
<1>. DEFINE o == call[c].order
<1>1. o \in Orders /\ call[c].key \in AllKeys /\ op \in Operations
  BY DEF RecordEvidence, AnswerEvidence, CallOK, Operations
<1>2. order[o] \in Order /\ order[o].status \in OrderStatus
  BY <1>1 DEF TypeOK, Order
<1>3. CASE RecordEvidence(c, op)
  <2>. DEFINE total == [l \in Lines |-> order[o].received[l] + call[c].qty[l]]
              received == IF op = "receive" THEN total ELSE order[o].received
              status == ProgressOrderStatus(order[o].status,
                                      op = "confirm" \/ used["confirm"][o] # {},
                                      op = "receive" \/ used["receive"][o] # {},
                                      order[o].ordered, received)
  <2>1. received \in [Lines -> Nat]
    BY <1>1, <1>2, <1>3 DEF RecordEvidence, CallOK, Order
  <2>2. status \in OrderStatus
    BY <1>2, ProgressType
  <2>. HIDE DEF received, status
  <2>3. [order[o] EXCEPT !.status = status, !.received = received] \in Order
    BY <1>2, <2>1, <2>2 DEF Order
  <2>4. order' = [order EXCEPT ![o] = [order[o] EXCEPT !.status = status, !.received = received]]
    BY <1>1, <1>3 DEF RecordEvidence, received, status, total
  <2>5. used' \in [Operations -> [Orders -> SUBSET AllKeys]]
    BY <1>1, <1>3 DEF RecordEvidence, TypeOK
  <2>. QED
    BY <1>3, <2>3, <2>4, <2>5, ReturnType DEF RecordEvidence, TypeOK, requestVars
<1>4. CASE AnswerEvidence(c, op)
  <2>. DEFINE status == ProgressOrderStatus(order[o].status, used["confirm"][o] # {},
                                      used["receive"][o] # {},
                                      order[o].ordered, order[o].received)
  <2>1. status \in OrderStatus
    BY <1>2, ProgressType
  <2>. HIDE DEF status
  <2>2. [order[o] EXCEPT !.status = status] \in Order
    BY <1>2, <2>1, StatusType
  <2>3. \/ order' = [order EXCEPT ![o] = [order[o] EXCEPT !.status = status]]
        \/ order' = order
    BY <1>1, <1>4 DEF AnswerEvidence, status
  <2>. QED
    BY <1>4, <2>2, <2>3, ReturnType DEF AnswerEvidence, TypeOK, requestVars
<1>. QED
  BY <1>3, <1>4

LEMMA DeliveryStepType ==
  ASSUME TypeOK, NEW c \in Callers, DeliveryStep(c), CallOK(c)
  PROVE  TypeOK'
<1>1. call[c].source \in Requests /\ call[c] \in Call
  BY DEF DeliveryStep, WriteDeliveredLine, MarkDelivered, CallOK, TypeOK
<1>2. ASSUME NEW l \in Lines, WriteDeliveredLine(c, l)
      PROVE  TypeOK'
  <2>1. [call[c] EXCEPT !.pending = @ \ {l}] \in Call
    BY <1>1 DEF Call
  <2>2. call' \in [Callers -> Call]
    BY <1>2, <2>1 DEF WriteDeliveredLine, TypeOK
  <2>3. call[c].qty[l] \in Nat \cup {None}
    BY <1>1 DEF Call
  <2>4. counted' \in [Requests -> [Lines -> Nat \cup {None}]]
    BY <1>1, <1>2, <2>3 DEF WriteDeliveredLine, TypeOK
  <2>. QED
    BY <1>2, <2>2, <2>4 DEF WriteDeliveredLine, TypeOK, orderVars, lockVars
<1>3. CASE MarkDelivered(c)
  <2>1. HasDiscrepancy(call[c].source, call[c].qty) \in BOOLEAN
    BY DEF HasDiscrepancy
  <2>2. request' \in [Requests -> RequestStatus] /\ short' \in [Requests -> BOOLEAN]
    BY <1>1, <1>3, <2>1 DEF MarkDelivered, TypeOK, RequestStatus
  <2>. QED
    BY <1>3, <2>2, ReturnType DEF MarkDelivered, TypeOK, orderVars
<1>. QED
  BY <1>2, <1>3 DEF DeliveryStep

-----------------------------------------------------------------------------
(***************************************************************************)
(* What calls carry is kept too, so the types are an invariant.            *)
(***************************************************************************)
Typed == TypeOK /\ CallsOK

LEMMA TypedInit == Init => Typed
<1>1. Init => CallsOK
  BY DEF Init, CallsOK, CallOK, Idle
<1>. QED
  BY <1>1, InitTypeOK DEF Typed

LEMMA ReturnCallsOK ==
  ASSUME TypeOK, CallsOK, NEW c \in Callers, Return(c)
  PROVE  CallsOK'
  BY DEF TypeOK, CallsOK, CallOK, Return, Idle

LEMMA MoveOnCallsOK ==
  ASSUME TypeOK, CallsOK, NEW c \in Callers,
         call[c].pc \in {"edit", "edit_key", "cancel"},
         NEW next \in {"edit_key", "edit_requests", "cancel_request"},
         next = "cancel_request" \/ call[c].pc # "cancel",
         call' = [call EXCEPT ![c].pc = next]
  PROVE  CallsOK'
<1>1. /\ call'[c].pc = next /\ call'[c].qty = call[c].qty /\ call'[c].key = call[c].key
      /\ call'[c].order = call[c].order /\ call'[c].source = call[c].source
  BY DEF TypeOK, Call
<1>2. \A d \in Callers \ {c} : call'[d] = call[d]
  BY DEF TypeOK
<1>. QED
  BY <1>1, <1>2 DEF CallsOK, CallOK

LEMMA BeginCallsOK ==
  ASSUME TypeOK, CallsOK, NEW c \in Callers, NEW values, Begin(c, values),
         values.pc \in {"create", "edit", "receive"} => values.qty \in [Lines -> Nat],
         values.pc \in {"create", "edit", "cancel", "confirm", "receive", "deliver"},
         values.pc # "deliver" => values.key \in AllKeys,
         values.pc \notin {"deliver", "create"} => values.order \in Orders,
         values.pc = "deliver" => values.source \in Requests
  PROVE  CallsOK'
<1>1. call'[c] = values /\ \A d \in Callers \ {c} : call'[d] = call[d]
  BY DEF TypeOK, Begin
<1>. QED
  BY <1>1 DEF CallsOK, CallOK

LEMMA StartCallsOK ==
  ASSUME TypeOK, CallsOK, NEW c \in Callers, StartCall(c) \/ StartDelivery(c)
  PROVE  CallsOK'
<1>1. ASSUME NEW r \in Requests, NEW qty \in DeliveryCounts(r), StartConfirmDelivery(c, r, qty)
      PROVE  CallsOK'
  BY <1>1, BeginCallsOK DEF StartConfirmDelivery, Idle
<1>2. ASSUME NEW r \in Sources, NEW qty \in OrderQuantities, NEW k \in Keys["create"],
             StartCreateOrder(c, r, qty, k)
      PROVE  CallsOK'
  <2>1. qty \in [Lines -> Nat] /\ k \in AllKeys
    BY QuantityAssumption DEF OrderQuantities, AllKeys, Operations
  <2>. QED
    BY <1>2, <2>1, BeginCallsOK DEF StartCreateOrder, Idle
<1>3. ASSUME NEW o \in Orders, NEW r \in Sources, NEW qty \in OrderQuantities,
             NEW k \in Keys["edit"], StartUpdateDraftOrder(c, o, r, qty, k)
      PROVE  CallsOK'
  <2>1. qty \in [Lines -> Nat] /\ k \in AllKeys
    BY QuantityAssumption DEF OrderQuantities, AllKeys, Operations
  <2>. QED
    BY <1>3, <2>1, BeginCallsOK DEF StartUpdateDraftOrder, Idle
<1>4. ASSUME NEW o \in Orders, NEW k \in Keys["cancel"], StartCancelOrder(c, o, k)
      PROVE  CallsOK'
  <2>1. k \in AllKeys
    BY DEF AllKeys, Operations
  <2>. QED
    BY <1>4, <2>1, BeginCallsOK DEF StartCancelOrder, Idle
<1>5. ASSUME NEW o \in Orders, NEW k \in Keys["confirm"],
             StartEvidence(c, "confirm", o, Idle.qty, k)
      PROVE  CallsOK'
  <2>1. k \in AllKeys
    BY DEF AllKeys, Operations
  <2>. QED
    BY <1>5, <2>1, BeginCallsOK DEF StartEvidence, Idle
<1>6. ASSUME NEW o \in Orders, NEW k \in Keys["receive"], NEW qty \in ReceiptQuantities,
             StartEvidence(c, "receive", o, qty, k)
      PROVE  CallsOK'
  <2>1. qty \in [Lines -> Nat] /\ k \in AllKeys
    BY QuantityAssumption DEF ReceiptQuantities, AllKeys, Operations
  <2>. QED
    BY <1>6, <2>1, BeginCallsOK DEF StartEvidence, Idle
<1>. QED
  BY <1>1, <1>2, <1>3, <1>4, <1>5, <1>6 DEF StartCall, StartDelivery

LEMMA CallStepCallsOK ==
  ASSUME TypeOK, CallsOK, NEW c \in Callers, CallStep(c) \/ Abandon(c)
  PROVE  CallsOK'
<1>1. CASE Return(c)
  BY <1>1, ReturnCallsOK
<1>2. ASSUME NEW next \in {"edit_key", "edit_requests", "cancel_request"},
             call[c].pc \in {"edit", "edit_key", "cancel"},
             next = "cancel_request" \/ call[c].pc # "cancel",
             call' = [call EXCEPT ![c].pc = next]
      PROVE  CallsOK'
  BY <1>2, MoveOnCallsOK
<1>3. ASSUME NEW r \in Requests, EditLockRequest(c, r)
      PROVE  CallsOK'
  BY <1>3 DEF EditLockRequest, CallsOK, CallOK
<1>4. ASSUME NEW l \in Lines, WriteDeliveredLine(c, l)
      PROVE  CallsOK'
  <2>1. /\ call'[c].pc = call[c].pc /\ call'[c].key = call[c].key
        /\ call'[c].source = call[c].source /\ call[c].pc = "deliver"
    BY <1>4 DEF WriteDeliveredLine, TypeOK, Call
  <2>2. \A d \in Callers \ {c} : call'[d] = call[d]
    BY <1>4 DEF WriteDeliveredLine, TypeOK
  <2>. QED
    BY <2>1, <2>2 DEF CallsOK, CallOK
<1>5. CreateStep(c) \/ Abandon(c) => Return(c)
  BY DEF CreateStep, ReplayCreateOrder, RefuseCreateOrder, InsertOrder, Abandon
<1>6. UpdateStep(c) => CallsOK'
  BY <1>1, <1>2, <1>3 DEF UpdateStep, EditLockOrder, LockOrder, RecordEditIdempotencyKey,
        UpdateDraftOrder, RefuseUpdateDraftOrder
<1>7. CancelStep(c) => CallsOK'
  BY <1>1, <1>2 DEF CancelStep, CancelLockOrder, LockOrder, CancelOrder, RefuseCancelOrder
<1>8. EvidenceStep(c) => Return(c)
  BY DEF EvidenceStep, RecordEvidence, AnswerEvidence
<1>9. DeliveryStep(c) => CallsOK'
  BY <1>1, <1>4 DEF DeliveryStep, MarkDelivered
<1>. QED
  BY <1>1, <1>5, <1>6, <1>7, <1>8, <1>9 DEF CallStep

LEMMA TypedStep == Typed /\ [Next]_vars => Typed'
<1>. SUFFICES ASSUME TypeOK, CallsOK, [Next]_vars PROVE TypeOK' /\ CallsOK'
  BY DEF Typed
<1>1. CASE RequestStep
  BY <1>1, RequestStepType DEF RequestStep, SubmitRequest, DecideRequest, WithdrawRequest,
        CallsOK, CallOK
<1>2. CASE OrderStep
  BY <1>2, OrderStepType DEF OrderStep, SubmitOrder, WithdrawOrder, CloseOrder, Transition,
        CallsOK, CallOK
<1>3. ASSUME NEW c \in Callers, StartCall(c) \/ StartDelivery(c) PROVE TypeOK' /\ CallsOK'
  BY <1>3, StartType, StartCallsOK
<1>4. ASSUME NEW c \in Callers, CallStep(c) PROVE TypeOK' /\ CallsOK'
  BY <1>4, CallStepCallsOK, CreateStepType, UpdateStepType, CancelStepType, EvidenceStepType,
     DeliveryStepType DEF CallStep, CallsOK
<1>5. ASSUME NEW c \in Callers, Abandon(c) PROVE TypeOK' /\ CallsOK'
  BY <1>5, CallStepCallsOK, AnswerType DEF Abandon
<1>6. CASE UNCHANGED vars
  BY <1>6 DEF vars, TypeOK, CallsOK, CallOK
<1>. QED
  BY <1>1, <1>2, <1>3, <1>4, <1>5, <1>6 DEF Next, Callers

\* The types hold in every reachable state.
THEOREM TypeCorrect == Spec => []TypeOK
<1>1. Typed => TypeOK
  BY DEF Typed
<1>. QED
  BY TypedInit, TypedStep, <1>1, PTL DEF Spec

-----------------------------------------------------------------------------
(***************************************************************************)
(* Locks.  A call past the row lock of its order holds it, and the rows it *)
(* read under a lock are still the same when it writes.                    *)
(***************************************************************************)
Holding == {"edit_key", "edit_requests", "cancel_request"}

\* A call past the row lock holds it, and the row is still as the call found it.
HoldsOrder ==
    \A c \in Callers : call[c].pc \in Holding =>
        /\ call[c].order \in Orders
        /\ orderLock[call[c].order] = c
        /\ IF call[c].pc = "cancel_request"
           THEN order[call[c].order].status \in Cancellable
           ELSE order[call[c].order].status = "draft"

LockInv == LocksAscend /\ HoldsOrder

LEMMA LockInit == Init => LockInv
<1>. SUFFICES ASSUME Init PROVE LockInv
  OBVIOUS
<1>1. None \notin Callers
  BY IdsAssumption
<1>. QED
  BY <1>1 DEF Init, LockInv, LocksAscend, HoldsOrder, Holding, Idle

\* The orders a step writes are unlocked or locked by the caller that takes the step.
LEMMA WritesOwnOrder ==
  ASSUME Typed, LockInv, NEW c \in Callers, CallStep(c),
         NEW o \in Orders, orderLock[o] \notin {None, c}
  PROVE  order'[o] = order[o]
<1>1. ASSUME NEW p \in Orders, InsertOrder(c, p) PROVE order'[o] = order[o]
  <2>1. order[o].status # "none"
    BY DEF Typed, TypeOK, LockInv, LocksAscend, HoldsOrder, Holding, Cancellable
  <2>. QED
    BY <1>1, <2>1 DEF InsertOrder, Typed, TypeOK
<1>2. CASE UpdateDraftOrder(c)
  BY <1>2 DEF UpdateDraftOrder, EditHasLocks, LockInv, HoldsOrder, Holding, Typed, TypeOK
<1>3. CASE CancelOrder(c)
  BY <1>3 DEF CancelOrder, LockInv, HoldsOrder, Holding, Typed, TypeOK
<1>4. ASSUME NEW op \in {"confirm", "receive"}, RecordEvidence(c, op) \/ AnswerEvidence(c, op)
      PROVE  order'[o] = order[o]
  BY <1>4 DEF RecordEvidence, AnswerEvidence, Typed, TypeOK
<1>. QED
  BY <1>1, <1>2, <1>3, <1>4 DEF CallStep, CreateStep, UpdateStep, CancelStep, EvidenceStep,
     DeliveryStep, ReplayCreateOrder, RefuseCreateOrder, EditLockOrder, RecordEditIdempotencyKey,
     EditLockRequest, RefuseUpdateDraftOrder, CancelLockOrder, RefuseCancelOrder,
     WriteDeliveredLine, MarkDelivered, orderVars

\* A step of one call leaves the calls and the locks of the others alone.
LEMMA OthersKeep ==
  ASSUME Typed, NEW c \in Callers, CallStep(c) \/ Abandon(c), NEW d \in Callers \ {c}
  PROVE  /\ call'[d] = call[d]
         /\ \A o \in Orders : orderLock'[o] = d <=> orderLock[o] = d
         /\ \A r \in Requests : requestLock'[r] = d <=> requestLock[r] = d
<1>. d # None
  BY IdsAssumption
<1>1. CASE Return(c)
  BY <1>1 DEF Return, Typed, TypeOK
<1>2. ASSUME NEW next, LockOrder(c, next), orderLock[call[c].order] = None
      PROVE  /\ call'[d] = call[d]
             /\ \A o \in Orders : orderLock'[o] = d <=> orderLock[o] = d
             /\ \A r \in Requests : requestLock'[r] = d <=> requestLock[r] = d
  BY <1>2 DEF LockOrder, Typed, TypeOK
<1>3. CASE RecordEditIdempotencyKey(c) /\ ~Return(c)
  BY <1>3 DEF RecordEditIdempotencyKey, Typed, TypeOK, lockVars
<1>4. ASSUME NEW r \in Requests, EditLockRequest(c, r)
      PROVE  /\ call'[d] = call[d]
             /\ \A o \in Orders : orderLock'[o] = d <=> orderLock[o] = d
             /\ \A s \in Requests : requestLock'[s] = d <=> requestLock[s] = d
  BY <1>4 DEF EditLockRequest, Typed, TypeOK
<1>5. ASSUME NEW l \in Lines, WriteDeliveredLine(c, l)
      PROVE  /\ call'[d] = call[d]
             /\ \A o \in Orders : orderLock'[o] = d <=> orderLock[o] = d
             /\ \A s \in Requests : requestLock'[s] = d <=> requestLock[s] = d
  BY <1>5 DEF WriteDeliveredLine, Typed, TypeOK, lockVars
<1>. QED
  BY <1>1, <1>2, <1>3, <1>4, <1>5 DEF CallStep, CreateStep, UpdateStep, CancelStep, EvidenceStep,
     DeliveryStep, ReplayCreateOrder, InsertOrder, RefuseCreateOrder, EditLockOrder,
     UpdateDraftOrder, RefuseUpdateDraftOrder, CancelLockOrder, CancelOrder, RefuseCancelOrder,
     RecordEvidence, AnswerEvidence, MarkDelivered, Abandon

\* The part of the lock invariant that is about one caller.
LockInvOf(c) ==
    /\ \A o \in Orders : orderLock[o] = c => call[c].pc \in Holding /\ call[c].order = o
    /\ \A r \in Requests : requestLock[r] = c =>
          call[c].pc = "edit_requests" /\ \A s \in RequestsToLock(c) : r < s
    /\ call[c].pc \in Holding =>
          /\ call[c].order \in Orders
          /\ orderLock[call[c].order] = c
          /\ IF call[c].pc = "cancel_request"
             THEN order[call[c].order].status \in Cancellable
             ELSE order[call[c].order].status = "draft"

LEMMA LockInvSplit == LockInv <=> \A c \in Callers : LockInvOf(c)
  BY DEF LockInv, LockInvOf, LocksAscend, HoldsOrder, Holding

LEMMA OthersLockInv ==
  ASSUME Typed, LockInv, NEW c \in Callers, CallStep(c) \/ Abandon(c), NEW d \in Callers \ {c}
  PROVE  LockInvOf(d)'
<1>1. LockInvOf(d) /\ d # None
  BY LockInvSplit, IdsAssumption
<1>2. /\ call'[d] = call[d]
      /\ \A o \in Orders : orderLock'[o] = d <=> orderLock[o] = d
      /\ \A r \in Requests : requestLock'[r] = d <=> requestLock[r] = d
  BY OthersKeep
<1>3. call[d].pc \in Holding => order'[call[d].order] = order[call[d].order]
  BY <1>1, WritesOwnOrder DEF LockInvOf, Abandon, orderVars
<1>4. call[d].pc = "edit_requests" => RequestsToLock(d)' = RequestsToLock(d)
  <2>. SUFFICES ASSUME call[d].pc = "edit_requests"
                PROVE  RequestsToLock(d)' = RequestsToLock(d)
    OBVIOUS
  <2>1. order'[call[d].order].source = order[call[d].order].source /\ call[d].order \in Orders
    BY <1>1, <1>3 DEF LockInvOf, Holding
  <2>2. order[call[d].order].source \in Requests \cup {None}
        /\ call[d].source \in Requests \cup {None}
    BY <2>1 DEF Typed, TypeOK, Order, Call
  <2>. QED
    BY <1>2, <2>1, <2>2 DEF RequestsToLock
<1>. QED
  BY <1>1, <1>2, <1>3, <1>4 DEF LockInvOf

LEMMA OwnLockInv ==
  ASSUME Typed, LockInv, NEW c \in Callers, CallStep(c) \/ Abandon(c)
  PROVE  LockInvOf(c)'
<1>. LockInvOf(c) /\ c # None /\ None \notin Callers
  BY LockInvSplit, IdsAssumption
<1>1. CASE Return(c)
  BY <1>1 DEF Return, LockInvOf, Idle, Holding, Typed, TypeOK
<1>2. CASE EditLockOrder(c) /\ ~Return(c)
  <2>1. call[c].order \in Orders
    BY <1>2 DEF EditLockOrder, Typed, CallsOK, CallOK
  <2>2. /\ call'[c].pc = "edit_key" /\ call'[c].order = call[c].order
        /\ orderLock'[call[c].order] = c /\ UNCHANGED <<order, requestLock>>
        /\ \A o \in Orders \ {call[c].order} : orderLock'[o] = orderLock[o]
    BY <1>2, <2>1 DEF EditLockOrder, LockOrder, Typed, TypeOK, Call, orderVars
  <2>. QED
    BY <1>2, <2>1, <2>2 DEF EditLockOrder, LockInvOf, Holding
<1>3. CASE RecordEditIdempotencyKey(c) /\ ~Return(c)
  <2>1. /\ call[c].pc = "edit_key" /\ call'[c].pc = "edit_requests"
        /\ call'[c].order = call[c].order /\ UNCHANGED <<order, orderLock, requestLock>>
    BY <1>3 DEF RecordEditIdempotencyKey, Typed, TypeOK, Call, orderVars, lockVars
  <2>. QED
    BY <2>1 DEF LockInvOf, Holding
<1>4. ASSUME NEW r \in Requests, EditLockRequest(c, r)
      PROVE  LockInvOf(c)'
  <2>1. UNCHANGED <<order, call, orderLock>> /\ call[c].pc = "edit_requests"
    BY <1>4 DEF EditLockRequest, orderVars
  <2>2. /\ requestLock'[r] = c /\ r \in RequestsToLock(c)
        /\ \A s \in Requests \ {r} : requestLock'[s] = requestLock[s]
    BY <1>4 DEF EditLockRequest, Typed, TypeOK
  <2>3. order[call[c].order].source \in Requests \cup {None}
        /\ call[c].source \in Requests \cup {None}
    BY <2>1 DEF LockInvOf, Holding, Typed, TypeOK, Order, Call
  <2>4. RequestsToLock(c)' = RequestsToLock(c) \ {r} /\ RequestsToLock(c) \subseteq Requests
    BY <2>1, <2>2, <2>3 DEF RequestsToLock
  <2>5. \A s \in RequestsToLock(c) \ {r} : r < s
    BY <1>4, <2>4, RequestsAssumption DEF EditLockRequest
  <2>. QED
    BY <2>1, <2>2, <2>4, <2>5 DEF LockInvOf, Holding
<1>5. CASE CancelLockOrder(c) /\ ~Return(c)
  <2>1. call[c].order \in Orders
    BY <1>5 DEF CancelLockOrder, Typed, CallsOK, CallOK
  <2>2. /\ call'[c].pc = "cancel_request" /\ call'[c].order = call[c].order
        /\ orderLock'[call[c].order] = c /\ UNCHANGED <<order, requestLock>>
        /\ \A o \in Orders \ {call[c].order} : orderLock'[o] = orderLock[o]
    BY <1>5, <2>1 DEF CancelLockOrder, LockOrder, Typed, TypeOK, Call, orderVars
  <2>. QED
    BY <1>5, <2>1, <2>2 DEF CancelLockOrder, LockInvOf, Holding
<1>6. ASSUME NEW l \in Lines, WriteDeliveredLine(c, l)
      PROVE  LockInvOf(c)'
  <2>1. /\ call[c].pc = "deliver" /\ call'[c].pc = "deliver"
        /\ UNCHANGED <<order, orderLock, requestLock>>
    BY <1>6 DEF WriteDeliveredLine, Typed, TypeOK, Call, orderVars, lockVars
  <2>. QED
    BY <2>1 DEF LockInvOf, Holding
<1>. QED
  BY <1>1, <1>2, <1>3, <1>4, <1>5, <1>6 DEF CallStep, CreateStep, UpdateStep, CancelStep,
     EvidenceStep, DeliveryStep, ReplayCreateOrder, InsertOrder, RefuseCreateOrder,
     UpdateDraftOrder, RefuseUpdateDraftOrder, CancelOrder, RefuseCancelOrder,
     RecordEvidence, AnswerEvidence, MarkDelivered, Abandon

\* A call that begins holds no lock and changes no row.
LEMMA BeginKeeps ==
  ASSUME Typed, NEW c \in Callers, StartCall(c) \/ StartDelivery(c)
  PROVE  /\ call[c].pc = "idle" /\ call'[c].pc \notin Holding
         /\ UNCHANGED <<request, order, used, orderLock, requestLock>>
         /\ \A d \in Callers \ {c} : call'[d] = call[d]
<1>1. ASSUME NEW values, Begin(c, values), values.pc \notin Holding,
             UNCHANGED <<requestVars, orderVars, lockVars>>
      PROVE  /\ call[c].pc = "idle" /\ call'[c].pc \notin Holding
             /\ UNCHANGED <<request, order, used, orderLock, requestLock>>
             /\ \A d \in Callers \ {c} : call'[d] = call[d]
  BY <1>1 DEF Begin, Typed, TypeOK, requestVars, orderVars, lockVars
<1>2. ASSUME NEW r, NEW qty, StartConfirmDelivery(c, r, qty)
      PROVE  \E values : /\ Begin(c, values) /\ values.pc \notin Holding
                         /\ UNCHANGED <<requestVars, orderVars, lockVars>>
  <2>. DEFINE v == [Idle EXCEPT !.pc = "deliver", !.source = r, !.qty = qty,
                                !.pending = {l \in Lines : qty[l] # None}]
  <2>1. v.pc \notin Holding
    BY DEF Idle, Holding
  <2>. QED
    BY <1>2, <2>1 DEF StartConfirmDelivery
<1>3. ASSUME NEW r, NEW qty, NEW k, StartCreateOrder(c, r, qty, k)
      PROVE  \E values : /\ Begin(c, values) /\ values.pc \notin Holding
                         /\ UNCHANGED <<requestVars, orderVars, lockVars>>
  <2>. DEFINE v == [Idle EXCEPT !.pc = "create", !.source = r, !.qty = qty, !.key = k]
  <2>1. v.pc \notin Holding
    BY DEF Idle, Holding
  <2>. QED
    BY <1>3, <2>1 DEF StartCreateOrder
<1>4. ASSUME NEW o, NEW r, NEW qty, NEW k, StartUpdateDraftOrder(c, o, r, qty, k)
      PROVE  \E values : /\ Begin(c, values) /\ values.pc \notin Holding
                         /\ UNCHANGED <<requestVars, orderVars, lockVars>>
  <2>. DEFINE v == [Idle EXCEPT !.pc = "edit", !.order = o, !.source = r, !.qty = qty, !.key = k]
  <2>1. v.pc \notin Holding
    BY DEF Idle, Holding
  <2>. QED
    BY <1>4, <2>1 DEF StartUpdateDraftOrder
<1>5. ASSUME NEW o, NEW k, StartCancelOrder(c, o, k)
      PROVE  \E values : /\ Begin(c, values) /\ values.pc \notin Holding
                         /\ UNCHANGED <<requestVars, orderVars, lockVars>>
  <2>. DEFINE v == [Idle EXCEPT !.pc = "cancel", !.order = o, !.key = k]
  <2>1. v.pc \notin Holding
    BY DEF Idle, Holding
  <2>. QED
    BY <1>5, <2>1 DEF StartCancelOrder
<1>6. ASSUME NEW op \in {"confirm", "receive"}, NEW o, NEW qty, NEW k, StartEvidence(c, op, o, qty, k)
      PROVE  \E values : /\ Begin(c, values) /\ values.pc \notin Holding
                         /\ UNCHANGED <<requestVars, orderVars, lockVars>>
  <2>. DEFINE v == [Idle EXCEPT !.pc = op, !.order = o, !.qty = qty, !.key = k,
                                !.edits = order[o].edits]
  <2>1. v.pc \notin Holding
    BY DEF Idle, Holding
  <2>. QED
    BY <1>6, <2>1 DEF StartEvidence
<1>. QED
  BY <1>1, <1>2, <1>3, <1>4, <1>5, <1>6 DEF StartCall, StartDelivery

LEMMA LockStep == Typed /\ LockInv /\ [Next]_vars => LockInv'
<1>. SUFFICES ASSUME Typed, LockInv, [Next]_vars PROVE LockInv'
  OBVIOUS
<1>. None \notin Callers
  BY IdsAssumption
<1>1. CASE RequestStep
  BY <1>1 DEF RequestStep, SubmitRequest, DecideRequest, WithdrawRequest, orderVars, lockVars,
     LockInv, LocksAscend, HoldsOrder, RequestsToLock
<1>2. ASSUME NEW o \in Orders, NEW op, NEW k, NEW status, Transition(o, op, k, status)
      PROVE  LockInv'
  <2>1. UNCHANGED <<call, orderLock, requestLock>> /\ orderLock[o] = None
    BY <1>2 DEF Transition, lockVars
  <2>2. \A p \in Orders \ {o} : order'[p] = order[p]
    BY <1>2 DEF Transition, Typed, TypeOK
  <2>3. \A c \in Callers : call[c].pc \in Holding => call[c].order \in Orders \ {o}
    BY <2>1 DEF LockInv, HoldsOrder
  <2>4. \A c \in Callers : call[c].pc = "edit_requests" => RequestsToLock(c)' = RequestsToLock(c)
    BY <2>1, <2>2, <2>3 DEF RequestsToLock, Holding
  <2>. QED
    BY <2>1, <2>2, <2>3, <2>4 DEF LockInv, LocksAscend, HoldsOrder, Holding
<1>3. ASSUME NEW c \in Callers, StartCall(c) \/ StartDelivery(c) PROVE LockInv'
  <2>1. /\ call[c].pc = "idle" /\ call'[c].pc \notin Holding
        /\ UNCHANGED <<order, orderLock, requestLock>>
        /\ \A d \in Callers \ {c} : call'[d] = call[d]
    BY <1>3, BeginKeeps
  <2>. QED
    BY <2>1 DEF LockInv, LocksAscend, HoldsOrder, Holding, RequestsToLock
<1>4. ASSUME NEW c \in Callers, CallStep(c) \/ Abandon(c) PROVE LockInv'
  <2>1. \A d \in Callers : LockInvOf(d)'
    BY <1>4, OthersLockInv, OwnLockInv
  <2>. QED
    BY <2>1 DEF LockInv, LockInvOf, LocksAscend, HoldsOrder, Holding
<1>5. CASE UNCHANGED vars
  BY <1>5 DEF vars, LockInv, LocksAscend, HoldsOrder, RequestsToLock
<1>. QED
  BY <1>1, <1>2, <1>3, <1>4, <1>5 DEF Next, OrderStep, SubmitOrder, WithdrawOrder, CloseOrder,
     Callers

\* The handlers lock the order row first and requests by ascending id, for any number of
\* clients, orders and requests: no circle of waiting handlers can form.
THEOREM LocksAscendHold == Spec => []LocksAscend
<1>1. LockInv => LocksAscend
  BY DEF LockInv
<1>. QED
  BY TypedInit, TypedStep, LockInit, LockStep, <1>1, PTL DEF Spec

-----------------------------------------------------------------------------
(***************************************************************************)
(* A request is held exactly while a live order names it.                  *)
(***************************************************************************)
RequestsHeld == LiveOrderHoldsRequest /\ OrderedHasLiveOrder

\* Progress never makes an order live that was not, nor the other way round.
LEMMA ProgressLive ==
  ASSUME NEW current \in OrderStatus, NEW confirmed, NEW receipts, NEW ordered, NEW received
  PROVE  LET status == ProgressOrderStatus(current, confirmed, receipts, ordered, received)
         IN  status \notin {"none", "cancelled"} <=> current \notin {"none", "cancelled"}
  BY DEF ProgressOrderStatus, EvidenceProgressable, OrderStatus

\* Steps that leave the source of every order, and whether it is live, leave the requests held.
LEMMA SameOrdersHeld ==
  ASSUME RequestsHeld, UNCHANGED request,
         \A o \in Orders : order'[o].source = order[o].source /\ (Live(order'[o]) <=> Live(order[o]))
  PROVE  RequestsHeld'
  BY DEF RequestsHeld, LiveOrderHoldsRequest, OrderedHasLiveOrder, HasLiveOrder

LEMMA InsertHeld ==
  ASSUME Typed, RequestsHeld, NEW c \in Callers, NEW o \in Orders, InsertOrder(c, o)
  PROVE  RequestsHeld'
<1>. DEFINE r == call[c].source
<1>1. order'[o].source = r /\ Live(order'[o]) /\ ~Live(order[o])
  BY DEF InsertOrder, Typed, TypeOK, NoOrder, Live
<1>2. \A p \in Orders \ {o} : order'[p] = order[p]
  BY DEF InsertOrder, Typed, TypeOK
<1>3. \A s \in Requests : HasLiveOrder(order', s) <=> s = r \/ HasLiveOrder(order, s)
  BY <1>1, <1>2 DEF HasLiveOrder
<1>4. \A s \in Requests \ {r} : request'[s] = request[s]
  BY DEF InsertOrder
<1>5. r \in Requests => request'[r] = "ordered"
  <2>. SUFFICES ASSUME r \in Requests PROVE request'[r] = "ordered"
    OBVIOUS
  <2>1. r # None
    BY RequestsAssumption
  <2>2. request[r] \in {"approved", "ordered"}
    BY <2>1 DEF InsertOrder, MayCreateOrder, RequestStillOrdered
  <2>. QED
    BY <1>3, <2>2 DEF InsertOrder, MarkRequestOrdered
<1>. QED
  BY <1>3, <1>4, <1>5 DEF RequestsHeld, LiveOrderHoldsRequest, OrderedHasLiveOrder

LEMMA UpdateHeld ==
  ASSUME Typed, LockInv, RequestsHeld, NEW c \in Callers, UpdateDraftOrder(c)
  PROVE  RequestsHeld'
<1>. DEFINE o == call[c].order
            old == order[o].source
            new == call[c].source
<1>1. o \in Orders /\ order[o].status = "draft" /\ order[o] \in Order
  BY DEF UpdateDraftOrder, EditHasLocks, LockInv, HoldsOrder, Holding, Typed, TypeOK
<1>2. order'[o].source = new /\ order'[o].status = "draft"
  BY <1>1 DEF UpdateDraftOrder, Typed, TypeOK, Order
<1>3. \A p \in Orders \ {o} : order'[p] = order[p]
  BY <1>1 DEF UpdateDraftOrder, Typed, TypeOK
<1>4. Live(order[o]) /\ Live(order'[o])
  BY <1>1, <1>2 DEF Live
<1>5. \A s \in Requests \ {old, new} : HasLiveOrder(order', s) <=> HasLiveOrder(order, s)
  BY <1>2, <1>3 DEF HasLiveOrder
<1>6. new \in Requests => HasLiveOrder(order', new)
  BY <1>1, <1>2, <1>4 DEF HasLiveOrder
<1>7. old \in Requests => HasLiveOrder(order, old)
  BY <1>1, <1>4 DEF HasLiveOrder
<1>8. new \in Requests => request'[new] = "ordered"
  <2>. SUFFICES ASSUME new \in Requests PROVE request'[new] = "ordered"
    OBVIOUS
  <2>1. new # None
    BY RequestsAssumption
  <2>2. request[new] \in {"approved", "ordered"}
    BY <2>1 DEF UpdateDraftOrder, MayUpdateDraftOrder, RequestStillOrdered
  <2>. QED
    BY <1>6, <2>2 DEF UpdateDraftOrder, MarkRequestOrdered
<1>9. old \in Requests /\ old # new =>
        request'[old] = ReleaseRequestWithoutOrders(request[old], order', old)
  BY DEF UpdateDraftOrder
<1>10. \A s \in Requests \ {old, new} : request'[s] = request[s]
  BY DEF UpdateDraftOrder
<1>11. old \in Requests /\ old # new =>
         /\ HasLiveOrder(order', old) => request'[old] \in {"ordered", "delivered"}
         /\ request'[old] = "ordered" => HasLiveOrder(order', old)
  BY <1>7, <1>9 DEF ReleaseRequestWithoutOrders, RequestsHeld, LiveOrderHoldsRequest
<1>. QED
  BY <1>5, <1>6, <1>8, <1>10, <1>11 DEF RequestsHeld, LiveOrderHoldsRequest, OrderedHasLiveOrder

LEMMA CancelHeld ==
  ASSUME Typed, LockInv, RequestsHeld, NEW c \in Callers, CancelOrder(c)
  PROVE  RequestsHeld'
<1>. DEFINE o == call[c].order
            r == order[o].source
<1>1. o \in Orders /\ order[o].status \in Cancellable /\ order[o] \in Order
  BY DEF CancelOrder, LockInv, HoldsOrder, Holding, Typed, TypeOK
<1>2. order'[o].source = r /\ order'[o].status = "cancelled"
  BY <1>1 DEF CancelOrder, Typed, TypeOK, Order
<1>3. \A p \in Orders \ {o} : order'[p] = order[p]
  BY <1>1 DEF CancelOrder, Typed, TypeOK
<1>4. Live(order[o])
  BY <1>1 DEF Live, Cancellable
<1>5. \A s \in Requests \ {r} : HasLiveOrder(order', s) <=> HasLiveOrder(order, s)
  BY <1>2, <1>3 DEF HasLiveOrder
<1>6. r \in Requests => HasLiveOrder(order, r)
  BY <1>1, <1>4 DEF HasLiveOrder
<1>7. r \in Requests => request'[r] = ReleaseRequestWithoutOrders(request[r], order', r)
  BY DEF CancelOrder
<1>8. \A s \in Requests \ {r} : request'[s] = request[s]
  BY DEF CancelOrder
<1>9. r \in Requests =>
        /\ HasLiveOrder(order', r) => request'[r] \in {"ordered", "delivered"}
        /\ request'[r] = "ordered" => HasLiveOrder(order', r)
  BY <1>6, <1>7 DEF ReleaseRequestWithoutOrders, RequestsHeld, LiveOrderHoldsRequest
<1>. QED
  BY <1>5, <1>8, <1>9 DEF RequestsHeld, LiveOrderHoldsRequest, OrderedHasLiveOrder

\* What a call that records or answers evidence does to the rows: one order at most gets
\* a status its evidence supports and new received quantities.
LEMMA EvidenceWrites ==
  ASSUME Typed, NEW c \in Callers, EvidenceStep(c)
  PROVE  /\ request' = request
         /\ call[c].order \in Orders
         /\ orderLock[call[c].order] = None
         /\ \A p \in Orders \ {call[c].order} : order'[p] = order[p]
         /\ LET old == order[call[c].order]
                new == order'[call[c].order]
            IN  /\ new.source = old.source /\ new.ordered = old.ordered /\ new.edits = old.edits
                /\ old.status \notin EvidenceProgressable => new.status = old.status
                /\ Live(new) <=> Live(old)
<1>. PICK op \in {"confirm", "receive"} : RecordEvidence(c, op) \/ AnswerEvidence(c, op)
  BY DEF EvidenceStep
<1>. DEFINE o == call[c].order
<1>1. o \in Orders /\ order[o] \in Order /\ order[o].status \in OrderStatus
  BY DEF RecordEvidence, AnswerEvidence, Typed, TypeOK, CallsOK, CallOK, Order
<1>2. request' = request /\ orderLock[o] = None
  BY DEF RecordEvidence, AnswerEvidence, requestVars
<1>3. \A p \in Orders \ {o} : order'[p] = order[p]
  BY <1>1 DEF RecordEvidence, AnswerEvidence, Typed, TypeOK
<1>4. /\ order'[o].source = order[o].source /\ order'[o].ordered = order[o].ordered
      /\ order'[o].edits = order[o].edits
      /\ \/ order'[o].status = order[o].status
         \/ \E confirmed, receipts, received :
               order'[o].status = ProgressOrderStatus(order[o].status, confirmed, receipts,
                                                      order[o].ordered, received)
  <2>1. CASE RecordEvidence(c, op)
    <3>. DEFINE total == [l \in Lines |-> order[o].received[l] + call[c].qty[l]]
                received == IF op = "receive" THEN total ELSE order[o].received
                confirmed == op = "confirm" \/ used["confirm"][o] # {}
                receipts == op = "receive" \/ used["receive"][o] # {}
                status == ProgressOrderStatus(order[o].status, confirmed, receipts,
                                              order[o].ordered, received)
    <3>1. order' = [order EXCEPT ![o].status = status, ![o].received = received]
      BY <2>1 DEF RecordEvidence
    <3>. HIDE DEF status, received, confirmed, receipts
    <3>2. /\ order'[o].status = status /\ order'[o].source = order[o].source
          /\ order'[o].ordered = order[o].ordered /\ order'[o].edits = order[o].edits
      BY <1>1, <3>1 DEF Typed, TypeOK, Order
    <3>. QED
      BY <3>2 DEF status
  <2>2. CASE AnswerEvidence(c, op)
    <3>. DEFINE confirmed == used["confirm"][o] # {}
                receipts == used["receive"][o] # {}
                received == order[o].received
                status == ProgressOrderStatus(order[o].status, confirmed, receipts,
                                              order[o].ordered, received)
    <3>1. order' = order \/ order' = [order EXCEPT ![o].status = status]
      BY <2>2 DEF AnswerEvidence
    <3>. HIDE DEF status, confirmed, receipts, received
    <3>2. CASE order' = order
      BY <3>2
    <3>3. CASE order' = [order EXCEPT ![o].status = status]
      <4>1. /\ order'[o].status = status /\ order'[o].source = order[o].source
            /\ order'[o].ordered = order[o].ordered /\ order'[o].edits = order[o].edits
        BY <1>1, <3>3 DEF Typed, TypeOK, Order
      <4>. QED
        BY <4>1 DEF status
    <3>. QED
      BY <3>1, <3>2, <3>3
  <2>. QED
    BY <2>1, <2>2
<1>5. /\ Live(order'[o]) <=> Live(order[o])
      /\ order[o].status \notin EvidenceProgressable => order'[o].status = order[o].status
  <2>1. ASSUME NEW confirmed, NEW receipts, NEW received,
               order'[o].status = ProgressOrderStatus(order[o].status, confirmed, receipts,
                                                      order[o].ordered, received)
        PROVE  /\ Live(order'[o]) <=> Live(order[o])
               /\ order[o].status \notin EvidenceProgressable => order'[o].status = order[o].status
    BY <1>1, <2>1, ProgressLive DEF Live, ProgressOrderStatus
  <2>. QED
    BY <1>4, <2>1 DEF Live
<1>. QED
  BY <1>1, <1>2, <1>3, <1>4, <1>5

\* The same of submit, withdraw and close.
LEMMA TransitionWrites ==
  ASSUME Typed, NEW o \in Orders, NEW op, NEW k, NEW status, Transition(o, op, k, status)
  PROVE  /\ UNCHANGED <<request, call, orderLock, requestLock>>
         /\ orderLock[o] = None
         /\ order'[o] = [order[o] EXCEPT !.status = status] /\ order'[o].status = status
         /\ order'[o].source = order[o].source /\ order'[o].ordered = order[o].ordered
         /\ order'[o].received = order[o].received /\ order'[o].edits = order[o].edits
         /\ \A p \in Orders \ {o} : order'[p] = order[p]
  BY DEF Transition, Typed, TypeOK, Order, requestVars, lockVars

LEMMA HeldStep == Typed /\ LockInv /\ RequestsHeld /\ [Next]_vars => RequestsHeld'
<1>. SUFFICES ASSUME Typed, LockInv, RequestsHeld, [Next]_vars PROVE RequestsHeld'
  OBVIOUS
<1>1. CASE RequestStep
  <2>. PICK r \in Requests : SubmitRequest(r) \/ DecideRequest(r) \/ WithdrawRequest(r)
    BY <1>1 DEF RequestStep
  <2>1. order' = order /\ \A s \in Requests \ {r} : request'[s] = request[s]
    BY DEF SubmitRequest, DecideRequest, WithdrawRequest, orderVars, Typed, TypeOK
  <2>2. ~HasLiveOrder(order, r) /\ request'[r] # "ordered"
    BY DEF SubmitRequest, DecideRequest, WithdrawRequest, Typed, TypeOK,
       RequestsHeld, LiveOrderHoldsRequest
  <2>. QED
    BY <2>1, <2>2 DEF RequestsHeld, LiveOrderHoldsRequest, OrderedHasLiveOrder, HasLiveOrder
<1>2. CASE OrderStep
  <2>1. ASSUME NEW o \in Orders, NEW op, NEW k, NEW status, Transition(o, op, k, status),
               Live(order[o]), status \notin {"none", "cancelled"}
        PROVE  RequestsHeld'
    <3>1. /\ UNCHANGED request /\ order'[o].status = status /\ order'[o].source = order[o].source
          /\ \A p \in Orders \ {o} : order'[p] = order[p]
      BY <2>1 DEF Transition, Typed, TypeOK, Order, requestVars
    <3>2. \A p \in Orders : order'[p].source = order[p].source /\ (Live(order'[p]) <=> Live(order[p]))
      BY <2>1, <3>1 DEF Live
    <3>. QED
      BY <3>1, <3>2, SameOrdersHeld
  <2>. QED
    BY <1>2, <2>1 DEF OrderStep, SubmitOrder, WithdrawOrder, CloseOrder, Live
<1>3. ASSUME NEW c \in Callers, StartCall(c) \/ StartDelivery(c) PROVE RequestsHeld'
  BY <1>3, BeginKeeps, SameOrdersHeld
<1>4. ASSUME NEW c \in Callers, EvidenceStep(c) PROVE RequestsHeld'
  BY <1>4, EvidenceWrites, SameOrdersHeld
<1>5. ASSUME NEW c \in Callers, MarkDelivered(c) PROVE RequestsHeld'
  <2>1. order' = order
    BY <1>5 DEF MarkDelivered, orderVars
  <2>2. \A s \in Requests : request'[s] = request[s] \/ request'[s] = "delivered"
    BY <1>5 DEF MarkDelivered, Typed, TypeOK
  <2>. QED
    BY <2>1, <2>2 DEF RequestsHeld, LiveOrderHoldsRequest, OrderedHasLiveOrder
<1>6. ASSUME UNCHANGED <<request, order>> PROVE RequestsHeld'
  BY <1>6, SameOrdersHeld
<1>7. ASSUME NEW c \in Callers, CallStep(c) PROVE RequestsHeld'
  BY <1>4, <1>5, <1>6, <1>7, InsertHeld, UpdateHeld, CancelHeld
     DEF CallStep, CreateStep, UpdateStep, CancelStep, DeliveryStep, ReplayCreateOrder,
         RefuseCreateOrder, EditLockOrder, RecordEditIdempotencyKey, EditLockRequest,
         RefuseUpdateDraftOrder, CancelLockOrder, RefuseCancelOrder, WriteDeliveredLine,
         requestVars, orderVars
<1>. QED
  BY <1>1, <1>2, <1>3, <1>6, <1>7 DEF Next, Callers, Abandon, requestVars, orderVars, vars

LEMMA HeldInit == Init => RequestsHeld
  BY DEF Init, RequestsHeld, LiveOrderHoldsRequest, OrderedHasLiveOrder, HasLiveOrder, Live, NoOrder

\* While an order that is not cancelled names a request, the request is ordered or
\* delivered, for any number of concurrent creates, edits and cancellations.
THEOREM LiveOrderHolds == Spec => []LiveOrderHoldsRequest
<1>1. RequestsHeld => LiveOrderHoldsRequest
  BY DEF RequestsHeld
<1>. QED
  BY TypedInit, TypedStep, LockInit, LockStep, HeldInit, HeldStep, <1>1, PTL DEF Spec

\* A request stays ordered only while a live order names it.
THEOREM OrderedIsHeld == Spec => []OrderedHasLiveOrder
<1>1. RequestsHeld => OrderedHasLiveOrder
  BY DEF RequestsHeld
<1>. QED
  BY TypedInit, TypedStep, LockInit, LockStep, HeldInit, HeldStep, <1>1, PTL DEF Spec

-----------------------------------------------------------------------------
(***************************************************************************)
(* What a step may never do to an order that was sent, or that is final.   *)
(***************************************************************************)
Sent(o) == order[o].status \notin {"none", "draft"}

Final(o) == order[o].status \in {"cancelled", "closed"}

\* Only an insert, an edit, a cancellation, evidence or a transition writes an order, and
\* all but the last three find it unsent.
LEMMA CallStepFrozen ==
  ASSUME Typed, LockInv, NEW c \in Callers, CallStep(c), NEW o \in Orders, Sent(o)
  PROVE  /\ order'[o].source = order[o].source
         /\ order'[o].ordered = order[o].ordered
         /\ order'[o].edits = order[o].edits
<1>1. ASSUME NEW p \in Orders, InsertOrder(c, p)
      PROVE  order'[o] = order[o]
  BY <1>1 DEF InsertOrder, Sent, Typed, TypeOK
<1>2. CASE UpdateDraftOrder(c)
  <2>1. call[c].order \in Orders \ {o}
    BY <1>2 DEF UpdateDraftOrder, EditHasLocks, LockInv, HoldsOrder, Holding, Sent
  <2>. QED
    BY <1>2, <2>1 DEF UpdateDraftOrder, Typed, TypeOK
<1>3. CASE CancelOrder(c)
  BY <1>3 DEF CancelOrder, Typed, TypeOK, CallsOK, CallOK, Order
<1>4. CASE EvidenceStep(c)
  BY <1>4, EvidenceWrites
<1>. QED
  BY <1>1, <1>2, <1>3, <1>4 DEF CallStep, CreateStep, UpdateStep, CancelStep,
     DeliveryStep, ReplayCreateOrder, RefuseCreateOrder, EditLockOrder, RecordEditIdempotencyKey,
     EditLockRequest, RefuseUpdateDraftOrder, CancelLockOrder, RefuseCancelOrder,
     WriteDeliveredLine, MarkDelivered, orderVars

LEMMA SentStep ==
  ASSUME Typed, LockInv, Next, NEW o \in Orders, Sent(o)
  PROVE  /\ order'[o].source = order[o].source
         /\ order'[o].ordered = order[o].ordered
         /\ order'[o].edits = order[o].edits
<1>1. CASE RequestStep
  BY <1>1 DEF RequestStep, SubmitRequest, DecideRequest, WithdrawRequest, orderVars
<1>2. ASSUME NEW p \in Orders, NEW op, NEW k, NEW status, Transition(p, op, k, status)
      PROVE  /\ order'[o].source = order[o].source
             /\ order'[o].ordered = order[o].ordered
             /\ order'[o].edits = order[o].edits
  BY <1>2, TransitionWrites
<1>3. ASSUME NEW c \in Callers, StartCall(c) \/ StartDelivery(c) PROVE order'[o] = order[o]
  BY <1>3, BeginKeeps
<1>4. ASSUME NEW c \in Callers, Abandon(c) PROVE order'[o] = order[o]
  BY <1>4 DEF Abandon, orderVars
<1>. QED
  BY <1>1, <1>2, <1>3, <1>4, CallStepFrozen
     DEF Next, Callers, OrderStep, SubmitOrder, WithdrawOrder, CloseOrder

\* An order that was sent keeps its request and its lines, whoever was waiting for its row
\* when it was sent.
THEOREM SentOrdersFrozen == Spec => SentOrderFrozen
<1>1. Typed /\ LockInv /\ [Next]_vars =>
        [\A o \in Orders : order[o].status \notin {"none", "draft"} =>
            /\ order'[o].source = order[o].source
            /\ order'[o].ordered = order[o].ordered
            /\ order'[o].edits = order[o].edits]_vars
  BY SentStep DEF Sent
<1>. QED
  BY TypedInit, TypedStep, LockInit, LockStep, <1>1, PTL DEF Spec, SentOrderFrozen

LEMMA CallStepFinal ==
  ASSUME Typed, LockInv, NEW c \in Callers, CallStep(c), NEW o \in Orders, Final(o)
  PROVE  order'[o] = order[o] /\ \A op \in Operations : used'[op][o] = used[op][o]
<1>1. ASSUME NEW p \in Orders, InsertOrder(c, p)
      PROVE  order'[o] = order[o] /\ \A op \in Operations : used'[op][o] = used[op][o]
  <2>1. p # o
    BY <1>1 DEF InsertOrder, Final
  <2>. QED
    BY <1>1, <2>1 DEF InsertOrder, Typed, TypeOK
<1>2. CASE UpdateDraftOrder(c)
  <2>1. call[c].order \in Orders \ {o}
    BY <1>2 DEF UpdateDraftOrder, EditHasLocks, LockInv, HoldsOrder, Holding, Final
  <2>. QED
    BY <1>2, <2>1 DEF UpdateDraftOrder, Typed, TypeOK
<1>3. CASE CancelOrder(c)
  <2>1. call[c].order \in Orders \ {o}
    BY <1>3 DEF CancelOrder, LockInv, HoldsOrder, Holding, Final, Cancellable
  <2>. QED
    BY <1>3, <2>1 DEF CancelOrder, Typed, TypeOK
<1>4. ASSUME NEW op \in {"confirm", "receive"}, RecordEvidence(c, op)
      PROVE  order'[o] = order[o] /\ \A p \in Operations : used'[p][o] = used[p][o]
  <2>1. call[c].order \in Orders \ {o}
    BY <1>4 DEF RecordEvidence, OpenForEvidence, Final, Typed, CallsOK, CallOK
  <2>2. order'[o] = order[o]
    BY <1>4, <2>1 DEF RecordEvidence, Typed, TypeOK
  <2>3. \A p \in Operations : used'[p][o] = used[p][o]
    BY <1>4, <2>1 DEF RecordEvidence, Typed, TypeOK
  <2>. QED
    BY <2>2, <2>3
<1>5. ASSUME NEW op \in {"confirm", "receive"}, AnswerEvidence(c, op)
      PROVE  order'[o] = order[o] /\ UNCHANGED used
  <2>. DEFINE status == ProgressOrderStatus(order[o].status, used["confirm"][o] # {},
                                            used["receive"][o] # {},
                                            order[o].ordered, order[o].received)
  <2>1. status = order[o].status
    BY DEF Final, ProgressOrderStatus, EvidenceProgressable
  <2>2. CASE call[c].order = o
    <3>1. order' = order \/ order' = [order EXCEPT ![o].status = order[o].status]
      BY <1>5, <2>1, <2>2 DEF AnswerEvidence
    <3>. QED
      BY <1>5, <3>1 DEF AnswerEvidence, Typed, TypeOK, Order
  <2>3. CASE call[c].order # o
    BY <1>5, <2>3 DEF AnswerEvidence, Typed, TypeOK, CallsOK, CallOK
  <2>. QED
    BY <2>2, <2>3
<1>. QED
  BY <1>1, <1>2, <1>3, <1>4, <1>5 DEF CallStep, CreateStep, UpdateStep, CancelStep, EvidenceStep,
     DeliveryStep, ReplayCreateOrder, RefuseCreateOrder, EditLockOrder, RecordEditIdempotencyKey,
     EditLockRequest, RefuseUpdateDraftOrder, CancelLockOrder, RefuseCancelOrder,
     WriteDeliveredLine, MarkDelivered, orderVars

LEMMA FinalStep ==
  ASSUME Typed, LockInv, Next, NEW o \in Orders, Final(o)
  PROVE  order'[o] = order[o] /\ \A op \in Operations : used'[op][o] = used[op][o]
<1>1. CASE RequestStep
  BY <1>1 DEF RequestStep, SubmitRequest, DecideRequest, WithdrawRequest, orderVars
<1>2. ASSUME NEW p \in Orders, NEW op \in Operations, NEW k, NEW status,
             Transition(p, op, k, status), p # o
      PROVE  order'[o] = order[o] /\ \A q \in Operations : used'[q][o] = used[q][o]
  BY <1>2 DEF Transition, Typed, TypeOK
<1>3. CASE OrderStep
  BY <1>2, <1>3 DEF OrderStep, SubmitOrder, WithdrawOrder, CloseOrder, Final, Operations
<1>4. ASSUME NEW c \in Callers, StartCall(c) \/ StartDelivery(c)
      PROVE  order'[o] = order[o] /\ UNCHANGED used
  BY <1>4, BeginKeeps
<1>5. ASSUME NEW c \in Callers, Abandon(c) PROVE order'[o] = order[o] /\ UNCHANGED used
  BY <1>5 DEF Abandon, orderVars
<1>. QED
  BY <1>1, <1>3, <1>4, <1>5, CallStepFinal DEF Next, Callers

\* A cancelled or closed order never changes again, nor the evidence and keys kept for it.
THEOREM FinalOrdersUnchanged == Spec => FinalOrderUnchanged
<1>1. Typed /\ LockInv /\ [Next]_vars =>
        [\A o \in Orders : order[o].status \in {"cancelled", "closed"} =>
            /\ order'[o] = order[o]
            /\ \A op \in Operations : used'[op][o] = used[op][o]]_vars
  BY FinalStep DEF Final
<1>. QED
  BY TypedInit, TypedStep, LockInit, LockStep, <1>1, PTL DEF Spec, FinalOrderUnchanged

-----------------------------------------------------------------------------
(***************************************************************************)
(* The stored status is the one the evidence supports.                     *)
(***************************************************************************)
Full(ordered, received) == \A l \in Lines : received[l] >= ordered[l]

\* What a status says of the evidence of its order.
Supported(status, confirmed, receipts, full) ==
    /\ status \in {"none", "draft", "submitted"} => ~confirmed /\ ~receipts
    /\ status = "confirmed" => confirmed /\ ~receipts
    /\ status = "partially_received" => receipts /\ ~full
    /\ status \in {"received", "closed"} => receipts /\ full

Confirmed(o) == used["confirm"][o] # {}

Receipts(o) == used["receive"][o] # {}

SupportedOrder(o) ==
    Supported(order[o].status, Confirmed(o), Receipts(o),
              Full(order[o].ordered, order[o].received))

LEMMA StatusSplit == StatusMatchesEvidence <=> \A o \in Orders : SupportedOrder(o)
<1>1. ASSUME NEW o \in Orders
      PROVE  SupportedOrder(o) <=>
        LET full == \A l \in Lines : order[o].received[l] >= order[o].ordered[l]
            received == used["receive"][o] # {}
        IN  CASE order[o].status \in {"none", "draft", "submitted"} -> ~HasEvidence(o)
              [] order[o].status = "confirmed" -> used["confirm"][o] # {} /\ ~received
              [] order[o].status = "partially_received" -> received /\ ~full
              [] order[o].status \in {"received", "closed"} -> received /\ full
              [] OTHER -> TRUE
  <2>1. CASE order[o].status \in {"none", "draft", "submitted"}
    BY <2>1 DEF SupportedOrder, Supported, Confirmed, Receipts, HasEvidence
  <2>2. CASE order[o].status = "confirmed"
    BY <2>2 DEF SupportedOrder, Supported, Confirmed, Receipts
  <2>3. CASE order[o].status = "partially_received"
    BY <2>3 DEF SupportedOrder, Supported, Full, Receipts
  <2>4. CASE order[o].status \in {"received", "closed"}
    BY <2>4 DEF SupportedOrder, Supported, Full, Receipts
  <2>5. CASE order[o].status \notin {"none", "draft", "submitted", "confirmed",
                                     "partially_received", "received", "closed"}
    BY <2>5 DEF SupportedOrder, Supported
  <2>. QED
    BY <2>1, <2>2, <2>3, <2>4, <2>5
<1>. QED
  BY <1>1 DEF StatusMatchesEvidence

\* Counting a confirmation, counting a receipt, and counting nothing new give a status that
\* the evidence supports; the last one gives the status the order has.
LEMMA ConfirmationSupported ==
  ASSUME NEW current \in OrderStatus \ {"none", "draft"}, NEW confirmed, NEW receipts \in BOOLEAN,
         NEW ordered, NEW received,
         Supported(current, confirmed, receipts, Full(ordered, received))
  PROVE  Supported(ProgressOrderStatus(current, TRUE, receipts, ordered, received),
                   TRUE, receipts, Full(ordered, received))
  BY DEF Supported, ProgressOrderStatus, EvidenceProgressable, Full, OrderStatus

LEMMA ReceiptSupported ==
  ASSUME NEW current \in OrderStatus \ {"none", "draft"}, NEW confirmed,
         NEW ordered, NEW received,
         current \in {"received", "closed"} => Full(ordered, received)
  PROVE  Supported(ProgressOrderStatus(current, confirmed, TRUE, ordered, received),
                   confirmed, TRUE, Full(ordered, received))
  BY DEF Supported, ProgressOrderStatus, EvidenceProgressable, Full, OrderStatus

LEMMA ReplaySupported ==
  ASSUME NEW current \in OrderStatus, NEW confirmed \in BOOLEAN, NEW receipts \in BOOLEAN,
         NEW ordered, NEW received,
         Supported(current, confirmed, receipts, Full(ordered, received))
  PROVE  ProgressOrderStatus(current, confirmed, receipts, ordered, received) = current
  BY DEF Supported, ProgressOrderStatus, EvidenceProgressable, Full, OrderStatus

LEMMA RecordSupported ==
  ASSUME Typed, StatusMatchesEvidence, NEW c \in Callers, NEW op \in {"confirm", "receive"},
         RecordEvidence(c, op), NEW o, o = call[c].order
  PROVE  SupportedOrder(o)'
<1>. DEFINE total == [l \in Lines |-> order[o].received[l] + call[c].qty[l]]
            received == IF op = "receive" THEN total ELSE order[o].received
            status == ProgressOrderStatus(order[o].status,
                                          op = "confirm" \/ used["confirm"][o] # {},
                                          op = "receive" \/ used["receive"][o] # {},
                                          order[o].ordered, received)
<1>1. /\ o \in Orders /\ order[o] \in Order /\ call[c].pc = op
      /\ order[o].status \in OrderStatus \ {"none", "draft", "cancelled", "closed"}
  BY DEF RecordEvidence, OpenForEvidence, Typed, TypeOK, CallsOK, CallOK, Order
<1>2. SupportedOrder(o)
  BY <1>1, StatusSplit
<1>3. /\ order'[o].status = status /\ order'[o].received = received
      /\ order'[o].ordered = order[o].ordered
  <2>1. order' = [order EXCEPT ![o].status = status, ![o].received = received]
    BY DEF RecordEvidence
  <2>. HIDE DEF status, received
  <2>. QED
    BY <1>1, <2>1 DEF Typed, TypeOK, Order
<1>4. used'[op][o] # {} /\ \A p \in Operations \ {op} : used'[p][o] = used[p][o]
  BY <1>1 DEF RecordEvidence, Typed, TypeOK, Operations
<1>5. CASE op = "confirm"
  <2>1. Confirmed(o)' = TRUE /\ Receipts(o)' = Receipts(o) /\ received = order[o].received
    BY <1>1, <1>4, <1>5 DEF Confirmed, Receipts, Operations
  <2>2. status = ProgressOrderStatus(order[o].status, TRUE, Receipts(o), order[o].ordered, received)
    BY <1>5 DEF Receipts
  <2>3. Supported(status, TRUE, Receipts(o), Full(order[o].ordered, received))
    BY <1>1, <1>2, <2>1, <2>2, ConfirmationSupported DEF SupportedOrder, Receipts
  <2>. HIDE DEF status, received
  <2>. QED
    BY <1>3, <2>1, <2>3 DEF SupportedOrder
<1>6. CASE op = "receive"
  <2>1. Receipts(o)' = TRUE /\ Confirmed(o)' = Confirmed(o) /\ received = total
    BY <1>1, <1>4, <1>6 DEF Confirmed, Receipts, Operations
  <2>2. status = ProgressOrderStatus(order[o].status, Confirmed(o), TRUE, order[o].ordered, received)
    BY <1>6 DEF Confirmed
  <2>3. order[o].status \in {"received", "closed"} => Full(order[o].ordered, received)
    <3>. SUFFICES ASSUME Full(order[o].ordered, order[o].received), NEW l \in Lines
                  PROVE  total[l] >= order[o].ordered[l]
      BY <1>2, <2>1 DEF SupportedOrder, Supported, Full
    <3>1. order[o].received[l] \in Nat /\ order[o].ordered[l] \in Nat
      BY <1>1 DEF Order
    <3>2. call[c].qty[l] \in Nat
      BY <1>1, <1>6 DEF Typed, CallsOK, CallOK
    <3>. QED
      BY <3>1, <3>2 DEF Full
  <2>4. Supported(status, Confirmed(o), TRUE, Full(order[o].ordered, received))
    BY <1>1, <2>2, <2>3, ReceiptSupported
  <2>. HIDE DEF status, received
  <2>. QED
    BY <1>3, <2>1, <2>4 DEF SupportedOrder
<1>. QED
  BY <1>5, <1>6

\* A replay or a refusal leaves the status as it was.
LEMMA AnswerSupported ==
  ASSUME Typed, StatusMatchesEvidence, NEW c \in Callers, NEW op \in {"confirm", "receive"},
         AnswerEvidence(c, op), NEW o, o = call[c].order
  PROVE  SupportedOrder(o)'
<1>. DEFINE status == ProgressOrderStatus(order[o].status, used["confirm"][o] # {},
                                          used["receive"][o] # {},
                                          order[o].ordered, order[o].received)
<1>1. o \in Orders /\ order[o] \in Order /\ order[o].status \in OrderStatus
  BY DEF AnswerEvidence, Typed, TypeOK, CallsOK, CallOK, Order
<1>2. SupportedOrder(o)
  BY <1>1, StatusSplit
<1>3. status = order[o].status
  <2>1. /\ Confirmed(o) \in BOOLEAN /\ Receipts(o) \in BOOLEAN
        /\ Supported(order[o].status, Confirmed(o), Receipts(o),
                     Full(order[o].ordered, order[o].received))
    BY <1>2 DEF SupportedOrder, Confirmed, Receipts
  <2>2. ProgressOrderStatus(order[o].status, Confirmed(o), Receipts(o),
                            order[o].ordered, order[o].received) = order[o].status
    BY <1>1, <2>1, ReplaySupported
  <2>. QED
    BY <2>2 DEF Confirmed, Receipts
<1>4. order' = order \/ order' = [order EXCEPT ![o].status = order[o].status]
  BY <1>3 DEF AnswerEvidence
<1>5. /\ order'[o].status = order[o].status /\ order'[o].ordered = order[o].ordered
      /\ order'[o].received = order[o].received /\ UNCHANGED used
  BY <1>1, <1>4 DEF AnswerEvidence, Typed, TypeOK, Order
<1>. QED
  BY <1>2, <1>5 DEF SupportedOrder, Confirmed, Receipts

\* A row whose status and quantities and whose evidence stay is as supported as before.
LEMMA SameSupported ==
  ASSUME NEW o \in Orders, SupportedOrder(o),
         order'[o].status = order[o].status, order'[o].ordered = order[o].ordered,
         order'[o].received = order[o].received,
         used'["confirm"][o] = used["confirm"][o], used'["receive"][o] = used["receive"][o]
  PROVE  SupportedOrder(o)'
  BY DEF SupportedOrder, Confirmed, Receipts

LEMMA CallStepSupported ==
  ASSUME Typed, LockInv, StatusMatchesEvidence, NEW c \in Callers, CallStep(c), NEW o \in Orders
  PROVE  SupportedOrder(o)'
<1>. SupportedOrder(o)
  BY StatusSplit
<1>1. ASSUME NEW p \in Orders, InsertOrder(c, p) PROVE SupportedOrder(o)'
  <2>1. used'["confirm"][o] = used["confirm"][o] /\ used'["receive"][o] = used["receive"][o]
    BY <1>1 DEF InsertOrder, Typed, TypeOK, Operations
  <2>2. CASE p = o
    <3>1. order[o].status = "none" /\ order'[o].status = "draft"
      BY <1>1, <2>2 DEF InsertOrder, Typed, TypeOK, NoOrder
    <3>. QED
      BY <2>1, <3>1 DEF SupportedOrder, Supported, Confirmed, Receipts
  <2>3. CASE p # o
    <3>1. order'[o] = order[o]
      BY <1>1, <2>3 DEF InsertOrder, Typed, TypeOK
    <3>. QED
      BY <2>1, <3>1, SameSupported
  <2>. QED
    BY <2>2, <2>3
<1>2. CASE UpdateDraftOrder(c)
  <2>1. used'["confirm"][o] = used["confirm"][o] /\ used'["receive"][o] = used["receive"][o]
    BY <1>2 DEF UpdateDraftOrder, Typed, TypeOK, Operations
  <2>2. call[c].order \in Orders /\ order[call[c].order].status = "draft"
    BY <1>2 DEF UpdateDraftOrder, EditHasLocks, LockInv, HoldsOrder, Holding
  <2>3. CASE call[c].order = o
    <3>1. order'[o].status = "draft"
      BY <1>2, <2>2, <2>3 DEF UpdateDraftOrder, Typed, TypeOK, Order
    <3>. QED
      BY <2>1, <2>2, <2>3, <3>1 DEF SupportedOrder, Supported, Confirmed, Receipts
  <2>4. CASE call[c].order # o
    <3>1. order'[o] = order[o]
      BY <1>2, <2>2, <2>4 DEF UpdateDraftOrder, Typed, TypeOK
    <3>. QED
      BY <2>1, <3>1, SameSupported
  <2>. QED
    BY <2>3, <2>4
<1>3. CASE CancelOrder(c)
  <2>1. used'["confirm"][o] = used["confirm"][o] /\ used'["receive"][o] = used["receive"][o]
    BY <1>3 DEF CancelOrder, Typed, TypeOK, Operations
  <2>2. order'[o] = order[o] \/ order'[o].status = "cancelled"
    BY <1>3 DEF CancelOrder, Typed, TypeOK, CallsOK, CallOK, Order
  <2>. QED
    BY <2>1, <2>2, SameSupported DEF SupportedOrder, Supported
<1>4. ASSUME NEW op \in {"confirm", "receive"}, RecordEvidence(c, op) \/ AnswerEvidence(c, op)
      PROVE  SupportedOrder(o)'
  <2>1. CASE call[c].order = o
    BY <1>4, <2>1, RecordSupported, AnswerSupported
  <2>2. CASE call[c].order # o
    <3>1. order'[o] = order[o]
      BY <1>4, <2>2, EvidenceWrites DEF EvidenceStep
    <3>2. used'["confirm"][o] = used["confirm"][o] /\ used'["receive"][o] = used["receive"][o]
      BY <1>4, <2>2 DEF RecordEvidence, AnswerEvidence, Typed, TypeOK, CallsOK, CallOK, Operations
    <3>. QED
      BY <3>1, <3>2, SameSupported
  <2>. QED
    BY <2>1, <2>2
<1>5. CASE UNCHANGED orderVars
  BY <1>5, SameSupported DEF orderVars
<1>. QED
  BY <1>1, <1>2, <1>3, <1>4, <1>5 DEF CallStep, CreateStep, UpdateStep, CancelStep, EvidenceStep,
     DeliveryStep, ReplayCreateOrder, RefuseCreateOrder, EditLockOrder, RecordEditIdempotencyKey,
     EditLockRequest, RefuseUpdateDraftOrder, CancelLockOrder, RefuseCancelOrder,
     WriteDeliveredLine, MarkDelivered

LEMMA TransitionSupported ==
  ASSUME Typed, StatusMatchesEvidence, OrderStep, NEW o \in Orders
  PROVE  SupportedOrder(o)'
<1>. SupportedOrder(o)
  BY StatusSplit
<1>1. ASSUME NEW p \in Orders, NEW op \in {"submit", "withdraw", "close"}, NEW k, NEW status,
             Transition(p, op, k, status),
             \/ order[p].status = "draft" /\ status = "submitted"
             \/ order[p].status = "submitted" /\ status = "draft"
             \/ order[p].status = "received" /\ status = "closed"
      PROVE  SupportedOrder(o)'
  <2>1. used'["confirm"][o] = used["confirm"][o] /\ used'["receive"][o] = used["receive"][o]
    BY <1>1 DEF Transition, Typed, TypeOK, Operations
  <2>2. /\ order'[o].ordered = order[o].ordered /\ order'[o].received = order[o].received
        /\ order'[o].status = IF o = p THEN status ELSE order[o].status
    BY <1>1 DEF Transition, Typed, TypeOK, Order
  <2>. QED
    BY <1>1, <2>1, <2>2 DEF SupportedOrder, Supported, Confirmed, Receipts
<1>. QED
  BY <1>1 DEF OrderStep, SubmitOrder, WithdrawOrder, CloseOrder

LEMMA StatusStep == Typed /\ LockInv /\ StatusMatchesEvidence /\ [Next]_vars => StatusMatchesEvidence'
<1>. SUFFICES ASSUME Typed, LockInv, StatusMatchesEvidence, [Next]_vars, NEW o \in Orders
              PROVE  SupportedOrder(o)'
  <2>1. (StatusMatchesEvidence <=> \A o \in Orders : SupportedOrder(o))'
    BY StatusSplit, PTL
  <2>. QED
    BY <2>1
<1>. SupportedOrder(o)
  BY StatusSplit
<1>1. CASE UNCHANGED orderVars
  BY <1>1, SameSupported DEF orderVars
<1>2. ASSUME NEW c \in Callers, StartCall(c) \/ StartDelivery(c) PROVE UNCHANGED orderVars
  BY <1>2, BeginKeeps DEF orderVars
<1>. QED
  BY <1>1, <1>2, CallStepSupported, TransitionSupported
     DEF Next, Callers, RequestStep, SubmitRequest, DecideRequest, WithdrawRequest, Abandon,
         vars, orderVars

LEMMA StatusInit == Init => StatusMatchesEvidence
  BY DEF Init, StatusMatchesEvidence, HasEvidence, NoOrder, Operations

\* The stored status of every order is the one its confirmations and receipts support,
\* in whatever order they, edits, withdrawals and late retries arrive.
THEOREM StatusIsSupported == Spec => []StatusMatchesEvidence
  BY TypedInit, TypedStep, LockInit, LockStep, StatusInit, StatusStep, PTL DEF Spec

-----------------------------------------------------------------------------
(***************************************************************************)
(* Every status the service writes over a stored one passes the lifecycle  *)
(* trigger of the database.                                                *)
(***************************************************************************)
FollowsGuard(o) ==
    order[o].status \notin {"none", order'[o].status} =>
        /\ LifecycleAllows(order[o].status, order'[o].status)
        /\ order'[o].status = "draft" => ~HasEvidence(o)

LEMMA EvidenceFollows ==
  ASSUME Typed, StatusMatchesEvidence, NEW c \in Callers, EvidenceStep(c), NEW o \in Orders
  PROVE  FollowsGuard(o)
<1>. order[o] \in Order
  BY DEF Typed, TypeOK
<1>1. CASE call[c].order # o
  BY <1>1, EvidenceWrites DEF FollowsGuard
<1>2. ASSUME NEW op \in {"confirm", "receive"}, AnswerEvidence(c, op), call[c].order = o
      PROVE  FollowsGuard(o)
  <2>1. ProgressOrderStatus(order[o].status, Confirmed(o), Receipts(o),
                            order[o].ordered, order[o].received) = order[o].status
    <3>1. /\ Confirmed(o) \in BOOLEAN /\ Receipts(o) \in BOOLEAN /\ order[o].status \in OrderStatus
          /\ Supported(order[o].status, Confirmed(o), Receipts(o),
                       Full(order[o].ordered, order[o].received))
      BY StatusSplit DEF SupportedOrder, Confirmed, Receipts, Order
    <3>. QED
      BY <3>1, ReplaySupported
  <2>2. order' = order \/ order' = [order EXCEPT ![o].status = order[o].status]
    BY <1>2, <2>1 DEF AnswerEvidence, Confirmed, Receipts
  <2>3. order'[o].status = order[o].status
    BY <2>2 DEF Typed, TypeOK, Order
  <2>. QED
    BY <2>3 DEF FollowsGuard
<1>3. ASSUME NEW op \in {"confirm", "receive"}, RecordEvidence(c, op), call[c].order = o
      PROVE  FollowsGuard(o)
  <2>. DEFINE received == IF op = "receive"
                          THEN [l \in Lines |-> order[o].received[l] + call[c].qty[l]]
                          ELSE order[o].received
              receipts == op = "receive" \/ used["receive"][o] # {}
              status == ProgressOrderStatus(order[o].status,
                                            op = "confirm" \/ used["confirm"][o] # {},
                                            receipts, order[o].ordered, received)
  <2>1. order[o].status \in OrderStatus \ {"none", "draft", "cancelled", "closed"}
    BY <1>3 DEF RecordEvidence, OpenForEvidence, Order
  <2>2. order[o].status = "partially_received" => receipts
    BY StatusSplit DEF SupportedOrder, Supported, Receipts
  <2>3. order'[o].status = status
    <3>1. order' = [order EXCEPT ![o].status = status, ![o].received = received]
      BY <1>3 DEF RecordEvidence
    <3>. HIDE DEF status, received
    <3>. QED
      BY <3>1 DEF Typed, TypeOK, Order
  <2>4. status # order[o].status => LifecycleAllows(order[o].status, status) /\ status # "draft"
    <3>. HIDE DEF received, receipts
    <3>. QED
      BY <2>1, <2>2 DEF ProgressOrderStatus, EvidenceProgressable, LifecycleAllows, OrderStatus
  <2>. HIDE DEF status
  <2>. QED
    BY <2>3, <2>4 DEF FollowsGuard
<1>. QED
  BY <1>1, <1>2, <1>3 DEF EvidenceStep

LEMMA CallStepFollows ==
  ASSUME Typed, LockInv, StatusMatchesEvidence, NEW c \in Callers, CallStep(c), NEW o \in Orders
  PROVE  FollowsGuard(o)
<1>1. ASSUME NEW p \in Orders, InsertOrder(c, p) PROVE FollowsGuard(o)
  <2>1. order[p].status = "none" /\ \A q \in Orders \ {p} : order'[q] = order[q]
    BY <1>1 DEF InsertOrder, Typed, TypeOK
  <2>. QED
    BY <2>1 DEF FollowsGuard
<1>2. CASE UpdateDraftOrder(c)
  <2>1. order'[o].status = order[o].status
    BY <1>2 DEF UpdateDraftOrder, Typed, TypeOK, Order
  <2>. QED
    BY <2>1 DEF FollowsGuard
<1>3. CASE CancelOrder(c)
  <2>1. call[c].order \in Orders /\ order[call[c].order].status \in Cancellable
    BY <1>3 DEF CancelOrder, LockInv, HoldsOrder, Holding
  <2>2. order'[o].status = order[o].status \/ (call[c].order = o /\ order'[o].status = "cancelled")
    BY <1>3, <2>1 DEF CancelOrder, Typed, TypeOK, Order
  <2>. QED
    BY <2>1, <2>2 DEF FollowsGuard, Cancellable, LifecycleAllows
<1>4. CASE order' = order
  BY <1>4 DEF FollowsGuard
<1>. QED
  BY <1>1, <1>2, <1>3, <1>4, EvidenceFollows DEF CallStep, CreateStep, UpdateStep, CancelStep,
     DeliveryStep, ReplayCreateOrder, RefuseCreateOrder, EditLockOrder, RecordEditIdempotencyKey,
     EditLockRequest, RefuseUpdateDraftOrder, CancelLockOrder, RefuseCancelOrder,
     WriteDeliveredLine, MarkDelivered, orderVars

LEMMA TransitionFollows ==
  ASSUME Typed, OrderStep, NEW o \in Orders
  PROVE  FollowsGuard(o)
<1>1. ASSUME NEW p \in Orders, NEW op, NEW k, NEW status, Transition(p, op, k, status),
             LifecycleAllows(order[p].status, status), status = "draft" => ~HasEvidence(p)
      PROVE  FollowsGuard(o)
  <2>1. order'[p].status = status /\ \A q \in Orders \ {p} : order'[q] = order[q]
    BY <1>1 DEF Transition, Typed, TypeOK, Order
  <2>2. FollowsGuard(p)
    BY <1>1, <2>1 DEF FollowsGuard
  <2>3. CASE o # p
    BY <2>1, <2>3 DEF FollowsGuard
  <2>. QED
    BY <2>2, <2>3
<1>. QED
  BY <1>1 DEF OrderStep, SubmitOrder, WithdrawOrder, CloseOrder, LifecycleAllows

LEMMA GuardStep ==
  ASSUME Typed, LockInv, StatusMatchesEvidence, [Next]_vars, NEW o \in Orders
  PROVE  FollowsGuard(o)
<1>1. CASE order' = order
  BY <1>1 DEF FollowsGuard
<1>2. ASSUME NEW c \in Callers, StartCall(c) \/ StartDelivery(c) PROVE order' = order
  BY <1>2, BeginKeeps
<1>. QED
  BY <1>1, <1>2, CallStepFollows, TransitionFollows
     DEF Next, Callers, RequestStep, SubmitRequest, DecideRequest, WithdrawRequest, Abandon,
         vars, orderVars

\* The service implements the lifecycle its database enforces: no status it writes, in any
\* interleaving, is one purchase_order_lifecycle_guard raises an exception for.
THEOREM LifecycleHolds == Spec => LifecycleGuardNeverTrips
<1>1. Typed /\ LockInv /\ StatusMatchesEvidence /\ [Next]_vars =>
        [\A o \in Orders :
            order[o].status \notin {"none", order'[o].status} =>
                /\ LifecycleAllows(order[o].status, order'[o].status)
                /\ order'[o].status = "draft" => ~HasEvidence(o)]_vars
  BY GuardStep DEF FollowsGuard
<1>. QED
  BY TypedInit, TypedStep, LockInit, LockStep, StatusInit, StatusStep, <1>1, PTL
     DEF Spec, LifecycleGuardNeverTrips

-----------------------------------------------------------------------------
(***************************************************************************)
(* A key stands for one call.  The create, the confirmations and receipts  *)
(* look their key up among all orders when they write, the other           *)
(* operations among the orders but their own; an edit did so when it       *)
(* recorded the key, and no other edit with that key passes meanwhile.     *)
(***************************************************************************)
EditKeyInv ==
    /\ \A c \in Callers : call[c].pc = "edit_requests" => ~KeyUsed("edit", call[c].key)
    /\ \A c, d \in Callers : call[c].pc = "edit_requests" /\ call[d].pc = "edit_requests"
                             /\ call[c].key = call[d].key => c = d

KeyInv == KeyNamesOneOrder /\ EditKeyInv

LEMMA KeyInit == Init => KeyInv
  BY DEF Init, KeyInv, KeyNamesOneOrder, EditKeyInv, Idle

\* Storing a key that no other order has for the operation, over or beside the old ones.
LEMMA StoredKeys ==
  ASSUME Typed, KeyNamesOneOrder, NEW op \in Operations, NEW o \in Orders, NEW k, NEW ks,
         ~KeyUsedElsewhere(op, k, o), ks \subseteq used[op][o] \cup {k},
         used' = [used EXCEPT ![op][o] = ks]
  PROVE  KeyNamesOneOrder'
<1>1. ASSUME NEW op2 \in Operations, NEW p \in Orders
      PROVE  used'[op2][p] = IF op2 = op /\ p = o THEN ks ELSE used[op2][p]
  BY DEF Typed, TypeOK
<1>. QED
  BY <1>1 DEF KeyNamesOneOrder, KeyUsedElsewhere

LEMMA KeyInvBegin ==
  ASSUME KeyInv, NEW c \in Callers, used' = used,
         call'[c].pc # "edit_requests" \/ call'[c] = call[c],
         \A d \in Callers \ {c} : call'[d] = call[d]
  PROVE  KeyInv'
  BY DEF KeyInv, KeyNamesOneOrder, EditKeyInv, KeyUsed

\* A step that ends a call of another operation, or refuses one.
LEMMA KeyInvReturn ==
  ASSUME Typed, KeyInv, NEW c \in Callers, Return(c), KeyNamesOneOrder',
         used'["edit"] = used["edit"]
  PROVE  KeyInv'
<1>1. call'[c].pc = "idle" /\ \A d \in Callers \ {c} : call'[d] = call[d]
  BY DEF Return, Typed, TypeOK, Idle
<1>. QED
  BY <1>1 DEF KeyInv, EditKeyInv, KeyUsed

LEMMA OtherStores ==
  ASSUME Typed, NEW op \in Operations \ {"edit"}, NEW o, NEW ks,
         used' = [used EXCEPT ![op][o] = ks]
  PROVE  used'["edit"] = used["edit"]
  BY DEF Typed, TypeOK, Operations

LEMMA KeyCallStep ==
  ASSUME Typed, LockInv, KeyInv, NEW c \in Callers, CallStep(c)
  PROVE  KeyInv'
<1>. KeyNamesOneOrder /\ EditKeyInv
  BY DEF KeyInv
<1>1. CASE UNCHANGED orderVars /\ Return(c)
  BY <1>1, KeyInvReturn DEF orderVars, KeyNamesOneOrder
<1>2. ASSUME NEW next, LockOrder(c, next), next # "edit_requests", UNCHANGED orderVars PROVE KeyInv'
  <2>1. call'[c].pc # "edit_requests" /\ \A d \in Callers \ {c} : call'[d] = call[d]
    BY <1>2 DEF LockOrder, Typed, TypeOK, Call
  <2>. QED
    BY <1>2, <2>1, KeyInvBegin DEF orderVars
<1>3. ASSUME NEW o \in Orders, InsertOrder(c, o) PROVE KeyInv'
  <2>1. /\ used' = [used EXCEPT !["create"][o] = {call[c].key}] /\ Return(c)
        /\ ~KeyUsedElsewhere("create", call[c].key, o)
    BY <1>3 DEF InsertOrder, KeyUsed, KeyUsedElsewhere
  <2>2. KeyNamesOneOrder' /\ used'["edit"] = used["edit"]
    BY <2>1, StoredKeys, OtherStores DEF Operations
  <2>. QED
    BY <2>1, <2>2, KeyInvReturn
<1>4. CASE RecordEditIdempotencyKey(c) /\ ~Return(c)
  <2>1. /\ ~KeyUsed("edit", call[c].key) /\ ~KeyInFlight(c) /\ used' = used
        /\ call' = [call EXCEPT ![c].pc = "edit_requests"]
    BY <1>4 DEF RecordEditIdempotencyKey, orderVars
  <2>2. /\ call'[c].pc = "edit_requests" /\ call'[c].key = call[c].key
        /\ \A d \in Callers \ {c} : call'[d] = call[d]
    BY <2>1 DEF Typed, TypeOK, Call
  <2>. QED
    BY <2>1, <2>2 DEF KeyInv, KeyNamesOneOrder, EditKeyInv, KeyUsed, KeyInFlight
<1>5. ASSUME NEW r \in Requests, EditLockRequest(c, r) PROVE KeyInv'
  BY <1>5 DEF EditLockRequest, orderVars, KeyInv, KeyNamesOneOrder, EditKeyInv, KeyUsed
<1>6. CASE UpdateDraftOrder(c)
  <2>. DEFINE o == call[c].order
              k == call[c].key
  <2>1. /\ o \in Orders /\ call[c].pc = "edit_requests" /\ ~KeyUsed("edit", k) /\ Return(c)
        /\ used' = [used EXCEPT !["edit"][o] = @ \cup {k}]
    BY <1>6 DEF UpdateDraftOrder, EditHasLocks, EditKeyInv, LockInv, HoldsOrder, Holding
  <2>2. used' = [used EXCEPT !["edit"][o] = used["edit"][o] \cup {k}]
    BY <2>1
  <2>3. KeyNamesOneOrder'
    <3>1. ~KeyUsedElsewhere("edit", k, o)
      BY <2>1 DEF KeyUsed, KeyUsedElsewhere
    <3>. QED
      BY <2>1, <2>2, <3>1, StoredKeys DEF Operations
  <2>4. \A p \in Orders : used'["edit"][p] \subseteq used["edit"][p] \cup {k}
    BY <2>1, <2>2 DEF Typed, TypeOK, Operations
  <2>5. call'[c].pc = "idle" /\ \A d \in Callers \ {c} : call'[d] = call[d]
    BY <2>1 DEF Return, Typed, TypeOK, Idle
  <2>6. \A d \in Callers \ {c} : call[d].pc = "edit_requests" => call[d].key # k
    BY <2>1 DEF EditKeyInv
  <2>. QED
    BY <2>3, <2>4, <2>5, <2>6 DEF KeyInv, EditKeyInv, KeyUsed
<1>7. CASE CancelOrder(c)
  <2>1. /\ used' = [used EXCEPT !["cancel"][call[c].order] = {call[c].key}] /\ Return(c)
        /\ call[c].order \in Orders /\ ~KeyUsedElsewhere("cancel", call[c].key, call[c].order)
    BY <1>7 DEF CancelOrder, LockInv, HoldsOrder, Holding
  <2>2. KeyNamesOneOrder' /\ used'["edit"] = used["edit"]
    BY <2>1, StoredKeys, OtherStores DEF Operations
  <2>. QED
    BY <2>1, <2>2, KeyInvReturn
<1>8. ASSUME NEW op \in {"confirm", "receive"}, RecordEvidence(c, op) PROVE KeyInv'
  <2>. DEFINE o == call[c].order
              k == call[c].key
  <2>1. /\ Return(c) /\ o \in Orders /\ ~KeyUsed(op, k)
        /\ used' = [used EXCEPT ![op][o] = @ \cup {k}]
    BY <1>8 DEF RecordEvidence, Typed, CallsOK, CallOK
  <2>2. used' = [used EXCEPT ![op][o] = used[op][o] \cup {k}] /\ ~KeyUsedElsewhere(op, k, o)
    BY <2>1 DEF KeyUsed, KeyUsedElsewhere
  <2>3. KeyNamesOneOrder' /\ used'["edit"] = used["edit"]
    BY <2>1, <2>2, StoredKeys, OtherStores DEF Operations
  <2>. QED
    BY <2>1, <2>3, KeyInvReturn
<1>9. ASSUME NEW op \in {"confirm", "receive"}, AnswerEvidence(c, op) PROVE KeyInv'
  BY <1>9, KeyInvReturn DEF AnswerEvidence, KeyNamesOneOrder
<1>10. ASSUME NEW l \in Lines, WriteDeliveredLine(c, l) PROVE KeyInv'
  <2>1. used' = used /\ call[c].pc = "deliver" /\ call' = [call EXCEPT ![c].pending = @ \ {l}]
    BY <1>10 DEF WriteDeliveredLine, orderVars
  <2>2. call'[c].pc = "deliver" /\ \A d \in Callers \ {c} : call'[d] = call[d]
    BY <2>1 DEF Typed, TypeOK, Call
  <2>. QED
    BY <2>1, <2>2, KeyInvBegin
<1>11. CASE CreateStep(c)
  BY <1>1, <1>3, <1>11 DEF CreateStep, ReplayCreateOrder, RefuseCreateOrder
<1>12. CASE UpdateStep(c)
  BY <1>1, <1>2, <1>4, <1>5, <1>6, <1>12 DEF UpdateStep, EditLockOrder,
     RecordEditIdempotencyKey, RefuseUpdateDraftOrder
<1>13. CASE CancelStep(c)
  BY <1>1, <1>2, <1>7, <1>13 DEF CancelStep, CancelLockOrder, RefuseCancelOrder
<1>14. CASE DeliveryStep(c)
  BY <1>1, <1>10, <1>14 DEF DeliveryStep, MarkDelivered
<1>. QED
  BY <1>8, <1>9, <1>11, <1>12, <1>13, <1>14 DEF CallStep, EvidenceStep

LEMMA KeyStep == Typed /\ LockInv /\ KeyInv /\ [Next]_vars => KeyInv'
<1>. SUFFICES ASSUME Typed, LockInv, KeyInv, [Next]_vars PROVE KeyInv'
  OBVIOUS
<1>1. CASE UNCHANGED <<used, call>>
  BY <1>1 DEF KeyInv, KeyNamesOneOrder, EditKeyInv, KeyUsed
<1>2. ASSUME NEW o \in Orders, NEW op \in {"submit", "withdraw", "close"}, NEW k, NEW status,
             Transition(o, op, k, status)
      PROVE  KeyInv'
  <2>1. KeyNamesOneOrder' /\ used'["edit"] = used["edit"] /\ call' = call
    BY <1>2, StoredKeys, OtherStores DEF Transition, Operations, KeyInv
  <2>. QED
    BY <2>1 DEF KeyInv, EditKeyInv, KeyUsed
<1>3. ASSUME NEW c \in Callers, StartCall(c) \/ StartDelivery(c) PROVE KeyInv'
  BY <1>3, BeginKeeps, KeyInvBegin DEF Holding
<1>4. ASSUME NEW c \in Callers, Abandon(c) PROVE KeyInv'
  BY <1>4, KeyInvReturn DEF Abandon, orderVars, KeyInv, KeyNamesOneOrder
<1>. QED
  BY <1>1, <1>2, <1>3, <1>4, KeyCallStep
     DEF Next, Callers, RequestStep, SubmitRequest, DecideRequest, WithdrawRequest, OrderStep,
         SubmitOrder, WithdrawOrder, CloseOrder, vars, orderVars

\* No operation stores one key for two orders, however many calls carry it at once.
THEOREM KeysNameOneOrder == Spec => []KeyNamesOneOrder
<1>1. KeyInv => KeyNamesOneOrder
  BY DEF KeyInv
<1>. QED
  BY TypedInit, TypedStep, LockInit, LockStep, KeyInit, KeyStep, <1>1, PTL DEF Spec

-----------------------------------------------------------------------------
(***************************************************************************)
(* Nothing is reserved twice.  What the orders of a request draw grows     *)
(* only when a create or an edit brings a new quantity, and that quantity  *)
(* fits beside what all the other orders reserve, which is at least what   *)
(* they draw.  The orders that exist are finitely many, so sums over them  *)
(* are what they should be.                                                *)
(***************************************************************************)
Drawing(r) == {o \in Orders : order[o].source = r}

Created == {o \in Orders : order[o].status # "none"}

AllocationInv ==
    /\ NoOverAllocation
    /\ IsFiniteSet(Created)
    /\ \A o \in Orders : order[o].status = "none" => order[o].source = None

LEMMA DrawnType == Typed => \A l \in Lines : Drawn(l) \in [Orders -> Nat]
  BY DEF Typed, TypeOK, Order, Drawn

LEMMA DrawingFinite ==
  ASSUME AllocationInv, NEW r \in Requests
  PROVE  IsFiniteSet(Drawing(r)) /\ Drawing(r) \subseteq Created
<1>1. Drawing(r) \subseteq Created
  BY RequestsAssumption DEF AllocationInv, Drawing, Created
<1>. QED
  BY <1>1, FS_Subset DEF AllocationInv

\* A request none of whose orders is new or draws more.
LEMMA DrawsNoMore ==
  ASSUME Typed, Typed', AllocationInv, NEW r \in Requests, NEW l \in Lines,
         \A o \in Drawing(r)' : o \in Drawing(r) /\ Drawn(l)'[o] <= Drawn(l)[o]
  PROVE  CommittedWithin(r, l)'
<1>. DEFINE f == Drawn(l)
            g == Drawn(l)'
            S == Drawing(r)
            T == Drawing(r)'
<1>1. f \in [Orders -> Nat] /\ g \in [Orders -> Nat]
  <2>1. Drawn(l)' \in [Orders -> Nat]
    BY DEF Typed, TypeOK, Order, Drawn
  <2>. QED
    BY <2>1, DrawnType
<1>2. T \in SUBSET S /\ S \in SUBSET Orders /\ IsFiniteSet(S) /\ IsFiniteSet(T)
  <2>1. T \in SUBSET S /\ S \in SUBSET Orders /\ IsFiniteSet(S)
    BY DrawingFinite DEF Drawing
  <2>. QED
    BY <2>1, FS_Subset
<1>3. SumFunctionOnSet(f, S) <= Requested[r][l]
  BY DEF AllocationInv, NoOverAllocation, CommittedWithin, Drawing
<1>4. \A x \in T : g[x] <= f[x]
  OBVIOUS
<1>. HIDE DEF f, g, S, T
<1>5. SumFunctionOnSet(g, T) <= SumFunctionOnSet(f, T)
  BY <1>1, <1>2, <1>4, SumBound
<1>6. SumFunctionOnSet(f, T) <= SumFunctionOnSet(f, S)
  BY <1>1, <1>2, SumOfPart
<1>7. /\ SumFunctionOnSet(g, T) \in Nat /\ SumFunctionOnSet(f, T) \in Nat
      /\ SumFunctionOnSet(f, S) \in Nat
  BY <1>1, <1>2, SumType
<1>8. Requested[r][l] \in Nat
  BY QuantityAssumption
<1>9. SumFunctionOnSet(g, T) <= Requested[r][l]
  BY <1>3, <1>5, <1>6, <1>7, <1>8
<1>. QED
  BY <1>9 DEF g, T, CommittedWithin, Drawing

\* A request that one order comes to draw on, with a quantity that fits beside the others.
LEMMA DrawsOneMore ==
  ASSUME Typed, Typed', AllocationInv, NEW r \in Requests, NEW l \in Lines, NEW o \in Orders,
         NEW others \in {Orders, Orders \ {o}},
         o \in Drawing(r)', others = Orders => o \notin Drawing(r),
         \A p \in Orders \ {o} : order'[p] = order[p],
         Drawn(l)'[o] > 0 => Drawn(l)'[o] <= Requested[r][l] - Allocated(r, l, others)
  PROVE  CommittedWithin(r, l)'
<1>. DEFINE f == Drawn(l)
            g == Drawn(l)'
            h == [p \in Orders |-> Reserved(order[p], l)]
            S == Drawing(r) \ {o}
            T == Drawing(r)'
<1>1. f \in [Orders -> Nat] /\ g \in [Orders -> Nat] /\ h \in [Orders -> Nat]
  <2>1. Drawn(l)' \in [Orders -> Nat]
    BY DEF Typed, TypeOK, Order, Drawn
  <2>2. \A p \in Orders : Reserved(order[p], l) \in Nat
    BY DEF Typed, TypeOK, Order, Reserved
  <2>. QED
    BY <2>1, <2>2, DrawnType
<1>2. /\ IsFiniteSet(Drawing(r)) /\ IsFiniteSet(S) /\ IsFiniteSet(T)
      /\ S \in SUBSET Orders /\ T \in SUBSET Orders /\ o \in T /\ T \ {o} = S
      /\ S \in SUBSET Drawing(r) /\ Drawing(r) \in SUBSET Orders
  <2>1. /\ S \in SUBSET Orders /\ T \in SUBSET Orders /\ o \in T /\ T \ {o} = S
        /\ S \in SUBSET Drawing(r) /\ Drawing(r) \in SUBSET Orders
    BY DEF Drawing
  <2>2. IsFiniteSet(Drawing(r))
    BY DrawingFinite
  <2>3. IsFiniteSet(S)
    BY <2>1, <2>2, FS_Subset
  <2>4. T = S \cup {o}
    BY <2>1
  <2>. QED
    BY <2>1, <2>2, <2>3, <2>4, FS_AddElement
<1>3. \A x \in S : g[x] <= f[x] /\ f[x] <= h[x]
  <2>. SUFFICES ASSUME NEW x \in S PROVE g[x] <= f[x] /\ f[x] <= h[x]
    OBVIOUS
  <2>1. x \in Orders /\ order'[x] = order[x] /\ order[x].status # "none"
    BY DrawingFinite DEF Drawing, Created
  <2>2. g[x] = f[x]
    BY <2>1 DEF Drawn
  <2>3. f[x] <= h[x]
    BY <2>1 DEF Drawn, Reserved, Typed, TypeOK, Order
  <2>. QED
    BY <1>1, <2>1, <2>2, <2>3
<1>4. Allocated(r, l, others) = SumFunctionOnSet(h, S)
  <2>1. {p \in others : order[p].source = r} = S
    BY DEF Drawing
  <2>. QED
    BY <2>1 DEF Allocated
<1>5. SumFunctionOnSet(f, Drawing(r)) <= Requested[r][l]
  BY DEF AllocationInv, NoOverAllocation, CommittedWithin, Drawing
<1>6. Requested[r][l] \in Nat
  BY QuantityAssumption
<1>7. g[o] > 0 => g[o] <= Requested[r][l] - SumFunctionOnSet(h, S)
  BY <1>4
<1>. HIDE DEF f, g, h, S, T
<1>8. SumFunctionOnSet(g, T) = g[o] + SumFunctionOnSet(g, S)
  BY <1>1, <1>2, SumOfRest
<1>9. SumFunctionOnSet(g, S) <= SumFunctionOnSet(f, S)
  BY <1>1, <1>2, <1>3, SumBound
<1>10. SumFunctionOnSet(f, S) <= SumFunctionOnSet(h, S)
  BY <1>1, <1>2, <1>3, SumBound
<1>11. SumFunctionOnSet(f, S) <= SumFunctionOnSet(f, Drawing(r))
  BY <1>1, <1>2, SumOfPart
<1>12. /\ SumFunctionOnSet(g, S) \in Nat /\ SumFunctionOnSet(f, S) \in Nat
       /\ SumFunctionOnSet(h, S) \in Nat /\ SumFunctionOnSet(f, Drawing(r)) \in Nat
       /\ g[o] \in Nat
  BY <1>1, <1>2, SumType
<1>13. SumFunctionOnSet(g, T) <= Requested[r][l]
  BY <1>5, <1>6, <1>7, <1>8, <1>9, <1>10, <1>11, <1>12
<1>. QED
  BY <1>13 DEF g, T, CommittedWithin, Drawing

\* At most one order is created by a step.
LEMMA CreatedFinite ==
  ASSUME AllocationInv, NEW o, \A p \in Orders \ {o} : order'[p] = order[p]
  PROVE  IsFiniteSet(Created')
<1>1. Created' \in SUBSET (Created \cup {o})
  BY DEF Created
<1>. QED
  BY <1>1, FS_AddElement, FS_Subset DEF AllocationInv

\* An order keeps its request and draws as much as before, or less.
LEMMA SameDraws ==
  ASSUME Typed, Typed', AllocationInv, NEW o \in Orders,
         \A p \in Orders \ {o} : order'[p] = order[p],
         order'[o].source = order[o].source,
         \A l \in Lines : Drawn(l)'[o] <= Drawn(l)[o],
         order'[o].status = "none" => order[o].status = "none"
  PROVE  AllocationInv'
<1>1. ASSUME NEW r \in Requests, NEW l \in Lines PROVE CommittedWithin(r, l)'
  <2>1. ASSUME NEW p \in Drawing(r)' PROVE p \in Drawing(r) /\ Drawn(l)'[p] <= Drawn(l)[p]
    <3>1. p \in Drawing(r)
      BY DEF Drawing
    <3>2. CASE p = o
      BY <3>1, <3>2
    <3>3. CASE p # o
      <4>1. order'[p] = order[p] /\ p \in Orders
        BY <3>3 DEF Drawing
      <4>2. Drawn(l)'[p] = Drawn(l)[p] /\ Drawn(l)[p] \in Nat
        BY <4>1, DrawnType DEF Drawn
      <4>. QED
        BY <3>1, <4>2
    <3>. QED
      BY <3>2, <3>3
  <2>. QED
    BY <2>1, DrawsNoMore
<1>2. \A p \in Orders : order'[p].status = "none" => order'[p].source = None
  BY DEF AllocationInv
<1>. QED
  BY <1>1, <1>2, CreatedFinite DEF AllocationInv, NoOverAllocation

LEMMA InsertAllocates ==
  ASSUME Typed, Typed', AllocationInv, NEW c \in Callers, NEW o \in Orders, InsertOrder(c, o)
  PROVE  AllocationInv'
<1>. DEFINE s == call[c].source
<1>1. call[c].qty \in [Lines -> Nat] /\ order[o].source = None
  BY DEF InsertOrder, Typed, CallsOK, CallOK, AllocationInv
<1>2. /\ order'[o].status = "draft" /\ order'[o].source = s /\ order'[o].ordered = call[c].qty
      /\ \A p \in Orders \ {o} : order'[p] = order[p]
  BY DEF InsertOrder, Typed, TypeOK, NoOrder
<1>3. ASSUME NEW r \in Requests, NEW l \in Lines PROVE CommittedWithin(r, l)'
  <2>1. Drawn(l)'[o] = call[c].qty[l]
    BY <1>2 DEF Drawn
  <2>2. o \notin Drawing(r)
    BY <1>1, RequestsAssumption DEF Drawing
  <2>3. CASE r = s
    <3>1. o \in Drawing(r)'
      BY <1>2, <2>3 DEF Drawing
    <3>2. AllocationAvailable(r, call[c].qty, Orders)
      BY <2>3, RequestsAssumption DEF InsertOrder, MayCreateOrder
    <3>3. Drawn(l)'[o] > 0 => Drawn(l)'[o] <= Requested[r][l] - Allocated(r, l, Orders)
      BY <2>1, <3>2 DEF AllocationAvailable
    <3>. QED
      BY <1>2, <2>2, <3>1, <3>3, DrawsOneMore
  <2>4. CASE r # s
    <3>1. \A p \in Drawing(r)' : p \in Drawing(r) /\ p # o /\ order'[p] = order[p]
      BY <1>2, <2>4 DEF Drawing
    <3>2. \A p \in Drawing(r)' : Drawn(l)'[p] = Drawn(l)[p] /\ Drawn(l)[p] \in Nat
      BY <3>1, DrawnType DEF Drawn, Drawing
    <3>. QED
      BY <3>1, <3>2, DrawsNoMore
  <2>. QED
    BY <2>3, <2>4
<1>4. \A p \in Orders : order'[p].status = "none" => order'[p].source = None
  BY <1>2 DEF AllocationInv
<1>. QED
  BY <1>2, <1>3, <1>4, CreatedFinite DEF AllocationInv, NoOverAllocation

LEMMA UpdateAllocates ==
  ASSUME Typed, Typed', LockInv, AllocationInv, NEW c \in Callers, UpdateDraftOrder(c)
  PROVE  AllocationInv'
<1>. DEFINE o == call[c].order
            s == call[c].source
<1>1. /\ call[c].qty \in [Lines -> Nat] /\ o \in Orders /\ order[o].status = "draft"
      /\ order[o] \in Order
  BY DEF UpdateDraftOrder, EditHasLocks, Typed, TypeOK, CallsOK, CallOK, LockInv, HoldsOrder, Holding
<1>2. /\ order'[o].status = "draft" /\ order'[o].source = s /\ order'[o].ordered = call[c].qty
      /\ \A p \in Orders \ {o} : order'[p] = order[p]
  BY <1>1 DEF UpdateDraftOrder, Typed, TypeOK, Order
<1>3. ASSUME NEW r \in Requests, NEW l \in Lines PROVE CommittedWithin(r, l)'
  <2>1. Drawn(l)'[o] = call[c].qty[l]
    BY <1>1, <1>2 DEF Drawn
  <2>2. CASE r = s
    <3>1. o \in Drawing(r)'
      BY <1>1, <1>2, <2>2 DEF Drawing
    <3>2. AllocationAvailable(r, call[c].qty, Orders \ {o})
      BY <2>2, RequestsAssumption DEF UpdateDraftOrder, MayUpdateDraftOrder
    <3>3. Drawn(l)'[o] > 0 => Drawn(l)'[o] <= Requested[r][l] - Allocated(r, l, Orders \ {o})
      BY <2>1, <3>2 DEF AllocationAvailable
    <3>4. Orders \ {o} # Orders
      BY <1>1
    <3>. QED
      BY <1>1, <1>2, <3>1, <3>3, <3>4, DrawsOneMore
  <2>3. CASE r # s
    <3>1. \A p \in Drawing(r)' : p \in Drawing(r) /\ p # o /\ order'[p] = order[p]
      BY <1>2, <2>3 DEF Drawing
    <3>2. \A p \in Drawing(r)' : Drawn(l)'[p] = Drawn(l)[p] /\ Drawn(l)[p] \in Nat
      BY <3>1, DrawnType DEF Drawn, Drawing
    <3>. QED
      BY <3>1, <3>2, DrawsNoMore
  <2>. QED
    BY <2>2, <2>3
<1>4. \A p \in Orders : order'[p].status = "none" => order'[p].source = None
  BY <1>2 DEF AllocationInv
<1>. QED
  BY <1>2, <1>3, <1>4, CreatedFinite DEF AllocationInv, NoOverAllocation

LEMMA CancelAllocates ==
  ASSUME Typed, Typed', LockInv, AllocationInv, NEW c \in Callers, CancelOrder(c)
  PROVE  AllocationInv'
<1>. DEFINE o == call[c].order
<1>1. o \in Orders /\ order[o] \in Order /\ order[o].status \in Cancellable
  BY DEF CancelOrder, LockInv, HoldsOrder, Holding, Typed, TypeOK
<1>2. /\ order'[o].status = "cancelled" /\ order'[o].source = order[o].source
      /\ order'[o].ordered = order[o].ordered /\ order'[o].received = order[o].received
      /\ \A p \in Orders \ {o} : order'[p] = order[p]
  BY <1>1 DEF CancelOrder, Typed, TypeOK, Order
<1>3. \A l \in Lines : Drawn(l)'[o] <= Drawn(l)[o]
  BY <1>1, <1>2 DEF Drawn, Order, Cancellable
<1>. QED
  BY <1>1, <1>2, <1>3, SameDraws

LEMMA EvidenceAllocates ==
  ASSUME Typed, Typed', AllocationInv, NEW c \in Callers, EvidenceStep(c)
  PROVE  AllocationInv'
<1>. DEFINE o == call[c].order
<1>1. /\ o \in Orders /\ order[o] \in Order
      /\ \A p \in Orders \ {o} : order'[p] = order[p]
      /\ order'[o].source = order[o].source /\ order'[o].ordered = order[o].ordered
      /\ order[o].status \notin EvidenceProgressable => order'[o].status = order[o].status
      /\ Live(order'[o]) <=> Live(order[o])
  BY EvidenceWrites DEF Typed, TypeOK
<1>2. order[o].status = "cancelled" => order'[o].received = order[o].received
  BY <1>1 DEF EvidenceStep, RecordEvidence, AnswerEvidence, OpenForEvidence, Typed, TypeOK, Order
<1>3. order'[o].status = "cancelled" <=> order[o].status = "cancelled"
  BY <1>1 DEF Live, EvidenceProgressable
<1>4. \A l \in Lines : Drawn(l)'[o] <= Drawn(l)[o]
  BY <1>1, <1>2, <1>3 DEF Drawn, Order
<1>5. order'[o].status = "none" => order[o].status = "none"
  BY <1>1 DEF Live, EvidenceProgressable
<1>. QED
  BY <1>1, <1>4, <1>5, SameDraws

LEMMA AllocationStep == Typed /\ Typed' /\ LockInv /\ AllocationInv /\ [Next]_vars => AllocationInv'
<1>. SUFFICES ASSUME Typed, Typed', LockInv, AllocationInv, [Next]_vars PROVE AllocationInv'
  OBVIOUS
<1>1. CASE order' = order
  <2>1. \A l \in Lines : Drawn(l)' = Drawn(l)
    BY <1>1 DEF Drawn
  <2>. QED
    BY <1>1, <2>1 DEF AllocationInv, NoOverAllocation, CommittedWithin, Created
<1>2. ASSUME NEW o \in Orders, NEW op, NEW k, NEW status, Transition(o, op, k, status),
             order[o].status # "cancelled", status \notin {"none", "cancelled"}
      PROVE  AllocationInv'
  <2>1. /\ order'[o].status = status /\ order'[o].source = order[o].source
        /\ order'[o].ordered = order[o].ordered
        /\ \A p \in Orders \ {o} : order'[p] = order[p]
    BY <1>2 DEF Transition, Typed, TypeOK, Order
  <2>2. \A l \in Lines : Drawn(l)'[o] <= Drawn(l)[o]
    BY <1>2, <2>1 DEF Drawn, Typed, TypeOK, Order
  <2>. QED
    BY <1>2, <2>1, <2>2, SameDraws
<1>3. CASE OrderStep
  BY <1>2, <1>3 DEF OrderStep, SubmitOrder, WithdrawOrder, CloseOrder
<1>4. ASSUME NEW c \in Callers, StartCall(c) \/ StartDelivery(c) PROVE order' = order
  BY <1>4, BeginKeeps
<1>5. ASSUME NEW c \in Callers, CallStep(c) PROVE AllocationInv'
  BY <1>1, <1>5, InsertAllocates, UpdateAllocates, CancelAllocates, EvidenceAllocates
     DEF CallStep, CreateStep, UpdateStep, CancelStep, DeliveryStep, ReplayCreateOrder,
         RefuseCreateOrder, EditLockOrder, RecordEditIdempotencyKey, EditLockRequest,
         RefuseUpdateDraftOrder, CancelLockOrder, RefuseCancelOrder, WriteDeliveredLine,
         MarkDelivered, orderVars
<1>. QED
  BY <1>1, <1>3, <1>4, <1>5 DEF Next, Callers, RequestStep, SubmitRequest, DecideRequest,
     WithdrawRequest, Abandon, vars, orderVars

LEMMA AllocationInit == Init => AllocationInv
<1>. SUFFICES ASSUME Init PROVE AllocationInv
  OBVIOUS
<1>1. \A o \in Orders : order[o].status = "none" /\ order[o].source = None
  BY DEF Init, NoOrder
<1>2. Created = {} /\ \A r \in Requests : {o \in Orders : order[o].source = r} = {}
  BY <1>1, RequestsAssumption DEF Created
<1>3. \A r \in Requests, l \in Lines : Requested[r][l] \in Nat
  BY QuantityAssumption
<1>4. ASSUME NEW r \in Requests, NEW l \in Lines PROVE CommittedWithin(r, l)
  <2>1. SumFunctionOnSet(Drawn(l), {}) = 0
    BY SumOfEmpty
  <2>2. SumFunctionOnSet(Drawn(l), {o \in Orders : order[o].source = r}) = 0
    BY <1>2, <2>1
  <2>. QED
    BY <1>3, <2>2 DEF CommittedWithin
<1>. QED
  BY <1>1, <1>2, <1>4, FS_EmptySet DEF AllocationInv, NoOverAllocation

\* Live orders and goods received never draw more than the request asks for, for any number of
\* orders, requests, lines and quantities, and any creates, edits and cancellations at once.
THEOREM NothingOverAllocated == Spec => []NoOverAllocation
<1>1. AllocationInv => NoOverAllocation
  BY DEF AllocationInv
<1>. QED
  BY TypedInit, TypedStep, LockInit, LockStep, AllocationInit, AllocationStep, <1>1, PTL DEF Spec
=============================================================================
