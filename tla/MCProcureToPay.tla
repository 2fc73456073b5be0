--------------------------- MODULE MCProcureToPay ---------------------------
(***************************************************************************)
(* Instances of ProcureToPay for TLC.  A run gives keys only to the        *)
(* operations its question is about: an operation without keys is never    *)
(* called, and the number of its keys bounds how often it takes effect.    *)
(***************************************************************************)
EXTENDS ProcureToPayProperties, TLC

OnePerLine == [r \in Requests |-> [l \in Lines |-> 1]]
TwoPerLine == [r \in Requests |-> [l \in Lines |-> 2]]

DetachKeys == [op \in Operations |-> IF op \in {"create", "edit"} THEN {1, 2} ELSE {}]
DeliveryKeys == [op \in Operations |-> IF op \in {"create", "cancel"} THEN {5} ELSE {}]

\* Three questions share the run Orders, each with keys of its own: two orders that draw on
\* one request, one order with its evidence, and deliveries.
DrawingKeys ==
    [op \in Operations |-> CASE op = "create" -> {1, 2}
                             [] op \in {"edit", "submit", "cancel"} -> {1}
                             [] OTHER -> {}]
EvidenceKeys == [op \in Operations |-> IF op \in {"submit", "receive"} THEN {3, 4} ELSE {3}]

OrdersKeys == [op \in Operations |-> DrawingKeys[op] \cup EvidenceKeys[op] \cup DeliveryKeys[op]]

KeysSent ==
    {call[c].key : c \in Buyers} \cup UNION {used[op][o] : op \in Operations, o \in Orders}

NoDelivery ==
    /\ \A c \in Receivers : call[c] = Idle
    /\ \A r \in Requests, l \in Lines : counted[r][l] = None

OneQuestion ==
    \/ KeysSent \subseteq {None, 1, 2} /\ NoDelivery
    \/ KeysSent \subseteq {None, 3, 4} /\ NoDelivery
    \/ KeysSent \subseteq {None, 5}

Symmetric == Permutations(Orders) \cup Permutations(Buyers)
=============================================================================
