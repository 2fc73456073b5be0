----------------------------- MODULE MCSourcing -----------------------------
(***************************************************************************)
(* Instances of Rfq and BasketSplit for TLC: an RFQ is mailed while it is  *)
(* prepared, or a split is submitted, retried and polled.  A behaviour     *)
(* moves only one of the two, chosen at the start.                         *)
(***************************************************************************)
EXTENDS BasketSplitProperties, TLC

CONSTANTS
    Rfqs, Suppliers, NoAddress, Replies, Requests, Splits, Senders, People, Evaluators,
    Guardrails, MaxLost

VARIABLES
    moving,     \* the component that moves
    rfq, recipient, mailing, left, lost, reply, request, split, event, prep

rfqVars == <<rfq, recipient, mailing, left, lost, reply, request, split, event, prep>>

\* The case has one RFQ.
R == INSTANCE RfqProperties WITH RfqOf <- [k \in Keys |-> CHOOSE r \in Rfqs : TRUE]

\* The one that does not move has one initial state.
SourcingInit ==
    /\ Init /\ R!Init
    /\ \/ moving = "rfq"
       \/ moving = "split" /\ \A r \in Rfqs : rfq[r].status = "draft"

SourcingNext ==
    \/ moving = "rfq" /\ R!Next /\ UNCHANGED <<moving, vars>>
    \/ moving = "split" /\ Next /\ UNCHANGED <<moving, rfqVars>>

SourcingSpec ==
    /\ SourcingInit /\ [][SourcingNext]_<<moving, vars, rfqVars>>
    /\ Fairness /\ R!Fairness

\* What Rfq promises, in this instance.
EveryPreparationEnds == R!EveryPreparationEnds
=============================================================================
