--------------------------- MODULE RfqProperties ---------------------------
(***************************************************************************)
(* What must hold of RFQs, and what the documentation says of them.        *)
(***************************************************************************)
EXTENDS Rfq

\* The rows and the calls are what the schema and the handlers say they are.
TypeOK ==
    /\ rfq \in [Rfqs -> Rfq]
    /\ recipient \in [Rfqs -> [Suppliers -> Recipient]]
    /\ mailing \in [Senders -> Mailing]
    /\ left \in [Kinds -> [Rfqs -> [Suppliers -> Nat]]]
    /\ lost \in [Kinds -> [Rfqs -> [Suppliers -> 0..MaxLost]]]
    /\ reply \in [Replies -> Reply]
    /\ request \in [Requests -> Request]
    /\ split \in [Splits -> Split]
    /\ event \subseteq Event
    /\ prep \in [Callers -> Prep]

-----------------------------------------------------------------------------
\* An RFQ is converted exactly when a request was prepared from one of its replies: no failure
\* between the draft, the link and the conversion leaves one without the other.
ConvertedExactlyWhenLinked == \A r \in Rfqs : rfq[r].status = "converted" <=> Linked(r) # {}

\* All requests prepared from one RFQ come from one preparation: one request, or the group of
\* one split, however people, guardrails and splits race.
OnePreparationPerRfq ==
    \A r \in Rfqs : \A q, o \in Linked(r) :
       q # o => request[q].group # None /\ request[q].group = request[o].group

\* Two answers to one key are the same request.
ReplayAnswersSame ==
    \A c, d \in Callers :
       prep[c].pc \in {"record", "done"} /\ prep[d].pc \in {"record", "done"}
       /\ prep[c].key = prep[d].key => prep[c].request = prep[d].request

\* A guardrail's event and the link of its request name the same reply: a later evaluation that
\* finds another winner does not take credit for the request of an earlier one.
EventNamesSource ==
    \A e \in event : request[e.request].source \in {None, e.reply}

\* A closed RFQ stays closed, and the reply a request was prepared from never changes.
ClosedForGood ==
    [][/\ \A r \in Rfqs : rfq[r].status \in {"cancelled", "converted"} =>
                             rfq'[r].status = rfq[r].status
       /\ \A q \in Requests : request[q].source # None =>
                             request'[q].source = request[q].source]_vars

-----------------------------------------------------------------------------
\* Every mail that left is in a committed row or in a transaction that died or still runs: a
\* supplier is mailed an RFQ twice only after a failure, and reminded twice at most but for one.
SentBy(kind, r, s) ==
    Cardinality({c \in Senders :
       /\ mailing[c].rfq = r
       /\ s \in IF kind = "rfq" THEN mailing[c].sent
               ELSE IF mailing[c].pc = "reminded" THEN mailing[c].todo ELSE {}})

Recorded(kind, r, s) ==
    IF kind = "rfq" THEN IF recipient[r][s].status = "sent" THEN 1 ELSE 0
    ELSE recipient[r][s].reminders

MailsAccounted ==
    \A kind \in Kinds, r \in Rfqs, s \in Suppliers :
       left[kind][r][s] = Recorded(kind, r, s) + SentBy(kind, r, s) + lost[kind][r][s]

\* No mail leaves for an RFQ that was cancelled or converted, however long the send took.
NoMailAfterClose ==
    [][\A kind \in Kinds, r \in Rfqs :
          left'[kind][r] # left[kind][r] => rfq[r].status \in {"draft", "sent", "responded"}]_vars

\* Only an RFQ that was sent has replies, so a draft that is replaced loses none.
DraftHasNoReplies == \A r \in Rfqs : rfq[r].status = "draft" => Replied(r) = {}

\* Every preparation that began ends: no two of them wait for each other's locks.
EveryPreparationEnds ==
    \A c \in Callers :
       prep[c].pc \in {"judged", "create", "finish", "record"} ~>
          prep[c].pc \in {"done", "refused", "died"}

=============================================================================
