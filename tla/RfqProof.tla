------------------------------ MODULE RfqProof ------------------------------
(***************************************************************************)
(* Proofs about Rfq: types, the locks, the mails that leave, and what a    *)
(* preparation leaves behind however it races and wherever it dies.        *)
(***************************************************************************)
EXTENDS RfqProperties, FiniteSetTheorems, TLAPS

-----------------------------------------------------------------------------
(* Mail.  A sender that is not idle holds the row of an open RFQ; until it *)
(* commits, the recipients it mails keep the state it read.                *)

Open == {"draft", "sent", "responded"}

Sending(c) ==
    LET r == mailing[c].rfq IN
    /\ rfq[r].status \in Open
    /\ mailing[c].todo \cap mailing[c].sent = {}
    /\ \A s \in mailing[c].todo \cup mailing[c].sent \cup mailing[c].failed :
          recipient[r][s].status # "sent" /\ recipient[r][s].reminders = 0

Reminding(c) ==
    LET r == mailing[c].rfq IN
    /\ rfq[r].status \in {"sent", "responded"}
    /\ mailing[c].sent = {}
    /\ \E s \in Suppliers : mailing[c].todo = {s} /\ recipient[r][s].status = "sent"
                            /\ recipient[r][s].reminders < 2

Holds(c) ==
    IF mailing[c].pc = "idle" THEN mailing[c] = Quiet
    ELSE /\ mailing[c].rfq \in Rfqs
         /\ IF mailing[c].pc = "sending" THEN Sending(c) ELSE Reminding(c)

MailLock ==
    \A c, d \in Senders : c # d /\ mailing[c].rfq # None => mailing[c].rfq # mailing[d].rfq

\* A draft was sent to nobody, and what was sent to nobody has no reminders.
DraftInv ==
    \A r \in Rfqs :
       /\ rfq[r].status = "draft" =>
             Replied(r) = {} /\ \A s \in Suppliers : recipient[r][s].status # "sent"
       /\ \A s \in Suppliers : recipient[r][s].status # "sent" => recipient[r][s].reminders = 0

MailInv == (\A c \in Senders : Holds(c)) /\ MailLock /\ DraftInv

-----------------------------------------------------------------------------
(* Preparations.                                                           *)

\* The RFQ a key is for.
KeyRfq(k) == IF k \in Keys THEN RfqOf[k] ELSE k[1]

Active == {"judged", "create", "finish", "record"}

Locked == {"create", "finish"}

Known == {"finish", "record", "done"}

Ready(c) ==
    /\ prep[c].pc \in Active =>
          /\ prep[c].rfq \in Rfqs /\ prep[c].reply \in Replies
          /\ reply[prep[c].reply].rfq = prep[c].rfq
          /\ prep[c].key \in IF c \in Evaluators THEN GuardrailKeys ELSE Keys
          /\ KeyRfq(prep[c].key) = prep[c].rfq
    /\ prep[c].pc \in {"judged", "record"} => c \in Evaluators
    /\ prep[c].pc \in Locked => rfq[prep[c].rfq].status \in {"sent", "responded"}
    /\ prep[c].pc \in Known =>
          /\ prep[c].request \in Requests /\ prep[c].key # None
          /\ request[prep[c].request].key = prep[c].key

PrepLock ==
    \A c, d \in Callers :
       c # d /\ prep[c].pc \in Locked /\ prep[d].pc \in Locked => prep[c].rfq # prep[d].rfq

EvaluatorLock ==
    \A c, d \in Evaluators :
       c # d /\ prep[c].pc \in Active /\ prep[d].pc \in Active => prep[c].rfq # prep[d].rfq

\* The key of a request is for the RFQ it is linked to, and names no other request.
Owned(q) ==
    /\ request[q].status = "none" => request[q].key = None /\ request[q].source = None
    /\ request[q].source # None =>
          /\ reply[request[q].source].rfq \in Rfqs
          /\ request[q].key # None => KeyRfq(request[q].key) = reply[request[q].source].rfq

KeysUnique ==
    \A q, o \in Requests : q # o /\ request[q].key # None => request[q].key # request[o].key

SplitInv ==
    \A j \in Splits : split[j].status # "none" =>
       split[j].rfq \in Rfqs /\ split[j].replies \subseteq Replied(split[j].rfq)

ReplyInv == \A p \in Replies : reply[p].stage = "absent" => reply[p].rfq = None

\* What is recorded of a guardrail's request is final: it is linked to the reply, or it left
\* the drafts without a link.
Settled(q, p) ==
    \/ request[q].source = p
    \/ request[q].source = None /\ request[q].status = "left"

\* While an evaluation of an RFQ goes on, no request of its guardrail is linked.
EvaluatorInv ==
    /\ \A c \in Evaluators :
          /\ prep[c].pc = "judged" =>
                \A q \in Requests : request[q].key = prep[c].key => request[q].source = None
          /\ prep[c].pc = "record" => Settled(prep[c].request, prep[c].reply)
    /\ \A e \in event : Settled(e.request, e.reply)

PrepInv ==
    /\ \A c \in Callers : Ready(c)
    /\ PrepLock /\ EvaluatorLock
    /\ \A q \in Requests : Owned(q)
    /\ KeysUnique /\ SplitInv /\ ReplyInv

LinkInv == ConvertedExactlyWhenLinked /\ OnePreparationPerRfq /\ EvaluatorInv

Typed == TypeOK /\ MailInv

IInv == Typed /\ PrepInv /\ LinkInv

-----------------------------------------------------------------------------
(* The mail side.  The types of its variables are apart from those of the  *)
(* preparations: its steps leave the latter alone.                         *)

MailTypes ==
    /\ rfq \in [Rfqs -> Rfq]
    /\ recipient \in [Rfqs -> [Suppliers -> Recipient]]
    /\ mailing \in [Senders -> Mailing]
    /\ left \in [Kinds -> [Rfqs -> [Suppliers -> Nat]]]
    /\ lost \in [Kinds -> [Rfqs -> [Suppliers -> 0..MaxLost]]]
    /\ reply \in [Replies -> Reply]

PrepTypes ==
    /\ request \in [Requests -> Request]
    /\ split \in [Splits -> Split]
    /\ event \subseteq Event
    /\ prep \in [Callers -> Prep]

LEMMA TypeParts == TypeOK <=> MailTypes /\ PrepTypes
  BY DEF TypeOK, MailTypes, PrepTypes

Mailed == MailTypes /\ MailInv

LEMMA QuietFacts == Quiet \in Mailing /\ Quiet.rfq = None /\ Quiet.pc = "idle"
                    /\ Quiet.todo = {} /\ Quiet.sent = {} /\ None \notin Rfqs
  BY NamesAssumption DEF Quiet, Mailing

\* What a sender holds does not depend on the rows of other RFQs, nor on what is left of these.
LEMMA HoldsKept ==
    ASSUME Mailed, NEW d \in Senders, mailing'[d] = mailing[d],
           mailing[d].pc # "idle" =>
              /\ rfq'[mailing[d].rfq].status = rfq[mailing[d].rfq].status
              /\ \A s \in Suppliers :
                    /\ recipient'[mailing[d].rfq][s].status = recipient[mailing[d].rfq][s].status
                    /\ recipient'[mailing[d].rfq][s].reminders
                         = recipient[mailing[d].rfq][s].reminders
    PROVE  Holds(d)'
  <1>1. Holds(d) /\ mailing[d] \in Mailing
    BY DEF Mailed, MailInv, MailTypes
  <1>2. CASE mailing[d].pc = "idle"
    BY <1>1, <1>2 DEF Holds, Quiet
  <1>3. CASE mailing[d].pc = "sending"
    <2>1. mailing[d].rfq \in Rfqs /\ Sending(d)
      BY <1>1, <1>3 DEF Holds
    <2>2. mailing[d].todo \cup mailing[d].sent \cup mailing[d].failed \subseteq Suppliers
      BY <1>1 DEF Mailing
    <2>3. Sending(d)'
      BY <1>3, <2>1, <2>2 DEF Sending
    <2>. QED  BY <1>3, <2>1, <2>3 DEF Holds
  <1>4. CASE mailing[d].pc \in {"reminding", "reminded"}
    <2>1. mailing[d].rfq \in Rfqs /\ Reminding(d)
      BY <1>1, <1>4 DEF Holds
    <2>2. Reminding(d)'
      BY <1>4, <2>1 DEF Reminding
    <2>. QED  BY <1>4, <2>1, <2>2 DEF Holds
  <1>. QED  BY <1>1, <1>2, <1>3, <1>4 DEF Mailing

LEMMA OthersHold ==
    ASSUME Mailed, NEW d \in Senders, mailing'[d] = mailing[d],
           NEW r \in Rfqs, mailing[d].rfq # r,
           \A x \in Rfqs : x # r => rfq'[x] = rfq[x] /\ recipient'[x] = recipient[x]
    PROVE  Holds(d)'
  <1>1. mailing[d].pc # "idle" => mailing[d].rfq \in Rfqs
    BY DEF Mailed, MailInv, Holds
  <1>. QED  BY <1>1, HoldsKept

\* A sender takes a free row, keeps its own, or lets it go.
LEMMA LockKept ==
    ASSUME Mailed, NEW c \in Senders, NEW m \in Mailing, mailing' = [mailing EXCEPT ![c] = m],
           m.rfq = None \/ m.rfq = mailing[c].rfq \/ RowFree(m.rfq)
    PROVE  MailLock'
  <1>1. MailLock /\ mailing \in [Senders -> Mailing]
    BY DEF Mailed, MailInv, MailTypes
  <1>2. \A d \in Senders : d # c => mailing'[d] = mailing[d]
    BY <1>1
  <1>3. mailing'[c] = m
    BY <1>1
  <1>4. \A d \in Senders : d # c /\ m.rfq # None => mailing[d].rfq # m.rfq
    BY <1>1 DEF MailLock, RowFree
  <1>. QED  BY <1>1, <1>2, <1>3, <1>4 DEF MailLock

LEMMA DraftKept ==
    ASSUME DraftInv,
           \A r \in Rfqs : rfq'[r].status = "draft" => rfq[r].status = "draft",
           \A p \in Replies : reply'[p].rfq = reply[p].rfq,
           \A r \in Rfqs, s \in Suppliers :
              /\ recipient'[r][s].status = recipient[r][s].status
              /\ recipient'[r][s].reminders = recipient[r][s].reminders
    PROVE  DraftInv'
  BY DEF DraftInv, Replied

LEMMA InitMailed == Init => Mailed
  <1>. SUFFICES ASSUME Init PROVE Mailed
    OBVIOUS
  <1>1. rfq \in [Rfqs -> Rfq] /\ \A r \in Rfqs : rfq[r].status \in {"draft", "sent"}
    BY DEF Init, Rfq
  <1>2. recipient \in [Rfqs -> [Suppliers -> Recipient]]
    BY DEF Init, Recipient
  <1>3. mailing \in [Senders -> Mailing] /\ lost \in [Kinds -> [Rfqs -> [Suppliers -> 0..MaxLost]]]
    BY QuietFacts, NumbersAssumption DEF Init
  <1>4. left \in [Kinds -> [Rfqs -> [Suppliers -> Nat]]]
    BY DEF Init, Kinds
  <1>5. reply \in [Replies -> Reply]
    BY DEF Init, Reply
  <1>6. MailLock /\ \A c \in Senders : Holds(c)
    BY QuietFacts DEF Init, MailLock, Holds
  <1>7. DraftInv
    <2>1. \A r \in Rfqs : Replied(r) = {}
      BY NamesAssumption DEF Init, Replied
    <2>. QED  BY <2>1 DEF Init, DraftInv
  <1>. QED  BY <1>1, <1>2, <1>3, <1>4, <1>5, <1>6, <1>7 DEF Mailed, MailTypes, MailInv

-----------------------------------------------------------------------------
(* Steps of the senders.                                                   *)

\* A sender moves and writes no row.
LEMMA SenderMoves ==
    ASSUME Mailed, NEW c \in Senders, NEW m \in Mailing, mailing' = [mailing EXCEPT ![c] = m],
           m.rfq = None \/ m.rfq = mailing[c].rfq \/ RowFree(m.rfq),
           UNCHANGED <<rfq, recipient, reply>>,
           left' \in [Kinds -> [Rfqs -> [Suppliers -> Nat]]],
           lost' \in [Kinds -> [Rfqs -> [Suppliers -> 0..MaxLost]]],
           Holds(c)'
    PROVE  Mailed'
  <1>1. mailing' \in [Senders -> Mailing] /\ \A d \in Senders : d # c => mailing'[d] = mailing[d]
    BY DEF Mailed, MailTypes
  <1>2. \A d \in Senders : Holds(d)'
    BY <1>1, HoldsKept
  <1>3. DraftInv'
    BY DraftKept DEF Mailed, MailInv
  <1>. QED  BY <1>1, <1>2, <1>3, LockKept DEF Mailed, MailTypes, MailInv

LEMMA LeaveTypes ==
    ASSUME Mailed, NEW kind \in Kinds, NEW r \in Rfqs, NEW s \in Suppliers, Leave(kind, r, s)
    PROVE  left' \in [Kinds -> [Rfqs -> [Suppliers -> Nat]]]
  BY DEF Mailed, MailTypes, Leave

LEMMA LoseTypes ==
    ASSUME Mailed, NEW kind \in Kinds, NEW r \in Rfqs, NEW gone \in SUBSET Suppliers,
           Lose(kind, r, gone)
    PROVE  lost' \in [Kinds -> [Rfqs -> [Suppliers -> 0..MaxLost]]]
  <1>1. lost[kind][r] \in [Suppliers -> 0..MaxLost]
    BY DEF Mailed, MailTypes
  <1>. DEFINE row == [s \in Suppliers |-> lost[kind][r][s] + IF s \in gone THEN 1 ELSE 0]
  <1>2. row \in [Suppliers -> 0..MaxLost]
    BY <1>1, NumbersAssumption DEF Lose
  <1>3. lost' = [lost EXCEPT ![kind][r] = row]
    BY DEF Lose, Mailed, MailTypes
  <1>. QED  BY <1>2, <1>3 DEF Mailed, MailTypes

LEMMA SenderState ==
    ASSUME Mailed, NEW c \in Senders
    PROVE  /\ mailing[c] \in Mailing /\ Holds(c)
           /\ mailing[c].pc # "idle" => mailing[c].rfq \in Rfqs
           /\ mailing[c].pc = "sending" => Sending(c)
           /\ mailing[c].pc \in {"reminding", "reminded"} => Reminding(c)
  BY DEF Mailed, MailTypes, MailInv, Holds

LEMMA KindFacts == "rfq" \in Kinds /\ "reminder" \in Kinds
  BY DEF Kinds

LEMMA StartSendMailed ==
    ASSUME Mailed, NEW c \in Senders, NEW r \in Rfqs, StartSend(c, r)
    PROVE  Mailed'
  <1>. DEFINE m == [pc |-> "sending", rfq |-> r, todo |-> Unsent(r) \ NoAddress, sent |-> {},
                    failed |-> Unsent(r) \cap NoAddress]
  <1>1. m \in Mailing /\ m.rfq = r
    BY DEF Mailing, Unsent
  <1>2. mailing' = [mailing EXCEPT ![c] = m] /\ UNCHANGED <<rfq, recipient, left, lost, reply>>
    BY DEF StartSend
  <1>3. mailing'[c] = m
    BY <1>2 DEF Mailed, MailTypes
  <1>4. Holds(c)'
    <2>1. \A s \in Unsent(r) : recipient[r][s].status # "sent" /\ recipient[r][s].reminders = 0
      BY DEF Unsent, Mailed, MailInv, DraftInv
    <2>2. Sending(c)'
      BY <1>2, <1>3, <2>1 DEF Sending, StartSend, Sendable, Open
    <2>. QED  BY <1>3, <2>2 DEF Holds
  <1>. QED  BY <1>1, <1>2, <1>4, SenderMoves DEF StartSend, Sendable, Mailed, MailTypes

LEMMA DeliverMailed ==
    ASSUME Mailed, NEW c \in Senders, NEW s \in Suppliers, Deliver(c, s)
    PROVE  Mailed'
  <1>. DEFINE m == [mailing[c] EXCEPT !.todo = @ \ {s}, !.sent = @ \cup {s}]
  <1>1. m \in Mailing /\ m.rfq = mailing[c].rfq /\ mailing[c].rfq \in Rfqs
    BY SenderState DEF Mailing, Deliver
  <1>2. mailing' = [mailing EXCEPT ![c] = m] /\ UNCHANGED <<rfq, recipient, lost, reply>>
    BY DEF Deliver, Mailed, MailTypes
  <1>3. mailing'[c] = m
    BY <1>2 DEF Mailed, MailTypes
  <1>4. Holds(c)'
    <2>1. Sending(c) /\ m.pc = "sending" /\ m.todo = mailing[c].todo \ {s}
          /\ m.sent = mailing[c].sent \cup {s} /\ m.failed = mailing[c].failed
      BY SenderState DEF Deliver, Mailing
    <2>2. Sending(c)'
      BY <1>1, <1>2, <1>3, <2>1 DEF Sending, Deliver
    <2>. QED  BY <1>1, <1>3, <2>1, <2>2 DEF Holds
  <1>5. left' \in [Kinds -> [Rfqs -> [Suppliers -> Nat]]]
    BY <1>1, LeaveTypes, KindFacts DEF Deliver
  <1>. QED  BY <1>1, <1>2, <1>4, <1>5, SenderMoves DEF Mailed, MailTypes

LEMMA FailDeliveryMailed ==
    ASSUME Mailed, NEW c \in Senders, NEW s \in Suppliers, FailDelivery(c, s)
    PROVE  Mailed'
  <1>. DEFINE m == [mailing[c] EXCEPT !.todo = @ \ {s}, !.failed = @ \cup {s}]
  <1>1. m \in Mailing /\ m.rfq = mailing[c].rfq /\ mailing[c].rfq \in Rfqs
    BY SenderState DEF Mailing, FailDelivery
  <1>2. mailing' = [mailing EXCEPT ![c] = m] /\ UNCHANGED <<rfq, recipient, reply>>
    BY DEF FailDelivery, Mailed, MailTypes
  <1>3. mailing'[c] = m
    BY <1>2 DEF Mailed, MailTypes
  <1>4. Holds(c)'
    <2>1. Sending(c) /\ m.pc = "sending" /\ m.todo = mailing[c].todo \ {s}
          /\ m.sent = mailing[c].sent /\ m.failed = mailing[c].failed \cup {s}
      BY SenderState DEF FailDelivery, Mailing
    <2>2. Sending(c)'
      BY <1>1, <1>2, <1>3, <2>1 DEF Sending, FailDelivery
    <2>. QED  BY <1>1, <1>3, <2>1, <2>2 DEF Holds
  <1>5. left' \in [Kinds -> [Rfqs -> [Suppliers -> Nat]]]
        /\ lost' \in [Kinds -> [Rfqs -> [Suppliers -> 0..MaxLost]]]
    <2>1. CASE UNCHANGED <<left, lost>>
      BY <2>1 DEF Mailed, MailTypes
    <2>2. CASE Leave("rfq", mailing[c].rfq, s) /\ Lose("rfq", mailing[c].rfq, {s})
      BY <1>1, <2>2, LeaveTypes, LoseTypes, KindFacts
    <2>. QED  BY <2>1, <2>2 DEF FailDelivery
  <1>. QED  BY <1>1, <1>2, <1>4, <1>5, SenderMoves

\* A sender that gives up lets its row go.
LEMMA QuietMailed ==
    ASSUME Mailed, NEW c \in Senders, mailing' = [mailing EXCEPT ![c] = Quiet],
           UNCHANGED <<rfq, recipient, left, reply>>,
           lost' \in [Kinds -> [Rfqs -> [Suppliers -> 0..MaxLost]]]
    PROVE  Mailed'
  <1>1. mailing'[c] = Quiet
    BY DEF Mailed, MailTypes
  <1>2. Holds(c)'
    BY <1>1, QuietFacts DEF Holds
  <1>. QED  BY <1>2, QuietFacts, SenderMoves DEF Mailed, MailTypes

LEMMA LoseMailed ==
    ASSUME Mailed, NEW c \in Senders, LoseSend(c) \/ LoseReminder(c)
    PROVE  Mailed'
  <1>1. CASE LoseSend(c)
    <2>1. mailing[c].rfq \in Rfqs /\ mailing[c].sent \subseteq Suppliers
      BY <1>1, SenderState DEF LoseSend, Mailing
    <2>2. lost' \in [Kinds -> [Rfqs -> [Suppliers -> 0..MaxLost]]]
      BY <1>1, <2>1, LoseTypes, KindFacts DEF LoseSend
    <2>. QED  BY <1>1, <2>2, QuietMailed DEF LoseSend
  <1>2. CASE LoseReminder(c)
    <2>1. mailing[c].pc = "reminded" => mailing[c].rfq \in Rfqs
      BY SenderState
    <2>2. mailing[c].todo \subseteq Suppliers
      BY SenderState DEF Mailing
    <2>3. lost' \in [Kinds -> [Rfqs -> [Suppliers -> 0..MaxLost]]]
      BY <1>2, <2>1, <2>2, LoseTypes, KindFacts DEF LoseReminder, Mailed, MailTypes
    <2>. QED  BY <1>2, <2>3, QuietMailed DEF LoseReminder
  <1>. QED  BY <1>1, <1>2

LEMMA StartReminderMailed ==
    ASSUME Mailed, NEW c \in Senders, NEW r \in Rfqs, NEW s \in Suppliers, StartReminder(c, r, s)
    PROVE  Mailed'
  <1>. DEFINE m == [Quiet EXCEPT !.pc = "reminding", !.rfq = r, !.todo = {s}]
  <1>1. m \in Mailing /\ m.rfq = r /\ m.pc = "reminding" /\ m.sent = {} /\ m.todo = {s}
    BY DEF Mailing, Quiet
  <1>2. mailing' = [mailing EXCEPT ![c] = m] /\ UNCHANGED <<rfq, recipient, left, lost, reply>>
    BY DEF StartReminder
  <1>3. mailing'[c] = m
    BY <1>2 DEF Mailed, MailTypes
  <1>4. Holds(c)'
    <2>1. rfq[r].status \in {"sent", "responded"}
      BY DEF StartReminder, Remindable, EffectiveStatus, Mailed, MailTypes, Rfq
    <2>2. recipient[r][s].status = "sent" /\ recipient[r][s].reminders < 2
      BY DEF StartReminder, Remindable
    <2>3. Reminding(c)'
      BY <1>1, <1>2, <1>3, <2>1, <2>2 DEF Reminding
    <2>. QED  BY <1>1, <1>3, <2>3 DEF Holds
  <1>. QED  BY <1>1, <1>2, <1>4, SenderMoves DEF StartReminder, Mailed, MailTypes

LEMMA RemindMailed ==
    ASSUME Mailed, NEW c \in Senders, NEW s \in Suppliers, Remind(c, s)
    PROVE  Mailed'
  <1>. DEFINE m == [mailing[c] EXCEPT !.pc = "reminded"]
  <1>1. m \in Mailing /\ m.rfq = mailing[c].rfq /\ mailing[c].rfq \in Rfqs /\ m.pc = "reminded"
        /\ m.sent = mailing[c].sent /\ m.todo = mailing[c].todo
    BY SenderState DEF Mailing, Remind
  <1>2. mailing' = [mailing EXCEPT ![c] = m] /\ UNCHANGED <<rfq, recipient, lost, reply>>
    BY DEF Remind, Mailed, MailTypes
  <1>3. mailing'[c] = m
    BY <1>2 DEF Mailed, MailTypes
  <1>4. Holds(c)'
    <2>1. Reminding(c)
      BY SenderState DEF Remind
    <2>2. Reminding(c)'
      BY <1>1, <1>2, <1>3, <2>1 DEF Reminding
    <2>. QED  BY <1>1, <1>3, <2>2 DEF Holds
  <1>5. left' \in [Kinds -> [Rfqs -> [Suppliers -> Nat]]]
    BY <1>1, LeaveTypes, KindFacts DEF Remind
  <1>. QED  BY <1>1, <1>2, <1>4, <1>5, SenderMoves DEF Mailed, MailTypes

-----------------------------------------------------------------------------
(* Steps that write the rows.                                              *)

\* A sender writes the recipients of its RFQ and lets the row go.
LEMMA CommitMailed ==
    ASSUME Mailed, NEW c \in Senders, mailing[c].rfq \in Rfqs,
           mailing' = [mailing EXCEPT ![c] = Quiet], UNCHANGED <<left, lost, reply>>,
           NEW row \in [Suppliers -> Recipient],
           recipient' = [recipient EXCEPT ![mailing[c].rfq] = row],
           NEW status \in {"draft", "sent", "responded", "cancelled", "converted"},
           rfq' = [rfq EXCEPT ![mailing[c].rfq].status = status],
           status = "draft" => rfq[mailing[c].rfq].status = "draft"
                               /\ \A s \in Suppliers : row[s].status # "sent",
           \A s \in Suppliers : row[s].status # "sent" => row[s].reminders = 0
    PROVE  Mailed'
  <1>. DEFINE r == mailing[c].rfq
  <1>1. mailing'[c] = Quiet /\ mailing' \in [Senders -> Mailing]
        /\ \A d \in Senders : d # c => mailing'[d] = mailing[d]
    BY QuietFacts DEF Mailed, MailTypes
  <1>2. rfq' \in [Rfqs -> Rfq] /\ rfq'[r].status = status
        /\ \A x \in Rfqs : x # r => rfq'[x] = rfq[x]
    BY DEF Mailed, MailTypes, Rfq
  <1>3. recipient' \in [Rfqs -> [Suppliers -> Recipient]] /\ recipient'[r] = row
        /\ \A x \in Rfqs : x # r => recipient'[x] = recipient[x]
    BY DEF Mailed, MailTypes
  <1>4. \A d \in Senders : Holds(d)'
    <2>1. Holds(c)'
      BY <1>1, QuietFacts DEF Holds
    <2>2. ASSUME NEW d \in Senders, d # c PROVE Holds(d)'
      <3>1. mailing[d].rfq # r
        BY <2>2, QuietFacts DEF Mailed, MailInv, MailLock
      <3>. QED  BY <1>1, <1>2, <1>3, <2>2, <3>1, OthersHold
    <2>. QED  BY <2>1, <2>2
  <1>5. MailLock'
    BY QuietFacts, LockKept
  <1>6. DraftInv'
    <2>1. \A x \in Rfqs : Replied(x)' = Replied(x)
      BY DEF Replied
    <2>. QED  BY <1>2, <1>3, <2>1 DEF Mailed, MailInv, DraftInv
  <1>. QED  BY <1>1, <1>2, <1>3, <1>4, <1>5, <1>6 DEF Mailed, MailTypes, MailInv

LEMMA CommitSendMailed ==
    ASSUME Mailed, NEW c \in Senders, CommitSend(c)
    PROVE  Mailed'
  <1>. DEFINE r == mailing[c].rfq
              old == recipient[r]
              row == [s \in Suppliers |->
                       IF s \in mailing[c].sent THEN [old[s] EXCEPT !.status = "sent", !.waited = FALSE]
                       ELSE IF s \in mailing[c].failed THEN [old[s] EXCEPT !.status = "failed"]
                       ELSE old[s]]
              status == IF rfq[r].status = "draft" /\ mailing[c].sent # {} THEN "sent"
                        ELSE rfq[r].status
  <1>1. r \in Rfqs /\ mailing[c] \in Mailing /\ Sending(c) /\ mailing[c].todo = {}
    BY SenderState DEF CommitSend
  <1>2. old \in [Suppliers -> Recipient] /\ rfq[r] \in Rfq
    BY <1>1 DEF Mailed, MailTypes
  <1>3. row \in [Suppliers -> Recipient]
    BY <1>2 DEF Recipient
  <1>4. recipient' = [recipient EXCEPT ![r] = row] /\ rfq' = [rfq EXCEPT ![r].status = status]
    BY <1>1 DEF CommitSend, Mailed, MailTypes
  <1>5. status \in {"draft", "sent", "responded", "cancelled", "converted"}
    BY <1>2 DEF Rfq
  <1>6. \A s \in Suppliers : row[s].status # "sent" => old[s].status # "sent" \/ s \in mailing[c].failed
    BY <1>2
  <1>7. \A s \in Suppliers : row[s].reminders = old[s].reminders
    BY <1>2 DEF Recipient
  <1>8. \A s \in Suppliers : row[s].status # "sent" => row[s].reminders = 0
    BY <1>1, <1>6, <1>7 DEF Sending, Mailed, MailInv, DraftInv
  <1>9. status = "draft" => rfq[r].status = "draft" /\ \A s \in Suppliers : row[s].status # "sent"
    <2>. SUFFICES ASSUME status = "draft"
                  PROVE  rfq[r].status = "draft" /\ \A s \in Suppliers : row[s].status # "sent"
      OBVIOUS
    <2>1. rfq[r].status = "draft" /\ mailing[c].sent = {}
      OBVIOUS
    <2>2. \A s \in Suppliers : old[s].status # "sent"
      BY <1>1, <2>1 DEF Mailed, MailInv, DraftInv
    <2>. QED  BY <1>2, <2>1, <2>2 DEF Recipient
  <1>10. mailing' = [mailing EXCEPT ![c] = Quiet] /\ UNCHANGED <<left, lost, reply>>
    BY DEF CommitSend
  <1>. HIDE DEF row, status, r, old
  <1>. QED  BY <1>1, <1>3, <1>4, <1>5, <1>8, <1>9, <1>10, CommitMailed DEF r

LEMMA CommitReminderMailed ==
    ASSUME Mailed, NEW c \in Senders, NEW s \in Suppliers, CommitReminder(c, s)
    PROVE  Mailed'
  <1>. DEFINE r == mailing[c].rfq
              old == recipient[r]
              row == [old EXCEPT ![s].reminders = @ + 1, ![s].waited = FALSE]
              status == rfq[r].status
  <1>1. r \in Rfqs /\ Reminding(c) /\ s \in mailing[c].todo
    BY SenderState DEF CommitReminder
  <1>2. old \in [Suppliers -> Recipient] /\ rfq[r] \in Rfq
    BY <1>1 DEF Mailed, MailTypes
  <1>3. old[s].status = "sent" /\ old[s].reminders < 2 /\ status \in {"sent", "responded"}
    BY <1>1 DEF Reminding
  <1>. DEFINE mid == [old EXCEPT ![s].reminders = @ + 1]
  <1>4. row \in [Suppliers -> Recipient]
    <2>1. mid \in [Suppliers -> Recipient]
      BY <1>2, <1>3 DEF Recipient
    <2>2. row = [mid EXCEPT ![s].waited = FALSE]
      BY <1>2
    <2>3. [mid EXCEPT ![s].waited = FALSE] \in [Suppliers -> Recipient]
      <3>. HIDE DEF mid
      <3>. QED  BY <2>1 DEF Recipient
    <2>. HIDE DEF mid, row
    <2>. QED  BY <2>2, <2>3
  <1>5. \A x \in Suppliers : row[x].status = old[x].status /\ (x # s => row[x] = old[x])
    <2>1. \A x \in Suppliers : x # s => row[x] = old[x]
      BY <1>2
    <2>2. row[s].status = old[s].status
      BY <1>2 DEF Recipient
    <2>. QED  BY <2>1, <2>2
  <1>6. recipient' = [recipient EXCEPT ![r] = row]
    BY <1>1 DEF CommitReminder, Mailed, MailTypes
  <1>7. rfq' = [rfq EXCEPT ![r].status = status]
    BY <1>1, <1>2 DEF CommitReminder, Mailed, MailTypes, Rfq
  <1>8. \A x \in Suppliers : row[x].status # "sent" => row[x].reminders = 0
    <2>1. \A x \in Suppliers : old[x].status # "sent" => old[x].reminders = 0
      BY <1>1 DEF Mailed, MailInv, DraftInv
    <2>. QED  BY <1>3, <1>5, <2>1
  <1>9. mailing' = [mailing EXCEPT ![c] = Quiet] /\ UNCHANGED <<left, lost, reply>>
    BY DEF CommitReminder
  <1>10. status # "draft" /\ status \in {"draft", "sent", "responded", "cancelled", "converted"}
    BY <1>3
  <1>. HIDE DEF row, status, r, old
  <1>. QED  BY <1>1, <1>4, <1>6, <1>7, <1>8, <1>9, <1>10, CommitMailed DEF r

\* The status of an RFQ whose row is free changes; no closed one becomes a draft.
LEMMA StatusMailed ==
    ASSUME Mailed, NEW r \in Rfqs, RowFree(r), UNCHANGED <<mailVars, reply>>,
           NEW status \in {"sent", "responded", "cancelled", "converted"},
           rfq' = [rfq EXCEPT ![r].status = status]
    PROVE  Mailed'
  <1>1. rfq' \in [Rfqs -> Rfq] /\ rfq'[r].status = status /\ \A x \in Rfqs : x # r => rfq'[x] = rfq[x]
    BY DEF Mailed, MailTypes, Rfq
  <1>2. \A d \in Senders : Holds(d)'
    BY <1>1, OthersHold DEF RowFree, mailVars
  <1>3. MailLock'
    BY DEF Mailed, MailInv, MailLock, mailVars
  <1>4. DraftInv'
    BY <1>1, DraftKept DEF mailVars, Mailed, MailInv
  <1>. QED  BY <1>1, <1>2, <1>3, <1>4 DEF Mailed, MailTypes, MailInv, mailVars

LEMMA UpdateDraftMailed ==
    ASSUME Mailed, NEW r \in Rfqs, UpdateDraft(r)
    PROVE  Mailed'
  <1>. DEFINE row == [s \in Suppliers |-> [status |-> "draft", reminders |-> 0, waited |-> FALSE]]
  <1>1. row \in [Suppliers -> Recipient]
    BY DEF Recipient
  <1>2. recipient' = [recipient EXCEPT ![r] = row] /\ rfq' = [rfq EXCEPT ![r].overdue = FALSE]
        /\ UNCHANGED <<mailing, left, lost, reply>> /\ RowFree(r)
    BY DEF UpdateDraft
  <1>3. recipient' \in [Rfqs -> [Suppliers -> Recipient]] /\ recipient'[r] = row
        /\ \A x \in Rfqs : x # r => recipient'[x] = recipient[x]
    BY <1>1, <1>2 DEF Mailed, MailTypes
  <1>4. rfq' \in [Rfqs -> Rfq] /\ rfq'[r].status = rfq[r].status
        /\ \A x \in Rfqs : x # r => rfq'[x] = rfq[x]
    BY <1>2 DEF Mailed, MailTypes, Rfq
  <1>5. \A d \in Senders : Holds(d)'
    BY <1>2, <1>3, <1>4, OthersHold DEF RowFree
  <1>6. MailLock'
    BY <1>2 DEF Mailed, MailInv, MailLock
  <1>7. DraftInv'
    <2>1. \A x \in Rfqs : Replied(x)' = Replied(x)
      BY <1>2 DEF Replied
    <2>2. \A s \in Suppliers : row[s].status # "sent" /\ row[s].reminders = 0
      OBVIOUS
    <2>. QED  BY <1>3, <1>4, <2>1, <2>2 DEF Mailed, MailInv, DraftInv
  <1>. QED  BY <1>2, <1>3, <1>4, <1>5, <1>6, <1>7 DEF Mailed, MailTypes, MailInv

LEMMA TimeMailed ==
    ASSUME Mailed, NEW r \in Rfqs,
           PassNeededBy(r) \/ \E s \in Suppliers : Wait24Hours(r, s)
    PROVE  Mailed'
  <1>1. rfq' \in [Rfqs -> Rfq] /\ \A x \in Rfqs : rfq'[x].status = rfq[x].status
    <2>1. CASE PassNeededBy(r)
      BY <2>1 DEF PassNeededBy, Mailed, MailTypes, Rfq
    <2>2. ASSUME NEW s \in Suppliers, Wait24Hours(r, s)
          PROVE  rfq' \in [Rfqs -> Rfq] /\ \A x \in Rfqs : rfq'[x].status = rfq[x].status
      BY <2>2 DEF Wait24Hours, Mailed, MailTypes
    <2>. QED  BY <2>1, <2>2
  <1>2. recipient' \in [Rfqs -> [Suppliers -> Recipient]]
        /\ \A x \in Rfqs, y \in Suppliers :
              /\ recipient'[x][y].status = recipient[x][y].status
              /\ recipient'[x][y].reminders = recipient[x][y].reminders
    <2>1. CASE PassNeededBy(r)
      BY <2>1 DEF PassNeededBy, Mailed, MailTypes, mailVars
    <2>2. ASSUME NEW s \in Suppliers, Wait24Hours(r, s)
          PROVE  /\ recipient' \in [Rfqs -> [Suppliers -> Recipient]]
                 /\ \A x \in Rfqs, y \in Suppliers :
                       /\ recipient'[x][y].status = recipient[x][y].status
                       /\ recipient'[x][y].reminders = recipient[x][y].reminders
      <3>. DEFINE old == recipient[r]  cell == [old[s] EXCEPT !.waited = TRUE]
      <3>1. old \in [Suppliers -> Recipient]
        BY DEF Mailed, MailTypes
      <3>2. cell \in Recipient /\ cell.status = old[s].status /\ cell.reminders = old[s].reminders
        BY <3>1 DEF Recipient
      <3>3. recipient' = [recipient EXCEPT ![r][s] = cell]
        BY <2>2, <3>1 DEF Wait24Hours, Mailed, MailTypes, Recipient
      <3>. HIDE DEF cell
      <3>. QED  BY <3>2, <3>3 DEF Mailed, MailTypes
    <2>. QED  BY <2>1, <2>2
  <1>3. UNCHANGED <<mailing, left, lost, reply>>
    BY DEF PassNeededBy, Wait24Hours, mailVars
  <1>4. \A d \in Senders : Holds(d)'
    BY <1>1, <1>2, <1>3, HoldsKept, SenderState
  <1>5. MailLock'
    BY <1>3 DEF Mailed, MailInv, MailLock
  <1>6. DraftInv'
    BY <1>1, <1>2, <1>3, DraftKept DEF Mailed, MailInv
  <1>. QED  BY <1>1, <1>2, <1>3, <1>4, <1>5, <1>6 DEF Mailed, MailTypes, MailInv

LEMMA CancelMailed ==
    ASSUME Mailed, NEW r \in Rfqs, Cancel(r)
    PROVE  Mailed'
  BY StatusMailed DEF Cancel

LEMMA ReceiveMailed ==
    ASSUME Mailed, NEW p \in Replies, NEW r \in Rfqs, NEW s \in Suppliers, Receive(p, r, s)
    PROVE  Mailed'
  <1>. DEFINE new == [rfq |-> r, supplier |-> s, stage |-> "pending", archived |-> FALSE]
              open == rfq[r].status = "sent" /\ ~rfq[r].overdue
              status == IF open THEN "responded" ELSE rfq[r].status
  <1>1. reply' = [reply EXCEPT ![p] = new] /\ rfq' = [rfq EXCEPT ![r].status = status]
        /\ UNCHANGED mailVars /\ recipient[r][s].status = "sent" /\ (open => RowFree(r))
    BY DEF Receive, Mailed, MailTypes
  <1>2. reply' \in [Replies -> Reply]
    BY <1>1 DEF Mailed, MailTypes, Reply
  <1>3. rfq[r].status # "draft"
    BY <1>1 DEF Mailed, MailInv, DraftInv
  <1>4. rfq' \in [Rfqs -> Rfq] /\ \A x \in Rfqs : x # r \/ ~open => rfq'[x].status = rfq[x].status
    BY <1>1 DEF Mailed, MailTypes, Rfq
  <1>5. rfq'[r].status # "draft"
    BY <1>1, <1>3 DEF Mailed, MailTypes, Rfq
  <1>6. \A d \in Senders : Holds(d)'
    <2>1. ASSUME NEW d \in Senders, mailing[d].pc # "idle"
          PROVE  mailing[d].rfq \in Rfqs /\ rfq'[mailing[d].rfq].status = rfq[mailing[d].rfq].status
      BY <1>1, <1>4, <2>1, SenderState DEF RowFree
    <2>. QED  BY <1>1, <2>1, HoldsKept DEF mailVars
  <1>7. MailLock'
    BY <1>1 DEF Mailed, MailInv, MailLock, mailVars
  <1>8. DraftInv'
    <2>1. \A x \in Rfqs : x # r => Replied(x)' \subseteq Replied(x)
      BY <1>1 DEF Mailed, MailTypes, Replied
    <2>. QED  BY <1>1, <1>4, <1>5, <2>1 DEF Mailed, MailInv, DraftInv, mailVars
  <1>. QED  BY <1>1, <1>2, <1>4, <1>6, <1>7, <1>8 DEF Mailed, MailTypes, MailInv, mailVars

\* The review and the archive of a reply leave its RFQ alone.
LEMMA ReviewEffect ==
    ASSUME Mailed, NEW p \in Replies, Review(p) \/ Archive(p)
    PROVE  /\ UNCHANGED <<rfq, mailVars, prepVars>>
           /\ reply' \in [Replies -> Reply]
           /\ \A x \in Replies : /\ reply'[x].rfq = reply[x].rfq
                                 /\ reply'[x].stage = "absent" => reply[x].stage = "absent"
  <1>1. ASSUME NEW from, NEW to \in {"pending", "matched", "ready", "refused"}, Restage(p, from, to)
        PROVE  /\ UNCHANGED <<rfq, mailVars, prepVars>>
               /\ reply' \in [Replies -> Reply]
               /\ \A x \in Replies : /\ reply'[x].rfq = reply[x].rfq
                                     /\ reply'[x].stage = "absent" => reply[x].stage = "absent"
    BY <1>1 DEF Restage, Mailed, MailTypes, Reply
  <1>2. CASE Review(p)
    BY <1>1, <1>2 DEF Review
  <1>3. CASE Archive(p)
    BY <1>3 DEF Archive, Mailed, MailTypes, Reply
  <1>. QED  BY <1>2, <1>3

LEMMA ReviewMailed ==
    ASSUME Mailed, NEW p \in Replies, Review(p) \/ Archive(p)
    PROVE  Mailed'
  <1>1. \A d \in Senders : Holds(d)'
    BY ReviewEffect, HoldsKept DEF mailVars
  <1>2. MailLock'
    BY ReviewEffect DEF Mailed, MailInv, MailLock, mailVars
  <1>3. DraftInv'
    BY ReviewEffect, DraftKept DEF Mailed, MailInv, mailVars
  <1>. QED  BY <1>1, <1>2, <1>3, ReviewEffect DEF Mailed, MailTypes, MailInv, mailVars

-----------------------------------------------------------------------------
(* The preparations.                                                       *)

Prepared == PrepTypes /\ PrepInv /\ LinkInv

USE DEF Active, Locked, Known

LEMMA KeyFacts ==
    /\ \A k \in Keys : KeyRfq(k) = RfqOf[k] /\ KeyRfq(k) \in Rfqs /\ k # None
    /\ \A k \in GuardrailKeys : k \notin Keys /\ k[1] \in Rfqs /\ k[2] \in Guardrails
                                /\ KeyRfq(k) = k[1] /\ k # None
    /\ \A c \in People : c \notin Evaluators
  BY KeysAssumption, NamesAssumption DEF KeyRfq, GuardrailKeys

LEMMA UnansweredFacts ==
    ASSUME NEW pc \in {"idle", "refused", "died"}
    PROVE  Unanswered(pc) \in Prep /\ Unanswered(pc).pc = pc
  BY DEF Unanswered, Ended, Prep

LEMMA InitPrepared == Init => Prepared
  <1>. SUFFICES ASSUME Init PROVE Prepared
    OBVIOUS
  <1>1. \A c \in Callers : prep[c] \in Prep /\ prep[c].pc = "idle"
    BY UnansweredFacts DEF Init
  <1>2. request \in [Requests -> Request] /\ split \in [Splits -> Split] /\ event = {}
    BY DEF Init, Request, Split
  <1>3. PrepTypes
    BY <1>1, <1>2 DEF PrepTypes, Init
  <1>4. PrepInv
    <2>1. (\A c \in Callers : Ready(c)) /\ PrepLock
      BY <1>1 DEF Ready, PrepLock
    <2>2. EvaluatorLock
      BY <1>1 DEF EvaluatorLock, Callers
    <2>3. (\A q \in Requests : Owned(q)) /\ KeysUnique /\ SplitInv /\ ReplyInv
      BY DEF Init, Owned, KeysUnique, SplitInv, ReplyInv
    <2>. QED  BY <2>1, <2>2, <2>3 DEF PrepInv
  <1>5. LinkInv
    <2>1. \A r \in Rfqs : Linked(r) = {} /\ rfq[r].status # "converted"
      BY NamesAssumption DEF Init, Linked, Replied
    <2>2. EvaluatorInv
      BY <1>1, <1>2 DEF EvaluatorInv, Callers
    <2>. QED  BY <2>1, <2>2 DEF LinkInv, ConvertedExactlyWhenLinked, OnePreparationPerRfq
  <1>. QED  BY <1>3, <1>4, <1>5 DEF Prepared

\* Steps that are no preparation's: what a preparation has read is not taken from it.
LEMMA PrepKept ==
    ASSUME Mailed, Prepared, UNCHANGED prepVars,
           \A p \in Replies : reply'[p].rfq = reply[p].rfq \/ reply[p].rfq = None,
           ReplyInv',
           \A r \in Rfqs : rfq'[r].status = "converted" <=> rfq[r].status = "converted",
           \A r \in Rfqs : rfq[r].status \in {"sent", "responded"} /\ ~PrepareFree(r) =>
                              rfq'[r].status \in {"sent", "responded"}
    PROVE  Prepared'
  <1>1. UNCHANGED <<request, split, event, prep>>
    BY DEF prepVars
  <1>2. PrepTypes'
    BY <1>1 DEF Prepared, PrepTypes
  <1>3. \A c \in Callers : Ready(c)'
    <2>. SUFFICES ASSUME NEW c \in Callers PROVE Ready(c)'
      OBVIOUS
    <2>1. Ready(c)
      BY DEF Prepared, PrepInv
    <2>2. prep[c].pc \in Active => reply'[prep[c].reply].rfq = prep[c].rfq
      BY <2>1, QuietFacts DEF Ready
    <2>3. prep[c].pc \in Locked => rfq'[prep[c].rfq].status \in {"sent", "responded"}
      BY <2>1 DEF Ready, PrepareFree
    <2>. QED  BY <1>1, <2>1, <2>2, <2>3 DEF Ready
  <1>4. \A q \in Requests : Owned(q)'
    <2>. SUFFICES ASSUME NEW q \in Requests PROVE Owned(q)'
      OBVIOUS
    <2>1. Owned(q) /\ request[q] \in Request
      BY DEF Prepared, PrepInv, PrepTypes
    <2>2. request[q].source # None => reply'[request[q].source].rfq = reply[request[q].source].rfq
      BY <2>1, QuietFacts DEF Owned, Request
    <2>. QED  BY <1>1, <2>1, <2>2 DEF Owned
  <1>5. SplitInv'
    <2>. SUFFICES ASSUME NEW j \in Splits, split[j].status # "none"
                  PROVE  split[j].replies \subseteq Replied(split[j].rfq)'
      BY <1>1 DEF SplitInv, Prepared, PrepInv
    <2>1. split[j].rfq \in Rfqs /\ split[j].replies \subseteq Replied(split[j].rfq)
      BY DEF Prepared, PrepInv, SplitInv
    <2>. QED  BY <1>1, <2>1, QuietFacts DEF Replied
  <1>6. PrepLock' /\ EvaluatorLock' /\ KeysUnique'
    BY <1>1 DEF Prepared, PrepInv, PrepLock, EvaluatorLock, KeysUnique
  <1>7. \A r \in Rfqs : Linked(r)' = Linked(r)
    <2>. SUFFICES ASSUME NEW r \in Rfqs, NEW q \in Requests
                  PROVE  request[q].source \in Replied(r)' <=> request[q].source \in Replied(r)
      BY <1>1 DEF Linked
    <2>1. Owned(q) /\ request[q] \in Request
      BY DEF Prepared, PrepInv, PrepTypes
    <2>2. request[q].source # None => reply'[request[q].source].rfq = reply[request[q].source].rfq
      BY <2>1, QuietFacts DEF Owned, Request
    <2>3. None \notin Replies
      BY NamesAssumption
    <2>. QED  BY <2>2, <2>3 DEF Replied
  <1>8. LinkInv'
    <2>1. EvaluatorInv'
      BY <1>1 DEF Prepared, LinkInv, EvaluatorInv, Settled
    <2>2. ConvertedExactlyWhenLinked' /\ OnePreparationPerRfq'
      BY <1>1, <1>7 DEF Prepared, LinkInv, ConvertedExactlyWhenLinked, OnePreparationPerRfq
    <2>. QED  BY <2>1, <2>2 DEF LinkInv
  <1>. QED  BY <1>2, <1>3, <1>4, <1>5, <1>6, <1>8 DEF Prepared, PrepInv

\* No request of a key is linked before its RFQ is converted.
LEMMA NotLinkedYet ==
    ASSUME Prepared, NEW r \in Rfqs, rfq[r].status # "converted",
           NEW q \in Requests, request[q].key # None, KeyRfq(request[q].key) = r
    PROVE  request[q].source = None
  <1>1. Linked(r) = {}
    BY DEF Prepared, LinkInv, ConvertedExactlyWhenLinked
  <1>2. request[q].source # None => request[q].source \in Replied(r)
    BY DEF Prepared, PrepInv, Owned, PrepTypes, Request, Replied
  <1>. QED  BY <1>1, <1>2 DEF Linked

\* A caller moves and writes no row.
LEMMA CallerMoves ==
    ASSUME Prepared, NEW c \in Callers, NEW m \in Prep, prep' = [prep EXCEPT ![c] = m],
           UNCHANGED <<rfq, mailVars, reply, request, split, event>>,
           Ready(c)',
           m.pc \in Locked => PrepareFree(m.rfq) \/ (prep[c].pc \in Locked /\ m.rfq = prep[c].rfq),
           c \in Evaluators /\ m.pc \in Active =>
              EvaluatorFree(m.rfq) \/ (prep[c].pc \in Active /\ m.rfq = prep[c].rfq),
           m.pc = "judged" =>
              \A q \in Requests : request[q].key = m.key => request[q].source = None,
           m.pc = "record" => Settled(m.request, m.reply)
    PROVE  Prepared'
  <1>1. prep \in [Callers -> Prep] /\ prep' \in [Callers -> Prep] /\ prep'[c] = m
        /\ \A d \in Callers : d # c => prep'[d] = prep[d]
    BY DEF Prepared, PrepTypes
  <1>2. PrepTypes'
    BY <1>1 DEF Prepared, PrepTypes
  <1>3. ASSUME NEW d \in Callers, d # c PROVE Ready(d)'
    <2>1. Ready(d)
      BY DEF Prepared, PrepInv
    <2>. QED  BY <1>1, <1>3, <2>1 DEF Ready
  <1>4. PrepLock'
    <2>1. \A d \in Callers : d # c /\ m.pc \in Locked /\ prep[d].pc \in Locked => m.rfq # prep[d].rfq
      BY DEF Prepared, PrepInv, PrepLock, PrepareFree
    <2>. QED  BY <1>1, <2>1 DEF Prepared, PrepInv, PrepLock
  <1>5. EvaluatorLock'
    <2>1. \A d \in Evaluators : c \in Evaluators /\ d # c /\ m.pc \in Active /\ prep[d].pc \in Active =>
             m.rfq # prep[d].rfq
      BY DEF Prepared, PrepInv, EvaluatorLock, EvaluatorFree
    <2>. QED  BY <1>1, <2>1 DEF Prepared, PrepInv, EvaluatorLock, Callers
  <1>6. (\A q \in Requests : Owned(q)') /\ KeysUnique' /\ SplitInv' /\ ReplyInv'
    BY DEF Prepared, PrepInv, Owned, KeysUnique, SplitInv, Replied, ReplyInv
  <1>7. EvaluatorInv'
    <2>1. EvaluatorInv
      BY DEF Prepared, LinkInv
    <2>2. ASSUME NEW d \in Evaluators
          PROVE  /\ prep'[d].pc = "judged" =>
                       \A q \in Requests : request'[q].key = prep'[d].key => request'[q].source = None
                 /\ prep'[d].pc = "record" => Settled(prep[d].request, prep[d].reply)'
      BY <1>1, <2>1 DEF EvaluatorInv, Settled, Callers
    <2>3. \A e \in event' : Settled(e.request, e.reply)'
      BY <2>1 DEF EvaluatorInv, Settled
    <2>. QED  BY <2>2, <2>3 DEF EvaluatorInv
  <1>8. ConvertedExactlyWhenLinked' /\ OnePreparationPerRfq'
    BY DEF Prepared, LinkInv, ConvertedExactlyWhenLinked, OnePreparationPerRfq, Linked, Replied
  <1>. QED  BY <1>2, <1>3, <1>4, <1>5, <1>6, <1>7, <1>8 DEF Prepared, PrepInv, LinkInv

LEMMA CallerState ==
    ASSUME Prepared, NEW c \in Callers
    PROVE  prep[c] \in Prep /\ Ready(c)
  BY DEF Prepared, PrepTypes, PrepInv

LEMMA BeginFacts ==
    ASSUME Mailed, Prepared, NEW c \in Callers, NEW r \in Rfqs, NEW p, NEW k, Begin(c, r, p, k)
    PROVE  /\ PrepareFree(r) /\ p \in Replies /\ reply[p].rfq = r
           /\ \/ /\ rfq[r].status = "converted"
                 /\ \E q \in Requests :
                       /\ request[q].key = k /\ request[q].source # None
                       /\ prep' = [prep EXCEPT ![c] = Answered(c, r, p, k, q)]
              \/ /\ rfq[r].status \in {"sent", "responded"}
                 /\ prep' = [prep EXCEPT ![c] = [pc |-> "create", rfq |-> r, reply |-> p, key |-> k,
                                                 request |-> None, fresh |-> FALSE]]
  <1>1. p \in Replies /\ reply[p].rfq = r
    BY DEF Begin, Replied
  <1>2. rfq[r].status # "draft"
    BY <1>1 DEF Mailed, MailInv, DraftInv, Replied
  <1>3. None \notin Replies
    BY NamesAssumption
  <1>4. \A q \in SameKey(r, k) : q \in Requests /\ request[q].key = k /\ request[q].source # None
    BY <1>3 DEF SameKey, Linked, Replied
  <1>5. EffectiveStatus(r) = "converted" => rfq[r].status = "converted"
    BY DEF EffectiveStatus
  <1>6. EffectiveStatus(r) \in {"draft", "sent", "responded"} => rfq[r].status \in {"sent", "responded"}
    BY <1>2 DEF EffectiveStatus
  <1>. QED  BY <1>1, <1>4, <1>5, <1>6 DEF Begin

LEMMA StartPreparePrepared ==
    ASSUME Mailed, Prepared, NEW c \in People, NEW r \in Rfqs, NEW p \in Replies, NEW k \in Keys,
           StartPrepare(c, r, p, k)
    PROVE  Prepared'
  <1>. c \in Callers /\ c \notin Evaluators
    BY KeyFacts DEF Callers
  <1>1. Begin(c, r, p, k) /\ UNCHANGED <<rfq, mailVars, reply, request, split, event>>
        /\ KeyRfq(k) = r /\ k # None
    BY KeyFacts DEF StartPrepare
  <1>2. PrepareFree(r) /\ reply[p].rfq = r
    BY <1>1, BeginFacts
  <1>3. ASSUME NEW q \in Requests, request[q].key = k,
               prep' = [prep EXCEPT ![c] = Answered(c, r, p, k, q)]
        PROVE  Prepared'
    <2>. DEFINE m == Answered(c, r, p, k, q)
    <2>1. m \in Prep /\ m.pc = "done" /\ m.request = q /\ m.key = k
      BY DEF Answered, Ended, Prep
    <2>2. prep'[c] = m
      BY <1>3 DEF Prepared, PrepTypes
    <2>3. Ready(c)'
      BY <1>1, <1>3, <2>1, <2>2 DEF Ready
    <2>. HIDE DEF m
    <2>. QED  BY <1>1, <1>3, <2>1, <2>3, CallerMoves DEF m
  <1>4. ASSUME rfq[r].status \in {"sent", "responded"},
               prep' = [prep EXCEPT ![c] = [pc |-> "create", rfq |-> r, reply |-> p, key |-> k,
                                            request |-> None, fresh |-> FALSE]]
        PROVE  Prepared'
    <2>. DEFINE m == [pc |-> "create", rfq |-> r, reply |-> p, key |-> k,
                      request |-> None, fresh |-> FALSE]
    <2>1. m \in Prep /\ m.pc = "create" /\ m.rfq = r
      BY DEF Prep
    <2>2. prep'[c] = m
      BY <1>4 DEF Prepared, PrepTypes
    <2>3. Ready(c)'
      BY <1>1, <1>2, <1>4, <2>2 DEF Ready
    <2>. HIDE DEF m
    <2>. QED  BY <1>1, <1>2, <1>4, <2>1, <2>3, CallerMoves DEF m
  <1>. QED  BY <1>1, <1>3, <1>4, BeginFacts

LEMMA EvaluatePrepared ==
    ASSUME Mailed, Prepared, NEW c \in Evaluators, NEW r \in Rfqs, NEW g \in Guardrails,
           NEW p \in Replies, Evaluate(c, r, g, p)
    PROVE  Prepared'
  <1>. DEFINE m == [pc |-> "judged", rfq |-> r, reply |-> p, key |-> <<r, g>>,
                    request |-> None, fresh |-> FALSE]
  <1>. c \in Callers
    BY DEF Callers
  <1>1. <<r, g>> \in GuardrailKeys /\ KeyRfq(<<r, g>>) = r /\ <<r, g>> # None
    BY KeyFacts DEF GuardrailKeys
  <1>2. m \in Prep /\ m.pc = "judged" /\ m.rfq = r /\ m.key = <<r, g>>
    BY <1>1 DEF Prep
  <1>3. prep' = [prep EXCEPT ![c] = m] /\ UNCHANGED <<rfq, mailVars, reply, request, split, event>>
        /\ EvaluatorFree(r) /\ p \in Eligible(r)
    BY DEF Evaluate
  <1>4. prep'[c] = m
    BY <1>3 DEF Prepared, PrepTypes
  <1>5. Ready(c)'
    BY <1>1, <1>3, <1>4 DEF Ready, Eligible, Replied
  <1>6. rfq[r].status # "converted"
    BY DEF Evaluate, EffectiveStatus
  <1>7. \A q \in Requests : request[q].key = <<r, g>> => request[q].source = None
    BY <1>1, <1>6, NotLinkedYet
  <1>. HIDE DEF m
  <1>. QED  BY <1>2, <1>3, <1>5, <1>7, CallerMoves

\* A caller ends without an answer: nothing depends on it.
LEMMA UnansweredPrepared ==
    ASSUME Prepared, NEW c \in Callers, NEW pc \in {"refused", "died"},
           prep' = [prep EXCEPT ![c] = Unanswered(pc)],
           UNCHANGED <<rfq, mailVars, reply, request, split, event>>
    PROVE  Prepared'
  <1>1. Unanswered(pc) \in Prep /\ Unanswered(pc).pc = pc
    BY UnansweredFacts
  <1>2. prep'[c] = Unanswered(pc)
    BY DEF Prepared, PrepTypes
  <1>3. Ready(c)'
    BY <1>1, <1>2 DEF Ready
  <1>. QED  BY <1>1, <1>3, CallerMoves

LEMMA EvaluatorPreparesPrepared ==
    ASSUME Mailed, Prepared, NEW c \in Evaluators, EvaluatorPrepares(c)
    PROVE  Prepared'
  <1>. DEFINE r == prep[c].rfq  p == prep[c].reply  k == prep[c].key
  <1>. c \in Callers
    BY DEF Callers
  <1>1. prep[c].pc = "judged" /\ UNCHANGED <<rfq, mailVars, reply, request, split, event>>
    BY DEF EvaluatorPrepares
  <1>2. r \in Rfqs /\ p \in Replies /\ reply[p].rfq = r /\ k \in GuardrailKeys /\ KeyRfq(k) = r
    BY <1>1, CallerState DEF Ready
  <1>3. \A q \in Requests : request[q].key = k => request[q].source = None
    BY <1>1 DEF Prepared, LinkInv, EvaluatorInv
  <1>4. CASE Begin(c, r, p, k)
    <2>. DEFINE m == [pc |-> "create", rfq |-> r, reply |-> p, key |-> k,
                      request |-> None, fresh |-> FALSE]
    <2>1. PrepareFree(r) /\ rfq[r].status \in {"sent", "responded"} /\ prep' = [prep EXCEPT ![c] = m]
      BY <1>2, <1>3, <1>4, BeginFacts
    <2>2. m \in Prep /\ m.pc = "create" /\ m.rfq = r
      BY <1>2 DEF Prep
    <2>3. prep'[c] = m
      BY <2>1 DEF Prepared, PrepTypes
    <2>4. Ready(c)'
      BY <1>1, <1>2, <2>1, <2>3 DEF Ready
    <2>. HIDE DEF m
    <2>. QED  BY <1>1, <2>1, <2>2, <2>4, CallerMoves
  <1>5. CASE ~Begin(c, r, p, k)
    <2>1. prep' = [prep EXCEPT ![c] = Unanswered("refused")]
      BY <1>5 DEF EvaluatorPrepares
    <2>. QED  BY <1>1, <2>1, UnansweredPrepared
  <1>. QED  BY <1>4, <1>5

LEMMA RecordEventPrepared ==
    ASSUME Mailed, Prepared, NEW c \in Evaluators, RecordEvent(c)
    PROVE  Prepared'
  <1>. c \in Callers
    BY DEF Callers
  <1>. DEFINE m == Ended("done", prep[c].rfq, prep[c].key, prep[c].request)
              e == [guardrail |-> prep[c].key[2], reply |-> prep[c].reply, request |-> prep[c].request]
  <1>1. prep[c].pc = "record" /\ event' = event \cup {e} /\ prep' = [prep EXCEPT ![c] = m]
        /\ UNCHANGED <<rfq, mailVars, reply, request, split>>
    BY DEF RecordEvent, Prepared, PrepTypes
  <1>2. prep[c] \in Prep /\ Ready(c)
    BY CallerState
  <1>3. prep[c].key \in GuardrailKeys /\ prep[c].reply \in Replies /\ prep[c].request \in Requests
        /\ request[prep[c].request].key = prep[c].key /\ prep[c].key # None
    BY <1>1, <1>2 DEF Ready
  <1>4. e \in Event /\ m \in Prep /\ m.pc = "done" /\ m.request = prep[c].request /\ m.key = prep[c].key
    BY <1>2, <1>3, KeyFacts DEF Event, Prep, Ended
  <1>5. prep'[c] = m /\ \A d \in Callers : d # c => prep'[d] = prep[d]
    BY <1>1 DEF Prepared, PrepTypes
  <1>6. PrepTypes'
    BY <1>1, <1>4 DEF Prepared, PrepTypes
  <1>7. \A d \in Callers : Ready(d)'
    <2>1. Ready(c)'
      BY <1>1, <1>3, <1>4, <1>5 DEF Ready
    <2>2. ASSUME NEW d \in Callers, d # c PROVE Ready(d)'
      BY <1>1, <1>5, <2>2, CallerState DEF Ready
    <2>. QED  BY <2>1, <2>2
  <1>8. PrepLock' /\ EvaluatorLock'
    BY <1>4, <1>5 DEF Prepared, PrepInv, PrepLock, EvaluatorLock, Callers
  <1>9. (\A q \in Requests : Owned(q)') /\ KeysUnique' /\ SplitInv' /\ ReplyInv'
    BY <1>1 DEF Prepared, PrepInv, Owned, KeysUnique, SplitInv, Replied, ReplyInv
  <1>10. EvaluatorInv'
    <2>1. Settled(e.request, e.reply)
      BY <1>1 DEF Prepared, LinkInv, EvaluatorInv
    <2>. QED  BY <1>1, <1>4, <1>5, <2>1 DEF Prepared, LinkInv, EvaluatorInv, Settled, Callers
  <1>11. ConvertedExactlyWhenLinked' /\ OnePreparationPerRfq'
    BY <1>1 DEF Prepared, LinkInv, ConvertedExactlyWhenLinked, OnePreparationPerRfq, Linked, Replied
  <1>. QED  BY <1>6, <1>7, <1>8, <1>9, <1>10, <1>11 DEF Prepared, PrepInv, LinkInv

\* What a call in its critical section knows.
LEMMA LockedState ==
    ASSUME Prepared, NEW c \in Callers, prep[c].pc \in Locked
    PROVE  /\ prep[c].rfq \in Rfqs /\ prep[c].reply \in Replies
           /\ reply[prep[c].reply].rfq = prep[c].rfq
           /\ prep[c].key # None /\ KeyRfq(prep[c].key) = prep[c].rfq
           /\ prep[c].key \in Keys \cup GuardrailKeys
           /\ c \in Evaluators => prep[c].key \in GuardrailKeys
           /\ rfq[prep[c].rfq].status \in {"sent", "responded"}
           /\ \A q \in Requests : request[q].key = prep[c].key => request[q].source = None
  <1>1. /\ prep[c].rfq \in Rfqs /\ prep[c].reply \in Replies
        /\ reply[prep[c].reply].rfq = prep[c].rfq
        /\ prep[c].key \in IF c \in Evaluators THEN GuardrailKeys ELSE Keys
        /\ KeyRfq(prep[c].key) = prep[c].rfq
        /\ rfq[prep[c].rfq].status \in {"sent", "responded"}
    BY CallerState DEF Ready
  <1>2. prep[c].key # None
    BY <1>1, KeyFacts
  <1>3. \A q \in Requests : request[q].key = prep[c].key => request[q].source = None
    BY <1>1, <1>2, NotLinkedYet
  <1>. QED  BY <1>1, <1>2, <1>3

LEMMA DiePrepared ==
    ASSUME Prepared, NEW c \in Callers, Die(c) \/ FinishOther(c)
    PROVE  Prepared'
  <1>1. CASE Die(c)
    BY <1>1, UnansweredPrepared DEF Die
  <1>2. CASE FinishOther(c)
    <2>1. prep[c].request \in Requests /\ request[prep[c].request].key = prep[c].key
      BY <1>2, CallerState DEF Ready, FinishOther
    <2>2. request[prep[c].request].source = None
      BY <1>2, <2>1, LockedState DEF FinishOther
    <2>. QED  BY <1>2, <2>2, UnansweredPrepared DEF FinishOther
  <1>. QED  BY <1>1, <1>2

LEMMA FoundPrepared ==
    ASSUME Prepared, NEW c \in Callers, prep[c].pc = "create", NEW q \in Requests,
           request[q].key = prep[c].key,
           prep' = [prep EXCEPT ![c] = [@ EXCEPT !.request = q, !.pc = "finish"]],
           UNCHANGED <<rfq, mailVars, reply, request, split, event>>
    PROVE  Prepared'
  <1>. DEFINE m == [prep[c] EXCEPT !.request = q, !.pc = "finish"]
  <1>1. prep[c] \in Prep /\ Ready(c)
    BY CallerState
  <1>2. m \in Prep /\ m.pc = "finish" /\ m.request = q /\ m.rfq = prep[c].rfq
        /\ m.key = prep[c].key /\ m.reply = prep[c].reply
    BY <1>1 DEF Prep
  <1>3. prep' = [prep EXCEPT ![c] = m] /\ prep'[c] = m
    BY DEF Prepared, PrepTypes
  <1>4. Ready(c)'
    BY <1>1, <1>2, <1>3, LockedState DEF Ready
  <1>. HIDE DEF m
  <1>. QED  BY <1>2, <1>3, <1>4, CallerMoves

\* Rows of requests change; the links and the conversions, the RFQs and the replies do not.
LEMMA RequestsChange ==
    ASSUME Prepared, UNCHANGED <<rfq, mailVars, reply, split, event>>,
           request' \in [Requests -> Request], prep' \in [Callers -> Prep],
           \A d \in Callers : Ready(d)',
           PrepLock', EvaluatorLock', KeysUnique',
           \A q \in Requests :
              /\ request'[q].status = "none" => request'[q] = request[q]
              /\ request'[q].source = request[q].source /\ request'[q].group = request[q].group
              /\ request'[q].key = request[q].key \/ request[q].source = None
              /\ request[q].status = "left" => request'[q].status = "left",
           \A d \in Callers : prep[d].pc \notin Locked =>
              /\ prep'[d] = prep[d]
              /\ prep[d].pc = "judged" => 
                    \A q \in Requests : request'[q].key = prep[d].key => request[q].source = None,
           \A d \in Callers : prep[d].pc \in Locked => prep'[d].pc \in Locked
    PROVE  Prepared'
  <1>1. PrepTypes'
    BY DEF Prepared, PrepTypes
  <1>2. \A q \in Requests : Owned(q)'
    <2>. SUFFICES ASSUME NEW q \in Requests PROVE Owned(q)'
      OBVIOUS
    <2>1. Owned(q)
      BY DEF Prepared, PrepInv
    <2>. QED  BY <2>1 DEF Owned
  <1>3. SplitInv' /\ ReplyInv'
    BY DEF Prepared, PrepInv, SplitInv, Replied, ReplyInv
  <1>4. EvaluatorInv'
    <2>1. EvaluatorInv
      BY DEF Prepared, LinkInv
    <2>2. \A q \in Requests, p \in Replies : Settled(q, p) => Settled(q, p)'
      BY DEF Settled
    <2>3. ASSUME NEW d \in Evaluators
          PROVE  /\ prep'[d].pc = "judged" =>
                       \A q \in Requests : request'[q].key = prep'[d].key => request'[q].source = None
                 /\ prep'[d].pc = "record" => Settled(prep[d].request, prep[d].reply)'
      <3>1. d \in Callers
        BY DEF Callers
      <3>2. CASE prep[d].pc \in Locked
        BY <3>1, <3>2
      <3>3. CASE prep[d].pc \notin Locked
        <4>1. prep'[d] = prep[d] /\ Ready(d)
          BY <3>1, <3>3, CallerState
        <4>2. prep[d].pc = "record" => prep[d].request \in Requests /\ prep[d].reply \in Replies
          BY <4>1 DEF Ready
        <4>. QED  BY <2>1, <2>2, <3>1, <3>3, <4>1, <4>2 DEF EvaluatorInv, Settled
      <3>. QED  BY <3>2, <3>3
    <2>4. \A e \in event' : Settled(e.request, e.reply)'
      BY <2>1, <2>2 DEF EvaluatorInv, Prepared, PrepTypes, Event
    <2>. QED  BY <2>3, <2>4 DEF EvaluatorInv
  <1>5. ConvertedExactlyWhenLinked' /\ OnePreparationPerRfq'
    <2>1. \A r \in Rfqs : Linked(r)' = Linked(r)
      BY DEF Linked, Replied
    <2>2. \A r \in Rfqs : \A q \in Linked(r) : request'[q].group = request[q].group
      BY DEF Linked
    <2>. QED  BY <2>1, <2>2 DEF Prepared, LinkInv, ConvertedExactlyWhenLinked, OnePreparationPerRfq
  <1>. QED  BY <1>1, <1>2, <1>3, <1>4, <1>5 DEF Prepared, PrepInv, LinkInv

LEMMA CreatedPrepared ==
    ASSUME Prepared, NEW c \in Callers, prep[c].pc = "create", NEW q \in Requests,
           Named(prep[c].key) = {}, request[q].status = "none",
           request' = [request EXCEPT ![q].status = "draft", ![q].key = prep[c].key],
           prep' = [prep EXCEPT ![c].pc = "finish", ![c].request = q, ![c].fresh = TRUE],
           UNCHANGED <<rfq, mailVars, reply, split, event>>
    PROVE  Prepared'
  <1>. DEFINE k == prep[c].key
              m == [prep[c] EXCEPT !.pc = "finish", !.request = q, !.fresh = TRUE]
              n == [request[q] EXCEPT !.status = "draft", !.key = k]
  <1>1. prep[c] \in Prep /\ Ready(c) /\ request[q] \in Request /\ Owned(q)
    BY CallerState DEF Prepared, PrepTypes, PrepInv
  <1>2. m \in Prep /\ m.pc = "finish" /\ m.request = q /\ m.rfq = prep[c].rfq
        /\ m.key = k /\ m.reply = prep[c].reply
    BY <1>1 DEF Prep
  <1>3. prep' = [prep EXCEPT ![c] = m]
    BY DEF Prepared, PrepTypes
  <1>4. prep'[c] = m /\ prep' \in [Callers -> Prep] /\ \A d \in Callers : d # c => prep'[d] = prep[d]
    BY <1>2, <1>3 DEF Prepared, PrepTypes
  <1>5. n \in Request /\ n.status = "draft" /\ n.key = k /\ n.source = request[q].source
        /\ n.group = request[q].group
    BY <1>1, LockedState DEF Request
  <1>6. request' = [request EXCEPT ![q] = n]
    BY DEF Prepared, PrepTypes
  <1>7. request'[q] = n /\ request' \in [Requests -> Request]
        /\ \A o \in Requests : o # q => request'[o] = request[o]
    BY <1>5, <1>6 DEF Prepared, PrepTypes
  <1>8. request[q].source = None /\ request[q].key = None
    BY <1>1 DEF Owned
  <1>. HIDE DEF m, n
  <1>9. \A d \in Callers : Ready(d)'
    <2>1. Ready(c)'
      BY <1>1, <1>2, <1>4, <1>5, <1>7, LockedState DEF Ready
    <2>2. ASSUME NEW d \in Callers, d # c PROVE Ready(d)'
      <3>1. Ready(d)
        BY CallerState
      <3>2. prep[d].pc \in Known => prep[d].request # q
        BY <1>8, <3>1 DEF Ready
      <3>. QED  BY <1>4, <1>7, <2>2, <3>1, <3>2 DEF Ready
    <2>. QED  BY <2>1, <2>2
  <1>10. PrepLock' /\ EvaluatorLock'
    BY <1>2, <1>4 DEF Prepared, PrepInv, PrepLock, EvaluatorLock, Callers
  <1>11. KeysUnique'
    <2>1. \A o \in Requests : request[o].key # k
      BY DEF Named
    <2>. QED  BY <1>5, <1>7, <2>1 DEF Prepared, PrepInv, KeysUnique
  <1>12. \A o \in Requests :
            /\ request'[o].status = "none" => request'[o] = request[o]
            /\ request'[o].source = request[o].source /\ request'[o].group = request[o].group
            /\ request'[o].key = request[o].key \/ request[o].source = None
            /\ request[o].status = "left" => request'[o].status = "left"
    BY <1>5, <1>7, <1>8
  <1>13. \A d \in Callers : prep[d].pc \notin Locked =>
            /\ prep'[d] = prep[d]
            /\ prep[d].pc = "judged" =>
                  \A o \in Requests : request'[o].key = prep[d].key => request[o].source = None
    <2>. SUFFICES ASSUME NEW d \in Callers, prep[d].pc \notin Locked
                  PROVE  /\ prep'[d] = prep[d]
                         /\ prep[d].pc = "judged" =>
                              \A o \in Requests : request'[o].key = prep[d].key => request[o].source = None
      OBVIOUS
    <2>1. prep'[d] = prep[d]
      BY <1>4
    <2>2. prep[d].pc = "judged" => d \in Evaluators
      BY CallerState DEF Ready
    <2>. QED  BY <1>7, <1>8, <2>1, <2>2 DEF Prepared, LinkInv, EvaluatorInv
  <1>14. \A d \in Callers : prep[d].pc \in Locked => prep'[d].pc \in Locked
    BY <1>2, <1>4
  <1>. QED  BY <1>4, <1>7, <1>9, <1>10, <1>11, <1>12, <1>13, <1>14, RequestsChange

LEMMA CreateRequestPrepared ==
    ASSUME Prepared, NEW c \in Callers, CreateRequest(c)
    PROVE  Prepared'
  <1>1. prep[c].pc = "create" /\ UNCHANGED <<rfq, mailVars, reply, split, event>>
    BY DEF CreateRequest
  <1>2. CASE Named(prep[c].key) = {}
    <2>1. PICK q \in Requests :
            /\ Fresh({q})
            /\ request' = [request EXCEPT ![q].status = "draft", ![q].key = prep[c].key]
            /\ prep' = [prep EXCEPT ![c].pc = "finish", ![c].request = q, ![c].fresh = TRUE]
      BY <1>2 DEF CreateRequest
    <2>2. request[q].status = "none"
      BY <2>1 DEF Fresh
    <2>. QED  BY <1>1, <1>2, <2>1, <2>2, CreatedPrepared
  <1>3. CASE Named(prep[c].key) # {}
    <2>1. PICK q \in Named(prep[c].key) :
            /\ prep' = [prep EXCEPT ![c] =
                          IF request[q].source = None THEN [@ EXCEPT !.request = q, !.pc = "finish"]
                          ELSE Answered(c, @.rfq, @.reply, prep[c].key, q)]
            /\ UNCHANGED request
      BY <1>3 DEF CreateRequest
    <2>2. q \in Requests /\ request[q].key = prep[c].key
      BY DEF Named
    <2>3. request[q].source = None
      BY <1>1, <2>2, LockedState
    <2>. QED  BY <1>1, <2>1, <2>2, <2>3, FoundPrepared
  <1>. QED  BY <1>2, <1>3

LEMMA LeaveDraftPrepared ==
    ASSUME Prepared, NEW q \in Requests, LeaveDraft(q)
    PROVE  Prepared'
  <1>. DEFINE n == [request[q] EXCEPT !.status = "left"]
  <1>1. request[q] \in Request /\ request[q].status = "draft"
    BY DEF Prepared, PrepTypes, LeaveDraft
  <1>2. n \in Request /\ n.status = "left" /\ n.key = request[q].key /\ n.source = request[q].source
        /\ n.group = request[q].group
    BY <1>1 DEF Request
  <1>3. request' = [request EXCEPT ![q] = n] /\ UNCHANGED <<rfq, mailVars, reply, split, event, prep>>
    BY DEF LeaveDraft, Prepared, PrepTypes
  <1>4. request'[q] = n /\ request' \in [Requests -> Request]
        /\ \A o \in Requests : o # q => request'[o] = request[o]
    BY <1>2, <1>3 DEF Prepared, PrepTypes
  <1>. HIDE DEF n
  <1>5. \A o \in Requests :
           /\ request'[o].status = "none" => request'[o] = request[o]
           /\ request'[o].source = request[o].source /\ request'[o].group = request[o].group
           /\ request'[o].key = request[o].key
           /\ request[o].status = "left" => request'[o].status = "left"
    BY <1>2, <1>4
  <1>6. \A d \in Callers : Ready(d)'
    BY <1>3, <1>5, CallerState DEF Ready
  <1>7. PrepLock' /\ EvaluatorLock' /\ KeysUnique'
    BY <1>3, <1>5 DEF Prepared, PrepInv, PrepLock, EvaluatorLock, KeysUnique
  <1>8. \A d \in Callers : prep[d].pc = "judged" =>
           \A o \in Requests : request'[o].key = prep[d].key => request[o].source = None
    BY <1>5, CallerState DEF Prepared, LinkInv, EvaluatorInv, Ready
  <1>9. prep' \in [Callers -> Prep] /\ prep' = prep
    BY <1>3 DEF Prepared, PrepTypes
  <1>. QED  BY <1>3, <1>4, <1>5, <1>6, <1>7, <1>8, <1>9, RequestsChange

\* Some requests of an open RFQ are linked to its replies and the RFQ is converted.
LEMMA ConversionPrepared ==
    ASSUME Prepared, NEW r \in Rfqs, rfq[r].status \in {"sent", "responded"},
           rfq' = [rfq EXCEPT ![r].status = "converted"], rfq \in [Rfqs -> Rfq],
           UNCHANGED <<reply, event>>, PrepTypes',
           NEW ids \in SUBSET Requests, ids # {},
           \A q \in Requests \ ids : request'[q] = request[q],
           \A q \in ids :
              /\ request[q].source = None /\ request[q].status # "left"
              /\ request'[q].status # "none" /\ request'[q].source \in Replied(r)
              /\ request'[q].key = request[q].key
              /\ request[q].key # None => KeyRfq(request[q].key) = r,
           \A q, o \in ids :
              q # o => request'[q].group # None /\ request'[q].group = request'[o].group,
           \A j \in Splits : split'[j].status = split[j].status /\ split'[j].rfq = split[j].rfq
                             /\ split'[j].replies = split[j].replies,
           \A d \in Callers : Ready(d)',
           PrepLock', EvaluatorLock',
           \A d \in Evaluators : prep'[d].pc = "judged" =>
              prep'[d] = prep[d] /\ \A q \in ids : request[q].key # prep[d].key,
           \A d \in Evaluators : prep'[d].pc = "record" =>
              prep'[d] = prep[d] \/ Settled(prep[d].request, prep[d].reply)' 
    PROVE  Prepared'
  <1>1. rfq'[r].status = "converted" /\ \A x \in Rfqs : x # r => rfq'[x] = rfq[x]
    BY DEF Rfq
  <1>2. \A q \in Requests : Owned(q)'
    <2>. SUFFICES ASSUME NEW q \in Requests PROVE Owned(q)'
      OBVIOUS
    <2>1. Owned(q)
      BY DEF Prepared, PrepInv
    <2>. QED  BY <2>1 DEF Owned, Replied
  <1>3. KeysUnique'
    <2>1. \A q \in Requests : request'[q].key = request[q].key
      OBVIOUS
    <2>. QED  BY <2>1 DEF Prepared, PrepInv, KeysUnique
  <1>4. SplitInv' /\ ReplyInv'
    BY DEF Prepared, PrepInv, SplitInv, ReplyInv, Replied
  <1>5. Linked(r) = {}
    BY DEF Prepared, LinkInv, ConvertedExactlyWhenLinked
  <1>6. Linked(r)' = ids
    <2>1. Linked(r)' \subseteq ids
      BY <1>5 DEF Linked, Replied
    <2>2. ids \subseteq Linked(r)'
      BY DEF Linked, Replied
    <2>. QED  BY <2>1, <2>2
  <1>7. ASSUME NEW x \in Rfqs, x # r PROVE Linked(x)' = Linked(x)
    <2>1. \A q \in ids : q \notin Linked(x) /\ q \notin Linked(x)'
      BY <1>7, NamesAssumption DEF Linked, Replied
    <2>2. \A q \in Requests \ ids : q \in Linked(x) <=> q \in Linked(x)'
      BY DEF Linked, Replied
    <2>3. Linked(x) \subseteq Requests /\ Linked(x)' \subseteq Requests
      BY DEF Linked
    <2>. QED  BY <2>1, <2>2, <2>3
  <1>8. ConvertedExactlyWhenLinked'
    BY <1>1, <1>6, <1>7 DEF Prepared, LinkInv, ConvertedExactlyWhenLinked
  <1>9. OnePreparationPerRfq'
    <2>. SUFFICES ASSUME NEW x \in Rfqs, NEW q \in Linked(x)', NEW o \in Linked(x)', q # o
                  PROVE  request'[q].group # None /\ request'[q].group = request'[o].group
      BY DEF OnePreparationPerRfq
    <2>1. CASE x = r
      BY <1>6, <2>1
    <2>2. CASE x # r
      <3>1. q \in Linked(x) /\ o \in Linked(x)
        BY <1>7, <2>2
      <3>2. q \in Requests \ ids /\ o \in Requests \ ids
        BY <3>1, NamesAssumption DEF Linked, Replied
      <3>. QED  BY <3>1, <3>2 DEF Prepared, LinkInv, OnePreparationPerRfq
    <2>. QED  BY <2>1, <2>2
  <1>10. EvaluatorInv'
    <2>1. EvaluatorInv
      BY DEF Prepared, LinkInv
    <2>2. \A q \in Requests, p \in Replies : Settled(q, p) => Settled(q, p)'
      BY NamesAssumption DEF Settled
    <2>3. ASSUME NEW d \in Evaluators
          PROVE  /\ prep'[d].pc = "judged" =>
                       \A q \in Requests : request'[q].key = prep'[d].key => request'[q].source = None
                 /\ prep'[d].pc = "record" => Settled(prep[d].request, prep[d].reply)'
      <3>1. d \in Callers
        BY DEF Callers
      <3>2. prep[d].pc = "record" => prep[d].request \in Requests /\ prep[d].reply \in Replies
        BY <3>1, CallerState DEF Ready
      <3>3. prep[d].pc = "record" => Settled(prep[d].request, prep[d].reply)
        BY <2>1 DEF EvaluatorInv
      <3>4. ASSUME prep'[d].pc = "judged"
            PROVE  \A q \in Requests : request'[q].key = prep'[d].key => request'[q].source = None
        BY <2>1, <3>4 DEF EvaluatorInv
      <3>5. ASSUME prep'[d].pc = "record", prep'[d] = prep[d]
            PROVE  Settled(prep[d].request, prep[d].reply)'
        BY <2>2, <3>2, <3>3, <3>5 DEF Settled
      <3>. QED  BY <3>4, <3>5
    <2>4. \A e \in event' : Settled(e.request, e.reply)'
      BY <2>1, <2>2 DEF EvaluatorInv, Prepared, PrepTypes, Event
    <2>. QED  BY <2>3, <2>4 DEF EvaluatorInv
  <1>. QED  BY <1>2, <1>3, <1>4, <1>8, <1>9, <1>10 DEF Prepared, PrepInv, LinkInv

LEMMA AnswerFacts ==
    ASSUME Prepared, NEW c \in Callers, prep[c].pc = "finish"
    PROVE  /\ Answer(c) \in Prep
           /\ Answer(c).pc = IF c \in Evaluators THEN "record" ELSE "done"
           /\ Answer(c).key = prep[c].key /\ Answer(c).request = prep[c].request
           /\ Answer(c).rfq = prep[c].rfq
           /\ c \in Evaluators => Answer(c).reply = prep[c].reply
  <1>1. prep[c] \in Prep
    BY CallerState
  <1>. QED  BY <1>1 DEF Answer, Answered, Ended, Prep

LEMMA FinishPrepared ==
    ASSUME Mailed, Prepared, NEW c \in Callers, Finish(c)
    PROVE  Prepared'
  <1>. DEFINE q == prep[c].request  r == prep[c].rfq  p == prep[c].reply  m == Answer(c)
  <1>1. prep[c].pc = "finish" /\ prep' = [prep EXCEPT ![c] = m] /\ Link(c)
        /\ UNCHANGED <<mailVars, reply, split, event>>
    BY DEF Finish
  <1>2. q \in Requests /\ request[q].key = prep[c].key /\ r \in Rfqs /\ p \in Replies
        /\ reply[p].rfq = r /\ prep[c].key # None /\ KeyRfq(prep[c].key) = r
        /\ rfq[r].status \in {"sent", "responded"}
        /\ (c \in Evaluators => prep[c].key \in GuardrailKeys)
        /\ (c \notin Evaluators => prep[c].key \in Keys)
    BY <1>1, CallerState, LockedState DEF Ready
  <1>3. request[q].source = None /\ request[q] \in Request /\ Owned(q)
    BY <1>1, <1>2, LockedState DEF Prepared, PrepTypes, PrepInv
  <1>4. /\ m \in Prep
        /\ m.pc = IF c \in Evaluators THEN "record" ELSE "done"
        /\ m.key = prep[c].key /\ m.request = q /\ m.rfq = r
        /\ c \in Evaluators => m.reply = p
    BY <1>1, AnswerFacts
  <1>. HIDE DEF m
  <1>5. prep'[c] = m /\ prep' \in [Callers -> Prep] /\ \A d \in Callers : d # c => prep'[d] = prep[d]
    BY <1>1, <1>4 DEF Prepared, PrepTypes
  <1>6. CASE request[q].status # "draft"
    <2>1. UNCHANGED <<rfq, mailVars, reply, request, split, event>>
      BY <1>1, <1>6 DEF Link
    <2>2. request[q].status = "left"
      BY <1>2, <1>3, <1>6 DEF Owned, Request
    <2>3. Ready(c)'
      BY <1>2, <1>4, <1>5, <2>1 DEF Ready
    <2>4. m.pc = "record" => Settled(m.request, m.reply)
      BY <1>3, <1>4, <2>2 DEF Settled
    <2>. QED  BY <1>1, <1>4, <2>1, <2>3, <2>4, CallerMoves
  <1>7. CASE request[q].status = "draft"
    <2>. DEFINE n == [request[q] EXCEPT !.source = p]
    <2>1. request' = [request EXCEPT ![q] = n] /\ rfq' = [rfq EXCEPT ![r].status = "converted"]
      BY <1>1, <1>2, <1>7 DEF Link, Prepared, PrepTypes
    <2>2. n \in Request /\ n.status = "draft" /\ n.source = p /\ n.key = request[q].key
      BY <1>2, <1>3, <1>7 DEF Request
    <2>. HIDE DEF n
    <2>3. request'[q] = n /\ request' \in [Requests -> Request]
          /\ \A o \in Requests : o # q => request'[o] = request[o]
      BY <1>2, <2>1, <2>2 DEF Prepared, PrepTypes
    <2>4. \A x \in Rfqs : x # r => rfq'[x] = rfq[x]
      BY <2>1 DEF Mailed, MailTypes
    <2>5. \A o \in Requests : request'[o].key = request[o].key
      BY <2>2, <2>3
    <2>6. \A d \in Callers : Ready(d)'
      <3>1. Ready(c)'
        BY <1>2, <1>4, <1>5, <2>2, <2>3, <1>1 DEF Ready
      <3>2. ASSUME NEW d \in Callers, d # c PROVE Ready(d)'
        <4>1. Ready(d)
          BY CallerState
        <4>2. prep[d].pc \in Locked => prep[d].rfq # r
          BY <1>1, <3>2 DEF Prepared, PrepInv, PrepLock
        <4>. QED  BY <1>1, <1>5, <2>4, <2>5, <3>2, <4>1, <4>2 DEF Ready
      <3>. QED  BY <3>1, <3>2
    <2>7. PrepLock' /\ EvaluatorLock'
      BY <1>1, <1>4, <1>5 DEF Prepared, PrepInv, PrepLock, EvaluatorLock, Callers
    <2>8. ASSUME NEW d \in Evaluators, prep'[d].pc = "judged"
          PROVE  prep'[d] = prep[d] /\ request[q].key # prep[d].key
      <3>1. d \in Callers /\ d # c
        BY <1>4, <1>5, <2>8 DEF Callers
      <3>2. prep'[d] = prep[d] /\ Ready(d)
        BY <1>5, <3>1, CallerState
      <3>3. prep[d].key \in GuardrailKeys /\ KeyRfq(prep[d].key) = prep[d].rfq
        BY <2>8, <3>2 DEF Ready
      <3>4. c \in Evaluators => prep[d].rfq # r
        BY <1>1, <2>8, <3>1, <3>2 DEF Prepared, PrepInv, EvaluatorLock
      <3>5. c \notin Evaluators => prep[d].key \notin Keys
        BY <3>3, KeyFacts
      <3>. QED  BY <1>2, <3>2, <3>3, <3>4, <3>5
    <2>9. ASSUME NEW d \in Evaluators, prep'[d].pc = "record"
          PROVE  prep'[d] = prep[d] \/ Settled(prep[d].request, prep[d].reply)'
      <3>1. CASE d = c
        BY <1>4, <1>5, <2>2, <2>3, <2>9, <3>1 DEF Settled
      <3>2. CASE d # c
        BY <1>5, <3>2 DEF Callers
      <3>. QED  BY <3>1, <3>2
    <2>10. PrepTypes'
      BY <1>1, <1>5, <2>3 DEF Prepared, PrepTypes
    <2>11. p \in Replied(r) /\ rfq \in [Rfqs -> Rfq]
      BY <1>2 DEF Replied, Mailed, MailTypes
    <2>. HIDE DEF q, r, p
    <2>. QED
      <3>. DEFINE ids == {q}
      <3>1. ids \in SUBSET Requests /\ ids # {} /\ \A o \in Requests \ ids : request'[o] = request[o]
        BY <1>2, <2>3
      <3>2. \A o \in ids :
              /\ request[o].source = None /\ request[o].status # "left"
              /\ request'[o].status # "none" /\ request'[o].source \in Replied(r)
              /\ request'[o].key = request[o].key
              /\ request[o].key # None => KeyRfq(request[o].key) = r
        BY <1>2, <1>3, <1>7, <2>2, <2>3, <2>11
      <3>3. \A d \in Evaluators : prep'[d].pc = "judged" =>
              prep'[d] = prep[d] /\ \A o \in ids : request[o].key # prep[d].key
        BY <2>8
      <3>4. \A o, x \in ids :
               o # x => request'[o].group # None /\ request'[o].group = request'[x].group
        OBVIOUS
      <3>5. UNCHANGED <<reply, event>>
            /\ \A j \in Splits : split'[j].status = split[j].status /\ split'[j].rfq = split[j].rfq
                                /\ split'[j].replies = split[j].replies
        BY <1>1
      <3>6. \A d \in Evaluators : prep'[d].pc = "record" =>
               prep'[d] = prep[d] \/ Settled(prep[d].request, prep[d].reply)'
        BY <2>9
      <3>7. r \in Rfqs /\ rfq[r].status \in {"sent", "responded"}
            /\ rfq' = [rfq EXCEPT ![r].status = "converted"]
        BY <1>2, <2>1
      <3>. HIDE DEF ids
      <3>. QED  BY <2>6, <2>7, <2>10, <2>11, <3>1, <3>2, <3>3, <3>4, <3>5, <3>6, <3>7,
                   ConversionPrepared
  <1>. QED  BY <1>6, <1>7

\* The steps of a split before its preparation: the replies it keeps are replies to its RFQ.
LEMMA SplitMoves ==
    ASSUME Prepared, NEW j \in Splits, NEW v \in Split, split' = [split EXCEPT ![j] = v],
           v.status # "none" => v.rfq \in Rfqs /\ v.replies \subseteq Replied(v.rfq),
           UNCHANGED <<rfq, mailVars, reply, request, event, prep>>
    PROVE  Prepared'
  <1>1. split' \in [Splits -> Split] /\ split'[j] = v
        /\ \A i \in Splits : i # j => split'[i] = split[i]
    BY DEF Prepared, PrepTypes
  <1>2. SplitInv'
    BY <1>1 DEF Prepared, PrepInv, SplitInv, Replied
  <1>3. \A c \in Callers : Ready(c)'
    BY CallerState DEF Ready
  <1>4. PrepLock' /\ EvaluatorLock' /\ KeysUnique' /\ ReplyInv' /\ \A q \in Requests : Owned(q)'
    BY DEF Prepared, PrepInv, PrepLock, EvaluatorLock, KeysUnique, ReplyInv, Owned
  <1>5. EvaluatorInv'
    BY DEF Prepared, LinkInv, EvaluatorInv, Settled
  <1>6. ConvertedExactlyWhenLinked' /\ OnePreparationPerRfq'
    BY DEF Prepared, LinkInv, ConvertedExactlyWhenLinked, OnePreparationPerRfq, Linked, Replied
  <1>. QED  BY <1>1, <1>2, <1>3, <1>4, <1>5, <1>6 DEF Prepared, PrepTypes, PrepInv, LinkInv

LEMMA SplitPrepared ==
    ASSUME Prepared, NEW j \in Splits,
           CompleteSplit(j) \/ \E r \in Rfqs : StartSplit(j, r)
    PROVE  Prepared'
  <1>1. split[j] \in Split
    BY DEF Prepared, PrepTypes
  <1>2. CASE CompleteSplit(j)
    <2>. DEFINE v == [split[j] EXCEPT !.status = "completed"]
    <2>1. v \in Split /\ v.rfq = split[j].rfq /\ v.replies = split[j].replies
      BY <1>1 DEF Split
    <2>2. split' = [split EXCEPT ![j] = v]
          /\ UNCHANGED <<rfq, mailVars, reply, request, event, prep>>
      BY <1>2 DEF CompleteSplit, Prepared, PrepTypes
    <2>3. v.rfq \in Rfqs /\ v.replies \subseteq Replied(v.rfq)
      BY <1>2, <2>1 DEF CompleteSplit, Prepared, PrepInv, SplitInv
    <2>. QED  BY <2>1, <2>2, <2>3, SplitMoves
  <1>3. ASSUME NEW r \in Rfqs, StartSplit(j, r) PROVE Prepared'
    <2>. DEFINE v == [split[j] EXCEPT !.rfq = r, !.status = "queued", !.replies = Eligible(r)]
    <2>1. Eligible(r) \subseteq Replied(r) /\ Replied(r) \subseteq Replies
      BY DEF Eligible, Replied
    <2>2. v \in Split /\ v.rfq = r /\ v.replies = Eligible(r)
      BY <1>1, <2>1 DEF Split
    <2>3. split' = [split EXCEPT ![j] = v]
          /\ UNCHANGED <<rfq, mailVars, reply, request, event, prep>>
      BY <1>3 DEF StartSplit, Prepared, PrepTypes
    <2>. HIDE DEF v
    <2>. QED  BY <2>1, <2>2, <2>3, SplitMoves
  <1>. QED  BY <1>2, <1>3

\* What the preparation of a split does.
LEMMA PrepareSplitEffect ==
    ASSUME Mailed, Prepared, NEW j \in Splits, NEW k \in Keys, PrepareSplit(j, k)
    PROVE  \E r \in Rfqs, ids \in SUBSET Requests :
              /\ PrepareFree(r) /\ RowFree(r) /\ rfq[r].status \in {"sent", "responded"}
              /\ rfq' = [rfq EXCEPT ![r].status = "converted"]
              /\ ids # {}
              /\ \A q \in ids : request[q].status = "none" /\ request'[q].status = "draft"
                                /\ request'[q].key = None /\ request'[q].group = j
                                /\ request'[q].source \in Replied(r)
              /\ \A q \in Requests \ ids : request'[q] = request[q]
              /\ request' \in [Requests -> Request]
              /\ split' = [split EXCEPT ![j].key = k]
  <1>. DEFINE r == split[j].rfq
  <1>1. PICK ids \in SUBSET Requests, used \in SUBSET split[j].replies :
          /\ ids # {} /\ Fresh(ids)
          /\ \E source \in [ids -> used] :
                request' = [q \in Requests |->
                              IF q \in ids
                              THEN [status |-> "draft", key |-> None, source |-> source[q],
                                    group |-> j]
                              ELSE request[q]]
    BY DEF PrepareSplit
  <1>2. PICK source \in [ids -> used] :
          request' = [q \in Requests |->
                        IF q \in ids
                        THEN [status |-> "draft", key |-> None, source |-> source[q], group |-> j]
                        ELSE request[q]]
    BY <1>1
  <1>3. r \in Rfqs /\ used \subseteq Replied(r)
    BY DEF PrepareSplit, Prepared, PrepInv, SplitInv
  <1>4. rfq[r].status \in {"sent", "responded"}
    <2>1. Replied(r) # {}
      BY <1>1, <1>3
    <2>2. rfq[r].status # "draft"
      BY <1>3, <2>1 DEF Mailed, MailInv, DraftInv
    <2>3. EffectiveStatus(r) \in {"draft", "sent", "responded"}
      BY DEF PrepareSplit
    <2>. QED  BY <2>2, <2>3 DEF EffectiveStatus
  <1>5. \A q \in ids : request[q].status = "none" /\ q \in Requests /\ source[q] \in Replied(r)
    BY <1>1, <1>2, <1>3 DEF Fresh
  <1>6. \A q \in ids : [status |-> "draft", key |-> None, source |-> source[q], group |-> j] \in Request
    BY <1>5 DEF Request, Replied
  <1>7. request' \in [Requests -> Request]
    BY <1>2, <1>6 DEF Prepared, PrepTypes
  <1>8. \A q \in ids : request'[q] = [status |-> "draft", key |-> None, source |-> source[q], group |-> j]
    BY <1>2, <1>5
  <1>9. \A q \in Requests \ ids : request'[q] = request[q]
    BY <1>2
  <1>10. rfq' = [rfq EXCEPT ![r].status = "converted"]
    BY <1>3, <1>4 DEF PrepareSplit, Mailed, MailTypes
  <1>11. PrepareFree(r) /\ RowFree(r) /\ split' = [split EXCEPT ![j].key = k]
    BY DEF PrepareSplit
  <1>12. \A q \in ids : request[q].status = "none" /\ request'[q].status = "draft"
                        /\ request'[q].key = None /\ request'[q].group = j
                        /\ request'[q].source \in Replied(r)
    <2>. SUFFICES ASSUME NEW q \in ids
                  PROVE  request[q].status = "none" /\ request'[q].status = "draft"
                         /\ request'[q].key = None /\ request'[q].group = j
                         /\ request'[q].source \in Replied(r)
      OBVIOUS
    <2>. DEFINE new == [status |-> "draft", key |-> None, source |-> source[q], group |-> j]
    <2>1. request'[q] = new
      BY <1>8
    <2>2. new.status = "draft" /\ new.key = None /\ new.group = j /\ new.source = source[q]
      OBVIOUS
    <2>. HIDE DEF new, r
    <2>. QED  BY <1>5, <2>1, <2>2
  <1>. HIDE DEF r
  <1>. QED  BY <1>1, <1>3, <1>4, <1>7, <1>9, <1>10, <1>11, <1>12

LEMMA PrepareSplitPrepared ==
    ASSUME Mailed, Prepared, NEW j \in Splits, NEW k \in Keys, PrepareSplit(j, k)
    PROVE  Prepared'
  <1>1. PICK r \in Rfqs, ids \in SUBSET Requests :
          /\ PrepareFree(r) /\ RowFree(r) /\ rfq[r].status \in {"sent", "responded"}
          /\ rfq' = [rfq EXCEPT ![r].status = "converted"]
          /\ ids # {}
          /\ \A q \in ids : request[q].status = "none" /\ request'[q].status = "draft"
                            /\ request'[q].key = None /\ request'[q].group = j
                            /\ request'[q].source \in Replied(r)
          /\ \A q \in Requests \ ids : request'[q] = request[q]
          /\ request' \in [Requests -> Request]
          /\ split' = [split EXCEPT ![j].key = k]
    BY PrepareSplitEffect
  <1>2. UNCHANGED <<mailVars, reply, event, prep>>
    BY DEF PrepareSplit
  <1>3. \A q \in ids : request[q].key = None /\ request[q].source = None
    BY <1>1 DEF Prepared, PrepInv, Owned
  <1>4. \A i \in Splits : split'[i].status = split[i].status /\ split'[i].rfq = split[i].rfq
                          /\ split'[i].replies = split[i].replies
    <2>. DEFINE v == [split[j] EXCEPT !.key = k]
    <2>1. split' = [split EXCEPT ![j] = v]
      BY <1>1 DEF Prepared, PrepTypes
    <2>2. v.status = split[j].status /\ v.rfq = split[j].rfq /\ v.replies = split[j].replies
      BY DEF Prepared, PrepTypes, Split
    <2>. HIDE DEF v
    <2>. QED  BY <2>1, <2>2 DEF Prepared, PrepTypes
  <1>5. PrepTypes'
    <2>1. split' \in [Splits -> Split]
      BY <1>1 DEF Prepared, PrepTypes, Split
    <2>. QED  BY <1>1, <1>2, <2>1 DEF Prepared, PrepTypes
  <1>6. \A d \in Callers : Ready(d)'
    <2>. SUFFICES ASSUME NEW d \in Callers PROVE Ready(d)'
      OBVIOUS
    <2>1. Ready(d)
      BY CallerState
    <2>2. \A q \in Requests : request'[q].key = request[q].key
      BY <1>1, <1>3
    <2>3. prep[d].pc \in Locked => prep[d].rfq # r
      BY <1>1 DEF PrepareFree
    <2>4. \A x \in Rfqs : x # r => rfq'[x] = rfq[x]
      BY <1>1 DEF Mailed, MailTypes
    <2>. QED  BY <1>2, <2>1, <2>2, <2>3, <2>4 DEF Ready
  <1>7. PrepLock' /\ EvaluatorLock'
    BY <1>2 DEF Prepared, PrepInv, PrepLock, EvaluatorLock
  <1>8. \A q \in ids :
           /\ request[q].source = None /\ request[q].status # "left"
           /\ request'[q].status # "none" /\ request'[q].source \in Replied(r)
           /\ request'[q].key = request[q].key
           /\ request[q].key # None => KeyRfq(request[q].key) = r
    BY <1>1, <1>3
  <1>9. \A q, o \in ids :
           q # o => request'[q].group # None /\ request'[q].group = request'[o].group
    BY <1>1, NamesAssumption
  <1>10. \A d \in Evaluators : prep'[d].pc = "judged" =>
            prep'[d] = prep[d] /\ \A q \in ids : request[q].key # prep[d].key
    BY <1>2, <1>3, CallerState, KeyFacts DEF Ready, Callers
  <1>11. \A d \in Evaluators : prep'[d].pc = "record" =>
            prep'[d] = prep[d] \/ Settled(prep[d].request, prep[d].reply)'
    BY <1>2
  <1>12. rfq \in [Rfqs -> Rfq]
    BY DEF Mailed, MailTypes
  <1>. QED  BY <1>1, <1>2, <1>4, <1>5, <1>6, <1>7, <1>8, <1>9, <1>10, <1>11, <1>12,
               ConversionPrepared

-----------------------------------------------------------------------------
(* Every step keeps the invariant.                                         *)

LEMMA MailedStutter ==
    ASSUME Mailed, UNCHANGED <<rfq, mailVars, reply>>
    PROVE  Mailed'
  <1>1. \A d \in Senders : Holds(d)'
    BY HoldsKept DEF mailVars
  <1>2. MailLock' /\ DraftInv'
    BY DraftKept DEF Mailed, MailInv, MailLock, mailVars
  <1>. QED  BY <1>1, <1>2 DEF Mailed, MailTypes, MailInv, mailVars

LEMMA MailStepKeeps ==
    ASSUME Mailed, Prepared, MailStep
    PROVE  Mailed' /\ Prepared'
  <1>1. ASSUME UNCHANGED <<rfq, reply, prepVars>> PROVE Prepared'
    BY <1>1, PrepKept DEF Prepared, PrepInv, ReplyInv
  <1>2. ASSUME NEW c \in Senders, NEW r \in Rfqs, NEW s \in Suppliers,
               StartSend(c, r) \/ StartReminder(c, r, s) \/ Deliver(c, s) \/ FailDelivery(c, s)
               \/ Remind(c, s) \/ CommitReminder(c, s) \/ LoseSend(c) \/ LoseReminder(c)
               \/ Wait24Hours(r, s)
        PROVE  Mailed' /\ Prepared'
    <2>1. Mailed'
      BY <1>2, StartSendMailed, StartReminderMailed, DeliverMailed, FailDeliveryMailed,
         RemindMailed, CommitReminderMailed, LoseMailed, TimeMailed
    <2>2. UNCHANGED <<rfq, reply, prepVars>>
      BY <1>2 DEF StartSend, StartReminder, Deliver, FailDelivery, Remind, CommitReminder,
         LoseSend, LoseReminder, Wait24Hours
    <2>. QED  BY <1>1, <2>1, <2>2
  <1>3. ASSUME NEW r \in Rfqs, rfq'[r].status = "converted" <=> rfq[r].status = "converted",
               PrepareFree(r) \/ rfq[r].status = rfq'[r].status \/ rfq[r].status = "draft",
               \A x \in Rfqs : x # r => rfq'[x] = rfq[x], UNCHANGED <<reply, prepVars>>
        PROVE  Prepared'
    BY <1>3, PrepKept DEF Prepared, PrepInv, ReplyInv
  <1>4. ASSUME NEW c \in Senders, CommitSend(c) PROVE Mailed' /\ Prepared'
    <2>. DEFINE r == mailing[c].rfq
    <2>1. r \in Rfqs /\ Sending(c)
      BY <1>4, SenderState DEF CommitSend
    <2>2. rfq[r].status = rfq'[r].status \/ rfq[r].status = "draft"
      BY <1>4, <2>1 DEF CommitSend, Mailed, MailTypes, Rfq
    <2>3. rfq'[r].status \in Open /\ rfq[r].status \in Open
      BY <1>4, <2>1 DEF CommitSend, Mailed, MailTypes, Rfq, Sending, Open
    <2>4. \A x \in Rfqs : x # r => rfq'[x] = rfq[x]
      BY <1>4, <2>1 DEF CommitSend, Mailed, MailTypes
    <2>5. UNCHANGED <<reply, prepVars>>
      BY <1>4 DEF CommitSend
    <2>. QED  BY <1>3, <1>4, <2>1, <2>2, <2>3, <2>4, <2>5, CommitSendMailed DEF Open
  <1>5. ASSUME NEW r \in Rfqs, UpdateDraft(r) \/ Cancel(r) \/ PassNeededBy(r)
        PROVE  Mailed' /\ Prepared'
    <2>1. Mailed'
      <3>1. CASE UpdateDraft(r)
        BY <3>1, UpdateDraftMailed
      <3>2. CASE Cancel(r)
        BY <3>2, CancelMailed
      <3>3. CASE PassNeededBy(r)
        BY <3>3, TimeMailed
      <3>. QED  BY <1>5, <3>1, <3>2, <3>3
    <2>2. \A x \in Rfqs : x # r => rfq'[x] = rfq[x]
      BY <1>5 DEF UpdateDraft, Cancel, PassNeededBy, Mailed, MailTypes
    <2>3. rfq'[r].status = "converted" <=> rfq[r].status = "converted"
      BY <1>5 DEF UpdateDraft, Cancel, PassNeededBy, Mailed, MailTypes, Rfq
    <2>4. PrepareFree(r) \/ rfq[r].status = rfq'[r].status
      BY <1>5 DEF UpdateDraft, Cancel, PassNeededBy, Mailed, MailTypes, Rfq
    <2>5. UNCHANGED <<reply, prepVars>>
      BY <1>5 DEF UpdateDraft, Cancel, PassNeededBy
    <2>. QED  BY <1>3, <2>1, <2>2, <2>3, <2>4, <2>5
  <1>. QED
    <2>1. ASSUME NEW c \in Senders, NEW r \in Rfqs, StartSend(c, r) PROVE Mailed' /\ Prepared'
      <3>1. Mailed'
        BY <2>1, StartSendMailed
      <3>. QED  BY <1>1, <2>1, <3>1 DEF StartSend
    <2>2. ASSUME NEW c \in Senders, LoseSend(c) \/ LoseReminder(c) PROVE Mailed' /\ Prepared'
      <3>1. Mailed'
        BY <2>2, LoseMailed
      <3>. QED  BY <1>1, <2>2, <3>1 DEF LoseSend, LoseReminder
    <2>3. ASSUME NEW c \in Senders, NEW s \in Suppliers,
                 Deliver(c, s) \/ FailDelivery(c, s) \/ Remind(c, s) \/ CommitReminder(c, s)
          PROVE  Mailed' /\ Prepared'
      <3>1. mailing[c].rfq \in Rfqs
        BY <2>3, SenderState DEF Deliver, FailDelivery, Remind, CommitReminder
      <3>. QED  BY <1>2, <2>3, <3>1
    <2>. QED  BY <1>2, <1>4, <1>5, <2>1, <2>2, <2>3 DEF MailStep

LEMMA ReplyStepKeeps ==
    ASSUME Mailed, Prepared, ReplyStep
    PROVE  Mailed' /\ Prepared'
  <1>1. ASSUME NEW p \in Replies, NEW r \in Rfqs, NEW s \in Suppliers, Receive(p, r, s)
        PROVE  Mailed' /\ Prepared'
    <2>1. Mailed'
      BY <1>1, ReceiveMailed
    <2>2. reply[p].rfq = None
      BY <1>1 DEF Receive, Prepared, PrepInv, ReplyInv
    <2>3. \A x \in Replies : /\ x # p => reply'[x] = reply[x]
                             /\ reply'[p].stage = "pending"
      BY <1>1 DEF Receive, Mailed, MailTypes
    <2>4. ReplyInv'
      BY <2>3 DEF Prepared, PrepInv, ReplyInv
    <2>5. \A x \in Rfqs : \/ rfq'[x].status = rfq[x].status
                          \/ rfq[x].status = "sent" /\ rfq'[x].status = "responded"
      BY <1>1 DEF Receive, Mailed, MailTypes, Rfq
    <2>6. UNCHANGED prepVars
      BY <1>1 DEF Receive
    <2>. QED  BY <2>1, <2>2, <2>3, <2>4, <2>5, <2>6, PrepKept
  <1>2. ASSUME NEW p \in Replies, Review(p) \/ Archive(p) PROVE Mailed' /\ Prepared'
    <2>1. Mailed'
      BY <1>2, ReviewMailed
    <2>2. ReplyInv'
      BY <1>2, ReviewEffect DEF Prepared, PrepInv, ReplyInv
    <2>. QED  BY <1>2, <2>1, <2>2, ReviewEffect, PrepKept
  <1>. QED  BY <1>1, <1>2 DEF ReplyStep

LEMMA PrepStepKeeps ==
    ASSUME Mailed, Prepared, PrepStep
    PROVE  Mailed' /\ Prepared'
  <1>1. ASSUME NEW c \in People, NEW r \in Rfqs, NEW p \in Replies, NEW k \in Keys,
               StartPrepare(c, r, p, k)
        PROVE  Mailed' /\ Prepared'
    BY <1>1, StartPreparePrepared, MailedStutter DEF StartPrepare
  <1>2. ASSUME NEW c \in Callers, CreateRequest(c) \/ FinishOther(c) \/ Die(c)
        PROVE  Mailed' /\ Prepared'
    <2>1. UNCHANGED <<rfq, mailVars, reply>>
      BY <1>2 DEF CreateRequest, FinishOther, Die
    <2>. QED  BY <1>2, <2>1, CreateRequestPrepared, DiePrepared, MailedStutter
  <1>3. ASSUME NEW c \in Callers, Finish(c) PROVE Mailed' /\ Prepared'
    <2>1. Mailed'
      <3>1. CASE rfq' = rfq
        BY <1>3, <3>1, MailedStutter DEF Finish
      <3>2. CASE rfq' # rfq
        <4>1. prep[c].rfq \in Rfqs /\ rfq[prep[c].rfq].status \in {"sent", "responded"}
          BY <1>3, LockedState DEF Finish
        <4>2. RowFree(prep[c].rfq) /\ rfq' = [rfq EXCEPT ![prep[c].rfq].status = "converted"]
          BY <1>3, <3>2, <4>1 DEF Finish, Link, Mailed, MailTypes
        <4>. QED  BY <1>3, <4>1, <4>2, StatusMailed DEF Finish
      <3>. QED  BY <3>1, <3>2
    <2>. QED  BY <1>3, <2>1, FinishPrepared
  <1>4. ASSUME NEW c \in Evaluators, NEW r \in Rfqs, NEW g \in Guardrails, NEW p \in Replies,
               Evaluate(c, r, g, p)
        PROVE  Mailed' /\ Prepared'
    <2>1. UNCHANGED <<rfq, mailVars, reply>>
      BY <1>4 DEF Evaluate
    <2>. QED  BY <1>4, <2>1, EvaluatePrepared, MailedStutter
  <1>5. ASSUME NEW c \in Evaluators, EvaluatorPrepares(c) \/ RecordEvent(c)
        PROVE  Mailed' /\ Prepared'
    <2>1. UNCHANGED <<rfq, mailVars, reply>>
      BY <1>5 DEF EvaluatorPrepares, RecordEvent
    <2>. QED  BY <1>5, <2>1, EvaluatorPreparesPrepared, RecordEventPrepared, MailedStutter
  <1>6. ASSUME NEW q \in Requests, LeaveDraft(q) PROVE Mailed' /\ Prepared'
    BY <1>6, LeaveDraftPrepared, MailedStutter DEF LeaveDraft
  <1>7. ASSUME NEW j \in Splits, CompleteSplit(j) \/ \E r \in Rfqs : StartSplit(j, r)
        PROVE  Mailed' /\ Prepared'
    <2>1. UNCHANGED <<rfq, mailVars, reply>>
      BY <1>7 DEF CompleteSplit, StartSplit
    <2>. QED  BY <1>7, <2>1, SplitPrepared, MailedStutter
  <1>8. ASSUME NEW j \in Splits, NEW k \in Keys, PrepareSplit(j, k)
        PROVE  Mailed' /\ Prepared'
    <2>1. PICK r \in Rfqs : RowFree(r) /\ rfq' = [rfq EXCEPT ![r].status = "converted"]
      BY <1>8, PrepareSplitEffect
    <2>2. UNCHANGED <<mailVars, reply>>
      BY <1>8 DEF PrepareSplit
    <2>. QED  BY <1>8, <2>1, <2>2, StatusMailed, PrepareSplitPrepared
  <1>. QED  BY <1>1, <1>2, <1>3, <1>4, <1>5, <1>6, <1>7, <1>8 DEF PrepStep

LEMMA IInvParts == IInv <=> Mailed /\ Prepared
  BY TypeParts DEF IInv, Typed, Mailed, Prepared

LEMMA StepIInv == IInv /\ [Next]_vars => IInv'
  <1>. SUFFICES ASSUME Mailed, Prepared, [Next]_vars PROVE Mailed' /\ Prepared'
    BY IInvParts, PTL
  <1>1. CASE Next
    BY <1>1, MailStepKeeps, ReplyStepKeeps, PrepStepKeeps DEF Next
  <1>2. CASE UNCHANGED vars
    <2>1. UNCHANGED <<rfq, mailVars, reply, prepVars>>
      BY <1>2 DEF vars, mailVars, prepVars
    <2>. QED  BY <2>1, MailedStutter, PrepKept DEF Prepared, PrepInv, ReplyInv
  <1>. QED  BY <1>1, <1>2

LEMMA AlwaysIInv == Spec => []IInv
  <1>1. Init => IInv
    BY InitMailed, InitPrepared, IInvParts
  <1>. QED  BY <1>1, StepIInv, PTL DEF Spec

-----------------------------------------------------------------------------
(* The theorems.                                                           *)

\* The rows and the calls have their types, for any number of RFQs, suppliers and callers.
THEOREM TypesKept == Spec => []TypeOK
  <1>1. IInv => TypeOK
    BY DEF IInv, Typed
  <1>. QED  BY AlwaysIInv, <1>1, PTL

\* A preparation that dies anywhere leaves the link and the conversion both done or both undone.
THEOREM ConversionsLinked == Spec => []ConvertedExactlyWhenLinked
  <1>1. IInv => ConvertedExactlyWhenLinked
    BY DEF IInv, LinkInv
  <1>. QED  BY AlwaysIInv, <1>1, PTL

\* However many people, guardrails and splits race, one of them prepares an RFQ.
THEOREM PreparedOnce == Spec => []OnePreparationPerRfq
  <1>1. IInv => OnePreparationPerRfq
    BY DEF IInv, LinkInv
  <1>. QED  BY AlwaysIInv, <1>1, PTL

\* Every answer to one Idempotency-Key is the same request.
THEOREM ReplaysAgree == Spec => []ReplayAnswersSame
  <1>1. ASSUME IInv PROVE ReplayAnswersSame
    <2>1. \A c \in Callers : Ready(c)
      BY <1>1 DEF IInv, PrepInv
    <2>. QED  BY <1>1, <2>1 DEF ReplayAnswersSame, Ready, IInv, PrepInv, KeysUnique
  <1>. QED  BY AlwaysIInv, <1>1, PTL

\* A guardrail's event names the reply its request is linked to, or a request linked to none.
THEOREM EventsNameSources == Spec => []EventNamesSource
  <1>1. IInv => EventNamesSource
    BY DEF IInv, LinkInv, EvaluatorInv, Settled, EventNamesSource
  <1>. QED  BY AlwaysIInv, <1>1, PTL

\* No draft has replies that replacing its recipients could delete.
THEOREM DraftsUnanswered == Spec => []DraftHasNoReplies
  <1>1. IInv => DraftHasNoReplies
    BY DEF IInv, Typed, MailInv, DraftInv, DraftHasNoReplies
  <1>. QED  BY AlwaysIInv, <1>1, PTL

\* Mail leaves only for an RFQ that is open: the row lock outlasts the whole send.
THEOREM ClosedMailsNobody == Spec => NoMailAfterClose
  <1>1. ASSUME IInv, [Next]_vars
        PROVE  [\A kind \in Kinds, r \in Rfqs :
                  left'[kind][r] # left[kind][r] => rfq[r].status \in {"draft", "sent", "responded"}]_vars
    <2>. Mailed
      BY <1>1, IInvParts
    <2>. DEFINE Goal == \A kind \in Kinds, r \in Rfqs :
                  left'[kind][r] # left[kind][r] => rfq[r].status \in {"draft", "sent", "responded"}
    <2>. SUFFICES Goal
      OBVIOUS
    <2>1. ASSUME NEW c \in Senders, NEW s \in Suppliers, NEW kind \in Kinds,
                 mailing[c].pc # "idle", Leave(kind, mailing[c].rfq, s)
          PROVE  Goal
      <3>1. mailing[c].rfq \in Rfqs /\ rfq[mailing[c].rfq].status \in {"draft", "sent", "responded"}
        BY <2>1, SenderState DEF Sending, Reminding, Open, Mailing
      <3>. QED  BY <2>1, <3>1 DEF Leave, Mailed, MailTypes
    <2>2. CASE UNCHANGED left
      BY <2>2
    <2>3. CASE MailStep
      <3>1. ASSUME NEW c \in Senders, NEW s \in Suppliers,
                   Deliver(c, s) \/ FailDelivery(c, s) \/ Remind(c, s)
            PROVE  Goal
        BY <2>1, <2>2, <3>1, KindFacts DEF Deliver, FailDelivery, Remind
      <3>2. ASSUME NEW c \in Senders, NEW r \in Rfqs, NEW s \in Suppliers,
                   StartReminder(c, r, s) \/ Wait24Hours(r, s)
            PROVE  Goal
        BY <2>2, <3>2 DEF StartReminder, Wait24Hours
      <3>3. ASSUME NEW c \in Senders, NEW r \in Rfqs, StartSend(c, r) PROVE Goal
        BY <2>2, <3>3 DEF StartSend
      <3>4. ASSUME NEW c \in Senders, CommitSend(c) \/ LoseSend(c) \/ LoseReminder(c) PROVE Goal
        BY <2>2, <3>4 DEF CommitSend, LoseSend, LoseReminder
      <3>5. ASSUME NEW r \in Rfqs, UpdateDraft(r) \/ Cancel(r) \/ PassNeededBy(r) PROVE Goal
        BY <2>2, <3>5 DEF UpdateDraft, Cancel, PassNeededBy, mailVars
      <3>6. ASSUME NEW c \in Senders, NEW s \in Suppliers, CommitReminder(c, s) PROVE Goal
        BY <2>2, <3>6 DEF CommitReminder
      <3>. HIDE DEF Goal
      <3>. QED  BY <2>3, <3>1, <3>2, <3>3, <3>4, <3>5, <3>6 DEF MailStep
    <2>4. CASE ReplyStep
      <3>1. UNCHANGED left
        BY <2>4, ReviewEffect DEF ReplyStep, Receive, mailVars
      <3>. QED  BY <2>2, <3>1
    <2>5. CASE PrepStep
      <3>1. UNCHANGED left
        BY <2>5 DEF PrepStep, StartPrepare, CreateRequest, Finish, FinishOther, Die, Evaluate,
           EvaluatorPrepares, RecordEvent, LeaveDraft, StartSplit, CompleteSplit, PrepareSplit,
           mailVars
      <3>. QED  BY <2>2, <3>1
    <2>6. CASE UNCHANGED vars
      BY <2>2, <2>6 DEF vars
    <2>. HIDE DEF Goal
    <2>. QED  BY <1>1, <2>3, <2>4, <2>5, <2>6 DEF Next
  <1>. QED  BY AlwaysIInv, <1>1, PTL DEF Spec, NoMailAfterClose

LEMMA MailStepFrame ==
    ASSUME MailStep
    PROVE  UNCHANGED prepVars
  <1>1. ASSUME NEW c \in Senders, NEW r \in Rfqs, StartSend(c, r) PROVE UNCHANGED prepVars
    BY <1>1 DEF StartSend
  <1>2. ASSUME NEW c \in Senders, NEW r \in Rfqs, NEW s \in Suppliers,
               StartReminder(c, r, s) \/ Wait24Hours(r, s)
        PROVE  UNCHANGED prepVars
    BY <1>2 DEF StartReminder, Wait24Hours
  <1>3. ASSUME NEW c \in Senders, NEW s \in Suppliers,
               Deliver(c, s) \/ FailDelivery(c, s) \/ Remind(c, s) \/ CommitReminder(c, s)
        PROVE  UNCHANGED prepVars
    BY <1>3 DEF Deliver, FailDelivery, Remind, CommitReminder
  <1>4. ASSUME NEW c \in Senders, CommitSend(c) \/ LoseSend(c) \/ LoseReminder(c)
        PROVE  UNCHANGED prepVars
    BY <1>4 DEF CommitSend, LoseSend, LoseReminder
  <1>5. ASSUME NEW r \in Rfqs, UpdateDraft(r) \/ Cancel(r) \/ PassNeededBy(r)
        PROVE  UNCHANGED prepVars
    BY <1>5 DEF UpdateDraft, Cancel, PassNeededBy
  <1>. QED  BY <1>1, <1>2, <1>3, <1>4, <1>5 DEF MailStep

\* The request a step touches is a draft or new, and the RFQ is open.
LEMMA StepChanges ==
    ASSUME Mailed, Prepared, Next
    PROVE  /\ \A r \in Rfqs : rfq[r].status \in {"cancelled", "converted"} =>
                                 rfq'[r].status = rfq[r].status
           /\ \A q \in Requests : request[q].source # None =>
                                     request'[q].source = request[q].source
  <1>. DEFINE Closed == \A r \in Rfqs : rfq[r].status \in {"cancelled", "converted"} =>
                                           rfq'[r].status = rfq[r].status
              Fixed == \A q \in Requests : request[q].source # None =>
                                              request'[q].source = request[q].source
  <1>. SUFFICES Closed /\ Fixed
    OBVIOUS
  <1>1. ASSUME NEW r \in Rfqs, rfq[r].status \notin {"cancelled", "converted"},
               \A x \in Rfqs : x # r => rfq'[x] = rfq[x]
        PROVE  Closed
    BY <1>1
  <1>2. UNCHANGED rfq => Closed
    OBVIOUS
  <1>3. UNCHANGED request => Fixed
    OBVIOUS
  <1>4. CASE MailStep
    <2>1. Fixed
      <3>1. UNCHANGED request
        BY <1>4, MailStepFrame DEF prepVars
      <3>. QED  BY <1>3, <3>1
    <2>2. ASSUME NEW c \in Senders, CommitSend(c) PROVE Closed
      <3>1. mailing[c].rfq \in Rfqs /\ rfq[mailing[c].rfq].status \in Open
        BY <2>2, SenderState DEF CommitSend, Sending
      <3>. QED  BY <2>2, <3>1 DEF CommitSend, Mailed, MailTypes, Open
    <2>3. ASSUME NEW r \in Rfqs, UpdateDraft(r) \/ Cancel(r) \/ PassNeededBy(r) PROVE Closed
      BY <2>3 DEF UpdateDraft, Cancel, PassNeededBy, Mailed, MailTypes
    <2>4. UNCHANGED rfq \/ (\E c \in Senders : CommitSend(c))
          \/ (\E r \in Rfqs : UpdateDraft(r) \/ Cancel(r) \/ PassNeededBy(r))
      BY <1>4 DEF MailStep, StartSend, StartReminder, Wait24Hours, Deliver, FailDelivery, Remind,
         CommitReminder, LoseSend, LoseReminder
    <2>. HIDE DEF Closed, Fixed
    <2>. QED  BY <1>2, <2>1, <2>2, <2>3, <2>4
  <1>5. CASE ReplyStep
    <2>1. ASSUME NEW p \in Replies, NEW r \in Rfqs, NEW s \in Suppliers, Receive(p, r, s)
          PROVE  Closed /\ Fixed
      BY <2>1 DEF Receive, Mailed, MailTypes, prepVars
    <2>2. ASSUME NEW p \in Replies, Review(p) \/ Archive(p) PROVE Closed /\ Fixed
      BY <2>2, ReviewEffect DEF prepVars
    <2>. QED  BY <1>5, <2>1, <2>2 DEF ReplyStep
  <1>6. CASE PrepStep
    <2>1. ASSUME NEW c \in Callers, CreateRequest(c) PROVE Closed /\ Fixed
      <3>1. UNCHANGED request \/ \E q \in Requests :
               request' = [request EXCEPT ![q].status = "draft", ![q].key = prep[c].key]
        BY <2>1 DEF CreateRequest
      <3>2. ASSUME NEW q \in Requests,
                   request' = [request EXCEPT ![q].status = "draft", ![q].key = prep[c].key]
            PROVE  Fixed
        <4>. DEFINE n == [request[q] EXCEPT !.status = "draft", !.key = prep[c].key]
        <4>1. request' = [request EXCEPT ![q] = n]
          BY <3>2 DEF Prepared, PrepTypes
        <4>2. n.source = request[q].source
          BY DEF Prepared, PrepTypes, Request
        <4>. HIDE DEF n
        <4>. QED  BY <4>1, <4>2 DEF Prepared, PrepTypes
      <3>. QED  BY <1>2, <1>3, <2>1, <3>1, <3>2 DEF CreateRequest
    <2>2. ASSUME NEW c \in Callers, Finish(c) PROVE Closed /\ Fixed
      <3>1. prep[c].rfq \in Rfqs /\ rfq[prep[c].rfq].status \in {"sent", "responded"}
            /\ request[prep[c].request].source = None /\ prep[c].request \in Requests
        BY <2>2, LockedState, CallerState DEF Finish, Ready
      <3>2. CASE UNCHANGED <<request, rfq>>
        BY <3>2
      <3>3. CASE request' = [request EXCEPT ![prep[c].request].source = prep[c].reply]
                 /\ rfq' = [rfq EXCEPT ![prep[c].rfq].status = "converted"]
        BY <3>1, <3>3 DEF Mailed, MailTypes, Prepared, PrepTypes
      <3>. QED  BY <2>2, <3>1, <3>2, <3>3 DEF Finish, Link, Mailed, MailTypes
    <2>3. ASSUME NEW q \in Requests, LeaveDraft(q) PROVE Closed /\ Fixed
      BY <2>3 DEF LeaveDraft, Prepared, PrepTypes, Request
    <2>4. ASSUME NEW j \in Splits, NEW k \in Keys, PrepareSplit(j, k) PROVE Closed /\ Fixed
      <3>1. PICK r \in Rfqs, ids \in SUBSET Requests :
              /\ PrepareFree(r) /\ RowFree(r) /\ rfq[r].status \in {"sent", "responded"}
              /\ rfq' = [rfq EXCEPT ![r].status = "converted"]
              /\ ids # {}
              /\ \A q \in ids : request[q].status = "none" /\ request'[q].status = "draft"
                                /\ request'[q].key = None /\ request'[q].group = j
                                /\ request'[q].source \in Replied(r)
              /\ \A q \in Requests \ ids : request'[q] = request[q]
              /\ request' \in [Requests -> Request]
              /\ split' = [split EXCEPT ![j].key = k]
        BY <2>4, PrepareSplitEffect
      <3>2. \A q \in ids : request[q].source = None
        BY <3>1 DEF Prepared, PrepInv, Owned
      <3>. QED  BY <3>1, <3>2 DEF Mailed, MailTypes
    <2>5. \/ UNCHANGED <<rfq, request>>
          \/ \E c \in Callers : CreateRequest(c) \/ Finish(c)
          \/ \E q \in Requests : LeaveDraft(q)
          \/ \E j \in Splits, k \in Keys : PrepareSplit(j, k)
      BY <1>6 DEF PrepStep, StartPrepare, FinishOther, Die, Evaluate, EvaluatorPrepares,
         RecordEvent, StartSplit, CompleteSplit
    <2>6. UNCHANGED <<rfq, request>> => Closed /\ Fixed
      BY <1>2, <1>3
    <2>. HIDE DEF Closed, Fixed
    <2>. QED  BY <2>1, <2>2, <2>3, <2>4, <2>5, <2>6
  <1>. QED  BY <1>4, <1>5, <1>6 DEF Next

\* A cancelled or converted RFQ never opens again, and no link is moved to another reply.
THEOREM ClosedRfqsFinal == Spec => ClosedForGood
  <1>1. ASSUME IInv, [Next]_vars
        PROVE  [/\ \A r \in Rfqs : rfq[r].status \in {"cancelled", "converted"} =>
                                      rfq'[r].status = rfq[r].status
                /\ \A q \in Requests : request[q].source # None =>
                                          request'[q].source = request[q].source]_vars
    BY <1>1, IInvParts, StepChanges
  <1>. QED  BY AlwaysIInv, <1>1, PTL DEF Spec, ClosedForGood

-----------------------------------------------------------------------------
(* Mails.  At most one sender has mails in flight for an RFQ, so a step    *)
(* changes one term of the sum at a time.                                  *)

Out(kind, m) ==
    IF kind = "rfq" THEN m.sent ELSE IF m.pc = "reminded" THEN m.todo ELSE {}

Flight(kind, m, r, s) == IF m.rfq = r /\ s \in Out(kind, m) THEN 1 ELSE 0

InFlight(kind, r, s) == {d \in Senders : mailing[d].rfq = r /\ s \in Out(kind, mailing[d])}

LEMMA SentByInFlight ==
    ASSUME NEW kind \in Kinds, NEW r, NEW s
    PROVE  SentBy(kind, r, s) = Cardinality(InFlight(kind, r, s))
  BY DEF SentBy, InFlight, Out

LEMMA OneOrNone ==
    ASSUME NEW c, NEW T \in SUBSET {c}
    PROVE  Cardinality(T) = IF c \in T THEN 1 ELSE 0
  <1>1. CASE c \in T
    <2>1. T = {c}
      BY <1>1
    <2>. QED  BY <1>1, <2>1, FS_Singleton
  <1>2. CASE c \notin T
    <2>1. T = {}
      BY <1>2
    <2>. QED  BY <1>2, <2>1, FS_EmptySet
  <1>. QED  BY <1>1, <1>2

\* The books of one recipient balance before and after: a sender's step is accounted.
LEMMA SenderAccounts ==
    ASSUME Mailed, MailsAccounted, NEW c \in Senders, NEW R \in Rfqs, NEW m \in Mailing,
           mailing' = [mailing EXCEPT ![c] = m],
           mailing[c].rfq \in {R, None}, m.rfq \in {R, None},
           \A d \in Senders : d # c => mailing[d].rfq # R,
           \A kind \in Kinds, r \in Rfqs, s \in Suppliers : r # R =>
              /\ left'[kind][r][s] = left[kind][r][s] /\ lost'[kind][r][s] = lost[kind][r][s]
              /\ Recorded(kind, r, s)' = Recorded(kind, r, s),
           \A kind \in Kinds, s \in Suppliers :
              left[kind][R][s] = Recorded(kind, R, s) + Flight(kind, mailing[c], R, s) + lost[kind][R][s] =>
                 left'[kind][R][s] = Recorded(kind, R, s)' + Flight(kind, m, R, s) + lost'[kind][R][s]
    PROVE  MailsAccounted'
  <1>1. mailing'[c] = m /\ \A d \in Senders : d # c => mailing'[d] = mailing[d]
    BY DEF Mailed, MailTypes
  <1>2. R # None
    BY QuietFacts
  <1>. SUFFICES ASSUME NEW kind \in Kinds, NEW r \in Rfqs, NEW s \in Suppliers
                PROVE  left'[kind][r][s] = Recorded(kind, r, s)' + SentBy(kind, r, s)' + lost'[kind][r][s]
    BY DEF MailsAccounted
  <1>3. SentBy(kind, r, s) = Cardinality(InFlight(kind, r, s))
        /\ left[kind][r][s] = Recorded(kind, r, s) + SentBy(kind, r, s) + lost[kind][r][s]
    BY SentByInFlight DEF MailsAccounted
  <1>4. SentBy(kind, r, s)' = Cardinality(InFlight(kind, r, s)')
    BY DEF SentBy, InFlight, Out
  <1>5. CASE r # R
    <2>1. InFlight(kind, r, s)' = InFlight(kind, r, s)
      BY <1>1, <1>5, QuietFacts DEF InFlight
    <2>. QED  BY <1>3, <1>4, <1>5, <2>1
  <1>6. CASE r = R
    <2>1. InFlight(kind, r, s) \subseteq {c} /\ InFlight(kind, r, s)' \subseteq {c}
      BY <1>1, <1>6 DEF InFlight
    <2>2. c \in InFlight(kind, r, s) <=> mailing[c].rfq = R /\ s \in Out(kind, mailing[c])
      BY <1>6 DEF InFlight
    <2>3. c \in InFlight(kind, r, s)' <=> m.rfq = R /\ s \in Out(kind, m)
      BY <1>1, <1>6 DEF InFlight
    <2>4. Cardinality(InFlight(kind, r, s)) = Flight(kind, mailing[c], R, s)
      BY <2>1, <2>2, OneOrNone DEF Flight
    <2>5. Cardinality(InFlight(kind, r, s)') = Flight(kind, m, R, s)
      BY <2>1, <2>3, OneOrNone DEF Flight
    <2>. QED  BY <1>3, <1>4, <1>6, <2>4, <2>5
  <1>. QED  BY <1>5, <1>6

LEMMA LeaveAt ==
    ASSUME Mailed, NEW kind \in Kinds, NEW r \in Rfqs, NEW s \in Suppliers, Leave(kind, r, s),
           NEW k \in Kinds, NEW x \in Rfqs, NEW y \in Suppliers
    PROVE  left'[k][x][y] = left[k][x][y] + IF k = kind /\ x = r /\ y = s THEN 1 ELSE 0
  <1>1. left[k][x][y] \in Nat
    BY DEF Mailed, MailTypes
  <1>2. left[kind] \in [Rfqs -> [Suppliers -> Nat]] /\ left[kind][r] \in [Suppliers -> Nat]
    BY DEF Mailed, MailTypes
  <1>. QED  BY <1>1, <1>2 DEF Mailed, MailTypes, Leave

LEMMA LoseAt ==
    ASSUME Mailed, NEW kind \in Kinds, NEW r \in Rfqs, NEW gone \in SUBSET Suppliers,
           Lose(kind, r, gone), NEW k \in Kinds, NEW x \in Rfqs, NEW y \in Suppliers
    PROVE  lost'[k][x][y] = lost[k][x][y] + IF k = kind /\ x = r /\ y \in gone THEN 1 ELSE 0
  <1>. DEFINE row == [s \in Suppliers |-> lost[kind][r][s] + IF s \in gone THEN 1 ELSE 0]
  <1>1. lost' = [lost EXCEPT ![kind][r] = row]
    BY DEF Lose, Mailed, MailTypes
  <1>2. row[y] = lost[kind][r][y] + IF y \in gone THEN 1 ELSE 0
    OBVIOUS
  <1>3. lost[k][x][y] \in Nat
    BY NumbersAssumption DEF Mailed, MailTypes
  <1>. HIDE DEF row
  <1>4. CASE k = kind /\ x = r
    BY <1>1, <1>2, <1>4 DEF Mailed, MailTypes
  <1>5. CASE ~(k = kind /\ x = r)
    BY <1>1, <1>3, <1>5 DEF Mailed, MailTypes
  <1>. QED  BY <1>4, <1>5

LEMMA MailNumbers ==
    ASSUME Mailed, NEW kind \in Kinds, NEW r \in Rfqs, NEW s \in Suppliers
    PROVE  left[kind][r][s] \in Nat /\ lost[kind][r][s] \in Nat /\ Recorded(kind, r, s) \in Nat
  <1>1. left[kind][r][s] \in Nat /\ lost[kind][r][s] \in Nat
    BY NumbersAssumption DEF Mailed, MailTypes
  <1>2. recipient[r][s].reminders \in Nat
    <2>1. recipient[r][s] \in Recipient
      BY DEF Mailed, MailTypes
    <2>. QED  BY <2>1 DEF Recipient
  <1>. QED  BY <1>1, <1>2 DEF Recorded

\* A sender that has the row of an RFQ has it alone.
LEMMA Alone ==
    ASSUME Mailed, NEW c \in Senders, mailing[c].rfq \in Rfqs
    PROVE  \A d \in Senders : d # c => mailing[d].rfq # mailing[c].rfq
  BY QuietFacts DEF Mailed, MailInv, MailLock

LEMMA StartAccounts ==
    ASSUME Mailed, MailsAccounted, NEW c \in Senders, NEW r \in Rfqs,
           StartSend(c, r) \/ \E s \in Suppliers : StartReminder(c, r, s)
    PROVE  MailsAccounted'
  <1>1. mailing[c] = Quiet /\ RowFree(r) /\ UNCHANGED <<recipient, left, lost>>
    BY DEF StartSend, StartReminder, Sendable, Mailed, MailInv, Holds
  <1>2. ASSUME NEW m \in Mailing, mailing' = [mailing EXCEPT ![c] = m], m.rfq = r,
               \A kind \in Kinds : Out(kind, m) = {}
        PROVE  MailsAccounted'
    <2>1. \A kind \in Kinds, x \in Rfqs, s \in Suppliers : Recorded(kind, x, s)' = Recorded(kind, x, s)
      BY <1>1 DEF Recorded
    <2>2. mailing[c].rfq = None /\ \A d \in Senders : mailing[d].rfq # r
      BY <1>1, QuietFacts DEF RowFree
    <2>3. \A kind \in Kinds, s \in Suppliers :
             Flight(kind, m, r, s) = 0 /\ Flight(kind, mailing[c], r, s) = 0
      BY <1>2, <2>2, QuietFacts DEF Flight
    <2>4. \A kind \in Kinds, s \in Suppliers :
             left[kind][r][s] = Recorded(kind, r, s) + Flight(kind, mailing[c], r, s) + lost[kind][r][s] =>
                left'[kind][r][s] = Recorded(kind, r, s)' + Flight(kind, m, r, s) + lost'[kind][r][s]
      BY <1>1, <2>1, <2>3
    <2>5. \A kind \in Kinds, x \in Rfqs, s \in Suppliers : x # r =>
             /\ left'[kind][x][s] = left[kind][x][s] /\ lost'[kind][x][s] = lost[kind][x][s]
             /\ Recorded(kind, x, s)' = Recorded(kind, x, s)
      BY <1>1, <2>1
    <2>6. mailing[c].rfq \in {r, None} /\ m.rfq \in {r, None}
      BY <1>2, <2>2
    <2>7. \A d \in Senders : d # c => mailing[d].rfq # r
      BY <2>2
    <2>. QED  BY <1>2, <2>4, <2>5, <2>6, <2>7, SenderAccounts
  <1>3. CASE StartSend(c, r)
    <2>. DEFINE m == [pc |-> "sending", rfq |-> r, todo |-> Unsent(r) \ NoAddress, sent |-> {},
                      failed |-> Unsent(r) \cap NoAddress]
    <2>1. m \in Mailing /\ m.rfq = r /\ m.sent = {} /\ m.pc = "sending"
      BY DEF Mailing, Unsent
    <2>2. mailing' = [mailing EXCEPT ![c] = m]
      BY <1>3 DEF StartSend
    <2>. HIDE DEF m
    <2>. QED  BY <1>2, <2>1, <2>2 DEF Out
  <1>4. ASSUME NEW s \in Suppliers, StartReminder(c, r, s) PROVE MailsAccounted'
    <2>. DEFINE m == [Quiet EXCEPT !.pc = "reminding", !.rfq = r, !.todo = {s}]
    <2>1. m \in Mailing /\ m.rfq = r /\ m.pc = "reminding" /\ m.sent = {}
      BY DEF Mailing, Quiet
    <2>2. mailing' = [mailing EXCEPT ![c] = m]
      BY <1>4 DEF StartReminder
    <2>. HIDE DEF m
    <2>. QED  BY <1>2, <2>1, <2>2 DEF Out
  <1>. QED  BY <1>3, <1>4

LEMMA DeliverAccounts ==
    ASSUME Mailed, MailsAccounted, NEW c \in Senders, NEW s \in Suppliers,
           Deliver(c, s) \/ FailDelivery(c, s)
    PROVE  MailsAccounted'
  <1>0. PICK R \in Rfqs : mailing[c].rfq = R
    BY SenderState DEF Deliver, FailDelivery
  <1>1. mailing[c] \in Mailing /\ mailing[c].pc = "sending" /\ s \in mailing[c].todo
        /\ s \notin mailing[c].sent
    BY SenderState DEF Deliver, FailDelivery, Sending
  <1>2. \A kind \in Kinds, x \in Rfqs, y \in Suppliers : Recorded(kind, x, y)' = Recorded(kind, x, y)
    BY DEF Deliver, FailDelivery, Recorded
  <1>3. ASSUME NEW m \in Mailing, mailing' = [mailing EXCEPT ![c] = m], m.rfq = R, m.pc = "sending",
               \A kind \in Kinds, x \in Rfqs, y \in Suppliers : x # R =>
                  left'[kind][x][y] = left[kind][x][y] /\ lost'[kind][x][y] = lost[kind][x][y],
               \A kind \in Kinds, y \in Suppliers :
                  left[kind][R][y] = Recorded(kind, R, y)
                       + (IF y \in Out(kind, mailing[c]) THEN 1 ELSE 0) + lost[kind][R][y] =>
                     left'[kind][R][y] = Recorded(kind, R, y)
                       + (IF y \in Out(kind, m) THEN 1 ELSE 0) + lost'[kind][R][y]
        PROVE  MailsAccounted'
    <2>2. \A kind \in Kinds, y \in Suppliers :
             left[kind][R][y] = Recorded(kind, R, y) + Flight(kind, mailing[c], R, y) + lost[kind][R][y] =>
                left'[kind][R][y] = Recorded(kind, R, y)' + Flight(kind, m, R, y) + lost'[kind][R][y]
      BY <1>0, <1>2, <1>3 DEF Flight
    <2>3. \A kind \in Kinds, x \in Rfqs, y \in Suppliers : x # R =>
             /\ left'[kind][x][y] = left[kind][x][y] /\ lost'[kind][x][y] = lost[kind][x][y]
             /\ Recorded(kind, x, y)' = Recorded(kind, x, y)
      BY <1>2, <1>3
    <2>4. \A d \in Senders : d # c => mailing[d].rfq # R
      BY <1>0, Alone
    <2>5. mailing[c].rfq \in {R, None} /\ m.rfq \in {R, None}
      BY <1>0, <1>3
    <2>. QED  BY <1>3, <2>2, <2>3, <2>4, <2>5, SenderAccounts
  <1>4. CASE Deliver(c, s)
    <2>. DEFINE m == [mailing[c] EXCEPT !.todo = @ \ {s}, !.sent = @ \cup {s}]
    <2>1. m \in Mailing /\ m.rfq = R /\ m.pc = "sending" /\ m.sent = mailing[c].sent \cup {s}
      BY <1>0, <1>1 DEF Mailing
    <2>2. mailing' = [mailing EXCEPT ![c] = m] /\ Leave("rfq", R, s) /\ UNCHANGED lost
      BY <1>0, <1>4 DEF Deliver, Mailed, MailTypes
    <2>. HIDE DEF m
    <2>3. \A kind \in Kinds, x \in Rfqs, y \in Suppliers :
             left'[kind][x][y] = left[kind][x][y] + IF kind = "rfq" /\ x = R /\ y = s THEN 1 ELSE 0
      BY <1>1, <2>2, LeaveAt, KindFacts
    <2>4. \A kind \in Kinds, x \in Rfqs, y \in Suppliers : left[kind][x][y] \in Nat
             /\ lost[kind][x][y] \in Nat /\ Recorded(kind, x, y) \in Nat
      BY MailNumbers
    <2>5. \A kind \in Kinds, y \in Suppliers :
            (IF y \in Out(kind, m) THEN 1 ELSE 0) =
              (IF y \in Out(kind, mailing[c]) THEN 1 ELSE 0)
                + IF kind = "rfq" /\ y = s THEN 1 ELSE 0
      BY <1>1, <2>1 DEF Out
    <2>6. \A kind \in Kinds, x \in Rfqs, y \in Suppliers : x # R =>
             left'[kind][x][y] = left[kind][x][y] /\ lost'[kind][x][y] = lost[kind][x][y]
      BY <2>2, <2>3, <2>4
    <2>7. \A kind \in Kinds, y \in Suppliers :
             left[kind][R][y] = Recorded(kind, R, y)
                  + (IF y \in Out(kind, mailing[c]) THEN 1 ELSE 0) + lost[kind][R][y] =>
                left'[kind][R][y] = Recorded(kind, R, y)
                  + (IF y \in Out(kind, m) THEN 1 ELSE 0) + lost'[kind][R][y]
      BY <1>1, <2>2, <2>3, <2>4, <2>5
    <2>. QED  BY <1>3, <2>1, <2>2, <2>6, <2>7
  <1>5. CASE FailDelivery(c, s)
    <2>. DEFINE m == [mailing[c] EXCEPT !.todo = @ \ {s}, !.failed = @ \cup {s}]
    <2>1. m \in Mailing /\ m.rfq = R /\ m.pc = "sending" /\ m.sent = mailing[c].sent
      BY <1>0, <1>1 DEF Mailing
    <2>2. mailing' = [mailing EXCEPT ![c] = m]
          /\ (UNCHANGED <<left, lost>> \/ (Leave("rfq", R, s) /\ Lose("rfq", R, {s})))
      BY <1>0, <1>5 DEF FailDelivery, Mailed, MailTypes
    <2>. HIDE DEF m
    <2>3. \A kind \in Kinds, x \in Rfqs, y \in Suppliers : left[kind][x][y] \in Nat
             /\ lost[kind][x][y] \in Nat /\ Recorded(kind, x, y) \in Nat
      BY MailNumbers
    <2>4. \A kind \in Kinds : Out(kind, m) = Out(kind, mailing[c])
      BY <1>1, <2>1 DEF Out
    <2>5. CASE UNCHANGED <<left, lost>>
      BY <1>1, <1>3, <2>1, <2>2, <2>4, <2>5
    <2>6. CASE Leave("rfq", R, s) /\ Lose("rfq", R, {s})
      <3>1. \A kind \in Kinds, x \in Rfqs, y \in Suppliers :
               left'[kind][x][y] = left[kind][x][y] + IF kind = "rfq" /\ x = R /\ y = s THEN 1 ELSE 0
        BY <1>1, <2>6, LeaveAt, KindFacts
      <3>2. \A kind \in Kinds, x \in Rfqs, y \in Suppliers :
               lost'[kind][x][y] = lost[kind][x][y] + IF kind = "rfq" /\ x = R /\ y = s THEN 1 ELSE 0
        BY <1>1, <2>6, LoseAt, KindFacts
      <3>3. \A kind \in Kinds, x \in Rfqs, y \in Suppliers : x # R =>
               left'[kind][x][y] = left[kind][x][y] /\ lost'[kind][x][y] = lost[kind][x][y]
        BY <2>3, <3>1, <3>2
      <3>4. \A kind \in Kinds, y \in Suppliers :
               left[kind][R][y] = Recorded(kind, R, y)
                    + (IF y \in Out(kind, mailing[c]) THEN 1 ELSE 0) + lost[kind][R][y] =>
                  left'[kind][R][y] = Recorded(kind, R, y)
                    + (IF y \in Out(kind, m) THEN 1 ELSE 0) + lost'[kind][R][y]
        BY <1>1, <2>3, <2>4, <3>1, <3>2
      <3>. QED  BY <1>3, <2>1, <2>2, <3>3, <3>4
    <2>. QED  BY <2>2, <2>5, <2>6
  <1>. QED  BY <1>4, <1>5

\* A sender lets the row go: what it had in flight is recorded or lost.
LEMMA LetGoAccounts ==
    ASSUME Mailed, MailsAccounted, NEW c \in Senders, NEW R \in Rfqs, mailing[c].rfq = R,
           mailing' = [mailing EXCEPT ![c] = Quiet], UNCHANGED left,
           \A kind \in Kinds, r \in Rfqs, s \in Suppliers : r # R =>
              lost'[kind][r][s] = lost[kind][r][s] /\ Recorded(kind, r, s)' = Recorded(kind, r, s),
           \A kind \in Kinds, s \in Suppliers :
              Recorded(kind, R, s)' + lost'[kind][R][s]
                 = Recorded(kind, R, s) + lost[kind][R][s]
                     + IF s \in Out(kind, mailing[c]) THEN 1 ELSE 0,
           Mailed',
           \A kind \in Kinds, s \in Suppliers :
              Recorded(kind, R, s)' \in Nat /\ lost'[kind][R][s] \in Nat
    PROVE  MailsAccounted'
  <1>1. \A kind \in Kinds, s \in Suppliers :
           /\ Flight(kind, Quiet, R, s) = 0
           /\ Flight(kind, mailing[c], R, s) = IF s \in Out(kind, mailing[c]) THEN 1 ELSE 0
    BY QuietFacts DEF Flight
  <1>2. \A kind \in Kinds, s \in Suppliers : left[kind][R][s] \in Nat /\ lost[kind][R][s] \in Nat
           /\ Recorded(kind, R, s) \in Nat
    BY MailNumbers
  <1>3. \A kind \in Kinds, s \in Suppliers :
           left[kind][R][s] = Recorded(kind, R, s) + Flight(kind, mailing[c], R, s) + lost[kind][R][s] =>
              left'[kind][R][s] = Recorded(kind, R, s)' + Flight(kind, Quiet, R, s) + lost'[kind][R][s]
    BY <1>1, <1>2
  <1>4. \A d \in Senders : d # c => mailing[d].rfq # R
    BY Alone
  <1>5. \A kind \in Kinds, r \in Rfqs, s \in Suppliers : r # R =>
           /\ left'[kind][r][s] = left[kind][r][s] /\ lost'[kind][r][s] = lost[kind][r][s]
           /\ Recorded(kind, r, s)' = Recorded(kind, r, s)
    OBVIOUS
  <1>6. mailing[c].rfq \in {R, None} /\ Quiet.rfq \in {R, None}
    BY QuietFacts
  <1>. QED  BY <1>3, <1>4, <1>5, <1>6, QuietFacts, SenderAccounts

LEMMA CommitSendAccounts ==
    ASSUME Mailed, MailsAccounted, NEW c \in Senders, CommitSend(c)
    PROVE  MailsAccounted'
  <1>1. PICK R \in Rfqs : mailing[c].rfq = R
    BY SenderState DEF CommitSend
  <1>2. mailing[c].pc = "sending" /\ Sending(c) /\ mailing[c] \in Mailing
    BY SenderState DEF CommitSend
  <1>. DEFINE old == recipient[R]
              row == [s \in Suppliers |->
                       IF s \in mailing[c].sent THEN [old[s] EXCEPT !.status = "sent", !.waited = FALSE]
                       ELSE IF s \in mailing[c].failed THEN [old[s] EXCEPT !.status = "failed"]
                       ELSE old[s]]
  <1>3. recipient' = [recipient EXCEPT ![R] = row] /\ UNCHANGED <<left, lost>>
        /\ mailing' = [mailing EXCEPT ![c] = Quiet]
    BY <1>1 DEF CommitSend, Mailed, MailTypes
  <1>4. old \in [Suppliers -> Recipient]
    BY DEF Mailed, MailTypes
  <1>5. \A s \in Suppliers : row[s].reminders = old[s].reminders
    BY <1>4 DEF Recipient
  <1>6. \A s \in Suppliers :
           (IF row[s].status = "sent" THEN 1 ELSE 0)
              = (IF old[s].status = "sent" THEN 1 ELSE 0) + IF s \in mailing[c].sent THEN 1 ELSE 0
    <2>1. \A s \in mailing[c].sent \cup mailing[c].failed : old[s].status # "sent"
      BY <1>1, <1>2 DEF Sending
    <2>. QED  BY <1>4, <2>1 DEF Recipient
  <1>. HIDE DEF row
  <1>7. recipient'[R] = row /\ \A r \in Rfqs : r # R => recipient'[r] = recipient[r]
    BY <1>3 DEF Mailed, MailTypes
  <1>8. \A kind \in Kinds, r \in Rfqs, s \in Suppliers : r # R =>
           lost'[kind][r][s] = lost[kind][r][s] /\ Recorded(kind, r, s)' = Recorded(kind, r, s)
    BY <1>3, <1>7 DEF Recorded
  <1>9. \A kind \in Kinds, s \in Suppliers :
           lost[kind][R][s] \in Nat /\ Recorded(kind, R, s) \in Nat
    BY MailNumbers
  <1>10. \A kind \in Kinds, s \in Suppliers :
            Recorded(kind, R, s)' = Recorded(kind, R, s)
                                      + IF s \in Out(kind, mailing[c]) THEN 1 ELSE 0
    <2>1. \A s \in Suppliers : Recorded("rfq", R, s)' = Recorded("rfq", R, s)
                                      + IF s \in Out("rfq", mailing[c]) THEN 1 ELSE 0
      BY <1>6, <1>7 DEF Recorded, Out
    <2>2. \A s \in Suppliers : Recorded("reminder", R, s)' = Recorded("reminder", R, s)
                                /\ s \notin Out("reminder", mailing[c])
      BY <1>2, <1>5, <1>7 DEF Recorded, Out
    <2>. QED  BY <1>9, <2>1, <2>2 DEF Kinds
  <1>11. \A kind \in Kinds, s \in Suppliers :
            /\ Recorded(kind, R, s)' \in Nat /\ lost'[kind][R][s] \in Nat
            /\ Recorded(kind, R, s)' + lost'[kind][R][s]
                 = Recorded(kind, R, s) + lost[kind][R][s]
                     + IF s \in Out(kind, mailing[c]) THEN 1 ELSE 0
    BY <1>3, <1>9, <1>10
  <1>. QED  BY <1>1, <1>3, <1>8, <1>11, CommitSendMailed, LetGoAccounts

LEMMA LoseAccounts ==
    ASSUME Mailed, MailsAccounted, NEW c \in Senders, LoseSend(c) \/ LoseReminder(c)
    PROVE  MailsAccounted'
  <1>1. PICK R \in Rfqs : mailing[c].rfq = R
    BY SenderState DEF LoseSend, LoseReminder
  <1>2. mailing[c] \in Mailing /\ (mailing[c].pc = "sending" => Sending(c))
        /\ (mailing[c].pc \in {"reminding", "reminded"} => Reminding(c))
    BY SenderState
  <1>3. UNCHANGED <<recipient, left>> /\ mailing' = [mailing EXCEPT ![c] = Quiet]
    BY DEF LoseSend, LoseReminder
  <1>4. \A kind \in Kinds, r \in Rfqs, s \in Suppliers : Recorded(kind, r, s)' = Recorded(kind, r, s)
    BY <1>3 DEF Recorded
  <1>5. \A kind \in Kinds, r \in Rfqs, s \in Suppliers :
           lost[kind][r][s] \in Nat /\ Recorded(kind, r, s) \in Nat
    BY MailNumbers
  <1>6. \A kind \in Kinds, r \in Rfqs, s \in Suppliers :
           lost'[kind][r][s] = lost[kind][r][s]
                                 + IF r = R /\ s \in Out(kind, mailing[c]) THEN 1 ELSE 0
    <2>1. CASE LoseSend(c)
      <3>1. Lose("rfq", R, mailing[c].sent) /\ mailing[c].pc = "sending"
            /\ mailing[c].sent \in SUBSET Suppliers
        BY <1>1, <1>2, <2>1 DEF LoseSend, Mailing
      <3>2. \A kind \in Kinds, r \in Rfqs, s \in Suppliers :
               lost'[kind][r][s] = lost[kind][r][s]
                  + IF kind = "rfq" /\ r = R /\ s \in mailing[c].sent THEN 1 ELSE 0
        BY <3>1, LoseAt, KindFacts
      <3>. QED  BY <1>5, <3>1, <3>2 DEF Out
    <2>2. CASE LoseReminder(c) /\ mailing[c].pc = "reminding"
      <3>1. UNCHANGED lost
        BY <2>2 DEF LoseReminder
      <3>2. \A kind \in Kinds : Out(kind, mailing[c]) = {}
        BY <1>2, <2>2 DEF Out, Reminding
      <3>. QED  BY <1>5, <3>1, <3>2
    <2>3. CASE LoseReminder(c) /\ mailing[c].pc = "reminded"
      <3>1. Lose("reminder", R, mailing[c].todo) /\ mailing[c].sent = {}
            /\ mailing[c].todo \in SUBSET Suppliers
        BY <1>1, <1>2, <2>3 DEF LoseReminder, Mailing, Reminding
      <3>2. \A kind \in Kinds, r \in Rfqs, s \in Suppliers :
               lost'[kind][r][s] = lost[kind][r][s]
                  + IF kind = "reminder" /\ r = R /\ s \in mailing[c].todo THEN 1 ELSE 0
        BY <3>1, LoseAt, KindFacts
      <3>. QED  BY <1>5, <2>3, <3>1, <3>2 DEF Out, Kinds
    <2>. QED  BY <2>1, <2>2, <2>3 DEF LoseReminder
  <1>7. \A kind \in Kinds, s \in Suppliers :
           /\ Recorded(kind, R, s)' \in Nat /\ lost'[kind][R][s] \in Nat
           /\ Recorded(kind, R, s)' + lost'[kind][R][s]
                = Recorded(kind, R, s) + lost[kind][R][s]
                    + IF s \in Out(kind, mailing[c]) THEN 1 ELSE 0
    BY <1>4, <1>5, <1>6
  <1>8. \A kind \in Kinds, r \in Rfqs, s \in Suppliers : r # R =>
           lost'[kind][r][s] = lost[kind][r][s] /\ Recorded(kind, r, s)' = Recorded(kind, r, s)
    BY <1>4, <1>5, <1>6
  <1>. QED  BY <1>1, <1>3, <1>7, <1>8, LoseMailed, LetGoAccounts

LEMMA RemindAccounts ==
    ASSUME Mailed, MailsAccounted, NEW c \in Senders, NEW s \in Suppliers, Remind(c, s)
    PROVE  MailsAccounted'
  <1>1. PICK R \in Rfqs : mailing[c].rfq = R
    BY SenderState DEF Remind
  <1>2. mailing[c] \in Mailing /\ mailing[c].pc = "reminding" /\ mailing[c].sent = {}
        /\ mailing[c].todo = {s}
    BY SenderState DEF Remind, Reminding
  <1>. DEFINE m == [mailing[c] EXCEPT !.pc = "reminded"]
  <1>3. m \in Mailing /\ m.rfq = R /\ m.pc = "reminded" /\ m.sent = {} /\ m.todo = {s}
    BY <1>1, <1>2 DEF Mailing
  <1>4. mailing' = [mailing EXCEPT ![c] = m] /\ Leave("reminder", R, s)
        /\ UNCHANGED <<recipient, lost>>
    BY <1>1 DEF Remind, Mailed, MailTypes
  <1>. HIDE DEF m
  <1>5. \A kind \in Kinds, r \in Rfqs, y \in Suppliers :
           left'[kind][r][y] = left[kind][r][y] + IF kind = "reminder" /\ r = R /\ y = s THEN 1 ELSE 0
    BY <1>4, LeaveAt, KindFacts
  <1>6. \A kind \in Kinds, r \in Rfqs, y \in Suppliers :
           left[kind][r][y] \in Nat /\ lost[kind][r][y] \in Nat /\ Recorded(kind, r, y) \in Nat
    BY MailNumbers
  <1>7. \A kind \in Kinds, r \in Rfqs, y \in Suppliers : Recorded(kind, r, y)' = Recorded(kind, r, y)
    BY <1>4 DEF Recorded
  <1>8. \A kind \in Kinds, y \in Suppliers :
           /\ Flight(kind, mailing[c], R, y) = 0
           /\ Flight(kind, m, R, y) = IF kind = "reminder" /\ y = s THEN 1 ELSE 0
    BY <1>2, <1>3 DEF Flight, Out, Kinds
  <1>9. \A kind \in Kinds, y \in Suppliers :
           left[kind][R][y] = Recorded(kind, R, y) + Flight(kind, mailing[c], R, y) + lost[kind][R][y] =>
              left'[kind][R][y] = Recorded(kind, R, y)' + Flight(kind, m, R, y) + lost'[kind][R][y]
    BY <1>4, <1>5, <1>6, <1>7, <1>8
  <1>10. \A kind \in Kinds, r \in Rfqs, y \in Suppliers : r # R =>
            /\ left'[kind][r][y] = left[kind][r][y] /\ lost'[kind][r][y] = lost[kind][r][y]
            /\ Recorded(kind, r, y)' = Recorded(kind, r, y)
    BY <1>4, <1>5, <1>6, <1>7
  <1>11. \A d \in Senders : d # c => mailing[d].rfq # R
    BY <1>1, Alone
  <1>12. mailing[c].rfq \in {R, None} /\ m.rfq \in {R, None}
    BY <1>1, <1>3
  <1>. QED  BY <1>3, <1>4, <1>9, <1>10, <1>11, <1>12, SenderAccounts

LEMMA CommitReminderAccounts ==
    ASSUME Mailed, MailsAccounted, NEW c \in Senders, NEW s \in Suppliers, CommitReminder(c, s)
    PROVE  MailsAccounted'
  <1>1. PICK R \in Rfqs : mailing[c].rfq = R
    BY SenderState DEF CommitReminder
  <1>2. mailing[c].pc = "reminded" /\ mailing[c].sent = {} /\ mailing[c].todo = {s}
    BY SenderState DEF CommitReminder, Reminding
  <1>. DEFINE old == recipient[R]
              row == [old EXCEPT ![s].reminders = @ + 1, ![s].waited = FALSE]
  <1>3. recipient' = [recipient EXCEPT ![R] = row] /\ UNCHANGED <<left, lost>>
        /\ mailing' = [mailing EXCEPT ![c] = Quiet]
    BY <1>1 DEF CommitReminder, Mailed, MailTypes
  <1>4. old \in [Suppliers -> Recipient]
    BY DEF Mailed, MailTypes
  <1>5. row[s].reminders = old[s].reminders + 1 /\ row[s].status = old[s].status
    BY <1>4 DEF Recipient
  <1>6. \A y \in Suppliers : y # s => row[y] = old[y]
    BY <1>4
  <1>. HIDE DEF row
  <1>7. recipient'[R] = row /\ \A r \in Rfqs : r # R => recipient'[r] = recipient[r]
    BY <1>3 DEF Mailed, MailTypes
  <1>8. \A kind \in Kinds, r \in Rfqs, y \in Suppliers : r # R =>
           lost'[kind][r][y] = lost[kind][r][y] /\ Recorded(kind, r, y)' = Recorded(kind, r, y)
    BY <1>3, <1>7 DEF Recorded
  <1>9. \A kind \in Kinds, y \in Suppliers :
           lost[kind][R][y] \in Nat /\ Recorded(kind, R, y) \in Nat
    BY MailNumbers
  <1>10. \A kind \in Kinds, y \in Suppliers :
            Recorded(kind, R, y)' = Recorded(kind, R, y)
                                      + IF y \in Out(kind, mailing[c]) THEN 1 ELSE 0
    <2>1. \A y \in Suppliers : Recorded("rfq", R, y)' = Recorded("rfq", R, y)
                                /\ y \notin Out("rfq", mailing[c])
      BY <1>2, <1>5, <1>6, <1>7 DEF Recorded, Out
    <2>2. Recorded("reminder", R, s)' = Recorded("reminder", R, s) + 1
      BY <1>5, <1>7 DEF Recorded
    <2>3. \A y \in Suppliers : y # s => Recorded("reminder", R, y)' = Recorded("reminder", R, y)
      BY <1>6, <1>7 DEF Recorded
    <2>4. Out("reminder", mailing[c]) = {s}
      BY <1>2 DEF Out
    <2>. QED  BY <1>9, <2>1, <2>2, <2>3, <2>4 DEF Kinds
  <1>11. \A kind \in Kinds, y \in Suppliers :
            /\ Recorded(kind, R, y)' \in Nat /\ lost'[kind][R][y] \in Nat
            /\ Recorded(kind, R, y)' + lost'[kind][R][y]
                 = Recorded(kind, R, y) + lost[kind][R][y]
                     + IF y \in Out(kind, mailing[c]) THEN 1 ELSE 0
    BY <1>3, <1>9, <1>10
  <1>12. Mailed'
    BY CommitReminderMailed
  <1>. HIDE DEF old
  <1>13. mailing' = [mailing EXCEPT ![c] = Quiet] /\ UNCHANGED left
    BY <1>3
  <1>14. \A kind \in Kinds, y \in Suppliers :
            Recorded(kind, R, y)' \in Nat /\ lost'[kind][R][y] \in Nat
    BY <1>11
  <1>15. \A kind \in Kinds, y \in Suppliers :
            Recorded(kind, R, y)' + lost'[kind][R][y]
               = Recorded(kind, R, y) + lost[kind][R][y]
                   + IF y \in Out(kind, mailing[c]) THEN 1 ELSE 0
    BY <1>11
  <1>. QED  BY <1>1, <1>8, <1>12, <1>13, <1>14, <1>15, LetGoAccounts

\* Steps of no sender: a draft has recorded nothing that its replacement forgets.
LEMMA OthersAccount ==
    ASSUME Mailed, MailsAccounted, UNCHANGED <<mailing, left, lost>>,
           \A r \in Rfqs, s \in Suppliers :
              /\ recipient'[r][s].status = "sent" <=> recipient[r][s].status = "sent"
              /\ recipient'[r][s].reminders = recipient[r][s].reminders
    PROVE  MailsAccounted'
  <1>1. \A kind \in Kinds, r \in Rfqs, s \in Suppliers :
           /\ Recorded(kind, r, s)' = Recorded(kind, r, s)
           /\ SentBy(kind, r, s)' = SentBy(kind, r, s)
    BY DEF Recorded, SentBy
  <1>. QED  BY <1>1 DEF MailsAccounted

LEMMA StepAccounts ==
    ASSUME Mailed, MailsAccounted, [Next]_vars
    PROVE  MailsAccounted'
  <1>1. ASSUME UNCHANGED mailVars PROVE MailsAccounted'
    BY <1>1, OthersAccount DEF mailVars
  <1>2. ASSUME NEW c \in Senders, NEW s \in Suppliers,
               Deliver(c, s) \/ FailDelivery(c, s) \/ Remind(c, s) \/ CommitReminder(c, s)
        PROVE  MailsAccounted'
    BY <1>2, DeliverAccounts, RemindAccounts, CommitReminderAccounts
  <1>3. ASSUME NEW c \in Senders, CommitSend(c) \/ LoseSend(c) \/ LoseReminder(c)
        PROVE  MailsAccounted'
    BY <1>3, CommitSendAccounts, LoseAccounts
  <1>4. ASSUME NEW c \in Senders, NEW r \in Rfqs,
               StartSend(c, r) \/ \E s \in Suppliers : StartReminder(c, r, s)
        PROVE  MailsAccounted'
    BY <1>4, StartAccounts
  <1>5. ASSUME NEW r \in Rfqs, UpdateDraft(r) PROVE MailsAccounted'
    <2>1. \A s \in Suppliers : recipient[r][s].status # "sent" /\ recipient[r][s].reminders = 0
      BY <1>5 DEF UpdateDraft, Mailed, MailInv, DraftInv
    <2>2. \A x \in Rfqs, s \in Suppliers :
             /\ recipient'[x][s].status = "sent" <=> recipient[x][s].status = "sent"
             /\ recipient'[x][s].reminders = recipient[x][s].reminders
      BY <1>5, <2>1 DEF UpdateDraft, Mailed, MailTypes
    <2>. QED  BY <1>5, <2>2, OthersAccount DEF UpdateDraft
  <1>6. ASSUME NEW r \in Rfqs, NEW s \in Suppliers, Wait24Hours(r, s) PROVE MailsAccounted'
    <2>. DEFINE old == recipient[r]  cell == [old[s] EXCEPT !.waited = TRUE]
    <2>1. old \in [Suppliers -> Recipient]
      BY DEF Mailed, MailTypes
    <2>2. cell.status = old[s].status /\ cell.reminders = old[s].reminders
      BY <2>1 DEF Recipient
    <2>3. recipient' = [recipient EXCEPT ![r][s] = cell]
      BY <1>6, <2>1 DEF Wait24Hours, Mailed, MailTypes, Recipient
    <2>. HIDE DEF cell
    <2>4. \A x \in Rfqs, y \in Suppliers :
             /\ recipient'[x][y].status = "sent" <=> recipient[x][y].status = "sent"
             /\ recipient'[x][y].reminders = recipient[x][y].reminders
      BY <2>2, <2>3 DEF Mailed, MailTypes
    <2>. QED  BY <1>6, <2>4, OthersAccount DEF Wait24Hours
  <1>7. ASSUME NEW r \in Rfqs, Cancel(r) \/ PassNeededBy(r) PROVE MailsAccounted'
    BY <1>1, <1>7 DEF Cancel, PassNeededBy
  <1>8. CASE MailStep
    BY <1>2, <1>3, <1>4, <1>5, <1>6, <1>7, <1>8 DEF MailStep
  <1>9. CASE ReplyStep
    BY <1>1, <1>9, ReviewEffect DEF ReplyStep, Receive
  <1>10. CASE PrepStep
    <2>1. UNCHANGED mailVars
      BY <1>10 DEF PrepStep, StartPrepare, CreateRequest, Finish, FinishOther, Die, Evaluate,
         EvaluatorPrepares, RecordEvent, LeaveDraft, StartSplit, CompleteSplit, PrepareSplit
    <2>. QED  BY <1>1, <2>1
  <1>11. CASE UNCHANGED vars
    BY <1>1, <1>11 DEF vars, mailVars
  <1>. QED  BY <1>8, <1>9, <1>10, <1>11 DEF Next

\* Every mail that left is recorded, still in a transaction, or was lost with one that died: a
\* supplier is mailed one RFQ, or reminded a third time, only after such a loss.
THEOREM MailsCounted == Spec => []MailsAccounted
  <1>1. ASSUME Init PROVE MailsAccounted
    <2>1. \A c \in Senders : mailing[c] = Quiet
      BY <1>1 DEF Init
    <2>2. \A kind \in Kinds, r \in Rfqs, s \in Suppliers : SentBy(kind, r, s) = 0
      <3>. SUFFICES ASSUME NEW kind \in Kinds, NEW r \in Rfqs, NEW s \in Suppliers
                    PROVE  Cardinality(InFlight(kind, r, s)) = 0
        BY SentByInFlight
      <3>1. InFlight(kind, r, s) = {}
        BY <2>1, QuietFacts DEF InFlight
      <3>. QED  BY <3>1, FS_EmptySet
    <2>3. \A kind \in Kinds, r \in Rfqs, s \in Suppliers :
             left[kind][r][s] = Recorded(kind, r, s) /\ lost[kind][r][s] = 0
      <3>1. \A r \in Rfqs, s \in Suppliers : recipient[r][s].reminders = 0
        BY <1>1 DEF Init
      <3>. QED  BY <1>1, <3>1 DEF Init, Recorded, Kinds
    <2>4. \A kind \in Kinds, r \in Rfqs, s \in Suppliers : Recorded(kind, r, s) \in Nat
      BY <1>1, InitMailed, MailNumbers
    <2>. QED  BY <2>2, <2>3, <2>4 DEF MailsAccounted
  <1>2. IInv /\ MailsAccounted /\ [Next]_vars => MailsAccounted'
    BY IInvParts, StepAccounts
  <1>. QED  BY AlwaysIInv, <1>1, <1>2, PTL DEF Spec

=============================================================================
