-------------------------------- MODULE Rfq --------------------------------
(***************************************************************************)
(* Requests for quotation.  A buyer mails an RFQ to suppliers and reminds  *)
(* the silent ones; each reply is a quotation that is reviewed; one reply, *)
(* or a split over several, is prepared as purchase requests, by a person  *)
(* or by a guardrail, and that converts the RFQ.  Mail leaves while the    *)
(* transaction that records it is open, and a preparation commits a draft  *)
(* on one connection and links it on another: what a caller that dies in   *)
(* between leaves behind is part of the state.                             *)
(***************************************************************************)
EXTENDS Integers, FiniteSets

CONSTANTS
    Rfqs,
    Suppliers,      \* every RFQ is addressed to all of them
    NoAddress,      \* the suppliers without a contact e-mail
    Replies,        \* quotations that may arrive as replies
    Requests,       \* ids of purchase requests, numbers: they are given out in order
    Splits,         \* basket-split jobs started from an RFQ
    Senders,        \* POST /rfqs/{id}/send and .../remind calls in progress
    People,         \* calls that prepare a request
    Evaluators,     \* guardrail_eval jobs being run
    Guardrails,     \* enabled auto_preparation_guardrail rows
    Keys,           \* Idempotency-Key values of the people
    RfqOf,          \* the RFQ of each key: a client makes a key for one reply
    MaxLost,        \* bound: how many mails leave without being recorded
    None

ASSUME NumbersAssumption == Requests \subseteq Nat /\ MaxLost \in Nat
ASSUME KeysAssumption == RfqOf \in [Keys -> Rfqs]
ASSUME NamesAssumption ==
    /\ None \notin Rfqs \cup Suppliers \cup Replies \cup Requests \cup Splits \cup Guardrails
                   \cup Keys \cup (Rfqs \X Guardrails)
    /\ Keys \cap (Rfqs \X Guardrails) = {}
    /\ People \cap Evaluators = {} /\ NoAddress \subseteq Suppliers

VARIABLES
    rfq,        \* rfq.status, and whether needed_by_date has passed
    recipient,  \* rfq_recipient
    mailing,    \* what each sender is doing
    left,       \* mails that left for each recipient, by kind
    lost,       \* those of them no committed row counts
    reply,      \* rfq_response with its quotation
    request,    \* purchase_request
    split,      \* basket_split_job with the purchase_request_group prepared from it
    event,      \* auto_preparation_event
    prep        \* what each preparation has read and does next

mailVars == <<recipient, mailing, left, lost>>
prepVars == <<request, split, event, prep>>
vars == <<rfq, recipient, mailing, left, lost, reply, request, split, event, prep>>

Kinds == {"rfq", "reminder"}

Rfq == [status: {"draft", "sent", "responded", "cancelled", "converted"}, overdue: BOOLEAN]

\* "waited" stands for the 24 hours since the RFQ or the last reminder was sent.
Recipient == [status: {"draft", "failed", "sent"}, reminders: 0..2, waited: BOOLEAN]

Mailing == [pc: {"idle", "sending", "reminding", "reminded"}, rfq: Rfqs \cup {None},
            todo: SUBSET Suppliers, sent: SUBSET Suppliers, failed: SUBSET Suppliers]

\* The quotation of a reply: "matched" has a product for every line but is not reviewed (its
\* document is being extracted again), "ready" is reviewed as well.
Reply == [rfq: Rfqs \cup {None}, supplier: Suppliers \cup {None},
          stage: {"absent", "pending", "matched", "ready", "refused"}, archived: BOOLEAN]

GuardrailKeys == Rfqs \X Guardrails

Request == [status: {"none", "draft", "left"}, key: Keys \cup GuardrailKeys \cup {None},
            source: Replies \cup {None}, group: Splits \cup {None}]

Split == [rfq: Rfqs \cup {None}, status: {"none", "queued", "completed"},
          replies: SUBSET Replies, key: Keys \cup {None}]

Event == [guardrail: Guardrails, reply: Replies, request: Requests]

Prep == [pc: {"idle", "judged", "create", "finish", "record", "done", "refused", "died"},
         rfq: Rfqs \cup {None}, reply: Replies \cup {None},
         key: Keys \cup GuardrailKeys \cup {None},
         request: Requests \cup {None}, fresh: BOOLEAN]

Quiet == [pc |-> "idle", rfq |-> None, todo |-> {}, sent |-> {}, failed |-> {}]

Callers == People \cup Evaluators

\* A preparation that ended keeps what it answered.
Ended(pc, r, k, q) ==
    [pc |-> pc, rfq |-> r, reply |-> None, key |-> k, request |-> q, fresh |-> FALSE]

Unanswered(pc) == Ended(pc, None, None, None)
-----------------------------------------------------------------------------
(***************************************************************************)
(* Locks.  A send or a reminder holds the row of the RFQ until it commits; *)
(* a preparation holds the advisory lock rfq-prepare of its RFQ; a         *)
(* guardrail_eval job holds the evaluator lock as well.                    *)
(***************************************************************************)
\* Mutant: the status is read without the row lock.
RowFreeUnlocked(r) == TRUE

RowFree(r) == \A c \in Senders : mailing[c].rfq # r

\* Mutant: preparations do not take the lock of the RFQ.
PrepareFreeUnlocked(r) == TRUE

\* Mutant: the evaluator takes the lock of the preparation before it calls it.
PrepareFreeJudged(r) ==
    \A c \in Callers : prep[c].rfq = r => prep[c].pc \notin {"judged", "create", "finish"}

PrepareFree(r) == \A c \in Callers : prep[c].rfq = r => prep[c].pc \notin {"create", "finish"}

\* Mutant: evaluations of one RFQ run side by side.
EvaluatorFreeUnlocked(r) == TRUE

EvaluatorFree(r) ==
    \A c \in Evaluators : prep[c].rfq = r => prep[c].pc \in {"idle", "done", "refused", "died"}

\* _EFFECTIVE_STATUS_SQL: only a sent RFQ expires.
EffectiveStatus(r) ==
    IF rfq[r].status = "sent" /\ rfq[r].overdue THEN "expired" ELSE rfq[r].status

Replied(r) == {p \in Replies : reply[p].rfq = r}

Usable(p) == reply[p].stage \in {"matched", "ready"} /\ ~reply[p].archived

Eligible(r) == {p \in Replied(r) : reply[p].stage = "ready" /\ ~reply[p].archived}

ResponsesPending(r) ==
    \E p \in Replied(r) : reply[p].stage \in {"pending", "matched"} /\ ~reply[p].archived

Linked(r) == {q \in Requests : request[q].source \in Replied(r)}

Named(k) == {q \in Requests : request[q].key = k}

\* The ids the next n requests get.
Fresh(ids) ==
    /\ \A q \in ids : request[q].status = "none"
    /\ \A q \in Requests \ ids : request[q].status = "none" => \A i \in ids : i < q
-----------------------------------------------------------------------------
Init ==
    /\ rfq \in [Rfqs -> [status: {"draft", "sent"}, overdue: {FALSE}]]
    /\ recipient = [r \in Rfqs |-> [s \in Suppliers |->
                      IF rfq[r].status = "draft"
                      THEN [status |-> "draft", reminders |-> 0, waited |-> FALSE]
                      ELSE [status |-> IF s \in NoAddress THEN "failed" ELSE "sent",
                            reminders |-> 0, waited |-> FALSE]]]
    /\ mailing = [c \in Senders |-> Quiet]
    /\ left = [k \in Kinds |-> [r \in Rfqs |-> [s \in Suppliers |->
                 IF k = "rfq" /\ recipient[r][s].status = "sent" THEN 1 ELSE 0]]]
    /\ lost = [k \in Kinds |-> [r \in Rfqs |-> [s \in Suppliers |-> 0]]]
    /\ reply = [p \in Replies |-> [rfq |-> None, supplier |-> None, stage |-> "absent",
                                   archived |-> FALSE]]
    /\ request = [q \in Requests |-> [status |-> "none", key |-> None, source |-> None,
                                      group |-> None]]
    /\ split = [j \in Splits |-> [rfq |-> None, status |-> "none", replies |-> {}, key |-> None]]
    /\ event = {}
    /\ prep = [c \in Callers |-> Unanswered("idle")]
-----------------------------------------------------------------------------
(***************************************************************************)
(* Sending.  The status is read again under the row lock, each mail is     *)
(* handed to the provider, and one commit records them all.                *)
(***************************************************************************)
Sendable(r) ==
    /\ RowFree(r)
    /\ rfq[r].status \in {"draft", "sent", "responded"}
    /\ ~rfq[r].overdue

Unsent(r) == {s \in Suppliers : recipient[r][s].status \in {"draft", "failed"}}

StartSend(c, r) ==
    /\ mailing[c].pc = "idle"
    /\ Sendable(r)
    /\ Unsent(r) \ NoAddress # {}
    /\ mailing' = [mailing EXCEPT ![c] = [pc |-> "sending", rfq |-> r,
                     todo |-> Unsent(r) \ NoAddress, sent |-> {},
                     failed |-> Unsent(r) \cap NoAddress]]
    /\ UNCHANGED <<rfq, recipient, left, lost, reply, prepVars>>

Leave(kind, r, s) == left' = [left EXCEPT ![kind][r][s] = @ + 1]

Lose(kind, r, gone) ==
    /\ \A s \in gone : lost[kind][r][s] < MaxLost
    /\ lost' = [lost EXCEPT ![kind][r] = [s \in Suppliers |-> @[s] + IF s \in gone THEN 1 ELSE 0]]

Deliver(c, s) ==
    /\ mailing[c].pc = "sending" /\ s \in mailing[c].todo
    /\ Leave("rfq", mailing[c].rfq, s)
    /\ mailing' = [mailing EXCEPT ![c].todo = @ \ {s}, ![c].sent = @ \cup {s}]
    /\ UNCHANGED <<rfq, recipient, lost, reply, prepVars>>

\* The provider refuses the mail, or its answer is lost after it took it.
FailDelivery(c, s) ==
    /\ mailing[c].pc = "sending" /\ s \in mailing[c].todo
    /\ \/ UNCHANGED <<left, lost>>
       \/ Leave("rfq", mailing[c].rfq, s) /\ Lose("rfq", mailing[c].rfq, {s})
    /\ mailing' = [mailing EXCEPT ![c].todo = @ \ {s}, ![c].failed = @ \cup {s}]
    /\ UNCHANGED <<rfq, recipient, reply, prepVars>>

\* Mutant: the RFQ counts as sent only when every supplier got it.
CommitSendWhenAllSent(c) ==
    LET r == mailing[c].rfq IN
    /\ mailing[c].pc = "sending" /\ mailing[c].todo = {}
    /\ recipient' = [recipient EXCEPT ![r] = [s \in Suppliers |->
                       IF s \in mailing[c].sent THEN [@[s] EXCEPT !.status = "sent", !.waited = FALSE]
                       ELSE IF s \in mailing[c].failed THEN [@[s] EXCEPT !.status = "failed"]
                       ELSE @[s]]]
    /\ rfq' = [rfq EXCEPT ![r].status =
                 IF @ = "draft" /\ mailing[c].failed = {} THEN "sent" ELSE @]
    /\ mailing' = [mailing EXCEPT ![c] = Quiet]
    /\ UNCHANGED <<left, lost, reply, prepVars>>

CommitSend(c) ==
    LET r == mailing[c].rfq IN
    /\ mailing[c].pc = "sending" /\ mailing[c].todo = {}
    /\ recipient' = [recipient EXCEPT ![r] = [s \in Suppliers |->
                       IF s \in mailing[c].sent THEN [@[s] EXCEPT !.status = "sent", !.waited = FALSE]
                       ELSE IF s \in mailing[c].failed THEN [@[s] EXCEPT !.status = "failed"]
                       ELSE @[s]]]
    /\ rfq' = [rfq EXCEPT ![r].status =
                 IF @ = "draft" /\ mailing[c].sent # {} THEN "sent" ELSE @]
    /\ mailing' = [mailing EXCEPT ![c] = Quiet]
    /\ UNCHANGED <<left, lost, reply, prepVars>>

\* The process or the connection dies: the mails are gone, the rows are not written.
LoseSend(c) ==
    /\ mailing[c].pc = "sending"
    /\ Lose("rfq", mailing[c].rfq, mailing[c].sent)
    /\ mailing' = [mailing EXCEPT ![c] = Quiet]
    /\ UNCHANGED <<rfq, recipient, left, reply, prepVars>>

(***************************************************************************)
(* Reminding one supplier that has not answered.                           *)
(***************************************************************************)
Remindable(r, s) ==
    /\ EffectiveStatus(r) \in {"sent", "responded"} /\ ~rfq[r].overdue
    /\ recipient[r][s].status = "sent"
    /\ \A p \in Replied(r) : reply[p].supplier # s
    /\ recipient[r][s].waited
    /\ recipient[r][s].reminders < 2

StartReminder(c, r, s) ==
    /\ mailing[c].pc = "idle"
    /\ RowFree(r) /\ Remindable(r, s)
    /\ mailing' = [mailing EXCEPT ![c] = [Quiet EXCEPT !.pc = "reminding", !.rfq = r, !.todo = {s}]]
    /\ UNCHANGED <<rfq, recipient, left, lost, reply, prepVars>>

Remind(c, s) ==
    /\ mailing[c].pc = "reminding" /\ s \in mailing[c].todo
    /\ Leave("reminder", mailing[c].rfq, s)
    /\ mailing' = [mailing EXCEPT ![c].pc = "reminded"]
    /\ UNCHANGED <<rfq, recipient, lost, reply, prepVars>>

CommitReminder(c, s) ==
    LET r == mailing[c].rfq IN
    /\ mailing[c].pc = "reminded" /\ s \in mailing[c].todo
    /\ recipient' = [recipient EXCEPT ![r][s].reminders = @ + 1, ![r][s].waited = FALSE]
    /\ mailing' = [mailing EXCEPT ![c] = Quiet]
    /\ UNCHANGED <<rfq, left, lost, reply, prepVars>>

\* reminder_delivery_failed, or the process dies: nothing is written.
LoseReminder(c) ==
    /\ \/ mailing[c].pc = "reminding" /\ UNCHANGED lost
       \/ mailing[c].pc = "reminded" /\ Lose("reminder", mailing[c].rfq, mailing[c].todo)
    /\ mailing' = [mailing EXCEPT ![c] = Quiet]
    /\ UNCHANGED <<rfq, recipient, left, reply, prepVars>>

\* PUT of a draft: its recipients are deleted and inserted again.
UpdateDraft(r) ==
    /\ RowFree(r) /\ rfq[r].status = "draft"
    /\ recipient' = [recipient EXCEPT ![r] = [s \in Suppliers |->
                       [status |-> "draft", reminders |-> 0, waited |-> FALSE]]]
    /\ rfq' = [rfq EXCEPT ![r].overdue = FALSE]
    /\ UNCHANGED <<mailing, left, lost, reply, prepVars>>

\* Mutant: the cancellation waits for no one.
CancelUnlocked(r) ==
    /\ rfq[r].status \in {"draft", "sent", "responded"}
    /\ rfq' = [rfq EXCEPT ![r].status = "cancelled"]
    /\ UNCHANGED <<mailVars, reply, prepVars>>

\* Mutant: the update does not name the statuses it may cancel.
CancelClosed(r) ==
    /\ PrepareFree(r) /\ RowFree(r)
    /\ rfq' = [rfq EXCEPT ![r].status = "cancelled"]
    /\ UNCHANGED <<mailVars, reply, prepVars>>

Cancel(r) ==
    /\ PrepareFree(r) /\ RowFree(r)
    /\ rfq[r].status \in {"draft", "sent", "responded"}
    /\ rfq' = [rfq EXCEPT ![r].status = "cancelled"]
    /\ UNCHANGED <<mailVars, reply, prepVars>>

PassNeededBy(r) ==
    /\ ~rfq[r].overdue /\ rfq[r].status \in {"draft", "sent", "responded"}
    /\ rfq' = [rfq EXCEPT ![r].overdue = TRUE]
    /\ UNCHANGED <<mailVars, reply, prepVars>>

Wait24Hours(r, s) ==
    /\ recipient[r][s].status = "sent" /\ ~recipient[r][s].waited
    /\ recipient' = [recipient EXCEPT ![r][s].waited = TRUE]
    /\ UNCHANGED <<rfq, mailing, left, lost, reply, prepVars>>
-----------------------------------------------------------------------------
(***************************************************************************)
(* Replies.  The ingestion worker knows a reply by the Message-ID of the   *)
(* recipient row, so only once the send has committed, and waits for the   *)
(* row of an RFQ whose status it changes.                                  *)
(***************************************************************************)
Receive(p, r, s) ==
    LET open == rfq[r].status = "sent" /\ ~rfq[r].overdue IN
    /\ reply[p].stage = "absent"
    /\ recipient[r][s].status = "sent"
    /\ open => RowFree(r)
    /\ reply' = [reply EXCEPT ![p] = [rfq |-> r, supplier |-> s, stage |-> "pending",
                                      archived |-> FALSE]]
    /\ rfq' = [rfq EXCEPT ![r].status = IF open THEN "responded" ELSE @]
    /\ UNCHANGED <<mailVars, prepVars>>

\* The review, the matching and a new extraction of the quotation, and its archive.
Restage(p, from, to) ==
    /\ reply[p].stage = from /\ ~reply[p].archived
    /\ reply' = [reply EXCEPT ![p].stage = to]
    /\ UNCHANGED <<rfq, mailVars, prepVars>>

Review(p) ==
    \/ Restage(p, "pending", "ready")
    \/ Restage(p, "ready", "pending")
    \/ Restage(p, "ready", "matched")
    \/ Restage(p, "matched", "pending")
    \/ Restage(p, "matched", "ready")
    \/ Restage(p, "pending", "refused")
    \/ Restage(p, "refused", "pending")

Archive(p) ==
    /\ reply[p].stage # "absent"
    /\ reply' = [reply EXCEPT ![p].archived = ~@]
    /\ UNCHANGED <<rfq, mailVars, prepVars>>
-----------------------------------------------------------------------------
(***************************************************************************)
(* Preparing one request.  Under the lock of the RFQ the call reads its    *)
(* status and the reply; create_request commits a draft, or finds the one  *)
(* of an earlier attempt, on its own connection; the last transaction      *)
(* links the draft and converts the RFQ.                                   *)
(***************************************************************************)
SameKey(r, k) == {q \in Linked(r) : request[q].key = k}

\* The call answers; a guardrail's goes on to record its event.
Answered(c, r, p, k, q) ==
    IF c \in Evaluators
    THEN [pc |-> "record", rfq |-> r, reply |-> p, key |-> k, request |-> q, fresh |-> FALSE]
    ELSE Ended("done", r, k, q)

Answer(c) == Answered(c, prep[c].rfq, prep[c].reply, prep[c].key, prep[c].request)

\* What the locked read decides for a call: replay, go on, or refuse (a refused person's call
\* changes nothing and may be made again).
Begin(c, r, p, k) ==
    /\ PrepareFree(r)
    /\ p \in Replied(r)
    /\ \/ /\ EffectiveStatus(r) = "converted"
          /\ \E q \in SameKey(r, k) :
                prep' = [prep EXCEPT ![c] = Answered(c, r, p, k, q)]
       \/ /\ EffectiveStatus(r) \in {"draft", "sent", "responded"}
          /\ Usable(p)
          /\ prep' = [prep EXCEPT ![c] = [pc |-> "create", rfq |-> r, reply |-> p, key |-> k,
                                          request |-> None, fresh |-> FALSE]]

StartPrepare(c, r, p, k) ==
    /\ prep[c].pc = "idle" /\ RfqOf[k] = r
    /\ Begin(c, r, p, k)
    /\ UNCHANGED <<rfq, mailVars, reply, request, split, event>>

\* Mutant: a retry does not look for the draft of the earlier attempt.
CreateRequestAnew(c) ==
    /\ prep[c].pc = "create"
    /\ \E q \in Requests :
          /\ Fresh({q})
          /\ request' = [request EXCEPT ![q].status = "draft", ![q].key = prep[c].key]
          /\ prep' = [prep EXCEPT ![c].pc = "finish", ![c].request = q, ![c].fresh = TRUE]
    /\ UNCHANGED <<rfq, mailVars, reply, split, event>>

CreateRequest(c) ==
    LET k == prep[c].key IN
    /\ prep[c].pc = "create"
    /\ \/ \E q \in Named(k) :
            /\ prep' = [prep EXCEPT ![c] =
                          IF request[q].source = None THEN [@ EXCEPT !.request = q, !.pc = "finish"]
                          ELSE Answered(c, @.rfq, @.reply, k, q)]
            /\ UNCHANGED request
       \/ /\ Named(k) = {}
          /\ \E q \in Requests :
                /\ Fresh({q})
                /\ request' = [request EXCEPT ![q].status = "draft", ![q].key = k]
                /\ prep' = [prep EXCEPT ![c].pc = "finish", ![c].request = q, ![c].fresh = TRUE]
    /\ UNCHANGED <<rfq, mailVars, reply, split, event>>

\* A draft found by its key is read again under its row lock; one just created is not.
Recoverable(c) ==
    prep[c].fresh \/ (request[prep[c].request].source = None /\ request[prep[c].request].status = "draft")

\* The update names the status draft, and mark_rfq_converted answers false, unheard, when it
\* matched nothing.
Link(c) ==
    LET q == prep[c].request  r == prep[c].rfq IN
    IF request[q].status # "draft" THEN UNCHANGED <<request, rfq>>
    ELSE /\ request' = [request EXCEPT ![q].source = prep[c].reply]
         /\ rfq[r].status \in {"sent", "responded"} => RowFree(r)
         /\ rfq' = [rfq EXCEPT ![r].status = IF @ \in {"sent", "responded"} THEN "converted" ELSE @]

Finish(c) ==
    /\ prep[c].pc = "finish"
    /\ Recoverable(c)
    /\ Link(c)
    /\ prep' = [prep EXCEPT ![c] = Answer(c)]
    /\ UNCHANGED <<mailVars, reply, split, event>>

\* Linked meanwhile: the request is the answer.  No longer a draft: request_not_recoverable.
FinishOther(c) ==
    /\ prep[c].pc = "finish"
    /\ ~Recoverable(c)
    /\ prep' = [prep EXCEPT ![c] =
                  IF request[prep[c].request].source # None THEN Answer(c)
                  ELSE Unanswered("refused")]
    /\ UNCHANGED <<rfq, mailVars, reply, request, split, event>>

\* The process or the connection dies, or mark_rfq_converted raises for a caller who is no
\* longer an owner or buyer: the locks go, a committed draft stays.
Die(c) ==
    /\ prep[c].pc \in {"judged", "create", "finish", "record"}
    /\ prep' = [prep EXCEPT ![c] = Unanswered("died")]
    /\ UNCHANGED <<rfq, mailVars, reply, request, split, event>>

\* The requester submits or withdraws the draft.
LeaveDraft(q) ==
    /\ request[q].status = "draft"
    /\ request' = [request EXCEPT ![q].status = "left"]
    /\ UNCHANGED <<rfq, mailVars, reply, split, event, prep>>

(***************************************************************************)
(* A guardrail_eval job.  It judges the replies under the evaluator lock,  *)
(* prepares as the guardrail's creator and commits an event afterwards.    *)
(* Which guardrail fires, and for which of the eligible replies, is open.  *)
(***************************************************************************)
Evaluate(c, r, g, p) ==
    /\ prep[c].pc = "idle"
    /\ EvaluatorFree(r)
    /\ EffectiveStatus(r) \in {"sent", "responded"}
    /\ ~ResponsesPending(r)
    /\ p \in Eligible(r)
    /\ \A e \in event : ~(e.guardrail = g /\ e.reply = p)
    /\ prep' = [prep EXCEPT ![c] = [pc |-> "judged", rfq |-> r, reply |-> p, key |-> <<r, g>>,
                                    request |-> None, fresh |-> FALSE]]
    /\ UNCHANGED <<rfq, mailVars, reply, request, split, event>>

EvaluatorPrepares(c) ==
    LET r == prep[c].rfq  p == prep[c].reply  k == prep[c].key IN
    /\ prep[c].pc = "judged"
    /\ \/ Begin(c, r, p, k)
       \/ /\ PrepareFree(r)
          /\ \/ EffectiveStatus(r) \in {"cancelled", "expired"}
             \/ EffectiveStatus(r) = "converted" /\ SameKey(r, k) = {}
             \/ EffectiveStatus(r) \in {"sent", "responded"} /\ ~Usable(p)
          /\ prep' = [prep EXCEPT ![c] = Unanswered("refused")]
    /\ UNCHANGED <<rfq, mailVars, reply, request, split, event>>

RecordEvent(c) ==
    /\ prep[c].pc = "record"
    /\ event' = event \cup {[guardrail |-> prep[c].key[2], reply |-> prep[c].reply,
                             request |-> prep[c].request]}
    /\ prep' = [prep EXCEPT ![c] = Ended("done", @.rfq, @.key, @.request)]
    /\ UNCHANGED <<rfq, mailVars, reply, request, split>>

(***************************************************************************)
(* A split over several replies.  The job keeps the replies it was asked   *)
(* for; the preparation is one transaction under the lock of the RFQ.      *)
(***************************************************************************)
StartSplit(j, r) ==
    /\ split[j].status = "none"
    /\ PrepareFree(r)
    /\ EffectiveStatus(r) \in {"draft", "sent", "responded"}
    /\ Cardinality({reply[p].supplier : p \in Eligible(r)}) >= 2
    /\ split' = [split EXCEPT ![j].rfq = r, ![j].status = "queued", ![j].replies = Eligible(r)]
    /\ UNCHANGED <<rfq, mailVars, reply, request, event, prep>>

CompleteSplit(j) ==
    /\ split[j].status = "queued"
    /\ split' = [split EXCEPT ![j].status = "completed"]
    /\ UNCHANGED <<rfq, mailVars, reply, request, event, prep>>

Stale(j) == split[j].replies # Eligible(split[j].rfq)

PrepareSplit(j, k) ==
    LET r == split[j].rfq IN
    /\ split[j].status = "completed"
    /\ PrepareFree(r)
    /\ EffectiveStatus(r) \in {"draft", "sent", "responded"}
    /\ ~Stale(j)
    /\ \A i \in Splits : split[i].key # k /\ (split[i].key # None => split[i].rfq # r)
    /\ RowFree(r)
    /\ \E ids \in SUBSET Requests, used \in SUBSET split[j].replies :
          /\ ids # {} /\ Cardinality(ids) = Cardinality(used) /\ Fresh(ids)
          /\ \E source \in [ids -> used] :
                /\ {source[q] : q \in ids} = used
                /\ request' = [q \in Requests |->
                                 IF q \in ids
                                 THEN [status |-> "draft", key |-> None, source |-> source[q],
                                       group |-> j]
                                 ELSE request[q]]
    /\ split' = [split EXCEPT ![j].key = k]
    /\ rfq' = [rfq EXCEPT ![r].status = IF @ \in {"sent", "responded"} THEN "converted" ELSE @]
    /\ UNCHANGED <<mailVars, reply, event, prep>>
-----------------------------------------------------------------------------
MailStep ==
    \/ \E c \in Senders :
          \/ \E r \in Rfqs :
                \/ StartSend(c, r)
                \/ \E s \in Suppliers : StartReminder(c, r, s) \/ Wait24Hours(r, s)
          \/ \E s \in Suppliers : Deliver(c, s) \/ FailDelivery(c, s) \/ Remind(c, s)
                                  \/ CommitReminder(c, s)
          \/ CommitSend(c) \/ LoseSend(c) \/ LoseReminder(c)
    \/ \E r \in Rfqs : UpdateDraft(r) \/ Cancel(r) \/ PassNeededBy(r)

ReplyStep ==
    \E p \in Replies :
       \/ \E r \in Rfqs, s \in Suppliers : Receive(p, r, s)
       \/ Review(p) \/ Archive(p)

PrepStep ==
    \/ \E c \in People, r \in Rfqs, p \in Replies, k \in Keys : StartPrepare(c, r, p, k)
    \/ \E c \in Callers : CreateRequest(c) \/ Finish(c) \/ FinishOther(c) \/ Die(c)
    \/ \E c \in Evaluators :
          \/ \E r \in Rfqs, g \in Guardrails, p \in Replies : Evaluate(c, r, g, p)
          \/ EvaluatorPrepares(c) \/ RecordEvent(c)
    \/ \E q \in Requests : LeaveDraft(q)
    \/ \E j \in Splits :
          \/ \E r \in Rfqs : StartSplit(j, r)
          \/ CompleteSplit(j)
          \/ \E k \in Keys : PrepareSplit(j, k)

Next == MailStep \/ ReplyStep \/ PrepStep

Spec == Init /\ [][Next]_vars

(***************************************************************************)
(* A call that has begun goes on, as its server process does.  Nobody has  *)
(* to begin one, and no supplier to answer.                                *)
(***************************************************************************)
Fairness ==
    /\ \A c \in Senders :
          /\ \A s \in Suppliers : WF_vars(Deliver(c, s)) /\ WF_vars(Remind(c, s))
                                   /\ WF_vars(CommitReminder(c, s))
          /\ WF_vars(CommitSend(c))
    /\ \A c \in Callers : WF_vars(CreateRequest(c)) /\ SF_vars(Finish(c)) /\ WF_vars(FinishOther(c))
    /\ \A c \in Evaluators : SF_vars(EvaluatorPrepares(c)) /\ WF_vars(RecordEvent(c))

FairSpec == Spec /\ Fairness
=============================================================================
