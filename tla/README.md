# ProcurePilot: TLA+ models, checks and proofs

ProcurePilot is a procurement service: a FastAPI application over PostgreSQL (Supabase, with row
policies and triggers), queues in Redis for background workers, an Angular web client and a Flutter
mobile client. Nearly everything that is hard about it happens between statements. Many handlers run
a check in one database request and the write in another; workers take deliveries from a queue that
may lose or repeat them; clients repeat calls under idempotency keys.

This directory holds TLA+ models of the parts where that matters most, configurations that check
them with TLC, and proofs that TLAPS checks. `src/` is the repository. In paths `api/` stands for
`src/apps/api/src/procurepilot_api/`, `optimiser/` for
`src/services/optimiser/src/procurepilot_optimiser_worker/` and `migrations/` for
`src/supabase/migrations/`.

## 1. The system

| Component | State | Operations | Interacts with |
|---|---|---|---|
| Purchase orders (`api/modules/orders`) | `purchase_order`, its lines, confirmations, receipts, stored idempotency keys | create, edit, submit, withdraw, cancel, close, confirm, receive | locks the request it draws on, moves the request between approved and ordered |
| Purchase requests (`api/modules/requests`) | `purchase_request`, lines, groups, templates, quality issues | create, edit, submit, decide, withdraw, confirm delivery | orders, approvals, push outbox, RFQs |
| Approvals (`requests/service.py`, `requests/routing.py`) | `approval_step`, rules, delegations | route at submission, decide one, a group or many, escalate | members, requests; a trigger guards every step |
| Members (`api/modules/members`) | `membership` | update, remove | approvals (escalation), owner guard trigger |
| Invitations (`api/modules/members/invitations.py`) | `member_invitation` | invite, resend, revoke, accept | members (the accepted invitation becomes a membership), mailer |
| Basket split jobs (`api/modules/offers/basket_service.py`, `optimiser/`) | `basket_split_job`, RQ queue, worker registrations | create, retry, poll; claim, complete, fail | Redis, solver, RFQs, web page that polls |
| Extraction and review (`api/modules/quotations`, `api/modules/extraction`, extraction worker) | `quotation`, lines, evidence, `extraction_job`, `review_task` | extract, retry, replace document, patch, confirm, refuse, archive, restore | Redis, documents, matching, guardrails |
| RFQs and guardrails (`api/modules/rfq`, `offers/rfq_split.py`) | `rfq`, recipients, responses, guardrail events | send, remind, cancel, convert by hand, by guardrail or from a split | email, ingestion, requests, basket splits |
| Email ingestion (`api/modules/ingestion`, `api/workers/email_ingestion_worker.py`) | `ingestion_email_log`, `ingestion_jobs` | accept, deduplicate, retry, match a reply | quotations, RFQs, extraction queue |
| Offer refresh, catalogue imports | `offer_refresh_schedule`, `ingestion_jobs`, reviews | schedule, claim, review, import | catalogue, offers |
| Matching (`api/modules/matching`) | chain of `match_decision` rows, candidates, tasks, aliases | propose, decide, correct, learn and sweep | quotations, landed cost, guardrails |
| Webhooks (`api/workers/webhook_worker.py`) | `webhook_delivery`, subscriptions | claim, deliver, retry, fail | audit events |
| Exports, reports, digests | `export_job`, `report_schedule`, digest subscriptions | schedule, queue, render, purge, send | Redis, storage, mail |
| Push notifications (`api/modules/devices`) | `push_notification` outbox | write with the request, send, sweep | requests, Redis |
| Mobile offline queue (`src/apps/mobile/lib/core/offline_queue`) | items on the device | replay under the key of the item | requests API |
| Accounting, POS (`api/modules/accounting`, `api/modules/pos`) | imported vendors, bills, sales, match results | sync under an advisory lock, three-way match | orders, receipts |
| Landed cost, offers, savings, forecasting, alerts, analyst | derived rows and read models | compute | everything above, read only |
| Catalogue, organisation, authentication, tenants, billing, partner API, documents | rows edited one at a time | CRUD | row policies |

`PROJECT.json` lists every component with its files and whether it is modelled. Its `hazards` list
names, line by line, what can go wrong that a test would hardly reach, with the properties that
cover it or the reason why none does yet.

### What is hard

* **Interleaving.** Orders lock their row and then requests; request handlers of the PostgREST kind
  lock nothing and read and write in separate requests; the two meet on `purchase_request.status`.
* **Waiting.** A cancellation and an edit hold an order row while they wait for a request's lock.
* **Retries.** Every write of an order carries an idempotency key, and the row keeps only the last
  submit key and the last withdraw key.
* **Evidence out of order.** A confirmation may come after a receipt, a receipt after a
  cancellation, and a replay after anything.
* **Queues.** A delivery is put into Redis after the commit of its row: it may be lost, repeated,
  late, or accepted although the caller saw an error. Workers die while they hold a job.
* **Leases.** Workers claim mail and webhook deliveries for some minutes. One that is late is
  overtaken, and nothing stops it from writing its outcome when it comes back.
* **One step of several failing.** Mail leaves inside the transaction that records it; a preparation
  commits a draft on one connection and links it on another; a resolution of a match is a dozen
  statements, each a transaction of its own.
* **Time.** A job is given up by its age and by what Redis says of workers, while a slow worker is
  still solving it.

## 2. Modules

```
component      properties                  TLC                              TLAPS
------------   -------------------------   ------------------------------   -----------------
ProcureToPay   ProcureToPayProperties      MCProcureToPay                   ProcureToPayProof, Sums
BasketSplit    BasketSplitProperties       MCSourcing (extends these and    BasketSplitProof
               (INSTANCE JobAttempts)        instances RfqProperties)
Rfq            RfqProperties               MCRfq, MCSourcing                RfqProof
Approvals      ApprovalsProperties         MCApprovals                      ApprovalsProof
Ingestion      IngestionProperties         MCIngestion                      IngestionProof
Webhooks       WebhooksProperties          MCWorkers (extends these and     WebhooksProof
Extraction     ExtractionProperties          instances ExtractionProperties)
Matching       MatchingProperties          MCMatching                       MatchingProof
```

A component has a module with its state and actions, a module with its properties, and its proofs in
a module of their own; the MC modules instantiate components for TLC. Each module extends those to
its left, so the proofs are about the very definitions the runs check. Operators whose comment
begins with *Mutant* are plausible mistakes in the definition that follows; no specification uses
them. `PROJECT.json` pairs each with the property that must fail once it takes the definition's
place.

In all models a step ends where others can come in between: at the commit of a transaction, at a
wait for a lock, at a request to PostgREST (each is a transaction), or at a call to Redis, a mail
server or an endpoint. A call may be cut off between two steps wherever the code can be.

### ProcureToPay: orders and the requests they draw on

| Variable | In the code |
|---|---|
| `request`, `short`, `counted` | `purchase_request.status`, `has_delivery_discrepancy`, `purchase_request_line.quantity_received` |
| `order` | `purchase_order` with the quantities of its lines and what receipts recorded; `edits` tells apart the line sets an edit replaced |
| `used` | the idempotency keys stored for an order: in the row (submit, withdraw keep the last one only), in `purchase_order_edit_idempotency`, in confirmations and receipts |
| `call` | the local variables of a handler between two of its database requests |
| `orderLock`, `requestLock` | row lock of the order and `pg_advisory_xact_lock` of a request, where one is held while the handler waits for another |

A transaction that waits for no second lock is one step: what it holds cannot be seen by others
before it commits. `create_order` is two steps (the approval check runs on PostgREST before the
transaction); `update_draft_order` up to five (read, order row, edit key, each request in turn,
write); `cancel_order` three; confirmations and receipts two, as their lines are validated against
an order that was read before. `confirm_delivery` is one step per PostgREST request: the status is
read, each counted line is written, then the header. A call may be abandoned between any two steps,
which releases its locks and keeps what it committed.

Every quantity that decides a branch is kept (`_request_allocation_sql` is `Reserved` and
`Allocated`, `progress_order_status` is `ProgressOrderStatus`), prices, names, numbers and notes are
not. Requests are approved and withdrawn as far as orders can see.

Not in this model: order numbers and the conflict on them; a `purchase_record` of a received order,
which also blocks a withdrawal (`api/modules/orders/service.py:592`); lines of quantity zero, which
the schema allows for manual orders; reads and searches.

### BasketSplit: the attempt fence

| Variable | In the code |
|---|---|
| `job` | `basket_split_job`; `attempt` is `created_at`, which every retry renews and every write of a worker compares |
| `age` | how long ago the attempt was queued or claimed: fresh, beyond the stall limit, beyond the expiry limit |
| `attempts` | the values of `created_at` given out so far |
| `delivery` | entries of the RQ queue, a set: the order of the queue and the number of copies of an entry do not matter to a claim |
| `worker` | optimiser processes and whether Redis still lists them |
| `call` | what `create_job` or `get_job` has read and does next |

`POST /baskets/optimise` is modelled statement by statement as far as others can act in between: the
lookup by key, the sweep of stuck jobs, the search for an active equivalent, the insert (or its
refusal by the unique index), the enqueue after the commit and the compensation when it failed. A
poll reads and, in a later statement, fails what it found stuck. A worker takes a delivery and
claims the row in one transaction, solves, and completes or fails the attempt it claimed, each
fenced by status and attempt. Redis may lose a delivery or return one to the queue; a worker may
die, and its registration outlives it for a while.

`JobAttempts` states what all this is for, without queues, workers or time: a job is a series of
attempts; an attempt is claimed at most once; only the worker that claimed the current attempt
completes the job; an attempt that failed or was replaced never comes back. `BasketSplitProperties`
maps the row of the implementation to it.

### Approvals: who decides a request

| Variable | In the code |
|---|---|
| `member` | `membership`: whether the role is owner (no other role matters to a decision) and whether it is active; a removed member never comes back |
| `request` | `purchase_request.status` |
| `step` | the `approval_step` of a request, of which there is at most one |
| `call` | what a handler has read: the role it was authorised with, removed members, owners, the requests it moves, the steps it will reassign |

`submit_request` holds the row and the lock of its request while it reads rules, delegations,
removed members, one owner and all owners in PostgREST requests that are not part of its
transaction, so each of those reads of `membership` is a step. The submission of a split reads all
members in one statement of its transaction. `resolve_approver` is the operator `ResolveApprover` of
what was read: the narrowest matching rule, the branch before the workspace, then the latest
delegation, then another owner if the requester would come out. Where the code takes the first of
rows that come in no order, the operator returns all of them. Inserting the step commits the
submission; the trigger `approval_step_guard_client_write` may refuse it.

A decision reads its caller's role when the call arrives (`StartTransition`) and everything else in
one transaction (`Decide`). That transaction locks the rows it writes and only reads `membership`,
so it is one step, placed at the trigger's reading of it; a role change committed between that
reading and the commit of the decision counts as later. Decisions with and without an idempotency
key and those of a split differ in what they check beforehand and repeat all of it in the
transaction. A withdrawal is the same kind of step.

A role change or a removal is one statement whose trigger, the owner guard, runs before the commit:
`GuardChange` and `CommitChange`. Two of them on different rows overlap. A removal then reads the
pending steps of the member, reads an owner, and updates one step per PostgREST request
(`Reassign`); the first error ends it, and the removal stands. `MayFail` says whether calls may also
be cut off between their steps. `MarkRequestOrdered` and `ReleaseRequestWithoutOrders` are what the
handlers of `ProcureToPay` do to a request.

Not in this model: delivery, and the old status ordered without an order; replays of a key, which
answer from the audit trail and change nothing; bulk decisions, which run `_decide_request` once for
each request; rules and delegations are constants, as is the set of members.

### Rfq: mailing suppliers and preparing requests

| Variable | In the code |
|---|---|
| `rfq` | `rfq.status`, and whether `needed_by_date` has passed; *expired* is computed by `EffectiveStatus` |
| `recipient` | `rfq_recipient`: send status, number of reminders, and whether the 24 hours between two of them are over |
| `mailing` | the open transaction of `send_rfq` or `send_reminder`: whom it has mailed, whom it failed to mail, who is left |
| `left`, `lost` | mails that left, and those whose transaction died; no table has them |
| `reply` | `rfq_response` with the quotation it became: how far extraction and review have come, and whether it is archived |
| `request` | `purchase_request` as far as a preparation makes it: its key, the response it is linked to, its group |
| `split` | a `basket_split_job` started from an RFQ, with the group prepared from it |
| `event` | `auto_preparation_event`, what a guardrail recorded |
| `prep` | the local variables of a preparation, by a person or by `evaluate_guardrails` |

A send and a reminder hold the row of the RFQ while mail leaves (`api/modules/rfq/service.py:567`,
`:780`), one mail per step, and commit at the end; `LoseSend` and `LoseReminder` are the transaction
that dies after mails left. A preparation commits the draft on its own connection (`CreateRequest`),
then takes the RFQ's row on another, links the draft and converts the RFQ (`Finish`); both happen
under the advisory lock `rfq-prepare`. An evaluation holds the evaluator lock of the RFQ as well,
and commits the event in a transaction of its own. A split is prepared in one transaction. How a
guardrail ranks the replies is left open: it may choose any usable one.

`RfqOf` says that a key is made for one RFQ. The web client makes a key when a person prepares a
response (`src/apps/web/src/app/features/rfqs/compare.component.ts:934`).

Not in this model: extension of the date, edits of guardrails, how a reply is matched to an RFQ,
reads.

### Ingestion: one quotation per message

| Variable | In the code |
|---|---|
| `content` | what parsing and validation say of a message, always the same |
| `job` | `ingestion_jobs`: status, attempts, and whether `locked_at` is older than the lease |
| `log` | the committed `ingestion_email_log.status` of a message, *none* before there is a row |
| `row` | the worker whose transaction has inserted or locked that row |
| `quotations` | how many quotations a message became |
| `worker` | the pass of a worker: the jobs it claimed, with the attempts it claimed them with, and where it is in the current one |
| `requeues` | how often the operator reset a failed job (bound) |

A worker claims all due jobs in one transaction and works through them. For each, one transaction
inserts the log row (or locks the one that is there, or waits for the worker that has it), makes the
quotation or rejects the message, and commits; further ones write a failure into the log row and the
outcome into the job. Nothing fences a worker that was overtaken: each of those writes may come
after the second worker's. Not in this model: how the supplier of a message is found, attachments.

### Webhooks: bounded posts

| Variable | In the code |
|---|---|
| `paused` | the subscription is not active |
| `delivery` | `webhook_delivery`: status, attempts, whether `next_attempt_at` and the lease have passed |
| `posts`, `taken` | what the endpoint saw: the number of requests, and whether it answered one with success |
| `worker` | the batch a worker claimed, with the attempts it counted, the delivery it posts, the answer it got |

The claim counts the attempt and commits; the post and the write of its outcome follow one by one,
and the write compares nothing. Not in this model: subscriptions other than the pause, signatures
and bodies.

### Extraction: every extraction ends

| Variable | In the code |
|---|---|
| `quote` | `quotation`: status, document, and the document its lines were read from |
| `job` | `extraction_job`; *unsent* is failed with the error `redis_enqueue_failed` |
| `queue`, `payload` | the job ids in Redis, and the document the last push of each named |
| `call` | what a call of `extract`, `retry`, `replace_document`, a review, the capture or `requeue_extraction` has read and does next, one statement at a time |
| `worker` | an extraction worker: starting a job, running it, recording its failure |
| `left` | the jobs a call or a worker left half-way: killed, or by an error nobody handles |

Only two constraints coordinate the parties: a quotation has one active job, and a job has its time
of completion exactly when its status is final. A push may fail, or succeed while the caller sees an
error; the caller then undoes its writes statement by statement. The worker writes lines and outcome
in one transaction, which holds the job's row from its start, and a failure in another. Its handler
covers neither the connection, the document and the mark (`worker.py:50`) nor the record of a
failure and its commit (`:98`): an error there, like a kill, is `Leave`, after which job and
quotation stay as they were. The liveness properties except what was left half-way, and nothing else
but a repeated replacement (section 5). Not in this model: what a review changes in lines and
evidence, archive and restore, exports, the extraction itself.

### Matching: chains of decisions

| Variable | In the code |
|---|---|
| `decision` | the chain of `match_decision` rows of a line, the current one last |
| `candidate`, `task` | `match_candidate` rows and the newest `match_task` of a line |
| `alias` | `product_alias`: the product a wording was taught for |
| `replay` | `match_resolution_idempotency` |
| `audit` | the events `matching.resolved` and `matching.decision_corrected` with the response they carry |
| `priced` | decisions with a `landed_cost` row |
| `queue`, `unseen` | quotations with a `guardrail_eval` job, and decisions no evaluation has read yet |
| `failures` | how many statements, inserts of a job or jobs failed, or processes died (bound) |
| `cut`, `dropped` | unread decisions whose maker was cut off before it could queue an evaluation, and those whose job could not be inserted or was given up; no table has them |
| `call`, `run` | where a resolution or correction, or a read of matches, is, and what it has read |

Nearly every statement is a transaction of its own and thus a step, in the order of the code;
`call.pc` and `run.pc` are the places between them. A correction takes the advisory lock of its line
twice: until its decision and replay record are committed, and again to finish what follows. A
resolution takes none. `Decide` carries the constraints of the table: a first decision finds none, a
later one supersedes the current one. A guardrail job is inserted at best effort (`Enqueue` may
fail) and evaluated by the mail worker, which gives it up after its last attempt (`FailEvaluation`);
an attempt that fails and is repeated leaves the job queued. What a search finds, and which of
several similar candidates leads, are left open (`Found`, `Proposals`).

Not in this model: the bulk confirmation (it takes a plan frozen at its start),
`no_match_new_product`, archived products, audit events of automatic and swept decisions, scores.
Whether a live request forbids a correction is a refusal that may always happen (`Check`).

## 3. What TLC checks

| Run | Instance | Shows |
|---|---|---|
| `orders` | two clients, two orders of one request with two lines of one unit, a member who counts deliveries | `NoOverAllocation`: live orders and received goods never draw more than was requested; `KeyNamesOneOrder`; `LiveOrderHoldsRequest`; `StatusMatchesEvidence`; `SentOrderFrozen`, `FinalOrderUnchanged`, `LifecycleGuardNeverTrips` |
| `detach` | two clients move two orders between two requests in opposite directions, one request ordered before ADR-025 | `OrderedHasLiveOrder`: a request stays ordered only while a live order names it; `LocksAscend`; `EveryCallEnds`: no deadlock, no call waits for ever |
| `claims` | two calls of three members (two owners), a split of two requests and one more, rules of branch and workspace, delegations that point at everybody | `DecisionIsAuthorised`: entitled when it counts, not when the call arrived; `DecidedStepFrozen`: no escalation changes a step decided meanwhile; `StepFollowsRequest`; `SplitDecidedTogether` |
| `sourcing` | a client, two workers, two members who poll (one read-only); or two senders, a guardrail and a person at one RFQ | `ClaimedAttemptRuns`, `ResultIsCurrent`, and `AttemptsAreFenced`: the rows implement `JobAttempts`; `EveryJobSettles`: a polled job leaves queued and running, whatever is lost or dies; `EveryPreparationEnds` |
| `rfq_prepare` | two people, two evaluations and a split at one RFQ with two replies; or two senders and a person | `ConvertedExactlyWhenLinked`, `OnePreparationPerRfq`, `ReplayAnswersSame`, `EventNamesSource`; `MailsAccounted`, `NoMailAfterClose`, `DraftHasNoReplies`; `ClosedForGood` |
| `ingestion` | one message delivered twice, two workers, two attempts, one requeue | `OneQuotationPerMessage`, `CompletedMeansHandled`: nothing is lost behind a duplicate; `EveryJobRests` |
| `workers` | one webhook, two workers, three attempts; or two calls, three jobs, two documents, one extraction worker | `PostsWithinLimit`, `SucceededMeansTaken`, `WorkersRest`; `EveryExtractionEnds`, `NoJobBlocks`: no race strands a quotation or a job, only a call or worker that left a job half-way |
| `matching` | two lines of one wording in two quotations, two calls with a resolution and its correction, one read, one failure | `DecisionsEvaluated`: no maker that goes on forgets to queue its decision, and what a buyer is told of was handed over; `CorrectionAuditedOnce`, `RepliesAgree`, `AnsweredIsPriced`; `EveryLineRouted` |

Four more runs show a sentence of the documentation or of a comment that the code does not keep;
each ends in the counterexample TLC finds. `PROJECT.json` quotes the sentences under `findings`.

| Run | What happens |
|---|---|
| `delivery_race` | a delivery is confirmed on a status read before the order was cancelled or the request withdrawn: the request becomes delivered from approved or withdrawn |
| `last_owner` | two owners are removed or demoted at the same time; each owner guard counts the other one, and the workspace keeps none |
| `self_routed` | the assignee is removed, and the escalation gives the step to the requester, an owner, although another owner is there |
| `guardrail_gap` | two lines of one quotation have one wording; the first is resolved and evaluated before its sweep decides the second, which no evaluation is queued for |

### Composed runs

`sourcing` and `workers` hold two components each that share no variable. A behaviour chooses one of
them at its start (`moving`); the other stays in one initial state. The components are checked as if
apart, with the sum and not the product of their states, and the properties the theorems name are
those of the extended module itself.

### Bounds

Two clients are enough for every pair of handlers to overlap at every point; the proofs cover any
number. Beyond that, each run bounds:

* `orders`, `detach`: `MaxOrdered` and `MaxReceived` are 1 against one or two units requested per
  line, so that an order takes part of a request, all of it, or one too many. Two lines make *every
  line* and *some line* differ. The number of keys of an operation bounds how often it takes effect,
  and an operation without keys is never called. `OneQuestion` keeps the keys of two orders, of one
  order's evidence and of deliveries apart.
* `claims`: three members are the requester, another owner and somebody who is neither. `OneUnit`
  keeps a behaviour to the split or to the other request. No bound is needed otherwise, as nothing
  is submitted twice.
* `sourcing`: `MaxAttempts` is 2, which shows an old worker against a new attempt. One client
  submits and retries; two clients whose retries overlap (the hazard at `basket_service.py:679`),
  and deliveries without a token (`Legacy`, from before the fence), are covered by the proofs only.
* `rfq_prepare`: `MaxLost` is 1 mail of each kind; `OneCase` lets a supplier reply once and, once a
  mail is late, lost or repeated, keeps one supplier and one person.
* `ingestion`: `MaxAttempts` 2 and `MaxRequeues` 1 reach failure, requeue and failure again.
* `workers`: `MaxAttempts` 3; `Jobs` has three rows, for the two calls and the operator's requeue.
  `InOrder` lets the second call begin after the first, as they differ in nothing but their keys.
* `matching`: `MaxFailures` is 1; `TwoAtOnce` lets two of calls and reads be in progress;
  `PickOrCorrect` keeps a pick by hand and a correction to behaviours of their own. On line 1
  a search finds two similar products, on line 2 nothing (`NoHit`), which leaves it to the sweep or
  a product picked by hand.

Orders, clients, callers, suppliers and replies are symmetric where no liveness is checked.

`CHECK_DEADLOCK FALSE` appears where the system may really stop: all keys used up and no call in
progress (`detach`, `matching`, `guardrail_gap`), an RFQ closed and every preparation ended
(`rfq_prepare`), jobs and deliveries at rest (`sourcing`, `ingestion`, `workers`), a workspace
without active members (`claims`, `last_owner`, `self_routed`). Where that stop could hide a
deadlock, a liveness property or, for orders, `LocksAscend` excludes it.

### Fairness

`ProcureToPay` is strongly fair in the steps of every call that has begun: a handler goes on unless
it waits, and PostgreSQL grants a lock to its waiters in order of arrival. Nothing forces a client
to call.

`BasketSplit` assumes that time passes and that a member with the right to write polls a job again
and again and gets answers. The page of a job does that
(`src/apps/web/src/app/features/offers/basket-split/basket-split.component.ts:708`): it polls every
1.5 seconds until the job has settled, and after three failures in a row the member asks again. No
fairness is assumed of workers, of Redis, of other callers.

`Rfq` is fair in the calls that have begun: weakly where they need nothing, strongly where they wait
for the RFQ's row or its advisory lock. `Extraction` is weakly fair in the statements of each call
and in its workers, which take jobs for ever. `Ingestion` and `Webhooks` are
weakly fair in their workers, which run passes for ever, and in time: leases expire and back-offs
end.

`Approvals` and `Matching` state no liveness: nobody is bound to decide.

## 4. What is proved

All theorems hold for every number of requests, orders, lines, quantities, clients, jobs, workers,
members, suppliers, replies, messages and keys, and for every set of rules and delegations. They
assume only the named ASSUMEs of the modules, which TLC evaluates on the instances: ids of requests
are ordered naturals, `None` is not an id, quantities are naturals, limits of attempts are positive,
the requests of a split have one requester, a key is made for one RFQ (`RfqOf`) or one request
(`Asked`).

Every invariant and every action property of the passing runs is the statement of a theorem, and so
is the refinement of `JobAttempts`. `PROJECT.json` lists them all.

| Module | Theorems |
|---|---|
| `ProcureToPayProof` | `TypeCorrect`, `LocksAscendHold`, `LiveOrderHolds`, `OrderedIsHeld`, `StatusIsSupported`, `SentOrdersFrozen`, `FinalOrdersUnchanged`, `LifecycleHolds`, `KeysNameOneOrder`, `NothingOverAllocated` |
| `BasketSplitProof` | `TypeCorrect`, `ClaimsHold`, `ResultsAreCurrent`, `FenceImplemented` (the refinement of `JobAttempts`) |
| `ApprovalsProof` | `TypeCorrect`, `StepsFollowRequests`, `SplitsDecidedTogether`, `DecidedStepsFrozen`, `DecisionsAuthorised` |
| `RfqProof` | `TypesKept`, `MailsCounted`, `ClosedMailsNobody`, `DraftsUnanswered`, `ConversionsLinked`, `PreparedOnce`, `ReplaysAgree`, `EventsNameSources`, `ClosedRfqsFinal` |
| `IngestionProof` | `TypesKept`, `QuotedOnce`, `NothingLost`, `HandledForGood` |
| `WebhooksProof` | `TypesKept`, `PostsBounded`, `SuccessIsTrue` |
| `MatchingProof` | `TypesKept`, `DecisionsSeen`, `CorrectionsAuditedOnce`, `KeysAgree`, `AnswersPriced`, `LinesRouted` |

Each module proves one inductive invariant, with a lemma for each action it could be disturbed by,
and derives its theorems from it.

**Orders.** `Typed` strengthens `TypeOK` by what each wait of a call implies of its fields.
`LockInv` says who may hold which lock at which point, `HoldsOrder` in particular that a handler in
`edit_requests` or `cancel_request` holds its order's row. From it follows that what such a handler
read of the order is still true when it writes, and this is the one fact the others need:
`RequestsHeld` (both directions of the bond between request and order) is inductive relative to
`Typed` and `LockInv`, and so is `StatusMatchesEvidence`, one lemma per handler. The action
properties `SentOrderFrozen`, `FinalOrderUnchanged` and `LifecycleGuardNeverTrips` follow step by
step from these invariants.

**Keys.** `KeyNamesOneOrder` is not inductive: an edit checks its key first and stores it some waits
later. `EditKeyInv` adds that the key of an edit past that check is unused, and that no other such
edit holds it. The insert of a key waits for a transaction that inserted the same one, and finds it
used or gone.

**Allocation.** `NoOverAllocation` compares sums over orders. `Sums` proves what it needs of
`SumFunctionOnSet`: the sum exists, is a natural, splits off any element, grows with its terms and
shrinks on a subset. Such facts need induction over finite sets, whose usual rule takes a property
as its parameter and cannot be used here. `MinimalSubset` replaces it: a nonempty set of subsets of
a finite set has a minimal element (from the well-foundedness of strict inclusion), so the smallest
set that refutes a lemma is looked at instead. `AllocationInv` adds to the invariant that the
created orders are finite in number and that orders not created name no request; that `Orders` is
finite is not assumed. A write that passes the check of `Allocated` under the request's lock keeps
the bound; a cancellation replaces an order's reserve by what was received of it, which is not more;
a receipt draws on the reserve.

**Basket splits.** `TokensIssued` says that every attempt named anywhere (rows, deliveries, workers,
calls) has been given out, so a new attempt differs from all of them. `FenceInv` joins it with
`ClaimedAttemptRuns` and `ResultIsCurrent` and is inductive. The refinement needs `TokensIssued`
alone for *a later attempt starts* and the fences in the workers' guards for the rest.

**Approvals.** `CallInv` says that a call moves the requests of one unit (a request of its own, or
the whole split) and knows the members it will name. `SubmitInv` is the lock of a submission: its
requests are still drafts when it commits, and no other submission has them. With these,
`StepFollowsRequest` and `SplitDecidedTogether` are inductive. `StepChanges` names the three steps
that touch an approval step, from which the two action properties follow: an insertion finds a
draft, which has no step, and the others find a pending one.

**RFQs.** `MailInv` says what a sender knows while it holds the row of an RFQ: the RFQ is open, and
the recipients it mails are as it read them. Together with the count of `MailsAccounted` this is
inductive, one lemma per action of the mail. `PrepInv` says the same of a preparation: its reply is
one of its RFQ, its request has its key, the RFQ is open while it holds the lock, and a key names
one request. `LinkInv` joins the bond between conversion and links with `EvaluatorInv`: as long as
an evaluation goes on, no request of its guardrail is linked, and what an event recorded is final.
Steps of the mail leave the preparations alone and the other way round, but for the status of the
RFQ, which both write.

**Ingestion.** A worker overtaken by another may write last, so jobs guarantee little. `ClaimInv`
says that an attempt is claimed below the limit; `OpenInv` that who handles a message holds its log
row, which is not handled yet; `OutcomeInv` that who is about to write *completed* has a message
that was dealt with. With `HandledForGood`, that a handled row never changes again, the late writes
do no harm.

**Webhooks.** The bound on posts is not inductive as it stands, as a post follows its claim by any
number of steps. `CountInv` counts the posts to come: posts made, and workers that still have the
delivery to post, are together at most the attempts the row counted.

**Matching.** The tables only grow, which `Keeps` states of every step; so what a call or a read has
read stays true while others act (`Stable`). `Calls` and `Reads` say what each knows at each place
of its code, `Tables` what replay records, chains and audit events say of one another, `Lock` that
corrections of a line exclude each other while they finish, from which one event per correction
follows. `UnseenInv` names what became of every decision no evaluation has read: a job is queued, or
a call or read will queue one, or its maker was cut off, or its job given up. The second half of
`DecisionsEvaluated` needs more, as a correction sent again finds its decision and lines in the
tables: past its own queueing, a call's decision and the lines it swept abroad are handed over. The
attempt to prove it showed that the model had taken the audit events of a resolution and of a
correction for one kind; it keeps them apart now, as the code does.

**Only model-checked.** All liveness properties (`EveryCallEnds`, `EveryPreparationEnds`,
`EveryJobSettles`, `EveryJobRests`, `WorkersRest`, `EveryExtractionEnds`, `NoJobBlocks`), as ENABLED
and fairness are beyond the prover. `Extraction` promises nothing but liveness, so it has no
theorem.

## 5. What the models contain and no property states

The code behaves as follows, and so do the models unless noted. Nothing here is stated by a run.

**Orders, requests, members.** A late retry of the first submit or withdraw key moves the order
again, as a second key has overwritten the one the row stores (`api/modules/orders/service.py:583`;
`src/docs/architecture/api-specification.md:2767` says that such a retry changes nothing). Two
confirmations of one delivery interleave, and the discrepancy flag of one stays over the counted
lines of the other (`api/modules/requests/service.py:2292`). The escalation promises not to
strand the requests of a removed member (`api/modules/requests/service.py:3306`), and does in three
ways. An owner who removes themselves cannot reassign their own steps, as the trigger no longer
knows them, and the error is swallowed (`api/modules/members/service.py:277`). A submission that
read the removed members before the removal routes to one after the escalation looked
(`api/modules/requests/service.py:2065`). The reassignment of a split stops half-way, and its
decision is refused as an invalid group from then on, so that it can only be withdrawn (`:3342`).
Other steps of a removed member can still be decided by an owner. That a submitted request has
somebody who may decide it follows from the guard's exception for a sole owner alone, so it is no
property.

**Basket splits.** Two retries of a job both read *failed*, and the second restarts the attempt the
first one queued, even a completed one (`api/modules/offers/basket_service.py:679`). A poll found a
job stuck, a retry queued a fresh attempt, and the poll's update fails that one
(`api/modules/offers/basket_service.py:300`). Two submissions of one basket both find no active
equivalent (`api/modules/offers/basket_service.py:147`, `:173`).

**RFQs.** A draft that is submitted before its preparation links it stays without a link, and the
next preparation makes a second request from the same RFQ (`api/modules/rfq/service.py:1159`). A
transaction that dies after its mails is repeated and mails again, and a reply to the unrecorded
mail arrives as a plain quotation (`api/modules/rfq/service.py:567`, `:780`). A preparation does not
require that the quotation was reviewed. The edit of a draft deletes its recipients, and by cascade
the replies, although the code expects the foreign key to refuse that
(`api/modules/rfq/service.py:416`, `migrations/20260924203650_rfq_sourcing.sql:55`); it is safe
because a draft has no replies, which `DraftsUnanswered` proves. Reuse of a key for another RFQ is
excluded by `RfqOf`.

**Extraction.** A replacement repeated with its key while the first call is being undone leaves the
quotation extracting with a failed job (`api/modules/quotations/service.py:600`). A late first
delivery runs a reopened job before the call marks the quotation. An undo overwrites a newer status
or document, and a push whose answer was lost leaves the lines of another document than the one
recorded. A reviewer confirms on a status read earlier
(`api/modules/quotations/confirmation_service.py:49`). If a call dies between insert and push, or
the worker is killed or raises outside its handler, as for a missing document or a failed record of
a failure (`worker.py:50`, `:98`), the job stays queued and every retry is refused; the operator's
tool takes refused quotations only (`api/workers/requeue_extraction.py`). Not modelled: the patch of
a review is many requests (`api/modules/quotations/review_service.py:154`).

**Mail and webhooks.** A death between commit and push leaves a quotation extracting with a queued
job, and a redelivery of the mail is a duplicate. A late failure of an overtaken worker takes back a
completed job, which then runs into a duplicate. The last attempt of a webhook stays in processing
for ever when its worker dies (`api/workers/webhook_worker.py:68`), and an overtaken worker's
outcome may come over the other one's: pending at the limit, or a success taken back. A pause does
not stop a claimed batch.

**Matching.** A task stays open on a line that was decided meanwhile
(`api/modules/matching/service.py:1062`). A product picked by hand ends the catalogue search for a
line without candidates. The check for live requests and the correction are two steps
(`api/modules/matching/resolution_service.py:398`). Lines a resolution still sweeps after it was
corrected are missing from the correction's answer. If the cost of a correction fails, it ends
before its evaluation is queued (`api/modules/matching/resolution_service.py:559`); its repetition
queues it. A resolution that finds its decision made repairs what follows but queues neither it nor
what the first call swept, so a first call cut off in between leaves them without an evaluation; so
do a failed insert of the job, which is only logged, and a job whose last attempt failed
(`api/workers/email_ingestion_worker.py:225`). Nothing looks for such decisions later. The key of a
second buyer for one decision is refused for good, as the record is unique per decision. An
automatic decision whose cost failed is never priced by a read. Two calls that finish one resolution
both write an audit event. A resolution whose answer was lost before its record was written is
refused as already matched.

**Not modelled at all.** The report scheduler pushes an export before the transaction that inserts
its row commits (`api/workers/report_scheduler.py:159`, `:43`). The mobile queue replays its items
under their keys (`src/apps/mobile/lib/core/offline_queue/offline_queue_replay.dart:127`).

## 6. What is not modelled

`PROJECT.json` gives the reason for every component. The solver, landed cost, savings, forecasts and
the three-way match are arithmetic without a protocol. Catalogue, organisation, billing,
authentication and documents are single-row edits behind constraints and row policies. Invitations,
catalogue imports, exports, digests, push notifications and the mobile queue have protocols and are
open.

Left, in this order: an abstract ledger of a request (requested, reserved, received), implemented by
the orders; the mail side of `Rfq` against an abstract outbox; leases as one abstract module that
`Ingestion` and `Webhooks` implement; the row writes of `Extraction` (an active job is unique, which
the index states and the model assumes at `Check` and `Insert`); then the push outbox with its
sweep, and invitations (token rotation, expiry, acceptance).

## 7. Running

```
tlc -config Orders.cfg MCProcureToPay.tla     # each run: its cfg and module are in PROJECT.json
tlapm ProcureToPayProof.tla                   # each module whose name ends in Proof, and Sums
```
