----------------------------- MODULE Approvals -----------------------------
(***************************************************************************)
(* Approval of purchase requests: a requester submits a request, or all    *)
(* requests of a split together; it is routed to an approver, who decides  *)
(* it; owners change roles and remove members, whose pending steps are     *)
(* then reassigned one by one.  Routing reads rules and members through    *)
(* separate database requests; a call keeps the role its member had when   *)
(* it arrived; the owner guard counts what other transactions committed.   *)
(***************************************************************************)
EXTENDS Integers, FiniteSets

CONSTANTS
    Member,         \* memberships of a workspace
    Owners,         \* those that own it at first
    Caller,         \* API calls in progress at the same time
    Request,        \* purchase requests
    Split,          \* the requests of one request group, {} for none
    Requester,      \* who requests each
    Rules,          \* the threshold rules that match value and currency of the requests
    Delegations,    \* the delegations in force today
    MayFail,        \* whether a call may be cut off between two of its steps
    None

ASSUME NoneAssumption == None \notin Member
ASSUME OwnersAssumption == Owners # {} /\ Owners \subseteq Member
ASSUME RequesterAssumption ==
    /\ Requester \in [Request -> Member]
    /\ Split \subseteq Request
    /\ \A r, s \in Split : Requester[r] = Requester[s]
ASSUME RulesAssumption ==
    Rules \subseteq [approver : Member, branch : BOOLEAN, width : Nat]
ASSUME DelegationsAssumption ==
    /\ Delegations \subseteq [delegator : Member, delegate : Member, rank : Nat]
    /\ \A d, e \in Delegations : d.rank = e.rank => d = e
ASSUME MayFailAssumption == MayFail \in BOOLEAN

VARIABLES
    member,     \* membership: role and status
    request,    \* purchase_request.status
    step,       \* approval_step of each request
    call        \* what each API call has read and does next

vars == <<member, request, step, call>>

\* A role that is not owner matters to no decision.
Membership == [owner : BOOLEAN, active : BOOLEAN]

RequestStatus == {"draft", "submitted", "approved", "rejected", "ordered", "withdrawn"}

NoStep == [status |-> "none", assigned |-> None, decidedBy |-> None]

Step == {NoStep} \cup [status : {"pending", "approved", "rejected"},
                       assigned : Member, decidedBy : Member \cup {None}]

\* owner is member.role as read when the call arrived, fallback the owner whose id was
\* fetched; target and becomes are the membership a call updates and its new value.
Call == [at : {"idle", "read_removed", "read_fallback", "read_owners", "read_members", "route",
               "transition", "guarded", "read_pending", "read_owner", "reassign"},
         by : Member \cup {None}, owner : BOOLEAN, requests : SUBSET Request,
         removed : SUBSET Member, owners : SUBSET Member, fallback : Member \cup {None},
         target : Member \cup {None}, becomes : Membership]

Idle == [at |-> "idle", by |-> None, owner |-> FALSE, requests |-> {}, removed |-> {},
         owners |-> {}, fallback |-> None, target |-> None,
         becomes |-> [owner |-> FALSE, active |-> FALSE]]

\* Mutant: the endpoints of single requests accept a request of a split.
UnitUngroupedUnchecked == {{r} : r \in Request} \cup ({Split} \ {{}})

\* What one call moves: a request of its own, or all requests of the split.
Unit == {{r} : r \in Request \ Split} \cup ({Split} \ {{}})

ActiveOwners == {m \in Member : member[m].owner /\ member[m].active}

Inactive == {m \in Member : ~member[m].active}

\* Nobody else could decide what this member submitted.
SoleOwner(m) == ActiveOwners = {m}

-----------------------------------------------------------------------------
(* resolve_approver, as a function of what the call has read.              *)

\* The narrowest rule, of the branch before the workspace; equal ones come in any order.
ThresholdApprovers(removed) ==
    LET matching == {rule \in Rules : rule.approver \notin removed}
        specific == {rule \in matching : rule.branch}
        pool == IF specific # {} THEN specific ELSE matching
    IN {best.approver : best \in {rule \in pool : \A other \in pool : rule.width <= other.width}}

\* The delegate of the latest delegation, if there is one.
DelegatesOf(m, removed) ==
    LET open == {d \in Delegations : d.delegator = m /\ d.delegate \notin removed}
    IN {latest.delegate : latest \in {d \in open : \A other \in open : other.rank <= d.rank}}

\* Who answers for m: the delegate, unless there is none or it is the requester.
Deputies(m, removed, requester) ==
    LET delegates == DelegatesOf(m, removed) \ {requester}
    IN IF delegates = {} THEN {m} ELSE delegates

ResolveApprover(k, requester) ==
    LET threshold == ThresholdApprovers(k.removed)
        assignees == IF threshold # {} THEN threshold ELSE {k.fallback}
        others == k.owners \ (k.removed \cup {requester})
        Routed(m) == Deputies(m, k.removed, requester)
    IN UNION {IF requester \in Routed(m) /\ others # {} THEN UNION {Routed(o) : o \in others}
              ELSE Routed(m) : m \in assignees}

-----------------------------------------------------------------------------
Begin(c, m) == call[c] = Idle /\ member[m].active

Return(c) == call' = [call EXCEPT ![c] = Idle]

\* A submission holds the locks of its requests while it reads and routes.
Submitting == {"read_removed", "read_fallback", "read_owners", "read_members", "route"}

Locked(r) == \E c \in Caller : call[c].at \in Submitting /\ r \in call[c].requests

\* The request row is updated in this transaction, seen by others with the step.
StartSubmit(c) ==
    \E m \in Member, u \in Unit :
        /\ Begin(c, m)
        /\ \A r \in u : Requester[r] = m /\ request[r] = "draft" /\ ~Locked(r)
        /\ call' = [call EXCEPT ![c] = [Idle EXCEPT
              !.at = IF u = Split THEN "read_members" ELSE "read_removed",
              !.by = m, !.requests = u]]
        /\ UNCHANGED <<member, request, step>>

\* submit_request reads the members in three requests, none of its transaction.
FetchRemoved(c) ==
    /\ call[c].at = "read_removed"
    /\ call' = [call EXCEPT ![c].at = "read_fallback", ![c].removed = Inactive]
    /\ UNCHANGED <<member, request, step>>

FetchOwner(c) ==
    /\ call[c].at = "read_fallback"
    /\ \E o \in ActiveOwners :
          call' = [call EXCEPT ![c].at = "read_owners", ![c].fallback = o]
    /\ UNCHANGED <<member, request, step>>

FetchOwners(c) ==
    /\ call[c].at = "read_owners"
    /\ call' = [call EXCEPT ![c].at = "route", ![c].owners = ActiveOwners]
    /\ UNCHANGED <<member, request, step>>

\* The submission of a split reads all members in one statement.
ReadMembers(c) ==
    /\ call[c].at = "read_members"
    /\ \E o \in ActiveOwners :
          call' = [call EXCEPT ![c].at = "route", ![c].fallback = o,
                               ![c].removed = Inactive, ![c].owners = ActiveOwners]
    /\ UNCHANGED <<member, request, step>>

Approvers(c) == ResolveApprover(call[c], call[c].by)

\* approval_step_guard_client_write on insert.
MayInsertStep(c, a) == member[call[c].by].active /\ (a = call[c].by => SoleOwner(a))

InsertStep(c) ==
    /\ call[c].at = "route"
    /\ \E a \in Approvers(c) :
        /\ MayInsertStep(c, a)
        /\ step' = [r \in Request |-> IF r \in call[c].requests
                      THEN [NoStep EXCEPT !.status = "pending", !.assigned = a] ELSE step[r]]
    /\ request' = [r \in Request |-> IF r \in call[c].requests THEN "submitted" ELSE request[r]]
    /\ Return(c)
    /\ UNCHANGED member

RefuseSubmit(c) ==
    /\ \/ call[c].at \in {"read_fallback", "read_members"} /\ ActiveOwners = {}
       \/ call[c].at = "route" /\ \E a \in Approvers(c) : ~MayInsertStep(c, a)
    /\ Return(c)
    /\ UNCHANGED <<member, request, step>>

-----------------------------------------------------------------------------
(* Decisions and withdrawals, of a request or of the split.                *)

\* The role is read here, everything else in the transaction.  What a decision without an
\* Idempotency-Key checks already now, the transaction checks again.
StartTransition(c) ==
    \E m \in Member, u \in Unit :
        /\ Begin(c, m)
        /\ call' = [call EXCEPT ![c] = [Idle EXCEPT
              !.at = "transition", !.by = m, !.owner = member[m].owner, !.requests = u]]
        /\ UNCHANGED <<member, request, step>>

Pending(r) == step[r].status = "pending"

\* Mutant: the trigger reads the role from the claims of the token.
MayDecideByClaim(m, ownerRole, u) ==
    /\ \A r \in u : /\ ownerRole \/ step[r].assigned = m
                    /\ Requester[r] = m => SoleOwner(m)
    /\ member[m].active

\* The API trusts the role the call arrived with, the trigger reads the live one.
MayDecide(m, ownerRole, u) ==
    /\ \A r \in u : /\ ownerRole \/ step[r].assigned = m
                    /\ member[m].owner \/ step[r].assigned = m
                    /\ Requester[r] = m => SoleOwner(m)
    /\ member[m].active

\* All requests of the split have one assignee, or the decision is refused.
Decide(c) ==
    LET u == call[c].requests IN
    /\ call[c].at = "transition"
    /\ \A r \in u : ~Locked(r) /\ request[r] = "submitted" /\ Pending(r)
    /\ \A r, s \in u : step[r].assigned = step[s].assigned
    /\ MayDecide(call[c].by, call[c].owner, u)
    /\ \E decision \in {"approved", "rejected"} :
        /\ request' = [r \in Request |-> IF r \in u THEN decision ELSE request[r]]
        /\ step' = [r \in Request |-> IF r \in u
              THEN [step[r] EXCEPT !.status = decision, !.decidedBy = call[c].by] ELSE step[r]]
    /\ Return(c)
    /\ UNCHANGED member

\* Mutant: a rejected request is still open to withdrawal.
WithdrawableUnlessFinal == {"draft", "submitted", "approved", "rejected"}

\* A live order forbids it, and an ordered request has one.  The step stays as it is.
Withdrawable == {"draft", "submitted", "approved"}

Withdraw(c) ==
    LET u == call[c].requests IN
    /\ call[c].at = "transition"
    /\ \A r \in u : call[c].owner \/ Requester[r] = call[c].by
    /\ \E status \in Withdrawable : \A r \in u : ~Locked(r) /\ request[r] = status
    /\ request' = [r \in Request |-> IF r \in u THEN "withdrawn" ELSE request[r]]
    /\ Return(c)
    /\ UNCHANGED <<member, step>>

\* A refusal, or a replay, which answers from the audit trail.
AnswerTransition(c) ==
    /\ call[c].at = "transition"
    /\ \A r \in call[c].requests : ~Locked(r)
    /\ Return(c)
    /\ UNCHANGED <<member, request, step>>

-----------------------------------------------------------------------------
(* Role changes and removals, each one statement under the owner guard.    *)

\* The row of a membership is locked from its trigger to its commit.
BeingChanged(m) == \E c \in Caller : call[c].at = "guarded" /\ call[c].target = m

\* assert_tenant_retains_owner: it counts the owners it can see.
OwnerGuard(m, becomes) ==
    \/ member[m].owner = becomes.owner /\ member[m].active = becomes.active
    \/ ~member[m].owner /\ ~becomes.owner
    \/ becomes.owner /\ becomes.active
    \/ ActiveOwners \ {m} # {}

\* Either the role changes or the member is removed, which may be repeated.
Changes(m) == {[owner |-> ~member[m].owner, active |-> member[m].active],
               [owner |-> member[m].owner, active |-> FALSE]}

GuardChange(c) ==
    \E by \in ActiveOwners, m \in Member : \E becomes \in Changes(m) :
        /\ Begin(c, by)
        /\ ~BeingChanged(m)
        /\ OwnerGuard(m, becomes)
        /\ call' = [call EXCEPT ![c] = [Idle EXCEPT
              !.at = "guarded", !.by = by, !.target = m, !.becomes = becomes]]
        /\ UNCHANGED <<member, request, step>>

\* After a removal, a repeated one too, the call looks for the pending steps of the member.
CommitChange(c) ==
    LET m == call[c].target  becomes == call[c].becomes IN
    /\ call[c].at = "guarded"
    /\ member' = [member EXCEPT ![m] = becomes]
    /\ IF becomes.owner = member[m].owner
         THEN call' = [call EXCEPT ![c].at = "read_pending"]
         ELSE Return(c)
    /\ UNCHANGED <<request, step>>

PendingFor(m) ==
    {r \in Request : Pending(r) /\ step[r].assigned = m
                     /\ request[r] \notin {"withdrawn", "rejected"}}

ReadPending(c) ==
    LET rows == PendingFor(call[c].target) IN
    /\ call[c].at = "read_pending"
    /\ IF rows = {} THEN Return(c)
       ELSE call' = [call EXCEPT ![c].at = "read_owner", ![c].requests = rows]
    /\ UNCHANGED <<member, request, step>>

\* Any active owner, as the code asks for one without an order.
ReadEscalationOwner(c) ==
    /\ call[c].at = "read_owner"
    /\ \E o \in ActiveOwners :
          call' = [call EXCEPT ![c].at = "reassign", ![c].fallback = o]
    /\ UNCHANGED <<member, request, step>>

\* approval_step_guard_client_write on a reassignment.
MayReassign(c, r) ==
    /\ call[c].by \in ActiveOwners
    /\ call[c].fallback \in ActiveOwners
    /\ step[r].assigned # call[c].fallback

\* Mutant: neither the update nor the trigger asks whether the step is still pending.
ReassignAnyStep(c) ==
    \E r \in call[c].requests :
        /\ call[c].at = "reassign"
        /\ MayReassign(c, r)
        /\ step' = [step EXCEPT ![r].assigned = call[c].fallback]
        /\ IF call[c].requests = {r} THEN Return(c)
           ELSE call' = [call EXCEPT ![c].requests = @ \ {r}]
        /\ UNCHANGED <<member, request>>

\* One row per request to the database, in any order; a step decided meanwhile is skipped.
Reassign(c) ==
    \E r \in call[c].requests :
        /\ call[c].at = "reassign"
        /\ IF Pending(r)
             THEN /\ MayReassign(c, r)
                  /\ step' = [step EXCEPT ![r].assigned = call[c].fallback]
             ELSE step' = step
        /\ IF call[c].requests = {r} THEN Return(c)
           ELSE call' = [call EXCEPT ![c].requests = @ \ {r}]
        /\ UNCHANGED <<member, request>>

\* An error ends the whole follow-up; the removal stands.
StopEscalation(c) ==
    /\ \/ call[c].at = "read_owner" /\ ActiveOwners = {}
       \/ /\ call[c].at = "reassign"
          /\ \E r \in call[c].requests : Pending(r) /\ ~MayReassign(c, r)
    /\ Return(c)
    /\ UNCHANGED <<member, request, step>>

-----------------------------------------------------------------------------
\* A call is cut off between two requests to the database; what it has not committed is lost.
Abandon(c) ==
    /\ MayFail
    /\ call[c] # Idle
    /\ Return(c)
    /\ UNCHANGED <<member, request, step>>

\* Orders take an approved request and release it; see ProcureToPay.
MarkRequestOrdered(r) ==
    /\ request[r] = "approved"
    /\ request' = [request EXCEPT ![r] = "ordered"]
    /\ UNCHANGED <<member, step, call>>

ReleaseRequestWithoutOrders(r) ==
    /\ request[r] = "ordered"
    /\ request' = [request EXCEPT ![r] = "approved"]
    /\ UNCHANGED <<member, step, call>>

Init ==
    /\ member = [m \in Member |-> [owner |-> m \in Owners, active |-> TRUE]]
    /\ request = [r \in Request |-> "draft"]
    /\ step = [r \in Request |-> NoStep]
    /\ call = [c \in Caller |-> Idle]

Submission(c) ==
    \/ StartSubmit(c) \/ FetchRemoved(c) \/ FetchOwner(c) \/ FetchOwners(c)
    \/ ReadMembers(c) \/ InsertStep(c) \/ RefuseSubmit(c)

Transition(c) == StartTransition(c) \/ Decide(c) \/ Withdraw(c) \/ AnswerTransition(c)

MembershipChange(c) ==
    \/ GuardChange(c) \/ CommitChange(c) \/ ReadPending(c)
    \/ ReadEscalationOwner(c) \/ Reassign(c) \/ StopEscalation(c)

Next ==
    \/ \E c \in Caller : Submission(c) \/ Transition(c) \/ MembershipChange(c) \/ Abandon(c)
    \/ \E r \in Request : MarkRequestOrdered(r) \/ ReleaseRequestWithoutOrders(r)

Spec == Init /\ [][Next]_vars
=============================================================================
