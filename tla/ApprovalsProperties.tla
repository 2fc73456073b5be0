------------------------ MODULE ApprovalsProperties ------------------------
(***************************************************************************)
(* What approvals promise requesters, approvers and owners.                *)
(***************************************************************************)
EXTENDS Approvals

\* Memberships, requests, steps and calls have the shape of their rows and handlers.
TypeOK ==
    /\ member \in [Member -> Membership]
    /\ request \in [Request -> RequestStatus]
    /\ step \in [Request -> Step]
    /\ call \in [Caller -> Call]

\* What a step may be while its request has a status.
StepsFor(status) ==
    CASE status = "draft" -> {"none"}
      [] status = "submitted" -> {"pending"}
      [] status \in {"approved", "ordered"} -> {"approved"}
      [] status = "rejected" -> {"rejected"}
      [] status = "withdrawn" -> {"none", "pending", "approved"}

\* A request and its step agree: a concurrent withdrawal, decision or reassignment never
\* leaves a decided step on a request that awaits one, or a request decided without its step.
StepFollowsRequest == \A r \in Request : step[r].status \in StepsFor(request[r])

\* The requests of a split are submitted, decided and withdrawn as one, by one member,
\* though each has a row, a step and endpoints of its own; only ordering tells them apart.
SplitDecidedTogether ==
    \A r, s \in Split :
        /\ request[r] = request[s] \/ {request[r], request[s]} = {"approved", "ordered"}
        /\ step[r].status = step[s].status
        /\ step[r].decidedBy = step[s].decidedBy

\* A decision is made by an active member who at that moment owns the workspace or is the
\* assignee, and who did not submit the request unless nobody else owns it: however long ago
\* the call read its role and whatever was reassigned, demoted or removed since.
DecisionIsAuthorised ==
    [][\A r \in Request : step'[r].decidedBy # step[r].decidedBy =>
          LET m == step'[r].decidedBy IN
          /\ member[m].active
          /\ member[m].owner \/ step[r].assigned = m
          /\ m = Requester[r] => \A o \in Member \ {m} : ~(member[o].owner /\ member[o].active)]_vars

\* A decided step never changes again: the escalation of a removed member, which read the step
\* as pending, does not reach one decided since, and no second approver decides it anew.
DecidedStepFrozen ==
    [][\A r \in Request : step[r].status \in {"approved", "rejected"} => step'[r] = step[r]]_vars

-----------------------------------------------------------------------------
\* "A workspace MUST always retain at least one active owner."
RetainsOwner == ActiveOwners # {}

\* "a step is not assigned to the requester when someone else is eligible"
RoutedToSomebodyElse ==
    [][\A r \in Request :
          step'[r].assigned = Requester[r] /\ step[r].assigned # Requester[r] =>
              SoleOwner(Requester[r])]_vars
=============================================================================
