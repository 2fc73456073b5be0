--------------------------- MODULE ApprovalsProof ---------------------------
(***************************************************************************)
(* Proofs about Approvals: types, the agreement of requests, steps and     *)
(* splits, and what a decision may rely on.                                *)
(***************************************************************************)
EXTENDS ApprovalsProperties, TLAPS

\* What the fields of a call hold at each point: the requests it moves are a unit, and the
\* members it names have been read.
CallOk(k) ==
    /\ k.at \in Submitting \cup {"transition"} => k.by \in Member /\ k.requests \in Unit
    /\ k.at \in Submitting => \A r \in k.requests : Requester[r] = k.by
    /\ k.at \in {"read_owners", "reassign"} => k.fallback \in Member
    /\ k.at = "route" => k.fallback \in Member
    /\ k.at \in {"guarded", "read_pending"} => k.target \in Member

CallInv == \A c \in Caller : CallOk(call[c])

\* The locks of a submission: its requests stay drafts, and no other submission has them.
SubmitInv ==
    \A c \in Caller : call[c].at \in Submitting =>
        /\ \A r \in call[c].requests : request[r] = "draft"
        /\ \A d \in Caller \ {c} : call[d].at \in Submitting =>
              call[c].requests \cap call[d].requests = {}

Typed == TypeOK /\ CallInv

USE DEF Submitting

-----------------------------------------------------------------------------
(* Helpers.                                                                *)

LEMMA UnitFacts ==
    ASSUME NEW u \in Unit
    PROVE  /\ u \subseteq Request
           /\ u # {}
           /\ (u \cap Split = {} \/ u = Split)
  BY RequesterAssumption DEF Unit

LEMMA DeputiesAreMembers ==
    ASSUME NEW m \in Member, NEW removed, NEW requester
    PROVE  Deputies(m, removed, requester) \subseteq Member
  <1>1. DelegatesOf(m, removed) \subseteq Member
    BY DelegationsAssumption DEF DelegatesOf
  <1>. QED  BY <1>1 DEF Deputies

\* Routing assigns a member, whatever rules and delegations there are.
LEMMA ApproversAreMembers ==
    ASSUME NEW k, k.fallback \in Member, k.owners \subseteq Member, NEW requester
    PROVE  ResolveApprover(k, requester) \subseteq Member
  <1>1. ThresholdApprovers(k.removed) \subseteq Member
    BY RulesAssumption DEF ThresholdApprovers
  <1>. DEFINE others == k.owners \ (k.removed \cup {requester})
              Routed(m) == Deputies(m, k.removed, requester)
  <1>2. \A m \in Member : Routed(m) \subseteq Member
    BY DeputiesAreMembers
  <1>3. UNION {Routed(o) : o \in others} \subseteq Member
    BY <1>2
  <1>. QED  BY <1>1, <1>2, <1>3 DEF ResolveApprover

-----------------------------------------------------------------------------
(* Type correctness.                                                       *)

LEMMA IdleFacts == Idle \in Call /\ CallOk(Idle) /\ Idle.at = "idle"
  BY DEF Idle, Call, Membership, CallOk

LEMMA NoStepFacts == NoStep \in Step /\ NoStep.status = "none"
  BY DEF NoStep, Step

LEMMA NewStep ==
    ASSUME NEW a \in Member
    PROVE  /\ [NoStep EXCEPT !.status = "pending", !.assigned = a] \in Step
           /\ [NoStep EXCEPT !.status = "pending", !.assigned = a].status = "pending"
           /\ [NoStep EXCEPT !.status = "pending", !.assigned = a].decidedBy = None
  BY DEF NoStep, Step

LEMMA DecidedStep ==
    ASSUME NEW s \in Step, s.status = "pending", NEW m \in Member,
           NEW decision \in {"approved", "rejected"}
    PROVE  /\ [s EXCEPT !.status = decision, !.decidedBy = m] \in Step
           /\ [s EXCEPT !.status = decision, !.decidedBy = m].status = decision
           /\ [s EXCEPT !.status = decision, !.decidedBy = m].decidedBy = m
  <1>1. s \in [status : {"pending", "approved", "rejected"},
               assigned : Member, decidedBy : Member \cup {None}]
    BY DEF Step, NoStep
  <1>2. [s EXCEPT !.status = decision, !.decidedBy = m]
          \in [status : {"pending", "approved", "rejected"},
               assigned : Member, decidedBy : Member \cup {None}]
    BY <1>1
  <1>. QED  BY <1>1, <1>2 DEF Step

LEMMA InitTyped == Init => Typed
  BY IdleFacts, NoStepFacts DEF Init, Typed, TypeOK, CallInv, Membership, RequestStatus

\* A call moves to k, all others stay.
LEMMA CallTyped ==
    ASSUME Typed, NEW c \in Caller, NEW k \in Call, CallOk(k), call' = [call EXCEPT ![c] = k]
    PROVE  call' \in [Caller -> Call] /\ CallInv'
  <1>1. call' \in [Caller -> Call]
    BY DEF Typed, TypeOK
  <1>2. ASSUME NEW d \in Caller PROVE CallOk(call'[d])
    BY DEF Typed, TypeOK, CallInv
  <1>. QED  BY <1>1, <1>2 DEF CallInv

LEMMA ReturnTyped ==
    ASSUME Typed, NEW c \in Caller, Return(c)
    PROVE  call' \in [Caller -> Call] /\ CallInv'
  BY IdleFacts, CallTyped DEF Return

LEMMA SubmissionTyped ==
    ASSUME Typed, NEW c \in Caller, Submission(c)
    PROVE  Typed'
  <1>. call[c] \in Call /\ CallOk(call[c])
    BY DEF Typed, TypeOK, CallInv
  <1>1. CASE StartSubmit(c)
    <2>1. PICK m \in Member, u \in Unit :
            /\ \A r \in u : Requester[r] = m
            /\ call' = [call EXCEPT ![c] = [Idle EXCEPT
                  !.at = IF u = Split THEN "read_members" ELSE "read_removed",
                  !.by = m, !.requests = u]]
            /\ UNCHANGED <<member, request, step>>
      BY <1>1 DEF StartSubmit
    <2>. DEFINE k == [Idle EXCEPT
                  !.at = IF u = Split THEN "read_members" ELSE "read_removed",
                  !.by = m, !.requests = u]
    <2>2. k \in Call
      BY IdleFacts, UnitFacts DEF Call, Idle
    <2>3. CallOk(k)
      BY <2>1 DEF CallOk, Idle
    <2>. QED  BY <2>1, <2>2, <2>3, CallTyped DEF Typed, TypeOK
  <1>2. CASE FetchRemoved(c)
    <2>. DEFINE k == [call[c] EXCEPT !.at = "read_fallback", !.removed = Inactive]
    <2>1. k \in Call /\ CallOk(k)
      BY <1>2 DEF FetchRemoved, Call, CallOk, Inactive
    <2>2. call' = [call EXCEPT ![c] = k]
      BY <1>2 DEF FetchRemoved, Typed, TypeOK
    <2>. QED  BY <1>2, <2>1, <2>2, CallTyped DEF FetchRemoved, Typed, TypeOK
  <1>3. CASE FetchOwner(c)
    <2>1. PICK o \in ActiveOwners :
            call' = [call EXCEPT ![c].at = "read_owners", ![c].fallback = o]
      BY <1>3 DEF FetchOwner
    <2>. DEFINE k == [call[c] EXCEPT !.at = "read_owners", !.fallback = o]
    <2>2. k \in Call /\ CallOk(k)
      BY <1>3 DEF FetchOwner, Call, CallOk, ActiveOwners
    <2>3. call' = [call EXCEPT ![c] = k]
      BY <2>1 DEF Typed, TypeOK
    <2>. QED  BY <1>3, <2>2, <2>3, CallTyped DEF FetchOwner, Typed, TypeOK
  <1>4. CASE FetchOwners(c)
    <2>. DEFINE k == [call[c] EXCEPT !.at = "route", !.owners = ActiveOwners]
    <2>1. k \in Call /\ CallOk(k)
      BY <1>4 DEF FetchOwners, Call, CallOk, ActiveOwners
    <2>2. call' = [call EXCEPT ![c] = k]
      BY <1>4 DEF FetchOwners, Typed, TypeOK
    <2>. QED  BY <1>4, <2>1, <2>2, CallTyped DEF FetchOwners, Typed, TypeOK
  <1>5. CASE ReadMembers(c)
    <2>1. PICK o \in ActiveOwners :
            call' = [call EXCEPT ![c].at = "route", ![c].fallback = o,
                                 ![c].removed = Inactive, ![c].owners = ActiveOwners]
      BY <1>5 DEF ReadMembers
    <2>. DEFINE k == [call[c] EXCEPT !.at = "route", !.fallback = o,
                                     !.removed = Inactive, !.owners = ActiveOwners]
    <2>2. k \in Call /\ CallOk(k)
      BY <1>5 DEF ReadMembers, Call, CallOk, ActiveOwners, Inactive
    <2>3. call' = [call EXCEPT ![c] = k]
      BY <2>1 DEF Typed, TypeOK
    <2>. QED  BY <1>5, <2>2, <2>3, CallTyped DEF ReadMembers, Typed, TypeOK
  <1>6. CASE InsertStep(c)
    <2>1. call[c].fallback \in Member /\ call[c].owners \subseteq Member
      BY <1>6 DEF InsertStep, CallOk, Call
    <2>2. Approvers(c) \subseteq Member
      BY <2>1, ApproversAreMembers DEF Approvers
    <2>3. step' \in [Request -> Step]
      <3>1. PICK a \in Member : step' = [r \in Request |-> IF r \in call[c].requests
                      THEN [NoStep EXCEPT !.status = "pending", !.assigned = a] ELSE step[r]]
        BY <1>6, <2>2 DEF InsertStep
      <3>. QED  BY <3>1, NewStep DEF Typed, TypeOK
    <2>4. request' \in [Request -> RequestStatus]
      BY <1>6 DEF InsertStep, Typed, TypeOK, RequestStatus
    <2>. QED  BY <1>6, <2>3, <2>4, ReturnTyped DEF InsertStep, Typed, TypeOK
  <1>7. CASE RefuseSubmit(c)
    BY <1>7, ReturnTyped DEF RefuseSubmit, Typed, TypeOK
  <1>. QED  BY <1>1, <1>2, <1>3, <1>4, <1>5, <1>6, <1>7 DEF Submission

LEMMA TransitionTyped ==
    ASSUME Typed, NEW c \in Caller, Transition(c)
    PROVE  Typed'
  <1>. call[c] \in Call /\ CallOk(call[c])
    BY DEF Typed, TypeOK, CallInv
  <1>1. CASE StartTransition(c)
    <2>1. PICK m \in Member, u \in Unit :
            call' = [call EXCEPT ![c] = [Idle EXCEPT
              !.at = "transition", !.by = m, !.owner = member[m].owner, !.requests = u]]
      BY <1>1 DEF StartTransition
    <2>. DEFINE k == [Idle EXCEPT
              !.at = "transition", !.by = m, !.owner = member[m].owner, !.requests = u]
    <2>2. k \in Call
      BY UnitFacts, IdleFacts DEF Typed, TypeOK, Membership, Call, Idle
    <2>3. CallOk(k)
      BY DEF CallOk, Idle
    <2>. QED  BY <1>1, <2>1, <2>2, <2>3, CallTyped DEF StartTransition, Typed, TypeOK
  <1>2. CASE Decide(c)
    <2>1. call[c].by \in Member
      BY <1>2 DEF Decide, CallOk
    <2>2. PICK decision \in {"approved", "rejected"} :
            /\ request' = [r \in Request |->
                  IF r \in call[c].requests THEN decision ELSE request[r]]
            /\ step' = [r \in Request |-> IF r \in call[c].requests
                  THEN [step[r] EXCEPT !.status = decision, !.decidedBy = call[c].by]
                  ELSE step[r]]
      BY <1>2 DEF Decide
    <2>3. request' \in [Request -> RequestStatus]
      BY <2>2 DEF Typed, TypeOK, RequestStatus
    <2>4. ASSUME NEW r \in Request PROVE step'[r] \in Step
      <3>1. CASE r \in call[c].requests
        <4>1. step[r] \in Step /\ step[r].status = "pending"
          BY <1>2, <3>1 DEF Decide, Pending, Typed, TypeOK
        <4>. QED  BY <2>1, <2>2, <3>1, <4>1, DecidedStep
      <3>2. CASE r \notin call[c].requests
        BY <2>2, <3>2 DEF Typed, TypeOK
      <3>. QED  BY <3>1, <3>2
    <2>5. step' \in [Request -> Step]
      BY <2>2, <2>4
    <2>. QED  BY <1>2, <2>3, <2>5, ReturnTyped DEF Decide, Typed, TypeOK
  <1>3. CASE Withdraw(c)
    BY <1>3, ReturnTyped DEF Withdraw, Typed, TypeOK, RequestStatus
  <1>4. CASE AnswerTransition(c)
    BY <1>4, ReturnTyped DEF AnswerTransition, Typed, TypeOK
  <1>. QED  BY <1>1, <1>2, <1>3, <1>4 DEF Transition

LEMMA MembershipChangeTyped ==
    ASSUME Typed, NEW c \in Caller, MembershipChange(c)
    PROVE  Typed'
  <1>. call[c] \in Call /\ CallOk(call[c])
    BY DEF Typed, TypeOK, CallInv
  <1>1. CASE GuardChange(c)
    <2>1. PICK by \in ActiveOwners, m \in Member : \E becomes \in Changes(m) :
            call' = [call EXCEPT ![c] = [Idle EXCEPT
              !.at = "guarded", !.by = by, !.target = m, !.becomes = becomes]]
      BY <1>1 DEF GuardChange
    <2>2. PICK becomes \in Changes(m) :
            call' = [call EXCEPT ![c] = [Idle EXCEPT
              !.at = "guarded", !.by = by, !.target = m, !.becomes = becomes]]
      BY <2>1
    <2>. DEFINE k == [Idle EXCEPT
              !.at = "guarded", !.by = by, !.target = m, !.becomes = becomes]
    <2>3. becomes \in Membership
      <3>1. member[m] \in Membership
        BY DEF Typed, TypeOK
      <3>2. member[m].active \in BOOLEAN /\ member[m].owner \in BOOLEAN
            /\ (~member[m].owner) \in BOOLEAN
        BY <3>1 DEF Membership
      <3>3. ASSUME NEW x \in BOOLEAN, NEW y \in BOOLEAN
            PROVE  [owner |-> x, active |-> y] \in Membership
        BY DEF Membership
      <3>4. [owner |-> ~member[m].owner, active |-> member[m].active] \in Membership
        BY <3>2, <3>3, Zenon
      <3>5. [owner |-> member[m].owner, active |-> FALSE] \in Membership
        BY <3>2, <3>3, Zenon
      <3>. QED  BY <3>4, <3>5, Zenon DEF Changes
    <2>4. k \in Call
      BY <2>3, IdleFacts DEF Call, Idle, ActiveOwners
    <2>5. CallOk(k)
      BY DEF CallOk, Idle
    <2>. QED  BY <1>1, <2>2, <2>4, <2>5, CallTyped DEF GuardChange, Typed, TypeOK
  <1>2. CASE CommitChange(c)
    <2>1. member' \in [Member -> Membership]
      BY <1>2 DEF CommitChange, Typed, TypeOK, Call
    <2>. DEFINE k == [call[c] EXCEPT !.at = "read_pending"]
    <2>2. k \in Call /\ CallOk(k)
      BY <1>2 DEF CommitChange, Call, CallOk
    <2>3. call' = [call EXCEPT ![c] = k] \/ Return(c)
      BY <1>2 DEF CommitChange, Typed, TypeOK
    <2>. QED  BY <1>2, <2>1, <2>2, <2>3, CallTyped, ReturnTyped DEF CommitChange, Typed, TypeOK
  <1>3. CASE ReadPending(c)
    <2>. DEFINE k == [call[c] EXCEPT !.at = "read_owner", !.requests = PendingFor(call[c].target)]
    <2>1. k \in Call /\ CallOk(k)
      BY <1>3 DEF ReadPending, Call, CallOk, PendingFor
    <2>2. call' = [call EXCEPT ![c] = k] \/ Return(c)
      BY <1>3 DEF ReadPending, Typed, TypeOK
    <2>. QED  BY <1>3, <2>1, <2>2, CallTyped, ReturnTyped DEF ReadPending, Typed, TypeOK
  <1>4. CASE ReadEscalationOwner(c)
    <2>1. PICK o \in ActiveOwners :
            call' = [call EXCEPT ![c].at = "reassign", ![c].fallback = o]
      BY <1>4 DEF ReadEscalationOwner
    <2>. DEFINE k == [call[c] EXCEPT !.at = "reassign", !.fallback = o]
    <2>2. k \in Call /\ CallOk(k)
      BY <1>4 DEF ReadEscalationOwner, Call, CallOk, ActiveOwners
    <2>3. call' = [call EXCEPT ![c] = k]
      BY <2>1 DEF Typed, TypeOK
    <2>. QED  BY <1>4, <2>2, <2>3, CallTyped DEF ReadEscalationOwner, Typed, TypeOK
  <1>5. CASE Reassign(c)
    <2>1. PICK r \in call[c].requests :
            /\ call[c].at = "reassign"
            /\ IF Pending(r)
                 THEN step' = [step EXCEPT ![r].assigned = call[c].fallback]
                 ELSE step' = step
            /\ IF call[c].requests = {r} THEN Return(c)
               ELSE call' = [call EXCEPT ![c].requests = @ \ {r}]
            /\ UNCHANGED <<member, request>>
      BY <1>5 DEF Reassign
    <2>2. r \in Request /\ call[c].fallback \in Member
      BY <2>1 DEF Call, CallOk
    <2>3. step' \in [Request -> Step]
      <3>1. CASE Pending(r)
        <4>1. step[r] \in [status : {"pending", "approved", "rejected"},
                           assigned : Member, decidedBy : Member \cup {None}]
          BY <2>2, <3>1 DEF Pending, Typed, TypeOK, Step, NoStep
        <4>2. [step[r] EXCEPT !.assigned = call[c].fallback] \in Step
          BY <2>2, <4>1 DEF Step
        <4>3. step' = [step EXCEPT ![r] = [step[r] EXCEPT !.assigned = call[c].fallback]]
          BY <2>1, <2>2, <3>1 DEF Typed, TypeOK
        <4>. QED  BY <2>2, <4>2, <4>3 DEF Typed, TypeOK
      <3>2. CASE ~Pending(r)
        BY <2>1, <3>2 DEF Typed, TypeOK
      <3>. QED  BY <3>1, <3>2
    <2>. DEFINE k == [call[c] EXCEPT !.requests = @ \ {r}]
    <2>4. k \in Call /\ CallOk(k)
      BY <2>1 DEF Call, CallOk
    <2>5. call' = [call EXCEPT ![c] = k] \/ Return(c)
      BY <2>1 DEF Typed, TypeOK
    <2>. QED  BY <2>1, <2>3, <2>4, <2>5, CallTyped, ReturnTyped DEF Typed, TypeOK
  <1>6. CASE StopEscalation(c)
    BY <1>6, ReturnTyped DEF StopEscalation, Typed, TypeOK
  <1>. QED  BY <1>1, <1>2, <1>3, <1>4, <1>5, <1>6 DEF MembershipChange

LEMMA StepTyped == Typed /\ [Next]_vars => Typed'
  <1>. SUFFICES ASSUME Typed, [Next]_vars PROVE Typed'
    OBVIOUS
  <1>1. ASSUME NEW c \in Caller, Abandon(c) PROVE Typed'
    BY <1>1, ReturnTyped DEF Abandon, Typed, TypeOK
  <1>2. ASSUME NEW r \in Request, MarkRequestOrdered(r) \/ ReleaseRequestWithoutOrders(r)
        PROVE Typed'
    BY <1>2 DEF MarkRequestOrdered, ReleaseRequestWithoutOrders, Typed, TypeOK,
                RequestStatus, CallInv, CallOk
  <1>3. CASE UNCHANGED vars
    BY <1>3 DEF vars, Typed, TypeOK, CallInv
  <1>. QED
    BY <1>1, <1>2, <1>3, SubmissionTyped, TransitionTyped, MembershipChangeTyped DEF Next

LEMMA AlwaysTyped == Spec => []Typed
  BY InitTyped, StepTyped, PTL DEF Spec

\* Whatever happens to rules, delegations and members meanwhile, every row and every call has
\* the shape its table or handler gives it: above all, a step is assigned to a member.
THEOREM TypeCorrect == Spec => []TypeOK
  <1>1. Typed => TypeOK
    BY DEF Typed
  <1>. QED  BY AlwaysTyped, <1>1, PTL

-----------------------------------------------------------------------------
(* Requests, steps and splits.                                             *)

AgreeInv == SubmitInv /\ StepFollowsRequest /\ SplitDecidedTogether

IInv == Typed /\ AgreeInv

LEMMA InitAgree == Init => AgreeInv
  BY RequesterAssumption DEF Init, AgreeInv, SubmitInv, StepFollowsRequest, StepsFor,
     SplitDecidedTogether, Idle, NoStep

\* A call that neither starts nor finishes a submission leaves the locks alone.
LEMMA LocksKept ==
    ASSUME IInv, NEW c \in Caller, UNCHANGED <<request, step>>,
           call' \in [Caller -> Call],
           \A d \in Caller \ {c} : call'[d] = call[d],
           \/ call'[c].at \notin Submitting
           \/ call[c].at \in Submitting /\ call'[c].requests = call[c].requests
    PROVE  AgreeInv'
  <1>0. \A d \in Caller : call'[d].at \in Submitting =>
           call[d].at \in Submitting /\ call'[d].requests = call[d].requests
    OBVIOUS
  <1>1. SubmitInv'
    <2>1. ASSUME NEW d \in Caller, call'[d].at \in Submitting
          PROVE  /\ \A r \in call'[d].requests : request'[r] = "draft"
                 /\ \A e \in Caller \ {d} : call'[e].at \in Submitting =>
                      call'[d].requests \cap call'[e].requests = {}
      <3>1. \A r \in call[d].requests : request[r] = "draft"
        BY <1>0, <2>1 DEF IInv, AgreeInv, SubmitInv
      <3>2. ASSUME NEW e \in Caller \ {d}, call'[e].at \in Submitting
            PROVE  call'[d].requests \cap call'[e].requests = {}
        BY <1>0, <2>1, <3>2 DEF IInv, AgreeInv, SubmitInv
      <3>. QED  BY <1>0, <2>1, <3>1, <3>2
    <2>. QED  BY <2>1 DEF SubmitInv
  <1>2. StepFollowsRequest' /\ SplitDecidedTogether'
    BY DEF IInv, AgreeInv, StepFollowsRequest, SplitDecidedTogether
  <1>. QED  BY <1>1, <1>2 DEF AgreeInv

LEMMA ReturnKeeps ==
    ASSUME IInv, NEW c \in Caller, UNCHANGED <<request, step>>, Return(c)
    PROVE  AgreeInv'
  <1>1. call' \in [Caller -> Call]
    BY ReturnTyped DEF IInv
  <1>2. /\ \A d \in Caller \ {c} : call'[d] = call[d]
        /\ call'[c].at = "idle"
    BY IdleFacts DEF Return, IInv, Typed, TypeOK
  <1>. QED  BY <1>1, <1>2, LocksKept

LEMMA SubmissionAgree ==
    ASSUME IInv, Typed', NEW c \in Caller, Submission(c)
    PROVE  AgreeInv'
  <1>. call[c] \in Call /\ CallOk(call[c]) /\ call' \in [Caller -> Call]
    BY DEF IInv, Typed, TypeOK, CallInv
  <1>1. CASE StartSubmit(c)
    <2>1. PICK m \in Member, u \in Unit :
            /\ \A r \in u : request[r] = "draft" /\ ~Locked(r)
            /\ call' = [call EXCEPT ![c] = [Idle EXCEPT
                  !.at = IF u = Split THEN "read_members" ELSE "read_removed",
                  !.by = m, !.requests = u]]
            /\ UNCHANGED <<member, request, step>>
      BY <1>1 DEF StartSubmit
    <2>2. call'[c].requests = u /\ \A d \in Caller \ {c} : call'[d] = call[d]
      BY <2>1 DEF IInv, Typed, TypeOK, Idle
    <2>3. ASSUME NEW d \in Caller \ {c}, call[d].at \in Submitting
          PROVE  call[d].requests \cap u = {}
      BY <2>1, <2>3 DEF Locked
    <2>4. SubmitInv'
      BY <2>1, <2>2, <2>3 DEF IInv, AgreeInv, SubmitInv
    <2>5. StepFollowsRequest' /\ SplitDecidedTogether'
      BY <2>1 DEF IInv, AgreeInv, StepFollowsRequest, SplitDecidedTogether
    <2>. QED  BY <2>4, <2>5 DEF AgreeInv
  <1>2. CASE FetchRemoved(c) \/ FetchOwner(c) \/ FetchOwners(c) \/ ReadMembers(c)
    <2>1. /\ \A d \in Caller \ {c} : call'[d] = call[d]
          /\ call[c].at \in Submitting /\ call'[c].requests = call[c].requests
          /\ UNCHANGED <<request, step>>
      <3>1. CASE FetchRemoved(c)
        BY <3>1 DEF FetchRemoved, IInv, Typed, TypeOK, Call
      <3>2. CASE FetchOwner(c)
        BY <3>2 DEF FetchOwner, IInv, Typed, TypeOK, Call
      <3>3. CASE FetchOwners(c)
        BY <3>3 DEF FetchOwners, IInv, Typed, TypeOK, Call
      <3>4. CASE ReadMembers(c)
        BY <3>4 DEF ReadMembers, IInv, Typed, TypeOK, Call
      <3>. QED  BY <1>2, <3>1, <3>2, <3>3, <3>4
    <2>. QED  BY <2>1, LocksKept
  <1>3. CASE InsertStep(c)
    <2>. DEFINE u == call[c].requests
    <2>1. u \in Unit /\ \A r \in u : request[r] = "draft"
      BY <1>3 DEF InsertStep, CallOk, IInv, AgreeInv, SubmitInv
    <2>2. PICK a \in Member :
            step' = [r \in Request |-> IF r \in u
                       THEN [NoStep EXCEPT !.status = "pending", !.assigned = a] ELSE step[r]]
      BY <1>3, ApproversAreMembers DEF InsertStep, Approvers, CallOk, Call
    <2>3. /\ request' = [r \in Request |-> IF r \in u THEN "submitted" ELSE request[r]]
          /\ call'[c].at = "idle" /\ \A d \in Caller \ {c} : call'[d] = call[d]
      BY <1>3, IdleFacts DEF InsertStep, Return, IInv, Typed, TypeOK
    <2>4. ASSUME NEW d \in Caller, call'[d].at \in Submitting
          PROVE  /\ \A r \in call'[d].requests : request'[r] = "draft"
                 /\ \A e \in Caller \ {d} : call'[e].at \in Submitting =>
                      call'[d].requests \cap call'[e].requests = {}
      <3>1. d # c /\ call'[d] = call[d] /\ call[d].requests \cap u = {}
        BY <1>3, <2>3, <2>4 DEF InsertStep, IInv, AgreeInv, SubmitInv
      <3>2. call[d].requests \subseteq Request
        BY DEF IInv, Typed, TypeOK, Call
      <3>. QED  BY <2>3, <2>4, <3>1, <3>2 DEF IInv, AgreeInv, SubmitInv
    <2>5. SubmitInv'
      BY <2>4 DEF SubmitInv
    <2>6. StepFollowsRequest'
      <3>1. ASSUME NEW r \in u
            PROVE  step'[r].status = "pending" /\ request'[r] = "submitted"
        BY <2>1, <2>2, <2>3, NewStep, UnitFacts
      <3>2. ASSUME NEW r \in Request \ u
            PROVE  step'[r] = step[r] /\ request'[r] = request[r]
        BY <2>2, <2>3
      <3>. QED  BY <3>1, <3>2 DEF IInv, AgreeInv, StepFollowsRequest, StepsFor
    <2>7. SplitDecidedTogether'
      <3>1. u \cap Split = {} \/ u = Split
        BY <2>1, UnitFacts
      <3>2. \A r \in u : step'[r].status = "pending" /\ step'[r].decidedBy = None
                         /\ request'[r] = "submitted"
        BY <2>1, <2>2, <2>3, NewStep, UnitFacts
      <3>3. \A r \in Request \ u : step'[r] = step[r] /\ request'[r] = request[r]
        BY <2>2, <2>3
      <3>. QED  BY <3>1, <3>2, <3>3, RequesterAssumption DEF IInv, AgreeInv, SplitDecidedTogether
    <2>. QED  BY <2>5, <2>6, <2>7 DEF AgreeInv
  <1>4. CASE RefuseSubmit(c)
    BY <1>4, ReturnKeeps DEF RefuseSubmit
  <1>. QED  BY <1>1, <1>2, <1>3, <1>4 DEF Submission

LEMMA TransitionAgree ==
    ASSUME IInv, Typed', NEW c \in Caller, Transition(c)
    PROVE  AgreeInv'
  <1>. call[c] \in Call /\ CallOk(call[c]) /\ call' \in [Caller -> Call]
    BY DEF IInv, Typed, TypeOK, CallInv
  <1>1. CASE StartTransition(c)
    <2>1. /\ \A d \in Caller \ {c} : call'[d] = call[d]
          /\ call'[c].at = "transition"
          /\ UNCHANGED <<request, step>>
      BY <1>1 DEF StartTransition, IInv, Typed, TypeOK, Idle
    <2>. QED  BY <2>1, LocksKept
  <1>. DEFINE u == call[c].requests
  <1>2. ASSUME call[c].at = "transition", \A r \in u : ~Locked(r), Return(c),
               \A r \in Request \ u : request'[r] = request[r]
        PROVE  SubmitInv'
    <2>1. call'[c].at = "idle" /\ \A d \in Caller \ {c} : call'[d] = call[d]
      BY <1>2, IdleFacts DEF Return, IInv, Typed, TypeOK
    <2>2. ASSUME NEW d \in Caller, call'[d].at \in Submitting
          PROVE  /\ \A r \in call'[d].requests : request'[r] = "draft"
                 /\ \A e \in Caller \ {d} : call'[e].at \in Submitting =>
                      call'[d].requests \cap call'[e].requests = {}
      <3>1. d # c /\ call'[d] = call[d] /\ call[d].requests \cap u = {}
        BY <1>2, <2>1, <2>2 DEF Locked
      <3>2. call[d].requests \subseteq Request
        BY DEF IInv, Typed, TypeOK, Call
      <3>3. \A r \in call[d].requests : request[r] = "draft"
        BY <2>2, <3>1 DEF IInv, AgreeInv, SubmitInv
      <3>4. ASSUME NEW e \in Caller \ {d}, call'[e].at \in Submitting
            PROVE  call[d].requests \cap call[e].requests = {} /\ call'[e] = call[e]
        BY <2>1, <2>2, <3>1, <3>4 DEF IInv, AgreeInv, SubmitInv
      <3>. QED  BY <1>2, <3>1, <3>2, <3>3, <3>4
    <2>. QED  BY <2>2 DEF SubmitInv
  <1>3. CASE Decide(c)
    <2>1. u \in Unit /\ u \subseteq Request /\ (u \cap Split = {} \/ u = Split) /\ call[c].by \in Member
      BY <1>3, UnitFacts DEF Decide, CallOk
    <2>2. PICK decision \in {"approved", "rejected"} :
            /\ request' = [r \in Request |-> IF r \in u THEN decision ELSE request[r]]
            /\ step' = [r \in Request |-> IF r \in u
                  THEN [step[r] EXCEPT !.status = decision, !.decidedBy = call[c].by]
                  ELSE step[r]]
      BY <1>3 DEF Decide
    <2>3. ASSUME NEW r \in u
          PROVE  /\ request'[r] = decision
                 /\ step'[r].status = decision /\ step'[r].decidedBy = call[c].by
      <3>1. step[r] \in Step /\ step[r].status = "pending"
        BY <1>3, <2>1 DEF Decide, Pending, IInv, Typed, TypeOK
      <3>2. step'[r] = [step[r] EXCEPT !.status = decision, !.decidedBy = call[c].by]
        BY <2>1, <2>2
      <3>3. request'[r] = decision
        BY <2>1, <2>2
      <3>4. /\ [step[r] EXCEPT !.status = decision, !.decidedBy = call[c].by].status = decision
            /\ [step[r] EXCEPT !.status = decision, !.decidedBy = call[c].by].decidedBy = call[c].by
        BY <3>1 DEF Step, NoStep
      <3>. QED  BY <3>2, <3>3, <3>4
    <2>4. ASSUME NEW r \in Request \ u
          PROVE  step'[r] = step[r] /\ request'[r] = request[r]
      BY <2>2
    <2>5. SubmitInv'
      BY <1>2, <1>3, <2>4 DEF Decide
    <2>6. StepFollowsRequest'
      BY <2>3, <2>4 DEF IInv, AgreeInv, StepFollowsRequest, StepsFor
    <2>7. SplitDecidedTogether'
      BY <2>1, <2>3, <2>4, RequesterAssumption DEF IInv, AgreeInv, SplitDecidedTogether
    <2>. QED  BY <2>5, <2>6, <2>7 DEF AgreeInv
  <1>4. CASE Withdraw(c)
    <2>1. u \in Unit /\ u \subseteq Request /\ (u \cap Split = {} \/ u = Split)
      BY <1>4, UnitFacts DEF Withdraw, CallOk
    <2>2. /\ \A r \in u : request[r] \in Withdrawable /\ request'[r] = "withdrawn"
          /\ \A r \in Request \ u : request'[r] = request[r]
          /\ step' = step
      BY <1>4, <2>1 DEF Withdraw
    <2>3. SubmitInv'
      BY <1>2, <1>4, <2>2 DEF Withdraw
    <2>4. StepFollowsRequest'
      BY <2>2 DEF Withdrawable, IInv, AgreeInv, StepFollowsRequest, StepsFor
    <2>5. SplitDecidedTogether'
      BY <2>1, <2>2, RequesterAssumption DEF IInv, AgreeInv, SplitDecidedTogether
    <2>. QED  BY <2>3, <2>4, <2>5 DEF AgreeInv
  <1>5. CASE AnswerTransition(c)
    BY <1>5, ReturnKeeps DEF AnswerTransition
  <1>. QED  BY <1>1, <1>3, <1>4, <1>5 DEF Transition

LEMMA MembershipChangeAgree ==
    ASSUME IInv, Typed', NEW c \in Caller, MembershipChange(c)
    PROVE  AgreeInv'
  <1>. call[c] \in Call /\ CallOk(call[c]) /\ call' \in [Caller -> Call]
    BY DEF IInv, Typed, TypeOK, CallInv
  <1>1. CASE GuardChange(c)
    <2>1. /\ \A d \in Caller \ {c} : call'[d] = call[d]
          /\ call'[c].at = "guarded" /\ UNCHANGED <<request, step>>
      BY <1>1 DEF GuardChange, IInv, Typed, TypeOK, Idle
    <2>. QED  BY <2>1, LocksKept
  <1>2. CASE CommitChange(c)
    <2>1. /\ \A d \in Caller \ {c} : call'[d] = call[d]
          /\ call'[c].at \notin Submitting /\ UNCHANGED <<request, step>>
      BY <1>2, IdleFacts DEF CommitChange, Return, IInv, Typed, TypeOK, Call
    <2>. QED  BY <2>1, LocksKept
  <1>3. CASE ReadPending(c) \/ ReadEscalationOwner(c)
    <2>1. CASE ReadPending(c)
      <3>1. /\ \A d \in Caller \ {c} : call'[d] = call[d]
            /\ call'[c].at \notin Submitting /\ UNCHANGED <<request, step>>
        BY <2>1, IdleFacts DEF ReadPending, Return, IInv, Typed, TypeOK, Call
      <3>. QED  BY <3>1, LocksKept
    <2>2. CASE ReadEscalationOwner(c)
      <3>1. /\ \A d \in Caller \ {c} : call'[d] = call[d]
            /\ call'[c].at = "reassign" /\ UNCHANGED <<request, step>>
        BY <2>2 DEF ReadEscalationOwner, IInv, Typed, TypeOK, Call
      <3>. QED  BY <3>1, LocksKept
    <2>. QED  BY <1>3, <2>1, <2>2
  <1>4. CASE Reassign(c)
    <2>1. PICK r \in call[c].requests :
            /\ call[c].at = "reassign"
            /\ step' = step \/ step' = [step EXCEPT ![r].assigned = call[c].fallback]
            /\ \/ Return(c)
               \/ call' = [call EXCEPT ![c].requests = @ \ {r}]
            /\ UNCHANGED <<member, request>>
      BY <1>4 DEF Reassign
    <2>2. /\ \A d \in Caller \ {c} : call'[d] = call[d]
          /\ call'[c].at \notin Submitting
      BY <2>1, IdleFacts DEF Return, IInv, Typed, TypeOK, Call
    <2>3. ASSUME NEW q \in Request
          PROVE  step'[q].status = step[q].status /\ step'[q].decidedBy = step[q].decidedBy
      <3>1. step[q] \in Step /\ r \in Request
        BY <2>1 DEF IInv, Typed, TypeOK, Call
      <3>. QED  BY <2>1, <3>1 DEF Step, NoStep, IInv, Typed, TypeOK
    <2>4. SubmitInv'
      <3>1. \A d \in Caller : call'[d].at \in Submitting =>
               call[d].at \in Submitting /\ call'[d].requests = call[d].requests
        BY <2>2
      <3>. QED  BY <2>1, <3>1, Zenon DEF IInv, AgreeInv, SubmitInv
    <2>5. StepFollowsRequest'
      BY <2>1, <2>3 DEF IInv, AgreeInv, StepFollowsRequest
    <2>6. SplitDecidedTogether'
      BY <2>1, <2>3, RequesterAssumption DEF IInv, AgreeInv, SplitDecidedTogether
    <2>. QED  BY <2>4, <2>5, <2>6 DEF AgreeInv
  <1>5. CASE StopEscalation(c)
    BY <1>5, ReturnKeeps DEF StopEscalation
  <1>. QED  BY <1>1, <1>2, <1>3, <1>4, <1>5 DEF MembershipChange

LEMMA OrderAgree ==
    ASSUME IInv, NEW r \in Request, MarkRequestOrdered(r) \/ ReleaseRequestWithoutOrders(r)
    PROVE  AgreeInv'
  <1>1. /\ request[r] \in {"approved", "ordered"} /\ request'[r] \in {"approved", "ordered"}
        /\ \A q \in Request \ {r} : request'[q] = request[q]
        /\ UNCHANGED <<member, step, call>>
    BY DEF MarkRequestOrdered, ReleaseRequestWithoutOrders, IInv, Typed, TypeOK
  <1>2. SubmitInv'
    <2>1. \A c \in Caller : call[c].at \in Submitting =>
             call[c].requests \subseteq Request /\ r \notin call[c].requests
      BY <1>1 DEF IInv, AgreeInv, SubmitInv, Typed, TypeOK, Call
    <2>. QED  BY <1>1, <2>1 DEF IInv, AgreeInv, SubmitInv
  <1>3. StepFollowsRequest'
    <2>1. step[r].status = "approved"
      BY <1>1 DEF IInv, AgreeInv, StepFollowsRequest, StepsFor
    <2>2. step'[r].status \in StepsFor(request'[r])
      BY <1>1, <2>1 DEF StepsFor
    <2>. QED  BY <1>1, <2>2 DEF IInv, AgreeInv, StepFollowsRequest
  <1>4. SplitDecidedTogether'
    <2>1. ASSUME NEW p \in Split, NEW q \in Split
          PROVE  \/ request'[p] = request'[q]
                 \/ {request'[p], request'[q]} = {"approved", "ordered"}
      <3>1. request[p] = request[q] \/ {request[p], request[q]} = {"approved", "ordered"}
        BY DEF IInv, AgreeInv, SplitDecidedTogether
      <3>2. p \in Request /\ q \in Request
        BY RequesterAssumption
      <3>3. CASE p = r
        BY <1>1, <3>1, <3>2, <3>3
      <3>4. CASE p # r /\ q = r
        BY <1>1, <3>1, <3>2, <3>4
      <3>5. CASE p # r /\ q # r
        BY <1>1, <3>1, <3>2, <3>5
      <3>. QED  BY <3>3, <3>4, <3>5
    <2>. QED  BY <1>1, <2>1 DEF IInv, AgreeInv, SplitDecidedTogether
  <1>. QED  BY <1>2, <1>3, <1>4 DEF AgreeInv

LEMMA StepIInv == IInv /\ [Next]_vars => IInv'
  <1>. SUFFICES ASSUME IInv, [Next]_vars PROVE IInv'
    OBVIOUS
  <1>1. Typed'
    BY StepTyped DEF IInv
  <1>2. ASSUME NEW c \in Caller, Abandon(c) PROVE AgreeInv'
    BY <1>2, ReturnKeeps DEF Abandon
  <1>3. ASSUME UNCHANGED vars PROVE AgreeInv'
    <2>1. request' = request /\ step' = step /\ call' = call
      BY <1>3 DEF vars
    <2>2. SubmitInv'
      BY <2>1 DEF IInv, AgreeInv, SubmitInv
    <2>3. StepFollowsRequest' /\ SplitDecidedTogether'
      BY <2>1 DEF IInv, AgreeInv, StepFollowsRequest, SplitDecidedTogether
    <2>. QED  BY <2>2, <2>3 DEF AgreeInv
  <1>4. AgreeInv'
    <2>1. ASSUME NEW c \in Caller, Submission(c) \/ Transition(c) \/ MembershipChange(c)
          PROVE  AgreeInv'
      BY <1>1, <2>1, SubmissionAgree, TransitionAgree, MembershipChangeAgree
    <2>2. ASSUME NEW r \in Request, MarkRequestOrdered(r) \/ ReleaseRequestWithoutOrders(r)
          PROVE  AgreeInv'
      BY <2>2, OrderAgree
    <2>. QED  BY <1>2, <1>3, <2>1, <2>2 DEF Next
  <1>. QED  BY <1>1, <1>4 DEF IInv

LEMMA AlwaysIInv == Spec => []IInv
  <1>1. Init => IInv
    BY InitTyped, InitAgree DEF IInv
  <1>. QED  BY <1>1, StepIInv, PTL DEF Spec

\* A request and its step agree in every state, for any number of calls, members and requests.
THEOREM StepsFollowRequests == Spec => []StepFollowsRequest
  <1>1. IInv => StepFollowsRequest
    BY DEF IInv, AgreeInv
  <1>. QED  BY AlwaysIInv, <1>1, PTL

\* The requests of a split are submitted, decided and withdrawn as one, however many they are.
THEOREM SplitsDecidedTogether == Spec => []SplitDecidedTogether
  <1>1. IInv => SplitDecidedTogether
    BY DEF IInv, AgreeInv
  <1>. QED  BY AlwaysIInv, <1>1, PTL

-----------------------------------------------------------------------------
(* Decisions.                                                              *)

\* A step of a draft is none.
LEMMA DraftHasNoStep ==
    ASSUME IInv, NEW r \in Request, request[r] = "draft"
    PROVE  step[r] = NoStep
  <1>1. step[r].status = "none"
    BY DEF IInv, AgreeInv, StepFollowsRequest, StepsFor
  <1>. QED  BY <1>1 DEF IInv, Typed, TypeOK, Step

\* Only three steps touch a step of a request: the insertion into a draft, and the decision
\* and the reassignment of a pending one.
LEMMA StepChanges ==
    ASSUME IInv, Next, NEW r \in Request
    PROVE  \/ step'[r] = step[r]
           \/ step[r] = NoStep /\ step'[r].decidedBy = None
           \/ Pending(r) /\ step'[r].decidedBy = step[r].decidedBy
           \/ /\ Pending(r)
              /\ \E c \in Caller :
                    /\ step'[r].decidedBy = call[c].by
                    /\ r \in call[c].requests
                    /\ MayDecide(call[c].by, call[c].owner, call[c].requests)
  <1>. DEFINE Goal == \/ step'[r] = step[r]
                      \/ step[r] = NoStep /\ step'[r].decidedBy = None
                      \/ Pending(r) /\ step'[r].decidedBy = step[r].decidedBy
                      \/ /\ Pending(r)
                         /\ \E c \in Caller :
                               /\ step'[r].decidedBy = call[c].by
                               /\ r \in call[c].requests
                               /\ MayDecide(call[c].by, call[c].owner, call[c].requests)
  <1>1. ASSUME NEW c \in Caller, InsertStep(c) PROVE Goal
    <2>1. PICK a \in Approvers(c) :
            step' = [q \in Request |-> IF q \in call[c].requests
                       THEN [NoStep EXCEPT !.status = "pending", !.assigned = a] ELSE step[q]]
      BY <1>1 DEF InsertStep
    <2>2. CASE r \in call[c].requests
      <3>1. request[r] = "draft"
        BY <1>1, <2>2 DEF InsertStep, IInv, AgreeInv, SubmitInv
      <3>2. step'[r] = [NoStep EXCEPT !.status = "pending", !.assigned = a]
        BY <2>1, <2>2
      <3>3. step'[r].decidedBy = None
        BY <3>2 DEF NoStep
      <3>. QED  BY <3>1, <3>3, DraftHasNoStep
    <2>3. CASE r \notin call[c].requests
      BY <2>1, <2>3
    <2>. QED  BY <2>2, <2>3
  <1>2. ASSUME NEW c \in Caller, Decide(c) PROVE Goal
    <2>1. PICK decision \in {"approved", "rejected"} :
            step' = [q \in Request |-> IF q \in call[c].requests
                  THEN [step[q] EXCEPT !.status = decision, !.decidedBy = call[c].by]
                  ELSE step[q]]
      BY <1>2 DEF Decide
    <2>2. CASE r \in call[c].requests
      <3>1. Pending(r) /\ MayDecide(call[c].by, call[c].owner, call[c].requests)
        BY <1>2, <2>2 DEF Decide
      <3>2. step'[r] = [step[r] EXCEPT !.status = decision, !.decidedBy = call[c].by]
        BY <2>1, <2>2
      <3>3. step'[r].decidedBy = call[c].by
        BY <3>2 DEF IInv, Typed, TypeOK, Step, NoStep
      <3>. QED  BY <2>2, <3>1, <3>3
    <2>3. CASE r \notin call[c].requests
      BY <2>1, <2>3
    <2>. QED  BY <2>2, <2>3
  <1>3. ASSUME NEW c \in Caller, Reassign(c) PROVE Goal
    <2>1. PICK q \in call[c].requests :
            IF Pending(q) THEN step' = [step EXCEPT ![q].assigned = call[c].fallback]
            ELSE step' = step
      BY <1>3 DEF Reassign
    <2>2. CASE q = r /\ Pending(q)
      <3>1. step[r] \in Step /\ step'[r] = [step[r] EXCEPT !.assigned = call[c].fallback]
        BY <2>1, <2>2 DEF IInv, Typed, TypeOK
      <3>2. step'[r].decidedBy = step[r].decidedBy
        BY <3>1 DEF Step, NoStep
      <3>. QED  BY <2>2, <3>2
    <2>3. CASE q # r \/ ~Pending(q)
      BY <2>1, <2>3 DEF IInv, Typed, TypeOK
    <2>. QED  BY <2>2, <2>3
  <1>4. step' = step \/ \E c \in Caller : InsertStep(c) \/ Decide(c) \/ Reassign(c)
    <2>1. ASSUME NEW c \in Caller, Submission(c)
          PROVE  step' = step \/ InsertStep(c)
      BY <2>1 DEF Submission, StartSubmit, FetchRemoved, FetchOwner, FetchOwners, ReadMembers,
         RefuseSubmit
    <2>2. ASSUME NEW c \in Caller, Transition(c)
          PROVE  step' = step \/ Decide(c)
      BY <2>2 DEF Transition, StartTransition, Withdraw, AnswerTransition
    <2>3. ASSUME NEW c \in Caller, MembershipChange(c)
          PROVE  step' = step \/ Reassign(c)
      BY <2>3 DEF MembershipChange, GuardChange, CommitChange, ReadPending,
         ReadEscalationOwner, StopEscalation
    <2>. QED  BY <2>1, <2>2, <2>3 DEF Next, Abandon, MarkRequestOrdered, ReleaseRequestWithoutOrders
  <1>. QED  BY <1>1, <1>2, <1>3, <1>4, Zenon

\* A decision is final for any number of calls: what was read of the step before is not used.
THEOREM DecidedStepsFrozen == Spec => DecidedStepFrozen
  <1>1. ASSUME IInv, Next, NEW r \in Request, step[r].status \in {"approved", "rejected"}
        PROVE  step'[r] = step[r]
    <2>1. step[r] # NoStep /\ ~Pending(r)
      BY <1>1 DEF NoStep, Pending
    <2>. QED  BY <1>1, <2>1, StepChanges
  <1>2. ASSUME IInv, [Next]_vars
        PROVE  [\A r \in Request : step[r].status \in {"approved", "rejected"} =>
                                      step'[r] = step[r]]_vars
    BY <1>1, <1>2
  <1>. QED  BY AlwaysIInv, <1>2, PTL DEF Spec, DecidedStepFrozen

\* Whoever decides is entitled to it in the state the decision is made in, whatever the call
\* read before: the trigger's rules make up for what the service checked too early.
THEOREM DecisionsAuthorised == Spec => DecisionIsAuthorised
  <1>1. ASSUME IInv, Next, NEW r \in Request, step'[r].decidedBy # step[r].decidedBy
        PROVE  LET m == step'[r].decidedBy IN
               /\ member[m].active
               /\ member[m].owner \/ step[r].assigned = m
               /\ m = Requester[r] =>
                     \A o \in Member \ {m} : ~(member[o].owner /\ member[o].active)
    <2>1. ~(step[r] = NoStep /\ step'[r].decidedBy = None)
      BY <1>1 DEF NoStep
    <2>2. PICK c \in Caller : /\ step'[r].decidedBy = call[c].by
                              /\ r \in call[c].requests
                              /\ MayDecide(call[c].by, call[c].owner, call[c].requests)
      BY <1>1, <2>1, StepChanges
    <2>. QED  BY <2>2 DEF MayDecide, SoleOwner, ActiveOwners
  <1>2. ASSUME IInv, [Next]_vars
        PROVE  [\A r \in Request : step'[r].decidedBy # step[r].decidedBy =>
                  LET m == step'[r].decidedBy IN
                  /\ member[m].active
                  /\ member[m].owner \/ step[r].assigned = m
                  /\ m = Requester[r] =>
                        \A o \in Member \ {m} : ~(member[o].owner /\ member[o].active)]_vars
    BY <1>1, <1>2
  <1>. QED  BY AlwaysIInv, <1>2, PTL DEF Spec, DecisionIsAuthorised
=============================================================================
