---------------------------- MODULE MCApprovals ----------------------------
(***************************************************************************)
(* Instances of Approvals for TLC.                                         *)
(***************************************************************************)
EXTENDS ApprovalsProperties, TLC

CONSTANTS ann, bob, cay

Symmetric == Permutations(Caller)

\* ann requests everything.
AnnRequests == [r \in Request |-> ann]

\* The branch has a rule that names bob, the workspace one that names cay.
BranchAndWorkspace == {[approver |-> bob, branch |-> TRUE, width |-> 2],
                       [approver |-> cay, branch |-> FALSE, width |-> 1]}

BobApproves == {[approver |-> bob, branch |-> FALSE, width |-> 1]}

CayApproves == {[approver |-> cay, branch |-> FALSE, width |-> 1]}

BobToAnn == {[delegator |-> bob, delegate |-> ann, rank |-> 1]}

BobToCay == BobToAnn \cup {[delegator |-> bob, delegate |-> cay, rank |-> 2]}

\* A behaviour is about the split or about the other request.
Touched == {r \in Request : request[r] # "draft"} \cup UNION {call[c].requests : c \in Caller}

OneUnit == Touched \subseteq Split \/ Touched \cap Split = {}
=============================================================================
