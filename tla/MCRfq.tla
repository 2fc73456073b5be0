------------------------------- MODULE MCRfq -------------------------------
(***************************************************************************)
(* Instances of Rfq for TLC.                                               *)
(***************************************************************************)
EXTENDS RfqProperties, TLC

\* The cases have one RFQ.
OfTheRfq == [k \in Keys |-> CHOOSE r \in Rfqs : TRUE]

Present == {p \in Replies : reply[p].stage # "absent"}

Begun == {c \in Callers : prep[c].pc # "idle"}

\* Mail other than the first, undisturbed send is under way or has left.
Mailed ==
    \/ \E c \in Senders : mailing[c] # Quiet
    \/ \E r \in Rfqs, s \in Suppliers :
          \/ recipient[r][s].waited \/ recipient[r][s].reminders > 0
          \/ recipient[r][s].status = "failed" /\ s \notin NoAddress
          \/ \E k \in Kinds : lost[k][r][s] > 0

\* Bounds: a supplier replies once; once mail is lost, late or repeated, one supplier at most has
\* its RFQ and one person prepares a request from one reply; and no reply is refused, as one
\* that is archived is as useless and may come back too.
OneCase ==
    /\ \A p \in Replies : reply[p].stage # "refused"
    /\ \A p, o \in Present : p # o => reply[p].supplier # reply[o].supplier
    /\ Mailed =>
         /\ \A r \in Rfqs : Cardinality({s \in Suppliers : recipient[r][s].status = "sent"}) <= 1
         /\ Cardinality(Present) <= 1 /\ Cardinality(Begun) <= 1 /\ Begun \subseteq People
         /\ \A j \in Splits : split[j].status = "none"

PrepareSymmetry == Permutations(People) \cup Permutations(Evaluators) \cup Permutations(Replies)
                   \cup Permutations(Suppliers)
=============================================================================
