------------------------ MODULE MatchingProperties ------------------------
(***************************************************************************)
(* What must hold of matches, and what the documentation says of them.     *)
(***************************************************************************)
EXTENDS Matching

\* The rows and the calls are what the schema and the handlers say they are.
TypeOK ==
    /\ decision \in [Lines -> Seq(Decision)]
    /\ candidate \in [Lines -> SUBSET Candidate]
    /\ task \in [Lines -> {"none", "open", "resolved"}]
    /\ alias \in [Texts -> Products \cup {None}]
    /\ replay \in [Keys -> DecisionIds \cup {None}]
    /\ audit \subseteq Event
    /\ priced \subseteq DecisionIds
    /\ queue \subseteq Quotations
    /\ unseen \subseteq DecisionIds /\ cut \subseteq DecisionIds /\ dropped \subseteq DecisionIds
    /\ failures \in 0..MaxFailures
    /\ call \in [Callers -> Call]
    /\ run \in [Runs -> Run]

Answered(c) == call[c].pc = "answered"

\* The decisions whose makers still have to queue an evaluation.
OnTheWay ==
    UNION ({Untold(c) : c \in Callers} \cup {run[w].pending : w \in Runs})

\* An evaluation has read the decision, or a job for it is queued, or its job was given up: the
\* best-effort insert of the job failed, or every attempt at it did.
HandedOver(d) == d \notin unseen \/ QuotationOf[d[1]] \in queue \/ d \in dropped

\* It was handed over, or its maker still has to do so, or its maker was cut off before it could.
Evaluated(d) == HandedOver(d) \/ d \in OnTheWay \cup cut

\* The decision was swept from a line of its teacher's own quotation.
SweptAtHome(d) ==
    LET t == Row(d).teacher IN t # None /\ QuotationOf[t[1]] = QuotationOf[d[1]]

\* The decisions a buyer is told of by a correction, or by the resolution that decided: the
\* buyer's own, and those swept in other quotations.
ToldOf(c) ==
    IF Kind(c) = "correct" \/ call[c].made
    THEN {call[c].id} \cup {<<l, 1>> : l \in {m \in call[c].swept :
                                                QuotationOf[m] # QuotationOf[OnLine(c)]}}
    ELSE {}

\* No maker forgets a decision: it queues the quotation for the guardrails, after a sweep that
\* failed too, unless the maker is cut off between its insert and the queue, or swept its own
\* quotation (see GuardrailsSeeEveryDecision).  A buyer with an answer has more: what it tells of
\* was handed over, even if a first call was cut off.  Neither says that every job succeeds, and
\* a resolution that finds its decision made does not queue it again.
DecisionsEvaluated ==
    /\ \A d \in Made : Evaluated(d) \/ SweptAtHome(d)
    /\ \A c \in Callers : Answered(c) => \A d \in ToldOf(c) : HandedOver(d)

\* docs/architecture/adrs.md:270: guardrails are evaluated when a decision is created.
GuardrailsSeeEveryDecision == \A d \in Made : Evaluated(d)

\* However often a correction is sent, and by how many calls at once, one event tells of it, and
\* its replays answer the response of that event.
CorrectionAuditedOnce ==
    \A d \in Made :
       d[2] > 1 =>
          /\ Cardinality({e \in audit : e.kind = "correct" /\ e.response.decision = d}) <= 1
          /\ \A c \in Callers : Answered(c) /\ call[c].id = d =>
                \E e \in audit : e.kind = "correct" /\ e.response = Reported(c)

\* Two answers to one key name one decision, also when the first call died half-way, or a
\* correction came between.
RepliesAgree ==
    \A b, c \in Callers :
       Answered(b) /\ Answered(c) /\ call[b].key = call[c].key => call[b].id = call[c].id

\* A decision that a buyer was told of has a cost as long as it counts.
AnsweredIsPriced ==
    \A c \in Callers : Answered(c) /\ Current(call[c].id[1]) = call[c].id => call[c].id \in priced

\* A read of matches that goes through leaves none of its lines behind: each is decided or waits
\* for a buyer.
EveryLineRouted ==
    [][\A w \in Runs :
          run[w].pc = "next" /\ run'[w].pc = "idle" /\ run[w].todo = {} =>
             \A l \in LinesOf(run[w].quotation) : Decided(l) \/ task[l] = "open"]_vars
=============================================================================
