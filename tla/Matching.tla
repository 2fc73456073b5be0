------------------------------ MODULE Matching ------------------------------
(***************************************************************************)
(* The match of quotation lines to catalogue products.  Reading the        *)
(* matches of a quotation prepares them: every line gets candidates, and   *)
(* an automatic decision or a task for a buyer.  A buyer resolves a line   *)
(* or corrects its decision; a decision is never updated, a correction     *)
(* supersedes it, and the decisions of a line are one chain.  A buyer's    *)
(* decision teaches the wording of its line, and a sweep decides the open  *)
(* lines with the same wording.  Each statement is a transaction of its    *)
(* own, so a call that fails or dies leaves its first ones behind, and is  *)
(* repeated with its idempotency key.                                      *)
(***************************************************************************)
EXTENDS Naturals, FiniteSets, Sequences

CONSTANTS
    Lines,          \* quotation lines, by number
    Quotations,     \* reviewed quotations that answer an RFQ
    QuotationOf,    \* the quotation of each line
    TextOf,         \* the normalised wording of each line
    Products,
    Keys,           \* idempotency keys of buyers
    Asked,          \* the request each key was made for
    Found,          \* the sets of candidates a search of the catalogue or the RFQ may find
    Picks,          \* the products buyers pick for a line by hand
    Callers,        \* calls that resolve or correct
    Runs,           \* reads of the matches of a quotation
    MaxFailures,    \* bound: how many statements fail or processes are killed
    None

Texts == {TextOf[l] : l \in Lines}

\* A correction names the decision it supersedes, by its place in the chain of its line.
Ask == [kind: {"resolve", "correct"}, line: Lines, product: Products, learn: BOOLEAN,
        supersedes: Nat]

\* "sure" stands for an alias, GTIN, supplier-code or RFQ hit, "picked" for a buyer's choice.
Candidate == [product: Products, by: {"sure", "similar", "picked"}]

ASSUME LinesAssumption ==
    Lines \subseteq Nat /\ IsFiniteSet(Lines) /\ QuotationOf \in [Lines -> Quotations]
ASSUME AskedAssumption ==
    /\ Asked \in [Keys -> Ask] /\ Found \in [Lines -> SUBSET SUBSET Candidate]
    /\ \A k \in Keys : (Asked[k].kind = "resolve") <=> (Asked[k].supersedes = 0)
ASSUME NoneAssumption == None \notin Products \cup Keys \cup (Lines \X Nat) /\ MaxFailures \in Nat

VARIABLES
    decision,   \* match_decision: the chain of each line, the current one last
    candidate,  \* match_candidate
    task,       \* the newest match_task of each line
    alias,      \* product_alias: the product each wording was taught for
    replay,     \* match_resolution_idempotency
    audit,      \* matching.resolved and matching.decision_corrected events, with the response
    priced,     \* the decisions with a landed_cost row
    queue,      \* quotations with a guardrail_eval job
    unseen,     \* decisions no evaluation has read yet
    failures,   \* how much has failed so far
    cut,        \* decisions whose maker was cut off before it queued an evaluation
    dropped,    \* decisions whose job was not inserted, or failed for good
    call,       \* what each buyer's call has read and does next
    run         \* what each read of matches has read and does next

rows == <<decision, candidate, task, alias, replay, audit, priced>>
jobs == <<queue, unseen, cut, dropped, failures>>
vars == <<rows, jobs, call, run>>

DecisionIds == Lines \X Nat

Decision == [product: Products, human: BOOLEAN, taught: BOOLEAN,
             teacher: DecisionIds \cup {None}]

\* A response: the decision, the lines the superseded wording matched, the lines the sweep matched.
Response == [decision: DecisionIds, learned: SUBSET Lines, swept: SUBSET Lines]

Event == [kind: {"resolve", "correct"}, response: Response, by: Callers]

Call == [pc: {"idle", "head", "teach", "insert", "check", "commit", "relock", "tell",
              "close", "audit", "price", "record", "scan", "sweep", "shut", "cost", "flush",
              "reply", "answered"},
         key: Keys \cup {None}, id: DecisionIds \cup {None}, made: BOOLEAN, aliased: BOOLEAN,
         at: Lines \cup {None}, todo: SUBSET Lines, learned: SUBSET Lines, swept: SUBSET Lines,
         pending: SUBSET DecisionIds]

Run == [pc: {"idle", "next", "search", "route", "price", "flush"},
        quotation: Quotations \cup {None}, todo: SUBSET Lines,
        rows: [Lines -> SUBSET Candidate], offered: SUBSET Candidate,
        pending: SUBSET DecisionIds]

IdleCall == [pc |-> "idle", key |-> None, id |-> None, made |-> FALSE, aliased |-> FALSE,
             at |-> None, todo |-> {}, learned |-> {}, swept |-> {}, pending |-> {}]

IdleRun == [pc |-> "idle", quotation |-> None, todo |-> {}, rows |-> [l \in Lines |-> {}],
            offered |-> {}, pending |-> {}]

LinesOf(q) == {l \in Lines : QuotationOf[l] = q}
QuotationsOf(ids) == {QuotationOf[d[1]] : d \in ids}
Decided(l) == decision[l] # <<>>
Current(l) == <<l, Len(decision[l])>>
Row(d) == decision[d[1]][d[2]]

Made == UNION {{<<l, n>> : n \in 1..Len(decision[l])} : l \in Lines}
Learned(d) == {e \in Made : Row(e).teacher = d}
LinesIn(ids) == {d[1] : d \in ids}
-----------------------------------------------------------------------------
Init ==
    /\ decision = [l \in Lines |-> <<>>]
    /\ candidate = [l \in Lines |-> {}]
    /\ task = [l \in Lines |-> "none"]
    /\ alias = [x \in Texts |-> None]
    /\ replay = [k \in Keys |-> None]
    /\ audit = {} /\ priced = {}
    /\ queue = {} /\ unseen = {} /\ cut = {} /\ dropped = {} /\ failures = 0
    /\ call = [c \in Callers |-> IdleCall]
    /\ run = [w \in Runs |-> IdleRun]

(***************************************************************************)
(* Tables.  The constraints of match_decision make a chain: a first        *)
(* decision finds none, a later one finds the one it supersedes last.      *)
(***************************************************************************)
RootIsFree(l) == ~Decided(l)

Decide(l, row) ==
    /\ decision' = [decision EXCEPT ![l] = Append(@, row)]
    /\ unseen' = unseen \cup {<<l, Len(decision[l]) + 1>>}

Automatic(p, teacher) ==
    [product |-> p, human |-> FALSE, taught |-> teacher # None, teacher |-> teacher]

Human(p, aliased) == [product |-> p, human |-> TRUE, taught |-> aliased, teacher |-> None]

\* _resolve_open_task
CloseTask(l) == task' = [task EXCEPT ![l] = IF @ = "open" THEN "resolved" ELSE @]

\* The cost of the current decision, once.
Price(l) == priced' = priced \cup {Current(l)}

Fails == failures < MaxFailures /\ failures' = failures + 1

\* A statement fails or a process is killed: nobody is left to queue an evaluation of these.
CutOff(ids) == Fails /\ cut' = cut \cup (ids \cap unseen) /\ UNCHANGED dropped

\* Best effort: a job is inserted for each quotation, or that fails and is logged.
Enqueue(ids) ==
    /\ cut' = cut \ ids
    /\ \/ queue' = queue \cup QuotationsOf(ids) /\ dropped' = dropped \ ids /\ UNCHANGED failures
       \/ ids # {} /\ Fails /\ dropped' = dropped \cup (ids \cap unseen) /\ UNCHANGED queue
-----------------------------------------------------------------------------
(***************************************************************************)
(* Preparation, when the matches of a quotation are read.                  *)
(***************************************************************************)
Settled(q) ==
    \A l \in LinesOf(q) : Decided(l) \/ (candidate[l] # {} /\ task[l] = "open")

OpenMatches(w, q) ==
    /\ run[w].pc = "idle"
    /\ ~Settled(q)
    /\ run' = [run EXCEPT ![w] =
                 [IdleRun EXCEPT !.pc = "next", !.quotation = q,
                    !.todo = {l \in LinesOf(q) : ~Decided(l)},
                    !.rows = [l \in Lines |-> IF QuotationOf[l] = q THEN candidate[l] ELSE {}]]]
    /\ UNCHANGED <<rows, jobs, call>>

Line(w) == CHOOSE l \in run[w].todo : \A m \in run[w].todo : l <= m

\* The lines that remain, without the one that is done.
NextLine(w) == [run[w] EXCEPT !.pc = "next", !.todo = @ \ {Line(w)}, !.offered = {}]

\* Mutant: a line with candidates is taken for done.
TakeLineOnce(w) ==
    /\ run[w].pc = "next" /\ run[w].todo # {}
    /\ run' = [run EXCEPT ![w] =
                 IF Decided(Line(w)) \/ @.rows[Line(w)] # {} THEN NextLine(w)
                 ELSE [@ EXCEPT !.pc = "search"]]
    /\ UNCHANGED <<rows, jobs, call>>

\* The line is looked up once more, as its snapshot may be old.
TakeLine(w) ==
    /\ run[w].pc = "next" /\ run[w].todo # {}
    /\ run' = [run EXCEPT ![w] =
                 IF Decided(Line(w)) THEN NextLine(w)
                 ELSE IF @.rows[Line(w)] # {}
                   THEN [@ EXCEPT !.pc = "route", !.offered = run[w].rows[Line(w)]]
                 ELSE [@ EXCEPT !.pc = "search"]]
    /\ UNCHANGED <<rows, jobs, call>>

Sure(p) == [product |-> p, by |-> "sure"]
Similar(p) == [product |-> p, by |-> "similar"]
Picked(p) == [product |-> p, by |-> "picked"]

SureIn(set) == {r \in set : r.by = "sure"}

\* What a search proposes: a hit of the RFQ or the catalogue, else the product the wording was
\* taught for, else what is similar.
Proposals(l) ==
    LET p == alias[TextOf[l]] IN
    {set \in Found[l] : SureIn(set) # {}} \cup IF p = None THEN Found[l] ELSE {{Sure(p)}}

ProductsIn(set) == {r.product : r \in set}

\* The set is inserted as one; if another runner's set is in the way, that one is routed.
Search(w) ==
    LET l == Line(w) IN
    /\ run[w].pc = "search"
    /\ \E set \in Proposals(l) :
          \/ /\ ProductsIn(set) \cap ProductsIn({r \in candidate[l] : r.by # "picked"}) = {}
             /\ candidate' = [candidate EXCEPT ![l] = @ \cup set]
             /\ run' = [run EXCEPT ![w].pc = "route", ![w].offered = set]
          \/ /\ candidate[l] # {} /\ set # {}
             /\ run' = [run EXCEPT ![w].pc = "route", ![w].offered = candidate[l]]
             /\ UNCHANGED candidate
    /\ UNCHANGED <<decision, task, alias, replay, audit, priced, jobs, call>>

\* A sure candidate that leads is decided on; a decision that came first stands.
Accept(w) ==
    LET l == Line(w) IN
    /\ run[w].pc = "route"
    /\ \E r \in SureIn(run[w].offered) :
          IF RootIsFree(l)
            THEN /\ Decide(l, Automatic(r.product, None))
                 /\ run' = [run EXCEPT ![w].pc = "price", ![w].pending = @ \cup {<<l, 1>>}]
            ELSE run' = [run EXCEPT ![w] = NextLine(w)] /\ UNCHANGED <<decision, unseen>>
    /\ UNCHANGED <<candidate, task, alias, replay, audit, priced, queue, cut, dropped, failures, call>>

PriceAccepted(w) ==
    /\ run[w].pc = "price"
    /\ Price(Line(w))
    /\ run' = [run EXCEPT ![w] = NextLine(w)]
    /\ UNCHANGED <<decision, candidate, task, alias, replay, audit, jobs, call>>

\* Anything else waits for a buyer, in one open task; a lone sure candidate never does.
OpenTask(w) ==
    LET set == run[w].offered IN
    /\ run[w].pc = "route"
    /\ SureIn(set) = {} \/ Cardinality(set) > 1
    /\ task' = [task EXCEPT ![Line(w)] = "open"]
    /\ run' = [run EXCEPT ![w] = NextLine(w)]
    /\ UNCHANGED <<decision, candidate, alias, replay, audit, priced, jobs, call>>

\* However the loop ends, what it decided is evaluated.
EndRun(w) ==
    /\ \/ run[w].pc = "next" /\ run[w].todo = {}
       \/ run[w].pc = "flush"
    /\ Enqueue(run[w].pending)
    /\ run' = [run EXCEPT ![w] = IdleRun]
    /\ UNCHANGED <<rows, unseen, call>>

FailRun(w) ==
    /\ run[w].pc \in {"next", "search", "route", "price"}
    /\ CutOff({})
    /\ run' = [run EXCEPT ![w].pc = "flush"]
    /\ UNCHANGED <<rows, queue, unseen, call>>

KillRun(w) ==
    /\ run[w].pc # "idle"
    /\ CutOff(run[w].pending)
    /\ run' = [run EXCEPT ![w] = IdleRun]
    /\ UNCHANGED <<rows, queue, unseen, call>>

\* A buyer picks a product the search did not propose.
AddManualCandidate(l, p) ==
    /\ <<l, p>> \in Picks
    /\ p \notin ProductsIn(candidate[l])
    /\ candidate' = [candidate EXCEPT ![l] = @ \cup {Picked(p)}]
    /\ UNCHANGED <<decision, task, alias, replay, audit, priced, jobs, call, run>>
-----------------------------------------------------------------------------
(***************************************************************************)
(* A buyer's call.  Both kinds end with a sweep; a resolution tells the    *)
(* evaluation before it closes the task, is audited and priced, a          *)
(* correction is priced first and audited last, with its response.         *)
(***************************************************************************)
AfterTelling == [resolve |-> "close", correct |-> "scan"]
AfterPrice == [resolve |-> "record", correct |-> "tell"]
AfterSweep == [resolve |-> "reply", correct |-> "audit"]
AfterAudit == [resolve |-> "price", correct |-> "reply"]

Of(c) == Asked[call[c].key]
Kind(c) == Of(c).kind
OnLine(c) == Of(c).line

Goto(c, pc) == call' = [call EXCEPT ![c].pc = pc]

Quiet(c) == call[c].pc \in {"idle", "answered"}

\* What a call leaves when it ends without an answer.
End(c) == call' = [call EXCEPT ![c] = IdleCall]

Chosen(c) == Of(c).product \in ProductsIn(candidate[OnLine(c)])

\* Mutant: a replay answers the decision that counts.
RecordedLine(k) == IF replay[k] = None THEN None ELSE Current(Asked[k].line)

\* A replay answers the decision of its record.
Recorded(k) == replay[k]

\* A key is sent, or sent again; the buyer who corrects a decision has seen it.
Send(c, k) ==
    /\ Quiet(c)
    /\ Len(decision[Asked[k].line]) >= Asked[k].supersedes
    /\ IF Asked[k].kind = "correct"
         THEN call' = [call EXCEPT ![c] = [IdleCall EXCEPT !.pc = "check", !.key = k]]
         ELSE call' = [call EXCEPT ![c] =
                IF Recorded(k) # None
                  THEN [IdleCall EXCEPT !.pc = "reply", !.key = k, !.id = Recorded(k)]
                  ELSE [IdleCall EXCEPT !.pc = "head", !.key = k]]
    /\ UNCHANGED <<rows, jobs, run>>

\* The key has no record: a line that is decided as the key asks is completed, and the decision
\* is answered; another decision refuses the call.
SameChoice(c) == Row(Current(OnLine(c))).product = Of(c).product

ReadHead(c) ==
    /\ call[c].pc = "head"
    /\ IF ~Decided(OnLine(c))
         THEN IF Chosen(c) THEN Goto(c, "teach") ELSE End(c)
         ELSE IF SameChoice(c)
                THEN call' = [call EXCEPT ![c].pc = "close", ![c].id = Current(OnLine(c))]
                ELSE End(c)
    /\ UNCHANGED <<rows, jobs, run>>

\* learn_or_reuse_alias: a wording means one product and is never taught anew.
CanTeach(c) == alias[TextOf[OnLine(c)]] \in {None, Of(c).product}
Teach(c) == alias' = [alias EXCEPT ![TextOf[OnLine(c)]] = Of(c).product]

TeachFirst(c) ==
    /\ call[c].pc = "teach"
    /\ IF CanTeach(c) THEN Teach(c) /\ Goto(c, "insert") ELSE End(c) /\ UNCHANGED alias
    /\ UNCHANGED <<decision, candidate, task, replay, audit, priced, jobs, run>>

Resolve(c) ==
    LET l == OnLine(c) IN
    /\ call[c].pc = "insert"
    /\ IF RootIsFree(l)
         THEN /\ Decide(l, Human(Of(c).product, TRUE))
              /\ call' = [call EXCEPT ![c] = [@ EXCEPT !.pc = "tell", !.made = TRUE,
                            !.id = <<l, Len(decision[l]) + 1>>,
                            !.pending = {<<l, Len(decision[l]) + 1>>}]]
         ELSE End(c) /\ UNCHANGED <<decision, unseen>>
    /\ UNCHANGED <<candidate, task, alias, replay, audit, priced, queue, cut, dropped, failures, run>>

Tell(c) ==
    /\ call[c].pc = "tell"
    /\ Enqueue({call[c].id})
    /\ call' = [call EXCEPT ![c].pc = AfterTelling[Kind(c)], ![c].pending = {}]
    /\ UNCHANGED <<rows, unseen, run>>

Close(c) ==
    /\ call[c].pc = "close"
    /\ CloseTask(OnLine(c))
    /\ Goto(c, "audit")
    /\ UNCHANGED <<decision, candidate, alias, replay, audit, priced, jobs, run>>

Reported(c) == [decision |-> call[c].id, learned |-> call[c].learned, swept |-> call[c].swept]
Audited(kind, d) == \E e \in audit : e.kind = kind /\ e.response.decision = d

\* A resolution that found its decision looks for the event first.
Audit(c) ==
    /\ call[c].pc = "audit"
    /\ audit' = IF Kind(c) = "resolve" /\ ~call[c].made /\ Audited("resolve", call[c].id)
                THEN audit
                ELSE audit \cup {[kind |-> Kind(c), response |-> Reported(c), by |-> c]}
    /\ Goto(c, AfterAudit[Kind(c)])
    /\ UNCHANGED <<decision, candidate, task, alias, replay, priced, jobs, run>>

PriceLine(c) ==
    /\ call[c].pc = "price"
    /\ Price(OnLine(c))
    /\ Goto(c, AfterPrice[Kind(c)])
    /\ UNCHANGED <<decision, candidate, task, alias, replay, audit, jobs, run>>

\* One record for a key, and one for a decision; only the call that decided sweeps.
Record(c) ==
    /\ call[c].pc = "record"
    /\ IF replay[call[c].key] = None /\ \A k \in Keys : replay[k] # call[c].id
         THEN /\ replay' = [replay EXCEPT ![call[c].key] = call[c].id]
              /\ Goto(c, IF call[c].made THEN "scan" ELSE "reply")
         ELSE End(c) /\ UNCHANGED replay
    /\ UNCHANGED <<decision, candidate, task, alias, audit, priced, jobs, run>>
-----------------------------------------------------------------------------
(***************************************************************************)
(* Corrections of one line exclude each other by an advisory lock, twice:  *)
(* until decision and replay record are committed, and again to finish.    *)
(***************************************************************************)
\* Mutant: a correction is finished without the lock.
LineFreeUnlocked(c) == TRUE

LineFree(c) ==
    \A b \in Callers \ {c} :
       call[b].key # None /\ Kind(b) = "correct" /\ OnLine(b) = OnLine(c)
       => call[b].pc \notin {"commit", "price", "tell", "scan", "sweep", "shut", "cost", "flush",
                             "audit", "reply"}

\* The decision is still the one the buyer saw, and the choice is another product.
Correctable(c) ==
    /\ Len(decision[OnLine(c)]) = Of(c).supersedes
    /\ Chosen(c)
    /\ ~SameChoice(c)

\* A wording with another meaning is left as it is; a live request on the line refuses the call.
Check(c) ==
    /\ call[c].pc = "check" /\ LineFree(c)
    /\ IF replay[call[c].key] # None
         THEN /\ call' = [call EXCEPT ![c].pc = "relock", ![c].id = replay[call[c].key]]
              /\ UNCHANGED alias
         ELSE \/ /\ Correctable(c)
                 /\ LET teaches == Of(c).learn /\ CanTeach(c) IN
                    /\ IF teaches THEN Teach(c) ELSE UNCHANGED alias
                    /\ call' = [call EXCEPT ![c].pc = "commit", ![c].aliased = teaches]
              \/ End(c) /\ UNCHANGED alias
    /\ UNCHANGED <<decision, candidate, task, replay, audit, priced, jobs, run>>

Commit(c) ==
    LET l == OnLine(c) IN
    LET d == <<l, Len(decision[l]) + 1>> IN
    /\ call[c].pc = "commit"
    /\ IF Len(decision[l]) = Of(c).supersedes /\ replay[call[c].key] = None
         THEN /\ Decide(l, Human(Of(c).product, call[c].aliased))
              /\ replay' = [replay EXCEPT ![call[c].key] = d]
              /\ call' = [call EXCEPT ![c] = [@ EXCEPT !.pc = "relock", !.made = TRUE, !.id = d,
                                                !.pending = {d}]]
         ELSE End(c) /\ UNCHANGED <<decision, unseen, replay>>
    /\ UNCHANGED <<candidate, task, alias, audit, priced, queue, cut, dropped, failures, run>>

\* The decisions taught by the superseded one that are current.
LearnedFrom(d) == {l \in Lines : Decided(l) /\ Row(Current(l)).teacher = d}

\* Mutant: a correction that is replayed is answered as it is.
FinishReplayed(c) ==
    /\ call[c].pc = "relock" /\ LineFree(c)
    /\ Goto(c, IF call[c].made THEN "price" ELSE "reply")
    /\ UNCHANGED <<rows, jobs, run>>

\* A correction that was audited answers its event; any other is finished.
Finish(c) ==
    LET d == call[c].id IN
    /\ call[c].pc = "relock" /\ LineFree(c)
    /\ \/ \E e \in audit :
            /\ e.kind = "correct" /\ e.response.decision = d
            /\ call' = [call EXCEPT ![c] = [@ EXCEPT !.pc = "reply", !.pending = {},
                          !.learned = e.response.learned, !.swept = e.response.swept]]
       \/ /\ ~Audited("correct", d)
          /\ call' = [call EXCEPT ![c].pc = "price",
                                  ![c].learned = LearnedFrom(<<d[1], d[2] - 1>>)]
    /\ UNCHANGED <<rows, jobs, run>>
-----------------------------------------------------------------------------
(***************************************************************************)
(* The sweep: open lines with the wording a buyer just taught are decided  *)
(* one after the other, each in four statements.  What fails stops the     *)
(* sweep and not the call.                                                 *)
(***************************************************************************)
Scan(c) ==
    /\ call[c].pc = "scan"
    /\ call' = [call EXCEPT ![c].pc = "sweep", ![c].todo =
                  IF ~Row(call[c].id).taught THEN {}
                  ELSE {l \in Lines : /\ task[l] = "open" /\ ~Decided(l)
                                      /\ TextOf[l] = TextOf[OnLine(c)]}]
    /\ UNCHANGED <<rows, jobs, run>>

SweepLine(c, l) ==
    LET p == alias[TextOf[l]] IN
    /\ call[c].pc = "sweep" /\ l \in call[c].todo
    /\ candidate' = [candidate EXCEPT ![l] =
                       IF p \in ProductsIn(@) THEN @ ELSE @ \cup {Sure(p)}]
    /\ IF RootIsFree(l)
         THEN /\ Decide(l, Automatic(p, call[c].id))
              /\ call' = [call EXCEPT ![c].pc = "shut", ![c].at = l, ![c].todo = @ \ {l}]
         ELSE call' = [call EXCEPT ![c].todo = @ \ {l}] /\ UNCHANGED <<decision, unseen>>
    /\ UNCHANGED <<task, alias, replay, audit, priced, queue, cut, dropped, failures, run>>

Shut(c) ==
    /\ call[c].pc = "shut"
    /\ CloseTask(call[c].at)
    /\ call' = [call EXCEPT ![c].pc = "cost", ![c].pending = @ \cup {<<call[c].at, 1>>}]
    /\ UNCHANGED <<decision, candidate, alias, replay, audit, priced, jobs, run>>

PriceSwept(c) ==
    LET l == call[c].at IN
    /\ call[c].pc = "cost"
    /\ Price(l)
    /\ call' = [call EXCEPT ![c].pc = "sweep", ![c].at = None, ![c].swept = @ \cup {l}]
    /\ UNCHANGED <<decision, candidate, task, alias, replay, audit, jobs, run>>

\* The quotation of the call was queued before.
Abroad(c) == {d \in call[c].pending : QuotationOf[d[1]] # QuotationOf[OnLine(c)]}

\* Mutant: what a failed sweep decided is not evaluated.
EndSweepQuietly(c) ==
    /\ \/ call[c].pc = "sweep" /\ call[c].todo = {} /\ Enqueue(Abroad(c))
       \/ call[c].pc = "flush" /\ UNCHANGED <<queue, cut, dropped, failures>>
    /\ call' = [call EXCEPT ![c].pc = AfterSweep[Kind(c)], ![c].pending = {}]
    /\ UNCHANGED <<rows, unseen, run>>

EndSweep(c) ==
    /\ \/ call[c].pc = "sweep" /\ call[c].todo = {}
       \/ call[c].pc = "flush"
    /\ Enqueue(Abroad(c))
    /\ call' = [call EXCEPT ![c].pc = AfterSweep[Kind(c)], ![c].pending = {}]
    /\ UNCHANGED <<rows, unseen, run>>

\* Decided by this call and not yet on the way to an evaluation.
Untold(c) == call[c].pending \cup IF call[c].pc = "shut" THEN {<<call[c].at, 1>>} ELSE {}

FailSweep(c) ==
    /\ call[c].pc \in {"scan", "sweep", "shut", "cost"}
    /\ CutOff(Untold(c) \ call[c].pending)
    /\ call' = [call EXCEPT ![c] = [@ EXCEPT !.pc = "flush", !.at = None, !.todo = {}]]
    /\ UNCHANGED <<rows, queue, unseen, run>>

\* A replay lists what was learned from its decision.
Reply(c) ==
    /\ call[c].pc = "reply"
    /\ call' = [call EXCEPT ![c] =
                  [IdleCall EXCEPT !.pc = "answered", !.key = call[c].key, !.id = call[c].id,
                     !.made = call[c].made, !.learned = call[c].learned,
                     !.swept = IF Kind(c) = "resolve" /\ ~call[c].made
                               THEN LinesIn(Learned(call[c].id)) ELSE call[c].swept]]
    /\ UNCHANGED <<rows, jobs, run>>

\* A statement fails outside of the sweep, or the process is killed.
Stop(c) ==
    /\ ~Quiet(c)
    /\ CutOff(Untold(c))
    /\ End(c)
    /\ UNCHANGED <<rows, queue, unseen, run>>

OfQuotation(q, ids) == {d \in ids : QuotationOf[d[1]] = q}

\* A guardrail_eval job reads every current decision of the quotation.
Evaluate(q) ==
    /\ q \in queue
    /\ queue' = queue \ {q}
    /\ unseen' = unseen \ OfQuotation(q, unseen)
    /\ cut' = cut \ OfQuotation(q, cut) /\ dropped' = dropped \ OfQuotation(q, dropped)
    /\ UNCHANGED <<rows, failures, call, run>>

\* The last attempt at the job fails, or is found stale; what it did not read stays unread.
FailEvaluation(q) ==
    /\ q \in queue
    /\ Fails
    /\ queue' = queue \ {q}
    /\ dropped' = dropped \cup OfQuotation(q, unseen)
    /\ UNCHANGED <<rows, unseen, cut, call, run>>
-----------------------------------------------------------------------------
RunStep(w) ==
    \/ TakeLine(w) \/ Search(w) \/ Accept(w) \/ PriceAccepted(w) \/ OpenTask(w) \/ EndRun(w)

CallStep(c) ==
    \/ ReadHead(c) \/ TeachFirst(c) \/ Resolve(c) \/ Tell(c) \/ Close(c) \/ Audit(c)
    \/ PriceLine(c) \/ Record(c) \/ Check(c) \/ Commit(c) \/ Finish(c)
    \/ Scan(c) \/ (\E l \in Lines : SweepLine(c, l)) \/ Shut(c) \/ PriceSwept(c) \/ EndSweep(c)
    \/ Reply(c)

Next ==
    \/ \E w \in Runs, q \in Quotations : OpenMatches(w, q)
    \/ \E w \in Runs : RunStep(w) \/ FailRun(w) \/ KillRun(w)
    \/ \E c \in Callers, k \in Keys : Send(c, k)
    \/ \E c \in Callers : CallStep(c) \/ FailSweep(c) \/ Stop(c)
    \/ \E l \in Lines, p \in Products : AddManualCandidate(l, p)
    \/ \E q \in Quotations : Evaluate(q) \/ FailEvaluation(q)

Spec == Init /\ [][Next]_vars
=============================================================================
