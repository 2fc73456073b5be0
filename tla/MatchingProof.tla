--------------------------- MODULE MatchingProof ---------------------------
(***************************************************************************)
(* Proofs about Matching, for any number of lines, products, keys, calls   *)
(* and reads.  The tables only grow: a decision, a taught wording, a       *)
(* replay record and an audit event stay as they were written (Keeps), so  *)
(* what a call knows of them stays true while others act.  The inductive   *)
(* invariant says what each call and each read knows at every place of its *)
(* code (Calls, Reads), what the tables say of one another (Tables),     *)
(* that corrections of a line exclude each other (Lock, Unheard), and who  *)
(* is responsible for a decision no evaluation has read (UnseenInv).       *)
(***************************************************************************)
EXTENDS MatchingProperties, FiniteSetTheorems, WellFoundedInduction, TLAPS

Exists(d) == d[1] \in Lines /\ d[2] \in 1..Len(decision[d[1]])

\* A decision that counts has its cost.
Costed(d) == Current(d[1]) = d => d \in priced

\* The decision was handed over to an evaluation, or its maker was cut off before it could.
Told(d) == HandedOver(d) \/ d \in cut

Given(d) == Exists(d) /\ HandedOver(d)

\* Of the lines that were swept, those of other quotations than that of a line were handed over.
SweptGiven(lines, line) ==
    \A l \in lines : QuotationOf[l] # QuotationOf[line] => Given(<<l, 1>>)

\* The request of a call, as the call r has read it.
AskOf(r) == Asked[r.key]
Correction(r) == r.key # None /\ AskOf(r).kind = "correct"
Resolution(r) == r.key # None /\ AskOf(r).kind = "resolve"
TextAt(r) == TextOf[AskOf(r).line]

\* Where a call is after it has its decision, and within the sweep.
WithDecision == {"tell", "close", "relock", "audit", "price", "record", "scan", "sweep", "shut",
                 "cost", "flush", "reply", "answered"}
Sweeping == {"sweep", "shut", "cost", "flush"}
BeforeSweep == {"head", "teach", "insert", "check", "commit", "relock", "tell", "close", "price",
                "record", "scan"}
FromScan == {"scan", "sweep", "shut", "cost", "flush", "reply", "answered"}

\* Where a correction holds the lock of its line, and where it holds it and has no event yet.
Held == {"commit", "price", "tell", "scan", "sweep", "shut", "cost", "flush", "audit", "reply"}
Finishing == {"price", "tell", "scan", "sweep", "shut", "cost", "flush", "audit"}

\* The places of each kind of call.
PlaceOk(r) ==
    /\ r.pc = "idle" => r = IdleCall
    /\ r.pc # "idle" => r.key # None
    /\ Correction(r) => r.pc \notin {"head", "teach", "insert", "close", "record"}
    /\ Resolution(r) => r.pc \notin {"check", "commit", "relock"}

\* What a call knows of its own decision.
DecisionOk(r) ==
    /\ r.pc \in WithDecision => r.id # None /\ Exists(r.id) /\ r.id[1] = AskOf(r).line
    /\ r.pc \in FromScan => replay[r.key] = r.id
    /\ Correction(r) /\ r.pc \in WithDecision => replay[r.key] = r.id
    /\ r.pc \in FromScan \cup {"record"} => Costed(r.id)
    /\ Correction(r) /\ r.pc \in {"tell", "audit"} => Costed(r.id)

\* The answer of a correction is that of its event.
AnswerOk(r) ==
    Correction(r) /\ r.pc \in {"reply", "answered"} =>
       \E e \in audit :
          e.kind = "correct"
          /\ e.response = [decision |-> r.id, learned |-> r.learned, swept |-> r.swept]

\* What a call knows of the wording it taught.
WordingOk(r) ==
    /\ r.pc = "insert" => alias[TextAt(r)] # None
    /\ r.pc = "commit" /\ r.aliased => alias[TextAt(r)] # None
    /\ r.pc \in Sweeping => \A l \in r.todo : alias[TextOf[l]] # None

\* The decision was made by the sweep of the call.
SweptBy(r, d) == Exists(d) /\ Row(d).teacher = r.id

\* Which decisions a call still has to tell an evaluation of.
PendingOk(r) ==
    /\ r.pc \in {"answered", "head", "teach", "insert", "close", "audit", "record", "check",
                 "commit", "scan", "reply"} => r.pending = {}
    /\ Resolution(r) /\ r.pc = "price" => r.pending = {}
    /\ r.pc \in {"tell", "relock", "price"} => r.pending \subseteq {r.id}
    /\ r.pc \in Sweeping => \A d \in r.pending : SweptBy(r, d)
    /\ r.pc \in {"shut", "cost"} => r.at \in Lines /\ SweptBy(r, <<r.at, 1>>)

\* Which decisions a call has handed over to an evaluation.
HandOk(r) ==
    /\ r.pc \in {"head", "teach", "insert"} => ~r.made
    /\ Resolution(r) /\ r.made /\ r.pc \in WithDecision \ {"tell"} => HandedOver(r.id)
    /\ Correction(r) /\ r.pc \in FromScan \cup {"audit"} => HandedOver(r.id)
    /\ r.pc \in BeforeSweep => r.swept = {}
    /\ Resolution(r) /\ r.pc = "audit" => r.swept = {}
    /\ r.pc \in Sweeping => \A l \in r.swept : <<l, 1>> \in r.pending
    /\ r.pc = "cost" => <<r.at, 1>> \in r.pending
    /\ (Correction(r) \/ r.made) /\ r.pc \in {"reply", "answered"} =>
          SweptGiven(r.swept, AskOf(r).line)
    /\ Correction(r) /\ r.pc = "audit" => SweptGiven(r.swept, AskOf(r).line)

CallOk(r) ==
    PlaceOk(r) /\ DecisionOk(r) /\ AnswerOk(r) /\ WordingOk(r) /\ PendingOk(r) /\ HandOk(r)

Calls == \A c \in Callers : \A r \in Call : call[c] = r => CallOk(r)

\* A read of matches has left no line behind that it is done with.
ReadOk(r) ==
    /\ r.pc = "idle" => r.pending = {}
    /\ r.pc \in {"search", "route", "price"} => r.todo # {}
    /\ r.pc # "idle" =>
          \A l \in LinesOf(r.quotation) \ r.todo : Decided(l) \/ task[l] = "open"

Reads ==
    \A w \in Runs :
       /\ \A r \in Run : run[w] = r => ReadOk(r)
       /\ run[w].pc = "price" => Decided(Line(w))

\* A key is recorded for its own line, a resolution's for a first decision, which has its cost.
ReplayInv ==
    \A k \in Keys : replay[k] # None =>
       /\ Exists(replay[k]) /\ replay[k][1] = Asked[k].line
       /\ Asked[k].kind = "resolve" => replay[k][2] = 1 /\ Costed(replay[k])

\* A later decision of a line is recorded with its key, and what taught a wording is known by it.
ChainInv ==
    \A l \in Lines : \A n \in 1..Len(decision[l]) :
       /\ n > 1 => \E k \in Keys : Asked[k].kind = "correct" /\ replay[k] = <<l, n>>
       /\ decision[l][n].taught => alias[TextOf[l]] # None

\* What an event of a correction tells of: its decision exists, has its cost and was handed over,
\* and so were the lines swept abroad.
EventOk(e) ==
    /\ Given(e.response.decision) /\ Costed(e.response.decision)
    /\ SweptGiven(e.response.swept, e.response.decision[1])

\* One event tells of a correction.
AuditInv ==
    \A e \in audit : e.kind = "correct" =>
       /\ EventOk(e)
       /\ \A f \in audit :
             f.kind = "correct" /\ f.response.decision = e.response.decision => f = e

Tables == ReplayInv /\ ChainInv /\ AuditInv

\* Corrections of one line exclude each other.
Lock ==
    \A b, c \in Callers :
       /\ Correction(call[b]) /\ call[b].pc \in Held
       /\ Correction(call[c]) /\ call[c].pc \in Held
       /\ AskOf(call[b]).line = AskOf(call[c]).line
       => b = c

\* A correction that is being finished was not reported before.
Unheard ==
    \A c \in Callers :
       Correction(call[c]) /\ call[c].pc \in Finishing =>
          \A e \in audit : e.kind = "correct" => e.response.decision # call[c].id

\* Somebody is responsible for every decision that no evaluation has read.
UnseenInv ==
    \A d \in unseen :
       /\ Exists(d)
       /\ \/ Told(d) \/ SweptAtHome(d)
          \/ \E c \in Callers : d \in Untold(c)
          \/ \E w \in Runs : d \in run[w].pending

IInv == TypeOK /\ Calls /\ Reads /\ Tables /\ Lock /\ Unheard /\ UnseenInv
-----------------------------------------------------------------------------
(***************************************************************************)
(* What every step keeps of the tables.                                    *)
(***************************************************************************)
TellsOn ==
    \A d \in DecisionIds :
       Exists(d) => (Told(d) => Told(d)') /\ (HandedOver(d) => HandedOver(d)')

Keeps ==
    /\ \A l \in Lines : \A n \in 1..Len(decision[l]) :
          n \in 1..Len(decision'[l]) /\ decision'[l][n] = decision[l][n]
    /\ \A x \in Texts : alias[x] # None => alias'[x] = alias[x]
    /\ \A k \in Keys : replay[k] # None => replay'[k] = replay[k]
    /\ audit \subseteq audit' /\ priced \subseteq priced'
    /\ TellsOn

LEMMA LeastOf ==
    ASSUME NEW T, T \subseteq Nat, T # {}
    PROVE  \E x \in T : \A y \in T : x <= y
  <1>. DEFINE R == {ss \in Nat \X Nat : ss[1] < ss[2]}
  <1>1. IsWellFoundedOn(R, Nat)
    BY NatLessThanWellFounded DEF OpToRel
  <1>2. \A x, y \in T : <<y, x>> \in R <=> y < x
    OBVIOUS
  <1>. HIDE DEF R
  <1>3. \E x \in T : \A y \in T : ~ (<<y, x>> \in R)
    BY <1>1, WFMin, Zenon
  <1>4. PICK x \in T : \A y \in T : ~ (y < x)
    BY <1>2, <1>3, Zenon
  <1>5. \A y \in T : x \in Nat /\ y \in Nat /\ ~ (y < x)
    BY <1>4
  <1>. QED  BY <1>5

\* The first line that remains is one of them.
LEMMA LineRemains ==
    ASSUME NEW w \in Runs, run[w].todo \subseteq Lines, run[w].todo # {}
    PROVE  Line(w) \in run[w].todo
  <1>1. run[w].todo \subseteq Nat
    BY LinesAssumption
  <1>2. \E l \in run[w].todo : \A m \in run[w].todo : l <= m
    BY <1>1, LeastOf
  <1>. QED  BY <1>2 DEF Line

LEMMA Rows ==
    ASSUME TypeOK, NEW l \in Lines
    PROVE  /\ decision[l] \in Seq(Decision) /\ Len(decision[l]) \in Nat
           /\ \A n \in 1..Len(decision[l]) : decision[l][n] \in Decision
           /\ Decided(l) <=> Len(decision[l]) > 0
           /\ Current(l) = <<l, Len(decision[l])>>
           /\ Decided(l) => Exists(Current(l))
  BY DEF TypeOK, Decided, Current, Exists

LEMMA Ids ==
    ASSUME TypeOK, NEW d, Exists(d), d \in DecisionIds
    PROVE  /\ d[1] \in Lines /\ d[2] \in Nat \ {0} /\ d = <<d[1], d[2]>>
           /\ d[2] <= Len(decision[d[1]])
           /\ Row(d) = decision[d[1]][d[2]] /\ Row(d) \in Decision
           /\ Decided(d[1])
           /\ Current(d[1]) = d <=> Len(decision[d[1]]) = d[2]
  <1>1. d[1] \in Lines /\ d[2] \in 1..Len(decision[d[1]]) /\ d = <<d[1], d[2]>>
    BY DEF Exists, DecisionIds
  <1>2. decision[d[1]] \in Seq(Decision)
    BY <1>1, Rows
  <1>3. Row(d) = decision[d[1]][d[2]] /\ Row(d) \in Decision
    BY <1>1, <1>2 DEF Row
  <1>4. d[2] \in Nat \ {0} /\ d[2] <= Len(decision[d[1]]) /\ Len(decision[d[1]]) > 0
    BY <1>1, <1>2
  <1>5. Current(d[1]) = d <=> Len(decision[d[1]]) = d[2]
    BY <1>1 DEF Current
  <1>. QED  BY <1>1, <1>3, <1>4, <1>5, Rows

LEMMA MadeExist ==
    ASSUME NEW d
    PROVE  d \in Made <=> d \in DecisionIds /\ Exists(d)
  BY DEF Made, DecisionIds, Exists

\* A decision stays, and so does what was known of it.
LEMMA Stable ==
    ASSUME TypeOK, TypeOK', Keeps, NEW d \in DecisionIds, Exists(d)
    PROVE  /\ Exists(d)' /\ Row(d)' = Row(d)
           /\ Costed(d) => Costed(d)'
           /\ Told(d) => Told(d)'
           /\ HandedOver(d) => Given(d)'
           /\ SweptAtHome(d) => SweptAtHome(d)'
           /\ Decided(d[1])'
  <1>1. d[1] \in Lines /\ d[2] \in 1..Len(decision[d[1]])
    BY DEF Exists
  <1>2. Exists(d)' /\ Row(d)' = Row(d)
    BY <1>1 DEF Keeps, Exists, Row
  <1>3. ASSUME Costed(d) PROVE Costed(d)'
    <2>. DEFINE m == Len(decision[d[1]])
    <2>1. m \in 1..Len(decision'[d[1]]) /\ Len(decision'[d[1]]) \in Nat
      <3>1. m \in 1..m
        BY <1>1, Rows
      <3>2. Len(decision'[d[1]]) \in Nat
        BY <1>1 DEF TypeOK
      <3>. QED  BY <1>1, <3>1, <3>2 DEF Keeps
    <2>2. ASSUME Current(d[1])' = d PROVE Current(d[1]) = d
      <3>1. Len(decision'[d[1]]) = d[2]
        BY <2>2 DEF Current
      <3>2. m = d[2]
        BY <1>1, <2>1, <3>1
      <3>. QED  BY <3>2 DEF Current, DecisionIds
    <2>. QED  BY <1>3, <2>2 DEF Costed, Keeps
  <1>4. Decided(d[1])'
    BY <1>1, <1>2 DEF Exists, Decided
  <1>. QED  BY <1>2, <1>3, <1>4 DEF Keeps, TellsOn, Given, SweptAtHome

LEMMA DecidedStay ==
    ASSUME TypeOK, TypeOK', Keeps, NEW l \in Lines, Decided(l)
    PROVE  Decided(l)'
  <1>1. Len(decision[l]) \in 1..Len(decision[l])
    BY Rows
  <1>2. Len(decision[l]) \in 1..Len(decision'[l])
    BY <1>1 DEF Keeps
  <1>. QED  BY <1>2 DEF Decided
-----------------------------------------------------------------------------
(***************************************************************************)
(* The frame of a step: what it means for whoever does not take it.        *)
(***************************************************************************)
LEMMA CallFacts ==
    ASSUME NEW r \in Call
    PROVE  /\ r.key # None =>
                 /\ r.key \in Keys /\ AskOf(r) \in Ask
                 /\ AskOf(r).line \in Lines /\ TextAt(r) \in Texts
                 /\ AskOf(r).kind \in {"resolve", "correct"} /\ AskOf(r).product \in Products
                 /\ Correction(r) <=> ~Resolution(r)
                 /\ Resolution(r) <=> AskOf(r).supersedes = 0
           /\ r.id # None => r.id \in DecisionIds
           /\ r.pending \subseteq DecisionIds
           /\ r.todo \subseteq Lines
  <1>1. ASSUME r.key # None
        PROVE  /\ r.key \in Keys /\ AskOf(r) \in Ask
               /\ Resolution(r) <=> AskOf(r).supersedes = 0
    BY <1>1, AskedAssumption DEF Call, AskOf, Resolution
  <1>2. ASSUME r.key # None
        PROVE  /\ AskOf(r).line \in Lines /\ TextAt(r) \in Texts
               /\ AskOf(r).kind \in {"resolve", "correct"} /\ AskOf(r).product \in Products
               /\ Correction(r) <=> ~Resolution(r)
    BY <1>1, <1>2 DEF Ask, TextAt, Texts, Correction, Resolution
  <1>. QED  BY <1>1, <1>2 DEF Call

LEMMA CallTyped ==
    ASSUME TypeOK, NEW c \in Callers
    PROVE  call[c] \in Call
  BY DEF TypeOK

\* What was handed over stays so.
LEMMA SweptGivenStays ==
    ASSUME TypeOK, TypeOK', Keeps, NEW lines \in SUBSET Lines, NEW line, SweptGiven(lines, line)
    PROVE  SweptGiven(lines, line)'
  <1>. SUFFICES ASSUME NEW l \in lines, QuotationOf[l] # QuotationOf[line]
                PROVE  Given(<<l, 1>>)'
    BY DEF SweptGiven
  <1>1. <<l, 1>> \in DecisionIds /\ Given(<<l, 1>>)
    BY DEF SweptGiven, DecisionIds
  <1>. QED  BY <1>1, Stable DEF Given

\* What a call knows stays true while others act.
LEMMA OtherCall ==
    ASSUME TypeOK, TypeOK', Keeps, NEW r \in Call, CallOk(r)
    PROVE  CallOk(r)'
  <1>1. PlaceOk(r)'
    BY DEF CallOk, PlaceOk, Correction, Resolution, AskOf
  <1>2. DecisionOk(r)'
    <2>1. ASSUME r.pc \in WithDecision
          PROVE  /\ r.id # None /\ Exists(r.id)' /\ r.id[1] = AskOf(r).line
                 /\ Costed(r.id) => Costed(r.id)'
      BY <2>1, CallFacts, Stable DEF CallOk, DecisionOk
    <2>2. FromScan \cup Finishing \cup {"record", "tell", "audit"} \subseteq WithDecision
      BY DEF FromScan, Finishing, WithDecision
    <2>3. ASSUME r.pc \in WithDecision, replay[r.key] = r.id
          PROVE  replay'[r.key] = r.id
      <3>1. r.key \in Keys
        BY <2>3, CallFacts DEF CallOk, PlaceOk, WithDecision
      <3>. QED  BY <2>1, <2>3, <3>1 DEF Keeps
    <2>. HIDE DEF WithDecision, FromScan, Finishing
    <2>. QED
      BY <2>1, <2>2, <2>3 DEF CallOk, DecisionOk, Correction, AskOf
  <1>3. AnswerOk(r)'
    BY DEF CallOk, AnswerOk, Correction, AskOf, Keeps
  <1>4. WordingOk(r)'
    <2>1. ASSUME r.pc \in {"insert", "commit"}, alias[TextAt(r)] # None
          PROVE  alias'[TextAt(r)] # None
      BY <2>1, CallFacts DEF CallOk, PlaceOk, Keeps
    <2>2. ASSUME NEW l \in r.todo, alias[TextOf[l]] # None
          PROVE  alias'[TextOf[l]] # None
      BY <2>2, CallFacts DEF Keeps, Texts
    <2>. QED  BY <2>1, <2>2 DEF CallOk, WordingOk, TextAt, AskOf
  <1>5. PendingOk(r)'
    <2>1. ASSUME NEW d \in DecisionIds, SweptBy(r, d)
          PROVE  SweptBy(r, d)'
      BY <2>1, Stable DEF SweptBy
    <2>2. ASSUME r.at \in Lines
          PROVE  <<r.at, 1>> \in DecisionIds
      BY <2>2 DEF DecisionIds
    <2>. QED
      BY <2>1, <2>2, CallFacts DEF CallOk, PendingOk, Resolution, AskOf
  <1>6. HandOk(r)'
    <2>1. ASSUME r.pc \in WithDecision, HandedOver(r.id)
          PROVE  HandedOver(r.id)'
      BY <2>1, CallFacts, Stable DEF CallOk, DecisionOk, Given
    <2>2. SweptGiven(r.swept, AskOf(r).line) => SweptGiven(r.swept, AskOf(r).line)'
      <3>1. r.swept \subseteq Lines
        BY DEF Call
      <3>. QED  BY <3>1, SweptGivenStays
    <2>3. FromScan \cup {"audit"} \subseteq WithDecision
      BY DEF FromScan, WithDecision
    <2>4. AskOf(r)' = AskOf(r) /\ (Correction(r)' <=> Correction(r))
          /\ (Resolution(r)' <=> Resolution(r))
      BY DEF AskOf, Correction, Resolution
    <2>. HIDE DEF WithDecision, FromScan, BeforeSweep, Sweeping
    <2>. QED  BY <2>1, <2>2, <2>3, <2>4 DEF CallOk, HandOk
  <1>. QED  BY <1>1, <1>2, <1>3, <1>4, <1>5, <1>6 DEF CallOk

LEMMA ReadTyped ==
    ASSUME TypeOK, NEW w \in Runs
    PROVE  /\ run[w] \in Run /\ run[w].todo \subseteq Lines
           /\ run[w].pending \subseteq DecisionIds
  BY DEF TypeOK, Run

TasksKept == \A l \in Lines : task[l] = "open" => task'[l] = "open" \/ Decided(l)'

LEMMA OtherRead ==
    ASSUME TypeOK, TypeOK', Keeps, TasksKept, NEW r \in Run, ReadOk(r)
    PROVE  ReadOk(r)'
  <1>1. \A l \in Lines : Decided(l) \/ task[l] = "open" => Decided(l)' \/ task'[l] = "open"
    BY DecidedStay DEF TasksKept
  <1>. QED  BY <1>1 DEF ReadOk, LinesOf

LEMMA OtherReads ==
    ASSUME TypeOK, TypeOK', Keeps, TasksKept, Reads, NEW w \in Runs, run'[w] = run[w]
    PROVE  /\ \A r \in Run : run'[w] = r => ReadOk(r)'
           /\ run'[w].pc = "price" => Decided(Line(w))'
  <1>1. \A r \in Run : run'[w] = r => ReadOk(r)'
    BY OtherRead DEF Reads
  <1>2. ASSUME run[w].pc = "price" PROVE Decided(Line(w))'
    <2>1. PICK r \in Run : run[w] = r
      BY ReadTyped
    <2>2. Line(w) \in Lines
      BY <1>2, <2>1, ReadTyped, LineRemains DEF Reads, ReadOk
    <2>3. PICK l \in Lines : l = Line(w)
      BY <2>2
    <2>4. Decided(l)
      BY <1>2, <2>3 DEF Reads
    <2>5. Decided(l)'
      BY <2>4, DecidedStay
    <2>6. Line(w)' = l
      BY <2>3 DEF Line
    <2>. QED  BY <2>5, <2>6 DEF Decided
  <1>. QED  BY <1>1, <1>2

\* What a step leaves of the decisions that were not read.
LEMMA Unread ==
    ASSUME TypeOK, TypeOK', Keeps, UnseenInv,
           \A d \in unseen' \ unseen :
              Exists(d)' /\ (\/ \E c \in Callers : d \in Untold(c)'
                             \/ \E w \in Runs : d \in run'[w].pending),
           \A c \in Callers : \A d \in Untold(c) \cap unseen \cap unseen' :
              d \in Untold(c)' \/ Told(d)' \/ SweptAtHome(d)',
           \A w \in Runs : \A d \in run[w].pending \cap unseen \cap unseen' :
              d \in run'[w].pending \/ Told(d)'
    PROVE  UnseenInv'
  <1>. SUFFICES ASSUME NEW d \in unseen'
                PROVE  /\ Exists(d)'
                       /\ \/ Told(d)' \/ SweptAtHome(d)'
                          \/ \E c \in Callers : d \in Untold(c)'
                          \/ \E w \in Runs : d \in run'[w].pending
    BY DEF UnseenInv
  <1>1. CASE d \notin unseen
    BY <1>1
  <1>2. CASE d \in unseen
    <2>1. d \in DecisionIds /\ Exists(d)
      BY <1>2 DEF TypeOK, UnseenInv
    <2>2. Exists(d)' /\ (Told(d) => Told(d)') /\ (SweptAtHome(d) => SweptAtHome(d)')
      BY <2>1, Stable
    <2>. QED  BY <1>2, <2>2 DEF UnseenInv
  <1>. QED  BY <1>1, <1>2

UntoldIn(r) == r.pending \cup IF r.pc = "shut" THEN {<<r.at, 1>>} ELSE {}

\* A step of the call of c, that changes it to r.
LEMMA CallMoves ==
    ASSUME TypeOK, TypeOK', Keeps, TasksKept, Calls, Reads, Lock, Unheard, UnseenInv,
           NEW c \in Callers, NEW r \in Call, call' = [call EXCEPT ![c] = r], CallOk(r)',
           UNCHANGED run,
           Correction(r) /\ r.pc \in Held =>
              r.key = call[c].key /\ (call[c].pc \in Held \/ LineFree(c)),
           Correction(r) /\ r.pc \in Finishing =>
              \A e \in audit' : e.kind = "correct" => e.response.decision # r.id,
           \A e \in audit' \ audit : e.kind = "correct" =>
              /\ Correction(call[c]) /\ call[c].pc \in Held
              /\ e.response.decision[1] = AskOf(call[c]).line,
           \A d \in unseen' \ unseen : Exists(d)' /\ d \in UntoldIn(r),
           \A d \in UntoldIn(call[c]) \cap unseen \cap unseen' :
              d \in UntoldIn(r) \/ Told(d)' \/ SweptAtHome(d)'
    PROVE  Calls' /\ Reads' /\ Lock' /\ Unheard' /\ UnseenInv'
  <1>1. call'[c] = r /\ \A b \in Callers : b # c => call'[b] = call[b]
    BY DEF TypeOK
  <1>2. Calls'
    <2>1. ASSUME NEW b \in Callers, NEW q \in Call, call'[b] = q
          PROVE  CallOk(q)'
      <3>1. CASE b = c
        BY <1>1, <2>1, <3>1
      <3>2. CASE b # c
        BY <1>1, <2>1, <3>2, OtherCall DEF Calls
      <3>. QED  BY <3>1, <3>2
    <2>. QED  BY <2>1 DEF Calls
  <1>3. Reads'
    BY OtherReads DEF Reads
  <1>4. Lock'
    <2>1. ASSUME NEW b \in Callers, b # c,
                 Correction(call[b]), call[b].pc \in Held, Correction(r), r.pc \in Held,
                 AskOf(call[b]).line = AskOf(r).line
          PROVE  FALSE
      <3>1. r.key = call[c].key /\ AskOf(call[c]).line = AskOf(call[b]).line
            /\ Correction(call[c])
        BY <2>1 DEF AskOf, Correction
      <3>2. CASE call[c].pc \in Held
        BY <2>1, <3>1, <3>2 DEF Lock
      <3>3. CASE LineFree(c)
        BY <2>1, <3>1, <3>3 DEF LineFree, Held, Kind, OnLine, Of, Correction, AskOf
      <3>. QED  BY <2>1, <3>2, <3>3
    <2>2. \A b \in Callers : b # c =>
             /\ Correction(call'[b]) <=> Correction(call[b])
             /\ AskOf(call'[b]) = AskOf(call[b]) /\ call'[b].pc = call[b].pc
      BY <1>1 DEF Correction, AskOf
    <2>3. (Correction(call'[c]) <=> Correction(r)) /\ AskOf(call'[c]) = AskOf(r)
          /\ call'[c].pc = r.pc
      BY <1>1 DEF Correction, AskOf
    <2>. SUFFICES ASSUME NEW a \in Callers, NEW b \in Callers,
                         Correction(call'[a]), call'[a].pc \in Held,
                         Correction(call'[b]), call'[b].pc \in Held,
                         AskOf(call'[a]).line = AskOf(call'[b]).line
                  PROVE  a = b
      BY DEF Lock, Correction, AskOf
    <2>. HIDE DEF Held
    <2>4. CASE a # c /\ b # c
      <3>1. /\ Correction(call[a]) /\ call[a].pc \in Held
            /\ Correction(call[b]) /\ call[b].pc \in Held
            /\ AskOf(call[a]).line = AskOf(call[b]).line
        BY <2>2, <2>4
      <3>. QED  BY <3>1 DEF Lock
    <2>5. CASE a = c /\ b # c
      BY <2>1, <2>2, <2>3, <2>5
    <2>6. CASE a # c /\ b = c
      BY <2>1, <2>2, <2>3, <2>6
    <2>. QED  BY <2>4, <2>5, <2>6
  <1>5. Unheard'
    <2>. SUFFICES ASSUME NEW b \in Callers, Correction(call'[b]), call'[b].pc \in Finishing,
                         NEW e \in audit', e.kind = "correct", e.response.decision = call'[b].id
                  PROVE  FALSE
      BY DEF Unheard, Correction, AskOf
    <2>1. CASE b = c
      BY <1>1, <2>1 DEF Correction, AskOf
    <2>2. CASE b # c
      <3>1. Correction(call[b]) /\ call[b].pc \in Finishing /\ e.response.decision = call[b].id
        BY <1>1, <2>2 DEF Correction, AskOf
      <3>2. CASE e \in audit
        BY <3>1, <3>2 DEF Unheard
      <3>3. CASE e \notin audit
        <4>1. PICK q \in Call : call[b] = q
          BY CallTyped
        <4>2. q.id[1] = AskOf(q).line /\ q.pc \in Held
          BY <3>1, <4>1 DEF Calls, CallOk, DecisionOk, Finishing, WithDecision, Held
        <4>3. Correction(call[c]) /\ call[c].pc \in Held
              /\ q.id[1] = AskOf(call[c]).line
          BY <3>1, <3>3, <4>1
        <4>4. AskOf(q) = AskOf(call[b])
          BY <4>1
        <4>. QED  BY <2>2, <3>1, <4>1, <4>2, <4>3, <4>4 DEF Lock
      <3>. QED  BY <3>2, <3>3
    <2>. QED  BY <2>1, <2>2
  <1>6. UnseenInv'
    <2>1. Untold(c) = UntoldIn(call[c]) /\ Untold(c)' = UntoldIn(r)
      BY <1>1 DEF Untold, UntoldIn
    <2>2. \A b \in Callers : b # c => Untold(b)' = Untold(b)
      BY <1>1 DEF Untold
    <2>3. \A d \in unseen' \ unseen : Exists(d)' /\ \E b \in Callers : d \in Untold(b)'
      BY <2>1
    <2>4. \A b \in Callers : \A d \in Untold(b) \cap unseen \cap unseen' :
             d \in Untold(b)' \/ Told(d)' \/ SweptAtHome(d)'
      BY <2>1, <2>2
    <2>5. \A w \in Runs : run'[w].pending = run[w].pending
      OBVIOUS
    <2>. QED  BY <2>3, <2>4, <2>5, Unread
  <1>. QED  BY <1>2, <1>3, <1>4, <1>5, <1>6

\* A step of the read w, that changes it to r.
LEMMA ReadMoves ==
    ASSUME TypeOK, TypeOK', Keeps, TasksKept, Calls, Reads, Lock, Unheard, UnseenInv,
           NEW w \in Runs, NEW r \in Run, run' = [run EXCEPT ![w] = r], ReadOk(r)',
           r.pc = "price" => Decided(Line(w))',
           UNCHANGED <<call, audit>>,
           \A d \in unseen' \ unseen : Exists(d)' /\ d \in r.pending,
           \A d \in run[w].pending \cap unseen \cap unseen' : d \in r.pending \/ Told(d)'
    PROVE  Calls' /\ Reads' /\ Lock' /\ Unheard' /\ UnseenInv'
  <1>1. run'[w] = r /\ \A v \in Runs : v # w => run'[v] = run[v]
    BY DEF TypeOK
  <1>2. Calls'
    BY OtherCall DEF Calls
  <1>3. Reads'
    <2>1. ASSUME NEW v \in Runs, v # w
          PROVE  /\ \A q \in Run : run'[v] = q => ReadOk(q)'
                 /\ run'[v].pc = "price" => Decided(Line(v))'
      BY <1>1, <2>1, OtherReads
    <2>2. /\ \A q \in Run : run'[w] = q => ReadOk(q)'
          /\ run'[w].pc = "price" => Decided(Line(w))'
      BY <1>1
    <2>. QED  BY <2>1, <2>2 DEF Reads
  <1>4. Lock' /\ Unheard'
    BY DEF Lock, Unheard
  <1>5. UnseenInv'
    <2>1. \A c \in Callers : Untold(c)' = Untold(c)
      BY DEF Untold
    <2>2. \A d \in unseen' \ unseen : Exists(d)' /\ \E v \in Runs : d \in run'[v].pending
      BY <1>1
    <2>3. \A v \in Runs : \A d \in run[v].pending \cap unseen \cap unseen' :
             d \in run'[v].pending \/ Told(d)'
      BY <1>1
    <2>. QED  BY <2>1, <2>2, <2>3, Unread
  <1>. QED  BY <1>2, <1>3, <1>4, <1>5

\* The tables, when no record, no decision, and no event is added.
LEMMA ReplayStays ==
    ASSUME TypeOK, TypeOK', Keeps, ReplayInv, NEW k \in Keys, replay[k] # None
    PROVE  /\ replay[k] \in DecisionIds /\ replay'[k] = replay[k]
           /\ Exists(replay[k])' /\ replay[k][1] = Asked[k].line
           /\ Asked[k].kind = "resolve" => replay[k][2] = 1 /\ Costed(replay[k])'
  <1>1. PICK d \in DecisionIds : replay[k] = d /\ Exists(d)
    BY DEF ReplayInv, TypeOK
  <1>2. Exists(d)' /\ (Costed(d) => Costed(d)')
    BY <1>1, Stable
  <1>3. replay'[k] = d
    BY <1>1 DEF Keeps
  <1>. QED  BY <1>1, <1>2, <1>3 DEF ReplayInv

LEMMA ChainStays ==
    ASSUME TypeOK, TypeOK', Keeps, ChainInv, NEW l \in Lines, NEW n \in 1..Len(decision[l])
    PROVE  /\ n > 1 => \E k \in Keys : Asked[k].kind = "correct" /\ replay'[k] = <<l, n>>
           /\ decision'[l][n].taught => alias'[TextOf[l]] # None
  <1>1. ASSUME n > 1
        PROVE  \E k \in Keys : Asked[k].kind = "correct" /\ replay'[k] = <<l, n>>
    <2>1. PICK k \in Keys : Asked[k].kind = "correct" /\ replay[k] = <<l, n>>
      BY <1>1 DEF ChainInv
    <2>2. <<l, n>> # None
      BY NoneAssumption, Rows
    <2>. QED  BY <2>1, <2>2 DEF Keeps
  <1>2. ASSUME decision'[l][n].taught
        PROVE  alias'[TextOf[l]] # None
    <2>1. TextOf[l] \in Texts /\ decision'[l][n] = decision[l][n]
      BY DEF Texts, Keeps
    <2>. QED  BY <1>2, <2>1 DEF ChainInv, Keeps
  <1>. QED  BY <1>1, <1>2

LEMMA AuditStays ==
    ASSUME TypeOK, TypeOK', Keeps, AuditInv, NEW e \in audit, e.kind = "correct"
    PROVE  EventOk(e)'
  <1>1. PICK d \in DecisionIds, lines \in SUBSET Lines :
           d = e.response.decision /\ lines = e.response.swept
    BY DEF TypeOK, Event, Response
  <1>2. Given(d) /\ Costed(d) /\ SweptGiven(lines, d[1])
    BY <1>1 DEF AuditInv, EventOk
  <1>3. Given(d)' /\ Costed(d)' /\ SweptGiven(lines, d[1])'
    BY <1>2, Stable, SweptGivenStays DEF Given
  <1>. QED  BY <1>1, <1>3 DEF EventOk

LEMMA ReplayInvStays ==
    ASSUME TypeOK, TypeOK', Keeps, ReplayInv, UNCHANGED replay
    PROVE  ReplayInv'
  BY ReplayStays DEF ReplayInv

LEMMA AuditInvStays ==
    ASSUME TypeOK, TypeOK', Keeps, AuditInv, UNCHANGED audit
    PROVE  AuditInv'
  <1>1. \A e \in audit : e.kind = "correct" => EventOk(e)'
    BY AuditStays
  <1>. QED  BY <1>1 DEF AuditInv

LEMMA ChainInvStays ==
    ASSUME TypeOK, TypeOK', Keeps, ChainInv, UNCHANGED decision
    PROVE  ChainInv'
  BY ChainStays DEF ChainInv

LEMMA TablesStay ==
    ASSUME TypeOK, TypeOK', Keeps, Tables, UNCHANGED <<decision, replay, audit>>
    PROVE  Tables'
  BY ReplayInvStays, ChainInvStays, AuditInvStays DEF Tables
-----------------------------------------------------------------------------
(***************************************************************************)
(* Steps of a call that write no row.                                      *)
(***************************************************************************)
LEMMA QuietMove ==
    ASSUME IInv, NEW c \in Callers, NEW r \in Call, call' = [call EXCEPT ![c] = r],
           UNCHANGED <<rows, jobs, run>>, CallOk(r),
           Correction(r) /\ r.pc \in Held =>
              r.key = call[c].key /\ (call[c].pc \in Held \/ LineFree(c)),
           Correction(r) /\ r.pc \in Finishing =>
              \A e \in audit : e.kind = "correct" => e.response.decision # r.id,
           \A d \in UntoldIn(call[c]) \cap unseen :
              d \in UntoldIn(r) \/ Told(d) \/ SweptAtHome(d)
    PROVE  IInv'
  <1>1. UNCHANGED <<decision, candidate, task, alias, replay, audit, priced, queue, unseen, cut,
                    dropped, failures, run>>
    BY DEF rows, jobs
  <1>2. TypeOK'
    BY <1>1 DEF IInv, TypeOK
  <1>3. Keeps /\ TasksKept
    BY <1>1 DEF IInv, TypeOK, Keeps, TasksKept, Exists, TellsOn, Told, HandedOver, Made
  <1>4. Tables'
    BY <1>1, <1>2, <1>3, TablesStay DEF IInv
  <1>5. CallOk(r)'
    BY <1>2, <1>3, OtherCall DEF IInv
  <1>6. \A d \in UntoldIn(call[c]) \cap unseen \cap unseen' :
           d \in UntoldIn(r) \/ Told(d)' \/ SweptAtHome(d)'
    BY <1>1 DEF Told, HandedOver, SweptAtHome, Row
  <1>7. Calls' /\ Reads' /\ Lock' /\ Unheard' /\ UnseenInv'
    BY <1>1, <1>2, <1>3, <1>5, <1>6, CallMoves DEF IInv
  <1>. QED  BY <1>2, <1>4, <1>7 DEF IInv

LEMMA CallState ==
    ASSUME IInv, NEW c \in Callers
    PROVE  call[c] \in Call /\ \E r \in Call : r = call[c] /\ CallOk(r)
  BY CallTyped DEF IInv, Calls

LEMMA IdleOk == IdleCall \in Call /\ CallOk(IdleCall)
  <1>1. IdleCall \in Call
    BY DEF IdleCall, Call
  <1>2. IdleCall.pc = "idle" /\ IdleCall.key = None /\ IdleCall.pending = {}
    BY DEF IdleCall
  <1>. HIDE DEF IdleCall
  <1>. QED
    BY <1>1, <1>2 DEF CallOk, PlaceOk, DecisionOk, AnswerOk, WordingOk, PendingOk, HandOk,
       WithDecision, FromScan, BeforeSweep, Sweeping, Finishing, Correction, Resolution

\* A call that ends where it has nothing left to tell.
LEMMA EndMove ==
    ASSUME IInv, NEW c \in Callers, End(c), UNCHANGED <<rows, jobs, run>>,
           UntoldIn(call[c]) = {}
    PROVE  IInv'
  <1>1. IdleCall.pc = "idle"
    BY DEF IdleCall
  <1>. QED
    BY <1>1, IdleOk, QuietMove DEF End, Held, Finishing

LEMMA QuietTold ==
    ASSUME IInv, NEW c \in Callers,
           call[c].pc \in {"idle", "answered", "head", "teach", "insert", "close", "audit",
                           "record", "check", "commit", "scan", "reply"}
    PROVE  UntoldIn(call[c]) = {}
  <1>1. PICK q \in Call : q = call[c] /\ CallOk(q)
    BY CallState
  <1>2. q.pending = {}
    BY <1>1 DEF CallOk, PlaceOk, PendingOk, IdleCall
  <1>. QED  BY <1>1, <1>2 DEF UntoldIn

LEMMA SendKeeps ==
    ASSUME IInv, NEW c \in Callers, NEW k \in Keys, Send(c, k)
    PROVE  IInv'
  <1>1. UntoldIn(call[c]) = {} /\ UNCHANGED <<rows, jobs, run>>
    BY QuietTold DEF Send, Quiet
  <1>2. ASSUME NEW pc \in {"check", "head"},
               pc = "check" <=> Asked[k].kind = "correct",
               call' = [call EXCEPT ![c] = [IdleCall EXCEPT !.pc = pc, !.key = k]]
        PROVE  IInv'
    <2>. DEFINE r == [IdleCall EXCEPT !.pc = pc, !.key = k]
    <2>1. r \in Call /\ r.pc = pc /\ r.key = k /\ r.pending = {} /\ ~r.made /\ r.swept = {}
      BY DEF IdleCall, Call
    <2>. HIDE DEF r
    <2>2. k # None /\ Asked[k].kind \in {"resolve", "correct"}
      BY AskedAssumption, NoneAssumption DEF Ask
    <2>3. CallOk(r)
      BY <1>2, <2>1, <2>2 DEF CallOk, PlaceOk, DecisionOk, AnswerOk, WordingOk, PendingOk, HandOk,
         WithDecision, FromScan, BeforeSweep, Sweeping, Finishing, Correction, Resolution, AskOf
    <2>4. r.pc \notin Held /\ r.pc \notin Finishing
      BY <2>1 DEF Held, Finishing
    <2>. QED  BY <1>1, <1>2, <2>1, <2>3, <2>4, QuietMove DEF r
  <1>3. ASSUME Asked[k].kind # "correct", replay[k] # None,
               call' = [call EXCEPT ![c] =
                          [IdleCall EXCEPT !.pc = "reply", !.key = k, !.id = replay[k]]]
        PROVE  IInv'
    <2>. DEFINE r == [IdleCall EXCEPT !.pc = "reply", !.key = k, !.id = replay[k]]
    <2>1. replay[k] \in DecisionIds
      BY <1>3 DEF IInv, TypeOK
    <2>2. /\ r \in Call /\ r.pc = "reply" /\ r.key = k /\ r.pending = {} /\ r.id = replay[k]
          /\ ~r.made
      BY <2>1 DEF IdleCall, Call
    <2>. HIDE DEF r
    <2>3. k # None /\ Asked[k].kind = "resolve"
      BY <1>3, AskedAssumption, NoneAssumption DEF Ask
    <2>4. Exists(r.id) /\ r.id[1] = Asked[k].line /\ Costed(r.id)
      BY <1>3, <2>2, <2>3 DEF IInv, Tables, ReplayInv
    <2>5. CallOk(r)
      BY <1>3, <2>2, <2>3, <2>4
         DEF CallOk, PlaceOk, DecisionOk, AnswerOk, WordingOk, PendingOk, HandOk,
         WithDecision, FromScan, BeforeSweep, Sweeping, Finishing, Correction, Resolution, AskOf
    <2>6. ~Correction(r)
      BY <2>2, <2>3 DEF Correction, AskOf
    <2>. QED  BY <1>1, <1>3, <2>2, <2>5, <2>6, QuietMove DEF r
  <1>. QED  BY <1>2, <1>3 DEF Send, Recorded

LEMMA ReadHeadKeeps ==
    ASSUME IInv, NEW c \in Callers, ReadHead(c)
    PROVE  IInv'
  <1>1. UntoldIn(call[c]) = {} /\ UNCHANGED <<rows, jobs, run>>
    BY QuietTold DEF ReadHead
  <1>2. PICK q \in Call : q = call[c] /\ CallOk(q) /\ q.pc = "head"
    BY CallState DEF ReadHead
  <1>3. /\ q.key # None /\ ~Correction(q) /\ OnLine(c) = AskOf(q).line
        /\ AskOf(q).line \in Lines /\ q.pending = {} /\ ~q.made /\ q.swept = {}
    BY <1>2, CallFacts DEF CallOk, PlaceOk, PendingOk, HandOk, BeforeSweep, OnLine, Of, AskOf
  <1>4. CASE End(c)
    BY <1>1, <1>4, EndMove
  <1>5. CASE Goto(c, "teach")
    <2>. DEFINE r == [q EXCEPT !.pc = "teach"]
    <2>1. /\ r \in Call /\ r.pc = "teach" /\ r.key = q.key /\ r.pending = {}
          /\ ~r.made /\ r.swept = {}
      BY <1>3 DEF Call
    <2>2. call' = [call EXCEPT ![c] = r]
      BY <1>2, <1>5 DEF Goto, IInv, TypeOK
    <2>. HIDE DEF r
    <2>3. ~Correction(r)
      BY <1>3, <2>1 DEF Correction, AskOf
    <2>4. CallOk(r)
      BY <1>3, <2>1, <2>3 DEF CallOk, PlaceOk, DecisionOk, AnswerOk, WordingOk, PendingOk, HandOk,
         WithDecision, FromScan, BeforeSweep, Sweeping, Finishing
    <2>. QED  BY <1>1, <2>1, <2>2, <2>3, <2>4, QuietMove
  <1>6. CASE Decided(OnLine(c)) /\ call' = [call EXCEPT ![c].pc = "close",
                                                        ![c].id = Current(OnLine(c))]
    <2>. DEFINE r == [q EXCEPT !.pc = "close", !.id = Current(OnLine(c))]
    <2>1. Current(OnLine(c)) \in DecisionIds /\ Exists(Current(OnLine(c)))
          /\ Current(OnLine(c))[1] = AskOf(q).line
      BY <1>3, <1>6, Rows DEF IInv, DecisionIds
    <2>2. /\ r \in Call /\ r.pc = "close" /\ r.key = q.key /\ r.pending = {}
          /\ r.id = Current(OnLine(c)) /\ ~r.made /\ r.swept = {}
      BY <1>3, <2>1 DEF Call
    <2>3. call' = [call EXCEPT ![c] = r]
      BY <1>2, <1>6 DEF IInv, TypeOK, Call
    <2>. HIDE DEF r
    <2>4. ~Correction(r) /\ AskOf(r) = AskOf(q)
      BY <1>3, <2>2 DEF Correction, AskOf
    <2>5. r.id # None
      BY <2>1, <2>2, NoneAssumption DEF DecisionIds
    <2>6. CallOk(r)
      BY <1>3, <2>1, <2>2, <2>4, <2>5
         DEF CallOk, PlaceOk, DecisionOk, AnswerOk, WordingOk, PendingOk, HandOk,
         WithDecision, FromScan, BeforeSweep, Sweeping, Finishing
    <2>. QED  BY <1>1, <2>2, <2>3, <2>4, <2>6, QuietMove
  <1>. QED  BY <1>4, <1>5, <1>6 DEF ReadHead

LEMMA FinishKeeps ==
    ASSUME IInv, NEW c \in Callers, Finish(c)
    PROVE  IInv'
  <1>1. LineFree(c) /\ UNCHANGED <<rows, jobs, run>>
    BY DEF Finish
  <1>2. PICK q \in Call : q = call[c] /\ CallOk(q) /\ q.pc = "relock"
    BY CallState DEF Finish
  <1>3. /\ Correction(q) /\ q.key # None /\ q.pending \subseteq {q.id} /\ q.id # None
        /\ q.id \in DecisionIds /\ Exists(q.id) /\ q.id[1] = AskOf(q).line
        /\ replay[q.key] = q.id /\ q.swept = {}
    BY <1>2, CallFacts
       DEF CallOk, PlaceOk, PendingOk, HandOk, BeforeSweep, DecisionOk, WithDecision
  <1>4. ASSUME NEW e \in audit, e.kind = "correct", e.response.decision = q.id,
               call' = [call EXCEPT ![c] = [@ EXCEPT !.pc = "reply", !.pending = {},
                          !.learned = e.response.learned, !.swept = e.response.swept]]
        PROVE  IInv'
    <2>. DEFINE r == [q EXCEPT !.pc = "reply", !.pending = {}, !.learned = e.response.learned,
                               !.swept = e.response.swept]
    <2>1. e.response \in Response
      BY <1>4 DEF IInv, TypeOK, Event
    <2>2. /\ r \in Call /\ r.pc = "reply" /\ r.key = q.key /\ r.pending = {} /\ r.id = q.id
          /\ r.learned = e.response.learned /\ r.swept = e.response.swept
      BY <2>1 DEF Call, Response
    <2>3. call' = [call EXCEPT ![c] = r]
      BY <1>2, <1>4 DEF IInv, TypeOK, Call
    <2>. HIDE DEF r
    <2>4. e.response = [decision |-> r.id, learned |-> r.learned, swept |-> r.swept]
      BY <1>4, <2>1, <2>2 DEF Response
    <2>5. Costed(q.id) /\ Told(q.id) /\ HandedOver(q.id) /\ SweptGiven(r.swept, AskOf(q).line)
      BY <1>3, <1>4, <2>2 DEF IInv, Tables, AuditInv, EventOk, Given, Told
    <2>6. Correction(r) /\ ~Resolution(r) /\ AskOf(r) = AskOf(q)
      BY <1>3, <2>2 DEF Correction, Resolution, AskOf
    <2>7. CallOk(r)
      BY <1>3, <1>4, <2>2, <2>4, <2>5, <2>6
         DEF CallOk, PlaceOk, DecisionOk, AnswerOk, WordingOk, PendingOk, HandOk,
         WithDecision, FromScan, BeforeSweep, Sweeping, Finishing
    <2>8. \A d \in UntoldIn(call[c]) : Told(d)
      BY <1>2, <1>3, <2>5 DEF UntoldIn
    <2>9. r.pc \notin Finishing /\ r.key = call[c].key
      BY <1>2, <2>2 DEF Finishing
    <2>. QED  BY <1>1, <2>2, <2>3, <2>7, <2>8, <2>9, QuietMove
  <1>5. ASSUME ~Audited("correct", q.id), NEW lines \in SUBSET Lines,
               call' = [call EXCEPT ![c].pc = "price", ![c].learned = lines]
        PROVE  IInv'
    <2>. DEFINE r == [q EXCEPT !.pc = "price", !.learned = lines]
    <2>1. /\ r \in Call /\ r.pc = "price" /\ r.key = q.key /\ r.pending = q.pending
          /\ r.id = q.id /\ r.swept = {}
      BY <1>3 DEF Call
    <2>2. call' = [call EXCEPT ![c] = r]
      BY <1>2, <1>5 DEF IInv, TypeOK, Call
    <2>. HIDE DEF r
    <2>3. Correction(r) /\ ~Resolution(r) /\ AskOf(r) = AskOf(q)
      BY <1>3, <2>1 DEF Correction, Resolution, AskOf
    <2>4. CallOk(r)
      BY <1>3, <2>1, <2>3
         DEF CallOk, PlaceOk, DecisionOk, AnswerOk, WordingOk, PendingOk, HandOk,
         WithDecision, FromScan, BeforeSweep, Sweeping, Finishing
    <2>5. UntoldIn(call[c]) \subseteq UntoldIn(r)
      BY <1>2, <2>1 DEF UntoldIn
    <2>6. \A e \in audit : e.kind = "correct" => e.response.decision # r.id
      BY <1>5, <2>1 DEF Audited
    <2>. QED  BY <1>1, <1>2, <2>1, <2>2, <2>4, <2>5, <2>6, QuietMove
  <1>6. LearnedFrom(<<q.id[1], q.id[2] - 1>>) \subseteq Lines
    BY DEF LearnedFrom
  <1>. QED  BY <1>2, <1>4, <1>5, <1>6 DEF Finish

LEMMA ScanKeeps ==
    ASSUME IInv, NEW c \in Callers, Scan(c)
    PROVE  IInv'
  <1>1. UNCHANGED <<rows, jobs, run>>
    BY DEF Scan
  <1>2. PICK q \in Call : q = call[c] /\ CallOk(q) /\ q.pc = "scan"
    BY CallState DEF Scan
  <1>3. /\ q.key # None /\ q.pending = {} /\ q.id # None
        /\ q.id \in DecisionIds /\ Exists(q.id) /\ q.id[1] = AskOf(q).line
        /\ replay[q.key] = q.id /\ Costed(q.id)
        /\ Correction(q) \/ q.made => HandedOver(q.id)
        /\ q.swept = {} /\ (Correction(q) <=> ~Resolution(q))
    BY <1>2, CallFacts
       DEF CallOk, PlaceOk, PendingOk, HandOk, BeforeSweep, DecisionOk, WithDecision, FromScan,
       Finishing
  <1>4. PICK lines \in SUBSET Lines :
           /\ call' = [call EXCEPT ![c].pc = "sweep", ![c].todo = lines]
           /\ \A l \in lines : Row(q.id).taught /\ TextOf[l] = TextOf[OnLine(c)]
    <2>. DEFINE T == IF ~Row(q.id).taught THEN {}
                     ELSE {l \in Lines : /\ task[l] = "open" /\ ~Decided(l)
                                         /\ TextOf[l] = TextOf[OnLine(c)]}
    <2>1. T \in SUBSET Lines
          /\ \A l \in T : Row(q.id).taught /\ TextOf[l] = TextOf[OnLine(c)]
      OBVIOUS
    <2>2. call' = [call EXCEPT ![c].pc = "sweep", ![c].todo = T]
      BY <1>2 DEF Scan
    <2>. HIDE DEF T
    <2>. QED  BY <2>1, <2>2
  <1>. DEFINE r == [q EXCEPT !.pc = "sweep", !.todo = lines]
  <1>5. /\ r \in Call /\ r.pc = "sweep" /\ r.key = q.key /\ r.pending = {}
        /\ r.id = q.id /\ r.todo = lines /\ r.made = q.made /\ r.swept = {}
    BY <1>3 DEF Call
  <1>6. call' = [call EXCEPT ![c] = r]
    BY <1>2, <1>4 DEF IInv, TypeOK, Call
  <1>. HIDE DEF r
  <1>7. /\ Correction(r) <=> Correction(q)
        /\ Resolution(r) <=> Resolution(q)
        /\ AskOf(r) = AskOf(q)
    BY <1>5 DEF Correction, Resolution, AskOf
  <1>8. \A l \in lines : alias[TextOf[l]] # None
    <2>1. OnLine(c) = q.id[1]
      BY <1>2, <1>3 DEF OnLine, Of, AskOf
    <2>2. Row(q.id).taught => alias[TextOf[q.id[1]]] # None
      BY <1>3 DEF IInv, Tables, ChainInv, Exists, Row
    <2>. QED  BY <1>4, <2>1, <2>2
  <1>9. CallOk(r)
    BY <1>3, <1>5, <1>7, <1>8
       DEF CallOk, PlaceOk, DecisionOk, AnswerOk, WordingOk, PendingOk, HandOk,
       WithDecision, FromScan, BeforeSweep, Sweeping, Finishing
  <1>10. UntoldIn(call[c]) = {}
    BY <1>2, QuietTold
  <1>11. Correction(r) => \A e \in audit : e.kind = "correct" => e.response.decision # r.id
    BY <1>2, <1>5, <1>7 DEF IInv, Unheard, Finishing
  <1>12. call[c].pc \in Held /\ r.key = call[c].key
    BY <1>2, <1>5 DEF Held
  <1>. QED  BY <1>1, <1>5, <1>6, <1>9, <1>10, <1>11, <1>12, QuietMove

LEMMA ReplyKeeps ==
    ASSUME IInv, NEW c \in Callers, Reply(c)
    PROVE  IInv'
  <1>1. UNCHANGED <<rows, jobs, run>>
    BY DEF Reply
  <1>2. PICK q \in Call : q = call[c] /\ CallOk(q) /\ q.pc = "reply"
    BY CallState DEF Reply
  <1>3. /\ q.key # None /\ q.id # None
        /\ Exists(q.id) /\ q.id[1] = AskOf(q).line
        /\ replay[q.key] = q.id /\ Costed(q.id)
        /\ Correction(q) \/ q.made =>
              HandedOver(q.id) /\ SweptGiven(q.swept, AskOf(q).line)
    BY <1>2, CallFacts DEF CallOk, PlaceOk, DecisionOk, HandOk, WithDecision, FromScan
  <1>4. LinesIn(Learned(q.id)) \subseteq Lines
    BY MadeExist DEF LinesIn, Learned, Exists
  <1>5. PICK lines \in SUBSET Lines :
           /\ call' = [call EXCEPT ![c] =
                         [IdleCall EXCEPT !.pc = "answered", !.key = q.key, !.id = q.id,
                            !.made = q.made, !.learned = q.learned, !.swept = lines]]
           /\ Correction(q) \/ q.made => lines = q.swept
    <2>1. q.swept \in SUBSET Lines
      BY DEF Call
    <2>2. Correction(q) => Kind(c) # "resolve"
      BY <1>2 DEF Correction, AskOf, Kind, Of
    <2>. DEFINE T == IF Kind(c) = "resolve" /\ ~q.made THEN LinesIn(Learned(q.id)) ELSE q.swept
    <2>3. T \in SUBSET Lines /\ (Correction(q) \/ q.made => T = q.swept)
      BY <1>4, <2>1, <2>2
    <2>4. call' = [call EXCEPT ![c] =
                     [IdleCall EXCEPT !.pc = "answered", !.key = q.key, !.id = q.id,
                        !.made = q.made, !.learned = q.learned, !.swept = T]]
      BY <1>2 DEF Reply
    <2>. HIDE DEF T
    <2>. QED  BY <2>3, <2>4
  <1>. DEFINE r == [IdleCall EXCEPT !.pc = "answered", !.key = q.key, !.id = q.id,
                            !.made = q.made, !.learned = q.learned, !.swept = lines]
  <1>6. /\ r \in Call /\ r.pc = "answered" /\ r.key = q.key /\ r.pending = {}
        /\ r.id = q.id /\ r.made = q.made /\ r.learned = q.learned /\ r.swept = lines
    BY DEF Call, IdleCall
  <1>7. call' = [call EXCEPT ![c] = r]
    BY <1>5
  <1>. HIDE DEF r
  <1>8. /\ Correction(r) <=> Correction(q)
        /\ Resolution(r) <=> Resolution(q)
        /\ AskOf(r) = AskOf(q)
    BY <1>6 DEF Correction, Resolution, AskOf
  <1>9. AnswerOk(r)
    BY <1>2, <1>5, <1>6, <1>8 DEF CallOk, AnswerOk
  <1>10. CallOk(r)
    BY <1>3, <1>5, <1>6, <1>8, <1>9
       DEF CallOk, PlaceOk, DecisionOk, WordingOk, PendingOk, HandOk,
       WithDecision, FromScan, BeforeSweep, Sweeping, Finishing
  <1>11. UntoldIn(call[c]) = {}
    BY <1>2, QuietTold
  <1>12. r.pc \notin Held /\ r.pc \notin Finishing
    BY <1>6 DEF Held, Finishing
  <1>. QED  BY <1>1, <1>6, <1>7, <1>10, <1>11, <1>12, QuietMove
-----------------------------------------------------------------------------
(***************************************************************************)
(* Steps of a call that teach, tell, price or close, and add no decision,  *)
(* record or event.                                                        *)
(***************************************************************************)
LEMMA TableMove ==
    ASSUME IInv, TypeOK', Keeps, TasksKept,
           NEW c \in Callers, NEW r \in Call, call' = [call EXCEPT ![c] = r], CallOk(r)',
           UNCHANGED <<decision, replay, audit, unseen, run>>,
           Correction(r) /\ r.pc \in Held =>
              r.key = call[c].key /\ (call[c].pc \in Held \/ LineFree(c)),
           Correction(r) /\ r.pc \in Finishing =>
              \A e \in audit : e.kind = "correct" => e.response.decision # r.id,
           \A d \in UntoldIn(call[c]) :
              d \in UntoldIn(r) \/ Told(d)' \/ SweptAtHome(d)'
    PROVE  IInv'
  <1>1. Tables'
    BY TablesStay DEF IInv
  <1>2. Calls' /\ Reads' /\ Lock' /\ Unheard' /\ UnseenInv'
    BY CallMoves DEF IInv
  <1>. QED  BY <1>1, <1>2 DEF IInv

\* While a correction holds the lock, nobody reports it.
LEMMA StillUnheard ==
    ASSUME IInv, NEW c \in Callers, Correction(call[c]), call[c].pc \in Finishing
    PROVE  \A e \in audit : e.kind = "correct" => e.response.decision # call[c].id
  BY DEF IInv, Unheard

LEMMA EnqueueTells ==
    ASSUME TypeOK, NEW ids \in SUBSET DecisionIds, Enqueue(ids), UNCHANGED unseen
    PROVE  /\ queue' \subseteq Quotations /\ cut' \cup dropped' \subseteq DecisionIds
           /\ failures' \in 0..MaxFailures
           /\ TellsOn
           /\ \A d \in ids : HandedOver(d)'
  <1>. cut' = cut \ ids
    BY DEF Enqueue
  <1>1. CASE queue' = queue \cup QuotationsOf(ids) /\ dropped' = dropped \ ids
             /\ UNCHANGED failures
    <2>1. QuotationsOf(ids) \subseteq Quotations
      BY LinesAssumption DEF QuotationsOf, DecisionIds
    <2>2. \A d \in ids : QuotationOf[d[1]] \in queue'
      BY <1>1 DEF QuotationsOf
    <2>. QED  BY <1>1, <2>1, <2>2 DEF TypeOK, TellsOn, Told, HandedOver
  <1>2. CASE Fails /\ dropped' = dropped \cup (ids \cap unseen) /\ UNCHANGED queue
    BY <1>2, NoneAssumption DEF Fails, TypeOK, TellsOn, Told, HandedOver
  <1>. QED  BY <1>1, <1>2 DEF Enqueue

LEMMA CutOffTells ==
    ASSUME TypeOK, NEW ids \in SUBSET DecisionIds, CutOff(ids), UNCHANGED <<queue, unseen>>
    PROVE  /\ cut' \cup dropped' \subseteq DecisionIds /\ failures' \in 0..MaxFailures
           /\ TellsOn
           /\ \A d \in ids : Told(d)'
  BY NoneAssumption DEF CutOff, Fails, TypeOK, TellsOn, Told, HandedOver

\* Teaching never gives a wording another meaning.
LEMMA TeachKeeps ==
    ASSUME TypeOK, NEW c \in Callers, NEW q \in Call, q = call[c], q.key # None,
           CanTeach(c), Teach(c)
    PROVE  /\ alias' \in [Texts -> Products \cup {None}]
           /\ \A x \in Texts : alias[x] # None => alias'[x] = alias[x]
           /\ alias'[TextAt(q)] # None
  <1>1. TextOf[OnLine(c)] = TextAt(q) /\ TextAt(q) \in Texts /\ Of(c).product \in Products
    BY CallFacts DEF OnLine, Of, TextAt, AskOf
  <1>2. Of(c).product # None
    BY <1>1, NoneAssumption
  <1>. QED  BY <1>1, <1>2 DEF TypeOK, CanTeach, Teach

LEMMA TeachFirstKeeps ==
    ASSUME IInv, NEW c \in Callers, TeachFirst(c)
    PROVE  IInv'
  <1>1. UntoldIn(call[c]) = {}
    BY QuietTold DEF TeachFirst
  <1>2. PICK q \in Call : q = call[c] /\ CallOk(q) /\ q.pc = "teach"
    BY CallState DEF TeachFirst
  <1>3. q.key # None /\ ~Correction(q) /\ q.pending = {} /\ ~q.made /\ q.swept = {}
    BY <1>2, CallFacts DEF CallOk, PlaceOk, PendingOk, HandOk, BeforeSweep
  <1>4. CASE End(c) /\ UNCHANGED alias
    BY <1>1, <1>4, EndMove DEF TeachFirst, rows
  <1>5. CASE CanTeach(c) /\ Teach(c) /\ Goto(c, "insert")
    <2>. DEFINE r == [q EXCEPT !.pc = "insert"]
    <2>1. /\ r \in Call /\ r.pc = "insert" /\ r.key = q.key /\ r.pending = {}
          /\ ~r.made /\ r.swept = {}
      BY <1>3 DEF Call
    <2>2. call' = [call EXCEPT ![c] = r]
      BY <1>2, <1>5 DEF Goto, IInv, TypeOK
    <2>. HIDE DEF r
    <2>3. /\ alias' \in [Texts -> Products \cup {None}]
          /\ \A x \in Texts : alias[x] # None => alias'[x] = alias[x]
          /\ alias'[TextAt(q)] # None
      BY <1>2, <1>3, <1>5, TeachKeeps DEF IInv
    <2>4. UNCHANGED <<decision, candidate, task, replay, audit, priced, jobs, run>>
      BY DEF TeachFirst
    <2>5. TypeOK'
      BY <2>1, <2>2, <2>3, <2>4 DEF IInv, TypeOK, jobs
    <2>6. Keeps /\ TasksKept
      BY <2>3, <2>4 DEF IInv, TypeOK, Keeps, TasksKept, Exists, TellsOn, Told, HandedOver, jobs
    <2>7. CallOk(r)'
      BY <1>3, <2>1, <2>3
         DEF CallOk, PlaceOk, DecisionOk, AnswerOk, WordingOk, PendingOk, HandOk,
         WithDecision, FromScan, BeforeSweep, Sweeping, Finishing, Correction, Resolution, AskOf,
         TextAt
    <2>8. r.pc \notin Held /\ r.pc \notin Finishing
      BY <2>1 DEF Held, Finishing
    <2>. QED  BY <1>1, <2>1, <2>2, <2>4, <2>5, <2>6, <2>7, <2>8, TableMove DEF jobs
  <1>. QED  BY <1>4, <1>5 DEF TeachFirst

LEMMA TellKeeps ==
    ASSUME IInv, NEW c \in Callers, Tell(c)
    PROVE  IInv'
  <1>1. PICK q \in Call : q = call[c] /\ CallOk(q) /\ q.pc = "tell"
    BY CallState DEF Tell
  <1>2. /\ q.id # None /\ q.id \in DecisionIds /\ q.key # None
        /\ Exists(q.id) /\ q.id[1] = AskOf(q).line
        /\ Correction(q) => replay[q.key] = q.id /\ Costed(q.id)
        /\ q.swept = {}
    BY <1>1, CallFacts DEF CallOk, PlaceOk, DecisionOk, HandOk, BeforeSweep, WithDecision
  <1>3. /\ queue' \subseteq Quotations /\ cut' \cup dropped' \subseteq DecisionIds
        /\ failures' \in 0..MaxFailures
        /\ TellsOn
        /\ HandedOver(q.id)' /\ Told(q.id)'
    BY <1>1, <1>2, EnqueueTells DEF Tell, IInv, Told
  <1>. DEFINE r == [q EXCEPT !.pc = IF Correction(q) THEN "scan" ELSE "close", !.pending = {}]
  <1>4. AfterTelling[Kind(c)] = IF Correction(q) THEN "scan" ELSE "close"
    <2>1. Kind(c) = AskOf(q).kind /\ AskOf(q).kind \in {"resolve", "correct"}
      BY <1>1, <1>2, CallFacts DEF Kind, Of, AskOf
    <2>. QED  BY <1>2, <2>1 DEF AfterTelling, Correction
  <1>5. /\ r \in Call /\ r.pending = {} /\ r.key = q.key /\ r.id = q.id /\ r.swept = {}
        /\ r.pc = IF Correction(q) THEN "scan" ELSE "close"
    BY <1>2 DEF Call
  <1>6. call' = [call EXCEPT ![c] = r]
    BY <1>1, <1>4 DEF Tell, IInv, TypeOK, Call
  <1>. HIDE DEF r
  <1>7. UNCHANGED <<decision, candidate, task, alias, replay, audit, priced, unseen, run>>
    BY DEF Tell, rows
  <1>8. TypeOK'
    BY <1>3, <1>5, <1>6, <1>7 DEF IInv, TypeOK
  <1>9. Keeps /\ TasksKept
    BY <1>3, <1>7 DEF IInv, TypeOK, Keeps, TasksKept
  <1>10. Exists(q.id)' /\ (Costed(q.id) => Costed(q.id)')
    BY <1>2, <1>8, <1>9, Stable DEF IInv
  <1>11. Correction(q) => replay'[q.key] = q.id /\ Costed(q.id)'
    BY <1>2, <1>7, <1>10
  <1>12. CallOk(r)'
    <2>1. AskOf(r) = AskOf(q) /\ (Correction(r) <=> Correction(q))
      BY <1>5 DEF Correction, AskOf
    <2>2. CASE Correction(q)
      <3>1. r.pc = "scan" /\ AskOf(r).kind = "correct"
        BY <1>5, <2>1, <2>2 DEF Correction
      <3>. QED
        BY <1>2, <1>3, <1>5, <1>10, <1>11, <2>2, <3>1
           DEF CallOk, PlaceOk, DecisionOk, AnswerOk, WordingOk, PendingOk, HandOk,
           WithDecision, FromScan, BeforeSweep, Sweeping, Finishing, Correction, Resolution, AskOf
    <2>3. CASE ~Correction(q)
      <3>1. r.pc = "close" /\ AskOf(r).kind # "correct"
        BY <1>2, <1>5, <2>1, <2>3 DEF Correction
      <3>. QED
        BY <1>2, <1>3, <1>5, <1>10, <3>1
           DEF CallOk, PlaceOk, DecisionOk, AnswerOk, WordingOk, PendingOk, HandOk,
           WithDecision, FromScan, BeforeSweep, Sweeping, Finishing, Correction, Resolution, AskOf
    <2>. QED  BY <2>2, <2>3
  <1>13. \A d \in UntoldIn(call[c]) :
            d \in UntoldIn(r) \/ Told(d)' \/ SweptAtHome(d)'
    BY <1>1, <1>3 DEF UntoldIn, CallOk, PendingOk
  <1>14. Correction(r) /\ r.pc \in Held =>
            r.key = call[c].key /\ (call[c].pc \in Held \/ LineFree(c))
    BY <1>1, <1>5 DEF Held
  <1>15. Correction(r) /\ r.pc \in Finishing =>
            \A e \in audit : e.kind = "correct" => e.response.decision # r.id
    BY <1>1, <1>5, StillUnheard DEF Finishing, Correction, AskOf
  <1>16. r \in Call
    BY <1>5
  <1>. QED
    BY <1>6, <1>7, <1>8, <1>9, <1>12, <1>13, <1>14, <1>15, <1>16, TableMove

LEMMA CloseKeeps ==
    ASSUME IInv, NEW c \in Callers, Close(c)
    PROVE  IInv'
  <1>1. PICK q \in Call : q = call[c] /\ CallOk(q) /\ q.pc = "close"
    BY CallState DEF Close
  <1>2. /\ q.id # None /\ q.id \in DecisionIds /\ q.key # None /\ ~Correction(q)
        /\ Exists(q.id) /\ q.id[1] = AskOf(q).line /\ q.pending = {}
        /\ q.swept = {} /\ Resolution(q) /\ (q.made => HandedOver(q.id))
    BY <1>1, CallFacts
       DEF CallOk, PlaceOk, DecisionOk, PendingOk, HandOk, BeforeSweep, WithDecision
  <1>. DEFINE r == [q EXCEPT !.pc = "audit"]
  <1>3. /\ r \in Call /\ r.pending = {} /\ r.key = q.key /\ r.id = q.id /\ r.pc = "audit"
        /\ r.made = q.made /\ r.swept = {}
    BY <1>2 DEF Call
  <1>4. call' = [call EXCEPT ![c] = r]
    BY <1>1 DEF Close, Goto, IInv, TypeOK
  <1>. HIDE DEF r
  <1>5. OnLine(c) = AskOf(q).line
    BY <1>1 DEF OnLine, Of, AskOf
  <1>6. UNCHANGED <<decision, candidate, alias, replay, audit, priced, queue, unseen, cut,
                    dropped, failures, run>>
    BY DEF Close, jobs
  <1>7. /\ task' \in [Lines -> {"none", "open", "resolved"}]
        /\ \A l \in Lines : l # OnLine(c) => task'[l] = task[l]
    BY DEF IInv, TypeOK, Close, CloseTask
  <1>8. TypeOK'
    BY <1>3, <1>4, <1>6, <1>7 DEF IInv, TypeOK
  <1>9. Keeps /\ TasksKept
    <2>1. Decided(OnLine(c))
      BY <1>2, <1>5, Ids DEF IInv
    <2>2. \A l \in Lines : Decided(l)' <=> Decided(l)
      BY <1>6 DEF Decided
    <2>3. TasksKept
      BY <1>7, <2>1, <2>2 DEF TasksKept
    <2>4. Keeps
      BY <1>6 DEF IInv, TypeOK, Keeps, Exists, TellsOn, Told, HandedOver
    <2>. QED  BY <2>3, <2>4
  <1>10. Exists(q.id)' /\ (HandedOver(q.id) => HandedOver(q.id)')
    BY <1>2, <1>8, <1>9, Stable DEF IInv, Given
  <1>11. CallOk(r)'
    BY <1>2, <1>3, <1>10
       DEF CallOk, PlaceOk, DecisionOk, AnswerOk, WordingOk, PendingOk, HandOk,
       WithDecision, FromScan, BeforeSweep, Sweeping, Finishing, Correction, Resolution, AskOf
  <1>12. UntoldIn(call[c]) = {}
    BY <1>1, QuietTold
  <1>13. ~Correction(r)
    BY <1>2, <1>3 DEF Correction, AskOf
  <1>. QED
    BY <1>3, <1>4, <1>6, <1>8, <1>9, <1>11, <1>12, <1>13, TableMove

LEMMA PriceTyped ==
    ASSUME TypeOK, NEW l \in Lines, Price(l)
    PROVE  priced' \subseteq DecisionIds /\ priced \subseteq priced'
  <1>1. Current(l) \in DecisionIds
    BY Rows DEF DecisionIds
  <1>. QED  BY <1>1 DEF Price, TypeOK

LEMMA PriceLineKeeps ==
    ASSUME IInv, NEW c \in Callers, PriceLine(c)
    PROVE  IInv'
  <1>1. PICK q \in Call : q = call[c] /\ CallOk(q) /\ q.pc = "price"
    BY CallState DEF PriceLine
  <1>2. /\ q.id # None /\ q.id \in DecisionIds /\ q.key # None
        /\ Exists(q.id) /\ q.id[1] = AskOf(q).line /\ AskOf(q).line \in Lines
        /\ Correction(q) => replay[q.key] = q.id
        /\ q.pending \subseteq {q.id} /\ (~Correction(q) => q.pending = {})
        /\ Correction(q) <=> ~Resolution(q)
        /\ q.swept = {} /\ (Resolution(q) /\ q.made => HandedOver(q.id))
    BY <1>1, CallFacts
       DEF CallOk, PlaceOk, DecisionOk, PendingOk, HandOk, BeforeSweep, WithDecision
  <1>3. AfterPrice[Kind(c)] = IF Correction(q) THEN "tell" ELSE "record"
    <2>1. Kind(c) = AskOf(q).kind /\ AskOf(q).kind \in {"resolve", "correct"}
      BY <1>1, <1>2, CallFacts DEF Kind, Of, AskOf
    <2>. QED  BY <1>2, <2>1 DEF AfterPrice, Correction
  <1>. DEFINE r == [q EXCEPT !.pc = IF Correction(q) THEN "tell" ELSE "record"]
  <1>4. /\ r \in Call /\ r.pending = q.pending /\ r.key = q.key /\ r.id = q.id
        /\ r.pc = IF Correction(q) THEN "tell" ELSE "record"
        /\ r.made = q.made /\ r.swept = {}
    BY <1>2 DEF Call
  <1>5. call' = [call EXCEPT ![c] = r]
    BY <1>1, <1>3 DEF PriceLine, Goto, IInv, TypeOK, Call
  <1>. HIDE DEF r
  <1>6. UNCHANGED <<decision, candidate, task, alias, replay, audit, queue, unseen, cut, dropped,
                    failures, run>>
    BY DEF PriceLine, jobs
  <1>7. OnLine(c) = AskOf(q).line
    BY <1>1 DEF OnLine, Of, AskOf
  <1>8. /\ priced' \subseteq DecisionIds /\ priced \subseteq priced'
        /\ Current(AskOf(q).line) \in priced'
    BY <1>2, <1>7, PriceTyped DEF PriceLine, Price, IInv
  <1>9. TypeOK'
    BY <1>4, <1>5, <1>6, <1>8 DEF IInv, TypeOK
  <1>10. Keeps /\ TasksKept
    BY <1>6, <1>8 DEF IInv, TypeOK, Keeps, TasksKept, Exists, TellsOn, Told, HandedOver
  <1>11. Exists(q.id)' /\ Costed(q.id)' /\ (HandedOver(q.id) => HandedOver(q.id)')
    <2>1. Exists(q.id)' /\ (HandedOver(q.id) => HandedOver(q.id)')
      BY <1>2, <1>9, <1>10, Stable DEF IInv, Given
    <2>2. Current(q.id[1])' = Current(q.id[1])
      BY <1>6 DEF Current
    <2>. QED  BY <1>2, <1>8, <2>1, <2>2 DEF Costed
  <1>12. CallOk(r)'
    <2>1. AskOf(r) = AskOf(q) /\ (Correction(r) <=> Correction(q))
      BY <1>4 DEF Correction, AskOf
    <2>2. CASE Correction(q)
      <3>1. r.pc = "tell" /\ AskOf(r).kind = "correct"
        BY <1>4, <2>1, <2>2 DEF Correction
      <3>. QED
        BY <1>2, <1>4, <1>6, <1>11, <2>2, <3>1
           DEF CallOk, PlaceOk, DecisionOk, AnswerOk, WordingOk, PendingOk, HandOk,
           WithDecision, FromScan, BeforeSweep, Sweeping, Finishing, Correction, Resolution, AskOf
    <2>3. CASE ~Correction(q)
      <3>1. r.pc = "record" /\ AskOf(r).kind # "correct" /\ r.pending = {}
        BY <1>2, <1>4, <2>1, <2>3 DEF Correction
      <3>. QED
        BY <1>2, <1>4, <1>11, <3>1
           DEF CallOk, PlaceOk, DecisionOk, AnswerOk, WordingOk, PendingOk, HandOk,
           WithDecision, FromScan, BeforeSweep, Sweeping, Finishing, Correction, Resolution, AskOf
    <2>. QED  BY <2>2, <2>3
  <1>13. \A d \in UntoldIn(call[c]) :
            d \in UntoldIn(r) \/ Told(d)' \/ SweptAtHome(d)'
    BY <1>1, <1>4 DEF UntoldIn
  <1>14. Correction(r) /\ r.pc \in Held =>
            r.key = call[c].key /\ (call[c].pc \in Held \/ LineFree(c))
    BY <1>1, <1>4 DEF Held
  <1>15. Correction(r) /\ r.pc \in Finishing =>
            \A e \in audit : e.kind = "correct" => e.response.decision # r.id
    BY <1>1, <1>4, StillUnheard DEF Finishing, Correction, AskOf
  <1>16. r \in Call
    BY <1>4
  <1>. QED
    BY <1>5, <1>6, <1>9, <1>10, <1>12, <1>13, <1>14, <1>15, <1>16, TableMove

LEMMA CheckKeeps ==
    ASSUME IInv, NEW c \in Callers, Check(c)
    PROVE  IInv'
  <1>1. UntoldIn(call[c]) = {} /\ LineFree(c)
        /\ UNCHANGED <<decision, candidate, task, replay, audit, priced, jobs, run>>
    BY QuietTold DEF Check
  <1>2. PICK q \in Call : q = call[c] /\ CallOk(q) /\ q.pc = "check"
    BY CallState DEF Check
  <1>3. /\ q.key # None /\ q.key \in Keys /\ Correction(q) /\ ~Resolution(q)
        /\ q.pending = {} /\ q.swept = {}
    BY <1>2, CallFacts DEF CallOk, PlaceOk, PendingOk, HandOk, BeforeSweep
  <1>4. CASE End(c) /\ UNCHANGED alias
    BY <1>1, <1>4, EndMove DEF rows
  <1>5. CASE /\ replay[q.key] # None /\ UNCHANGED alias
             /\ call' = [call EXCEPT ![c].pc = "relock", ![c].id = replay[q.key]]
    <2>1. PICK d \in DecisionIds : d = replay[q.key]
      BY <1>3, <1>5 DEF IInv, TypeOK
    <2>. DEFINE r == [q EXCEPT !.pc = "relock", !.id = d]
    <2>2. /\ r \in Call /\ r.pc = "relock" /\ r.key = q.key /\ r.pending = {} /\ r.id = d
          /\ r.swept = {}
      BY <1>3 DEF Call
    <2>3. call' = [call EXCEPT ![c] = r]
      BY <1>2, <1>5, <2>1 DEF IInv, TypeOK, Call
    <2>. HIDE DEF r
    <2>4. d # None /\ Exists(d) /\ d[1] = AskOf(q).line
      BY <1>3, <1>5, <2>1 DEF IInv, Tables, ReplayInv, AskOf
    <2>5. Correction(r) /\ ~Resolution(r) /\ AskOf(r) = AskOf(q)
      BY <1>3, <2>2 DEF Correction, Resolution, AskOf
    <2>6. CallOk(r)
      BY <1>3, <2>1, <2>2, <2>4, <2>5
         DEF CallOk, PlaceOk, DecisionOk, AnswerOk, WordingOk, PendingOk, HandOk,
         WithDecision, FromScan, BeforeSweep, Sweeping, Finishing
    <2>7. r.pc \notin Held /\ r.pc \notin Finishing
      BY <2>2 DEF Held, Finishing
    <2>8. UNCHANGED <<rows, jobs, run>>
      BY <1>1, <1>5 DEF rows
    <2>. QED  BY <1>1, <2>2, <2>3, <2>6, <2>7, <2>8, QuietMove
  <1>6. ASSUME NEW teaches \in BOOLEAN, teaches => CanTeach(c),
               IF teaches THEN Teach(c) ELSE UNCHANGED alias,
               call' = [call EXCEPT ![c].pc = "commit", ![c].aliased = teaches]
        PROVE  IInv'
    <2>. DEFINE r == [q EXCEPT !.pc = "commit", !.aliased = teaches]
    <2>1. /\ r \in Call /\ r.pc = "commit" /\ r.key = q.key /\ r.pending = {}
          /\ r.aliased = teaches /\ r.swept = {}
      BY <1>3 DEF Call
    <2>2. call' = [call EXCEPT ![c] = r]
      BY <1>2, <1>6 DEF IInv, TypeOK, Call
    <2>. HIDE DEF r
    <2>3. /\ alias' \in [Texts -> Products \cup {None}]
          /\ \A x \in Texts : alias[x] # None => alias'[x] = alias[x]
          /\ teaches => alias'[TextAt(q)] # None
      BY <1>2, <1>3, <1>6, TeachKeeps DEF IInv, TypeOK
    <2>4. TypeOK'
      BY <1>1, <2>1, <2>2, <2>3 DEF IInv, TypeOK, jobs
    <2>5. Keeps /\ TasksKept
      BY <1>1, <2>3 DEF IInv, TypeOK, Keeps, TasksKept, Exists, TellsOn, Told, HandedOver, jobs
    <2>6. CallOk(r)'
      BY <1>3, <2>1, <2>3
         DEF CallOk, PlaceOk, DecisionOk, AnswerOk, WordingOk, PendingOk, HandOk,
         WithDecision, FromScan, BeforeSweep, Sweeping, Finishing, Correction, Resolution, AskOf,
         TextAt
    <2>7. r.pc \notin Finishing /\ r.key = call[c].key
      BY <1>2, <2>1 DEF Finishing
    <2>. QED
      BY <1>1, <2>1, <2>2, <2>4, <2>5, <2>6, <2>7, TableMove DEF jobs
  <1>7. \/ End(c) /\ UNCHANGED alias
        \/ /\ replay[q.key] # None /\ UNCHANGED alias
           /\ call' = [call EXCEPT ![c].pc = "relock", ![c].id = replay[q.key]]
        \/ \E teaches \in BOOLEAN :
              /\ teaches => CanTeach(c)
              /\ IF teaches THEN Teach(c) ELSE UNCHANGED alias
              /\ call' = [call EXCEPT ![c].pc = "commit", ![c].aliased = teaches]
    <2>1. (Of(c).learn /\ CanTeach(c)) \in BOOLEAN
      OBVIOUS
    <2>. QED  BY <1>2, <2>1, Zenon DEF Check
  <1>. QED  BY <1>4, <1>5, <1>6, <1>7
-----------------------------------------------------------------------------
(***************************************************************************)
(* The sweep of a call.                                                    *)
(***************************************************************************)
LEMMA SweepFacts ==
    ASSUME NEW q \in Call, CallOk(q), q.pc \in Sweeping \cup {"scan"}
    PROVE  /\ q.key # None /\ q.id # None /\ q.id \in DecisionIds
           /\ Exists(q.id) /\ q.id[1] = AskOf(q).line
           /\ q.pc \in Sweeping => \A d \in q.pending : SweptBy(q, d)
           /\ q.pc = "scan" => q.pending = {}
           /\ q.pc \in {"shut", "cost"} => q.at \in Lines /\ SweptBy(q, <<q.at, 1>>)
           /\ \A l \in q.swept : <<l, 1>> \in q.pending
           /\ q.pc = "cost" => <<q.at, 1>> \in q.pending
  BY CallFacts
     DEF CallOk, PlaceOk, DecisionOk, PendingOk, HandOk, BeforeSweep, WithDecision, Sweeping

\* A call that goes on sweeping knows what it knew.
LEMMA SweepGoesOn ==
    ASSUME NEW q \in Call, NEW r \in Call, CallOk(q)', q.pc \in Sweeping \cup {"scan"},
           r.pc \in Sweeping, r.key = q.key, r.id = q.id, r.made = q.made,
           \A l \in r.swept : <<l, 1>> \in r.pending,
           r.pc = "cost" => <<r.at, 1>> \in r.pending,
           r.todo = {} \/ (q.pc # "scan" /\ r.todo \subseteq q.todo),
           \A d \in r.pending : SweptBy(q, d)',
           r.pc \in {"shut", "cost"} => r.at \in Lines /\ SweptBy(q, <<r.at, 1>>)'
    PROVE  CallOk(r)'
  <1>1. /\ AskOf(r) = AskOf(q)
        /\ Correction(r) <=> Correction(q)
        /\ Resolution(r) <=> Resolution(q)
    BY DEF AskOf, Correction, Resolution
  <1>2. PlaceOk(r)'
    BY <1>1 DEF CallOk, PlaceOk, Sweeping, Correction, Resolution, AskOf
  <1>3. DecisionOk(r)' /\ AnswerOk(r)'
    BY <1>1 DEF CallOk, DecisionOk, AnswerOk, WithDecision, FromScan, Sweeping, Finishing,
       Correction, Resolution, AskOf
  <1>4. WordingOk(r)'
    BY DEF CallOk, WordingOk, Sweeping
  <1>5. PendingOk(r)'
    <2>1. \A d \in r.pending : SweptBy(r, d)'
      BY DEF SweptBy
    <2>2. r.pc \in {"shut", "cost"} => r.at \in Lines /\ SweptBy(r, <<r.at, 1>>)'
      BY DEF SweptBy
    <2>. QED  BY <2>1, <2>2 DEF PendingOk, Sweeping
  <1>6. HandOk(r)'
    BY <1>1 DEF CallOk, HandOk, WithDecision, FromScan, BeforeSweep, Sweeping, Correction,
       Resolution, AskOf
  <1>. QED  BY <1>2, <1>3, <1>4, <1>5, <1>6 DEF CallOk

\* The locks of a call that goes on, and what it knows of the events.
LEMMA SweepHolds ==
    ASSUME IInv, NEW c \in Callers, call[c].pc \in Sweeping \cup {"scan"},
           NEW r \in Call, r.key = call[c].key, r.id = call[c].id
    PROVE  /\ Correction(r) /\ r.pc \in Held =>
                 r.key = call[c].key /\ (call[c].pc \in Held \/ LineFree(c))
           /\ Correction(r) /\ r.pc \in Finishing =>
                 \A e \in audit : e.kind = "correct" => e.response.decision # r.id
  BY StillUnheard DEF Sweeping, Held, Finishing, Correction, AskOf

LEMMA SweptStays ==
    ASSUME TypeOK, TypeOK', Keeps, NEW q \in Call, NEW d \in DecisionIds, SweptBy(q, d)
    PROVE  SweptBy(q, d)'
  BY Stable DEF SweptBy

LEMMA ShutKeeps ==
    ASSUME IInv, NEW c \in Callers, Shut(c)
    PROVE  IInv'
  <1>1. PICK q \in Call : q = call[c] /\ CallOk(q) /\ q.pc = "shut"
    BY CallState DEF Shut
  <1>2. /\ q.key # None /\ q.id # None /\ q.at \in Lines /\ SweptBy(q, <<q.at, 1>>)
        /\ \A d \in q.pending : SweptBy(q, d)
        /\ q.pending \subseteq DecisionIds /\ <<q.at, 1>> \in DecisionIds
        /\ \A l \in q.swept : <<l, 1>> \in q.pending
    BY <1>1, SweepFacts, CallFacts DEF Sweeping, DecisionIds
  <1>. DEFINE r == [q EXCEPT !.pc = "cost", !.pending = @ \cup {<<q.at, 1>>}]
  <1>3. /\ r \in Call /\ r.pc = "cost" /\ r.key = q.key /\ r.id = q.id /\ r.todo = q.todo
        /\ r.at = q.at /\ r.pending = q.pending \cup {<<q.at, 1>>}
        /\ r.made = q.made /\ r.swept = q.swept
    BY <1>2 DEF Call
  <1>4. call' = [call EXCEPT ![c] = r]
    BY <1>1 DEF Shut, IInv, TypeOK, Call
  <1>. HIDE DEF r
  <1>5. UNCHANGED <<decision, candidate, alias, replay, audit, priced, queue, unseen, cut,
                    dropped, failures, run>>
    BY DEF Shut, jobs
  <1>6. /\ task' \in [Lines -> {"none", "open", "resolved"}]
        /\ \A l \in Lines : l # q.at => task'[l] = task[l]
    BY <1>1, <1>2 DEF IInv, TypeOK, Shut, CloseTask
  <1>7. TypeOK'
    BY <1>3, <1>4, <1>5, <1>6 DEF IInv, TypeOK
  <1>8. Keeps /\ TasksKept
    <2>1. Decided(q.at)
      BY <1>2, Ids DEF IInv, SweptBy
    <2>2. \A l \in Lines : Decided(l)' <=> Decided(l)
      BY <1>5 DEF Decided
    <2>3. TasksKept
      BY <1>2, <1>6, <2>1, <2>2 DEF TasksKept
    <2>4. Keeps
      BY <1>5 DEF IInv, TypeOK, Keeps, Exists, TellsOn, Told, HandedOver
    <2>. QED  BY <2>3, <2>4
  <1>9. CallOk(q)' /\ \A d \in r.pending : SweptBy(q, d)'
    BY <1>1, <1>2, <1>3, <1>7, <1>8, OtherCall, SweptStays DEF IInv
  <1>10. SweptBy(q, <<q.at, 1>>)'
    BY <1>2, <1>7, <1>8, SweptStays DEF IInv
  <1>11. CallOk(r)'
    BY <1>1, <1>2, <1>3, <1>9, <1>10, SweepGoesOn DEF Sweeping
  <1>12. UntoldIn(call[c]) \subseteq UntoldIn(r)
    BY <1>1, <1>3 DEF UntoldIn
  <1>13. /\ Correction(r) /\ r.pc \in Held =>
               r.key = call[c].key /\ (call[c].pc \in Held \/ LineFree(c))
         /\ Correction(r) /\ r.pc \in Finishing =>
               \A e \in audit : e.kind = "correct" => e.response.decision # r.id
    BY <1>1, <1>3, SweepHolds DEF Sweeping
  <1>. QED
    BY <1>3, <1>4, <1>5, <1>7, <1>8, <1>11, <1>12, <1>13, TableMove

LEMMA PriceSweptKeeps ==
    ASSUME IInv, NEW c \in Callers, PriceSwept(c)
    PROVE  IInv'
  <1>1. PICK q \in Call : q = call[c] /\ CallOk(q) /\ q.pc = "cost"
    BY CallState DEF PriceSwept
  <1>2. /\ q.key # None /\ q.id # None /\ q.at \in Lines
        /\ \A d \in q.pending : SweptBy(q, d)
        /\ q.pending \subseteq DecisionIds
        /\ \A l \in q.swept \cup {q.at} : <<l, 1>> \in q.pending
    BY <1>1, SweepFacts, CallFacts DEF Sweeping
  <1>. DEFINE r == [q EXCEPT !.pc = "sweep", !.at = None, !.swept = @ \cup {q.at}]
  <1>3. /\ r \in Call /\ r.pc = "sweep" /\ r.key = q.key /\ r.id = q.id /\ r.todo = q.todo
        /\ r.pending = q.pending /\ r.made = q.made /\ r.swept = q.swept \cup {q.at}
    BY <1>2 DEF Call
  <1>4. call' = [call EXCEPT ![c] = r]
    BY <1>1 DEF PriceSwept, IInv, TypeOK, Call
  <1>. HIDE DEF r
  <1>5. UNCHANGED <<decision, candidate, task, alias, replay, audit, queue, unseen, cut, dropped,
                    failures, run>>
    BY DEF PriceSwept, jobs
  <1>6. priced' \subseteq DecisionIds /\ priced \subseteq priced'
    BY <1>1, <1>2, PriceTyped DEF PriceSwept, IInv
  <1>7. TypeOK'
    BY <1>3, <1>4, <1>5, <1>6 DEF IInv, TypeOK
  <1>8. Keeps /\ TasksKept
    BY <1>5, <1>6 DEF IInv, TypeOK, Keeps, TasksKept, Exists, TellsOn, Told, HandedOver
  <1>9. CallOk(q)' /\ \A d \in r.pending : SweptBy(q, d)'
    BY <1>1, <1>2, <1>3, <1>7, <1>8, OtherCall, SweptStays DEF IInv
  <1>10. CallOk(r)'
    BY <1>1, <1>2, <1>3, <1>9, SweepGoesOn DEF Sweeping
  <1>11. UntoldIn(call[c]) \subseteq UntoldIn(r)
    BY <1>1, <1>3 DEF UntoldIn
  <1>12. /\ Correction(r) /\ r.pc \in Held =>
               r.key = call[c].key /\ (call[c].pc \in Held \/ LineFree(c))
         /\ Correction(r) /\ r.pc \in Finishing =>
               \A e \in audit : e.kind = "correct" => e.response.decision # r.id
    BY <1>1, <1>3, SweepHolds DEF Sweeping
  <1>. QED
    BY <1>3, <1>4, <1>5, <1>7, <1>8, <1>10, <1>11, <1>12, TableMove

\* Decisions of the call's own quotation were swept at home, the others are told.
LEMMA EndSweepKeeps ==
    ASSUME IInv, NEW c \in Callers, EndSweep(c)
    PROVE  IInv'
  <1>1. PICK q \in Call : q = call[c] /\ CallOk(q) /\ q.pc \in {"sweep", "flush"}
    BY CallState DEF EndSweep
  <1>2. /\ q.key # None /\ q.id # None /\ q.id \in DecisionIds
        /\ Exists(q.id) /\ q.id[1] = AskOf(q).line
        /\ \A d \in q.pending : SweptBy(q, d)
        /\ q.pending \subseteq DecisionIds
        /\ \A l \in q.swept : <<l, 1>> \in q.pending
    BY <1>1, SweepFacts, CallFacts DEF Sweeping
  <1>3. AfterSweep[Kind(c)] = IF Correction(q) THEN "audit" ELSE "reply"
    <2>1. Kind(c) = AskOf(q).kind /\ AskOf(q).kind \in {"resolve", "correct"}
      BY <1>1, <1>2, CallFacts DEF Kind, Of, AskOf
    <2>. QED  BY <1>2, <2>1 DEF AfterSweep, Correction
  <1>. DEFINE r == [q EXCEPT !.pc = IF Correction(q) THEN "audit" ELSE "reply", !.pending = {}]
  <1>4. /\ r \in Call /\ r.pending = {} /\ r.key = q.key /\ r.id = q.id
        /\ r.pc = IF Correction(q) THEN "audit" ELSE "reply"
        /\ r.made = q.made /\ r.swept = q.swept
    BY DEF Call
  <1>5. call' = [call EXCEPT ![c] = r]
    BY <1>1, <1>3 DEF EndSweep, IInv, TypeOK, Call
  <1>. HIDE DEF r
  <1>6. UNCHANGED <<decision, candidate, task, alias, replay, audit, priced, unseen, run>>
    BY DEF EndSweep, rows
  <1>7. /\ queue' \subseteq Quotations /\ cut' \cup dropped' \subseteq DecisionIds
        /\ failures' \in 0..MaxFailures
        /\ TellsOn
        /\ \A d \in q.pending : QuotationOf[d[1]] # QuotationOf[q.id[1]] => HandedOver(d)'
    <2>1. Abroad(c) = {d \in q.pending : QuotationOf[d[1]] # QuotationOf[q.id[1]]}
      BY <1>1, <1>2 DEF Abroad, OnLine, Of, AskOf
    <2>2. Abroad(c) \in SUBSET DecisionIds
      BY <1>2, <2>1
    <2>. QED  BY <1>6, <2>1, <2>2, EnqueueTells DEF EndSweep, IInv
  <1>8. TypeOK'
    BY <1>4, <1>5, <1>6, <1>7 DEF IInv, TypeOK
  <1>9. Keeps /\ TasksKept
    BY <1>6, <1>7 DEF IInv, TypeOK, Keeps, TasksKept
  <1>10. CallOk(q)'
    BY <1>1, <1>8, <1>9, OtherCall DEF IInv
  <1>11. CallOk(r)'
    <2>1. /\ AskOf(r) = AskOf(q)
          /\ Correction(r) <=> Correction(q)
          /\ Resolution(r) <=> Resolution(q)
      BY <1>4 DEF AskOf, Correction, Resolution
    <2>2. PlaceOk(r)' /\ WordingOk(r)' /\ PendingOk(r)'
      BY <1>2, <1>4, <2>1, CallFacts
         DEF PlaceOk, WordingOk, PendingOk, Sweeping, Correction, Resolution, AskOf
    <2>3. DecisionOk(r)'
      BY <1>1, <1>4, <1>10, <2>1
         DEF CallOk, DecisionOk, WithDecision, FromScan, Finishing, Correction, AskOf
    <2>4. AnswerOk(r)'
      BY <1>4, <2>1 DEF AnswerOk, Correction, AskOf
    <2>5. SweptGiven(r.swept, AskOf(r).line)'
      <3>. SUFFICES ASSUME NEW l \in q.swept, QuotationOf[l] # QuotationOf[q.id[1]]
                    PROVE  Given(<<l, 1>>)'
        BY <1>2, <1>4, <2>1 DEF SweptGiven, AskOf
      <3>1. <<l, 1>> \in q.pending /\ <<l, 1>>[1] = l
        BY <1>2
      <3>2. HandedOver(<<l, 1>>)'
        BY <1>7, <3>1
      <3>3. Exists(<<l, 1>>)'
        BY <1>2, <1>8, <1>9, <3>1, SweptStays DEF IInv, SweptBy
      <3>. QED  BY <3>2, <3>3 DEF Given
    <2>6. HandOk(r)'
      <3>1. Correction(q) \/ q.made => HandedOver(q.id)'
        BY <1>1, <1>2, <1>10, CallFacts
           DEF CallOk, HandOk, WithDecision, FromScan, Correction, Resolution, AskOf
      <3>. QED
        BY <1>4, <2>1, <2>5, <3>1
           DEF HandOk, WithDecision, FromScan, BeforeSweep, Sweeping, Correction, Resolution, AskOf
    <2>. QED  BY <2>2, <2>3, <2>4, <2>6 DEF CallOk
  <1>12. \A d \in UntoldIn(call[c]) :
            d \in UntoldIn(r) \/ Told(d)' \/ SweptAtHome(d)'
    <2>. SUFFICES ASSUME NEW d \in q.pending PROVE Told(d)' \/ SweptAtHome(d)'
      BY <1>1 DEF UntoldIn
    <2>1. CASE QuotationOf[d[1]] # QuotationOf[q.id[1]]
      BY <1>7, <2>1 DEF Told
    <2>2. CASE QuotationOf[d[1]] = QuotationOf[q.id[1]]
      <3>1. SweptAtHome(d)
        BY <1>2, <2>2 DEF SweptBy, SweptAtHome
      <3>. QED  BY <1>6, <3>1 DEF SweptAtHome, Row
    <2>. QED  BY <2>1, <2>2
  <1>13. /\ Correction(r) /\ r.pc \in Held =>
               r.key = call[c].key /\ (call[c].pc \in Held \/ LineFree(c))
         /\ Correction(r) /\ r.pc \in Finishing =>
               \A e \in audit : e.kind = "correct" => e.response.decision # r.id
    BY <1>1, <1>4, SweepHolds DEF Sweeping
  <1>14. r \in Call
    BY <1>4
  <1>. QED
    BY <1>5, <1>6, <1>8, <1>9, <1>11, <1>12, <1>13, <1>14, TableMove

LEMMA FailSweepKeeps ==
    ASSUME IInv, NEW c \in Callers, FailSweep(c)
    PROVE  IInv'
  <1>1. PICK q \in Call :
           q = call[c] /\ CallOk(q) /\ q.pc \in {"scan", "sweep", "shut", "cost"}
    BY CallState DEF FailSweep
  <1>2. /\ q.key # None /\ q.id # None
        /\ \A d \in q.pending : SweptBy(q, d)
        /\ q.pending \subseteq DecisionIds
        /\ q.pc = "shut" => <<q.at, 1>> \in DecisionIds
        /\ \A l \in q.swept : <<l, 1>> \in q.pending
    BY <1>1, SweepFacts, CallFacts DEF Sweeping, DecisionIds
  <1>. DEFINE r == [q EXCEPT !.pc = "flush", !.at = None, !.todo = {}]
  <1>3. /\ r \in Call /\ r.pc = "flush" /\ r.key = q.key /\ r.id = q.id /\ r.todo = {}
        /\ r.pending = q.pending /\ r.made = q.made /\ r.swept = q.swept
    BY DEF Call
  <1>4. call' = [call EXCEPT ![c] = r]
    BY <1>1 DEF FailSweep, IInv, TypeOK, Call
  <1>. HIDE DEF r
  <1>5. UNCHANGED <<decision, candidate, task, alias, replay, audit, priced, queue, unseen, run>>
    BY DEF FailSweep, rows
  <1>6. /\ cut' \cup dropped' \subseteq DecisionIds /\ failures' \in 0..MaxFailures
        /\ TellsOn
        /\ \A d \in UntoldIn(q) \ q.pending : Told(d)'
    <2>1. Untold(c) \ call[c].pending = UntoldIn(q) \ q.pending
      BY <1>1 DEF Untold, UntoldIn
    <2>2. UntoldIn(q) \ q.pending \in SUBSET DecisionIds
      BY <1>2 DEF UntoldIn
    <2>. QED  BY <1>5, <2>1, <2>2, CutOffTells DEF FailSweep, IInv
  <1>7. TypeOK'
    BY <1>3, <1>4, <1>5, <1>6 DEF IInv, TypeOK
  <1>8. Keeps /\ TasksKept
    BY <1>5, <1>6 DEF IInv, TypeOK, Keeps, TasksKept
  <1>9. CallOk(q)' /\ \A d \in r.pending : SweptBy(q, d)'
    BY <1>1, <1>2, <1>3, <1>7, <1>8, OtherCall, SweptStays DEF IInv
  <1>10. CallOk(r)'
    BY <1>1, <1>2, <1>3, <1>9, SweepGoesOn DEF Sweeping
  <1>11. \A d \in UntoldIn(call[c]) :
            d \in UntoldIn(r) \/ Told(d)' \/ SweptAtHome(d)'
    BY <1>1, <1>3, <1>6 DEF UntoldIn
  <1>12. /\ Correction(r) /\ r.pc \in Held =>
               r.key = call[c].key /\ (call[c].pc \in Held \/ LineFree(c))
         /\ Correction(r) /\ r.pc \in Finishing =>
               \A e \in audit : e.kind = "correct" => e.response.decision # r.id
    BY <1>1, <1>3, SweepHolds DEF Sweeping
  <1>. QED
    BY <1>3, <1>4, <1>5, <1>7, <1>8, <1>10, <1>11, <1>12, TableMove

LEMMA StopKeeps ==
    ASSUME IInv, NEW c \in Callers, Stop(c)
    PROVE  IInv'
  <1>1. PICK q \in Call : q = call[c] /\ CallOk(q)
    BY CallState
  <1>2. Untold(c) = UntoldIn(q) /\ UntoldIn(q) \in SUBSET DecisionIds
    BY <1>1, CallFacts DEF Untold, UntoldIn, CallOk, PendingOk, DecisionIds
  <1>3. call' = [call EXCEPT ![c] = IdleCall] /\ IdleCall \in Call
    BY IdleOk DEF Stop, End
  <1>4. UNCHANGED <<decision, candidate, task, alias, replay, audit, priced, queue, unseen, run>>
    BY DEF Stop, rows
  <1>5. /\ cut' \cup dropped' \subseteq DecisionIds /\ failures' \in 0..MaxFailures
        /\ TellsOn
        /\ \A d \in UntoldIn(q) : Told(d)'
    BY <1>2, <1>4, CutOffTells DEF Stop, IInv
  <1>6. TypeOK'
    BY <1>3, <1>4, <1>5 DEF IInv, TypeOK
  <1>7. Keeps /\ TasksKept
    BY <1>4, <1>5 DEF IInv, TypeOK, Keeps, TasksKept
  <1>8. CallOk(IdleCall)'
    BY <1>6, <1>7, IdleOk, OtherCall DEF IInv
  <1>9. IdleCall.pc \notin Held /\ IdleCall.pc \notin Finishing
    BY DEF IdleCall, Held, Finishing
  <1>10. \A d \in UntoldIn(call[c]) : Told(d)'
    BY <1>1, <1>5
  <1>. QED
    BY <1>3, <1>4, <1>6, <1>7, <1>8, <1>9, <1>10, TableMove
-----------------------------------------------------------------------------
(***************************************************************************)
(* Steps of a call that add an event, a record or a decision.              *)
(***************************************************************************)
LEMMA AuditKeeps ==
    ASSUME IInv, NEW c \in Callers, Audit(c)
    PROVE  IInv'
  <1>1. PICK q \in Call : q = call[c] /\ CallOk(q) /\ q.pc = "audit"
    BY CallState DEF Audit
  <1>2. /\ q.id # None /\ q.id \in DecisionIds /\ q.key # None /\ q.pending = {}
        /\ Exists(q.id) /\ q.id[1] = AskOf(q).line
        /\ Correction(q) =>
              /\ replay[q.key] = q.id /\ Costed(q.id) /\ HandedOver(q.id)
              /\ SweptGiven(q.swept, AskOf(q).line)
        /\ Resolution(q) => q.swept = {} /\ (q.made => HandedOver(q.id))
        /\ Correction(q) <=> ~Resolution(q)
    BY <1>1, CallFacts
       DEF CallOk, PlaceOk, DecisionOk, PendingOk, HandOk, WithDecision, Finishing
  <1>3. Kind(c) = AskOf(q).kind /\ AskOf(q).kind \in {"resolve", "correct"}
    BY <1>1, <1>2, CallFacts DEF Kind, Of, AskOf
  <1>4. AfterAudit[Kind(c)] = IF Correction(q) THEN "reply" ELSE "price"
    BY <1>2, <1>3 DEF AfterAudit, Correction
  <1>. DEFINE r == [q EXCEPT !.pc = IF Correction(q) THEN "reply" ELSE "price"]
              answer == [decision |-> q.id, learned |-> q.learned, swept |-> q.swept]
              event == [kind |-> AskOf(q).kind, response |-> answer, by |-> c]
  <1>5. /\ r \in Call /\ r.pending = {} /\ r.key = q.key /\ r.id = q.id
        /\ r.pc = IF Correction(q) THEN "reply" ELSE "price"
        /\ r.learned = q.learned /\ r.swept = q.swept /\ r.made = q.made
    BY <1>2 DEF Call
  <1>6. call' = [call EXCEPT ![c] = r]
    BY <1>1, <1>4 DEF Audit, Goto, IInv, TypeOK, Call
  <1>7. answer \in Response
    BY <1>2 DEF Response, Call
  <1>8. /\ event \in Event /\ event.kind = AskOf(q).kind /\ event.response = answer
        /\ event.response.decision = q.id /\ event.response.swept = q.swept
    BY <1>3, <1>7 DEF Event
  <1>9. /\ audit' \subseteq audit \cup {event} /\ audit \subseteq audit'
        /\ Correction(q) => event \in audit'
    <2>1. Reported(c) = answer
      BY <1>1 DEF Reported
    <2>. HIDE DEF answer
    <2>. QED  BY <1>1, <1>3, <2>1 DEF Audit, Correction
  <1>. HIDE DEF r, event
  <1>10. UNCHANGED <<decision, candidate, task, alias, replay, priced, queue, unseen, cut,
                     dropped, failures, run>>
    BY DEF Audit, jobs
  <1>11. TypeOK'
    BY <1>5, <1>6, <1>8, <1>9, <1>10 DEF IInv, TypeOK
  <1>12. Keeps /\ TasksKept
    BY <1>9, <1>10 DEF IInv, TypeOK, Keeps, TasksKept, Exists, TellsOn, Told, HandedOver
  <1>13. Correction(q) => \A e \in audit : e.kind = "correct" => e.response.decision # q.id
    BY <1>1, StillUnheard DEF Finishing
  <1>14. /\ Exists(q.id)' /\ (HandedOver(q.id) => HandedOver(q.id)')
         /\ Correction(q) =>
               Costed(q.id)' /\ Given(q.id)' /\ SweptGiven(q.swept, AskOf(q).line)'
    <2>1. q.swept \in SUBSET Lines
      BY DEF Call
    <2>2. /\ Exists(q.id)' /\ (HandedOver(q.id) => HandedOver(q.id)')
          /\ Correction(q) => Costed(q.id)' /\ Given(q.id)'
      BY <1>2, <1>11, <1>12, Stable DEF IInv, Given
    <2>3. Correction(q) => SweptGiven(q.swept, AskOf(q).line)'
      BY <1>2, <1>11, <1>12, <2>1, SweptGivenStays DEF IInv
    <2>. QED  BY <2>2, <2>3
  <1>15. AuditInv'
    <2>1. \A e \in audit : e.kind = "correct" => EventOk(e)'
      BY <1>11, <1>12, AuditStays DEF IInv, Tables
    <2>2. event.kind = "correct" => Correction(q)
      BY <1>2, <1>8 DEF Correction
    <2>3. ASSUME NEW e \in audit', e.kind = "correct"
          PROVE  EventOk(e)'
      <3>1. CASE e \in audit
        BY <2>1, <2>3, <3>1
      <3>2. CASE e = event
        BY <1>2, <1>8, <1>14, <2>2, <2>3, <3>2 DEF EventOk
      <3>. QED  BY <1>9, <3>1, <3>2
    <2>4. ASSUME NEW e \in audit', NEW f \in audit', e.kind = "correct", f.kind = "correct",
                 f.response.decision = e.response.decision
          PROVE  f = e
      <3>1. CASE e \in audit /\ f \in audit
        BY <2>4, <3>1 DEF IInv, Tables, AuditInv
      <3>2. CASE e \notin audit \/ f \notin audit
        BY <1>8, <1>9, <1>13, <2>2, <2>4, <3>2
      <3>. QED  BY <3>1, <3>2
    <2>. QED  BY <2>3, <2>4 DEF AuditInv
  <1>16. Tables'
    BY <1>10, <1>11, <1>12, <1>15, ReplayInvStays, ChainInvStays DEF IInv, Tables
  <1>17. CallOk(r)'
    <2>1. AskOf(r) = AskOf(q) /\ (Correction(r) <=> Correction(q))
      BY <1>5 DEF Correction, AskOf
    <2>2. CASE Correction(q)
      <3>1. r.pc = "reply" /\ AskOf(r).kind = "correct"
        BY <1>5, <2>1, <2>2 DEF Correction
      <3>2. AnswerOk(r)'
        BY <1>5, <1>8, <1>9, <2>2, <3>1 DEF AnswerOk, Correction, AskOf
      <3>. QED
        BY <1>2, <1>5, <1>10, <1>14, <2>1, <2>2, <3>1, <3>2
           DEF CallOk, PlaceOk, DecisionOk, WordingOk, PendingOk, HandOk,
           WithDecision, FromScan, BeforeSweep, Sweeping, Finishing, Correction, Resolution, AskOf
    <2>3. CASE ~Correction(q)
      <3>1. r.pc = "price" /\ AskOf(r).kind # "correct"
        BY <1>2, <1>5, <2>1, <2>3 DEF Correction
      <3>. QED
        BY <1>2, <1>5, <1>14, <2>1, <3>1
           DEF CallOk, PlaceOk, DecisionOk, AnswerOk, WordingOk, PendingOk, HandOk,
           WithDecision, FromScan, BeforeSweep, Sweeping, Finishing, Correction, Resolution, AskOf
    <2>. QED  BY <2>2, <2>3
  <1>18. Correction(r) /\ r.pc \in Held =>
            r.key = call[c].key /\ (call[c].pc \in Held \/ LineFree(c))
    BY <1>1, <1>5 DEF Held
  <1>19. ~(Correction(r) /\ r.pc \in Finishing)
    BY <1>5 DEF Finishing, Correction, AskOf
  <1>20. \A e \in audit' \ audit : e.kind = "correct" =>
            /\ Correction(call[c]) /\ call[c].pc \in Held
            /\ e.response.decision[1] = AskOf(call[c]).line
    BY <1>1, <1>2, <1>8, <1>9 DEF Held, Correction, AskOf
  <1>21. UntoldIn(call[c]) = {}
    BY <1>1, QuietTold
  <1>22. r \in Call
    BY <1>5
  <1>23. Calls' /\ Reads' /\ Lock' /\ Unheard' /\ UnseenInv'
    BY <1>6, <1>10, <1>11, <1>12, <1>17, <1>18, <1>19, <1>20, <1>21, <1>22, CallMoves DEF IInv
  <1>. QED  BY <1>11, <1>16, <1>23 DEF IInv

LEMMA RecordKeeps ==
    ASSUME IInv, NEW c \in Callers, Record(c)
    PROVE  IInv'
  <1>1. PICK q \in Call : q = call[c] /\ CallOk(q) /\ q.pc = "record"
    BY CallState DEF Record
  <1>2. /\ q.id # None /\ q.id \in DecisionIds /\ q.key # None /\ q.key \in Keys /\ q.pending = {}
        /\ Exists(q.id) /\ q.id[1] = AskOf(q).line /\ Costed(q.id)
        /\ ~Correction(q) /\ Resolution(q) /\ q.swept = {} /\ (q.made => HandedOver(q.id))
    BY <1>1, CallFacts
       DEF CallOk, PlaceOk, DecisionOk, PendingOk, HandOk, BeforeSweep, WithDecision
  <1>3. CASE End(c) /\ UNCHANGED replay
    <2>1. UntoldIn(call[c]) = {}
      BY <1>1, QuietTold
    <2>. QED  BY <1>3, <2>1, EndMove DEF Record, rows
  <1>4. CASE /\ replay[q.key] = None /\ \A k \in Keys : replay[k] # q.id
             /\ replay' = [replay EXCEPT ![q.key] = q.id]
             /\ Goto(c, IF q.made THEN "scan" ELSE "reply")
    <2>. DEFINE r == [q EXCEPT !.pc = IF q.made THEN "scan" ELSE "reply"]
    <2>1. /\ r \in Call /\ r.pending = {} /\ r.key = q.key /\ r.id = q.id
          /\ r.pc \in {"scan", "reply"} /\ r.made = q.made /\ r.swept = {}
          /\ r.pc = "reply" => ~q.made
      BY <1>2 DEF Call
    <2>2. call' = [call EXCEPT ![c] = r]
      BY <1>1, <1>4 DEF Goto, IInv, TypeOK, Call
    <2>. HIDE DEF r
    <2>3. UNCHANGED <<decision, candidate, task, alias, audit, priced, queue, unseen, cut,
                      dropped, failures, run>>
      BY DEF Record, jobs
    <2>4. /\ replay' \in [Keys -> DecisionIds \cup {None}] /\ replay'[q.key] = q.id
          /\ \A k \in Keys : k # q.key => replay'[k] = replay[k]
      BY <1>2, <1>4 DEF IInv, TypeOK
    <2>5. TypeOK'
      BY <2>1, <2>2, <2>3, <2>4 DEF IInv, TypeOK
    <2>6. Keeps /\ TasksKept
      BY <1>4, <2>3, <2>4 DEF IInv, TypeOK, Keeps, TasksKept, Exists, TellsOn, Told, HandedOver
    <2>7. Exists(q.id)' /\ Costed(q.id)' /\ (HandedOver(q.id) => HandedOver(q.id)')
      BY <1>2, <2>5, <2>6, Stable DEF IInv, Given
    <2>8. q.id[2] = 1
      <3>1. q.id = <<q.id[1], q.id[2]>> /\ q.id[1] \in Lines /\ q.id[2] \in Nat \ {0}
            /\ q.id[2] \in 1..Len(decision[q.id[1]])
        BY <1>2, Ids DEF IInv, Exists
      <3>2. q.id[2] > 1 => \E k \in Keys : replay[k] = q.id
        BY <3>1 DEF IInv, Tables, ChainInv
      <3>. QED  BY <1>4, <3>1, <3>2
    <2>9. ReplayInv'
      <3>1. ASSUME NEW k \in Keys, k # q.key, replay[k] # None
            PROVE  /\ Exists(replay[k])' /\ replay'[k][1] = Asked[k].line
                   /\ Asked[k].kind = "resolve" => replay'[k][2] = 1 /\ Costed(replay[k])'
        BY <2>5, <2>6, <3>1, ReplayStays DEF IInv, Tables
      <3>2. /\ Exists(q.id)' /\ q.id[1] = Asked[q.key].line
            /\ q.id[2] = 1 /\ Costed(q.id)'
        BY <1>2, <2>7, <2>8 DEF AskOf
      <3>. QED  BY <2>4, <3>1, <3>2 DEF ReplayInv
    <2>10. Tables'
      BY <2>3, <2>5, <2>6, <2>9, ChainInvStays, AuditInvStays DEF IInv, Tables
    <2>11. CallOk(r)'
      BY <1>2, <2>1, <2>4, <2>7
         DEF CallOk, PlaceOk, DecisionOk, AnswerOk, WordingOk, PendingOk, HandOk,
         WithDecision, FromScan, BeforeSweep, Sweeping, Finishing, Correction, Resolution, AskOf
    <2>12. ~Correction(r)
      BY <1>2, <2>1 DEF Correction, AskOf
    <2>13. UntoldIn(call[c]) = {}
      BY <1>1, QuietTold
    <2>14. r \in Call
      BY <2>1
    <2>15. Calls' /\ Reads' /\ Lock' /\ Unheard' /\ UnseenInv'
      BY <2>2, <2>3, <2>5, <2>6, <2>11, <2>12, <2>13, <2>14, CallMoves DEF IInv
    <2>. QED  BY <2>5, <2>10, <2>15 DEF IInv
  <1>. QED  BY <1>1, <1>3, <1>4 DEF Record

\* A decision that is added to its line leaves the others as they are, and is known to nobody yet.
LEMMA DecideKeeps ==
    ASSUME TypeOK, NEW l \in Lines, NEW row \in Decision, Decide(l, row),
           NEW d \in DecisionIds, d = <<l, Len(decision[l]) + 1>>
    PROVE  /\ decision' \in [Lines -> Seq(Decision)]
           /\ unseen' = unseen \cup {d} /\ unseen' \subseteq DecisionIds
           /\ \A m \in Lines : \A n \in 1..Len(decision[m]) :
                 n \in 1..Len(decision'[m]) /\ decision'[m][n] = decision[m][n]
           /\ \A m \in Lines : m # l => decision'[m] = decision[m]
           /\ Len(decision'[l]) = d[2] /\ decision'[l][d[2]] = row
           /\ Exists(d)' /\ Decided(l)' /\ Row(d)' = row
           /\ UNCHANGED <<queue, cut, dropped>> =>
                 TellsOn
  <1>1. decision[l] \in Seq(Decision) /\ Len(decision[l]) \in Nat
    BY Rows
  <1>2. /\ decision'[l] = Append(decision[l], row)
        /\ \A m \in Lines : m # l => decision'[m] = decision[m]
        /\ unseen' = unseen \cup {d}
    BY DEF Decide, TypeOK
  <1>3. /\ Len(decision'[l]) = d[2] /\ decision'[l][d[2]] = row
        /\ d[1] = l /\ d[2] = Len(decision[l]) + 1
        /\ \A n \in 1..Len(decision[l]) :
              n \in 1..Len(decision'[l]) /\ decision'[l][n] = decision[l][n]
    BY <1>1, <1>2
  <1>4. decision' \in [Lines -> Seq(Decision)]
    BY <1>1 DEF Decide, TypeOK
  <1>5. Exists(d)' /\ Decided(l)' /\ Row(d)' = row
    BY <1>1, <1>3 DEF Exists, Decided, Row
  <1>6. \A m \in Lines : \A n \in 1..Len(decision[m]) :
           n \in 1..Len(decision'[m]) /\ decision'[m][n] = decision[m][n]
    BY <1>2, <1>3
  <1>7. ASSUME UNCHANGED <<queue, cut, dropped>>, NEW e \in DecisionIds, Exists(e)
        PROVE  (Told(e) => Told(e)') /\ (HandedOver(e) => HandedOver(e)')
    <2>1. e # d
      BY <1>1, <1>3, <1>7 DEF Exists
    <2>. QED  BY <1>2, <1>7, <2>1 DEF Told, HandedOver
  <1>. QED  BY <1>2, <1>3, <1>4, <1>5, <1>6, <1>7 DEF TypeOK, TellsOn

\* The chain goes on, when a later decision is recorded and what taught the wording is known.
LEMMA ChainGoesOn ==
    ASSUME TypeOK, TypeOK', Keeps, ChainInv, NEW l \in Lines, NEW row \in Decision, Decide(l, row),
           NEW d \in DecisionIds, d = <<l, Len(decision[l]) + 1>>,
           d[2] > 1 => \E k \in Keys : Asked[k].kind = "correct" /\ replay'[k] = d,
           row.taught => alias'[TextOf[l]] # None
    PROVE  ChainInv'
  <1>1. /\ \A m \in Lines : m # l => decision'[m] = decision[m]
        /\ Len(decision'[l]) = d[2] /\ decision'[l][d[2]] = row
    BY DecideKeeps
  <1>2. Len(decision[l]) \in Nat
    BY Rows
  <1>3. ASSUME NEW m \in Lines, NEW n \in 1..Len(decision'[m]), m # l \/ n # d[2]
        PROVE  n \in 1..Len(decision[m])
    BY <1>1, <1>2, <1>3
  <1>4. ASSUME NEW m \in Lines, NEW n \in 1..Len(decision'[m])
        PROVE  /\ n > 1 => \E k \in Keys : Asked[k].kind = "correct" /\ replay'[k] = <<m, n>>
               /\ decision'[m][n].taught => alias'[TextOf[m]] # None
    <2>1. CASE m = l /\ n = d[2]
      BY <1>1, <2>1
    <2>2. CASE m # l \/ n # d[2]
      BY <1>3, <2>2, ChainStays
    <2>. QED  BY <2>1, <2>2
  <1>. QED  BY <1>4 DEF ChainInv

LEMMA NextId ==
    ASSUME TypeOK, NEW l \in Lines
    PROVE  /\ <<l, Len(decision[l]) + 1>> \in DecisionIds
           /\ <<l, Len(decision[l]) + 1>> # None
           /\ RootIsFree(l) => <<l, Len(decision[l]) + 1>> = <<l, 1>>
  BY Rows, NoneAssumption DEF DecisionIds, RootIsFree

LEMMA ResolveKeeps ==
    ASSUME IInv, NEW c \in Callers, Resolve(c)
    PROVE  IInv'
  <1>1. PICK q \in Call : q = call[c] /\ CallOk(q) /\ q.pc = "insert"
    BY CallState DEF Resolve
  <1>2. UntoldIn(call[c]) = {}
    BY <1>1, QuietTold
  <1>3. /\ q.key # None /\ q.pending = {} /\ ~Correction(q) /\ alias[TextAt(q)] # None
        /\ AskOf(q).line \in Lines /\ AskOf(q).product \in Products /\ q.swept = {}
    BY <1>1, CallFacts DEF CallOk, PlaceOk, PendingOk, HandOk, BeforeSweep, WordingOk
  <1>4. PICK l \in Lines : l = AskOf(q).line /\ l = OnLine(c) /\ TextOf[l] = TextAt(q)
    BY <1>1, <1>3 DEF OnLine, Of, AskOf, TextAt
  <1>5. CASE End(c) /\ UNCHANGED <<decision, unseen>>
    BY <1>2, <1>5, EndMove DEF Resolve, rows, jobs
  <1>6. CASE RootIsFree(l)
    <2>1. PICK d \in DecisionIds : d = <<l, Len(decision[l]) + 1>> /\ d = <<l, 1>> /\ d # None
      BY <1>6, NextId DEF IInv
    <2>2. PICK row \in Decision : row = Human(AskOf(q).product, TRUE)
      BY <1>3 DEF Human, Decision
    <2>. DEFINE r == [q EXCEPT !.pc = "tell", !.made = TRUE, !.id = d, !.pending = {d}]
    <2>3. /\ r \in Call /\ r.pc = "tell" /\ r.key = q.key /\ r.id = d /\ r.pending = {d}
          /\ r.swept = {}
      BY <1>3 DEF Call
    <2>4. Decide(l, row) /\ call' = [call EXCEPT ![c] = r]
      BY <1>1, <1>4, <1>6, <2>1, <2>2 DEF Resolve, Of, AskOf, IInv, TypeOK, Call
    <2>. HIDE DEF r
    <2>5. UNCHANGED <<candidate, task, alias, replay, audit, priced, queue, cut, dropped,
                      failures, run>>
      BY DEF Resolve
    <2>6. TypeOK'
      BY <2>1, <2>3, <2>4, <2>5, DecideKeeps DEF IInv, TypeOK
    <2>7. Keeps /\ TasksKept
      BY <2>1, <2>4, <2>5, DecideKeeps DEF IInv, TypeOK, Keeps, TasksKept
    <2>8. Exists(d)' /\ unseen' = unseen \cup {d}
      BY <2>1, <2>4, DecideKeeps DEF IInv
    <2>9. Tables'
      <3>1. ChainInv'
        BY <1>3, <1>4, <2>1, <2>4, <2>5, <2>6, <2>7, ChainGoesOn DEF IInv, Tables
      <3>. QED  BY <2>5, <2>6, <2>7, <3>1, ReplayInvStays, AuditInvStays DEF IInv, Tables
    <2>10. ~Correction(r) /\ AskOf(r) = AskOf(q)
      BY <1>3, <2>3 DEF Correction, AskOf
    <2>11. CallOk(r)'
      <3>1. d[1] = AskOf(r).line /\ r.key # None /\ AskOf(r).kind # "correct"
        <4>1. d[1] = l
          BY <2>1
        <4>2. r.key # None /\ AskOf(r).line = l
          BY <1>3, <1>4, <2>3, <2>10
        <4>3. AskOf(r).kind # "correct"
          BY <2>10, <4>2 DEF Correction
        <4>. QED  BY <4>1, <4>2, <4>3
      <3>2. PlaceOk(r)' /\ WordingOk(r)' /\ PendingOk(r)'
        BY <2>3, <3>1
           DEF PlaceOk, WordingOk, PendingOk, Sweeping, Correction, Resolution, AskOf
      <3>3. HandOk(r)'
        BY <2>3, <3>1
           DEF HandOk, WithDecision, FromScan, BeforeSweep, Sweeping, Correction, Resolution, AskOf
      <3>4. DecisionOk(r)' /\ AnswerOk(r)'
        BY <2>1, <2>3, <2>8, <3>1
           DEF DecisionOk, AnswerOk, WithDecision, FromScan, Finishing, Correction, AskOf
      <3>. QED  BY <3>2, <3>3, <3>4 DEF CallOk
    <2>12. \A e \in unseen' \ unseen : Exists(e)' /\ e \in UntoldIn(r)
      BY <2>3, <2>8 DEF UntoldIn
    <2>13. r \in Call
      BY <2>3
    <2>14. Calls' /\ Reads' /\ Lock' /\ Unheard' /\ UnseenInv'
      BY <1>2, <2>4, <2>5, <2>6, <2>7, <2>10, <2>11, <2>12, <2>13, CallMoves DEF IInv
    <2>. QED  BY <2>6, <2>9, <2>14 DEF IInv
  <1>7. RootIsFree(l) \/ (End(c) /\ UNCHANGED <<decision, unseen>>)
    <2>1. RootIsFree(OnLine(c)) \/ (End(c) /\ UNCHANGED <<decision, unseen>>)
      BY Zenon DEF Resolve
    <2>. QED  BY <1>4, <2>1
  <1>. QED  BY <1>5, <1>6, <1>7

LEMMA CommitKeeps ==
    ASSUME IInv, NEW c \in Callers, Commit(c)
    PROVE  IInv'
  <1>1. PICK q \in Call : q = call[c] /\ CallOk(q) /\ q.pc = "commit"
    BY CallState DEF Commit
  <1>2. UntoldIn(call[c]) = {}
    BY <1>1, QuietTold
  <1>3. /\ q.key # None /\ q.key \in Keys /\ q.pending = {} /\ Correction(q) /\ ~Resolution(q)
        /\ q.aliased => alias[TextAt(q)] # None
        /\ AskOf(q).line \in Lines /\ AskOf(q).product \in Products /\ q.swept = {}
    BY <1>1, CallFacts DEF CallOk, PlaceOk, PendingOk, HandOk, BeforeSweep, WordingOk
  <1>4. PICK l \in Lines : l = AskOf(q).line /\ l = OnLine(c) /\ TextOf[l] = TextAt(q)
    BY <1>1, <1>3 DEF OnLine, Of, AskOf, TextAt
  <1>5. CASE End(c) /\ UNCHANGED <<decision, unseen, replay>>
    BY <1>2, <1>5, EndMove DEF Commit, rows, jobs
  <1>6. CASE replay[q.key] = None /\ ~(End(c) /\ UNCHANGED <<decision, unseen, replay>>)
    <2>1. PICK d \in DecisionIds : d = <<l, Len(decision[l]) + 1>> /\ d # None
      BY NextId DEF IInv
    <2>2. PICK row \in Decision : row = Human(AskOf(q).product, q.aliased)
      BY <1>3 DEF Human, Decision, Call
    <2>. DEFINE r == [q EXCEPT !.pc = "relock", !.made = TRUE, !.id = d, !.pending = {d}]
    <2>3. /\ r \in Call /\ r.pc = "relock" /\ r.key = q.key /\ r.id = d /\ r.pending = {d}
          /\ r.swept = {}
      BY <1>3 DEF Call
    <2>4. /\ Decide(l, row) /\ replay' = [replay EXCEPT ![q.key] = d]
          /\ call' = [call EXCEPT ![c] = r]
      BY <1>1, <1>4, <1>6, <2>1, <2>2 DEF Commit, Of, AskOf, IInv, TypeOK, Call
    <2>. HIDE DEF r
    <2>5. UNCHANGED <<candidate, task, alias, audit, priced, queue, cut, dropped, failures, run>>
      BY DEF Commit
    <2>6. /\ replay' \in [Keys -> DecisionIds \cup {None}] /\ replay'[q.key] = d
          /\ \A k \in Keys : k # q.key => replay'[k] = replay[k]
      BY <1>3, <2>4 DEF IInv, TypeOK
    <2>7. TypeOK'
      BY <2>1, <2>3, <2>4, <2>5, <2>6, DecideKeeps DEF IInv, TypeOK
    <2>8. Keeps /\ TasksKept
      BY <1>6, <2>1, <2>4, <2>5, <2>6, DecideKeeps DEF IInv, TypeOK, Keeps, TasksKept
    <2>9. Exists(d)' /\ unseen' = unseen \cup {d}
      BY <2>1, <2>4, DecideKeeps DEF IInv
    <2>10. ReplayInv'
      <3>1. ASSUME NEW k \in Keys, k # q.key, replay[k] # None
            PROVE  /\ Exists(replay[k])' /\ replay'[k][1] = Asked[k].line
                   /\ Asked[k].kind = "resolve" => replay'[k][2] = 1 /\ Costed(replay[k])'
        BY <2>7, <2>8, <3>1, ReplayStays DEF IInv, Tables
      <3>2. Exists(d)' /\ d[1] = Asked[q.key].line /\ Asked[q.key].kind # "resolve"
        BY <1>3, <1>4, <2>1, <2>9 DEF AskOf, Resolution
      <3>. QED  BY <2>6, <3>1, <3>2 DEF ReplayInv
    <2>11. ChainInv'
      <3>1. \E k \in Keys : Asked[k].kind = "correct" /\ replay'[k] = d
        BY <1>3, <2>6 DEF Correction, AskOf
      <3>2. row.taught => alias'[TextOf[l]] # None
        BY <1>3, <1>4, <2>2, <2>5 DEF Human
      <3>. QED  BY <2>1, <2>4, <2>7, <2>8, <3>1, <3>2, ChainGoesOn DEF IInv, Tables
    <2>12. Tables'
      BY <2>5, <2>7, <2>8, <2>10, <2>11, AuditInvStays DEF IInv, Tables
    <2>13. /\ AskOf(r) = AskOf(q) /\ r.pc \notin Held /\ r.pc \notin Finishing
           /\ Correction(r) /\ ~Resolution(r)
      BY <1>3, <2>3 DEF Correction, Resolution, AskOf, Held, Finishing
    <2>14. CallOk(r)'
      <3>1. d[1] = AskOf(r).line
        BY <1>4, <2>1, <2>13
      <3>. QED
        BY <1>3, <2>1, <2>3, <2>6, <2>9, <2>13, <3>1
           DEF CallOk, PlaceOk, DecisionOk, AnswerOk, WordingOk, PendingOk, HandOk,
           WithDecision, FromScan, BeforeSweep, Sweeping, Finishing, Correction, Resolution, AskOf
    <2>15. \A e \in unseen' \ unseen : Exists(e)' /\ e \in UntoldIn(r)
      BY <2>3, <2>9 DEF UntoldIn
    <2>16. r \in Call
      BY <2>3
    <2>17. Calls' /\ Reads' /\ Lock' /\ Unheard' /\ UnseenInv'
      BY <1>2, <2>4, <2>5, <2>7, <2>8, <2>13, <2>14, <2>15, <2>16, CallMoves DEF IInv
    <2>. QED  BY <2>7, <2>12, <2>17 DEF IInv
  <1>7. \/ replay[q.key] = None
        \/ End(c) /\ UNCHANGED <<decision, unseen, replay>>
    BY <1>1, Zenon DEF Commit
  <1>. QED  BY <1>5, <1>6, <1>7

LEMMA SweepLineKeeps ==
    ASSUME IInv, NEW c \in Callers, NEW l \in Lines, SweepLine(c, l)
    PROVE  IInv'
  <1>1. PICK q \in Call : q = call[c] /\ CallOk(q) /\ q.pc = "sweep"
    BY CallState DEF SweepLine
  <1>2. /\ q.key # None /\ q.id # None /\ q.id \in DecisionIds
        /\ \A d \in q.pending : SweptBy(q, d)
        /\ q.pending \subseteq DecisionIds
        /\ \A m \in q.swept : <<m, 1>> \in q.pending
    BY <1>1, SweepFacts, CallFacts DEF Sweeping
  <1>3. l \in q.todo /\ alias[TextOf[l]] # None
    BY <1>1 DEF SweepLine, CallOk, WordingOk, Sweeping
  <1>4. PICK p \in Products : p = alias[TextOf[l]]
    BY <1>3 DEF IInv, TypeOK, Texts
  <1>5. candidate' \in [Lines -> SUBSET Candidate]
    <2>1. Sure(p) \in Candidate
      BY DEF Sure, Candidate
    <2>. QED  BY <1>4, <2>1 DEF IInv, TypeOK, SweepLine
  <1>6. UNCHANGED <<task, alias, replay, audit, priced, queue, cut, dropped, failures, run>>
    BY DEF SweepLine
  <1>7. CASE /\ call' = [call EXCEPT ![c].todo = @ \ {l}]
             /\ UNCHANGED <<decision, unseen>>
    <2>. DEFINE r == [q EXCEPT !.todo = @ \ {l}]
    <2>1. /\ r \in Call /\ r.pc = "sweep" /\ r.key = q.key /\ r.id = q.id
          /\ r.pending = q.pending /\ r.todo \subseteq q.todo
          /\ r.made = q.made /\ r.swept = q.swept
      BY <1>1 DEF Call
    <2>2. call' = [call EXCEPT ![c] = r]
      BY <1>1, <1>7 DEF IInv, TypeOK, Call
    <2>. HIDE DEF r
    <2>3. TypeOK'
      BY <1>5, <1>6, <1>7, <2>1, <2>2 DEF IInv, TypeOK
    <2>4. Keeps /\ TasksKept
      BY <1>6, <1>7 DEF IInv, TypeOK, Keeps, TasksKept, Exists, TellsOn, Told, HandedOver
    <2>5. CallOk(q)' /\ \A d \in r.pending : SweptBy(q, d)'
      BY <1>1, <1>2, <2>1, <2>3, <2>4, OtherCall, SweptStays DEF IInv
    <2>6. CallOk(r)'
      BY <1>1, <1>2, <2>1, <2>5, SweepGoesOn DEF Sweeping
    <2>7. UntoldIn(call[c]) \subseteq UntoldIn(r)
      BY <1>1, <2>1 DEF UntoldIn
    <2>8. /\ Correction(r) /\ r.pc \in Held =>
                r.key = call[c].key /\ (call[c].pc \in Held \/ LineFree(c))
          /\ Correction(r) /\ r.pc \in Finishing =>
                \A e \in audit : e.kind = "correct" => e.response.decision # r.id
      BY <1>1, <2>1, SweepHolds DEF Sweeping
    <2>. QED
      BY <1>6, <1>7, <2>1, <2>2, <2>3, <2>4, <2>6, <2>7, <2>8, TableMove
  <1>8. CASE /\ RootIsFree(l) /\ Decide(l, Automatic(p, q.id))
             /\ call' = [call EXCEPT ![c].pc = "shut", ![c].at = l, ![c].todo = @ \ {l}]
    <2>1. PICK d \in DecisionIds : d = <<l, Len(decision[l]) + 1>> /\ d = <<l, 1>>
      BY <1>8, NextId DEF IInv
    <2>2. PICK row \in Decision : row = Automatic(p, q.id) /\ row.teacher = q.id
      <3>1. (q.id # None) \in BOOLEAN /\ q.id \in DecisionIds \cup {None}
        BY <1>2
      <3>2. Automatic(p, q.id) \in Decision
        BY <3>1, Zenon DEF Automatic, Decision
      <3>. QED  BY <3>2 DEF Automatic
    <2>. DEFINE r == [q EXCEPT !.pc = "shut", !.at = l, !.todo = @ \ {l}]
    <2>3. /\ r \in Call /\ r.pc = "shut" /\ r.key = q.key /\ r.id = q.id
          /\ r.pending = q.pending /\ r.todo \subseteq q.todo /\ r.at = l
          /\ r.made = q.made /\ r.swept = q.swept
      BY DEF Call
    <2>4. call' = [call EXCEPT ![c] = r]
      BY <1>1, <1>8 DEF IInv, TypeOK, Call
    <2>. HIDE DEF r
    <2>5. Decide(l, row)
      BY <1>8, <2>2
    <2>6. TypeOK'
      BY <1>5, <1>6, <2>1, <2>3, <2>4, <2>5, DecideKeeps DEF IInv, TypeOK
    <2>7. Keeps /\ TasksKept
      BY <1>6, <2>1, <2>5, DecideKeeps DEF IInv, TypeOK, Keeps, TasksKept
    <2>8. Exists(d)' /\ unseen' = unseen \cup {d} /\ Row(d)' = row
      BY <2>1, <2>5, DecideKeeps DEF IInv
    <2>9. Tables'
      <3>1. alias'[TextOf[l]] # None /\ ~(d[2] > 1)
        BY <1>3, <1>6, <2>1
      <3>2. ChainInv'
        BY <2>1, <2>5, <2>6, <2>7, <3>1, ChainGoesOn DEF IInv, Tables
      <3>. QED  BY <1>6, <2>6, <2>7, <3>2, ReplayInvStays, AuditInvStays DEF IInv, Tables
    <2>10. CallOk(q)' /\ \A e \in r.pending : SweptBy(q, e)'
      BY <1>1, <1>2, <2>3, <2>6, <2>7, OtherCall, SweptStays DEF IInv
    <2>11. SweptBy(q, d)'
      BY <2>2, <2>8 DEF SweptBy
    <2>12. SweptBy(q, <<r.at, 1>>)'
      BY <2>1, <2>3, <2>11
    <2>13. CallOk(r)'
      BY <1>1, <1>2, <2>3, <2>10, <2>12, SweepGoesOn DEF Sweeping
    <2>14. \A e \in unseen' \ unseen : Exists(e)' /\ e \in UntoldIn(r)
      BY <2>1, <2>3, <2>8 DEF UntoldIn
    <2>15. UntoldIn(call[c]) \subseteq UntoldIn(r)
      BY <1>1, <2>3 DEF UntoldIn
    <2>16. /\ Correction(r) /\ r.pc \in Held =>
                 r.key = call[c].key /\ (call[c].pc \in Held \/ LineFree(c))
           /\ Correction(r) /\ r.pc \in Finishing =>
                 \A e \in audit : e.kind = "correct" => e.response.decision # r.id
      BY <1>1, <2>3, SweepHolds DEF Sweeping
    <2>17. Calls' /\ Reads' /\ Lock' /\ Unheard' /\ UnseenInv'
      BY <1>6, <2>3, <2>4, <2>6, <2>7, <2>13, <2>14, <2>15, <2>16, CallMoves DEF IInv
    <2>. QED  BY <2>6, <2>9, <2>17 DEF IInv
  <1>. QED
    <2>1. \/ RootIsFree(l) /\ Decide(l, Automatic(alias[TextOf[l]], call[c].id))
             /\ call' = [call EXCEPT ![c].pc = "shut", ![c].at = l, ![c].todo = @ \ {l}]
          \/ call' = [call EXCEPT ![c].todo = @ \ {l}] /\ UNCHANGED <<decision, unseen>>
      BY Zenon DEF SweepLine
    <2>. QED  BY <1>1, <1>4, <1>7, <1>8, <2>1
-----------------------------------------------------------------------------
(***************************************************************************)
(* The reads of matches, and who takes no part in a call or a read.        *)
(***************************************************************************)
LEMMA NobodyMoves ==
    ASSUME IInv, TypeOK', Keeps, TasksKept,
           UNCHANGED <<decision, replay, audit, call, run>>, unseen' \subseteq unseen
    PROVE  IInv'
  <1>1. Tables'
    BY TablesStay DEF IInv
  <1>2. Calls'
    BY OtherCall DEF IInv, Calls
  <1>3. Reads'
    BY OtherReads DEF IInv, Reads
  <1>4. Lock' /\ Unheard'
    BY DEF IInv, Lock, Unheard
  <1>5. UnseenInv'
    <2>1. \A c \in Callers : Untold(c)' = Untold(c)
      BY DEF Untold
    <2>2. \A w \in Runs : run'[w].pending = run[w].pending
      OBVIOUS
    <2>. QED  BY <2>1, <2>2, Unread DEF IInv
  <1>. QED  BY <1>1, <1>2, <1>3, <1>4, <1>5 DEF IInv

LEMMA EvaluateKeeps ==
    ASSUME IInv, NEW q \in Quotations, Evaluate(q)
    PROVE  IInv'
  <1>1. UNCHANGED <<decision, candidate, task, alias, replay, audit, priced, failures, call, run>>
    BY DEF Evaluate, rows
  <1>2. /\ queue' = queue \ {q}
        /\ unseen' = unseen \ OfQuotation(q, unseen)
        /\ cut' = cut \ OfQuotation(q, cut) /\ dropped' = dropped \ OfQuotation(q, dropped)
    BY DEF Evaluate
  <1>3. TypeOK'
    BY <1>1, <1>2 DEF IInv, TypeOK
  <1>4. \A d : (Told(d) => Told(d)') /\ (HandedOver(d) => HandedOver(d)')
    BY <1>2 DEF Told, HandedOver, OfQuotation
  <1>5. Keeps /\ TasksKept
    BY <1>1, <1>4 DEF IInv, TypeOK, Keeps, TellsOn, TasksKept
  <1>. QED  BY <1>1, <1>2, <1>3, <1>5, NobodyMoves

LEMMA FailEvaluationKeeps ==
    ASSUME IInv, NEW q \in Quotations, FailEvaluation(q)
    PROVE  IInv'
  <1>1. UNCHANGED <<decision, candidate, task, alias, replay, audit, priced, unseen, cut, call,
                    run>>
    BY DEF FailEvaluation, rows
  <1>2. /\ queue' = queue \ {q} /\ dropped' = dropped \cup OfQuotation(q, unseen)
        /\ failures' \in 0..MaxFailures
    BY NoneAssumption DEF FailEvaluation, Fails, IInv, TypeOK
  <1>3. TypeOK'
    BY <1>1, <1>2 DEF IInv, TypeOK, OfQuotation
  <1>4. \A d : (Told(d) => Told(d)') /\ (HandedOver(d) => HandedOver(d)')
    BY <1>1, <1>2 DEF Told, HandedOver, OfQuotation
  <1>5. Keeps /\ TasksKept
    BY <1>1, <1>4 DEF IInv, TypeOK, Keeps, TellsOn, TasksKept
  <1>. QED  BY <1>1, <1>3, <1>5, NobodyMoves

LEMMA AddManualCandidateKeeps ==
    ASSUME IInv, NEW l \in Lines, NEW p \in Products, AddManualCandidate(l, p)
    PROVE  IInv'
  <1>1. UNCHANGED <<decision, task, alias, replay, audit, priced, queue, unseen, cut, dropped,
                    failures, call, run>>
    BY DEF AddManualCandidate, jobs
  <1>2. candidate' \in [Lines -> SUBSET Candidate]
    <2>1. Picked(p) \in Candidate
      BY DEF Picked, Candidate
    <2>. QED  BY <2>1 DEF IInv, TypeOK, AddManualCandidate
  <1>3. TypeOK'
    BY <1>1, <1>2 DEF IInv, TypeOK
  <1>4. Keeps /\ TasksKept
    BY <1>1 DEF IInv, TypeOK, Keeps, TasksKept, Exists, TellsOn, Told, HandedOver
  <1>. QED  BY <1>1, <1>3, <1>4, NobodyMoves

LEMMA ReadTableMove ==
    ASSUME IInv, TypeOK', Keeps, TasksKept,
           NEW w \in Runs, NEW r \in Run, run' = [run EXCEPT ![w] = r], ReadOk(r)',
           r.pc # "price",
           UNCHANGED <<decision, replay, audit, unseen, call>>,
           \A d \in run[w].pending : d \in r.pending \/ Told(d)'
    PROVE  IInv'
  <1>1. Tables'
    BY TablesStay DEF IInv
  <1>2. Calls' /\ Reads' /\ Lock' /\ Unheard' /\ UnseenInv'
    BY ReadMoves DEF IInv
  <1>. QED  BY <1>1, <1>2 DEF IInv

LEMMA ReadState ==
    ASSUME IInv, NEW w \in Runs
    PROVE  \E r \in Run :
              /\ r = run[w] /\ ReadOk(r) /\ r.todo \subseteq Lines
              /\ r.pending \subseteq DecisionIds
              /\ r.pc = "price" => Decided(Line(w))
              /\ r.todo # {} => \E l \in Lines : l = Line(w) /\ l \in r.todo
  <1>1. PICK r \in Run : r = run[w] /\ ReadOk(r)
    BY ReadTyped DEF IInv, Reads
  <1>2. r.todo \subseteq Lines /\ r.pending \subseteq DecisionIds
    BY <1>1, ReadTyped DEF IInv
  <1>3. r.todo # {} => Line(w) \in r.todo
    BY <1>1, <1>2, LineRemains
  <1>4. r.pc = "price" => Decided(Line(w))
    BY <1>1 DEF IInv, Reads
  <1>. QED  BY <1>1, <1>2, <1>3, <1>4

LEMMA IdleRead == IdleRun \in Run /\ IdleRun.pc = "idle" /\ IdleRun.pending = {}
                  /\ ReadOk(IdleRun)
  <1>1. IdleRun \in Run /\ IdleRun.pc = "idle" /\ IdleRun.pending = {}
    BY DEF IdleRun, Run
  <1>. HIDE DEF IdleRun
  <1>. QED  BY <1>1 DEF ReadOk

\* A read that is done with a line, which is decided or waits for a buyer.
LEMMA LineDone ==
    ASSUME NEW q \in Run, ReadOk(q)', q.pc # "idle", NEW l \in Lines,
           Decided(l)' \/ task'[l] = "open",
           NEW r, r = [q EXCEPT !.pc = "next", !.todo = @ \ {l}, !.offered = {}]
    PROVE  r \in Run /\ r.pc = "next" /\ r.pending = q.pending /\ ReadOk(r)'
  <1>1. /\ r \in Run /\ r.pc = "next" /\ r.pending = q.pending
        /\ r.todo = q.todo \ {l} /\ r.quotation = q.quotation
    BY DEF Run
  <1>2. ReadOk(r)'
    BY <1>1 DEF ReadOk, LinesOf
  <1>. QED  BY <1>1, <1>2

LEMMA OpenMatchesKeeps ==
    ASSUME IInv, NEW w \in Runs, NEW q \in Quotations, OpenMatches(w, q)
    PROVE  IInv'
  <1>1. run[w].pending = {}
    BY ReadState DEF OpenMatches, ReadOk
  <1>2. UNCHANGED <<decision, candidate, task, alias, replay, audit, priced, queue, unseen, cut,
                    dropped, failures, call>>
    BY DEF OpenMatches, rows, jobs
  <1>. DEFINE T == {l \in LinesOf(q) : ~Decided(l)}
              C == [l \in Lines |-> IF QuotationOf[l] = q THEN candidate[l] ELSE {}]
  <1>3. C \in [Lines -> SUBSET Candidate]
    BY DEF IInv, TypeOK
  <1>4. T \subseteq Lines /\ \A l \in LinesOf(q) \ T : Decided(l)
    BY DEF LinesOf
  <1>5. run' = [run EXCEPT ![w] =
                  [IdleRun EXCEPT !.pc = "next", !.quotation = q, !.todo = T, !.rows = C]]
    BY DEF OpenMatches
  <1>. HIDE DEF T, C
  <1>6. PICK t \in SUBSET Lines, m \in [Lines -> SUBSET Candidate] :
           t = T /\ m = C
    BY <1>3, <1>4
  <1>. DEFINE r == [IdleRun EXCEPT !.pc = "next", !.quotation = q, !.todo = t, !.rows = m]
  <1>7. /\ r \in Run /\ r.pc = "next" /\ r.quotation = q /\ r.todo = t /\ r.pending = {}
    BY DEF IdleRun, Run
  <1>8. run' = [run EXCEPT ![w] = r]
    BY <1>5, <1>6
  <1>. HIDE DEF r
  <1>9. TypeOK'
    BY <1>2, <1>7, <1>8 DEF IInv, TypeOK
  <1>10. Keeps /\ TasksKept
    BY <1>2 DEF IInv, TypeOK, Keeps, TasksKept, Exists, TellsOn, Told, HandedOver
  <1>11. ReadOk(r)
    BY <1>4, <1>6, <1>7 DEF ReadOk
  <1>12. ReadOk(r)'
    BY <1>7, <1>9, <1>10, <1>11, OtherRead DEF IInv
  <1>. QED  BY <1>1, <1>2, <1>7, <1>8, <1>9, <1>10, <1>12, ReadTableMove

LEMMA TakeLineKeeps ==
    ASSUME IInv, NEW w \in Runs, TakeLine(w)
    PROVE  IInv'
  <1>1. PICK q \in Run : /\ q = run[w] /\ ReadOk(q) /\ q.pc = "next" /\ q.todo # {}
                         /\ \E l \in Lines : l = Line(w) /\ l \in q.todo
    BY ReadState DEF TakeLine
  <1>2. PICK l \in Lines : l = Line(w) /\ l \in q.todo
    BY <1>1
  <1>3. UNCHANGED <<decision, candidate, task, alias, replay, audit, priced, queue, unseen, cut,
                    dropped, failures, call>>
    BY DEF TakeLine, rows, jobs
  <1>4. ASSUME NEW r \in Run, run' = [run EXCEPT ![w] = r], ReadOk(r), r.pc # "price",
               r.pending = q.pending
        PROVE  IInv'
    <2>1. TypeOK'
      BY <1>3, <1>4 DEF IInv, TypeOK
    <2>2. Keeps /\ TasksKept
      BY <1>3 DEF IInv, TypeOK, Keeps, TasksKept, Exists, TellsOn, Told, HandedOver
    <2>3. ReadOk(r)'
      BY <1>4, <2>1, <2>2, OtherRead DEF IInv
    <2>. QED  BY <1>1, <1>3, <1>4, <2>1, <2>2, <2>3, ReadTableMove
  <1>5. CASE Decided(l) /\ run' = [run EXCEPT ![w] = NextLine(w)]
    <2>. DEFINE r == [q EXCEPT !.pc = "next", !.todo = @ \ {l}, !.offered = {}]
    <2>1. /\ r \in Run /\ r.pc = "next" /\ r.pending = q.pending
          /\ r.todo = q.todo \ {l} /\ r.quotation = q.quotation
      BY DEF Run
    <2>2. run' = [run EXCEPT ![w] = r]
      BY <1>1, <1>2, <1>5 DEF NextLine
    <2>. HIDE DEF r
    <2>3. ReadOk(r)
      BY <1>1, <1>5, <2>1 DEF ReadOk, LinesOf
    <2>. QED  BY <1>4, <2>1, <2>2, <2>3
  <1>6. ASSUME NEW pc \in {"route", "search"}, NEW set \in SUBSET Candidate,
               run' = [run EXCEPT ![w].pc = pc, ![w].offered = set]
        PROVE  IInv'
    <2>. DEFINE r == [q EXCEPT !.pc = pc, !.offered = set]
    <2>1. /\ r \in Run /\ r.pc = pc /\ r.pending = q.pending
          /\ r.todo = q.todo /\ r.quotation = q.quotation
      BY DEF Run
    <2>2. run' = [run EXCEPT ![w] = r]
      BY <1>1, <1>6 DEF IInv, TypeOK, Run
    <2>. HIDE DEF r
    <2>3. ReadOk(r)
      BY <1>1, <2>1 DEF ReadOk
    <2>. QED  BY <1>4, <2>1, <2>2, <2>3
  <1>7. \/ Decided(l) /\ run' = [run EXCEPT ![w] = NextLine(w)]
        \/ run' = [run EXCEPT ![w] = [@ EXCEPT !.pc = "route", !.offered = q.rows[l]]]
        \/ run' = [run EXCEPT ![w] = [@ EXCEPT !.pc = "search"]]
    BY <1>1, <1>2 DEF TakeLine
  <1>8. q.rows[l] \in SUBSET Candidate /\ q.offered \in SUBSET Candidate
    BY DEF Run
  <1>9. CASE run' = [run EXCEPT ![w] = [@ EXCEPT !.pc = "route", !.offered = q.rows[l]]]
    <2>1. run' = [run EXCEPT ![w].pc = "route", ![w].offered = q.rows[l]]
      BY <1>9 DEF IInv, TypeOK, Run
    <2>. QED  BY <1>6, <1>8, <2>1
  <1>10. CASE run' = [run EXCEPT ![w] = [@ EXCEPT !.pc = "search"]]
    <2>1. run' = [run EXCEPT ![w].pc = "search", ![w].offered = q.offered]
      BY <1>1, <1>10 DEF IInv, TypeOK, Run
    <2>. QED  BY <1>6, <1>8, <2>1
  <1>. QED  BY <1>5, <1>7, <1>9, <1>10

LEMMA ProposalsTyped ==
    ASSUME TypeOK, NEW l \in Lines
    PROVE  Proposals(l) \subseteq SUBSET Candidate
  <1>1. Found[l] \subseteq SUBSET Candidate
    BY AskedAssumption
  <1>2. alias[TextOf[l]] # None => Sure(alias[TextOf[l]]) \in Candidate
    BY DEF TypeOK, Texts, Sure, Candidate
  <1>. QED  BY <1>1, <1>2 DEF Proposals

LEMMA SearchKeeps ==
    ASSUME IInv, NEW w \in Runs, Search(w)
    PROVE  IInv'
  <1>1. PICK q \in Run : /\ q = run[w] /\ ReadOk(q) /\ q.pc = "search" /\ q.todo # {}
                         /\ \E l \in Lines : l = Line(w) /\ l \in q.todo
    BY ReadState DEF Search, ReadOk
  <1>2. PICK l \in Lines : l = Line(w) /\ l \in q.todo
    BY <1>1
  <1>3. UNCHANGED <<decision, task, alias, replay, audit, priced, queue, unseen, cut, dropped,
                    failures, call>>
    BY DEF Search, jobs
  <1>4. PICK set \in SUBSET Candidate :
           /\ candidate' = [candidate EXCEPT ![l] = @ \cup set] \/ UNCHANGED candidate
           /\ run' = [run EXCEPT ![w].pc = "route", ![w].offered = set]
    <2>1. candidate[l] \in SUBSET Candidate
      BY DEF IInv, TypeOK
    <2>2. \A set \in Proposals(l) : set \in SUBSET Candidate
      BY ProposalsTyped DEF IInv
    <2>. QED  BY <1>2, <2>1, <2>2 DEF Search
  <1>5. candidate' \in [Lines -> SUBSET Candidate]
    BY <1>4 DEF IInv, TypeOK
  <1>. DEFINE r == [q EXCEPT !.pc = "route", !.offered = set]
  <1>6. /\ r \in Run /\ r.pc = "route" /\ r.pending = q.pending
        /\ r.todo = q.todo /\ r.quotation = q.quotation
    BY DEF Run
  <1>7. run' = [run EXCEPT ![w] = r]
    BY <1>1, <1>4 DEF IInv, TypeOK, Run
  <1>. HIDE DEF r
  <1>8. TypeOK'
    BY <1>3, <1>5, <1>6, <1>7 DEF IInv, TypeOK
  <1>9. Keeps /\ TasksKept
    BY <1>3 DEF IInv, TypeOK, Keeps, TasksKept, Exists, TellsOn, Told, HandedOver
  <1>10. ReadOk(r)
    BY <1>1, <1>6 DEF ReadOk
  <1>11. ReadOk(r)'
    BY <1>6, <1>8, <1>9, <1>10, OtherRead DEF IInv
  <1>. QED  BY <1>1, <1>3, <1>6, <1>7, <1>8, <1>9, <1>11, ReadTableMove

LEMMA PriceAcceptedKeeps ==
    ASSUME IInv, NEW w \in Runs, PriceAccepted(w)
    PROVE  IInv'
  <1>1. PICK q \in Run : /\ q = run[w] /\ ReadOk(q) /\ q.pc = "price" /\ q.todo # {}
                         /\ Decided(Line(w)) /\ \E l \in Lines : l = Line(w) /\ l \in q.todo
    BY ReadState DEF PriceAccepted, ReadOk
  <1>2. PICK l \in Lines : l = Line(w) /\ Decided(l)
    BY <1>1
  <1>3. UNCHANGED <<decision, candidate, task, alias, replay, audit, queue, unseen, cut, dropped,
                    failures, call>>
    BY DEF PriceAccepted, jobs
  <1>4. priced' \subseteq DecisionIds /\ priced \subseteq priced'
    BY <1>2, PriceTyped DEF PriceAccepted, IInv
  <1>. DEFINE r == [q EXCEPT !.pc = "next", !.todo = @ \ {l}, !.offered = {}]
  <1>5. r \in Run /\ r.pc = "next" /\ r.pending = q.pending
    BY DEF Run
  <1>6. run' = [run EXCEPT ![w] = r]
    BY <1>1, <1>2 DEF PriceAccepted, NextLine
  <1>7. TypeOK'
    BY <1>3, <1>4, <1>5, <1>6 DEF IInv, TypeOK
  <1>8. Keeps /\ TasksKept
    BY <1>3, <1>4 DEF IInv, TypeOK, Keeps, TasksKept, Exists, TellsOn, Told, HandedOver
  <1>9. ReadOk(q)' /\ Decided(l)'
    BY <1>1, <1>2, <1>7, <1>8, OtherRead, DecidedStay DEF IInv
  <1>10. ReadOk(r)'
    BY <1>1, <1>9, LineDone
  <1>. QED  BY <1>1, <1>3, <1>5, <1>6, <1>7, <1>8, <1>10, ReadTableMove

LEMMA OpenTaskKeeps ==
    ASSUME IInv, NEW w \in Runs, OpenTask(w)
    PROVE  IInv'
  <1>1. PICK q \in Run : /\ q = run[w] /\ ReadOk(q) /\ q.pc = "route" /\ q.todo # {}
                         /\ \E l \in Lines : l = Line(w) /\ l \in q.todo
    BY ReadState DEF OpenTask, ReadOk
  <1>2. PICK l \in Lines : l = Line(w)
    BY <1>1
  <1>3. UNCHANGED <<decision, candidate, alias, replay, audit, priced, queue, unseen, cut,
                    dropped, failures, call>>
    BY DEF OpenTask, jobs
  <1>4. /\ task' \in [Lines -> {"none", "open", "resolved"}] /\ task'[l] = "open"
        /\ \A m \in Lines : task[m] = "open" => task'[m] = "open"
    BY <1>2 DEF OpenTask, IInv, TypeOK
  <1>. DEFINE r == [q EXCEPT !.pc = "next", !.todo = @ \ {l}, !.offered = {}]
  <1>5. r \in Run /\ r.pc = "next" /\ r.pending = q.pending
    BY DEF Run
  <1>6. run' = [run EXCEPT ![w] = r]
    BY <1>1, <1>2 DEF OpenTask, NextLine
  <1>7. TypeOK'
    BY <1>3, <1>4, <1>5, <1>6 DEF IInv, TypeOK
  <1>8. Keeps /\ TasksKept
    BY <1>3, <1>4 DEF IInv, TypeOK, Keeps, TasksKept, Exists, TellsOn, Told, HandedOver
  <1>9. ReadOk(q)'
    BY <1>1, <1>7, <1>8, OtherRead DEF IInv
  <1>10. ReadOk(r)'
    BY <1>1, <1>4, <1>9, LineDone
  <1>. QED  BY <1>1, <1>3, <1>5, <1>6, <1>7, <1>8, <1>10, ReadTableMove

\* A sure candidate becomes the first decision of its line, or finds another one in place.
LEMMA AcceptKeeps ==
    ASSUME IInv, NEW w \in Runs, Accept(w)
    PROVE  IInv'
  <1>1. PICK q \in Run : /\ q = run[w] /\ ReadOk(q) /\ q.pc = "route" /\ q.todo # {}
                         /\ q.pending \subseteq DecisionIds
                         /\ \E l \in Lines : l = Line(w) /\ l \in q.todo
    BY ReadState DEF Accept, ReadOk
  <1>2. PICK l \in Lines : l = Line(w) /\ l \in q.todo
    BY <1>1
  <1>3. UNCHANGED <<candidate, task, alias, replay, audit, priced, queue, cut, dropped, failures,
                    call>>
    BY DEF Accept
  <1>4. CASE /\ ~RootIsFree(l) /\ run' = [run EXCEPT ![w] = NextLine(w)]
             /\ UNCHANGED <<decision, unseen>>
    <2>. DEFINE r == [q EXCEPT !.pc = "next", !.todo = @ \ {l}, !.offered = {}]
    <2>1. r \in Run /\ r.pc = "next" /\ r.pending = q.pending
      BY DEF Run
    <2>2. run' = [run EXCEPT ![w] = r]
      BY <1>1, <1>2, <1>4 DEF NextLine
    <2>3. TypeOK'
      BY <1>3, <1>4, <2>1, <2>2 DEF IInv, TypeOK
    <2>4. Keeps /\ TasksKept
      BY <1>3, <1>4 DEF IInv, TypeOK, Keeps, TasksKept, Exists, TellsOn, Told, HandedOver
    <2>5. ReadOk(q)' /\ Decided(l)'
      BY <1>1, <1>4, <2>3, <2>4, OtherRead, DecidedStay DEF IInv, RootIsFree
    <2>6. ReadOk(r)'
      BY <1>1, <2>5, LineDone
    <2>. QED  BY <1>1, <1>3, <1>4, <2>1, <2>2, <2>3, <2>4, <2>6, ReadTableMove
  <1>5. ASSUME NEW p \in Products, RootIsFree(l), Decide(l, Automatic(p, None)),
               run' = [run EXCEPT ![w].pc = "price", ![w].pending = @ \cup {<<l, 1>>}]
        PROVE  IInv'
    <2>1. PICK d \in DecisionIds : d = <<l, Len(decision[l]) + 1>> /\ d = <<l, 1>>
      BY <1>5, NextId DEF IInv
    <2>2. PICK row \in Decision : row = Automatic(p, None) /\ ~row.taught
      <3>1. Automatic(p, None) = [product |-> p, human |-> FALSE, taught |-> FALSE,
                                  teacher |-> None]
        BY DEF Automatic
      <3>2. Automatic(p, None) \in Decision
        BY <3>1 DEF Decision
      <3>3. ~Automatic(p, None).taught
        BY <3>1
      <3>. QED  BY <3>2, <3>3
    <2>. DEFINE r == [q EXCEPT !.pc = "price", !.pending = @ \cup {d}]
    <2>3. /\ r \in Run /\ r.pc = "price" /\ r.pending = q.pending \cup {d}
          /\ r.todo = q.todo /\ r.quotation = q.quotation
      BY <1>1 DEF Run
    <2>4. run' = [run EXCEPT ![w] = r]
      BY <1>1, <1>5, <2>1 DEF IInv, TypeOK, Run
    <2>. HIDE DEF r
    <2>5. Decide(l, row)
      BY <1>5, <2>2
    <2>6. TypeOK'
      BY <1>3, <2>1, <2>3, <2>4, <2>5, DecideKeeps DEF IInv, TypeOK
    <2>7. Keeps /\ TasksKept
      BY <1>3, <2>1, <2>5, DecideKeeps DEF IInv, TypeOK, Keeps, TasksKept
    <2>8. Exists(d)' /\ unseen' = unseen \cup {d} /\ Decided(l)'
      BY <2>1, <2>5, DecideKeeps DEF IInv
    <2>9. Tables'
      <3>1. ~(d[2] > 1)
        BY <2>1
      <3>2. ChainInv'
        BY <2>1, <2>2, <2>5, <2>6, <2>7, <3>1, ChainGoesOn DEF IInv, Tables
      <3>. QED  BY <1>3, <2>6, <2>7, <3>2, ReplayInvStays, AuditInvStays DEF IInv, Tables
    <2>10. ReadOk(q)'
      BY <1>1, <2>6, <2>7, OtherRead DEF IInv
    <2>11. ReadOk(r)'
      BY <1>1, <2>3, <2>10 DEF ReadOk
    <2>12. Decided(Line(w))'
      <3>1. run'[w].todo = run[w].todo
        BY <1>1, <2>3, <2>4 DEF IInv, TypeOK
      <3>2. Line(w)' = l
        BY <1>2, <3>1 DEF Line
      <3>. QED  BY <2>8, <3>2 DEF Decided
    <2>13. \A e \in unseen' \ unseen : Exists(e)' /\ e \in r.pending
      BY <2>3, <2>8
    <2>14. Calls' /\ Reads' /\ Lock' /\ Unheard' /\ UnseenInv'
      BY <1>1, <1>3, <2>3, <2>4, <2>6, <2>7, <2>11, <2>12, <2>13, ReadMoves DEF IInv
    <2>. QED  BY <2>6, <2>9, <2>14 DEF IInv
  <1>6. \A r \in SureIn(q.offered) : r.product \in Products
    BY DEF SureIn, Run, Candidate
  <1>7. \/ /\ ~RootIsFree(l) /\ run' = [run EXCEPT ![w] = NextLine(w)]
           /\ UNCHANGED <<decision, unseen>>
        \/ \E p \in Products :
              /\ RootIsFree(l) /\ Decide(l, Automatic(p, None))
              /\ run' = [run EXCEPT ![w].pc = "price", ![w].pending = @ \cup {<<l, 1>>}]
    BY <1>1, <1>2, <1>6 DEF Accept
  <1>. QED  BY <1>4, <1>5, <1>7

LEMMA EndRunKeeps ==
    ASSUME IInv, NEW w \in Runs, EndRun(w)
    PROVE  IInv'
  <1>1. PICK q \in Run : q = run[w] /\ q.pending \subseteq DecisionIds
    BY ReadState
  <1>2. UNCHANGED <<decision, candidate, task, alias, replay, audit, priced, unseen, call>>
    BY DEF EndRun, rows
  <1>3. /\ queue' \subseteq Quotations /\ cut' \cup dropped' \subseteq DecisionIds
        /\ failures' \in 0..MaxFailures
        /\ TellsOn
        /\ \A d \in q.pending : Told(d)'
    BY <1>1, <1>2, EnqueueTells DEF EndRun, IInv, Told
  <1>4. run' = [run EXCEPT ![w] = IdleRun]
    BY DEF EndRun
  <1>5. TypeOK'
    BY <1>2, <1>3, <1>4, IdleRead DEF IInv, TypeOK
  <1>6. Keeps /\ TasksKept
    BY <1>2, <1>3 DEF IInv, TypeOK, Keeps, TasksKept
  <1>7. ReadOk(IdleRun)'
    BY <1>5, <1>6, IdleRead, OtherRead DEF IInv
  <1>. QED  BY <1>1, <1>2, <1>3, <1>4, <1>5, <1>6, <1>7, IdleRead, ReadTableMove

LEMMA FailRunKeeps ==
    ASSUME IInv, NEW w \in Runs, FailRun(w)
    PROVE  IInv'
  <1>1. PICK q \in Run : q = run[w] /\ ReadOk(q) /\ q.pc # "idle"
    BY ReadState DEF FailRun
  <1>2. UNCHANGED <<decision, candidate, task, alias, replay, audit, priced, queue, unseen, call>>
    BY DEF FailRun, rows
  <1>3. /\ cut' \cup dropped' \subseteq DecisionIds /\ failures' \in 0..MaxFailures
        /\ TellsOn
    BY <1>2, CutOffTells DEF FailRun, IInv
  <1>. DEFINE r == [q EXCEPT !.pc = "flush"]
  <1>4. /\ r \in Run /\ r.pc = "flush" /\ r.pending = q.pending
        /\ r.todo = q.todo /\ r.quotation = q.quotation
    BY DEF Run
  <1>5. run' = [run EXCEPT ![w] = r]
    BY <1>1 DEF FailRun, IInv, TypeOK
  <1>. HIDE DEF r
  <1>6. TypeOK'
    BY <1>2, <1>3, <1>4, <1>5 DEF IInv, TypeOK
  <1>7. Keeps /\ TasksKept
    BY <1>2, <1>3 DEF IInv, TypeOK, Keeps, TasksKept
  <1>8. ReadOk(q)'
    BY <1>1, <1>6, <1>7, OtherRead DEF IInv
  <1>9. ReadOk(r)'
    BY <1>1, <1>4, <1>8 DEF ReadOk
  <1>. QED  BY <1>1, <1>2, <1>4, <1>5, <1>6, <1>7, <1>9, ReadTableMove

LEMMA KillRunKeeps ==
    ASSUME IInv, NEW w \in Runs, KillRun(w)
    PROVE  IInv'
  <1>1. PICK q \in Run : q = run[w] /\ q.pending \subseteq DecisionIds
    BY ReadState
  <1>2. UNCHANGED <<decision, candidate, task, alias, replay, audit, priced, queue, unseen, call>>
    BY DEF KillRun, rows
  <1>3. /\ cut' \cup dropped' \subseteq DecisionIds /\ failures' \in 0..MaxFailures
        /\ TellsOn
        /\ \A d \in q.pending : Told(d)'
    BY <1>1, <1>2, CutOffTells DEF KillRun, IInv
  <1>4. run' = [run EXCEPT ![w] = IdleRun]
    BY DEF KillRun
  <1>5. TypeOK'
    BY <1>2, <1>3, <1>4, IdleRead DEF IInv, TypeOK
  <1>6. Keeps /\ TasksKept
    BY <1>2, <1>3 DEF IInv, TypeOK, Keeps, TasksKept
  <1>7. ReadOk(IdleRun)'
    BY <1>5, <1>6, IdleRead, OtherRead DEF IInv
  <1>. QED  BY <1>1, <1>2, <1>3, <1>4, <1>5, <1>6, <1>7, IdleRead, ReadTableMove
-----------------------------------------------------------------------------
(***************************************************************************)
(* The invariant of the specification.                                     *)
(***************************************************************************)
LEMMA InitIInv == Init => IInv
  <1>. SUFFICES ASSUME Init PROVE IInv
    OBVIOUS
  <1>1. /\ \A l \in Lines : decision[l] = <<>> /\ candidate[l] = {} /\ task[l] = "none"
        /\ \A k \in Keys : replay[k] = None
        /\ \A c \in Callers : call[c] = IdleCall
        /\ \A w \in Runs : run[w] = IdleRun
        /\ audit = {} /\ priced = {} /\ queue = {} /\ unseen = {} /\ cut = {} /\ dropped = {}
        /\ failures = 0
    BY DEF Init
  <1>2. TypeOK
    <2>1. 0 \in 0..MaxFailures /\ <<>> \in Seq(Decision)
      BY NoneAssumption
    <2>. QED  BY <1>1, <2>1, IdleOk, IdleRead DEF Init, TypeOK
  <1>3. Calls
    BY <1>1, IdleOk DEF Calls
  <1>4. Reads
    BY <1>1, IdleRead DEF Reads
  <1>5. Tables
    BY <1>1 DEF Tables, ReplayInv, ChainInv, AuditInv
  <1>6. Lock /\ Unheard
    <2>1. IdleCall.pc = "idle"
      BY DEF IdleCall
    <2>. QED  BY <1>1, <2>1 DEF Lock, Unheard, Held, Finishing
  <1>7. UnseenInv
    BY <1>1 DEF UnseenInv
  <1>. QED  BY <1>2, <1>3, <1>4, <1>5, <1>6, <1>7 DEF IInv

LEMMA StutterKeeps == IInv /\ UNCHANGED vars => IInv'
  <1>. SUFFICES ASSUME IInv, UNCHANGED vars PROVE IInv'
    OBVIOUS
  <1>1. UNCHANGED <<decision, candidate, task, alias, replay, audit, priced, queue, unseen, cut,
                    dropped, failures, call, run>>
    BY DEF vars, rows, jobs
  <1>2. TypeOK'
    BY <1>1 DEF IInv, TypeOK
  <1>3. Keeps /\ TasksKept
    BY <1>1 DEF IInv, TypeOK, Keeps, TasksKept, Exists, TellsOn, Told, HandedOver
  <1>. QED  BY <1>1, <1>2, <1>3, NobodyMoves

LEMMA RunKeeps ==
    ASSUME IInv, NEW w \in Runs, RunStep(w)
    PROVE  IInv'
  BY TakeLineKeeps, SearchKeeps, AcceptKeeps, PriceAcceptedKeeps, OpenTaskKeeps, EndRunKeeps
     DEF RunStep

LEMMA CallKeeps ==
    ASSUME IInv, NEW c \in Callers, CallStep(c)
    PROVE  IInv'
  <1>1. CASE ReadHead(c) \/ TeachFirst(c) \/ Resolve(c) \/ Tell(c) \/ Close(c) \/ Audit(c)
    BY <1>1, ReadHeadKeeps, TeachFirstKeeps, ResolveKeeps, TellKeeps, CloseKeeps, AuditKeeps
  <1>2. CASE PriceLine(c) \/ Record(c) \/ Check(c) \/ Commit(c) \/ Finish(c)
    BY <1>2, PriceLineKeeps, RecordKeeps, CheckKeeps, CommitKeeps, FinishKeeps
  <1>3. CASE \/ Scan(c) \/ (\E l \in Lines : SweepLine(c, l)) \/ Shut(c) \/ PriceSwept(c)
             \/ EndSweep(c) \/ Reply(c)
    BY <1>3, ScanKeeps, SweepLineKeeps, ShutKeeps, PriceSweptKeeps, EndSweepKeeps, ReplyKeeps
  <1>. QED  BY <1>1, <1>2, <1>3 DEF CallStep

LEMMA NextKeeps == IInv /\ [Next]_vars => IInv'
  <1>. SUFFICES ASSUME IInv, [Next]_vars PROVE IInv'
    OBVIOUS
  <1>1. ASSUME NEW w \in Runs, NEW q \in Quotations, OpenMatches(w, q) PROVE IInv'
    BY <1>1, OpenMatchesKeeps
  <1>2. ASSUME NEW w \in Runs, RunStep(w) \/ FailRun(w) \/ KillRun(w) PROVE IInv'
    BY <1>2, RunKeeps, FailRunKeeps, KillRunKeeps
  <1>3. ASSUME NEW c \in Callers, NEW k \in Keys, Send(c, k) PROVE IInv'
    BY <1>3, SendKeeps
  <1>4. ASSUME NEW c \in Callers, CallStep(c) \/ FailSweep(c) \/ Stop(c) PROVE IInv'
    BY <1>4, CallKeeps, FailSweepKeeps, StopKeeps
  <1>5. ASSUME NEW l \in Lines, NEW p \in Products, AddManualCandidate(l, p) PROVE IInv'
    BY <1>5, AddManualCandidateKeeps
  <1>6. ASSUME NEW q \in Quotations, Evaluate(q) \/ FailEvaluation(q) PROVE IInv'
    BY <1>6, EvaluateKeeps, FailEvaluationKeeps
  <1>7. CASE UNCHANGED vars
    BY <1>7, StutterKeeps
  <1>. QED  BY <1>1, <1>2, <1>3, <1>4, <1>5, <1>6, <1>7 DEF Next

\* The strengthened invariant holds, for any number of lines, keys, calls and reads.
THEOREM Invariance == Spec => []IInv
  BY InitIInv, NextKeeps, PTL DEF Spec

\* The rows and the calls are what the schema and the handlers say they are.
THEOREM TypesKept == Spec => []TypeOK
  <1>1. IInv => TypeOK
    BY DEF IInv
  <1>. QED  BY <1>1, Invariance, PTL

\* Every decision that no evaluation has read is with its maker, or was handed over to one, or its
\* maker was cut off, or swept it in its own quotation; and what a buyer is told of was handed over.
THEOREM DecisionsSeen == Spec => []DecisionsEvaluated
  <1>1. ASSUME IInv, NEW d \in Made PROVE Evaluated(d) \/ SweptAtHome(d)
    <2>1. CASE d \in unseen
      <3>1. \/ Told(d) \/ SweptAtHome(d)
            \/ \E c \in Callers : d \in Untold(c)
            \/ \E w \in Runs : d \in run[w].pending
        BY <1>1, <2>1 DEF IInv, UnseenInv
      <3>2. (\E c \in Callers : d \in Untold(c)) \/ (\E w \in Runs : d \in run[w].pending)
            => d \in OnTheWay
        BY DEF OnTheWay
      <3>. QED  BY <3>1, <3>2 DEF Evaluated, Told
    <2>. QED  BY <2>1 DEF Evaluated, HandedOver
  <1>2. ASSUME IInv, NEW c \in Callers, Answered(c), NEW d \in ToldOf(c) PROVE HandedOver(d)
    <2>1. PICK q \in Call : q = call[c] /\ CallOk(q) /\ q.pc = "answered"
      BY <1>2, CallState DEF Answered
    <2>2. /\ Kind(c) = "correct" <=> Correction(q)
          /\ OnLine(c) = AskOf(q).line /\ (Correction(q) <=> ~Resolution(q))
      BY <2>1, CallFacts DEF CallOk, PlaceOk, Kind, OnLine, Of, AskOf, Correction
    <2>3. Correction(q) \/ q.made
      BY <1>2, <2>1, <2>2 DEF ToldOf
    <2>4. HandedOver(q.id) /\ SweptGiven(q.swept, AskOf(q).line)
      BY <2>1, <2>2, <2>3 DEF CallOk, HandOk, FromScan, WithDecision
    <2>. QED  BY <1>2, <2>1, <2>2, <2>4 DEF ToldOf, SweptGiven, Given
  <1>3. IInv => DecisionsEvaluated
    BY <1>1, <1>2 DEF DecisionsEvaluated
  <1>. QED  BY <1>3, Invariance, PTL

\* One event tells of a correction, however often it is sent, and its replays answer that event.
THEOREM CorrectionsAuditedOnce == Spec => []CorrectionAuditedOnce
  <1>1. ASSUME IInv PROVE CorrectionAuditedOnce
    <2>. SUFFICES ASSUME NEW d \in Made, d[2] > 1
                  PROVE  /\ Cardinality({e \in audit : e.kind = "correct"
                                                       /\ e.response.decision = d}) <= 1
                         /\ \A c \in Callers : Answered(c) /\ call[c].id = d =>
                               \E e \in audit : e.kind = "correct" /\ e.response = Reported(c)
      BY DEF CorrectionAuditedOnce
    <2>. DEFINE told == {e \in audit : e.kind = "correct" /\ e.response.decision = d}
    <2>1. \A e, f \in told : e = f
      BY <1>1 DEF IInv, Tables, AuditInv
    <2>2. Cardinality(told) <= 1
      <3>1. CASE told = {}
        <4>. HIDE DEF told
        <4>1. Cardinality(told) = 0
          BY <3>1, FS_EmptySet
        <4>. QED  BY <4>1
      <3>2. ASSUME NEW e \in told PROVE Cardinality(told) <= 1
        <4>1. told = {e}
          BY <2>1
        <4>. HIDE DEF told
        <4>. QED  BY <4>1, FS_Singleton
      <3>. QED  BY <3>1, <3>2
    <2>3. ASSUME NEW c \in Callers, Answered(c), call[c].id = d
          PROVE  \E e \in audit : e.kind = "correct" /\ e.response = Reported(c)
      <3>1. PICK q \in Call : q = call[c] /\ CallOk(q) /\ q.pc = "answered"
        BY <1>1, <2>3, CallState DEF Answered
      <3>2. q.key # None /\ q.key \in Keys /\ replay[q.key] = q.id /\ q.id # None
            /\ (Correction(q) <=> ~Resolution(q))
        BY <3>1, CallFacts DEF CallOk, PlaceOk, DecisionOk, WithDecision, FromScan
      <3>3. Resolution(q) => q.id[2] = 1
        BY <1>1, <3>2 DEF IInv, Tables, ReplayInv, Resolution, AskOf
      <3>4. Correction(q)
        BY <2>3, <3>1, <3>2, <3>3
      <3>5. Reported(c) = [decision |-> q.id, learned |-> q.learned, swept |-> q.swept]
        BY <3>1 DEF Reported
      <3>. QED  BY <3>1, <3>4, <3>5 DEF CallOk, AnswerOk
    <2>. QED  BY <2>2, <2>3
  <1>. QED  BY <1>1, Invariance, PTL

\* What an answered call knows of its decision.
LEMMA AnsweredFacts ==
    ASSUME IInv, NEW c \in Callers, Answered(c)
    PROVE  /\ call[c].id \in DecisionIds /\ replay[call[c].key] = call[c].id
           /\ Costed(call[c].id)
  <1>1. PICK q \in Call : q = call[c] /\ CallOk(q) /\ q.pc = "answered"
    BY CallState DEF Answered
  <1>2. q.id # None /\ replay[q.key] = q.id /\ Costed(q.id)
    BY <1>1 DEF CallOk, DecisionOk, WithDecision, FromScan
  <1>. QED  BY <1>1, <1>2, CallFacts

\* Two answers to one key name one decision.
THEOREM KeysAgree == Spec => []RepliesAgree
  <1>1. IInv => RepliesAgree
    BY AnsweredFacts DEF RepliesAgree
  <1>. QED  BY <1>1, Invariance, PTL

\* A decision that a buyer was told of has a cost as long as it counts.
THEOREM AnswersPriced == Spec => []AnsweredIsPriced
  <1>1. IInv => AnsweredIsPriced
    BY AnsweredFacts DEF AnsweredIsPriced, Costed
  <1>. QED  BY <1>1, Invariance, PTL

\* A read of matches that goes through leaves each of its lines decided or with a buyer.
THEOREM LinesRouted == Spec => EveryLineRouted
  <1>. DEFINE Routed ==
         \A w \in Runs :
            run[w].pc = "next" /\ run'[w].pc = "idle" /\ run[w].todo = {} =>
               \A l \in LinesOf(run[w].quotation) : Decided(l) \/ task[l] = "open"
  <1>1. ASSUME IInv PROVE Routed
    <2>. SUFFICES ASSUME NEW w \in Runs, run[w].pc = "next", run[w].todo = {},
                         NEW l \in LinesOf(run[w].quotation)
                  PROVE  Decided(l) \/ task[l] = "open"
      OBVIOUS
    <2>1. PICK q \in Run : q = run[w] /\ ReadOk(q)
      BY <1>1, ReadState
    <2>. QED  BY <2>1 DEF ReadOk
  <1>2. IInv => [Routed]_vars
    BY <1>1
  <1>. HIDE DEF Routed
  <1>. QED  BY <1>2, Invariance, PTL DEF EveryLineRouted, Routed
=============================================================================
