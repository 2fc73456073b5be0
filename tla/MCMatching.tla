----------------------------- MODULE MCMatching -----------------------------
(***************************************************************************)
(* Instances of Matching for TLC.                                          *)
(***************************************************************************)
EXTENDS MatchingProperties, TLC

CONSTANTS p1, p2, q1, q2, k1, k2

\* One wording, on a line of each quotation or on two lines of one.
SameText == [l \in Lines |-> "x"]
OneEach == 1 :> q1 @@ 2 :> q2
BothInOne == [l \in Lines |-> q1]

Resolves(l, p) == [kind |-> "resolve", line |-> l, product |-> p, learn |-> TRUE, supersedes |-> 0]
Corrects(l, p, n) ==
    [kind |-> "correct", line |-> l, product |-> p, learn |-> TRUE, supersedes |-> n]

\* A line is resolved, and its decision corrected.
ResolveThenCorrect == k1 :> Resolves(1, p1) @@ k2 :> Corrects(1, p2, 1)
\* A search finds two similar products, and on the second line nothing.
NoHit == [l \in Lines |-> IF l = 1 THEN {{Similar(p1), Similar(p2)}} ELSE {{}}]

\* Bound: two calls or reads are in progress at once.
TwoAtOnce ==
    Cardinality({c \in Callers : ~Quiet(c)}) + Cardinality({w \in Runs : run[w].pc # "idle"}) <= 2

PickSecond == {<<2, p2>>}

\* Bound: a product is picked by hand for the second line, or the first line is corrected.
PickOrCorrect == (\E x \in candidate[2] : x.by = "picked") => Len(decision[1]) < 2

CallersAlike == Permutations(Callers)
=============================================================================
