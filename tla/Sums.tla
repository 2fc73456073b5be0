-------------------------------- MODULE Sums --------------------------------
(***************************************************************************)
(* Sums over finite sets: what the fold of the community modules returns.  *)
(* Induction over finite sets is used in the form of its minimal element,  *)
(* which names no property: a set of subsets has a minimal one.            *)
(***************************************************************************)
EXTENDS Functions, FiniteSetTheorems, TLAPS

\* Among some subsets of a finite set one contains no other.
LEMMA MinimalSubset ==
  ASSUME NEW S, IsFiniteSet(S), NEW T, T \subseteq SUBSET S, T # {}
  PROVE  \E x \in T : \A y \in T : y \subseteq x => y = x
<1>1. IsWellFoundedOn(StrictSubsetOrdering(S), SUBSET S)
  BY FS_StrictSubsetOrderingWellFounded, FS_FiniteSubsetsOfFinite
<1>2. PICK x \in T : \A y \in T : <<y, x>> \notin StrictSubsetOrdering(S)
  <2>. HIDE DEF StrictSubsetOrdering
  <2>. QED
    BY <1>1, WFMin
<1>. QED
  BY <1>2 DEF StrictSubsetOrdering

-----------------------------------------------------------------------------
(***************************************************************************)
(* The fold is a choice among the functions that satisfy its recursion.    *)
(* There is one for each finite set, and all of them agree.                *)
(***************************************************************************)
First(s) == CHOOSE x \in s : TRUE
SumsUp(f, g, T) ==
    g = [s \in SUBSET T |-> IF s = {} THEN 0 ELSE f[First(s)] + g[s \ {First(s)}]]

LEMMA SumChosen ==
  ASSUME NEW f, NEW T
  PROVE  SumFunctionOnSet(f, T) = (CHOOSE g : SumsUp(f, g, T))[T]
BY DEF SumFunctionOnSet, FoldFunctionOnSet, MapThenFoldSet, SumsUp, First

LEMMA SumsUpAt ==
  ASSUME NEW f, NEW g, NEW T, SumsUp(f, g, T), NEW s \in SUBSET T
  PROVE  g[s] = IF s = {} THEN 0 ELSE f[First(s)] + g[s \ {First(s)}]
<1>. DEFINE h == [t \in SUBSET T |-> IF t = {} THEN 0 ELSE f[First(t)] + g[t \ {First(t)}]]
<1>1. h[s] = IF s = {} THEN 0 ELSE f[First(s)] + g[s \ {First(s)}]
  OBVIOUS
<1>2. g = h
  BY DEF SumsUp
<1>. QED
  BY <1>1, <1>2, Zenon

LEMMA FirstIn == ASSUME NEW s, s # {} PROVE First(s) \in s
  BY DEF First

LEMMA SumsAgree ==
  ASSUME NEW f, NEW g, NEW h, NEW T, NEW U, IsFiniteSet(T), T \subseteq U,
         SumsUp(f, g, T), SumsUp(f, h, U), NEW s \in SUBSET T
  PROVE  g[s] = h[s]
<1>. SUFFICES ASSUME g[s] # h[s] PROVE FALSE
  OBVIOUS
<1>. DEFINE Bad == {t \in SUBSET T : g[t] # h[t]}
<1>1. PICK t \in Bad : \A u \in Bad : u \subseteq t => u = t
  <2>1. Bad \subseteq SUBSET T /\ Bad # {}
    OBVIOUS
  <2>. HIDE DEF Bad
  <2>. QED
    BY <2>1, MinimalSubset
<1>2. t # {} => First(t) \in t /\ t \ {First(t)} \notin Bad
  BY <1>1, FirstIn
<1>3. g[t] = h[t]
  BY <1>1, <1>2, SumsUpAt
<1>. QED
  BY <1>1, <1>3

LEMMA SumExists ==
  ASSUME NEW f, NEW T, IsFiniteSet(T)
  PROVE  \E g : SumsUp(f, g, T)
<1>. DEFINE Bad == {t \in SUBSET T : ~ \E g : SumsUp(f, g, t)}
<1>. SUFFICES ASSUME Bad # {} PROVE FALSE
  OBVIOUS
<1>1. PICK t \in Bad : \A u \in Bad : u \subseteq t => u = t
  <2>1. Bad \subseteq SUBSET T /\ Bad # {}
    OBVIOUS
  <2>. HIDE DEF Bad
  <2>. QED
    BY <2>1, MinimalSubset
<1>. DEFINE S(u) == SumFunctionOnSet(f, u)
            g == [s \in SUBSET t |-> IF s = {} THEN 0 ELSE f[First(s)] + S(s \ {First(s)})]
<1>2. ASSUME NEW u \in SUBSET t, u # t
      PROVE  S(u) = IF u = {} THEN 0 ELSE f[First(u)] + S(u \ {First(u)})
  <2>. DEFINE G(v) == CHOOSE h : SumsUp(f, h, v)
  <2>1. ASSUME NEW v \in SUBSET u PROVE SumsUp(f, G(v), v) /\ S(v) = G(v)[v] /\ IsFiniteSet(v)
    <3>1. v \notin Bad /\ v \in SUBSET T
      BY <1>1, <1>2
    <3>2. \E h : SumsUp(f, h, v)
      BY <3>1
    <3>3. SumsUp(f, G(v), v)
      BY <3>2, Zenon
    <3>. QED
      BY <3>1, <3>3, SumChosen, FS_Subset
  <2>. HIDE DEF G, S
  <2>2. CASE u = {}
    <3>1. SumsUp(f, G(u), u) /\ S(u) = G(u)[u]
      BY <2>1
    <3>. QED
      BY <3>1, <2>2, SumsUpAt
  <2>3. CASE u # {}
    <3>. DEFINE v == u \ {First(u)}
    <3>1. v \in SUBSET u
      OBVIOUS
    <3>2. SumsUp(f, G(u), u) /\ S(u) = G(u)[u]
      BY <2>1
    <3>3. SumsUp(f, G(v), v) /\ S(v) = G(v)[v] /\ IsFiniteSet(v)
      BY <2>1, <3>1
    <3>4. G(u)[u] = f[First(u)] + G(u)[v]
      BY <3>2, <2>3, SumsUpAt
    <3>5. G(v)[v] = G(u)[v]
      BY <3>1, <3>2, <3>3, SumsAgree
    <3>. QED
      BY <3>2, <3>3, <3>4, <3>5, <2>3
  <2>. QED
    BY <2>2, <2>3
<1>. HIDE DEF S
<1>3. ASSUME NEW s \in SUBSET t, s # {} PROVE g[s \ {First(s)}] = S(s \ {First(s)})
  <2>1. s \ {First(s)} \in SUBSET t /\ s \ {First(s)} # t
    BY <1>3, FirstIn
  <2>. QED
    BY <2>1, <1>2
<1>4. SumsUp(f, g, t)
  <2>1. g = [s \in SUBSET t |-> IF s = {} THEN 0 ELSE f[First(s)] + g[s \ {First(s)}]]
    BY <1>3
  <2>. QED
    BY <2>1 DEF SumsUp
<1>. QED
  BY <1>1, <1>4

-----------------------------------------------------------------------------
(***************************************************************************)
(* Hence the recursion holds of the sums themselves.                       *)
(***************************************************************************)
LEMMA SumOfEmpty == ASSUME NEW f PROVE SumFunctionOnSet(f, {}) = 0
<1>1. \E g : SumsUp(f, g, {})
  BY SumExists, FS_EmptySet
<1>2. SumsUp(f, CHOOSE g : SumsUp(f, g, {}), {})
  BY <1>1, Zenon
<1>. QED
  BY <1>2, SumsUpAt, SumChosen

LEMMA SumOfFirst ==
  ASSUME NEW f, NEW T, IsFiniteSet(T), T # {}
  PROVE  SumFunctionOnSet(f, T) = f[First(T)] + SumFunctionOnSet(f, T \ {First(T)})
<1>. DEFINE G(v) == CHOOSE h : SumsUp(f, h, v)
            v == T \ {First(T)}
<1>1. IsFiniteSet(v)
  BY FS_Subset
<1>2. (\E g : SumsUp(f, g, T)) /\ (\E g : SumsUp(f, g, v))
  BY <1>1, SumExists
<1>3. SumsUp(f, G(T), T) /\ SumsUp(f, G(v), v)
  BY <1>2, Zenon
<1>4. SumFunctionOnSet(f, T) = G(T)[T] /\ SumFunctionOnSet(f, v) = G(v)[v]
  BY SumChosen
<1>. HIDE DEF G
<1>5. G(T)[T] = f[First(T)] + G(T)[v]
  BY <1>3, SumsUpAt
<1>6. G(v)[v] = G(T)[v]
  BY <1>1, <1>3, SumsAgree
<1>. QED
  BY <1>4, <1>5, <1>6

LEMMA SumType ==
  ASSUME NEW D, NEW f \in [D -> Nat], NEW T \in SUBSET D, IsFiniteSet(T)
  PROVE  SumFunctionOnSet(f, T) \in Nat
<1>. DEFINE Bad == {t \in SUBSET T : SumFunctionOnSet(f, t) \notin Nat}
<1>. SUFFICES ASSUME Bad # {} PROVE FALSE
  OBVIOUS
<1>1. PICK t \in Bad : \A u \in Bad : u \subseteq t => u = t
  <2>1. Bad \subseteq SUBSET T /\ Bad # {}
    OBVIOUS
  <2>. HIDE DEF Bad
  <2>. QED
    BY <2>1, MinimalSubset
<1>2. t # {}
  <2>1. SumFunctionOnSet(f, t) \notin Nat
    BY <1>1
  <2>. QED
    BY <2>1, SumOfEmpty
<1>3. First(t) \in t /\ t \ {First(t)} \notin Bad
  BY <1>1, <1>2, FirstIn
<1>4. SumFunctionOnSet(f, t) = f[First(t)] + SumFunctionOnSet(f, t \ {First(t)})
  BY <1>1, <1>2, SumOfFirst, FS_Subset
<1>. QED
  BY <1>1, <1>3, <1>4

\* The sum does not depend on the order the elements are chosen in.
LEMMA SumOfRest ==
  ASSUME NEW D, NEW f \in [D -> Nat], NEW T \in SUBSET D, IsFiniteSet(T), NEW x \in T
  PROVE  SumFunctionOnSet(f, T) = f[x] + SumFunctionOnSet(f, T \ {x})
<1>. DEFINE S(u) == SumFunctionOnSet(f, u)
            Bad == {t \in SUBSET T : \E y \in t : S(t) # f[y] + S(t \ {y})}
<1>. HIDE DEF S
<1>. SUFFICES ASSUME Bad # {} PROVE FALSE
  BY DEF S
<1>1. PICK t \in Bad : \A u \in Bad : u \subseteq t => u = t
  <2>1. Bad \subseteq SUBSET T /\ Bad # {}
    OBVIOUS
  <2>. HIDE DEF Bad
  <2>. QED
    BY <2>1, MinimalSubset
<1>2. PICK y \in t : S(t) # f[y] + S(t \ {y})
  BY <1>1
<1>. DEFINE c == First(t)
<1>3. c \in t /\ t \ {c} \notin Bad /\ t \ {y} \notin Bad
  BY <1>1, <1>2, FirstIn
<1>4. S(t) = f[c] + S(t \ {c})
  BY <1>1, <1>2, SumOfFirst, FS_Subset DEF S
<1>5. c # y
  BY <1>2, <1>4
<1>6. S(t \ {c}) = f[y] + S((t \ {c}) \ {y})
  BY <1>1, <1>2, <1>3, <1>5
<1>7. S(t \ {y}) = f[c] + S((t \ {y}) \ {c})
  BY <1>1, <1>2, <1>3, <1>5
<1>8. (t \ {c}) \ {y} = (t \ {y}) \ {c}
  OBVIOUS
<1>9. S((t \ {c}) \ {y}) \in Nat
  BY <1>1, SumType, FS_Subset DEF S
<1>10. f[c] \in Nat /\ f[y] \in Nat
  BY <1>1, <1>2, <1>3
<1>11. S((t \ {c}) \ {y}) = S((t \ {y}) \ {c})
  BY <1>8
<1>. HIDE DEF c, Bad
<1>. QED
  BY <1>2, <1>4, <1>6, <1>7, <1>9, <1>10, <1>11

LEMMA SumBound ==
  ASSUME NEW D, NEW f \in [D -> Nat], NEW g \in [D -> Nat], NEW T \in SUBSET D, IsFiniteSet(T),
         \A x \in T : f[x] <= g[x]
  PROVE  SumFunctionOnSet(f, T) <= SumFunctionOnSet(g, T)
<1>. DEFINE S(h, u) == SumFunctionOnSet(h, u)
            Bad == {t \in SUBSET T : ~(S(f, t) <= S(g, t))}
<1>. HIDE DEF S
<1>. SUFFICES ASSUME Bad # {} PROVE FALSE
  BY DEF S
<1>1. PICK t \in Bad : \A u \in Bad : u \subseteq t => u = t
  <2>1. Bad \subseteq SUBSET T /\ Bad # {}
    OBVIOUS
  <2>. HIDE DEF Bad
  <2>. QED
    BY <2>1, MinimalSubset
<1>2. t # {}
  <2>1. ~(S(f, t) <= S(g, t))
    BY <1>1
  <2>2. S(f, {}) = 0 /\ S(g, {}) = 0
    BY SumOfEmpty DEF S
  <2>. QED
    BY <2>1, <2>2
<1>. DEFINE c == First(t)
<1>3. c \in t /\ t \ {c} \notin Bad
  BY <1>1, <1>2, FirstIn
<1>4. S(f, t) = f[c] + S(f, t \ {c}) /\ S(g, t) = g[c] + S(g, t \ {c})
  BY <1>1, <1>2, SumOfFirst, FS_Subset DEF S
<1>5. S(f, t \ {c}) \in Nat /\ S(g, t \ {c}) \in Nat
  BY <1>1, SumType, FS_Subset DEF S
<1>. QED
  BY <1>1, <1>3, <1>4, <1>5

LEMMA SumOfPart ==
  ASSUME NEW D, NEW f \in [D -> Nat], NEW T \in SUBSET D, IsFiniteSet(T), NEW U \in SUBSET T
  PROVE  SumFunctionOnSet(f, U) <= SumFunctionOnSet(f, T)
<1>. DEFINE S(u) == SumFunctionOnSet(f, u)
            Bad == {t \in SUBSET T : U \subseteq t /\ ~(S(U) <= S(t))}
<1>. HIDE DEF S
<1>. SUFFICES ASSUME Bad # {} PROVE FALSE
  BY DEF S
<1>1. PICK t \in Bad : \A u \in Bad : u \subseteq t => u = t
  <2>1. Bad \subseteq SUBSET T /\ Bad # {}
    OBVIOUS
  <2>. HIDE DEF Bad
  <2>. QED
    BY <2>1, MinimalSubset
<1>2. S(U) \in Nat /\ IsFiniteSet(t)
  BY <1>1, SumType, FS_Subset DEF S
<1>3. PICK y \in t : y \notin U
  BY <1>1, <1>2
<1>4. t \ {y} \notin Bad
  BY <1>1, <1>3
<1>5. S(t) = f[y] + S(t \ {y})
  BY <1>1, <1>2, SumOfRest DEF S
<1>6. S(t \ {y}) \in Nat /\ f[y] \in Nat
  BY <1>1, <1>2, SumType, FS_Subset DEF S
<1>. QED
  BY <1>1, <1>2, <1>3, <1>4, <1>5, <1>6
=============================================================================
