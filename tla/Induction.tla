----------------------------- MODULE Induction -----------------------------
(***************************************************************************)
(* Induction and recursion for the proofs about trees of deltas.  A proof  *)
(* by induction is written as one about a least counterexample             *)
(* (LeastNatural), and a value that is looked up along parents exists       *)
(* because it exists up to every rank (ParentRecursion).  MinIs and MaxIs   *)
(* say what Min and Max of the community modules return.                   *)
(***************************************************************************)
EXTENDS Integers, FiniteSetsExt, WellFoundedInduction, TLAPS

\* A set of natural numbers that is not empty has a least element.
LEMMA LeastNatural ==
  ASSUME NEW S \in SUBSET Nat, S # {}
  PROVE  \E m \in S : \A n \in S : m <= n
<1> DEFINE R == {ss \in Nat \X Nat : ss[1] < ss[2]}
<1>1. IsWellFoundedOn(R, Nat)
  BY NatLessThanWellFounded DEF OpToRel
<1>2. \A n, m \in Nat : n < m => <<n, m>> \in R
  OBVIOUS
<1> HIDE DEF R
<1>3. PICK m \in S : \A n \in S : ~ (<<n, m>> \in R)
  BY <1>1, WFMin
<1>4. \A n \in S : m \in Nat /\ n \in Nat /\ ~ (n < m)
  BY <1>2, <1>3
<1> QED
  BY <1>4

\* What Min and Max are.
LEMMA MinIs ==
  ASSUME NEW S \in SUBSET Nat, S # {}
  PROVE  Min(S) \in S /\ \A n \in S : Min(S) <= n
<1>1. \E m \in S : \A n \in S : m <= n
  BY LeastNatural
<1> QED
  BY <1>1 DEF Min

LEMMA MaxIs ==
  ASSUME NEW b \in Nat, NEW S \in SUBSET Nat, S # {}, \A n \in S : n <= b
  PROVE  Max(S) \in S /\ \A n \in S : n <= Max(S)
<1> DEFINE T == {b - n : n \in S}
<1>1. T \in SUBSET Nat /\ T # {}
  <2>1. \A n \in S : b - n \in Nat
    OBVIOUS
  <2> QED
    BY <2>1
<1>2. PICK t \in T : \A u \in T : t <= u
  BY <1>1, LeastNatural
<1>3. PICK m \in S : t = b - m
  BY <1>2
<1>4. \A n \in S : b - m <= b - n
  BY <1>2, <1>3
<1>5. \A n \in S : n <= m
  BY <1>4
<1>6. \E x \in S : \A y \in S : x >= y
  BY <1>5
<1>7. Max(S) \in S /\ \A y \in S : Max(S) >= y
  BY <1>6 DEF Max
<1> QED
  BY <1>7

LEMMA MinUnique ==
  ASSUME NEW S \in SUBSET Nat, NEW m \in S, \A n \in S : m <= n
  PROVE  Min(S) = m
<1>1. Min(S) \in S /\ Min(S) <= m
  BY MinIs
<1>2. m <= Min(S)
  BY <1>1
<1>3. Min(S) \in Nat /\ m \in Nat
  BY <1>1
<1> QED
  BY <1>1, <1>2, <1>3

LEMMA MaxUnique ==
  ASSUME NEW b \in Nat, NEW S \in SUBSET Nat, \A n \in S : n <= b,
         NEW m \in S, \A n \in S : n <= m
  PROVE  Max(S) = m
<1>1. Max(S) \in S /\ m <= Max(S)
  BY MaxIs
<1>2. Max(S) <= m
  BY <1>1
<1>3. Max(S) \in Nat /\ m \in Nat
  BY <1>1
<1> QED
  BY <1>1, <1>2, <1>3

\* The same for a set whose elements have a rank.
LEMMA LeastRank ==
  ASSUME NEW S, NEW rank \in [S -> Nat], NEW T \in SUBSET S, T # {}
  PROVE  \E t \in T : \A u \in T : rank[t] <= rank[u]
<1> DEFINE R == {rank[t] : t \in T}
<1>1. R \in SUBSET Nat /\ R # {}
  OBVIOUS
<1>2. PICK m \in R : \A n \in R : m <= n
  BY <1>1, LeastNatural
<1> QED
  BY <1>2

\* Parents have a lower rank.
Descends(S, par, none, rank) ==
  \A a \in S : par[a] # none => par[a] \in S /\ rank[par[a]] < rank[a]

\* A value that is given where there is no parent, and elsewhere is that of the
\* parent.
LookedUp(g, S, par, none, base) ==
  \A a \in S : g[a] = IF par[a] = none THEN base[a] ELSE g[par[a]]

\* Such a value is defined for every tree.
LEMMA ParentRecursion ==
  ASSUME NEW S, NEW rank \in [S -> Nat], NEW par, NEW none, Descends(S, par, none, rank),
         NEW V, NEW base \in [S -> V]
  PROVE  \E g \in [S -> V] : LookedUp(g, S, par, none, base)
<1> USE DEF Descends, LookedUp
<1> DEFINE UpTo(n) == {a \in S : rank[a] < n}
           Value(g, a) == IF par[a] = none THEN base[a] ELSE g[par[a]]
           Solves(g, n) == g \in [UpTo(n) -> V] /\ \A a \in UpTo(n) : g[a] = Value(g, a)
<1>1. ASSUME NEW n \in Nat, NEW g, Solves(g, n)
      PROVE  \E h : Solves(h, n + 1)
  <2> DEFINE h == [a \in UpTo(n + 1) |-> Value(g, a)]
  <2>1. \A a \in UpTo(n + 1) : par[a] # none => par[a] \in UpTo(n) /\ par[a] \in UpTo(n + 1)
    OBVIOUS
  <2>2. \A a \in UpTo(n + 1) : Value(g, a) \in V
    BY <1>1, <2>1
  <2>3. \A b \in UpTo(n) : b \in UpTo(n + 1) /\ h[b] = g[b]
    BY <1>1
  <2>4. \A a \in UpTo(n + 1) : Value(g, a) = Value(h, a)
    BY <2>1, <2>3
  <2>5. Solves(h, n + 1)
    BY <2>2, <2>4
  <2> QED
    BY <2>5
<1>2. \E h : Solves(h, 0)
  <2>1. UpTo(0) = {}
    OBVIOUS
  <2>2. Solves([a \in {} |-> none], 0)
    BY <2>1
  <2> QED
    BY <2>2
<1>3. \A n \in Nat : \E g : Solves(g, n)
  <2> DEFINE Bad == {n \in Nat : ~ \E g : Solves(g, n)}
  <2> SUFFICES ASSUME Bad # {} PROVE FALSE
    OBVIOUS
  <2> HIDE DEF Solves
  <2>1. PICK m \in Bad : \A n \in Bad : m <= n
    BY LeastNatural
  <2>2. m # 0
    BY <1>2
  <2>3. m - 1 \in Nat /\ m - 1 \notin Bad
    BY <2>1, <2>2
  <2>4. PICK g : Solves(g, m - 1)
    BY <2>3
  <2>5. \E h : Solves(h, (m - 1) + 1)
    BY <1>1, <2>3, <2>4
  <2>6. (m - 1) + 1 = m
    BY <2>3
  <2> QED
    BY <2>5, <2>6
<1>4. ASSUME NEW n \in Nat, NEW m \in Nat, n <= m, NEW g, NEW h, Solves(g, n), Solves(h, m),
             NEW a \in UpTo(n)
      PROVE  g[a] = h[a]
  <2> DEFINE T == {b \in UpTo(n) : g[b] # h[b]}
  <2> SUFFICES ASSUME T # {} PROVE FALSE
    OBVIOUS
  <2>1. T \in SUBSET S
    OBVIOUS
  <2>2. PICK b \in T : \A c \in T : rank[b] <= rank[c]
    BY <2>1, LeastRank
  <2>3. par[b] # none => par[b] \in UpTo(n) /\ par[b] \notin T
    BY <2>2
  <2>4. Value(g, b) = Value(h, b)
    BY <2>3
  <2>5. b \in UpTo(m)
    BY <1>4
  <2> QED
    BY <1>4, <2>2, <2>4, <2>5
<1> DEFINE Pick(n) == CHOOSE g : Solves(g, n)
           G == [a \in S |-> Pick(rank[a] + 1)[a]]
<1>5. \A n \in Nat : Solves(Pick(n), n)
  <2> HIDE DEF Solves
  <2> QED
    BY <1>3
<1>6. ASSUME NEW a \in S
      PROVE  G[a] \in V /\ G[a] = Value(G, a)
  <2> HIDE DEF Pick
  <2>1. rank[a] + 1 \in Nat /\ a \in UpTo(rank[a] + 1)
    OBVIOUS
  <2>2. G[a] \in V /\ G[a] = Value(Pick(rank[a] + 1), a)
    BY <1>5, <2>1
  <2>3. ASSUME par[a] # none
        PROVE  Pick(rank[a] + 1)[par[a]] = G[par[a]]
    <3>1. /\ par[a] \in S /\ rank[par[a]] + 1 \in Nat
          /\ rank[par[a]] + 1 <= rank[a] + 1
          /\ par[a] \in UpTo(rank[par[a]] + 1)
      BY <2>3
    <3> DEFINE n == rank[par[a]] + 1
               m == rank[a] + 1
    <3>2. Solves(Pick(n), n) /\ Solves(Pick(m), m)
      BY <1>5, <2>1, <3>1
    <3>3. n \in Nat /\ m \in Nat /\ n <= m /\ par[a] \in UpTo(n)
      BY <2>1, <3>1
    <3>4. Pick(n)[par[a]] = Pick(m)[par[a]]
      <4> HIDE DEF Solves, UpTo, n, m
      <4> QED
        BY <1>4, <3>2, <3>3
    <3> QED
      BY <3>1, <3>4
  <2> QED
    BY <2>2, <2>3
<1>7. G \in [S -> V]
  BY <1>6
<1> QED
  BY <1>6, <1>7
=============================================================================
