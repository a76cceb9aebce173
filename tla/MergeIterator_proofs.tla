------------------------- MODULE MergeIterator_proofs -------------------------
(***************************************************************************)
(* Proofs about MergeIterator.  The iterators move together: the ones that *)
(* show nothing at the key of the first are not behind it, and the one of  *)
(* the delta that decides over a key has not passed that key unless the    *)
(* first has (Covers).  With it each call of operator++ and operator-- is  *)
(* at the neighbour, whichever way the iterators came.                     *)
(***************************************************************************)
EXTENDS MergeIterator, Induction

-----------------------------------------------------------------------------
(* The deltas and what they show *)

ChainOK ==
  /\ chain \in Seq(Delta)
  /\ Len(chain) > 0

LEMMA ChainIs ==
  ASSUME ChainOK
  PROVE  /\ Len(chain) \in Nat
         /\ Deltas = 1 .. Len(chain)
         /\ 1 \in Deltas
         /\ \A d \in Deltas : Held(d) \subseteq Keys
         /\ KeyCount \in Nat
         /\ End \in Nat
         /\ \A k \in Keys : k \in Nat /\ k > 0 /\ k < End
BY ConstantsAssumption DEF ChainOK, Delta, Deltas, Held, Keys, End

\* A delta has the key, and no higher one has modified it.
Clean(d, j) == j \in Held(d) /\ ~Dirty(d, j)

\* A key is shown by one delta, the one that decides over it.
LEMMA CleanIs ==
  ASSUME ChainOK, NEW d \in Deltas, NEW j
  PROVE  Clean(d, j) <=> j \in Visible /\ d = Decides(j)
<1> DEFINE S == {e \in Deltas : Modified(e, j)} \cup {1}
<1>1. /\ Len(chain) \in Nat
      /\ Deltas = 1 .. Len(chain)
      /\ S \in SUBSET Nat /\ S # {} /\ \A n \in S : n <= Len(chain)
  BY ChainIs
<1>2. Max(S) \in S /\ \A e \in S : e <= Max(S)
  BY <1>1, MaxIs
<1>3. Decides(j) = Max(S)
  BY DEF Decides
<1>4. Clean(d, j) => d \in S /\ \A e \in S : e <= d
  <2> SUFFICES ASSUME Clean(d, j) PROVE d \in S /\ \A e \in S : e <= d
    OBVIOUS
  <2>1. Modified(d, j)
    BY DEF Clean, Held, Modified
  <2>2. \A e \in Deltas : Modified(e, j) => e <= d
    BY <1>1 DEF Clean, Dirty
  <2> QED
    BY <1>1, <2>1, <2>2
<1>5. Clean(d, j) => d = Decides(j)
  <2> HIDE DEF S
  <2>1. Clean(d, j) => d <= Max(S) /\ Max(S) <= d
    BY <1>2, <1>4
  <2>2. d \in Nat
    BY <1>1
  <2>3. Max(S) \in Nat
    BY <1>1, <1>2, Zenon
  <2> QED
    BY <1>3, <2>1, <2>2, <2>3
<1>6. d = Decides(j) => ~Dirty(d, j)
  <2> SUFFICES ASSUME d = Decides(j), NEW e \in Deltas, e > d, Modified(e, j) PROVE FALSE
    BY DEF Dirty
  <2>1. e \in S
    OBVIOUS
  <2>2. e <= d
    BY <1>2, <1>3, <2>1
  <2> QED
    BY <1>1, <2>2
<1>7. Held(d) \subseteq Keys
  BY ChainIs
<1> QED
  BY <1>5, <1>6, <1>7 DEF Clean, Visible

LEMMA VisibleIs ==
  ASSUME ChainOK, NEW j \in Visible
  PROVE  /\ j \in Keys
         /\ Decides(j) \in Deltas
         /\ Clean(Decides(j), j)
<1> DEFINE S == {e \in Deltas : Modified(e, j)} \cup {1}
<1>1. /\ Len(chain) \in Nat
      /\ Deltas = 1 .. Len(chain) /\ 1 \in Deltas
      /\ S \in SUBSET Nat /\ S # {} /\ \A n \in S : n <= Len(chain)
  BY ChainIs
<1>2. Max(S) \in S
  BY <1>1, MaxIs
<1>3. Decides(j) \in Deltas
  BY <1>1, <1>2 DEF Decides
<1> QED
  BY <1>3, CleanIs DEF Visible
-----------------------------------------------------------------------------
(* The iterator of one delta, and the first of several *)

\* q is where an iterator of the delta that looks for k stops.
FirstFrom(d, k, q) ==
  /\ q \in Held(d) \cup {End}
  /\ q >= k
  /\ \A j \in Held(d) : j >= k => q <= j

LEMMA LowerBoundIs ==
  ASSUME ChainOK, NEW d \in Deltas, NEW k \in Nat, k <= End
  PROVE  FirstFrom(d, k, BackendLowerBound(d, k))
<1> DEFINE S == {j \in Held(d) : j >= k} \cup {End}
<1>1. S \in SUBSET Nat /\ S # {}
  BY ChainIs
<1>2. Min(S) \in S /\ \A n \in S : Min(S) <= n
  BY <1>1, MinIs
<1>3. BackendLowerBound(d, k) = Min(S)
  BY DEF BackendLowerBound
<1>4. FirstFrom(d, k, Min(S))
  <2>1. Min(S) \in Held(d) \cup {End} /\ (Min(S) >= k \/ Min(S) = End)
    BY <1>2
  <2>2. End >= k
    BY ChainIs
  <2>3. \A j \in Held(d) : j >= k => Min(S) <= j
    BY <1>2
  <2> HIDE DEF S
  <2> QED
    BY <2>1, <2>2, <2>3 DEF FirstFrom
<1> HIDE DEF S
<1> QED
  BY <1>3, <1>4

LEMMA BeginIs ==
  ASSUME ChainOK, NEW d \in Deltas
  PROVE  FirstFrom(d, 1, BackendBegin(d))
<1> DEFINE S == {j \in Held(d) : j >= 1} \cup {End}
<1>1. /\ Held(d) \subseteq Keys /\ End \in Nat
      /\ \A k \in Keys : k \in Nat /\ k > 0 /\ k < End
  BY ChainIs
<1>2. S = Held(d) \cup {End}
  <2>1. \A j \in Held(d) : j >= 1
    BY <1>1
  <2> QED
    BY <2>1
<1>3. BackendBegin(d) = BackendLowerBound(d, 1)
  BY <1>2 DEF BackendBegin, BackendLowerBound
<1>4. 1 <= End
  BY ConstantsAssumption DEF End
<1> QED
  BY <1>3, <1>4, LowerBoundIs

\* The first iterator: none is before it, and of those at its key it is that of
\* the highest delta.
FirstOf(p, f) ==
  /\ f \in Deltas
  /\ \A e \in Deltas : p[f] <= p[e]
  /\ \A e \in Deltas : p[e] = p[f] => e <= f

LEMMA PositionIs ==
  ASSUME ChainOK, NEW p \in Positions
  PROVE  \A d \in Deltas : /\ p[d] \in Nat
                           /\ p[d] <= End
                           /\ p[d] # End => p[d] \in Keys /\ p[d] < End
BY ChainIs DEF Positions

LEMMA ForemostIs ==
  ASSUME ChainOK, NEW p \in Positions
  PROVE  FirstOf(p, Foremost(p)) /\ KeyAt(p) = p[Foremost(p)]
<1>1. /\ Len(chain) \in Nat
      /\ Deltas = 1 .. Len(chain) /\ 1 \in Deltas
      /\ \A d \in Deltas : d \in Nat /\ d <= Len(chain)
      /\ \A d \in Deltas : p[d] \in Nat
  BY ChainIs, PositionIs
<1> DEFINE L == {d \in Deltas : \A e \in Deltas : p[d] <= p[e]}
<1>2. PICK m \in Deltas : \A e \in Deltas : p[m] <= p[e]
  <2> DEFINE V == {p[d] : d \in Deltas}
  <2>1. V \in SUBSET Nat /\ V # {}
    BY <1>1
  <2>2. PICK v \in V : \A n \in V : v <= n
    BY <2>1, LeastNatural
  <2> QED
    BY <2>2
<1>3. L \in SUBSET Nat /\ m \in L /\ \A n \in L : n <= Len(chain)
  BY <1>1, <1>2
<1>4. Max(L) \in L /\ \A n \in L : n <= Max(L)
  <2> HIDE DEF L
  <2> QED
    BY <1>1, <1>3, MaxIs
<1>5. Foremost(p) = Max(L)
  BY DEF Foremost
<1>6. FirstOf(p, Max(L))
  <2>1. Max(L) \in Deltas /\ \A e \in Deltas : p[Max(L)] <= p[e]
    BY <1>4
  <2>2. ASSUME NEW e \in Deltas, p[e] = p[Max(L)]
        PROVE  e <= Max(L)
    <3>1. e \in L
      BY <2>1, <2>2
    <3> HIDE DEF L
    <3> QED
      BY <1>4, <3>1
  <2> HIDE DEF L
  <2> QED
    BY <2>1, <2>2 DEF FirstOf
<1> HIDE DEF L
<1> QED
  BY <1>5, <1>6 DEF KeyAt
LEMMA FirstUnique ==
  ASSUME ChainOK, NEW p \in Positions, NEW f, FirstOf(p, f), NEW g, FirstOf(p, g)
  PROVE  f = g
<1>1. /\ f \in Deltas /\ g \in Deltas /\ f \in Nat /\ g \in Nat
      /\ p[f] \in Nat /\ p[g] \in Nat
  BY ChainIs, PositionIs DEF FirstOf
<1>2. p[f] <= p[g] /\ p[g] <= p[f]
  BY <1>1 DEF FirstOf
<1>3. f <= g /\ g <= f
  BY <1>1, <1>2 DEF FirstOf
<1> QED
  BY <1>1, <1>3

-----------------------------------------------------------------------------
(* resolve_conflicts *)

Good(p) == p \in Positions /\ \A d \in Deltas : p[d] \in Held(d) \cup {End}

\* The loop ends: the first iterator is at the end or at a key that shows.
Settled(p, f) == p[f] = End \/ ~Dirty(f, p[f])

\* A round of the loop.
Advanced(p, f) == [p EXCEPT ![f] = After(f, @)]

LEMMA AdvancedIs ==
  ASSUME ChainOK, NEW p \in Positions, NEW f, FirstOf(p, f), p[f] # End,
         NEW q, q = Advanced(p, f)
  PROVE  /\ q \in Positions
         /\ FirstFrom(f, p[f] + 1, q[f])
         /\ \A d \in Deltas \ {f} : q[d] = p[d]
         /\ \A d \in Deltas : q[d] >= p[d]
         /\ Good(p) => Good(q)
<1>1. f \in Deltas /\ p[f] \in Keys /\ p[f] \in Nat /\ p[f] + 1 \in Nat /\ p[f] + 1 <= End
  BY PositionIs, ChainIs DEF FirstOf
<1> DEFINE a == After(f, p[f])
<1>2. FirstFrom(f, p[f] + 1, a)
  BY <1>1, LowerBoundIs DEF After
<1>3. q = [p EXCEPT ![f] = a]
  BY DEF Advanced
<1>4. a \in Held(f) \cup {End} /\ a >= p[f]
  BY <1>1, <1>2, ChainIs DEF FirstFrom
<1> HIDE DEF a
<1>5. Held(f) \subseteq Keys
  BY <1>1, ChainIs
<1>6. q \in Positions /\ q[f] = a
  BY <1>1, <1>3, <1>4, <1>5 DEF Positions
<1>7. \A d \in Deltas \ {f} : q[d] = p[d]
  BY <1>3 DEF Positions
<1>8. \A d \in Deltas : q[d] >= p[d]
  BY <1>4, <1>6, <1>7, PositionIs
<1> QED
  BY <1>2, <1>4, <1>6, <1>7, <1>8 DEF Good

\* A bound on the rounds that are left: each moves an iterator of the first key,
\* and then the first key is greater, or the same and its delta a lower one.
Rounds(p) == (End - KeyAt(p)) * (Len(chain) + 1) + Foremost(p)

LEMMA Lexicographic ==
  ASSUME NEW n \in Nat, NEW a \in Nat, NEW b \in Nat, NEW c \in Nat, NEW d \in Nat,
         b <= n, a < c \/ (a = c /\ b < d)
  PROVE  a * (n + 1) + b < c * (n + 1) + d
<1>1. CASE a < c
  <2>1. PICK e \in Nat : c = a + 1 + e
    <3>1. c - a - 1 \in Nat /\ c = a + 1 + (c - a - 1)
      BY <1>1
    <3> QED
      BY <3>1
  <2>2. (a + 1 + e) * (n + 1) = a * (n + 1) + (n + 1) + e * (n + 1)
    OBVIOUS
  <2>3. a * (n + 1) \in Nat /\ e * (n + 1) \in Nat
    OBVIOUS
  <2> DEFINE x == a * (n + 1)
             y == e * (n + 1)
  <2>4. c * (n + 1) = x + (n + 1) + y /\ x \in Nat /\ y \in Nat
    BY <2>1, <2>2, <2>3
  <2> HIDE DEF x, y
  <2>5. x + b < x + (n + 1) + y + d
    BY <2>4
  <2> QED
    BY <2>4, <2>5 DEF x
<1>2. CASE a = c /\ b < d
  <2>1. a * (n + 1) \in Nat
    OBVIOUS
  <2> DEFINE x == a * (n + 1)
  <2>2. c * (n + 1) = x /\ x \in Nat
    BY <1>2, <2>1
  <2> HIDE DEF x
  <2>3. x + b < x + d
    BY <1>2, <2>2
  <2> QED
    BY <2>2, <2>3 DEF x
<1> QED
  BY <1>1, <1>2

LEMMA RoundsIs ==
  ASSUME ChainOK, NEW p \in Positions
  PROVE  Rounds(p) \in Nat
<1>1. /\ End - KeyAt(p) \in Nat
      /\ Foremost(p) \in Nat
      /\ Len(chain) + 1 \in Nat
  BY ForemostIs, PositionIs, ChainIs DEF FirstOf
<1> QED
  BY <1>1 DEF Rounds

LEMMA RoundsFall ==
  ASSUME ChainOK, NEW p \in Positions, NEW f, FirstOf(p, f), p[f] # End,
         NEW q \in Positions, q = Advanced(p, f)
  PROVE  Rounds(q) < Rounds(p)
<1> DEFINE g == Foremost(q)
           e == Foremost(p)
<1>1. FirstOf(q, g) /\ KeyAt(q) = q[g] /\ FirstOf(p, e) /\ KeyAt(p) = p[e]
  BY ForemostIs
<1> HIDE DEF g, e
<1>2. /\ Len(chain) \in Nat /\ End \in Nat
      /\ Deltas = 1 .. Len(chain)
      /\ \A d \in Deltas : d \in Nat /\ d <= Len(chain)
      /\ \A d \in Deltas : p[d] \in Nat /\ p[d] <= End /\ q[d] \in Nat /\ q[d] <= End
  BY ChainIs, PositionIs
<1>3. /\ FirstFrom(f, p[f] + 1, q[f])
      /\ \A d \in Deltas \ {f} : q[d] = p[d]
      /\ \A d \in Deltas : q[d] >= p[d]
  BY AdvancedIs
<1>4. e = f
  BY <1>1, <1>2 DEF FirstOf
<1>5. q[g] > p[f] \/ (q[g] = p[f] /\ g < f)
  BY <1>1, <1>2, <1>3 DEF FirstOf, FirstFrom
<1>6. /\ End - q[g] \in Nat /\ End - p[f] \in Nat /\ g \in Nat /\ f \in Nat /\ g <= Len(chain)
      /\ End - q[g] < End - p[f] \/ (End - q[g] = End - p[f] /\ g < f)
  BY <1>1, <1>2, <1>5 DEF FirstOf
<1>7. (End - q[g]) * (Len(chain) + 1) + g < (End - p[f]) * (Len(chain) + 1) + f
  BY <1>2, <1>6, Lexicographic
<1> QED
  BY <1>1, <1>4, <1>7 DEF Rounds, g, e
LEMMA ResolveUnfolds ==
  ASSUME ChainOK, NEW p \in Positions, NEW f, FirstOf(p, f)
  PROVE  Resolve(p) = IF Settled(p, f) THEN p ELSE Resolve(Advanced(p, f))
<1> DEFINE Round(r, x) == LET e == Foremost(x)
                          IN  IF x[e] # End /\ Dirty(e, x[e]) THEN r[[x EXCEPT ![e] = After(e, @)]]
                              ELSE x
           resolved == CHOOSE r : r = [x \in Positions |-> Round(r, x)]
<1>1. PICK none : none \notin Positions
  BY NoSetContainsEverything
<1> DEFINE rank == [x \in Positions |-> Rounds(x)]
           par == [x \in Positions |->
                     IF Settled(x, Foremost(x)) THEN none ELSE Advanced(x, Foremost(x))]
           base == [x \in Positions |-> x]
<1>2. rank \in [Positions -> Nat]
  BY RoundsIs
<1>3. Descends(Positions, par, none, rank)
  <2> SUFFICES ASSUME NEW x \in Positions, par[x] # none
               PROVE  par[x] \in Positions /\ rank[par[x]] < rank[x]
    BY DEF Descends
  <2>1. FirstOf(x, Foremost(x))
    BY ForemostIs
  <2>2. par[x] = Advanced(x, Foremost(x)) /\ x[Foremost(x)] # End
    BY DEF Settled
  <2>3. par[x] \in Positions
    BY <2>1, <2>2, AdvancedIs
  <2>4. Rounds(par[x]) < Rounds(x)
    BY <2>1, <2>2, <2>3, RoundsFall
  <2> QED
    BY <2>3, <2>4
<1>4. base \in [Positions -> Positions]
  OBVIOUS
<1>5. PICK g \in [Positions -> Positions] : LookedUp(g, Positions, par, none, base)
  <2> HIDE DEF rank, par, base
  <2> QED
    BY <1>2, <1>3, <1>4, ParentRecursion
<1>6. ASSUME NEW x \in Positions
      PROVE  g[x] = Round(g, x)
  <2>1. g[x] = IF par[x] = none THEN x ELSE g[par[x]]
    BY <1>5 DEF LookedUp
  <2>2. Settled(x, Foremost(x)) => g[x] = x
    BY <2>1
  <2>3. ~Settled(x, Foremost(x)) => g[x] = g[Advanced(x, Foremost(x))]
    <3> SUFFICES ASSUME ~Settled(x, Foremost(x)) PROVE g[x] = g[Advanced(x, Foremost(x))]
      OBVIOUS
    <3>1. Advanced(x, Foremost(x)) \in Positions
      BY ForemostIs, AdvancedIs DEF Settled
    <3> QED
      BY <1>1, <2>1, <3>1
  <2> QED
    BY <2>2, <2>3, Zenon DEF Settled, Advanced
<1>7. g = [x \in Positions |-> Round(g, x)]
  <2> HIDE DEF Round
  <2> QED
    BY <1>6
<1>8. resolved = [x \in Positions |-> Round(resolved, x)]
  <2> HIDE DEF Round
  <2> QED
    BY <1>7
<1>9. \A x \in Positions : Resolve(x) = resolved[x]
  BY Zenon DEF Resolve
<1>10. Foremost(p) = f
  BY ForemostIs, FirstUnique
<1>11. resolved[p] = Round(resolved, p)
  <2> HIDE DEF Round, resolved
  <2> QED
    BY <1>8
<1>12. resolved[p] = IF p[f] # End /\ Dirty(f, p[f]) THEN resolved[Advanced(p, f)] ELSE p
  <2> HIDE DEF resolved
  <2> QED
    BY <1>10, <1>11, Zenon DEF Advanced
<1>13. ~Settled(p, f) => Advanced(p, f) \in Positions
  BY AdvancedIs DEF Settled
<1> HIDE DEF resolved
<1> QED
  BY <1>9, <1>12, <1>13 DEF Settled

\* What resolve_conflicts does: iterators move forward, none past a key its
\* delta shows, until the first is at a key that shows.
ResolvedFrom(p, q) ==
  /\ Good(q)
  /\ \A f : FirstOf(q, f) => Settled(q, f)
  /\ \A d \in Deltas : q[d] >= p[d]
  /\ \A d \in Deltas, j \in Keys : Clean(d, j) /\ p[d] <= j => q[d] <= j

LEMMA ResolveIs ==
  ASSUME ChainOK, NEW p, Good(p)
  PROVE  ResolvedFrom(p, Resolve(p))
<1> DEFINE rank == [x \in Positions |-> Rounds(x)]
           Bad == {x \in Positions : Good(x) /\ ~ResolvedFrom(x, Resolve(x))}
<1> SUFFICES ASSUME Bad # {} PROVE FALSE
  BY DEF Good
<1>1. rank \in [Positions -> Nat]
  BY RoundsIs
<1>2. PICK x \in Bad : \A y \in Bad : rank[x] <= rank[y]
  <2>1. Bad \in SUBSET Positions
    OBVIOUS
  <2> HIDE DEF rank, Bad
  <2> QED
    BY <1>1, <2>1, LeastRank
<1>3. PICK f : FirstOf(x, f)
  BY ForemostIs
<1>4. x \in Positions /\ Good(x) /\ ~ResolvedFrom(x, Resolve(x))
  OBVIOUS
<1>5. /\ f \in Deltas /\ Len(chain) \in Nat /\ Deltas = 1 .. Len(chain)
      /\ \A d \in Deltas : d \in Nat /\ x[d] \in Nat
      /\ \A k \in Keys : k \in Nat
  BY <1>3, <1>4, ChainIs, PositionIs DEF FirstOf
<1>6. CASE Settled(x, f)
  <2>1. Resolve(x) = x
    BY <1>3, <1>4, <1>6, ResolveUnfolds
  <2>2. \A e : FirstOf(x, e) => e = f
    BY <1>3, <1>4, FirstUnique
  <2>3. ResolvedFrom(x, x)
    BY <1>4, <1>5, <1>6, <2>2 DEF ResolvedFrom
  <2> QED
    BY <1>4, <2>1, <2>3
<1>7. CASE ~Settled(x, f)
  <2> DEFINE y == Advanced(x, f)
             z == Resolve(y)
  <2>1. Resolve(x) = z
    BY <1>3, <1>4, <1>7, ResolveUnfolds
  <2>2. x[f] # End /\ Dirty(f, x[f])
    BY <1>7 DEF Settled
  <2>3. /\ y \in Positions
        /\ FirstFrom(f, x[f] + 1, y[f])
        /\ \A d \in Deltas \ {f} : y[d] = x[d]
        /\ \A d \in Deltas : y[d] >= x[d]
        /\ Good(y)
    <3> HIDE DEF y
    <3>1. y = Advanced(x, f)
      BY DEF y
    <3> QED
      BY <1>3, <1>4, <2>2, <3>1, AdvancedIs
  <2>4. Rounds(y) < Rounds(x)
    BY <1>3, <1>4, <2>2, <2>3, RoundsFall
  <2>5. ResolvedFrom(y, z)
    <3>1. Rounds(y) \in Nat /\ Rounds(x) \in Nat
      BY <1>4, <2>3, RoundsIs
    <3>2. rank[y] = Rounds(y) /\ rank[x] = Rounds(x)
      BY <1>4, <2>3
    <3>3. y \notin Bad
      <4> HIDE DEF Bad, y, rank
      <4> QED
        BY <1>2, <2>4, <3>1, <3>2
    <3> HIDE DEF y
    <3> QED
      BY <2>3, <3>3
  <2> HIDE DEF y, z
  <2>6. \A d \in Deltas : y[d] \in Nat /\ z[d] \in Nat
    BY <2>3, <2>5, PositionIs DEF ResolvedFrom, Good
  <2>7. \A d \in Deltas : z[d] >= x[d]
    BY <1>5, <2>3, <2>5, <2>6 DEF ResolvedFrom
  <2>8. ASSUME NEW d \in Deltas, NEW j \in Keys, Clean(d, j), x[d] <= j
        PROVE  z[d] <= j
    <3>1. d = f => j # x[f]
      BY <2>2, <2>8 DEF Clean
    <3>2. d = f => j >= x[f] + 1 /\ j \in Held(f)
      BY <1>5, <2>8, <3>1 DEF Clean
    <3>3. y[d] <= j
      BY <2>3, <2>8, <3>2 DEF FirstFrom
    <3> QED
      BY <2>5, <2>8, <3>3 DEF ResolvedFrom
  <2>9. ResolvedFrom(x, z)
    BY <2>5, <2>7, <2>8 DEF ResolvedFrom
  <2> QED
    BY <1>4, <2>1, <2>9
<1> QED
  BY <1>6, <1>7
-----------------------------------------------------------------------------
(* Where a merge iterator is *)

\* No iterator has passed a key its delta shows, of those from the first on.
Covers(p, f) == \A d \in Deltas, j \in Keys : Clean(d, j) /\ j >= p[f] => p[d] <= j

\* f is the iterator operator* gives the object of.
LiesAt(p, f) ==
  /\ Good(p)
  /\ FirstOf(p, f)
  /\ Settled(p, f)
  /\ Covers(p, f)

LEMMA LiesAtIs ==
  ASSUME ChainOK, NEW p, NEW f, LiesAt(p, f)
  PROVE  /\ f \in Deltas
         /\ p \in Positions
         /\ f = Foremost(p)
         /\ p[f] = KeyAt(p)
         /\ p[f] # End => p[f] \in Visible /\ f = Decides(p[f]) /\ Clean(f, p[f])
<1>1. f \in Deltas /\ p \in Positions
  BY DEF LiesAt, FirstOf, Good
<1>2. f = Foremost(p) /\ p[f] = KeyAt(p)
  BY <1>1, ForemostIs, FirstUnique DEF LiesAt
<1>3. p[f] # End => Clean(f, p[f])
  BY <1>1 DEF LiesAt, Good, Settled, Clean
<1> QED
  BY <1>1, <1>2, <1>3, CleanIs

\* Two that are at the same key are equal.
LEMMA EqualIs ==
  ASSUME ChainOK, NEW p, NEW f, LiesAt(p, f), NEW q, NEW g, LiesAt(q, g)
  PROVE  Equal(p, q) <=> p[f] = q[g]
BY LiesAtIs DEF Equal

\* m is the first visible key from k on, or the end.
FirstVisible(k, m) ==
  /\ m = End \/ (m \in Visible /\ m >= k)
  /\ \A j \in Visible : j >= k => m <= j

LEMMA FirstVisibleIs ==
  ASSUME ChainOK, NEW k \in Nat, NEW m, FirstVisible(k + 1, m)
  PROVE  m = Successor(k)
<1> DEFINE S == {j \in Visible : j > k} \cup {End}
<1>1. S \in SUBSET Nat
  BY ChainIs DEF Visible
<1>2. m \in S
  BY VisibleIs, ChainIs DEF FirstVisible
<1>3. \A n \in S : m <= n
  <2>1. \A j \in Visible : j > k => m <= j
    BY VisibleIs, ChainIs DEF FirstVisible
  <2>2. m <= End
    BY <1>1, <1>2, ChainIs, VisibleIs DEF FirstVisible
  <2> QED
    BY <2>1, <2>2
<1>4. Min(S) = m
  <2> HIDE DEF S
  <2> QED
    BY <1>1, <1>2, <1>3, MinUnique
<1> QED
  BY <1>4 DEF Successor

\* An iterator at or behind every shown key from k on, and not before k, is
\* at the first visible key from k on.
LEMMA LandsAt ==
  ASSUME ChainOK, NEW k \in Nat, NEW q, NEW f, LiesAt(q, f), q[f] >= k,
         \A d \in Deltas, j \in Keys : Clean(d, j) /\ j >= k => q[d] <= j
  PROVE  FirstVisible(k, q[f])
<1>1. q[f] = End \/ (q[f] \in Visible /\ q[f] >= k)
  BY LiesAtIs
<1>2. ASSUME NEW j \in Visible, j >= k
      PROVE  q[f] <= j
  <2>1. j \in Keys /\ Decides(j) \in Deltas /\ Clean(Decides(j), j)
    BY VisibleIs
  <2>2. q[Decides(j)] <= j
    BY <1>2, <2>1
  <2>3. /\ f \in Deltas /\ q \in Positions
        /\ q[f] <= q[Decides(j)]
    BY <2>1, LiesAtIs DEF LiesAt, FirstOf
  <2>4. q[f] \in Nat /\ q[Decides(j)] \in Nat /\ j \in Nat
    BY <2>1, <2>3, PositionIs, ChainIs
  <2> QED
    BY <2>2, <2>3, <2>4
<1> QED
  BY <1>1, <1>2 DEF FirstVisible

\* Iterators that are each where their delta begins from k on.
LEMMA ResolvedBoundIs ==
  ASSUME ChainOK, NEW k \in Nat, k <= End, NEW p \in [Deltas -> Keys \cup {End}],
         \A d \in Deltas : FirstFrom(d, k, p[d]),
         NEW q, q = Resolve(p)
  PROVE  \E f : LiesAt(q, f) /\ FirstVisible(k, q[f])
<1>1. Good(p)
  BY DEF Good, Positions, FirstFrom
<1>2. ResolvedFrom(p, q)
  BY <1>1, ResolveIs
<1>3. q \in Positions
  BY <1>2 DEF ResolvedFrom, Good
<1>4. PICK f : FirstOf(q, f)
  BY <1>3, ForemostIs
<1>5. /\ f \in Deltas
      /\ \A d \in Deltas : q[d] \in Nat /\ p[d] \in Nat /\ q[d] >= p[d]
      /\ \A j \in Keys : j \in Nat
  BY <1>1, <1>2, <1>3, <1>4, PositionIs, ChainIs DEF FirstOf, ResolvedFrom, Good
<1>6. q[f] >= k
  BY <1>5 DEF FirstFrom
<1>7. ASSUME NEW d \in Deltas, NEW j \in Keys, Clean(d, j), j >= k
      PROVE  q[d] <= j
  <2>1. p[d] <= j
    BY <1>7 DEF FirstFrom, Clean
  <2> QED
    BY <1>2, <1>7, <2>1 DEF ResolvedFrom
<1>8. Covers(q, f)
  BY <1>5, <1>6, <1>7 DEF Covers
<1>9. LiesAt(q, f)
  BY <1>2, <1>4, <1>8 DEF LiesAt, ResolvedFrom
<1> QED
  BY <1>6, <1>7, <1>9, LandsAt

LEMMA BoundIs ==
  ASSUME ChainOK, NEW k \in Keys
  PROVE  \E f : LiesAt(LowerBound(k), f) /\ FirstVisible(k, LowerBound(k)[f])
<1> DEFINE p == [d \in Deltas |-> BackendLowerBound(d, k)]
<1>1. k \in Nat /\ k <= End
  BY ChainIs
<1>2. \A d \in Deltas : FirstFrom(d, k, p[d])
  BY <1>1, LowerBoundIs
<1>3. p \in [Deltas -> Keys \cup {End}]
  BY <1>2, ChainIs DEF FirstFrom
<1>4. LowerBound(k) = Resolve(p)
  BY DEF LowerBound
<1> HIDE DEF p
<1> QED
  BY <1>1, <1>2, <1>3, <1>4, ResolvedBoundIs

LEMMA BeginsAt ==
  ASSUME ChainOK
  PROVE  \E f : LiesAt(Begin, f) /\ FirstVisible(1, Begin[f])
<1> DEFINE p == [d \in Deltas |-> BackendBegin(d)]
<1>1. 1 \in Nat /\ 1 <= End
  BY ConstantsAssumption DEF End
<1>2. \A d \in Deltas : FirstFrom(d, 1, p[d])
  BY BeginIs
<1>3. p \in [Deltas -> Keys \cup {End}]
  BY <1>2, ChainIs DEF FirstFrom
<1>4. Begin = Resolve(p)
  BY DEF Begin
<1> HIDE DEF p
<1> QED
  BY <1>1, <1>2, <1>3, <1>4, ResolvedBoundIs

LEMMA EndsAt ==
  ASSUME ChainOK
  PROVE  \E f : LiesAt(AtEnd, f) /\ AtEnd[f] = End
<1> DEFINE p == [d \in Deltas |-> End]
<1>1. /\ End \in Nat /\ End <= End
      /\ \A d \in Deltas : \A j \in Held(d) : j < End
      /\ \A k \in Visible : k < End /\ k \in Nat
  BY ChainIs, VisibleIs
<1>2. \A d \in Deltas : FirstFrom(d, End, p[d])
  BY <1>1, ChainIs DEF FirstFrom
<1>3. p \in [Deltas -> Keys \cup {End}]
  OBVIOUS
<1>4. AtEnd = Resolve(p)
  BY DEF AtEnd
<1> HIDE DEF p
<1>5. PICK f : LiesAt(AtEnd, f) /\ FirstVisible(End, AtEnd[f])
  BY <1>1, <1>2, <1>3, <1>4, ResolvedBoundIs
<1>6. AtEnd[f] = End
  BY <1>1, <1>5 DEF FirstVisible
<1> QED
  BY <1>5, <1>6
-----------------------------------------------------------------------------
(* operator++ *)

\* The next step forward is to the next visible key: an iterator of a lower
\* delta at the same key is passed, since the first one's delta has that key.
LEMMA IncrementedIs ==
  ASSUME ChainOK, NEW p, NEW f, LiesAt(p, f), p[f] # End, NEW q, q = Incremented(p)
  PROVE  \E g : LiesAt(q, g) /\ q[g] = Successor(p[f])
<1> DEFINE y == Advanced(p, f)
<1>1. /\ f \in Deltas /\ p \in Positions /\ f = Foremost(p)
      /\ Clean(f, p[f]) /\ p[f] \in Visible /\ p[f] \in Keys
  BY LiesAtIs, VisibleIs
<1>2. q = Resolve(y)
  BY <1>1, Zenon DEF Incremented, Advanced
<1>3. /\ y \in Positions
      /\ FirstFrom(f, p[f] + 1, y[f])
      /\ \A d \in Deltas \ {f} : y[d] = p[d]
      /\ \A d \in Deltas : y[d] >= p[d]
      /\ Good(y)
  <2> HIDE DEF y
  <2>1. y = Advanced(p, f)
    BY DEF y
  <2> QED
    BY <1>1, <2>1, AdvancedIs DEF LiesAt
<1> HIDE DEF y
<1>4. ResolvedFrom(y, q)
  BY <1>2, <1>3, ResolveIs
<1>5. PICK g : FirstOf(q, g)
  BY <1>4, ForemostIs DEF ResolvedFrom, Good
<1>6. /\ g \in Deltas /\ Deltas = 1 .. Len(chain) /\ Len(chain) \in Nat
      /\ \A d \in Deltas : d \in Nat /\ p[d] \in Nat /\ y[d] \in Nat /\ q[d] \in Nat
      /\ \A k \in Keys : k \in Nat /\ k < End
      /\ End \in Nat
  BY <1>1, <1>3, <1>4, <1>5, PositionIs, ChainIs DEF FirstOf, ResolvedFrom, Good
<1>7. \A d \in Deltas : q[d] >= y[d] /\ y[d] >= p[f]
  BY <1>1, <1>3, <1>4, <1>6 DEF LiesAt, FirstOf, ResolvedFrom
<1>8. q[g] > p[f]
  <2> SUFFICES ASSUME q[g] = p[f] PROVE FALSE
    <3>1. q[g] >= y[g] /\ y[g] >= p[f] /\ q[g] \in Nat /\ y[g] \in Nat /\ p[f] \in Nat
      BY <1>1, <1>6, <1>7
    <3> QED
      BY <3>1
  <2>1. y[f] > p[f]
    BY <1>1, <1>3, <1>6 DEF FirstFrom
  <2>2. g # f
    BY <1>1, <1>6, <1>7, <2>1
  <2>3. p[g] = p[f]
    BY <1>3, <1>6, <1>7, <2>2
  <2>4. f > g
    BY <1>1, <1>6, <2>2, <2>3 DEF LiesAt, FirstOf
  <2>5. Modified(f, p[f])
    BY <1>1 DEF Clean, Modified, Held
  <2>6. Dirty(g, q[g])
    BY <1>1, <2>4, <2>5 DEF Dirty
  <2>7. Settled(q, g)
    BY <1>4, <1>5 DEF ResolvedFrom
  <2>8. q[g] # End
    BY <1>1, <1>6
  <2> QED
    BY <2>6, <2>7, <2>8 DEF Settled
<1>9. ASSUME NEW d \in Deltas, NEW j \in Keys, Clean(d, j), j >= p[f] + 1
      PROVE  q[d] <= j
  <2>1. p[d] <= j
    BY <1>1, <1>6, <1>9 DEF LiesAt, Covers
  <2>2. y[d] <= j
    BY <1>3, <1>9, <2>1 DEF FirstFrom, Clean
  <2> QED
    BY <1>4, <1>9, <2>2 DEF ResolvedFrom
<1>10. Covers(q, g)
  BY <1>1, <1>6, <1>8, <1>9 DEF Covers
<1>11. LiesAt(q, g)
  BY <1>4, <1>5, <1>10 DEF LiesAt, ResolvedFrom
<1>12. FirstVisible(p[f] + 1, q[g])
  <2>1. p[f] + 1 \in Nat /\ q[g] >= p[f] + 1
    BY <1>1, <1>6, <1>8
  <2> QED
    BY <1>9, <1>11, <2>1, LandsAt
<1>13. q[g] = Successor(p[f])
  BY <1>1, <1>6, <1>12, FirstVisibleIs
<1> QED
  BY <1>11, <1>13

-----------------------------------------------------------------------------
(* operator-- *)

\* m is the last visible key before h.
LastVisible(h, m) ==
  /\ m \in Visible
  /\ m < h
  /\ \A j \in Visible : j < h => j <= m

LEMMA LastVisibleIs ==
  ASSUME ChainOK, NEW h, NEW m, LastVisible(h, m)
  PROVE  m = Predecessor(h)
<1> DEFINE S == {j \in Visible : j < h}
<1>1. S \in SUBSET Nat /\ End \in Nat /\ \A n \in S : n <= End
  BY ChainIs DEF Visible
<1>2. m \in S /\ \A n \in S : n <= m
  BY DEF LastVisible
<1>3. Max(S) = m
  <2> HIDE DEF S
  <2> QED
    BY <1>1, <1>2, MaxUnique
<1> QED
  BY <1>3 DEF Predecessor

LEMMA LastVisibleExists ==
  ASSUME ChainOK, NEW h, NEW j \in Visible, j < h
  PROVE  \E m : LastVisible(h, m)
<1> DEFINE S == {n \in Visible : n < h}
<1>1. S \in SUBSET Nat /\ End \in Nat /\ j \in S /\ \A n \in S : n <= End
  BY ChainIs DEF Visible
<1>2. Max(S) \in S /\ \A n \in S : n <= Max(S)
  <2> HIDE DEF S
  <2> QED
    BY <1>1, MaxIs
<1> QED
  BY <1>2 DEF LastVisible

\* Where the rewinding of one iterator stops: at the last key before h that the
\* delta shows, or, if there is none, at its first key.
RewoundTo(d, h, k) ==
  /\ k \in Held(d)
  /\ \A j \in Keys : Clean(d, j) /\ j < h => Clean(d, k) /\ k < h /\ j <= k
  /\ (\A j \in Keys : Clean(d, j) => j >= h) => \A j \in Held(d) : k <= j

LEMMA HeldMax ==
  ASSUME ChainOK, NEW d \in Deltas, NEW S \in SUBSET Held(d), S # {}
  PROVE  Max(S) \in S /\ \A j \in S : j <= Max(S)
<1>1. S \in SUBSET Nat /\ End \in Nat /\ \A j \in S : j <= End
  BY ChainIs
<1> QED
  BY <1>1, MaxIs

LEMMA RewindIs ==
  ASSUME ChainOK, NEW d \in Deltas, Held(d) # {}, NEW k \in Nat, NEW h \in Nat, k >= h
  PROVE  RewoundTo(d, h, BackToClean(d, BackBelow(d, k, h)))
<1> DEFINE below == {j \in Held(d) : j < h}
           first == BackendBegin(d)
           b == BackBelow(d, k, h)
           clean == {j \in Held(d) : j <= b /\ ~Dirty(d, j)}
           r == BackToClean(d, b)
<1>1. \A j \in Held(d) : j \in Keys /\ j \in Nat /\ j >= 1 /\ j < End
  BY ChainIs
<1>2. first \in Held(d) /\ \A j \in Held(d) : first <= j
  <2>1. FirstFrom(d, 1, first)
    BY BeginIs
  <2>2. PICK j \in Held(d) : TRUE
    OBVIOUS
  <2>3. \A i \in Held(d) : first <= i
    BY <1>1, <2>1 DEF FirstFrom
  <2>4. first # End
    BY <1>1, <2>2, <2>3, ChainIs
  <2> QED
    BY <2>1, <2>3, <2>4 DEF FirstFrom
<1>3. b = IF below # {} THEN Max(below) ELSE first
  BY DEF BackBelow
<1>4. r = IF clean # {} THEN Max(clean) ELSE first
  BY DEF BackToClean
<1> HIDE DEF first
<1>5. below # {} => Max(below) \in below /\ \A j \in below : j <= Max(below)
  <2>1. below \in SUBSET Held(d)
    OBVIOUS
  <2> HIDE DEF below
  <2> QED
    BY <2>1, HeldMax
<1>6. /\ b \in Held(d)
      /\ \A j \in Held(d) : j < h => b < h /\ j <= b
      /\ b >= h => b = first
  <2> HIDE DEF b
  <2>1. CASE below # {}
    BY <1>1, <1>3, <1>5, <2>1
  <2>2. CASE below = {}
    BY <1>1, <1>2, <1>3, <2>2
  <2> QED
    BY <2>1, <2>2
<1> HIDE DEF b, below
<1>7. clean # {} => Max(clean) \in clean /\ \A j \in clean : j <= Max(clean)
  <2>1. clean \in SUBSET Held(d)
    OBVIOUS
  <2> HIDE DEF clean
  <2> QED
    BY <2>1, HeldMax
<1>8. r \in Held(d)
  BY <1>2, <1>4, <1>7
<1>9. ASSUME NEW j \in Keys, Clean(d, j), j < h
      PROVE  Clean(d, r) /\ r < h /\ j <= r
  <2>1. j \in clean /\ b < h
    BY <1>6, <1>9 DEF Clean
  <2>2. r = Max(clean) /\ r \in clean /\ j <= r
    BY <1>4, <1>7, <2>1
  <2> QED
    BY <1>1, <1>6, <2>1, <2>2 DEF Clean
<1>10. ASSUME \A j \in Keys : Clean(d, j) => j >= h
       PROVE  \A j \in Held(d) : r <= j
  <2>1. CASE clean = {}
    BY <1>2, <1>4, <2>1
  <2>2. CASE clean # {}
    <3>1. r \in clean
      BY <1>4, <1>7, <2>2
    <3>2. Clean(d, r) /\ r \in Keys /\ r <= b
      BY <1>1, <3>1 DEF Clean
    <3>3. r >= h
      BY <1>10, <3>2
    <3>4. b >= h
      BY <1>1, <1>6, <3>1, <3>2, <3>3
    <3> QED
      BY <1>1, <1>2, <1>6, <3>1, <3>2, <3>4
  <2> QED
    BY <2>1, <2>2
<1> HIDE DEF r, clean
<1>11. RewoundTo(d, h, r)
  BY <1>8, <1>9, <1>10 DEF RewoundTo
<1> QED
  BY <1>11 DEF r, b
LEMMA RewoundIs ==
  ASSUME ChainOK, NEW p, NEW f, LiesAt(p, f), NEW q, q = Rewound(p)
  PROVE  /\ Good(q)
         /\ \A d \in Deltas : IF Held(d) = {} THEN q[d] = End ELSE RewoundTo(d, p[f], q[d])
<1>1. /\ f \in Deltas /\ KeyAt(p) = p[f]
      /\ \A d \in Deltas : p[d] \in Nat /\ p[d] >= p[f]
  BY LiesAtIs, PositionIs DEF LiesAt, FirstOf
<1>2. q = [d \in Deltas |->
             IF Held(d) = {} THEN p[d] ELSE BackToClean(d, BackBelow(d, p[d], p[f]))]
  BY <1>1 DEF Rewound
<1>3. ASSUME NEW d \in Deltas
      PROVE  IF Held(d) = {} THEN q[d] = End ELSE RewoundTo(d, p[f], q[d])
  <2>1. CASE Held(d) = {}
    BY <1>2, <2>1 DEF LiesAt, Good
  <2>2. CASE Held(d) # {}
    <3>1. q[d] = BackToClean(d, BackBelow(d, p[d], p[f]))
      BY <1>2, <2>2
    <3>2. RewoundTo(d, p[f], BackToClean(d, BackBelow(d, p[d], p[f])))
      BY <1>1, <2>2, RewindIs
    <3> QED
      BY <2>2, <3>1, <3>2
  <2> QED
    BY <2>1, <2>2
<1>4. \A d \in Deltas : q[d] \in Held(d) \cup {End}
  BY <1>3 DEF RewoundTo
<1>5. q \in Positions
  <2>1. \A d \in Deltas : Held(d) \subseteq Keys
    BY ChainIs
  <2>2. DOMAIN q = Deltas /\ q = [d \in Deltas |-> q[d]]
    BY <1>2
  <2> QED
    BY <1>4, <2>1, <2>2 DEF Positions
<1> QED
  BY <1>3, <1>4, <1>5 DEF Good

\* The iterators of the deltas that show a key before the first one are the
\* candidates, and the last of those keys is the one to go back to.
LEMMA CandidatesAre ==
  ASSUME ChainOK, NEW p, NEW f, LiesAt(p, f), NEW m, LastVisible(p[f], m),
         NEW q, q = Rewound(p), NEW goal, goal = LeastCandidates(q, p[f])
  PROVE  /\ Decides(m) \in goal
         /\ q[Decides(m)] = m
         /\ \A d \in goal : q[d] <= m
         /\ Max({q[d] : d \in goal}) = m
<1>1. /\ Good(q)
      /\ \A d \in Deltas : IF Held(d) = {} THEN q[d] = End ELSE RewoundTo(d, p[f], q[d])
  BY RewoundIs
<1>2. /\ m \in Keys /\ m \in Nat /\ m < End /\ m < p[f] /\ Decides(m) \in Deltas
      /\ Clean(Decides(m), m) /\ End \in Nat
      /\ \A j \in Visible : j < p[f] => j <= m
  BY VisibleIs, ChainIs DEF LastVisible
<1>3. goal = {d \in Deltas : q[d] # End /\ ~Dirty(d, q[d]) /\ q[d] < p[f]}
  BY DEF LeastCandidates
<1>4. \A d \in Deltas : q[d] \in Nat
  BY <1>1, PositionIs DEF Good
<1>5. \A d \in goal : d \in Deltas /\ Clean(d, q[d]) /\ q[d] <= m
  <2> SUFFICES ASSUME NEW d \in goal PROVE d \in Deltas /\ Clean(d, q[d]) /\ q[d] <= m
    OBVIOUS
  <2>1. d \in Deltas /\ q[d] # End /\ ~Dirty(d, q[d]) /\ q[d] < p[f]
    BY <1>3
  <2>2. Clean(d, q[d])
    BY <1>1, <2>1 DEF Good, Clean
  <2>3. q[d] \in Visible
    BY <2>1, <2>2, CleanIs
  <2> QED
    BY <1>2, <2>1, <2>2, <2>3
<1> DEFINE e == Decides(m)
<1>6. e \in goal /\ q[e] = m
  <2>1. RewoundTo(e, p[f], q[e])
    BY <1>1, <1>2 DEF Clean
  <2>2. Clean(e, q[e]) /\ q[e] < p[f] /\ m <= q[e]
    BY <1>2, <2>1 DEF RewoundTo
  <2>3. q[e] # End
    BY <1>2, <2>2, ChainIs DEF Clean
  <2>4. e \in goal
    BY <1>2, <1>3, <2>2, <2>3 DEF Clean
  <2> QED
    BY <1>2, <1>4, <1>5, <2>2, <2>4
<1> DEFINE S == {q[d] : d \in goal}
<1>7. S \in SUBSET Nat /\ m \in S /\ \A n \in S : n <= m
  BY <1>4, <1>5, <1>6
<1>8. Max(S) = m
  <2> HIDE DEF S
  <2> QED
    BY <1>2, <1>7, MaxUnique
<1> QED
  BY <1>5, <1>6, <1>8

\* Iterators that went back to the last visible key before h lie at it.
LEMMA DecrementedIs ==
  ASSUME ChainOK, NEW p, NEW f, LiesAt(p, f), NEW m, LastVisible(p[f], m), NEW r, r = Decremented(p)
  PROVE  ~DecrementThrows(p) /\ \E g : LiesAt(r, g) /\ r[g] = m
<1> DEFINE q == Rewound(p)
           goal == LeastCandidates(q, p[f])
           back == [d \in Deltas |-> IF q[d] < m THEN BackendLowerBound(d, m) ELSE q[d]]
           e == Decides(m)
<1>1. KeyAt(p) = p[f] /\ f \in Deltas
  BY LiesAtIs
<1>2. /\ Good(q)
      /\ \A d \in Deltas : IF Held(d) = {} THEN q[d] = End ELSE RewoundTo(d, p[f], q[d])
  <2> HIDE DEF q
  <2>1. q = Rewound(p)
    BY DEF q
  <2> QED
    BY <2>1, RewoundIs
<1>3. e \in goal /\ q[e] = m /\ (\A d \in goal : q[d] <= m) /\ Max({q[d] : d \in goal}) = m
  <2> HIDE DEF q, goal
  <2>1. q = Rewound(p) /\ goal = LeastCandidates(q, p[f])
    BY DEF q, goal
  <2> QED
    BY <2>1, CandidatesAre
<1>4. ~DecrementThrows(p)
  BY <1>1, <1>3 DEF DecrementThrows
<1>5. r = IF Len(chain) > 1 THEN Resolve(back) ELSE q
  <2>1. goal # {}
    BY <1>3
  <2>2. Decremented(p) = IF Len(chain) > 1 THEN Resolve(IF goal = {} THEN q
                 ELSE LET k == Max({q[d] : d \in goal})
                      IN  [d \in Deltas |-> IF q[d] < k THEN BackendLowerBound(d, k) ELSE q[d]])
              ELSE q
    BY <1>1, Zenon DEF Decremented
  <2> QED
    BY <1>3, <2>1, <2>2
<1>6. /\ m \in Keys /\ m \in Nat /\ m < End /\ m < p[f] /\ m <= End
      /\ e \in Deltas /\ Clean(e, m) /\ End \in Nat
      /\ \A j \in Visible : j < p[f] => j <= m
      /\ \A j \in Keys : j \in Nat
      /\ \A d \in Deltas : q[d] \in Nat /\ Held(d) \subseteq Keys
      /\ p[f] \in Nat
  BY <1>1, <1>2, VisibleIs, ChainIs, LiesAtIs, PositionIs DEF LastVisible, Good
<1> HIDE DEF goal, q, e
<1>7. \A d \in Deltas : \A j \in Keys : Clean(d, j) /\ j >= m => j = m \/ j >= p[f]
  <2> SUFFICES ASSUME NEW d \in Deltas, NEW j \in Keys, Clean(d, j), j >= m
               PROVE  j = m \/ j >= p[f]
    OBVIOUS
  <2>1. j \in Visible
    BY CleanIs
  <2> QED
    BY <1>6, <2>1
\* No key shown from m on has been passed.
<1>8. ASSUME NEW d \in Deltas, NEW j \in Keys, Clean(d, j), j >= m
      PROVE  q[d] <= j
  <2>1. RewoundTo(d, p[f], q[d])
    BY <1>2, <1>8 DEF Clean
  <2>2. CASE \A i \in Keys : Clean(d, i) => i >= p[f]
    BY <1>8, <2>1, <2>2 DEF RewoundTo, Clean
  <2>3. CASE ~ \A i \in Keys : Clean(d, i) => i >= p[f]
    <3>1. PICK i \in Keys : Clean(d, i) /\ i < p[f]
      BY <1>6, <2>3
    <3>2. Clean(d, q[d]) /\ q[d] < p[f]
      BY <2>1, <3>1 DEF RewoundTo
    <3>3. q[d] \in Visible
      BY <3>2, CleanIs
    <3>4. q[d] <= m
      BY <1>6, <3>2, <3>3
    <3> QED
      BY <1>6, <1>8, <3>4
  <2> QED
    BY <2>2, <2>3
<1>9. CASE Len(chain) > 1
  <2>1. /\ Good(back)
        /\ \A d \in Deltas : back[d] >= m
        /\ \A d \in Deltas : \A j \in Keys : Clean(d, j) /\ j >= m => back[d] <= j
    <3>1. \A d \in Deltas : FirstFrom(d, m, BackendLowerBound(d, m))
      BY <1>6, LowerBoundIs
    <3>2. ASSUME NEW d \in Deltas
          PROVE  /\ back[d] \in Held(d) \cup {End}
                 /\ back[d] >= m
                 /\ \A j \in Keys : Clean(d, j) /\ j >= m => back[d] <= j
      <4>1. CASE q[d] < m
        <5>1. back[d] = BackendLowerBound(d, m)
          BY <4>1
        <5> QED
          BY <3>1, <5>1 DEF FirstFrom, Clean
      <4>2. CASE ~(q[d] < m)
        <5>1. back[d] = q[d]
          BY <4>2
        <5>2. q[d] \in Held(d) \cup {End} /\ q[d] >= m
          BY <1>2, <1>6, <4>2 DEF Good
        <5> QED
          BY <1>8, <5>1, <5>2
      <4> QED
        BY <4>1, <4>2
    <3>3. back \in Positions
      <4>1. \A d \in Deltas : back[d] \in Keys \cup {End}
        BY <1>6, <3>2
      <4>2. back = [d \in Deltas |-> back[d]]
        OBVIOUS
      <4> HIDE DEF back
      <4> QED
        BY <4>1, <4>2 DEF Positions
    <3> HIDE DEF back
    <3> QED
      BY <3>2, <3>3 DEF Good
  <2>2. r = Resolve(back)
    BY <1>5, <1>9
  <2> HIDE DEF back
  <2>3. ResolvedFrom(back, r)
    BY <2>1, <2>2, ResolveIs
  <2>4. PICK g : FirstOf(r, g)
    BY <2>3, ForemostIs DEF ResolvedFrom, Good
  <2>5. /\ g \in Deltas
        /\ \A d \in Deltas : r[d] \in Nat /\ back[d] \in Nat /\ r[d] >= back[d]
    BY <2>1, <2>3, <2>4, PositionIs DEF FirstOf, ResolvedFrom, Good
  <2>6. r[g] = m
    <3>1. back[e] <= m
      BY <1>6, <2>1
    <3>2. r[e] <= m
      BY <1>6, <2>3, <3>1 DEF ResolvedFrom
    <3>3. r[g] <= r[e]
      BY <1>6, <2>4 DEF FirstOf
    <3>4. r[g] >= back[g] /\ back[g] >= m
      BY <2>1, <2>5
    <3>5. r[g] \in Nat /\ r[e] \in Nat /\ back[g] \in Nat
      BY <1>6, <2>5
    <3> QED
      BY <1>6, <3>2, <3>3, <3>4, <3>5
  <2>7. Covers(r, g)
    BY <2>1, <2>3, <2>6 DEF Covers, ResolvedFrom
  <2>8. LiesAt(r, g)
    BY <2>3, <2>4, <2>7 DEF LiesAt, ResolvedFrom
  <2> QED
    BY <1>4, <2>6, <2>8
<1>10. CASE ~(Len(chain) > 1)
  <2>1. r = q
    BY <1>5, <1>10
  <2>2. Deltas = {1} /\ e = 1
    BY <1>6, <1>10, ChainIs
  <2>3. FirstOf(q, 1)
    BY <1>6, <2>2 DEF FirstOf
  <2>4. Settled(q, 1)
    BY <1>3, <1>6, <2>2 DEF Settled, Clean
  <2>5. Covers(q, 1)
    BY <1>3, <1>8, <2>2 DEF Covers
  <2>6. LiesAt(q, 1)
    BY <1>2, <2>3, <2>4, <2>5 DEF LiesAt
  <2> QED
    BY <1>3, <1>4, <2>1, <2>2, <2>6
<1> QED
  BY <1>9, <1>10
-----------------------------------------------------------------------------
(* The inductive invariant *)

MInv == ChainOK /\ \E f \in Deltas : LiesAt(pos, f)

LEMMA InitInv ==
  ASSUME Init
  PROVE  MInv
<1>1. ChainOK
  BY ConstantsAssumption DEF Init, ChainOK
<1>2. CASE pos = Begin
  BY <1>1, <1>2, BeginsAt, LiesAtIs DEF MInv
<1>3. CASE pos = AtEnd
  BY <1>1, <1>3, EndsAt, LiesAtIs DEF MInv
<1>4. CASE \E k \in Keys : pos = LowerBound(k)
  BY <1>1, <1>4, BoundIs, LiesAtIs DEF MInv
<1> QED
  BY <1>2, <1>3, <1>4 DEF Init

\* The first object, and whether there is one before an iterator.
LEMMA NotFirst ==
  ASSUME ChainOK, NEW p, NEW f, LiesAt(p, f), NEW b, NEW g, LiesAt(b, g), FirstVisible(1, b[g])
  PROVE  /\ b[g] = Successor(0)
         /\ b[g] # p[f] => \E m : LastVisible(p[f], m)
         /\ b[g] = p[f] => \A j \in Visible : p[f] <= j
<1>1. \A j \in Visible : b[g] <= j
  <2>1. \A j \in Visible : j >= 1
    BY VisibleIs, ChainIs
  <2> QED
    BY <2>1 DEF FirstVisible
<1>2. ASSUME b[g] # p[f]
      PROVE  \E m : LastVisible(p[f], m)
  <2>1. /\ p[f] \in Nat /\ b[g] \in Nat /\ p[f] <= End /\ b[g] <= End /\ End \in Nat
        /\ b[g] # End => b[g] < End
    BY LiesAtIs, PositionIs, ChainIs
  <2>2. b[g] < p[f]
    <3>1. CASE p[f] = End
      BY <1>2, <2>1, <3>1
    <3>2. CASE p[f] # End
      BY <1>1, <1>2, <2>1, <3>2, LiesAtIs
    <3> QED
      BY <3>1, <3>2
  <2>3. b[g] \in Visible
    BY <2>1, <2>2, LiesAtIs
  <2> QED
    BY <2>2, <2>3, LastVisibleExists
<1>3. b[g] = Successor(0)
  <2>1. FirstVisible(0 + 1, b[g])
    OBVIOUS
  <2> QED
    BY <2>1, FirstVisibleIs
<1> QED
  BY <1>1, <1>2, <1>3

\* Each step is to the neighbour.
LEMMA IncrementIs ==
  ASSUME MInv, Increment
  PROVE  /\ \E g \in Deltas : LiesAt(pos', g)
         /\ KeyAt(pos') = Successor(KeyAt(pos))
<1>1. ChainOK
  BY DEF MInv
<1>2. PICK f \in Deltas : LiesAt(pos, f)
  BY DEF MInv
<1>3. pos[f] # End
  <2> SUFFICES ASSUME pos[f] = End PROVE FALSE
    OBVIOUS
  <2>1. \A d \in Deltas : pos[d] = End
    BY <1>1, <1>2, LiesAtIs, PositionIs, ChainIs DEF LiesAt, FirstOf
  <2> QED
    BY <2>1 DEF Increment, IsEnd
<1>4. pos' = Incremented(pos)
  BY DEF Increment
<1>5. PICK g : LiesAt(pos', g) /\ pos'[g] = Successor(pos[f])
  BY <1>1, <1>2, <1>3, <1>4, IncrementedIs
<1> QED
  BY <1>1, <1>2, <1>5, LiesAtIs

LEMMA DecrementIs ==
  ASSUME MInv, Decrement
  PROVE  /\ \E g \in Deltas : LiesAt(pos', g)
         /\ KeyAt(pos') = Predecessor(KeyAt(pos))
<1>1. ChainOK
  BY DEF MInv
<1>2. PICK f \in Deltas : LiesAt(pos, f)
  BY DEF MInv
<1>3. PICK b \in Deltas : LiesAt(Begin, b) /\ FirstVisible(1, Begin[b])
  BY <1>1, BeginsAt, LiesAtIs
<1>4. Begin[b] # pos[f]
  BY <1>1, <1>2, <1>3, EqualIs DEF Decrement
<1>5. PICK m : LastVisible(pos[f], m)
  BY <1>1, <1>2, <1>3, <1>4, NotFirst
<1>6. pos' = Decremented(pos)
  BY DEF Decrement
<1>7. PICK g : LiesAt(pos', g) /\ pos'[g] = m
  BY <1>1, <1>2, <1>5, <1>6, DecrementedIs
<1>8. m = Predecessor(pos[f])
  BY <1>1, <1>5, LastVisibleIs
<1> QED
  BY <1>1, <1>2, <1>7, <1>8, LiesAtIs

LEMMA NextInv ==
  ASSUME MInv, [Next]_vars
  PROVE  MInv'
<1>1. CASE UNCHANGED vars
  BY <1>1 DEF vars, MInv, ChainOK, LiesAt, Good, Positions, FirstOf, Settled, Covers, Clean,
              Dirty, Modified, Held, Deltas
<1>2. ASSUME \E g \in Deltas : LiesAt(pos', g), chain' = chain
      PROVE  MInv'
  BY <1>2 DEF MInv, ChainOK, LiesAt, Good, Positions, FirstOf, Settled, Covers, Clean,
              Dirty, Modified, Held, Deltas
<1>3. CASE Increment
  BY <1>2, <1>3, IncrementIs DEF Increment
<1>4. CASE Decrement
  BY <1>2, <1>4, DecrementIs DEF Decrement
<1> QED
  BY <1>1, <1>3, <1>4 DEF Next

LEMMA MergeInvariance == Spec => []MInv
BY InitInv, NextInv, PTL DEF Spec
-----------------------------------------------------------------------------
(* The properties *)

\* The iterators of a merge iterator stay at objects their deltas hold or at the
\* end, through every operator++ and operator--.
THEOREM TypeCorrect == Spec => []TypeOK
<1>1. MInv => TypeOK
  BY DEF MInv, ChainOK, LiesAt, Good, Positions, TypeOK
<1> QED
  BY <1>1, MergeInvariance, PTL

\* A merge iterator is at an object find would return, of the delta find would
\* return it from, or equal to end.
THEOREM NewestSafe == Spec => []AtNewest
<1>1. MInv => AtNewest
  <2> SUFFICES ASSUME MInv PROVE AtNewest
    OBVIOUS
  <2>1. ChainOK
    BY DEF MInv
  <2>2. PICK f \in Deltas : LiesAt(pos, f)
    BY DEF MInv
  <2>3. /\ f = Foremost(pos) /\ pos[f] = KeyAt(pos)
        /\ pos[f] # End => pos[f] \in Visible /\ f = Decides(pos[f])
    BY <2>1, <2>2, LiesAtIs
  <2>4. ASSUME pos[f] = End
        PROVE  IsEnd(pos) /\ Equal(pos, AtEnd)
    <3>1. \A d \in Deltas : pos[d] = End
      BY <2>1, <2>2, <2>4, LiesAtIs, PositionIs, ChainIs DEF LiesAt, FirstOf
    <3>2. PICK g : LiesAt(AtEnd, g) /\ AtEnd[g] = End
      BY <2>1, EndsAt
    <3>3. Equal(pos, AtEnd)
      BY <2>1, <2>2, <2>4, <3>2, EqualIs
    <3> QED
      BY <3>1, <3>3 DEF IsEnd
  <2> QED
    BY <2>3, <2>4 DEF AtNewest
<1> QED
  BY <1>1, MergeInvariance, PTL

\* operator-- does not throw unless it is called at the first object.
THEOREM BackSafe == Spec => []BackNeverThrows
<1>1. MInv => BackNeverThrows
  <2> SUFFICES ASSUME MInv, KeyAt(pos) # Successor(0) PROVE ~DecrementThrows(pos)
    BY DEF BackNeverThrows
  <2>1. ChainOK
    BY DEF MInv
  <2>2. PICK f \in Deltas : LiesAt(pos, f)
    BY DEF MInv
  <2>3. PICK b \in Deltas : LiesAt(Begin, b) /\ FirstVisible(1, Begin[b])
    BY <2>1, BeginsAt, LiesAtIs
  <2>4. Begin[b] = Successor(0) /\ pos[f] = KeyAt(pos)
    BY <2>1, <2>2, <2>3, NotFirst, LiesAtIs
  <2>5. PICK m : LastVisible(pos[f], m)
    BY <2>1, <2>2, <2>3, <2>4, NotFirst
  <2> QED
    BY <2>1, <2>2, <2>5, DecrementedIs
<1> QED
  BY <1>1, MergeInvariance, PTL

\* operator++ goes to the next visible key and operator-- to the one before, on
\* every chain of deltas and from wherever earlier calls have left the iterators.
THEOREM OrderSafe == Spec => InOrder
<1>1. MInv /\ [Next]_vars => [/\ Increment => KeyAt(pos') = Successor(KeyAt(pos))
                              /\ Decrement => KeyAt(pos') = Predecessor(KeyAt(pos))]_vars
  BY IncrementIs, DecrementIs
<1> QED
  BY <1>1, MergeInvariance, PTL DEF Spec, InOrder

\* Where get_next_object and get_prev_object look for a neighbour.
LEMMA NextIs ==
  ASSUME ChainOK, NEW k \in Keys
  PROVE  \E q, g : /\ LiesAt(q, g) /\ FirstVisible(k + 1, q[g])
                   /\ NextObject(k) = IF q[g] = End THEN Nothing ELSE Found(q, k)
<1> DEFINE p == LowerBound(k)
<1>1. PICK f : LiesAt(p, f) /\ FirstVisible(k, p[f])
  BY BoundIs
<1>2. PICK e : LiesAt(AtEnd, e) /\ AtEnd[e] = End
  BY EndsAt
<1>3. /\ k \in Nat /\ k < End /\ p[f] = KeyAt(p)
      /\ Equal(p, AtEnd) <=> p[f] = End
      /\ p[f] \in Nat
  <2> HIDE DEF p
  <2> QED
    BY <1>1, <1>2, ChainIs, LiesAtIs, PositionIs, EqualIs
<1> DEFINE q == IF p[f] = k THEN Incremented(p) ELSE p
<1>4. NextObject(k) = IF Equal(q, AtEnd) THEN Nothing ELSE Found(q, k)
  <2>1. q = IF ~Equal(p, AtEnd) /\ KeyAt(p) = k THEN Incremented(p) ELSE p
    <3> HIDE DEF p
    <3> QED
      BY <1>3
  <2> HIDE DEF q
  <2> QED
    BY <2>1, Zenon DEF NextObject
<1> HIDE DEF p
<1>5. \E g : LiesAt(q, g) /\ FirstVisible(k + 1, q[g])
  <2>1. CASE p[f] = k
    <3>1. p[f] # End
      BY <1>3, <2>1
    <3>2. PICK g : LiesAt(q, g) /\ q[g] = Successor(p[f])
      BY <1>1, <2>1, <3>1, IncrementedIs
    <3>3. FirstVisible(k + 1, q[g])
      <4> DEFINE S == {j \in Visible : j > k} \cup {End}
      <4>1. S \in SUBSET Nat /\ S # {} /\ \A j \in Visible : j \in Nat
        BY ChainIs, VisibleIs
      <4>2. Min(S) \in S /\ \A n \in S : Min(S) <= n
        BY <4>1, MinIs
      <4>3. q[g] = Min(S)
        BY <2>1, <3>2 DEF Successor
      <4>4. q[g] \in S /\ \A n \in S : q[g] <= n
        BY <4>2, <4>3
      <4>5. \A j \in Visible : j >= k + 1 => j \in S
        BY <1>3, <4>1
      <4>6. q[g] = End \/ (q[g] \in Visible /\ q[g] >= k + 1)
        BY <1>3, <4>1, <4>4
      <4> HIDE DEF S, q
      <4> QED
        BY <4>4, <4>5, <4>6 DEF FirstVisible
    <3> QED
      BY <3>2, <3>3
  <2>2. CASE p[f] # k
    <3>1. q = p
      BY <2>2
    <3>2. FirstVisible(k + 1, p[f])
      <4>1. p[f] = End \/ (p[f] \in Visible /\ p[f] >= k + 1)
        BY <1>1, <1>3, <2>2 DEF FirstVisible
      <4>2. \A j \in Visible : j >= k + 1 => j >= k
        <5>1. \A j \in Visible : j \in Nat
          BY VisibleIs, ChainIs
        <5> QED
          BY <1>3, <5>1
      <4> QED
        BY <1>1, <4>1, <4>2 DEF FirstVisible
    <3> QED
      BY <1>1, <3>1, <3>2
  <2> QED
    BY <2>1, <2>2
<1>6. PICK g : LiesAt(q, g) /\ FirstVisible(k + 1, q[g])
  BY <1>5
<1> HIDE DEF q
<1>7. Equal(q, AtEnd) <=> q[g] = End
  BY <1>2, <1>6, EqualIs
<1> QED
  BY <1>4, <1>6, <1>7

LEMMA PrevIs ==
  ASSUME ChainOK, NEW k \in Keys
  PROVE  \/ (\A j \in Visible : j >= k) /\ PrevObject(k) = Nothing
         \/ \E q, g : /\ LiesAt(q, g) /\ LastVisible(k, q[g])
                      /\ PrevObject(k) = Found(q, k)
<1> DEFINE p == LowerBound(k)
           q == Decremented(p)
<1>1. PICK f : LiesAt(p, f) /\ FirstVisible(k, p[f])
  BY BoundIs
<1>2. PICK b : LiesAt(Begin, b) /\ FirstVisible(1, Begin[b])
  BY BeginsAt
<1>3. PrevObject(k) = IF Equal(p, Begin) THEN Nothing ELSE Found(q, k)
  BY Zenon DEF PrevObject
<1> HIDE DEF p, q
<1>4. /\ k \in Nat /\ k < End /\ End \in Nat
      /\ p[f] \in Nat /\ p[f] >= k
      /\ Equal(p, Begin) <=> p[f] = Begin[b]
      /\ \A j \in Visible : j \in Nat
  BY <1>1, <1>2, ChainIs, LiesAtIs, PositionIs, EqualIs, VisibleIs DEF FirstVisible
<1>5. CASE p[f] = Begin[b]
  <2>1. \A j \in Visible : p[f] <= j
    BY <1>1, <1>2, <1>5, NotFirst
  <2>2. \A j \in Visible : j >= k
    BY <1>4, <2>1
  <2> QED
    BY <1>3, <1>4, <1>5, <2>2
<1>6. CASE p[f] # Begin[b]
  <2>1. PICK m : LastVisible(p[f], m)
    BY <1>1, <1>2, <1>6, NotFirst
  <2>2. PICK g : LiesAt(q, g) /\ q[g] = m
    <3>1. q = Decremented(p)
      BY DEF q
    <3> QED
      BY <1>1, <2>1, <3>1, DecrementedIs
  <2>3. LastVisible(k, m)
    <3>1. m \in Visible /\ m < p[f] /\ \A j \in Visible : j < p[f] => j <= m
      BY <2>1 DEF LastVisible
    <3>2. m < k
      BY <1>1, <1>4, <3>1 DEF FirstVisible
    <3>3. \A j \in Visible : j < k => j < p[f]
      BY <1>4
    <3> QED
      BY <3>1, <3>2, <3>3 DEF LastVisible
  <2> QED
    BY <1>3, <1>4, <1>6, <2>2, <2>3
<1> QED
  BY <1>5, <1>6
\* The visible keys of the space of k.
Own(k) == {j \in Visible : SpaceOf[j] = SpaceOf[k]}

LEMMA NextFound ==
  ASSUME ChainOK, NEW k \in Keys, NEW q, NEW g, LiesAt(q, g), FirstVisible(k + 1, q[g]),
         NEW S, S = {j \in Own(k) : j > k}
  PROVE  (IF q[g] = End THEN Nothing ELSE Found(q, k))
           = IF S = {} THEN Nothing ELSE <<Min(S), Decides(Min(S))>>
<1>1. /\ g = Foremost(q) /\ q[g] = KeyAt(q)
      /\ q[g] # End => q[g] \in Visible /\ q[g] \in Keys /\ g = Decides(q[g])
      /\ k \in Nat
      /\ \A j \in Visible : j \in Keys /\ j \in Nat /\ j < End
  BY LiesAtIs, VisibleIs, ChainIs
<1>2. \A j \in Visible : j > k => q[g] <= j
  BY <1>1 DEF FirstVisible
<1>3. q[g] # End => q[g] > k
  BY <1>1 DEF FirstVisible
<1>4. S \in SUBSET Nat /\ \A j \in S : j \in Visible /\ j > k /\ SpaceOf[j] = SpaceOf[k]
  BY <1>1 DEF Own
<1>5. CASE q[g] # End /\ SpaceOf[q[g]] = SpaceOf[k]
  <2>1. q[g] \in S
    BY <1>1, <1>3, <1>5 DEF Own
  <2>2. Min(S) = q[g]
    BY <1>2, <1>4, <2>1, MinUnique
  <2>3. Found(q, k) = <<q[g], g>>
    BY <1>1, <1>5 DEF Found
  <2> QED
    BY <1>1, <1>5, <2>1, <2>2, <2>3
<1>6. CASE q[g] = End
  <2>1. S = {}
    BY <1>1, <1>2, <1>4, <1>6, ChainIs
  <2> QED
    BY <1>6, <2>1
<1>7. CASE q[g] # End /\ SpaceOf[q[g]] # SpaceOf[k]
  <2>1. ASSUME NEW j \in S
        PROVE  FALSE
    <3>1. k < q[g] /\ q[g] < j /\ SpaceOf[k] = SpaceOf[j]
      BY <1>1, <1>2, <1>3, <1>4, <1>7, <2>1
    <3>2. SpaceOf[q[g]] = SpaceOf[k]
      BY <1>1, <1>4, <1>7, <3>1, ConstantsAssumption
    <3> QED
      BY <1>7, <3>2
  <2>2. Found(q, k) = Nothing
    BY <1>1, <1>7 DEF Found
  <2> QED
    BY <1>7, <2>1, <2>2
<1> QED
  BY <1>5, <1>6, <1>7

LEMMA PrevFound ==
  ASSUME ChainOK, NEW k \in Keys, NEW q, NEW g, LiesAt(q, g), LastVisible(k, q[g]),
         NEW S, S = {j \in Own(k) : j < k}
  PROVE  Found(q, k) = IF S = {} THEN Nothing ELSE <<Max(S), Decides(Max(S))>>
<1>1. /\ g = Foremost(q) /\ q[g] = KeyAt(q)
      /\ q[g] \in Visible /\ q[g] \in Keys /\ q[g] < k
      /\ \A j \in Visible : j \in Keys /\ j \in Nat /\ j < End
      /\ End \in Nat /\ k \in Nat
      /\ \A j \in Visible : j < k => j <= q[g]
  BY LiesAtIs, VisibleIs, ChainIs DEF LastVisible
<1>2. q[g] # End /\ g = Decides(q[g])
  BY <1>1, LiesAtIs
<1>3. /\ S \in SUBSET Nat /\ \A j \in S : j \in Visible /\ j < k /\ SpaceOf[j] = SpaceOf[k]
      /\ \A j \in S : j <= End
  BY <1>1 DEF Own
<1>4. CASE SpaceOf[q[g]] = SpaceOf[k]
  <2>1. q[g] \in S
    BY <1>1, <1>4 DEF Own
  <2>2. Max(S) = q[g]
    BY <1>1, <1>3, <2>1, MaxUnique
  <2>3. Found(q, k) = <<q[g], g>>
    BY <1>1, <1>2, <1>4 DEF Found
  <2> QED
    BY <1>2, <2>1, <2>2, <2>3
<1>5. CASE SpaceOf[q[g]] # SpaceOf[k]
  <2>1. ASSUME NEW j \in S
        PROVE  FALSE
    <3>1. j \in Keys /\ j < q[g] /\ q[g] < k /\ SpaceOf[j] = SpaceOf[k]
      BY <1>1, <1>3, <1>5, <2>1
    <3>2. SpaceOf[q[g]] = SpaceOf[j]
      BY <1>1, <3>1, ConstantsAssumption
    <3> QED
      BY <1>5, <3>1, <3>2
  <2>2. Found(q, k) = Nothing
    BY <1>1, <1>5 DEF Found
  <2> QED
    BY <2>1, <2>2
<1> QED
  BY <1>4, <1>5

\* get_next_object and get_prev_object return the nearest visible object of the
\* key's own space, from the delta find would return it from, and nothing else.
THEOREM NeighboursSafe == Spec => []NeighboursFound
<1>1. MInv => NeighboursFound
  <2> SUFFICES ASSUME MInv, NEW k \in Keys
               PROVE  LET above == {j \in Own(k) : j > k}
                          below == {j \in Own(k) : j < k}
                      IN  /\ NextObject(k) = IF above = {} THEN Nothing
                                             ELSE <<Min(above), Decides(Min(above))>>
                          /\ PrevObject(k) = IF below = {} THEN Nothing
                                             ELSE <<Max(below), Decides(Max(below))>>
    BY Zenon DEF NeighboursFound, Own
  <2>1. ChainOK
    BY DEF MInv
  <2> DEFINE above == {j \in Own(k) : j > k}
             below == {j \in Own(k) : j < k}
  <2>2. NextObject(k) = IF above = {} THEN Nothing ELSE <<Min(above), Decides(Min(above))>>
    <3>1. PICK q, g : /\ LiesAt(q, g) /\ FirstVisible(k + 1, q[g])
                      /\ NextObject(k) = IF q[g] = End THEN Nothing ELSE Found(q, k)
      BY <2>1, NextIs
    <3>2. (IF q[g] = End THEN Nothing ELSE Found(q, k))
            = IF above = {} THEN Nothing ELSE <<Min(above), Decides(Min(above))>>
      BY <2>1, <3>1, NextFound, Zenon
    <3> HIDE DEF above
    <3> QED
      BY <3>1, <3>2
  <2>3. PrevObject(k) = IF below = {} THEN Nothing ELSE <<Max(below), Decides(Max(below))>>
    <3>1. CASE (\A j \in Visible : j >= k) /\ PrevObject(k) = Nothing
      <4>1. below = {}
        BY <2>1, <3>1, VisibleIs, ChainIs DEF Own
      <4> QED
        BY <3>1, <4>1
    <3>2. CASE \E q, g : /\ LiesAt(q, g) /\ LastVisible(k, q[g])
                         /\ PrevObject(k) = Found(q, k)
      <4>1. PICK q, g : /\ LiesAt(q, g) /\ LastVisible(k, q[g])
                        /\ PrevObject(k) = Found(q, k)
        BY <3>2
      <4> QED
        BY <2>1, <4>1, PrevFound, Zenon
    <3> QED
      BY <2>1, <3>1, <3>2, PrevIs
  <2> QED
    BY <2>2, <2>3
<1> QED
  BY <1>1, MergeInvariance, PTL
=============================================================================
