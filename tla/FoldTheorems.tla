---------------------------- MODULE FoldTheorems ----------------------------
(***************************************************************************)
(* What the folds of the community modules return.  The induction theorems *)
(* of the library have an operator parameter, which cannot be instantiated *)
(* here.  So the lemmas speak of functions and sets: of the inputs where a *)
(* claim fails there would be a minimal one (MinimalSubset, LeastNumber),  *)
(* and the step before it refutes that.                                    *)
(***************************************************************************)
EXTENDS Integers, Sequences, SequencesExt, FiniteSetTheorems, TLAPS

-----------------------------------------------------------------------------
(* Induction over finite sets and numbers, and recursion over finite sets *)

IsMinimal(T, B) == T \in B /\ \A U \in B : U \subseteq T => U = T

LEMMA MinimalSubset ==
    ASSUME NEW S, IsFiniteSet(S), NEW B \in SUBSET (SUBSET S), B # {}
    PROVE  \E T : IsMinimal(T, B)
<1>1. IsWellFoundedOn(StrictSubsetOrdering(S), FiniteSubsetsOf(S))
  BY FS_StrictSubsetOrderingWellFounded
<1>2. FiniteSubsetsOf(S) = SUBSET S
  BY FS_FiniteSubsetsOfFinite
<1>3. PICK T \in B : \A U \in B : ~ (<<U, T>> \in StrictSubsetOrdering(S))
  BY <1>1, <1>2, WFMin
<1>4. ASSUME NEW U \in B, U \subseteq T
      PROVE  U = T
  BY <1>3, <1>4 DEF StrictSubsetOrdering
<1> QED BY <1>4 DEF IsMinimal

LEMMA LeastNumber ==
    ASSUME NEW B \in SUBSET Nat, B # {}
    PROVE  \E n \in B : \A m \in B : n <= m
<1>1. PICK top \in B : TRUE
  OBVIOUS
<1> DEFINE all == 0 .. top
           initial == {0 .. n : n \in {m \in B : m <= top}}
<1>2. IsFiniteSet(all)
  BY FS_Interval
<1>3. initial \in SUBSET (SUBSET all) /\ initial # {}
  BY <1>1
<1>4. PICK T \in initial : \A U \in initial : U \subseteq T => U = T
  <2>1. \E T : IsMinimal(T, initial)
    <3> HIDE DEF initial, all
    <3> QED BY <1>2, <1>3, MinimalSubset
  <2> QED BY <2>1 DEF IsMinimal
<1>5. PICK n \in B : n <= top /\ T = 0 .. n
  BY <1>4
<1>6. ASSUME NEW m \in B, m < n
      PROVE  FALSE
  <2>1. 0 .. m \in initial /\ 0 .. m \subseteq T
    BY <1>5, <1>6
  <2>2. 0 .. m = 0 .. n
    BY <1>4, <1>5, <2>1
  <2>3. n \in 0 .. n /\ n \notin 0 .. m
    BY <1>6
  <2> QED BY <2>2, <2>3
<1> QED BY <1>6

\* A choice of an element from every subset that has one.
Picks(pick, D) == \A s \in SUBSET D : s # {} => pick[s] \in s

\* The solutions of a fold's equation that stay within V.
Folds(D, V, base, pick, step) ==
    {g \in [SUBSET D -> V] : \A s \in SUBSET D :
        g[s] = IF s = {} THEN base ELSE step[pick[s], g[s \ {pick[s]}]]}

\* A fold over a finite set exists.
LEMMA RecursionExists ==
    ASSUME NEW D, IsFiniteSet(D), NEW V, NEW base \in V, NEW pick, Picks(pick, D),
           NEW step \in [D \X V -> V]
    PROVE  Folds(D, V, base, pick, step) # {}
<1> DEFINE upTo(n) == {s \in SUBSET D : Cardinality(s) <= n}
           value(g, s) == IF s = {} THEN base ELSE step[pick[s], g[s \ {pick[s]}]]
           solves(g, n) == g \in [upTo(n) -> V] /\ \A s \in upTo(n) : g[s] = value(g, s)
           bad == {n \in Nat : ~ \E g : solves(g, n)}
<1>1. \A s \in SUBSET D : IsFiniteSet(s) /\ Cardinality(s) \in Nat
  BY FS_Subset, FS_CardinalityType
<1>2. ASSUME NEW n \in Nat, NEW s \in upTo(n), s # {}
      PROVE  /\ pick[s] \in D /\ s \ {pick[s]} \in upTo(n)
             /\ n > 0 /\ s \ {pick[s]} \in upTo(n - 1)
  <2>1. pick[s] \in s /\ s \in SUBSET D
    BY <1>2 DEF Picks
  <2>2. Cardinality(s \ {pick[s]}) = Cardinality(s) - 1
    BY <1>1, <2>1, FS_RemoveElement
  <2>3. s \ {pick[s]} \in SUBSET D
    BY <2>1
  <2> QED BY <1>1, <2>1, <2>2, <2>3
<1>3. \E g : solves(g, 0)
  <2> DEFINE g == [s \in upTo(0) |-> base]
  <2>1. \A s \in upTo(0) : s = {}
    BY <1>1, FS_EmptySet
  <2>2. solves(g, 0)
    BY <2>1
  <2> QED BY <2>2
<1>4. ASSUME NEW n \in Nat, NEW g, solves(g, n)
      PROVE  \E h : solves(h, n + 1)
  <2> DEFINE h == [s \in upTo(n + 1) |-> value(g, s)]
  <2>1. ASSUME NEW s \in upTo(n + 1)
        PROVE  value(g, s) \in V /\ (s # {} => s \ {pick[s]} \in upTo(n))
    <3>1. s # {} => pick[s] \in D /\ s \ {pick[s]} \in upTo(n + 1 - 1)
      BY <1>2
    <3>2. s # {} => pick[s] \in D /\ s \ {pick[s]} \in upTo(n)
      BY <3>1
    <3> QED BY <1>4, <3>2
  <2>2. \A s \in upTo(n) : s \in upTo(n + 1)
    BY <1>1
  <2> HIDE DEF upTo, value
  <2>3. h \in [upTo(n + 1) -> V]
    BY <2>1
  <2>4. \A s \in upTo(n) : h[s] = g[s]
    BY <1>4, <2>2
  <2>5. ASSUME NEW s \in upTo(n + 1)
        PROVE  h[s] = value(h, s)
    <3>1. h[s] = value(g, s)
      OBVIOUS
    <3> HIDE DEF h
    <3>2. s # {} => h[s \ {pick[s]}] = g[s \ {pick[s]}]
      BY <2>1, <2>4
    <3> QED BY <3>1, <3>2 DEF value
  <2> QED BY <2>3, <2>5
<1>5. bad = {}
  <2> SUFFICES ASSUME bad # {} PROVE FALSE
    OBVIOUS
  <2> HIDE DEF solves
  <2>1. PICK n \in bad : \A m \in bad : n <= m
    BY LeastNumber
  <2>2. n # 0
    BY <1>3
  <2>3. n - 1 \in Nat /\ n - 1 \notin bad
    BY <2>1, <2>2
  <2>4. PICK g : solves(g, n - 1)
    BY <2>3
  <2>5. \E h : solves(h, n - 1 + 1)
    BY <1>4, <2>3, <2>4
  <2> QED BY <2>1, <2>5
<1>6. Cardinality(D) \in Nat /\ upTo(Cardinality(D)) = SUBSET D
  BY FS_Subset, FS_CardinalityType
<1>7. PICK g : solves(g, Cardinality(D))
  <2> HIDE DEF solves
  <2> QED BY <1>5, <1>6
<1> HIDE DEF upTo
<1>8. g \in [SUBSET D -> V] /\ \A s \in SUBSET D : g[s] = value(g, s)
  BY <1>6, <1>7
<1> QED BY <1>8 DEF Folds

StepsStay(D, V, pick, g) ==
    \A s \in SUBSET D : s # {} /\ g[s \ {pick[s]}] \in V => g[s] \in V

\* What every step preserves holds of the fold.
LEMMA RecursionStays ==
    ASSUME NEW D, IsFiniteSet(D), NEW V, NEW pick, Picks(pick, D),
           NEW g, g[{}] \in V, StepsStay(D, V, pick, g)
    PROVE  g[D] \in V
<1> DEFINE bad == {s \in SUBSET D : g[s] \notin V}
<1> SUFFICES ASSUME bad # {} PROVE FALSE
  OBVIOUS
<1>1. bad \in SUBSET (SUBSET D)
  OBVIOUS
<1>2. PICK T \in bad : \A U \in bad : U \subseteq T => U = T
  <2>1. \E T : IsMinimal(T, bad)
    <3> HIDE DEF bad
    <3> QED BY <1>1, MinimalSubset
  <2> QED BY <2>1 DEF IsMinimal
<1>3. T # {} /\ T \in SUBSET D /\ pick[T] \in T
  BY DEF Picks
<1>4. T \ {pick[T]} \notin bad /\ T \ {pick[T]} \in SUBSET D
  BY <1>2, <1>3
<1> QED BY <1>3, <1>4 DEF StepsStay

\* A finite set of numbers that is not empty has both its ends.
LEMMA LargestAndSmallest ==
    ASSUME NEW S \in SUBSET Int, IsFiniteSet(S), S # {}
    PROVE  /\ Max(S) \in S /\ \A x \in S : x <= Max(S)
           /\ Min(S) \in S /\ \A x \in S : Min(S) <= x
<1>1. \E m \in S : \A x \in S : x <= m
  <2> DEFINE above(m) == {x \in S : m < x}
             sets == {above(m) : m \in S}
  <2>1. sets \in SUBSET (SUBSET S) /\ sets # {}
    OBVIOUS
  <2>2. PICK T \in sets : \A U \in sets : U \subseteq T => U = T
    <3>1. \E T : IsMinimal(T, sets)
      <4> HIDE DEF sets
      <4> QED BY <2>1, MinimalSubset
    <3> QED BY <3>1 DEF IsMinimal
  <2>3. PICK m \in S : T = above(m)
    BY <2>2
  <2>4. ASSUME NEW x \in S, ~ (x <= m)
        PROVE  FALSE
    <3>1. above(x) \in sets
      OBVIOUS
    <3>2. x \in Int /\ m \in Int /\ x \in T /\ x \notin above(x)
      BY <2>3, <2>4
    <3>3. above(x) \subseteq T
      <4>1. \A y \in S : y \in Int /\ (x < y => m < y)
        BY <2>4, <3>2
      <4> QED BY <2>3, <4>1
    <3> HIDE DEF sets, above
    <3> QED BY <2>2, <3>1, <3>2, <3>3
  <2> QED BY <2>4
<1>2. \E m \in S : \A x \in S : m <= x
  <2> DEFINE below(m) == {x \in S : x < m}
             sets == {below(m) : m \in S}
  <2>1. sets \in SUBSET (SUBSET S) /\ sets # {}
    OBVIOUS
  <2>2. PICK T \in sets : \A U \in sets : U \subseteq T => U = T
    <3>1. \E T : IsMinimal(T, sets)
      <4> HIDE DEF sets
      <4> QED BY <2>1, MinimalSubset
    <3> QED BY <3>1 DEF IsMinimal
  <2>3. PICK m \in S : T = below(m)
    BY <2>2
  <2>4. ASSUME NEW x \in S, ~ (m <= x)
        PROVE  FALSE
    <3>1. below(x) \in sets
      OBVIOUS
    <3>2. x \in Int /\ m \in Int /\ x \in T /\ x \notin below(x)
      BY <2>3, <2>4
    <3>3. below(x) \subseteq T
      <4>1. \A y \in S : y \in Int /\ (y < x => y < m)
        BY <2>4, <3>2
      <4> QED BY <2>3, <4>1
    <3> HIDE DEF sets, below
    <3> QED BY <2>2, <3>1, <3>2, <3>3
  <2> QED BY <2>4
<1> QED BY <1>1, <1>2 DEF Max, Min

-----------------------------------------------------------------------------
(* Folds from the left *)

\* FoldLeft takes the last position of a set of positions; what it returns for
\* the first k of them is the trace of the fold.
LEMMA LastOfInterval ==
    ASSUME NEW k \in Nat \ {0}
    PROVE  Max(1 .. k) = k /\ (1 .. k) \ {k} = 1 .. k - 1
<1>1. IsFiniteSet(1 .. k) /\ k \in 1 .. k /\ 1 .. k \in SUBSET Int
  BY FS_Interval
<1>2. Max(1 .. k) \in 1 .. k /\ \A x \in 1 .. k : x <= Max(1 .. k)
  BY <1>1, LargestAndSmallest
<1>3. Max(1 .. k) = k
  BY <1>1, <1>2
<1> QED BY <1>3

\* The solutions of the equation of FoldLeft over n elements.
LeftFolds(n, V, base, step) ==
    {g \in [SUBSET (1 .. n) -> V] : \A s \in SUBSET (1 .. n) :
        g[s] = IF s = {} THEN base ELSE step[Max(s), g[s \ {Max(s)}]]}

LEMMA LeftFoldExists ==
    ASSUME NEW n \in Nat, NEW V, NEW base \in V, NEW step \in [(1 .. n) \X V -> V]
    PROVE  /\ LeftFolds(n, V, base, step) # {}
           /\ \A s \in SUBSET (1 .. n) : s # {} => Max(s) \in s
<1> DEFINE D == 1 .. n
           pick == [s \in SUBSET D |-> Max(s)]
<1>1. IsFiniteSet(D) /\ D \in SUBSET Int
  BY FS_Interval
<1>2. ASSUME NEW s \in SUBSET D, s # {}
      PROVE  Max(s) \in s
  <2>1. IsFiniteSet(s) /\ s \in SUBSET Int
    BY <1>1, FS_Subset
  <2> QED BY <1>2, <2>1, LargestAndSmallest
<1>3. Picks(pick, D)
  BY <1>2 DEF Picks
<1>4. Folds(D, V, base, pick, step) # {}
  <2> HIDE DEF pick, D
  <2>1. step \in [D \X V -> V]
    BY DEF D
  <2> QED BY <1>1, <1>3, <2>1, RecursionExists
<1>5. PICK g \in [SUBSET D -> V] : \A s \in SUBSET D :
          g[s] = IF s = {} THEN base ELSE step[pick[s], g[s \ {pick[s]}]]
  BY <1>4 DEF Folds
<1>6. \A s \in SUBSET D : g[s] = IF s = {} THEN base ELSE step[Max(s), g[s \ {Max(s)}]]
  BY <1>5
<1> QED BY <1>2, <1>5, <1>6 DEF LeftFolds

\* What every step preserves holds along the trace.
LEMMA TraceStays ==
    ASSUME NEW n \in Nat, NEW g, NEW W, g[0] \in W,
           \A k \in 1 .. n : g[k - 1] \in W => g[k] \in W
    PROVE  \A k \in 0 .. n : g[k] \in W
<1> DEFINE bad == {k \in 0 .. n : g[k] \notin W}
<1> SUFFICES ASSUME bad # {} PROVE FALSE
  OBVIOUS
<1>1. PICK k \in bad : \A m \in bad : k <= m
  <2>1. bad \in SUBSET Nat
    OBVIOUS
  <2> HIDE DEF bad
  <2> QED BY <2>1, LeastNumber
<1>2. k \in 1 .. n /\ k - 1 \in 0 .. n /\ k - 1 \notin bad
  BY <1>1
<1> QED BY <1>1, <1>2

\* The traces g and h of two folds, where the second sequence has an element
\* more, at place p.
StepsKeep(R, g, h, n, p) ==
    \A k \in 1 .. n :
        /\ k < p  => (<<g[k - 1], h[k - 1]>> \in R => <<g[k], h[k]>> \in R)
        /\ k >= p => (<<g[k - 1], h[k]>> \in R => <<g[k], h[k + 1]>> \in R)

\* What every common step and the additional one preserve relates the results.
LEMMA TracesStayRelated ==
    ASSUME NEW n \in Nat, NEW p \in 1 .. n + 1, NEW g, NEW h, NEW R,
           <<g[0], h[0]>> \in R, StepsKeep(R, g, h, n, p),
           <<g[p - 1], h[p - 1]>> \in R => <<g[p - 1], h[p]>> \in R
    PROVE  <<g[n], h[n + 1]>> \in R
<1> DEFINE fits(k) == /\ k < p => <<g[k], h[k]>> \in R
                      /\ k + 1 >= p => <<g[k], h[k + 1]>> \in R
           good == [k \in 0 .. n |-> IF fits(k) THEN 1 ELSE 0]
           yes == {1}
<1>1. fits(0)
  <2>1. 0 + 1 >= p => p = 1 /\ p - 1 = 0 /\ 0 + 1 = p
    OBVIOUS
  <2> QED BY <2>1
<1>2. ASSUME NEW k \in 1 .. n, fits(k - 1)
      PROVE  fits(k)
  <2>1. CASE k < p
    <3>1. <<g[k - 1], h[k - 1]>> \in R
      <4>1. k - 1 < p
        BY <2>1
      <4> QED BY <1>2, <4>1
    <3>2. <<g[k], h[k]>> \in R
      BY <2>1, <3>1 DEF StepsKeep
    <3>3. k + 1 >= p => k = p - 1 /\ k + 1 = p
      BY <2>1
    <3> QED BY <2>1, <3>2, <3>3
  <2>2. CASE k >= p
    <3>1. <<g[k - 1], h[k]>> \in R
      <4>1. k - 1 + 1 = k
        OBVIOUS
      <4> QED BY <1>2, <2>2, <4>1
    <3>2. <<g[k], h[k + 1]>> \in R
      BY <2>2, <3>1 DEF StepsKeep
    <3> QED BY <2>2, <3>2
  <2> QED BY <2>1, <2>2
<1> HIDE DEF fits
<1>3. \A k \in 0 .. n : good[k] \in yes
  <2>1. good[0] \in yes /\ \A k \in 1 .. n : good[k - 1] \in yes => good[k] \in yes
    <3>1. good[0] = 1
      BY <1>1
    <3>2. ASSUME NEW k \in 1 .. n, good[k - 1] \in yes
          PROVE  good[k] \in yes
      <4>1. k - 1 \in 0 .. n /\ k \in 0 .. n
        OBVIOUS
      <4>2. fits(k - 1)
        BY <3>2, <4>1
      <4> QED BY <1>2, <4>1, <4>2
    <3> QED BY <3>1, <3>2
  <2> HIDE DEF good, yes
  <2> QED BY <2>1, TraceStays
<1>4. fits(n)
  <2>1. n \in 0 .. n
    OBVIOUS
  <2>2. good[n] = 1
    BY <1>3, <2>1
  <2> QED BY <2>1, <2>2
<1> QED BY <1>4 DEF fits

-----------------------------------------------------------------------------
(* Sequences *)

LEMMA Concatenation ==
    ASSUME NEW S, NEW s \in Seq(S), NEW t \in Seq(S)
    PROVE  /\ s \o t \in Seq(S) /\ Len(s \o t) = Len(s) + Len(t)
           /\ \A i \in 1 .. Len(s) : (s \o t)[i] = s[i]
           /\ \A i \in 1 .. Len(t) : (s \o t)[Len(s) + i] = t[i]
OBVIOUS
=============================================================================
