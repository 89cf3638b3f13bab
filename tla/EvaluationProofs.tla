-------------------------- MODULE EvaluationProofs --------------------------
(***************************************************************************)
(* Theorems about the charts and the indices, for every table of relative  *)
(* ranges, every baseline, every tolerance and every plotted value, and    *)
(* about the run of the evaluation that composes them.                     *)
(*                                                                         *)
(* Sums, concatenations and the readings of a run are folds; what a fold   *)
(* returns follows from the lemmas of FoldTheorems.                        *)
(***************************************************************************)
EXTENDS Evaluation, FoldTheorems

-----------------------------------------------------------------------------
(* Sums *)

\* Total is the fold that takes the positions in whatever order CHOOSE gives.
SomePosition(s) == CHOOSE i \in s : TRUE
PartialSums(values) ==
    CHOOSE sums : sums = [s \in SUBSET DOMAIN values |->
                             IF s = {} THEN 0
                             ELSE values[SomePosition(s)] + sums[s \ {SomePosition(s)}]]

LEMMA TotalIsFold ==
    ASSUME NEW values
    PROVE  Total(values) = PartialSums(values)[DOMAIN values]
BY DEF Total, FoldSeq, FoldFunction, FoldFunctionOnSet, MapThenFoldSet, PartialSums,
       SomePosition

\* A set of numbers that adding does not leave: Int, Nat, {0}.
ClosedSum(V) == V \subseteq Int /\ 0 \in V /\ \A a, b \in V : a + b \in V

\* The sum of a subgroup's measurements stays where they are.
LEMMA TotalStays ==
    ASSUME NEW V, ClosedSum(V), NEW values \in Seq(V)
    PROVE  Total(values) \in V
<1> DEFINE D == DOMAIN values
           pick == [s \in SUBSET D |-> SomePosition(s)]
           step == [p \in D \X V |-> values[p[1]] + p[2]]
           Adds(g) == g = [s \in SUBSET D |->
                             IF s = {} THEN 0
                             ELSE values[SomePosition(s)] + g[s \ {SomePosition(s)}]]
           sums == PartialSums(values)
<1>1. IsFiniteSet(D) /\ \A i \in D : values[i] \in V
  BY FS_Interval
<1>2. \A s \in SUBSET D : s # {} => SomePosition(s) \in s
  BY DEF SomePosition
<1>3. Picks(pick, D)
  BY <1>2 DEF Picks
<1>4. step \in [D \X V -> V] /\ 0 \in V
  BY <1>1 DEF ClosedSum
<1>5. \A i \in D, v \in V : step[i, v] = values[i] + v
  OBVIOUS
<1>6. PICK g \in [SUBSET D -> V] : \A s \in SUBSET D :
          g[s] = IF s = {} THEN 0 ELSE step[pick[s], g[s \ {pick[s]}]]
  <2>1. Folds(D, V, 0, pick, step) # {}
    <3> HIDE DEF D, pick, step
    <3> QED BY <1>1, <1>3, <1>4, RecursionExists
  <2> QED BY <2>1 DEF Folds
<1> HIDE DEF step
<1>7. Adds(g)
  <2>1. ASSUME NEW s \in SUBSET D, s # {}
        PROVE  g[s] = values[SomePosition(s)] + g[s \ {SomePosition(s)}]
    <3>1. SomePosition(s) \in D /\ s \ {SomePosition(s)} \in SUBSET D
      BY <1>2, <2>1
    <3>2. g[s] = step[SomePosition(s), g[s \ {SomePosition(s)}]]
      BY <1>6, <2>1
    <3> QED BY <1>5, <1>6, <3>1, <3>2
  <2> QED BY <1>6, <2>1
<1>8. Adds(sums)
  BY <1>7 DEF PartialSums
<1> HIDE DEF sums
<1>9. sums[{}] = 0
  BY <1>8
<1>10. ASSUME NEW s \in SUBSET D, s # {}, sums[s \ {pick[s]}] \in V
       PROVE  sums[s] \in V
  <2>1. sums[s] = values[SomePosition(s)] + sums[s \ {SomePosition(s)}]
    BY <1>8, <1>10
  <2>2. values[SomePosition(s)] \in V
    BY <1>1, <1>2, <1>10
  <2>3. sums[s \ {SomePosition(s)}] \in V
    BY <1>10
  <2> DEFINE rest == sums[s \ {SomePosition(s)}]
             one == values[SomePosition(s)]
  <2> HIDE DEF rest, one
  <2>4. one + rest \in V
    BY <2>2, <2>3 DEF ClosedSum, rest, one
  <2> QED BY <2>1, <2>4 DEF rest, one
<1>11. sums[D] \in V
  <2> HIDE DEF D, pick
  <2>1. StepsStay(D, V, pick, sums)
    BY <1>10 DEF StepsStay
  <2> QED BY <1>1, <1>3, <1>4, <1>9, <2>1, RecursionStays
<1> QED BY <1>11, TotalIsFold DEF sums

LEMMA TotalIsInt ==
    ASSUME NEW values \in Seq(Int)
    PROVE  Total(values) \in Int
BY TotalStays DEF ClosedSum

\* Only zeros add up to nothing but zero.
LEMMA TotalOfZeros ==
    ASSUME NEW values \in Seq(Nat), \A i \in DOMAIN values : values[i] = 0
    PROVE  Total(values) = 0
<1>1. values \in Seq({0})
  OBVIOUS
<1>2. ClosedSum({0})
  BY DEF ClosedSum
<1>3. Total(values) \in {0}
  BY <1>1, <1>2, TotalStays
<1> QED BY <1>3

-----------------------------------------------------------------------------
(* Ranges *)

\* The measurements of a subgroup, as sequences of one size.
IsGroup(group, n) == group \in Seq(Int) /\ Len(group) = n
AreGroups(groups, n) == \A i \in DOMAIN groups : IsGroup(groups[i], n)

LEMMA RangeIsNat ==
    ASSUME NEW n \in Nat \ {0}, NEW group, IsGroup(group, n)
    PROVE  /\ RangeOf(group) \in Nat
           /\ RangeOf(group) # 0 => \E i, j \in DOMAIN group : group[i] # group[j]
<1> DEFINE S == ToSet(group)
<1>1. DOMAIN group = 1 .. n /\ group \in [1 .. n -> Int]
  BY DEF IsGroup
<1>2. S = {group[i] : i \in 1 .. n}
  BY <1>1 DEF ToSet
<1>3. S \in SUBSET Int /\ S # {}
  BY <1>1, <1>2
<1>4. IsFiniteSet(S)
  <2>1. group \in Surjection(1 .. n, S)
    BY <1>1, <1>2 DEF Surjection
  <2> QED BY <2>1, FS_Interval, FS_Surjection
<1>5. /\ Max(S) \in S /\ Min(S) \in S
      /\ \A x \in S : Min(S) <= x /\ x <= Max(S)
  <2> HIDE DEF S
  <2> QED BY <1>3, <1>4, LargestAndSmallest
<1>6. RangeOf(group) = Max(S) - Min(S)
  BY DEF RangeOf
<1>7. Max(S) \in Int /\ Min(S) \in Int /\ Min(S) <= Max(S)
  BY <1>3, <1>5
<1>8. RangeOf(group) \in Nat /\ (RangeOf(group) # 0 => Max(S) # Min(S))
  BY <1>6, <1>7
<1>9. PICK i \in DOMAIN group, j \in DOMAIN group : group[i] = Max(S) /\ group[j] = Min(S)
  BY <1>1, <1>2, <1>5
<1> QED BY <1>8, <1>9

\* Parts of some subgroup differ.
SomeDiffer(groups) ==
    \E g \in DOMAIN groups : \E i, j \in DOMAIN groups[g] : groups[g][i] # groups[g][j]

\* The sum of ranges of a baseline is not negative, and not zero only if the
\* parts of some subgroup differ.
LEMMA RangesAreNat ==
    ASSUME NEW n \in Nat \ {0}, NEW groups, NEW m \in Nat, DOMAIN groups = 1 .. m,
           AreGroups(groups, n)
    PROVE  /\ Ranges(groups) \in Nat
           /\ Ranges(groups) # 0 => SomeDiffer(groups)
<1> DEFINE ranges == [i \in DOMAIN groups |-> RangeOf(groups[i])]
<1>1. \A g \in DOMAIN groups : RangeOf(groups[g]) \in Nat
  BY RangeIsNat DEF AreGroups
<1>2. ranges \in Seq(Nat)
  BY <1>1
<1>3. Total(ranges) \in Nat
  <2> HIDE DEF ranges
  <2>1. ClosedSum(Nat)
    BY DEF ClosedSum
  <2> QED BY <1>2, <2>1, TotalStays
<1>4. (\A g \in DOMAIN groups : RangeOf(groups[g]) = 0) => Total(ranges) = 0
  <2> SUFFICES ASSUME \A g \in DOMAIN groups : RangeOf(groups[g]) = 0
               PROVE  Total(ranges) = 0
    OBVIOUS
  <2>1. \A i \in DOMAIN ranges : ranges[i] = 0
    OBVIOUS
  <2> HIDE DEF ranges
  <2> QED BY <1>2, <2>1, TotalOfZeros
<1>5. Ranges(groups) = Total(ranges)
  BY DEF Ranges
<1> HIDE DEF ranges
<1>6. ASSUME Ranges(groups) # 0
      PROVE  SomeDiffer(groups)
  <2>1. PICK g \in DOMAIN groups : RangeOf(groups[g]) # 0
    BY <1>4, <1>5, <1>6
  <2> QED BY <2>1, RangeIsNat DEF AreGroups, SomeDiffer
<1> QED BY <1>3, <1>5, <1>6

-----------------------------------------------------------------------------
(* Concatenations *)

Concatenations(groups) ==
    CHOOSE joined : joined = [k \in 1 .. Len(groups) |->
                                 IF k = 1 THEN groups[k] ELSE joined[k - 1] \o groups[k]]

LEMMA MeasurementsAreFold ==
    ASSUME NEW groups, Len(groups) # 0
    PROVE  Measurements(groups) = Concatenations(groups)[Len(groups)]
BY DEF Measurements, FlattenSeq, Concatenations

LEMMA NextMultiple ==
    ASSUME NEW k \in Nat, NEW n \in Nat
    PROVE  (k + 1) * n = k * n + n /\ k * n \in Nat
OBVIOUS

LEMMA MultiplesInOrder ==
    ASSUME NEW a \in Nat, NEW b \in Nat, NEW n \in Nat, a <= b
    PROVE  a * n <= b * n
<1>1. PICK d \in Nat : b = a + d
  <2>1. b - a \in Nat /\ b = a + (b - a)
    OBVIOUS
  <2> QED BY <2>1
<1>2. b * n = a * n + d * n /\ d * n \in Nat /\ a * n \in Nat
  BY <1>1
<1> QED BY <1>2

\* Measurement i of subgroup g follows those of the subgroups before it.
Joins(joined, k, groups, n) ==
    /\ joined \in Seq(Int) /\ Len(joined) = k * n
    /\ \A g \in 1 .. k, i \in 1 .. n : joined[(g - 1) * n + i] = groups[g][i]

LEMMA Appended ==
    ASSUME NEW s \in Seq(Int), NEW t \in Seq(Int)
    PROVE  /\ s \o t \in Seq(Int) /\ Len(s \o t) = Len(s) + Len(t)
           /\ \A i \in 1 .. Len(s) : (s \o t)[i] = s[i]
           /\ \A i \in 1 .. Len(t) : (s \o t)[Len(s) + i] = t[i]
OBVIOUS

LEMMA JoinOneMore ==
    ASSUME NEW n \in Nat \ {0}, NEW k \in Nat, NEW groups, NEW joined,
           Joins(joined, k, groups, n), IsGroup(groups[k + 1], n)
    PROVE  Joins(joined \o groups[k + 1], k + 1, groups, n)
<1> DEFINE more == joined \o groups[k + 1]
           length == k * n
<1>1. /\ length \in Nat /\ (k + 1) * n = length + n
      /\ joined \in Seq(Int) /\ Len(joined) = length
      /\ groups[k + 1] \in Seq(Int) /\ Len(groups[k + 1]) = n
  BY NextMultiple DEF Joins, IsGroup
<1> HIDE DEF length
<1>2. /\ more \in Seq(Int) /\ Len(more) = length + n
      /\ \A i \in 1 .. length : more[i] = joined[i]
      /\ \A i \in 1 .. n : more[length + i] = groups[k + 1][i]
  <2> DEFINE last == groups[k + 1]
  <2>1. joined \in Seq(Int) /\ last \in Seq(Int)
    BY <1>1
  <2>2. Len(joined) = length /\ Len(last) = n
    BY <1>1
  <2> HIDE DEF last
  <2>3. /\ more \in Seq(Int) /\ Len(more) = length + n
        /\ \A i \in 1 .. length : more[i] = joined[i]
        /\ \A i \in 1 .. n : more[length + i] = last[i]
    <3>1. more = joined \o last
      BY DEF last
    <3> HIDE DEF more
    <3> QED BY <2>1, <2>2, <3>1, Appended
  <2> QED BY <2>3 DEF last
<1> HIDE DEF more
<1>3. ASSUME NEW g \in 1 .. k + 1, NEW i \in 1 .. n
      PROVE  more[(g - 1) * n + i] = groups[g][i]
  <2> DEFINE start == (g - 1) * n
  <2>1. CASE g = k + 1
    <3>1. start = length
      BY <2>1 DEF length
    <3>2. more[start + i] = groups[k + 1][i]
      BY <1>2, <3>1
    <3> QED BY <2>1, <3>2
  <2>2. CASE g \in 1 .. k
    <3>1. start \in Nat /\ start + n = g * n
      BY NextMultiple
    <3>2. g * n <= length
      BY <2>2, MultiplesInOrder DEF length
    <3>3. start + i \in 1 .. length
      <4>1. length \in Nat /\ g * n \in Nat
        BY <1>1, NextMultiple
      <4> HIDE DEF start
      <4> QED BY <3>1, <3>2, <4>1
    <3>4. joined[start + i] = groups[g][i]
      BY <2>2 DEF Joins
    <3>5. more[start + i] = joined[start + i]
      BY <1>2, <3>3
    <3> QED BY <3>4, <3>5
  <2>3. g = k + 1 \/ g \in 1 .. k
    OBVIOUS
  <2> QED BY <2>1, <2>2, <2>3
<1>4. Len(more) = (k + 1) * n
  BY <1>1, <1>2
<1>5. Joins(more, k + 1, groups, n)
  BY <1>2, <1>3, <1>4 DEF Joins
<1> QED BY <1>5 DEF more

\* The equation of the concatenations, up to subgroup k.
Follows(joined, k, groups) ==
    /\ joined = [g \in 1 .. k |-> joined[g]]
    /\ \A g \in 1 .. k : joined[g] = IF g = 1 THEN groups[g] ELSE joined[g - 1] \o groups[g]

LEMMA ConcatenationsExist ==
    ASSUME NEW m \in Nat \ {0}, NEW groups
    PROVE  \E joined : Follows(joined, m, groups)
<1> DEFINE bad == {k \in Nat \ {0} : ~ \E joined : Follows(joined, k, groups)}
<1>1. \E joined : Follows(joined, 1, groups)
  <2> DEFINE joined == [g \in 1 .. 1 |-> groups[g]]
  <2>1. Follows(joined, 1, groups)
    BY DEF Follows
  <2> QED BY <2>1
<1>2. ASSUME NEW k \in Nat \ {0}, NEW joined, Follows(joined, k, groups)
      PROVE  \E more : Follows(more, k + 1, groups)
  <2> DEFINE next(g) == IF g = 1 THEN groups[g] ELSE joined[g - 1] \o groups[g]
             more == [g \in 1 .. k + 1 |-> next(g)]
  <2>1. \A g \in 1 .. k + 1 : more[g] = next(g)
    OBVIOUS
  <2>2. \A g \in 1 .. k : g \in 1 .. k + 1 /\ joined[g] = next(g)
    <3>1. \A g \in 1 .. k : joined[g] = next(g)
      BY <1>2, Zenon DEF Follows
    <3>2. \A g \in 1 .. k : g \in 1 .. k + 1
      OBVIOUS
    <3> QED BY <3>1, <3>2, Zenon
  <2> HIDE DEF next
  <2>3. more = [g \in 1 .. k + 1 |-> more[g]]
    OBVIOUS
  <2> HIDE DEF more
  <2>4. ASSUME NEW g \in 1 .. k + 1
        PROVE  more[g] = IF g = 1 THEN groups[g] ELSE more[g - 1] \o groups[g]
    <3>1. g # 1 => g - 1 \in 1 .. k
      OBVIOUS
    <3>2. g # 1 => more[g - 1] = joined[g - 1]
      BY <2>1, <2>2, <3>1
    <3> QED BY <2>1, <3>2 DEF next
  <2>5. Follows(more, k + 1, groups)
    BY <2>3, <2>4 DEF Follows
  <2> QED BY <2>5
<1>3. bad = {}
  <2> SUFFICES ASSUME bad # {} PROVE FALSE
    OBVIOUS
  <2>1. PICK k \in bad : \A j \in bad : k <= j
    BY LeastNumber
  <2>2. k # 1
    BY <1>1
  <2>3. k - 1 \in Nat \ {0} /\ k - 1 \notin bad
    BY <2>1, <2>2
  <2>4. PICK joined : Follows(joined, k - 1, groups)
    BY <2>3
  <2>5. \E more : Follows(more, k - 1 + 1, groups)
    BY <1>2, <2>3, <2>4
  <2> QED BY <2>1, <2>5
<1> QED BY <1>3

\* All measurements of some subgroups: as many as there should be, and every
\* one of them.
LEMMA MeasurementsJoin ==
    ASSUME NEW n \in Nat \ {0}, NEW groups \in Seq(Seq(Int)), groups # <<>>,
           AreGroups(groups, n)
    PROVE  Joins(Measurements(groups), Len(groups), groups, n)
<1> DEFINE m == Len(groups)
           joined == Concatenations(groups)
           bad == {k \in 1 .. m : ~ Joins(joined[k], k, groups, n)}
<1>1. m \in Nat \ {0} /\ DOMAIN groups = 1 .. m
  OBVIOUS
<1>2. \A k \in 1 .. m : joined[k] = IF k = 1 THEN groups[k] ELSE joined[k - 1] \o groups[k]
  <2>1. \E f : Follows(f, m, groups)
    BY <1>1, ConcatenationsExist
  <2> DEFINE Solves(f) == f = [g \in 1 .. m |->
                                  IF g = 1 THEN groups[g] ELSE f[g - 1] \o groups[g]]
  <2>2. PICK f : Follows(f, m, groups)
    BY <2>1
  <2>3. Solves(f)
    BY <2>2 DEF Follows
  <2>4. Solves(joined)
    BY <2>3 DEF Concatenations
  <2> HIDE DEF joined, m
  <2> QED BY <2>4
<1> HIDE DEF joined
<1>3. \A k \in 1 .. m : IsGroup(groups[k], n)
  BY <1>1 DEF AreGroups
<1>4. Joins(joined[1], 1, groups, n)
  <2>1. joined[1] = groups[1] /\ IsGroup(groups[1], n)
    BY <1>1, <1>2, <1>3
  <2>2. ASSUME NEW g \in 1 .. 1, NEW i \in 1 .. n
        PROVE  joined[1][(g - 1) * n + i] = groups[g][i]
    <3>1. g = 1 /\ (g - 1) * n + i = i
      OBVIOUS
    <3> QED BY <2>1, <3>1
  <2> QED BY <2>1, <2>2 DEF Joins, IsGroup
<1>5. bad = {}
  <2> SUFFICES ASSUME bad # {} PROVE FALSE
    OBVIOUS
  <2>1. bad \in SUBSET Nat
    BY <1>1
  <2>2. PICK k \in bad : \A j \in bad : k <= j
    <3> HIDE DEF bad
    <3> QED BY <2>1, LeastNumber
  <2>3. k \in 1 .. m /\ k # 1
    BY <1>4, <2>2
  <2>4. k - 1 \in 1 .. m /\ k - 1 \notin bad
    BY <1>1, <2>2, <2>3
  <2>5. Joins(joined[k - 1], k - 1, groups, n)
    BY <2>4
  <2>6. joined[k] = joined[k - 1] \o groups[k]
    BY <1>2, <2>3
  <2>7. k - 1 \in Nat /\ k - 1 + 1 = k
    BY <2>3
  <2>8. Joins(joined[k - 1] \o groups[k - 1 + 1], k - 1 + 1, groups, n)
    BY <1>3, <2>3, <2>5, <2>7, JoinOneMore
  <2> QED BY <2>2, <2>6, <2>7, <2>8
<1>6. Joins(joined[m], m, groups, n)
  <2>1. m \in 1 .. m /\ m \notin bad
    BY <1>1, <1>5, SMTT(30)
  <2>2. \A k \in 1 .. m : k \notin bad => Joins(joined[k], k, groups, n)
    <3> HIDE DEF joined
    <3> QED OBVIOUS
  <2> HIDE DEF bad, joined
  <2> QED BY <2>1, <2>2
<1> QED BY <1>1, <1>6, MeasurementsAreFold DEF joined

-----------------------------------------------------------------------------
(* Subgroups of the readings *)

LEMMA QuotientOfMultiple ==
    ASSUME NEW m \in Nat, NEW n \in Nat \ {0}
    PROVE  (m * n) \div n = m
OBVIOUS

\* Readings that are full subgroups are cut into exactly those.
LEMMA SubgroupsCut ==
    ASSUME NEW n \in Nat \ {0}, NEW m \in Nat, NEW values \in Seq(Int),
           Len(values) = m * n
    PROVE  LET groups == SubgroupsFromValues(values, n)
           IN  /\ groups \in Seq(Seq(Int)) /\ Len(groups) = m /\ DOMAIN groups = 1 .. m
               /\ AreGroups(groups, n)
<1> DEFINE groups == SubgroupsFromValues(values, n)
           cut(k) == SubSeq(values, (k - 1) * n + 1, k * n)
<1>1. Len(values) \div n = m
  BY QuotientOfMultiple
<1>2. groups = [k \in 1 .. m |-> cut(k)]
  BY <1>1 DEF SubgroupsFromValues
<1>3. ASSUME NEW k \in 1 .. m
      PROVE  cut(k) \in Seq(Int) /\ Len(cut(k)) = n
  <2> DEFINE start == (k - 1) * n
  <2>1. start \in Nat /\ k * n = start + n
    BY NextMultiple
  <2>2. k * n <= m * n
    BY MultiplesInOrder
  <2>3. start + n <= Len(values)
    BY <2>1, <2>2
  <2> HIDE DEF start
  <2>4. SubSeq(values, start + 1, start + n) \in Seq(Int)
        /\ Len(SubSeq(values, start + 1, start + n)) = n
    BY <2>1, <2>3
  <2> QED BY <2>1, <2>4 DEF start
<1> HIDE DEF cut, groups
<1>4. groups \in Seq(Seq(Int)) /\ Len(groups) = m /\ DOMAIN groups = 1 .. m
  BY <1>2, <1>3
<1>5. AreGroups(groups, n)
  BY <1>2, <1>3, <1>4 DEF AreGroups, IsGroup
<1> QED BY <1>4, <1>5 DEF groups

-----------------------------------------------------------------------------
(* The charts.  The module tells a bad point in two ways that share no     *)
(* code: is_beyond_limits compares with the two limits, sigma_distance     *)
(* divides by sigma, and zone and rule 1 go by the latter.                 *)

LEMMA TableEntries ==
    ASSUME NEW n \in DOMAIN RelativeRange
    PROVE  D2(n) \in Nat \ {0} /\ D3(n) \in Nat \ {0}
BY RelativeRangeAssumption DEF D2, D3

\* The sizes of the table have a whole root.
LEMMA RootIsWhole ==
    ASSUME NEW n \in DOMAIN RelativeRange
    PROVE  Root(n) \in Nat \ {0}
<1>1. PICK r \in 2 .. 5 : n = r * r
  BY RelativeRangeAssumption
<1>2. n \in Nat /\ r \in 1 .. n /\ r * r = n
  <2>1. CASE r = 2
    BY <1>1, <2>1
  <2>2. CASE r = 3
    BY <1>1, <2>2
  <2>3. CASE r = 4
    BY <1>1, <2>3
  <2>4. CASE r = 5
    BY <1>1, <2>4
  <2> QED BY <2>1, <2>2, <2>3, <2>4
<1>3. Root(n) \in 1 .. n
  BY <1>2 DEF Root
<1> QED BY <1>2, <1>3

LEMMA ProductPositive ==
    ASSUME NEW a \in Nat \ {0}, NEW b \in Nat \ {0}
    PROVE  a * b \in Nat \ {0}
OBVIOUS

LEMMA Beyond ==
    ASSUME NEW drawn, NEW value \in Int, drawn.center \in Int, drawn.sigma \in Nat \ {0}
    PROVE  Zone(drawn, value) = "beyond" <=> FurtherThan(drawn, value, 3)
<1> DEFINE Far(k) == FurtherThan(drawn, value, k)
<1> HIDE DEF Far
<1>1. CASE Far(3)
  BY <1>1 DEF Zone, Far, FurtherThan, Distance
<1>2. CASE ~ Far(3) /\ Far(2)
  BY <1>2 DEF Zone, Far
<1>3. CASE ~ Far(3) /\ ~ Far(2) /\ Far(1)
  BY <1>3 DEF Zone, Far
<1>4. CASE ~ Far(3) /\ ~ Far(2) /\ ~ Far(1)
  BY <1>4 DEF Zone, Far
<1> QED BY <1>1, <1>2, <1>3, <1>4

\* Limits at three sigma, the lower one perhaps floored at a value that
\* nothing plotted is below: zone and limits agree.
LEMMA ThreeSigma ==
    ASSUME NEW drawn, NEW value \in Int,
           drawn.center \in Int, drawn.sigma \in Nat \ {0},
           drawn.upper = drawn.center + 3 * drawn.sigma,
           \/ drawn.lower = drawn.center - 3 * drawn.sigma
           \/ /\ drawn.lower = 0 /\ value >= 0
              /\ drawn.center - 3 * drawn.sigma <= 0
    PROVE  Zone(drawn, value) = "beyond" <=> IsBeyondLimits(drawn, value)
<1>1. FurtherThan(drawn, value, 3) <=> Distance(drawn, value) > 3 * drawn.sigma
  BY DEF FurtherThan
<1>2. Distance(drawn, value) > 3 * drawn.sigma <=> IsBeyondLimits(drawn, value)
  BY DEF Distance, IsBeyondLimits
<1> QED BY <1>1, <1>2, Beyond

\* X-bar chart: unless every baseline range is zero, the zone "beyond" (rule 1)
\* and out of control are the same points.
THEOREM XbarZoneIsLimits ==
    ASSUME NEW baseline, NEW n \in DOMAIN RelativeRange, NEW value \in Int,
           Ranges(baseline) \in Nat \ {0}, Total(Measurements(baseline)) \in Int
    PROVE  LET drawn == XbarLimits(baseline, n)
           IN  Zone(drawn, value) = "beyond" <=> IsBeyondLimits(drawn, value)
<1> DEFINE drawn == XbarLimits(baseline, n)
           c == 10 * D2(n) * Total(Measurements(baseline))
           s == 10000 * Root(n) * Ranges(baseline)
<1>1. c \in Int
  BY TableEntries
<1>2. s \in Nat \ {0}
  <2>1. 10000 * Root(n) \in Nat \ {0}
    BY RootIsWhole
  <2> QED BY <2>1, ProductPositive
<1>3. /\ drawn.center = c /\ drawn.sigma = s
      /\ drawn.upper = c + 3 * s /\ drawn.lower = c - 3 * s
  BY DEF XbarLimits
<1> HIDE DEF drawn, c, s
<1>4. Zone(drawn, value) = "beyond" <=> IsBeyondLimits(drawn, value)
  BY <1>1, <1>2, <1>3, ThreeSigma
<1> QED BY <1>4 DEF drawn

\* R chart: the floor of the lower limit at zero hides no point and invents
\* none, because a range is not negative and sigma is taken from the upper side.
THEOREM RangeZoneIsLimits ==
    ASSUME NEW baseline, NEW n \in DOMAIN RelativeRange, NEW value \in Nat,
           Ranges(baseline) \in Nat \ {0}
    PROVE  LET drawn == RLimits(baseline, n)
           IN  Zone(drawn, value) = "beyond" <=> IsBeyondLimits(drawn, value)
<1> DEFINE drawn == RLimits(baseline, n)
           R == Ranges(baseline)
           c == 10 * D2(n) * R
           s == D3(n) * R
           g == 10 * D2(n) - 3 * D3(n)
<1>1. c \in Int /\ s \in Nat \ {0} /\ g \in Int
  BY TableEntries, ProductPositive
<1>2. g * R = c - 3 * s
  BY TableEntries
<1>3. 3 * D3(n) * R = 3 * s
  BY TableEntries
<1>4. /\ drawn.center = c /\ drawn.sigma = s /\ drawn.upper = c + 3 * s
      /\ drawn.lower = AtLeastZero(g) * R
  BY <1>3 DEF RLimits
<1>5. CASE g > 0
  <2>1. drawn.lower = c - 3 * s
    BY <1>2, <1>4, <1>5 DEF AtLeastZero
  <2> HIDE DEF drawn, c, s, g, R
  <2>2. Zone(drawn, value) = "beyond" <=> IsBeyondLimits(drawn, value)
    BY <1>1, <1>4, <2>1, ThreeSigma
  <2> QED BY <2>2 DEF drawn
<1>6. CASE g <= 0
  <2>1. AtLeastZero(g) = 0
    BY <1>1, <1>6 DEF AtLeastZero
  <2>2. drawn.lower = 0
    BY <1>4, <2>1
  <2>3. g * R <= 0
    BY <1>1, <1>6
  <2>4. c - 3 * s <= 0
    BY <1>2, <2>3
  <2> HIDE DEF drawn, c, s, g, R
  <2>5. Zone(drawn, value) = "beyond" <=> IsBeyondLimits(drawn, value)
    BY <1>1, <1>4, <2>2, <2>4, ThreeSigma
  <2> QED BY <2>5 DEF drawn
<1> QED BY <1>1, <1>5, <1>6

\* A baseline without any spread within its subgroups: rule 1 is silent for
\* ever, on both charts, however far outside the limits a point is flagged.
THEOREM RepeatableIsBlind ==
    ASSUME NEW baseline, NEW n \in DOMAIN RelativeRange, NEW value \in Int,
           Ranges(baseline) = 0
    PROVE  /\ Zone(XbarLimits(baseline, n), value) = "C"
           /\ Zone(RLimits(baseline, n), value) = "C"
<1>1. XbarLimits(baseline, n).sigma = 0
  BY RootIsWhole DEF XbarLimits
<1>2. RLimits(baseline, n).sigma = 0
  BY TableEntries DEF RLimits
<1>3. ASSUME NEW drawn, drawn.sigma = 0
      PROVE  Zone(drawn, value) = "C"
  <2>1. \A k \in {1, 2, 3} : ~ FurtherThan(drawn, value, k)
    BY <1>3 DEF FurtherThan
  <2> QED BY <2>1 DEF Zone
<1> QED BY <1>1, <1>2, <1>3

-----------------------------------------------------------------------------
(* The indices: fractions of one denominator, so they compare as their     *)
(* numerators do, and those of Cpu and Cpl add up to twice that of Cp.     *)

\* What the theorems are about: an assessment against both limits.
Assessment(spec, parts, total, sigma) ==
    /\ spec.lsl \in Int /\ spec.usl \in Int
    /\ parts \in Nat \ {0} /\ total \in Int
    /\ sigma.num \in Nat \ {0} /\ sigma.den \in Nat \ {0}

\* The tolerance left above and below the mean, times the number of parts.
Above(spec, parts, total) == spec.usl * parts - total
Under(spec, parts, total) == total - spec.lsl * parts

LEMMA ScaleOrder ==
    ASSUME NEW a \in Int, NEW b \in Int, NEW d \in Nat \ {0}
    PROVE  a * d < b * d <=> a < b
OBVIOUS

LEMMA ScaleEqual ==
    ASSUME NEW a \in Int, NEW b \in Int, NEW d \in Nat \ {0}
    PROVE  a * d = b * d <=> a = b
BY ScaleOrder

\* The three indices over one denominator.
LEMMA Indices ==
    ASSUME NEW spec, NEW parts, NEW total, NEW sigma,
           Assessment(spec, parts, total, sigma)
    PROVE  LET over == Above(spec, parts, total)
               under == Under(spec, parts, total)
               unit == 6 * parts * sigma.num
           IN  /\ over \in Int /\ under \in Int /\ unit \in Nat \ {0}
               /\ Cpu(spec, parts, total, sigma) = <<(2 * over) * sigma.den, unit>>
               /\ Cpl(spec, parts, total, sigma) = <<(2 * under) * sigma.den, unit>>
               /\ Cp(spec, parts, sigma) = <<(over + under) * sigma.den, unit>>
<1> DEFINE over == Above(spec, parts, total)
           under == Under(spec, parts, total)
           unit == 6 * parts * sigma.num
<1>1. /\ spec.lsl \in Int /\ spec.usl \in Int /\ parts \in Nat \ {0} /\ total \in Int
      /\ sigma.num \in Nat \ {0} /\ sigma.den \in Nat \ {0}
      /\ spec.lsl # None /\ spec.usl # None
  BY NoneAssumption DEF Assessment
<1>2. over \in Int /\ under \in Int
  BY <1>1 DEF Above, Under
<1>3. unit \in Nat \ {0}
  <2>1. 6 * parts \in Nat \ {0}
    BY <1>1
  <2> QED BY <1>1, <2>1
<1>4. over + under = (spec.usl - spec.lsl) * parts
  BY <1>1 DEF Above, Under
<1>5. Cpu(spec, parts, total, sigma) = <<(2 * over) * sigma.den, unit>>
  BY <1>1 DEF Cpu, Above
<1>6. Cpl(spec, parts, total, sigma) = <<(2 * under) * sigma.den, unit>>
  BY <1>1 DEF Cpl, Under
<1>7. Cp(spec, parts, sigma) = <<(over + under) * sigma.den, unit>>
  BY <1>1, <1>4 DEF Cp, TwoSided
<1> QED BY <1>2, <1>3, <1>5, <1>6, <1>7

\* Cpk is the side with less room.
LEMMA CpkIsTheNearerSide ==
    ASSUME NEW spec, NEW parts, NEW total, NEW sigma,
           Assessment(spec, parts, total, sigma)
    PROVE  LET over == Above(spec, parts, total)
               under == Under(spec, parts, total)
               near == IF over <= under THEN over ELSE under
           IN  Cpk(Cpu(spec, parts, total, sigma), Cpl(spec, parts, total, sigma))
                   = <<(2 * near) * sigma.den, 6 * parts * sigma.num>>
<1> DEFINE over == Above(spec, parts, total)
           under == Under(spec, parts, total)
           near == IF over <= under THEN over ELSE under
           unit == 6 * parts * sigma.num
           cpu == <<(2 * over) * sigma.den, unit>>
           cpl == <<(2 * under) * sigma.den, unit>>
           least == <<(2 * near) * sigma.den, unit>>
           d == sigma.den
<1>1. /\ over \in Int /\ under \in Int /\ unit \in Nat \ {0} /\ d \in Nat \ {0}
      /\ Cpu(spec, parts, total, sigma) = cpu
      /\ Cpl(spec, parts, total, sigma) = cpl
  BY Indices DEF Assessment
<1>2. near \in {over, under} /\ near <= over /\ near <= under /\ near \in Int
  BY <1>1
<1>3. /\ (2 * over) * d \in Int /\ (2 * under) * d \in Int /\ (2 * near) * d \in Int
      /\ (2 * over) * d < (2 * near) * d <=> 2 * over < 2 * near
      /\ (2 * under) * d < (2 * near) * d <=> 2 * under < 2 * near
      /\ (2 * near) * d < (2 * over) * d <=> 2 * near < 2 * over
      /\ (2 * near) * d < (2 * under) * d <=> 2 * near < 2 * under
  BY <1>1, <1>2, ScaleOrder
<1>4. cpu # None /\ cpl # None
  BY <1>1, <1>3, NoneAssumption
<1>5. {cpu, cpl} \ {None} = {cpu, cpl} /\ least \in {cpu, cpl}
  BY <1>2, <1>4
<1>6. \A y \in {cpu, cpl} : ~ Below(y, least)
  BY <1>1, <1>2, <1>3 DEF Below
<1>7. ASSUME NEW x \in {cpu, cpl}, \A y \in {cpu, cpl} : ~ Below(y, x)
      PROVE  x = least
  <2>1. ~ Below(least, x)
    BY <1>5, <1>7
  <2>2. CASE x = cpu
    BY <1>1, <1>2, <1>3, <2>1, <2>2 DEF Below
  <2>3. CASE x = cpl
    BY <1>1, <1>2, <1>3, <2>1, <2>3 DEF Below
  <2> QED BY <2>2, <2>3
<1>8. Smallest({cpu, cpl}) = least
  BY <1>5, <1>6, <1>7 DEF Smallest
<1> HIDE DEF cpu, cpl, least
<1>9. Cpk(cpu, cpl) = least
  BY <1>5, <1>8 DEF Cpk
<1> QED BY <1>1, <1>9 DEF least

\* "Cpk is never greater than Cp" (capability.py:38-41), and they are equal
\* exactly when the mean of the parts is the middle of the tolerance.
THEOREM CpkNeverAboveCp ==
    ASSUME NEW spec, NEW parts, NEW total, NEW sigma,
           Assessment(spec, parts, total, sigma)
    PROVE  LET cp == Cp(spec, parts, sigma)
               cpk == Cpk(Cpu(spec, parts, total, sigma), Cpl(spec, parts, total, sigma))
           IN  /\ ~ Below(cp, cpk)
               /\ cp = cpk <=> 2 * total = (spec.usl + spec.lsl) * parts
<1> DEFINE over == Above(spec, parts, total)
           under == Under(spec, parts, total)
           near == IF over <= under THEN over ELSE under
           unit == 6 * parts * sigma.num
           d == sigma.den
           cp == <<(over + under) * d, unit>>
           cpk == <<(2 * near) * d, unit>>
<1>1. /\ over \in Int /\ under \in Int /\ unit \in Nat \ {0} /\ d \in Nat \ {0}
      /\ Cp(spec, parts, sigma) = cp
  <2>1. over \in Int /\ under \in Int /\ unit \in Nat \ {0}
    BY Indices
  <2>2. Cp(spec, parts, sigma) = cp
    BY Indices
  <2>3. d \in Nat \ {0}
    BY DEF Assessment
  <2> QED BY <2>1, <2>2, <2>3
<1>2. Cpk(Cpu(spec, parts, total, sigma), Cpl(spec, parts, total, sigma)) = cpk
  BY CpkIsTheNearerSide
<1>3. over = under <=> 2 * total = (spec.usl + spec.lsl) * parts
  BY DEF Above, Under, Assessment
<1> HIDE DEF over, under, unit, d
<1>4. /\ near \in Int /\ over + under \in Int
      /\ 2 * near <= over + under
      /\ 2 * near = over + under <=> over = under
  BY <1>1
<1>5. /\ (over + under) * d \in Int /\ (2 * near) * d \in Int
      /\ (over + under) * d < (2 * near) * d <=> over + under < 2 * near
      /\ (over + under) * d = (2 * near) * d <=> over + under = 2 * near
  BY <1>1, <1>4, ScaleOrder, ScaleEqual
<1>6. ~ Below(cp, cpk)
  BY <1>1, <1>4, <1>5 DEF Below
<1>7. cp = cpk <=> 2 * total = (spec.usl + spec.lsl) * parts
  BY <1>3, <1>4, <1>5
<1> QED BY <1>1, <1>2, <1>6, <1>7

\* Cpk is negative exactly when the mean lies outside the tolerance.
THEOREM NegativeMeansOutside ==
    ASSUME NEW spec, NEW parts, NEW total, NEW sigma,
           Assessment(spec, parts, total, sigma)
    PROVE  LET cpk == Cpk(Cpu(spec, parts, total, sigma), Cpl(spec, parts, total, sigma))
           IN  Below(cpk, <<0, 1>>) <=> \/ total > spec.usl * parts
                                        \/ total < spec.lsl * parts
<1> DEFINE over == Above(spec, parts, total)
           under == Under(spec, parts, total)
           near == IF over <= under THEN over ELSE under
           unit == 6 * parts * sigma.num
           d == sigma.den
           cpk == <<(2 * near) * d, unit>>
<1>1. over \in Int /\ under \in Int /\ unit \in Nat \ {0} /\ d \in Nat \ {0}
  BY Indices DEF Assessment
<1>2. Cpk(Cpu(spec, parts, total, sigma), Cpl(spec, parts, total, sigma)) = cpk
  BY CpkIsTheNearerSide
<1>3. near < 0 <=> total > spec.usl * parts \/ total < spec.lsl * parts
  BY DEF Above, Under, Assessment
<1> HIDE DEF over, under, unit, d
<1>4. near \in Int /\ (2 * near) * d \in Int /\ ((2 * near) * d < 0 <=> near < 0)
  BY <1>1, ScaleOrder
<1>5. Below(cpk, <<0, 1>>) <=> near < 0
  BY <1>1, <1>4 DEF Below
<1> QED BY <1>2, <1>3, <1>5

-----------------------------------------------------------------------------
(* Readings *)

\* Collect measures the parts just made one after the other, whatever the
\* fault: the fold takes the last position first.
Places(made) == [i \in DOMAIN made |-> i]
Measured(old, done, made) ==
    FoldLeftDomain(LAMBDA r, k : Measure(r, done + k, made[k]), old, made)
Measurings(old, done, made) ==
    CHOOSE r : r = [s \in SUBSET DOMAIN Places(made) |->
        IF s = {} THEN old
        ELSE Measure(r[s \ {Max(s)}], done + Places(made)[Max(s)],
                     made[Places(made)[Max(s)]])]

LEMMA MeasuredIsFold ==
    ASSUME NEW old, NEW done, NEW made
    PROVE  Measured(old, done, made) = Measurings(old, done, made)[DOMAIN Places(made)]
BY DEF Measured, FoldLeftDomain, FoldLeft, MapThenFoldSet, Measurings, Places

LEMMA MeasureAddsOne ==
    ASSUME NEW old \in Seq(Int), NEW i \in Nat, NEW dimension \in Int
    PROVE  /\ Measure(old, i, dimension) \in Seq(Int)
           /\ Len(Measure(old, i, dimension)) = Len(old) + 1
<1>1. old # <<>> => Last(old) \in Int
  BY DEF Last
<1> QED BY <1>1 DEF Measure

\* One reading for every part.
LEMMA MeasuredAddsAll ==
    ASSUME NEW old \in Seq(Int), NEW done \in Nat, NEW made \in Seq(Int)
    PROVE  /\ Measured(old, done, made) \in Seq(Int)
           /\ Len(Measured(old, done, made)) = Len(old) + Len(made)
<1> DEFINE D == DOMAIN Places(made)
           pick == [s \in SUBSET D |-> Max(s)]
           step == [p \in D \X Seq(Int) |-> Measure(p[2], done + p[1], made[p[1]])]
           Solves(r) == r = [s \in SUBSET D |->
               IF s = {} THEN old
               ELSE Measure(r[s \ {Max(s)}], done + Places(made)[Max(s)],
                            made[Places(made)[Max(s)]])]
           all == Measurings(old, done, made)
           right == [s \in SUBSET D |->
               IF all[s] \in Seq(Int) /\ Len(all[s]) = Len(old) + Cardinality(s)
               THEN 1 ELSE 0]
           yes == {1}
<1>1. /\ D = 1 .. Len(made) /\ Len(made) \in Nat /\ IsFiniteSet(D)
      /\ Cardinality(D) = Len(made)
      /\ \A i \in D : Places(made)[i] = i /\ made[i] \in Int /\ i \in Nat
  <2>1. D = 1 .. Len(made) /\ Len(made) \in Nat
    BY DEF Places
  <2>2. \A i \in D : Places(made)[i] = i /\ made[i] \in Int /\ i \in Nat
    BY DEF Places
  <2>3. IsFiniteSet(1 .. Len(made)) /\ Cardinality(1 .. Len(made)) = Len(made)
    <3> DEFINE n == Len(made)
    <3>1. n \in Nat
      BY <2>1
    <3> HIDE DEF n
    <3>2. IsFiniteSet(1 .. n) /\ Cardinality(1 .. n) = n
      BY <3>1, FS_Interval
    <3> QED BY <3>2 DEF n
  <2> HIDE DEF D
  <2> QED BY <2>1, <2>2, <2>3
<1> HIDE DEF D
<1>2. \A s \in SUBSET D : IsFiniteSet(s) /\ Cardinality(s) \in Nat
  BY <1>1, FS_Subset, FS_CardinalityType
<1>3. \A s \in SUBSET D : s # {} => Max(s) \in s
  BY <1>1, <1>2, LargestAndSmallest
<1>4. Picks(pick, D)
  BY <1>3 DEF Picks
<1>5. ASSUME NEW i \in D, NEW r \in Seq(Int)
      PROVE  /\ Measure(r, done + i, made[i]) \in Seq(Int)
             /\ Len(Measure(r, done + i, made[i])) = Len(r) + 1
             /\ step[i, r] = Measure(r, done + i, made[i])
  <2>1. done + i \in Nat /\ made[i] \in Int
    BY <1>1
  <2>2. step[i, r] = Measure(r, done + i, made[i])
    OBVIOUS
  <2> QED BY <2>1, <2>2, MeasureAddsOne
<1>6. step \in [D \X Seq(Int) -> Seq(Int)]
  <2>1. \A p \in D \X Seq(Int) : Measure(p[2], done + p[1], made[p[1]]) \in Seq(Int)
    BY <1>5
  <2> QED BY <2>1
<1> HIDE DEF step
<1>7. PICK g \in [SUBSET D -> Seq(Int)] : \A s \in SUBSET D :
          g[s] = IF s = {} THEN old ELSE step[pick[s], g[s \ {pick[s]}]]
  <2>1. Folds(D, Seq(Int), old, pick, step) # {}
    <3> HIDE DEF pick
    <3> QED BY <1>1, <1>4, <1>6, RecursionExists
  <2> QED BY <2>1 DEF Folds
<1>8. Solves(g)
  <2>1. ASSUME NEW s \in SUBSET D, s # {}
        PROVE  g[s] = Measure(g[s \ {Max(s)}], done + Places(made)[Max(s)],
                              made[Places(made)[Max(s)]])
    <3>1. Max(s) \in D /\ s \ {Max(s)} \in SUBSET D /\ pick[s] = Max(s)
      BY <1>3, <2>1
    <3>2. g[s] = step[Max(s), g[s \ {Max(s)}]]
      BY <1>7, <2>1, <3>1
    <3>3. g[s \ {Max(s)}] \in Seq(Int)
      BY <1>7, <3>1
    <3>4. g[s] = Measure(g[s \ {Max(s)}], done + Max(s), made[Max(s)])
      BY <1>5, <3>1, <3>2, <3>3
    <3>5. Places(made)[Max(s)] = Max(s)
      BY <1>1, <3>1
    <3> QED BY <3>4, <3>5
  <2> QED BY <1>7, <2>1
<1>9. Solves(all)
  BY <1>8 DEF Measurings, D
<1> HIDE DEF all
<1>10. right[{}] \in yes
  BY <1>9, FS_EmptySet
<1>11. ASSUME NEW s \in SUBSET D, s # {}, right[s \ {pick[s]}] \in yes
       PROVE  right[s] \in yes
  <2> DEFINE i == Max(s)
             rest == s \ {i}
  <2>1. i \in s /\ i \in D /\ rest \in SUBSET D /\ pick[s] = i
    BY <1>3, <1>11
  <2>2. all[rest] \in Seq(Int) /\ Len(all[rest]) = Len(old) + Cardinality(rest)
    BY <1>11, <2>1
  <2>3. all[s] = Measure(all[rest], done + i, made[i])
    <3>1. all[s] = Measure(all[rest], done + Places(made)[i], made[Places(made)[i]])
      BY <1>9, <1>11
    <3>2. Places(made)[i] = i
      BY <1>1, <2>1
    <3> QED BY <3>1, <3>2
  <2>4. Cardinality(rest) = Cardinality(s) - 1 /\ Cardinality(s) \in Nat
    BY <1>2, <2>1, FS_RemoveElement
  <2> HIDE DEF i, rest
  <2> DEFINE r == all[rest]
             more == Measure(r, done + i, made[i])
  <2>5. more \in Seq(Int) /\ Len(more) = Len(r) + 1
    <3>1. i \in D /\ r \in Seq(Int)
      BY <2>1, <2>2
    <3> HIDE DEF r
    <3> QED BY <1>5, <3>1
  <2> HIDE DEF more, r
  <2>6. all[s] = more
    BY <2>3 DEF more, r
  <2>7. all[s] \in Seq(Int) /\ Len(all[s]) = Len(old) + Cardinality(s)
    BY <2>2, <2>4, <2>5, <2>6 DEF r
  <2> QED BY <2>7
<1>12. right[D] \in yes
  <2> HIDE DEF right, pick, yes
  <2>1. StepsStay(D, yes, pick, right)
    BY <1>11 DEF StepsStay
  <2> QED BY <1>1, <1>4, <1>10, <2>1, RecursionStays
<1>13. all[D] \in Seq(Int) /\ Len(all[D]) = Len(old) + Len(made)
  <2>1. D \in SUBSET D
    OBVIOUS
  <2>2. right[D] = IF all[D] \in Seq(Int) /\ Len(all[D]) = Len(old) + Cardinality(D)
                   THEN 1 ELSE 0
    BY <2>1
  <2> HIDE DEF right
  <2> QED BY <1>1, <1>12, <2>2
<1> QED BY <1>13, MeasuredIsFold DEF all, D

-----------------------------------------------------------------------------
(* Windows of a sequence *)

LEMMA SliceOf ==
    ASSUME NEW S, NEW s \in Seq(S), NEW a \in Nat \ {0}, NEW b \in Nat,
           a <= b + 1, b <= Len(s)
    PROVE  /\ SubSeq(s, a, b) \in Seq(S) /\ Len(SubSeq(s, a, b)) = b - a + 1
           /\ DOMAIN SubSeq(s, a, b) = 1 .. b - a + 1
           /\ \A i \in 1 .. b - a + 1 : /\ SubSeq(s, a, b)[i] = s[a + i - 1]
                                        /\ a + i - 1 \in DOMAIN s
OBVIOUS

LEMMA SliceOfSlice ==
    ASSUME NEW S, NEW s \in Seq(S), NEW a \in Nat \ {0}, NEW b \in Nat,
           a <= b + 1, b <= Len(s),
           NEW c \in Nat \ {0}, NEW d \in Nat, c <= d + 1, d <= b - a + 1
    PROVE  SubSeq(SubSeq(s, a, b), c, d) = SubSeq(s, a + c - 1, a + d - 1)
<1> DEFINE t == SubSeq(s, a, b)
           u == SubSeq(t, c, d)
           v == SubSeq(s, a + c - 1, a + d - 1)
<1>1. /\ t \in Seq(S) /\ Len(t) = b - a + 1
      /\ \A i \in 1 .. b - a + 1 : t[i] = s[a + i - 1]
  BY SliceOf
<1> HIDE DEF t
<1>2. /\ u \in Seq(S) /\ DOMAIN u = 1 .. d - c + 1
      /\ \A i \in 1 .. d - c + 1 : u[i] = t[c + i - 1]
  BY <1>1, SliceOf
<1>3. /\ v \in Seq(S) /\ DOMAIN v = 1 .. d - c + 1
      /\ \A i \in 1 .. d - c + 1 : v[i] = s[a + c - 1 + i - 1]
  <2>1. /\ a + c - 1 \in Nat \ {0} /\ a + d - 1 \in Nat
        /\ a + c - 1 <= a + d - 1 + 1 /\ a + d - 1 <= Len(s)
        /\ a + d - 1 - (a + c - 1) + 1 = d - c + 1
    OBVIOUS
  <2> DEFINE from == a + c - 1
             to == a + d - 1
  <2> HIDE DEF from, to
  <2>2. /\ SubSeq(s, from, to) \in Seq(S) /\ DOMAIN SubSeq(s, from, to) = 1 .. to - from + 1
        /\ \A i \in 1 .. to - from + 1 : SubSeq(s, from, to)[i] = s[from + i - 1]
    BY <2>1, SliceOf DEF from, to
  <2> QED BY <2>1, <2>2 DEF from, to
<1> HIDE DEF u, v
<1>4. ASSUME NEW i \in 1 .. d - c + 1
      PROVE  u[i] = v[i]
  <2>1. c + i - 1 \in 1 .. b - a + 1 /\ a + (c + i - 1) - 1 = a + c - 1 + i - 1
    OBVIOUS
  <2>2. t[c + i - 1] = s[a + (c + i - 1) - 1]
    BY <1>1, <2>1
  <2> QED BY <1>2, <1>3, <2>1, <2>2
<1>5. u = [i \in 1 .. d - c + 1 |-> u[i]] /\ v = [i \in 1 .. d - c + 1 |-> v[i]]
  BY <1>2, <1>3
<1>6. u = v
  BY <1>4, <1>5
<1> QED BY <1>6 DEF u, v, t

LEMMA AppendNext ==
    ASSUME NEW n \in Nat, NEW f, DOMAIN f = 1 .. n + 1
    PROVE  Append([k \in 1 .. n |-> f[k]], f[n + 1]) = [k \in 1 .. n + 1 |-> f[k]]
<1> DEFINE S == {f[k] : k \in 1 .. n + 1}
           g == [k \in 1 .. n |-> f[k]]
<1>1. g \in Seq(S) /\ Len(g) = n /\ f[n + 1] \in S
  OBVIOUS
<1>2. \A k \in 1 .. n : g[k] = f[k]
  OBVIOUS
<1> HIDE DEF g, S
<1>3. /\ DOMAIN Append(g, f[n + 1]) = 1 .. n + 1
      /\ \A k \in 1 .. n : Append(g, f[n + 1])[k] = g[k]
      /\ Append(g, f[n + 1])[n + 1] = f[n + 1]
      /\ Append(g, f[n + 1]) \in Seq(S)
  BY <1>1
<1>4. \A k \in 1 .. n + 1 : Append(g, f[n + 1])[k] = f[k]
  BY <1>2, <1>3
<1> QED BY <1>3, <1>4 DEF g

\* One more subgroup: the trend of all is the trend so far and, once a window
\* is full, the index of the last window.
LEMMA RollingGrows ==
    ASSUME NEW S, NEW groups \in Seq(S), NEW spec, NEW from \in Nat, NEW to \in Nat,
           from <= to, to < Len(groups)
    PROVE  LET before == SubSeq(groups, from + 1, to)
               kept   == SubSeq(groups, from + 1, to + 1)
               trendOf(g) == RollingCapability(g, spec, CapabilityWindow)
           IN  trendOf(kept) =
                  IF Len(kept) < CapabilityWindow THEN trendOf(before)
                  ELSE Append(trendOf(before),
                              CapabilityFromSubgroups(LastWindow(kept), spec))
<1> DEFINE W == CapabilityWindow
           before == SubSeq(groups, from + 1, to)
           kept == SubSeq(groups, from + 1, to + 1)
           n == to - from
           index(g) == CapabilityFromSubgroups(g, spec)
           row(k) == index(SubSeq(kept, k, k + W - 1))
<1>1. W \in Nat /\ W >= 2
  BY EvaluationAssumption
<1>2. before \in Seq(S) /\ Len(before) = n /\ n \in Nat
  BY SliceOf
<1>3. kept \in Seq(S) /\ Len(kept) = n + 1
  <2>1. to + 1 - (from + 1) + 1 = n + 1
    OBVIOUS
  <2> QED BY <2>1, SliceOf
<1>4. ASSUME NEW k \in Nat \ {0}, k + W - 1 <= n
      PROVE  SubSeq(before, k, k + W - 1) = SubSeq(kept, k, k + W - 1)
  <2> DEFINE l == k + W - 1
  <2>1. l \in Nat /\ k <= l + 1 /\ l <= n
    BY <1>1, <1>4
  <2> HIDE DEF l
  <2>2. SubSeq(before, k, l) = SubSeq(groups, from + 1 + k - 1, from + 1 + l - 1)
    BY <2>1, SliceOfSlice
  <2>3. SubSeq(kept, k, l) = SubSeq(groups, from + 1 + k - 1, from + 1 + l - 1)
    BY <2>1, SliceOfSlice
  <2> QED BY <2>2, <2>3 DEF l
<1> HIDE DEF before, kept, n
<1>5. CASE n + 1 < W
  <2>1. Len(kept) < W /\ Len(before) < W
    BY <1>1, <1>2, <1>3, <1>5
  <2> QED BY <2>1 DEF RollingCapability, before, kept
<1>6. CASE n + 1 >= W
  <2> DEFINE m == n - W + 1
             f == [k \in 1 .. m + 1 |-> row(k)]
  <2>1. m \in Nat /\ n + 1 - W + 1 = m + 1
    BY <1>1, <1>2, <1>6
  <2>2. RollingCapability(kept, spec, W) = f
    BY <1>1, <1>2, <1>3, <1>6, <2>1 DEF RollingCapability
  <2>3. RollingCapability(before, spec, W) = [k \in 1 .. m |-> row(k)]
    <3>1. CASE n < W
      <4>1. m = 0
        BY <1>1, <1>2, <1>6, <3>1
      <4>2. RollingCapability(before, spec, W) = <<>>
        BY <1>2, <3>1 DEF RollingCapability
      <4> QED BY <4>1, <4>2
    <3>2. CASE n >= W
      <4>1. \A k \in 1 .. m : SubSeq(before, k, k + W - 1) = SubSeq(kept, k, k + W - 1)
        <5>1. \A k \in 1 .. m : k \in Nat \ {0} /\ k + W - 1 <= n
          BY <1>1, <1>2, <2>1
        <5> QED BY <1>4, <5>1
      <4>2. ~ (n < W)
        BY <1>1, <1>2, <3>2
      <4>3. RollingCapability(before, spec, W)
                = [k \in 1 .. m |-> index(SubSeq(before, k, k + W - 1))]
        BY <1>2, <4>2 DEF RollingCapability
      <4> HIDE DEF index
      <4> QED BY <4>1, <4>3
    <3> QED BY <1>1, <1>2, <3>1, <3>2
  <2>4. LastWindow(kept) = SubSeq(kept, m + 1, m + 1 + W - 1)
    <3>1. Len(kept) - W + 1 = m + 1 /\ m + 1 + W - 1 = Len(kept)
      BY <1>1, <1>2, <1>3
    <3> QED BY <3>1 DEF LastWindow
  <2> HIDE DEF row, m
  <2>5. [k \in 1 .. m |-> row(k)] = [k \in 1 .. m |-> f[k]]
        /\ DOMAIN f = 1 .. m + 1 /\ f[m + 1] = row(m + 1)
    BY <2>1
  <2> HIDE DEF f
  <2>6. Append([k \in 1 .. m |-> f[k]], f[m + 1]) = [k \in 1 .. m + 1 |-> f[k]]
    BY <2>1, <2>5, AppendNext
  <2>7. f = [k \in 1 .. m + 1 |-> f[k]]
    BY DEF f
  <2>8. CapabilityFromSubgroups(LastWindow(kept), spec) = f[m + 1]
    BY <2>4, <2>5 DEF row
  <2>9. ~ (Len(kept) < W)
    BY <1>1, <1>2, <1>3, <1>6
  <2> QED BY <2>2, <2>3, <2>5, <2>6, <2>7, <2>8, <2>9 DEF before, kept
<1> QED BY <1>1, <1>2, <1>5, <1>6

-----------------------------------------------------------------------------
(* The run of the evaluation *)

Expected == BaselineSubgroups + MonitorSubgroups

\* Parts are collected in whole subgroups and each is measured once.
PartsInv ==
    /\ scenario \in [kind : Kinds, spec : Specs, size : DOMAIN Noise, cycle : Cycles]
    /\ phase \in {"collect", "feed", "done"}
    /\ truth \in Seq(Int) /\ readings \in Seq(Int) /\ Len(readings) = Len(truth)
    /\ phase = "collect" =>
          position = 0 /\ \E m \in 0 .. Expected - 1 : Len(truth) = m * Size
    /\ phase # "collect" => Len(truth) = Expected * Size

\* The limits are those of the baseline, and every monitored subgroup has its
\* point.
Plotted == IF limits = None THEN 0 ELSE position - BaselineSubgroups

ChartInv ==
    /\ position \in 0 .. Expected
    /\ limits = None => position < BaselineSubgroups /\ phase # "done"
    /\ limits # None => /\ position >= BaselineSubgroups /\ phase # "collect"
                        /\ limits = ComputeLimits(SubSeq(Subgroups, 1, BaselineSubgroups))
    /\ points = [k \in 1 .. Plotted |-> Evaluate(limits, Subgroups[BaselineSubgroups + k])]

TrendInv == trend = IF limits = None THEN <<>>
                    ELSE RollingCapability(Monitored, scenario.spec, CapabilityWindow)

\* Rule 1, on either chart.
Critical(point) == RuleOne(point.mean_zone) \/ RuleOne(point.range_zone)

\* The first alarm and the alarms since, against the points.
AlarmsInv ==
    /\ first = None => /\ alarm_subgroups = 0
                       /\ \A k \in 1 .. Plotted : ~ Critical(points[k])
    /\ first # None => /\ first \in [subgroups : 1 .. Plotted, critical : BOOLEAN]
                       /\ alarm_subgroups \in 1 .. Plotted - first.subgroups + 1
                       /\ first.critical => Critical(points[first.subgroups])
                       /\ \A k \in 1 .. first.subgroups - 1 : ~ Critical(points[k])

AfterAlarm == {i \in ScrapIndices : i > DetectionParts}

\* What the result counts.
ResultInv ==
    phase = "done" =>
        /\ position = Expected
        /\ result.detected = (first # None)
        /\ result.scrap_parts = Cardinality(ScrapIndices)
        /\ result.warning_parts # None =>
              /\ first # None /\ ScrapIndices # {}
              /\ result.warning_parts = Min(ScrapIndices) - DetectionParts
              /\ result.scrap_after_alarm = Cardinality(AfterAlarm)

RunInv == PartsInv /\ ChartInv /\ TrendInv /\ AlarmsInv /\ ResultInv

LEMMA ScenarioFacts ==
    ASSUME PartsInv
    PROVE  /\ Size \in DOMAIN Noise /\ Size \in DOMAIN RelativeRange /\ Size \in Nat \ {0}
           /\ scenario.spec \in Specs /\ scenario.kind \in Kinds /\ scenario.cycle \in Nat
           /\ BaselineSubgroups \in Nat \ {0} /\ MonitorSubgroups \in Nat \ {0}
           /\ Expected \in Nat \ {0} /\ TotalParts = Expected * Size /\ TotalParts \in Nat
<1>1. /\ scenario.size \in DOMAIN Noise /\ scenario.spec \in Specs
      /\ scenario.kind \in Kinds /\ scenario.cycle \in Cycles
  BY DEF PartsInv
<1>2. Size \in DOMAIN RelativeRange
  BY <1>1, EvaluationAssumption DEF Size
<1>3. Size \in Nat \ {0}
  <2>1. PICK r \in 2 .. 5 : Size = r * r
    BY <1>2, RelativeRangeAssumption
  <2> QED BY <2>1
<1>4. /\ BaselineSubgroups \in Nat \ {0} /\ MonitorSubgroups \in Nat \ {0}
      /\ Expected \in Nat \ {0} /\ scenario.cycle \in Nat
  <2>1. /\ BaselineSubgroups \in Nat \ {0} /\ MonitorSubgroups \in Nat \ {0}
        /\ Cycles \subseteq Nat
    BY EvaluationAssumption
  <2>2. Expected \in Nat \ {0}
    BY <2>1 DEF Expected
  <2> QED BY <1>1, <2>1, <2>2
<1>5. TotalParts = Expected * Size /\ TotalParts \in Nat
  <2>1. TotalParts = Expected * Size
    BY DEF TotalParts, Expected
  <2>2. Expected * Size \in Nat
    BY <1>3, <1>4
  <2> QED BY <2>1, <2>2
<1> QED BY <1>1, <1>2, <1>3, <1>4, <1>5 DEF Size

\* Once the parts are made the readings are cut into as many subgroups as the
\* run needs.
LEMMA SubgroupFacts ==
    ASSUME PartsInv, phase # "collect"
    PROVE  /\ Subgroups \in Seq(Seq(Int)) /\ Len(Subgroups) = Expected
           /\ DOMAIN Subgroups = 1 .. Expected /\ AreGroups(Subgroups, Size)
<1>1. /\ readings \in Seq(Int) /\ Len(readings) = Expected * Size
      /\ Expected \in Nat /\ Size \in Nat \ {0}
  BY ScenarioFacts DEF PartsInv
<1> QED BY <1>1, SubgroupsCut DEF Subgroups

\* The limits of the baseline of a run.
LEMMA BaselineFacts ==
    ASSUME PartsInv, phase # "collect"
    PROVE  LET baseline == SubSeq(Subgroups, 1, BaselineSubgroups)
           IN  /\ Ranges(baseline) \in Nat
               /\ Total(Measurements(baseline)) \in Int
               /\ ComputeLimits(baseline) =
                     [subgroup_size |-> Size, baseline_count |-> BaselineSubgroups,
                      xbar |-> XbarLimits(baseline, Size), r |-> RLimits(baseline, Size)]
               /\ ComputeLimits(baseline) \in ChartLimits
<1> DEFINE B == BaselineSubgroups
           baseline == SubSeq(Subgroups, 1, B)
           n == Size
<1>1. /\ n \in DOMAIN RelativeRange /\ n \in Nat \ {0} /\ B \in Nat \ {0}
      /\ B <= Expected /\ Expected \in Nat
  BY ScenarioFacts DEF Expected
<1>2. /\ Subgroups \in Seq(Seq(Int)) /\ Len(Subgroups) = Expected
      /\ AreGroups(Subgroups, n) /\ DOMAIN Subgroups = 1 .. Expected
  BY SubgroupFacts
<1> HIDE DEF n
<1>3. /\ baseline \in Seq(Seq(Int)) /\ Len(baseline) = B /\ DOMAIN baseline = 1 .. B
      /\ \A g \in 1 .. B : baseline[g] = Subgroups[g] /\ g \in DOMAIN Subgroups
  <2>1. B - 1 + 1 = B /\ \A g \in 1 .. B : 1 + g - 1 = g
    BY <1>1
  <2>2. /\ baseline \in Seq(Seq(Int)) /\ Len(baseline) = B - 1 + 1
        /\ DOMAIN baseline = 1 .. B - 1 + 1
        /\ \A g \in 1 .. B - 1 + 1 : /\ baseline[g] = Subgroups[1 + g - 1]
                                     /\ 1 + g - 1 \in DOMAIN Subgroups
    BY <1>1, <1>2, SliceOf
  <2> HIDE DEF baseline
  <2> QED BY <2>1, <2>2
<1> HIDE DEF baseline
<1>4. AreGroups(baseline, n)
  BY <1>2, <1>3 DEF AreGroups
<1>5. Ranges(baseline) \in Nat
  BY <1>1, <1>3, <1>4, RangesAreNat
<1>6. Total(Measurements(baseline)) \in Int
  <2>1. baseline # <<>>
    BY <1>1, <1>3
  <2>2. Measurements(baseline) \in Seq(Int)
    BY <1>1, <1>3, <1>4, <2>1, MeasurementsJoin DEF Joins
  <2> QED BY <2>2, TotalIsInt
<1>7. Len(baseline[1]) = n
  BY <1>1, <1>3, <1>4 DEF AreGroups, IsGroup
<1>8. ComputeLimits(baseline) =
          [subgroup_size |-> n, baseline_count |-> B,
           xbar |-> XbarLimits(baseline, n), r |-> RLimits(baseline, n)]
  BY <1>3, <1>7 DEF ComputeLimits
<1>9. XbarLimits(baseline, n) \in ControlLimits
  <2>1. D2(n) \in Nat /\ Root(n) \in Nat
    BY <1>1, TableEntries, RootIsWhole
  <2>2. /\ 10 * D2(n) * Total(Measurements(baseline)) \in Int
        /\ 10000 * Root(n) * Ranges(baseline) \in Int
    BY <1>5, <1>6, <2>1
  <2> QED BY <2>2 DEF XbarLimits, ControlLimits
<1>10. RLimits(baseline, n) \in ControlLimits
  <2>1. D2(n) \in Nat /\ D3(n) \in Nat
    BY <1>1, TableEntries
  <2>2. AtLeastZero(10 * D2(n) - 3 * D3(n)) \in Int
    BY <2>1 DEF AtLeastZero
  <2>3. /\ 10 * D2(n) * Ranges(baseline) \in Int /\ 3 * D3(n) * Ranges(baseline) \in Int
        /\ D3(n) * Ranges(baseline) \in Int
        /\ AtLeastZero(10 * D2(n) - 3 * D3(n)) * Ranges(baseline) \in Int
    BY <1>5, <2>1, <2>2
  <2> QED BY <2>3 DEF RLimits, ControlLimits
<1>11. ComputeLimits(baseline) \in ChartLimits
  BY <1>1, <1>8, <1>9, <1>10 DEF ChartLimits
<1> QED BY <1>5, <1>6, <1>8, <1>11 DEF baseline, n

LEMMA InitRun == Init => RunInv
<1> SUFFICES ASSUME Init PROVE RunInv
  OBVIOUS
<1>1. PartsInv
  <2>1. Size \in DOMAIN RelativeRange /\ Expected \in Nat \ {0}
    BY EvaluationAssumption DEF Init, Size, Expected
  <2>2. Size \in Nat
    <3>1. PICK r \in 2 .. 5 : Size = r * r
      BY <2>1, RelativeRangeAssumption
    <3> QED BY <3>1
  <2>3. 0 \in 0 .. Expected - 1 /\ Len(truth) = 0 * Size
    BY <2>1, <2>2 DEF Init
  <2>4. \E m \in 0 .. Expected - 1 : Len(truth) = m * Size
    BY <2>3
  <2> QED BY <2>4 DEF Init, PartsInv
<1>2. ChartInv
  BY EvaluationAssumption DEF Init, ChartInv, Plotted, Expected
<1>3. TrendInv /\ AlarmsInv /\ ResultInv
  BY DEF Init, TrendInv, AlarmsInv, ResultInv, Plotted
<1> QED BY <1>1, <1>2, <1>3 DEF RunInv

\* A subgroup of parts is made and measured.
LEMMA CollectParts ==
    ASSUME PartsInv, Collect
    PROVE  /\ PartsInv'
           /\ \E noise \in Noise[Size] :
                 /\ noise \in Seq(Int) /\ Len(noise) = Size
                 /\ truth' = truth \o [k \in 1 .. Size |-> Made(Len(truth) + k, noise[k])]
<1> DEFINE n == Size
<1>1. PICK noise \in Noise[n] :
          LET made == [k \in 1 .. n |-> Made(Len(truth) + k, noise[k])]
          IN  /\ truth' = truth \o made
              /\ readings' = FoldLeftDomain(LAMBDA r, k : Measure(r, Len(truth) + k, made[k]),
                                            readings, made)
  BY DEF Collect
<1> DEFINE made == [k \in 1 .. n |-> Made(Len(truth) + k, noise[k])]
<1>2. truth' = truth \o made /\ readings' = Measured(readings, Len(truth), made)
  BY <1>1 DEF Measured
<1>3. /\ n \in Nat \ {0} /\ n \in DOMAIN Noise /\ Expected \in Nat \ {0}
      /\ TotalParts = Expected * n
      /\ truth \in Seq(Int) /\ readings \in Seq(Int) /\ Len(readings) = Len(truth)
  BY ScenarioFacts DEF PartsInv
<1>4. /\ phase = "collect" /\ UNCHANGED <<scenario, position>> /\ n' = n
      /\ phase' = IF Len(truth') < TotalParts THEN "collect" ELSE "feed"
  BY DEF Collect, Size
<1>5. noise \in Seq(Int) /\ Len(noise) = n
  BY <1>1, <1>3, EvaluationAssumption
<1>6. made \in Seq(Int) /\ Len(made) = n
  <2>1. \A k \in 1 .. n : noise[k] \in Int
    BY <1>5
  <2>2. \A k \in 1 .. n : Made(Len(truth) + k, noise[k]) \in Int
    BY <2>1, EvaluationAssumption DEF Made
  <2>3. made \in [1 .. n -> Int] /\ n \in Nat
    BY <1>3, <2>2
  <2> HIDE DEF made, n
  <2> QED BY <2>3
<1>7. /\ truth' \in Seq(Int) /\ Len(truth') = Len(truth) + n
      /\ readings' \in Seq(Int) /\ Len(readings') = Len(readings) + n
  <2> HIDE DEF made, n
  <2>1. Len(truth) \in Nat
    BY <1>3
  <2>2. truth' \in Seq(Int) /\ Len(truth') = Len(truth) + n
    BY <1>2, <1>3, <1>6, Appended
  <2>3. /\ Measured(readings, Len(truth), made) \in Seq(Int)
        /\ Len(Measured(readings, Len(truth), made)) = Len(readings) + Len(made)
    BY <1>3, <1>6, <2>1, MeasuredAddsAll
  <2> QED BY <1>2, <1>6, <2>2, <2>3
<1>8. PICK m \in 0 .. Expected - 1 : Len(truth) = m * n
  BY <1>4 DEF PartsInv
<1>9. /\ Len(truth') = (m + 1) * n /\ m + 1 \in 0 .. Expected
      /\ Len(truth') < TotalParts => m + 1 \in 0 .. Expected - 1
      /\ ~ (Len(truth') < TotalParts) => m + 1 = Expected
  <2> HIDE DEF n
  <2>1. Len(truth') = (m + 1) * n
    BY <1>3, <1>7, <1>8, NextMultiple
  <2>2. m + 1 \in 0 .. Expected
    BY <1>3
  <2>3. m + 1 = Expected => ~ (Len(truth') < TotalParts)
    <3>1. m + 1 = Expected => Len(truth') = TotalParts
      BY <1>3, <2>1
    <3>2. Len(truth') \in Nat
      BY <1>7
    <3> QED BY <3>1, <3>2
  <2>4. ASSUME m + 1 # Expected
        PROVE  Len(truth') < TotalParts
    <3>1. m + 2 <= Expected /\ m + 2 \in Nat
      BY <1>3, <2>4
    <3>2. (m + 2) * n <= Expected * n
      BY <1>3, <3>1, MultiplesInOrder
    <3>3. (m + 2) * n = (m + 1) * n + n /\ (m + 1) * n \in Nat /\ Expected * n \in Nat
      BY <1>3
    <3> QED BY <1>3, <2>1, <3>2, <3>3
  <2> QED BY <1>3, <2>1, <2>2, <2>3, <2>4
<1>10. phase' = "collect" => position' = 0 /\ \E k \in 0 .. Expected - 1 : Len(truth') = k * n'
  <2>1. position = 0
    BY <1>4 DEF PartsInv
  <2> HIDE DEF n
  <2> QED BY <1>4, <1>9, <2>1
<1>11. phase' # "collect" => Len(truth') = Expected * n'
  <2> HIDE DEF n
  <2> QED BY <1>4, <1>9
<1>12. PartsInv'
  <2>1. scenario' \in [kind : Kinds, spec : Specs, size : DOMAIN Noise, cycle : Cycles]
    BY <1>4 DEF PartsInv
  <2>2. phase' \in {"collect", "feed", "done"} /\ Len(readings') = Len(truth')
    BY <1>3, <1>4, <1>7
  <2> QED BY <1>7, <1>10, <1>11, <2>1, <2>2 DEF PartsInv
<1> QED BY <1>1, <1>2, <1>5, <1>12

LEMMA CollectRun ==
    ASSUME RunInv, Collect
    PROVE  RunInv'
<1>1. PartsInv'
  BY CollectParts DEF RunInv
<1>2. /\ limits = None /\ position \in 0 .. Expected
      /\ position < BaselineSubgroups /\ points = <<>> /\ trend = <<>>
  <2>1. limits = None /\ position \in 0 .. Expected /\ position < BaselineSubgroups
    BY DEF RunInv, ChartInv, Collect
  <2>2. points = [k \in 1 .. 0 |-> Evaluate(limits, Subgroups[BaselineSubgroups + k])]
    BY <2>1 DEF RunInv, ChartInv, Plotted
  <2>3. points = <<>>
    BY <2>2
  <2>4. trend = <<>>
    BY <2>1 DEF RunInv, TrendInv
  <2> QED BY <2>1, <2>3, <2>4
<1>3. /\ UNCHANGED <<position, limits, points, trend, first, alarm_subgroups, result>>
      /\ phase' \in {"collect", "feed"}
  BY DEF Collect
<1>4. ChartInv'
  <2>1. points' = [k \in 1 .. Plotted'
                     |-> Evaluate(limits', Subgroups'[BaselineSubgroups + k])]
    <3>1. Plotted' = 0 /\ points' = <<>>
      BY <1>2, <1>3 DEF Plotted
    <3> QED BY <3>1
  <2> QED BY <1>2, <1>3, <2>1 DEF ChartInv
<1>5. TrendInv' /\ ResultInv'
  BY <1>2, <1>3 DEF TrendInv, ResultInv
<1>6. AlarmsInv'
  BY <1>2, <1>3 DEF RunInv, AlarmsInv, Plotted
<1> QED BY <1>1, <1>4, <1>5, <1>6 DEF RunInv

\* Feeding leaves the parts and their subgroups as they are.
LEMMA FeedParts ==
    ASSUME PartsInv, UNCHANGED <<scenario, truth, readings>>,
           phase = "feed", phase' \in {"feed", "done"}
    PROVE  /\ PartsInv' /\ Subgroups' = Subgroups /\ Size' = Size
           /\ Monitored' = SubSeq(Subgroups, BaselineSubgroups + 1, position')
<1>1. Size' = Size
  BY DEF Size
<1>2. Subgroups' = Subgroups
  BY <1>1 DEF Subgroups, SubgroupsFromValues
<1>3. Monitored' = SubSeq(Subgroups, BaselineSubgroups + 1, position')
  BY <1>2 DEF Monitored
<1> QED BY <1>1, <1>2, <1>3 DEF PartsInv

\* One more healthy subgroup, the last of which freezes the limits.
LEMMA AddToBaselineRun ==
    ASSUME RunInv, AddToBaseline
    PROVE  RunInv'
<1> DEFINE B == BaselineSubgroups
           W == CapabilityWindow
<1>1. /\ PartsInv /\ phase = "feed" /\ phase' = "feed" /\ limits = None
      /\ UNCHANGED <<scenario, truth, readings>>
  BY DEF RunInv, AddToBaseline
<1>2. /\ PartsInv' /\ Subgroups' = Subgroups
      /\ Monitored' = SubSeq(Subgroups, B + 1, position')
  BY <1>1, FeedParts
<1>3. /\ B \in Nat \ {0} /\ W \in Nat /\ W >= 2
      /\ Expected \in Nat /\ B < Expected
  BY EvaluationAssumption DEF Expected
<1>4. position \in 0 .. Expected /\ position < B
  BY <1>1 DEF RunInv, ChartInv
<1>5. points = <<>> /\ trend = <<>>
  <2>1. points = [k \in 1 .. 0 |-> Evaluate(limits, Subgroups[B + k])]
    BY <1>1 DEF RunInv, ChartInv, Plotted
  <2> QED BY <1>1, <2>1 DEF RunInv, TrendInv
<1>6. /\ position' = position + 1
      /\ UNCHANGED <<points, trend, first, alarm_subgroups, result>>
      /\ limits' = IF position' < B THEN None
                   ELSE ComputeLimits(SubSeq(Subgroups, 1, position'))
  BY DEF AddToBaseline
<1>7. /\ position' \in 0 .. Expected
      /\ limits' = None => position' < B
      /\ limits' # None => position' = B /\ limits' = ComputeLimits(SubSeq(Subgroups, 1, B))
  <2>1. position' \in 0 .. Expected /\ ~ (position' < B) => position' = B
    BY <1>3, <1>4, <1>6
  <2>2. ComputeLimits(SubSeq(Subgroups, 1, B)) # None
    BY <1>1, BaselineFacts, EvaluationAssumption
  <2>3. position' \in 0 .. Expected
    BY <1>3, <1>4, <1>6
  <2> QED BY <1>6, <2>1, <2>2, <2>3
<1>8. Plotted' = 0
  <2>1. CASE limits' = None
    BY <2>1 DEF Plotted
  <2>2. CASE limits' # None
    BY <1>3, <1>7, <2>2 DEF Plotted
  <2> QED BY <2>1, <2>2
<1>9. ChartInv'
  <2>1. points' = [k \in 1 .. Plotted' |-> Evaluate(limits', Subgroups'[B + k])]
    BY <1>5, <1>6, <1>8
  <2> QED BY <1>1, <1>2, <1>3, <1>7, <2>1 DEF ChartInv
<1>10. TrendInv'
  <2>1. CASE limits' = None
    BY <1>5, <1>6, <2>1 DEF TrendInv
  <2>2. CASE limits' # None
    <3>1. Monitored' = <<>>
      <4>1. Monitored' = SubSeq(Subgroups, B + 1, B)
        BY <1>2, <1>7, <2>2
      <4> QED BY <1>3, <4>1
    <3>2. Len(Monitored') < W
      BY <1>3, <3>1
    <3>3. RollingCapability(Monitored', scenario'.spec, W) = <<>>
      BY <3>2 DEF RollingCapability
    <3> QED BY <1>5, <1>6, <2>2, <3>3 DEF TrendInv
  <2> QED BY <2>1, <2>2
<1>11. AlarmsInv'
  <2>1. Plotted = 0
    BY <1>1 DEF Plotted
  <2> QED BY <1>6, <1>8, <2>1 DEF RunInv, AlarmsInv
<1>12. ResultInv'
  BY <1>1 DEF ResultInv
<1> QED BY <1>2, <1>9, <1>10, <1>11, <1>12 DEF RunInv

\* The alarms after one more point.
LEMMA MonitorAlarms ==
    ASSUME AlarmsInv, NEW n \in Nat, Plotted = n, Plotted' = n + 1,
           DOMAIN points = 1 .. n,
           NEW point, points' = Append(points, point), points \in Seq({points[k] : k \in 1 .. n}),
           NEW another \in BOOLEAN,
           alarm_subgroups' = IF Critical(point) \/ another THEN alarm_subgroups + 1
                              ELSE alarm_subgroups,
           first' = IF (Critical(point) \/ another) /\ first = None
                    THEN [subgroups |-> n + 1, critical |-> Critical(point)] ELSE first
    PROVE  AlarmsInv'
<1>1. /\ \A k \in 1 .. n : points'[k] = points[k]
      /\ points'[n + 1] = point
  OBVIOUS
<1>2. CASE first # None
  <2>1. PICK s \in 1 .. n : first.subgroups = s
    BY <1>2 DEF AlarmsInv
  <2>2. /\ first \in [subgroups : 1 .. n, critical : BOOLEAN]
        /\ alarm_subgroups \in 1 .. n - s + 1
        /\ first.critical => Critical(points[s])
        /\ \A k \in 1 .. s - 1 : ~ Critical(points[k])
    BY <1>2, <2>1 DEF AlarmsInv
  <2>3. first' = first /\ alarm_subgroups' \in 1 .. (n + 1) - s + 1
    BY <1>2, <2>1, <2>2
  <2>4. first' \in [subgroups : 1 .. n + 1, critical : BOOLEAN]
    BY <2>2, <2>3
  <2>5. points'[s] = points[s] /\ \A k \in 1 .. s - 1 : points'[k] = points[k]
    BY <1>1, <2>1
  <2>6. first.critical => Critical(points'[s])
    BY <2>2, <2>5
  <2>7. \A k \in 1 .. s - 1 : ~ Critical(points'[k])
    BY <2>2, <2>5
  <2> QED BY <1>2, <2>1, <2>3, <2>4, <2>6, <2>7 DEF AlarmsInv
<1>3. CASE first = None /\ (Critical(point) \/ another)
  <2>1. alarm_subgroups = 0 /\ \A k \in 1 .. n : ~ Critical(points[k])
    BY <1>3 DEF AlarmsInv
  <2>2. first' = [subgroups |-> n + 1, critical |-> Critical(point)]
    BY <1>3
  <2>3. Critical(point) \in BOOLEAN
    BY DEF Critical, RuleOne
  <2>4. first' \in [subgroups : 1 .. n + 1, critical : BOOLEAN] /\ first'.subgroups = n + 1
    BY <2>2, <2>3
  <2>5. first' # None
    <3>1. first' \in [subgroups : Int, critical : BOOLEAN]
      BY <2>4
    <3> QED BY <3>1, EvaluationAssumption
  <2>6. alarm_subgroups' = 1
    BY <1>3, <2>1
  <2>7. alarm_subgroups' \in 1 .. (n + 1) - first'.subgroups + 1
    BY <2>4, <2>6
  <2>8. first'.critical => Critical(points'[n + 1])
    BY <1>1, <2>2
  <2>9. \A k \in 1 .. first'.subgroups - 1 : ~ Critical(points'[k])
    BY <1>1, <2>1, <2>4
  <2> QED BY <2>4, <2>5, <2>7, <2>8, <2>9 DEF AlarmsInv
<1>4. CASE first = None /\ ~ (Critical(point) \/ another)
  <2>1. alarm_subgroups = 0 /\ \A k \in 1 .. n : ~ Critical(points[k])
    BY <1>4 DEF AlarmsInv
  <2>2. first' = None /\ alarm_subgroups' = 0
    BY <1>4, <2>1
  <2>3. \A k \in 1 .. n + 1 : ~ Critical(points'[k])
    BY <1>1, <1>4, <2>1
  <2> QED BY <2>2, <2>3 DEF AlarmsInv
<1> QED BY <1>2, <1>3, <1>4

\* The next subgroup is plotted, may raise an alarm and moves the window on.
LEMMA MonitorRun ==
    ASSUME RunInv, Monitor
    PROVE  RunInv'
<1> DEFINE B == BaselineSubgroups
           W == CapabilityWindow
           n == position - B
           f == [k \in 1 .. n + 1 |-> Evaluate(limits, Subgroups[B + k])]
           point == Evaluate(limits, Subgroups[position'])
<1>1. /\ PartsInv /\ phase = "feed" /\ phase' = "feed" /\ limits # None
      /\ UNCHANGED <<scenario, truth, readings, limits, result>>
      /\ position' = position + 1 /\ position < Len(Subgroups)
  BY DEF RunInv, Monitor
<1>2. /\ PartsInv' /\ Subgroups' = Subgroups
      /\ Monitored' = SubSeq(Subgroups, B + 1, position')
  BY <1>1, FeedParts
<1>3. /\ B \in Nat \ {0} /\ W \in Nat /\ W >= 2
      /\ Expected \in Nat /\ B < Expected
  BY EvaluationAssumption DEF Expected
<1>4. Subgroups \in Seq(Seq(Int)) /\ Len(Subgroups) = Expected
  BY <1>1, SubgroupFacts
<1>5. /\ position \in 0 .. Expected /\ position >= B
      /\ limits = ComputeLimits(SubSeq(Subgroups, 1, B))
      /\ points = [k \in 1 .. n |-> Evaluate(limits, Subgroups[B + k])]
  BY <1>1 DEF RunInv, ChartInv, Plotted
<1>6. n \in Nat /\ position' \in 0 .. Expected /\ position' >= B /\ position' - B = n + 1
  BY <1>1, <1>3, <1>4, <1>5
<1>7. Plotted = n /\ Plotted' = n + 1
  BY <1>1, <1>6 DEF Plotted
<1>8. PICK another \in BOOLEAN :
         LET critical == RuleOne(point.mean_zone) \/ RuleOne(point.range_zone)
             raised   == critical \/ another
         IN  /\ points' = Append(points, point)
             /\ alarm_subgroups' = IF raised THEN alarm_subgroups + 1 ELSE alarm_subgroups
             /\ first' = IF raised /\ first = None
                         THEN [subgroups |-> Latency(position'), critical |-> critical]
                         ELSE first
  BY DEF Monitor
<1>9. f[n + 1] = point /\ DOMAIN f = 1 .. n + 1
  <2>1. B + (n + 1) = position' /\ n + 1 \in 1 .. n + 1
    BY <1>1, <1>3, <1>5, <1>6
  <2> HIDE DEF n
  <2> QED BY <2>1
<1>10. points = [k \in 1 .. n |-> f[k]]
  <2> HIDE DEF n
  <2>1. \A k \in 1 .. n : k \in 1 .. n + 1
    BY <1>6
  <2> QED BY <1>5, <2>1
<1>11. points' = [k \in 1 .. n + 1 |-> f[k]]
  <2> HIDE DEF f, n, point
  <2> QED BY <1>6, <1>8, <1>9, <1>10, AppendNext
<1>12. ChartInv'
  <2>1. points' = [k \in 1 .. Plotted' |-> Evaluate(limits', Subgroups'[B + k])]
    <3>1. points' = f
      BY <1>11
    <3> QED BY <1>1, <1>2, <1>7, <3>1
  <2> QED BY <1>1, <1>2, <1>5, <1>6, <2>1 DEF ChartInv
<1>13. TrendInv'
  <2> DEFINE kept == SubSeq(Subgroups, B + 1, position')
             trendOf(g) == RollingCapability(g, scenario.spec, W)
  <2>1. trend = trendOf(SubSeq(Subgroups, B + 1, position))
    BY <1>1 DEF RunInv, TrendInv, Monitored
  <2>2. trend' = IF Len(kept) < W THEN trend
                 ELSE Append(trend, CapabilityFromSubgroups(LastWindow(kept), scenario.spec))
    BY DEF Monitor
  <2>3. trendOf(kept) =
            IF Len(kept) < W THEN trendOf(SubSeq(Subgroups, B + 1, position))
            ELSE Append(trendOf(SubSeq(Subgroups, B + 1, position)),
                        CapabilityFromSubgroups(LastWindow(kept), scenario.spec))
    <3>1. B \in Nat /\ position \in Nat /\ B <= position /\ position < Len(Subgroups)
      BY <1>1, <1>3, <1>5
    <3> QED BY <1>1, <1>4, <3>1, RollingGrows
  <2> HIDE DEF trendOf, kept
  <2>4. trend' = trendOf(kept)
    BY <2>1, <2>2, <2>3
  <2> QED BY <1>1, <1>2, <2>4 DEF TrendInv, kept, trendOf
<1>14. AlarmsInv'
  <2>1. Latency(position') = n + 1
    BY <1>6 DEF Latency
  <2>2. /\ alarm_subgroups' = IF Critical(point) \/ another THEN alarm_subgroups + 1
                              ELSE alarm_subgroups
        /\ first' = IF (Critical(point) \/ another) /\ first = None
                    THEN [subgroups |-> n + 1, critical |-> Critical(point)] ELSE first
    BY <1>8, <2>1 DEF Critical
  <2> HIDE DEF f, n, point
  <2>3. points \in Seq({points[k] : k \in 1 .. n}) /\ DOMAIN points = 1 .. n
    BY <1>6, <1>10
  <2> QED BY <1>6, <1>7, <1>8, <2>2, <2>3, MonitorAlarms DEF RunInv
<1>15. ResultInv'
  BY <1>1 DEF ResultInv
<1> QED BY <1>2, <1>12, <1>13, <1>14, <1>15 DEF RunInv

\* What happened is counted.
LEMMA ReportRun ==
    ASSUME RunInv, Report
    PROVE  RunInv'
<1>1. /\ PartsInv /\ phase = "feed" /\ phase' = "done" /\ limits # None
      /\ position = Len(Subgroups)
      /\ UNCHANGED <<scenario, truth, readings, position, limits, points, trend, first,
                     alarm_subgroups>>
  BY DEF RunInv, Report
<1>2. /\ PartsInv' /\ Subgroups' = Subgroups /\ Size' = Size
      /\ Monitored' = Monitored
  BY <1>1, FeedParts DEF Monitored
<1>3. position = Expected
  BY <1>1, SubgroupFacts
<1>4. Plotted' = Plotted
  BY <1>1 DEF Plotted
<1>5. ChartInv'
  <2>1. points' = [k \in 1 .. Plotted' |-> Evaluate(limits', Subgroups'[BaselineSubgroups + k])]
    <3>1. points = [k \in 1 .. Plotted |-> Evaluate(limits, Subgroups[BaselineSubgroups + k])]
      BY DEF RunInv, ChartInv
    <3> QED BY <1>1, <1>2, <1>4, <3>1
  <2> QED BY <1>1, <1>2, <2>1 DEF RunInv, ChartInv
<1>6. TrendInv'
  BY <1>1, <1>2 DEF RunInv, TrendInv
<1>7. AlarmsInv'
  BY <1>1, <1>4 DEF RunInv, AlarmsInv
<1>8. ResultInv'
  <2>1. ScrapIndices' = ScrapIndices /\ DetectionParts' = DetectionParts
    BY <1>1, <1>2 DEF ScrapIndices, DetectionParts, OutOfSpec
  <2>2. AfterAlarm' = AfterAlarm
    BY <2>1 DEF AfterAlarm
  <2>3. /\ result'.detected = (first # None)
        /\ result'.scrap_parts = Cardinality(ScrapIndices)
        /\ result'.scrap_after_alarm = IF first = None THEN 0 ELSE Cardinality(AfterAlarm)
        /\ result'.warning_parts = IF first = None \/ ScrapIndices = {} THEN None
                                   ELSE Min(ScrapIndices) - DetectionParts
    BY DEF Report, AfterAlarm
  <2> QED BY <1>1, <1>3, <2>1, <2>2, <2>3 DEF ResultInv
<1> QED BY <1>2, <1>5, <1>6, <1>7, <1>8 DEF RunInv

LEMMA StutterRun ==
    ASSUME RunInv, UNCHANGED vars
    PROVE  RunInv'
<1>1. Size' = Size /\ Subgroups' = Subgroups /\ Plotted' = Plotted
  BY DEF vars, Size, Subgroups, SubgroupsFromValues, Plotted
<1>2. Monitored' = Monitored /\ ScrapIndices' = ScrapIndices
      /\ DetectionParts' = DetectionParts
  BY <1>1 DEF vars, Monitored, ScrapIndices, DetectionParts, OutOfSpec
<1>3. AfterAlarm' = AfterAlarm
  BY <1>2 DEF AfterAlarm
<1>4. PartsInv' /\ AlarmsInv'
  BY <1>1 DEF vars, RunInv, PartsInv, AlarmsInv
<1>5. ChartInv' /\ TrendInv'
  BY <1>1, <1>2 DEF vars, RunInv, ChartInv, TrendInv
<1>6. ResultInv'
  BY <1>2, <1>3 DEF vars, RunInv, ResultInv
<1> QED BY <1>4, <1>5, <1>6 DEF RunInv

\* The parts, the chart, the trend, the alarms and the result belong together
\* in every state of a run.
THEOREM RunInvariance == Spec => []RunInv
<1>1. Init => RunInv
  BY InitRun
<1>2. RunInv /\ [Next]_vars => RunInv'
  BY CollectRun, AddToBaselineRun, MonitorRun, ReportRun, StutterRun DEF Next
<1> QED BY <1>1, <1>2, PTL DEF Spec

\* The trend kept window by window is the rolling capability of everything
\* monitored so far; before the limits are frozen there is nothing of either.
THEOREM TrendRollsCorrect == Spec => []TrendIsRolling
<1>1. RunInv => TrendIsRolling
  <2> SUFFICES ASSUME RunInv PROVE TrendIsRolling
    OBVIOUS
  <2>1. CASE limits # None
    BY <2>1 DEF RunInv, TrendInv, TrendIsRolling
  <2>2. CASE limits = None
    <3>1. /\ position \in 0 .. Expected /\ position < BaselineSubgroups
          /\ BaselineSubgroups \in Nat
      BY <2>2, EvaluationAssumption DEF RunInv, ChartInv
    <3>2. Monitored = <<>>
      BY <3>1 DEF Monitored
    <3>3. Len(Monitored) < CapabilityWindow
      BY <3>2, EvaluationAssumption
    <3>4. RollingCapability(Monitored, scenario.spec, CapabilityWindow) = <<>>
      BY <3>3 DEF RollingCapability
    <3> QED BY <2>2, <3>4 DEF RunInv, TrendInv, TrendIsRolling
  <2> QED BY <2>1, <2>2
<1> QED BY <1>1, RunInvariance, PTL

-----------------------------------------------------------------------------
(* Rule 1 during a run *)

\* Every point is an evaluation of a subgroup against the baseline's limits.
LEMMA PointFacts ==
    ASSUME PartsInv, ChartInv, NEW k \in DOMAIN points
    PROVE  /\ limits # None /\ phase # "collect" /\ Plotted = position - BaselineSubgroups
           /\ Plotted \in Nat /\ k \in 1 .. Plotted
           /\ limits = ComputeLimits(SubSeq(Subgroups, 1, BaselineSubgroups))
           /\ points[k] = Evaluate(limits, Subgroups[BaselineSubgroups + k])
           /\ IsGroup(Subgroups[BaselineSubgroups + k], Size)
<1>1. /\ points = [j \in 1 .. Plotted |-> Evaluate(limits, Subgroups[BaselineSubgroups + j])]
      /\ position \in 0 .. Expected
  BY DEF ChartInv
<1>2. k \in 1 .. Plotted /\ points[k] = Evaluate(limits, Subgroups[BaselineSubgroups + k])
  BY <1>1
<1>3. limits # None
  <2>1. limits = None => Plotted = 0
    BY DEF Plotted
  <2> QED BY <1>2, <2>1
<1>4. /\ position >= BaselineSubgroups /\ phase # "collect"
      /\ limits = ComputeLimits(SubSeq(Subgroups, 1, BaselineSubgroups))
      /\ Plotted = position - BaselineSubgroups
  BY <1>3 DEF ChartInv, Plotted
<1>5. BaselineSubgroups \in Nat /\ Expected \in Nat
  BY ScenarioFacts
<1>6. BaselineSubgroups + k \in 1 .. Expected
  BY <1>1, <1>2, <1>4, <1>5
<1>7. IsGroup(Subgroups[BaselineSubgroups + k], Size)
  BY <1>4, <1>6, SubgroupFacts DEF AreGroups
<1> QED BY <1>1, <1>2, <1>3, <1>4, <1>5, <1>7

\* Each point, on each chart, is beyond its zone exactly when it is flagged,
\* unless the baseline has no spread within its subgroups.
LEMMA PointIsTheLimits ==
    ASSUME PartsInv, ChartInv, NEW k \in DOMAIN points
    PROVE  /\ RuleOne(points[k].mean_zone)  <=> points[k].mean_out_of_control /\ ~ Repeatable
           /\ RuleOne(points[k].range_zone) <=> points[k].range_out_of_control /\ ~ Repeatable
<1> DEFINE baseline == SubSeq(Subgroups, 1, BaselineSubgroups)
           group == Subgroups[BaselineSubgroups + k]
           n == Size
           B == BaselineSubgroups
           mean == PlottedMean(limits, group)
           range == PlottedRange(limits, group)
           x == XbarLimits(baseline, n)
           r == RLimits(baseline, n)
<1>1. n \in DOMAIN RelativeRange /\ n \in Nat \ {0} /\ B \in Nat
  BY ScenarioFacts
<1>2. /\ limits # None /\ phase # "collect" /\ limits = ComputeLimits(baseline)
      /\ points[k] = Evaluate(limits, group) /\ IsGroup(group, n)
  BY PointFacts
<1>3. /\ Ranges(baseline) \in Nat /\ Total(Measurements(baseline)) \in Int
      /\ ComputeLimits(baseline) =
            [subgroup_size |-> n, baseline_count |-> B, xbar |-> x, r |-> r]
  BY <1>2, BaselineFacts
<1>4. limits.xbar = x /\ limits.r = r /\ limits.baseline_count = B
  <2> HIDE DEF x, r, baseline, n
  <2> QED BY <1>2, <1>3
<1>5. D2(n) \in Nat \ {0}
  BY <1>1, TableEntries
<1>6. mean \in Int
  <2>1. Total(group) \in Int /\ Len(group) = n
    BY <1>2, TotalIsInt DEF IsGroup
  <2>2. 10 * D2(n) * B \in Int
    BY <1>1, <1>5
  <2> HIDE DEF n, group
  <2>3. (10 * D2(n) * B) * Total(group) \in Int
    BY <2>1, <2>2
  <2> QED BY <1>4, <2>1, <2>3 DEF PlottedMean
<1>7. range \in Nat
  <2>1. RangeOf(group) \in Nat /\ Len(group) = n
    BY <1>1, <1>2, RangeIsNat DEF IsGroup
  <2>2. 10 * D2(n) * B \in Nat
    BY <1>1, <1>5
  <2> HIDE DEF n, group
  <2>3. (10 * D2(n) * B) * RangeOf(group) \in Nat
    BY <2>1, <2>2
  <2> QED BY <1>4, <2>1, <2>3 DEF PlottedRange
<1>8. /\ points[k].mean_zone = Zone(x, mean) /\ points[k].range_zone = Zone(r, range)
      /\ points[k].mean_out_of_control = IsBeyondLimits(x, mean)
      /\ points[k].range_out_of_control = IsBeyondLimits(r, range)
  <2> HIDE DEF mean, range, group, x, r
  <2> QED BY <1>2, <1>4 DEF Evaluate, mean, range
<1>9. Repeatable <=> Ranges(baseline) = 0
  <2> DEFINE R == Ranges(baseline)
             d == D2(n)
  <2>1. r.center = (10 * d) * R
    BY DEF RLimits
  <2> HIDE DEF R, d, r
  <2>2. (10 * d) * R = 0 <=> R = 0
    BY <1>3, <1>5 DEF R, d
  <2> QED BY <1>2, <1>4, <2>1, <2>2 DEF Repeatable, R
<1>10. CASE Ranges(baseline) = 0
  <2>1. Zone(x, mean) = "C"
    BY <1>1, <1>6, <1>10, RepeatableIsBlind
  <2>2. Zone(r, range) = "C"
    <3>1. range \in Int
      BY <1>7
    <3> QED BY <1>1, <1>10, <3>1, RepeatableIsBlind
  <2> HIDE DEF mean, range, x, r, baseline
  <2> QED BY <1>8, <1>9, <1>10, <2>1, <2>2 DEF RuleOne
<1>11. CASE Ranges(baseline) # 0
  <2>1. Zone(x, mean) = "beyond" <=> IsBeyondLimits(x, mean)
    BY <1>1, <1>3, <1>6, <1>11, XbarZoneIsLimits
  <2>2. Zone(r, range) = "beyond" <=> IsBeyondLimits(r, range)
    BY <1>1, <1>3, <1>7, <1>11, RangeZoneIsLimits
  <2> HIDE DEF mean, range, x, r, baseline
  <2> QED BY <1>8, <1>9, <1>11, <2>1, <2>2 DEF RuleOne
<1> QED BY <1>10, <1>11

\* Throughout a run rule 1 fires on a point of either chart exactly when the
\* point is flagged as out of control, and never for a repeatable baseline.
THEOREM RuleOneCorrect == Spec => []RuleOneIsTheLimits
<1>1. RunInv => RuleOneIsTheLimits
  BY PointIsTheLimits DEF RunInv, RuleOneIsTheLimits
<1> QED BY <1>1, RunInvariance, PTL

-----------------------------------------------------------------------------
(* The trend during a run *)

LEMMA SmallestOfOne ==
    ASSUME NEW x, ~ Below(x, x)
    PROVE  Smallest({x}) = x
BY DEF Smallest

\* Nothing varies within the subgroups: infinite indices, the best verdict.
LEMMA InfiniteIsExcellent ==
    ASSUME NEW spec, HasSpecLimits(spec), NEW parts, NEW total, NEW sigma, sigma.num = 0
    PROVE  LET cpk == Cpk(Cpu(spec, parts, total, sigma), Cpl(spec, parts, total, sigma))
           IN  cpk = Infinity /\ Verdict(cpk) = "EXCELLENT"
<1> DEFINE cpu == Cpu(spec, parts, total, sigma)
           cpl == Cpl(spec, parts, total, sigma)
<1>1. Infinity # None
  BY NoneAssumption DEF Infinity
<1>2. /\ cpu = (IF spec.usl = None THEN None ELSE Infinity)
      /\ cpl = (IF spec.lsl = None THEN None ELSE Infinity)
  BY DEF Cpu, Cpl
<1>3. {cpu, cpl} \ {None} = {Infinity}
  <2> HIDE DEF cpu, cpl
  <2> QED BY <1>1, <1>2 DEF HasSpecLimits
<1>4. ~ Below(Infinity, Infinity)
  BY DEF Below, Infinity
<1>5. Cpk(cpu, cpl) = Infinity
  <2> HIDE DEF cpu, cpl
  <2> QED BY <1>3, <1>4, SmallestOfOne DEF Cpk
<1>6. Verdict(Infinity) = "EXCELLENT"
  <2>1. /\ ~ Below(Infinity, <<1, 1>>) /\ ~ Below(Infinity, <<133, 100>>)
        /\ ~ Below(Infinity, <<167, 100>>) /\ ~ Below(Infinity, <<2, 1>>)
    BY DEF Below, Infinity
  <2> HIDE DEF Infinity
  <2> QED BY <1>1, <2>1 DEF Verdict
<1> QED BY <1>5, <1>6

\* A fraction is negative exactly when its numerator is.
LEMMA BelowZero ==
    ASSUME NEW a \in Int, NEW unit \in Nat \ {0}
    PROVE  Below(<<a, unit>>, <<0, 1>>) <=> a < 0
BY DEF Below

\* One side only: Cpk is the index of that side.
LEMMA OneSideNegative ==
    ASSUME NEW spec, NEW parts \in Nat \ {0}, NEW total \in Int, NEW sigma,
           sigma.num \in Nat \ {0}, sigma.den \in Nat \ {0},
           \/ spec.usl \in Int /\ spec.lsl = None
           \/ spec.lsl \in Int /\ spec.usl = None
    PROVE  LET cpk == Cpk(Cpu(spec, parts, total, sigma), Cpl(spec, parts, total, sigma))
           IN  Below(cpk, <<0, 1>>) <=>
                  \/ spec.usl # None /\ total > spec.usl * parts
                  \/ spec.lsl # None /\ total < spec.lsl * parts
<1> DEFINE unit == 6 * parts * sigma.num
           d == sigma.den
           room == IF spec.lsl = None THEN spec.usl * parts - total
                                      ELSE total - spec.lsl * parts
           x == <<(2 * room) * d, unit>>
<1>1. d \in Nat \ {0} /\ unit \in Nat \ {0}
  <2>1. 6 * parts \in Nat \ {0}
    OBVIOUS
  <2>2. (6 * parts) * sigma.num \in Nat \ {0}
    BY <2>1, ProductPositive
  <2> QED BY <2>2
<1>2. /\ room \in Int
      /\ room < 0 <=> \/ spec.usl # None /\ total > spec.usl * parts
                      \/ spec.lsl # None /\ total < spec.lsl * parts
  <2>1. CASE spec.usl \in Int /\ spec.lsl = None
    <3>1. spec.usl # None
      BY <2>1, NoneAssumption
    <3> QED BY <2>1, <3>1
  <2>2. CASE spec.lsl \in Int /\ spec.usl = None
    <3>1. spec.lsl # None
      BY <2>2, NoneAssumption
    <3> QED BY <2>2, <3>1
  <2> QED BY <2>1, <2>2
<1>3. {Cpu(spec, parts, total, sigma), Cpl(spec, parts, total, sigma)} \ {None} = {x}
  <2>1. (2 * room) * d \in Int
    <3> HIDE DEF room, d
    <3> QED BY <1>1, <1>2
  <2>2. x # None
    <3> HIDE DEF room, d, unit
    <3> QED BY <1>1, <2>1, NoneAssumption
  <2>3. CASE spec.usl \in Int /\ spec.lsl = None
    <3>1. spec.usl # None
      BY <2>3, NoneAssumption
    <3>2. /\ Cpu(spec, parts, total, sigma) = x
          /\ Cpl(spec, parts, total, sigma) = None
      BY <2>3, <3>1 DEF Cpu, Cpl
    <3> HIDE DEF x
    <3> QED BY <2>2, <3>2
  <2>4. CASE spec.lsl \in Int /\ spec.usl = None
    <3>1. spec.lsl # None
      BY <2>4, NoneAssumption
    <3>2. /\ Cpu(spec, parts, total, sigma) = None
          /\ Cpl(spec, parts, total, sigma) = x
      BY <2>4, <3>1 DEF Cpu, Cpl
    <3> HIDE DEF x
    <3> QED BY <2>2, <3>2
  <2> QED BY <2>3, <2>4
<1> HIDE DEF room, d, unit
<1>4. (2 * room) * d \in Int /\ ((2 * room) * d < 0 <=> room < 0)
  BY <1>1, <1>2, ScaleOrder
<1>5. ~ Below(x, x)
  BY <1>1, <1>4 DEF Below
<1>6. Cpk(Cpu(spec, parts, total, sigma), Cpl(spec, parts, total, sigma)) = x
  <2> HIDE DEF x
  <2> QED BY <1>3, <1>5, SmallestOfOne DEF Cpk
<1>7. Below(x, <<0, 1>>) <=> room < 0
  BY <1>1, <1>4, BelowZero
<1> QED BY <1>2, <1>6, <1>7

\* What CpkTellsCentring says of one entry of the trend.
TellsCentring(c, spec) ==
    /\ c.repeatable => c.cpk = Infinity /\ Verdict(c.cpk) = "EXCELLENT"
    /\ ~ c.repeatable =>
          /\ ~ c.flat
          /\ Below(c.cpk, <<0, 1>>) <=>
                \/ spec.usl # None /\ c.total > spec.usl * c.sample_size
                \/ spec.lsl # None /\ c.total < spec.lsl * c.sample_size
          /\ TwoSided(spec) =>
                /\ ~ Below(c.cp, c.cpk)
                /\ c.cp = c.cpk <=> 2 * c.total = (spec.usl + spec.lsl) * c.sample_size

\* A window has its parts, its sum and its spread; parts that differ within a
\* subgroup differ in the window.
LEMMA WindowFacts ==
    ASSUME NEW n \in DOMAIN RelativeRange, n \in Nat \ {0},
           NEW groups \in Seq(Seq(Int)), groups # <<>>, AreGroups(groups, n)
    PROVE  LET values == Measurements(groups)
               sigma == SigmaWithin(groups)
           IN  /\ Len(values) \in Nat \ {0} /\ Total(values) \in Int
               /\ sigma.num \in Nat /\ sigma.den \in Nat \ {0}
               /\ sigma.num # 0 => Cardinality(ToSet(values)) # 1
<1> DEFINE values == Measurements(groups)
           m == Len(groups)
<1>1. m \in Nat \ {0} /\ DOMAIN groups = 1 .. m
  OBVIOUS
<1>2. Joins(values, m, groups, n)
  BY MeasurementsJoin
<1> HIDE DEF values, m
<1>3. values \in Seq(Int) /\ Len(values) = m * n
  BY <1>2 DEF Joins
<1>4. Len(values) \in Nat \ {0}
  BY <1>1, <1>3, ProductPositive
<1>5. Total(values) \in Int
  BY <1>3, TotalIsInt
<1>6. /\ Ranges(groups) \in Nat
      /\ Ranges(groups) # 0 => SomeDiffer(groups)
  <2>1. m \in Nat
    BY <1>1
  <2> QED BY <1>1, <2>1, RangesAreNat
<1>7. /\ SigmaWithin(groups).num \in Nat /\ SigmaWithin(groups).den \in Nat \ {0}
      /\ SigmaWithin(groups).num # 0 => Ranges(groups) # 0
  <2>1. Len(groups[1]) = n
    <3>1. 1 \in DOMAIN groups
      BY <1>1
    <3>2. IsGroup(groups[1], n)
      BY <3>1, Zenon DEF AreGroups
    <3> QED BY <3>2, Zenon DEF IsGroup
  <2>2. m * D2(n) \in Nat \ {0}
    BY <1>1, TableEntries, ProductPositive
  <2> QED BY <1>6, <2>1, <2>2 DEF SigmaWithin, m
<1>8. ASSUME Ranges(groups) # 0
      PROVE  Cardinality(ToSet(values)) # 1
  <2>1. PICK g \in DOMAIN groups : \E i, j \in DOMAIN groups[g] :
                groups[g][i] # groups[g][j]
    BY <1>6, <1>8 DEF SomeDiffer
  <2>2. DOMAIN groups[g] = 1 .. n
    <3>1. IsGroup(groups[g], n)
      BY <2>1 DEF AreGroups
    <3> QED BY <3>1 DEF IsGroup
  <2>3. PICK i \in 1 .. n, j \in 1 .. n : groups[g][i] # groups[g][j]
    BY <2>1, <2>2
  <2> DEFINE at(k) == (g - 1) * n + k
  <2>4. values[at(i)] = groups[g][i] /\ values[at(j)] = groups[g][j]
    BY <1>1, <1>2, <2>3 DEF Joins
  <2>5. \A k \in 1 .. n : at(k) \in DOMAIN values
    <3>1. (g - 1) * n \in Nat /\ g * n = (g - 1) * n + n /\ g * n <= m * n
      <4>1. g \in 1 .. m /\ m \in Nat
        BY <1>1
      <4>2. g - 1 \in Nat /\ g - 1 + 1 = g /\ g \in Nat /\ g <= m
        BY <4>1
      <4>3. (g - 1 + 1) * n = (g - 1) * n + n
        BY <4>2, NextMultiple
      <4>4. g * n <= m * n
        BY <1>1, <4>2, MultiplesInOrder
      <4>5. (g - 1) * n \in Nat
        BY <4>2
      <4> QED BY <4>2, <4>3, <4>4, <4>5
    <3> DEFINE start == (g - 1) * n
    <3>2. DOMAIN values = 1 .. m * n /\ m * n \in Nat
      BY <1>1, <1>3
    <3> DEFINE all == m * n
               stop == g * n
    <3> HIDE DEF start, all, stop
    <3>3. start \in Nat /\ stop = start + n /\ stop <= all /\ DOMAIN values = 1 .. all
          /\ all \in Nat
      BY <3>1, <3>2 DEF start, stop, all
    <3>4. stop \in Nat /\ \A k \in 1 .. n : start + k \in 1 .. all
      BY <3>3
    <3> QED BY <3>3, <3>4 DEF start
  <2>6. values[at(i)] \in ToSet(values) /\ values[at(j)] \in ToSet(values)
    BY <2>3, <2>5 DEF ToSet
  <2>7. IsFiniteSet(ToSet(values))
    <3>1. DOMAIN values = 1 .. Len(values)
      BY <1>3
    <3> DEFINE l == Len(values)
               S == ToSet(values)
    <3>2. S = {values[k] : k \in DOMAIN values}
      BY DEF ToSet
    <3>3. values = [k \in 1 .. l |-> values[k]] /\ DOMAIN values = 1 .. l /\ l \in Nat
      BY <1>3
    <3> HIDE DEF l, S
    <3>4. values \in Surjection(1 .. l, S)
      BY <3>2, <3>3 DEF Surjection
    <3>5. IsFiniteSet(1 .. l)
      <4>1. 1 \in Int /\ l \in Int
        BY <3>3
      <4> QED BY <4>1, FS_Interval
    <3>6. IsFiniteSet(S)
      BY <3>4, <3>5, FS_Surjection
    <3> QED BY <3>6 DEF S
  <2> DEFINE S == ToSet(values)
  <2> HIDE DEF S, at
  <2>8. ~ \E x : S = {x}
    BY <2>3, <2>4, <2>6 DEF S
  <2>9. Cardinality(S) # 1
    BY <2>7, <2>8, FS_Singleton DEF S
  <2> QED BY <2>9 DEF S
<1>9. SigmaWithin(groups).num # 0 => Cardinality(ToSet(values)) # 1
  BY <1>7, <1>8
<1>10. SigmaWithin(groups).num \in Nat /\ SigmaWithin(groups).den \in Nat \ {0}
  BY <1>7
<1> QED BY <1>4, <1>5, <1>9, <1>10 DEF values

\* What the capability of any window of full subgroups tells.
LEMMA AssessmentTells ==
    ASSUME NEW n \in DOMAIN RelativeRange, n \in Nat \ {0},
           NEW groups \in Seq(Seq(Int)), groups # <<>>, AreGroups(groups, n),
           NEW spec \in Specs
    PROVE  TellsCentring(CapabilityFromSubgroups(groups, spec), spec)
<1> DEFINE values == Measurements(groups)
           parts == Len(values)
           total == Total(values)
           sigma == SigmaWithin(groups)
           cpk == Cpk(Cpu(spec, parts, total, sigma), Cpl(spec, parts, total, sigma))
           c == CapabilityFromSubgroups(groups, spec)
<1>1. /\ parts \in Nat \ {0} /\ total \in Int
      /\ sigma.num \in Nat /\ sigma.den \in Nat \ {0}
      /\ sigma.num # 0 => Cardinality(ToSet(values)) # 1
  BY WindowFacts
<1>2. /\ c.sample_size = parts /\ c.total = total
      /\ c.repeatable = (sigma.num = 0) /\ c.flat = (Cardinality(ToSet(values)) = 1)
      /\ c.cp = Cp(spec, parts, sigma) /\ c.cpk = cpk
  BY DEF CapabilityFromSubgroups
<1>3. /\ spec.lsl \in Int \cup {None} /\ spec.usl \in Int \cup {None}
      /\ HasSpecLimits(spec)
  BY EvaluationAssumption
<1> HIDE DEF values, parts, total, sigma, c
<1>4. CASE sigma.num = 0
  <2>1. cpk = Infinity /\ Verdict(cpk) = "EXCELLENT"
    BY <1>3, <1>4, InfiniteIsExcellent
  <2> HIDE DEF cpk
  <2>2. TellsCentring(c, spec)
    BY <1>2, <1>4, <2>1 DEF TellsCentring
  <2> QED BY <2>2 DEF c
<1>5. CASE sigma.num # 0
  <2>1. ~ c.repeatable /\ ~ c.flat
    BY <1>1, <1>2, <1>5
  <2>2. Below(cpk, <<0, 1>>) <=>
            \/ spec.usl # None /\ total > spec.usl * parts
            \/ spec.lsl # None /\ total < spec.lsl * parts
    <3>1. CASE TwoSided(spec)
      <4>1. Assessment(spec, parts, total, sigma) /\ spec.usl # None /\ spec.lsl # None
        BY <1>1, <1>3, <1>5, <3>1 DEF Assessment, TwoSided
      <4> QED BY <4>1, NegativeMeansOutside
    <3>2. CASE ~ TwoSided(spec)
      <4>1. \/ spec.usl \in Int /\ spec.lsl = None
            \/ spec.lsl \in Int /\ spec.usl = None
        BY <1>3, <3>2 DEF TwoSided, HasSpecLimits
      <4>2. sigma.num \in Nat \ {0}
        BY <1>1, <1>5
      <4> QED BY <1>1, <4>1, <4>2, OneSideNegative
    <3> QED BY <3>1, <3>2
  <2>3. ASSUME TwoSided(spec)
        PROVE  /\ ~ Below(Cp(spec, parts, sigma), cpk)
               /\ Cp(spec, parts, sigma) = cpk <=>
                     2 * total = (spec.usl + spec.lsl) * parts
    <3>1. Assessment(spec, parts, total, sigma)
      BY <1>1, <1>3, <1>5, <2>3 DEF Assessment, TwoSided
    <3> QED BY <3>1, CpkNeverAboveCp
  <2> HIDE DEF cpk
  <2>4. TellsCentring(c, spec)
    BY <1>2, <2>1, <2>2, <2>3 DEF TellsCentring
  <2> QED BY <2>4 DEF c
<1> QED BY <1>4, <1>5

\* Every entry of the trend is the capability of a window of subgroups.
LEMMA TrendTells ==
    ASSUME RunInv, NEW k \in DOMAIN trend
    PROVE  TellsCentring(trend[k], scenario.spec)
<1> DEFINE W == CapabilityWindow
           B == BaselineSubgroups
           n == Size
           seen == Monitored
           window == SubSeq(seen, k, k + W - 1)
<1>1. /\ n \in DOMAIN RelativeRange /\ n \in Nat \ {0} /\ B \in Nat \ {0}
      /\ scenario.spec \in Specs /\ Expected \in Nat
  BY ScenarioFacts DEF RunInv
<1>2. W \in Nat /\ W >= 2
  BY EvaluationAssumption
<1>3. /\ limits # None
      /\ trend = RollingCapability(seen, scenario.spec, W)
  BY DEF RunInv, TrendInv
<1>4. phase # "collect" /\ position \in 0 .. Expected /\ position >= B
  BY <1>3 DEF RunInv, ChartInv
<1>5. /\ Subgroups \in Seq(Seq(Int)) /\ Len(Subgroups) = Expected
      /\ DOMAIN Subgroups = 1 .. Expected /\ AreGroups(Subgroups, n)
  BY <1>4, SubgroupFacts DEF RunInv
<1>6. /\ seen \in Seq(Seq(Int)) /\ Len(seen) = position - B
      /\ AreGroups(seen, n)
  <2> DEFINE from == B + 1
  <2>1. /\ from \in Nat \ {0} /\ position \in Nat /\ from <= position + 1
        /\ position <= Len(Subgroups) /\ position - from + 1 = position - B
    BY <1>1, <1>4, <1>5
  <2> HIDE DEF from
  <2>2. /\ SubSeq(Subgroups, from, position) \in Seq(Seq(Int))
        /\ Len(SubSeq(Subgroups, from, position)) = position - from + 1
        /\ DOMAIN SubSeq(Subgroups, from, position) = 1 .. position - from + 1
        /\ \A i \in 1 .. position - from + 1 :
              /\ SubSeq(Subgroups, from, position)[i] = Subgroups[from + i - 1]
              /\ from + i - 1 \in DOMAIN Subgroups
    <3>1. Subgroups \in Seq(Seq(Int))
      BY <1>5
    <3> QED BY <2>1, <3>1, SliceOf
  <2>3. AreGroups(SubSeq(Subgroups, from, position), n)
    BY <1>5, <2>2 DEF AreGroups
  <2> QED BY <2>1, <2>2, <2>3 DEF Monitored, from
<1> HIDE DEF seen, n
<1>7. ~ (Len(seen) < W)
  <2>1. Len(seen) < W => trend = <<>>
    BY <1>3 DEF RollingCapability
  <2> QED BY <2>1
<1>8. trend = [j \in 1 .. Len(seen) - W + 1 |->
                  CapabilityFromSubgroups(SubSeq(seen, j, j + W - 1), scenario.spec)]
  BY <1>3, <1>7 DEF RollingCapability
<1>9. k \in 1 .. Len(seen) - W + 1
      /\ trend[k] = CapabilityFromSubgroups(window, scenario.spec)
  BY <1>8
<1>10. window \in Seq(Seq(Int)) /\ window # <<>> /\ AreGroups(window, n)
  <2> DEFINE to == k + W - 1
  <2>1. /\ k \in Nat \ {0} /\ to \in Nat /\ k <= to /\ to <= Len(seen)
    BY <1>2, <1>6, <1>9
  <2> HIDE DEF to
  <2>2. /\ SubSeq(seen, k, to) \in Seq(Seq(Int)) /\ Len(SubSeq(seen, k, to)) = to - k + 1
        /\ DOMAIN SubSeq(seen, k, to) = 1 .. to - k + 1
        /\ \A i \in 1 .. to - k + 1 : /\ SubSeq(seen, k, to)[i] = seen[k + i - 1]
                                      /\ k + i - 1 \in DOMAIN seen
    <3>1. seen \in Seq(Seq(Int))
      BY <1>6
    <3> QED BY <2>1, <3>1, SliceOf
  <2>3. AreGroups(SubSeq(seen, k, to), n)
    BY <1>6, <2>2 DEF AreGroups
  <2>4. SubSeq(seen, k, to) # <<>>
    <3>1. Len(SubSeq(seen, k, to)) # 0
      BY <2>1, <2>2
    <3>2. Len(<<>>) = 0
      OBVIOUS
    <3> QED BY <3>1, <3>2
  <2> QED BY <2>2, <2>3, <2>4 DEF to
<1> HIDE DEF window
<1> QED BY <1>1, <1>9, <1>10, AssessmentTells DEF n

\* Throughout a run, for every window of the trend: Cpk is not above Cp, equal
\* exactly for a centred process, negative exactly when the mean is outside the
\* tolerance; and without any spread it is infinite and called EXCELLENT.
THEOREM CpkCorrect == Spec => []CpkTellsCentring
<1>1. RunInv => CpkTellsCentring
  <2> SUFFICES ASSUME RunInv PROVE CpkTellsCentring
    OBVIOUS
  <2>1. \A k \in DOMAIN trend : TellsCentring(trend[k], scenario.spec)
    BY TrendTells
  <2> QED BY <2>1 DEF CpkTellsCentring, TellsCentring
<1> QED BY <1>1, RunInvariance, PTL

-----------------------------------------------------------------------------
(* The result of a run.  That only a process fault makes scrap needs the   *)
(* healthy process to be good: its deviations stay within the limits of    *)
(* the tag.                                                                *)

\* Without a process fault every part so far is good.
GoodPartsInv ==
    scenario.kind # "process" => \A i \in 1 .. Len(truth) : Within(truth[i], scenario.spec)

LEMMA CollectGoodParts ==
    ASSUME HealthyIsGood, PartsInv, GoodPartsInv, Collect
    PROVE  GoodPartsInv'
<1> DEFINE made(noise) == [k \in 1 .. Size |-> Made(Len(truth) + k, noise[k])]
<1>1. PICK noise \in Noise[Size] :
          noise \in Seq(Int) /\ Len(noise) = Size /\ truth' = truth \o made(noise)
  BY CollectParts
<1>2. scenario' = scenario
  BY DEF Collect
<1>3. SUFFICES ASSUME scenario.kind # "process", NEW i \in 1 .. Len(truth')
               PROVE  Within(truth'[i], scenario.spec)
  BY <1>2 DEF GoodPartsInv
<1>4. Size \in Nat \ {0} /\ Size \in DOMAIN Noise /\ scenario.spec \in Specs
      /\ truth \in Seq(Int)
  BY ScenarioFacts DEF PartsInv
<1>5. \A k \in 1 .. Size : made(noise)[k] = noise[k]
  BY <1>3 DEF Made
<1>6. made(noise) \in Seq(Int) /\ Len(made(noise)) = Size
  <2>1. \A k \in 1 .. Size : noise[k] \in Int
    BY <1>1
  <2> DEFINE n == Size
             parts == made(noise)
  <2>2. parts = [k \in 1 .. n |-> parts[k]] /\ \A k \in 1 .. n : parts[k] \in Int
    BY <1>5, <2>1
  <2>3. n \in Nat
    BY <1>4
  <2> HIDE DEF n, parts
  <2>4. parts \in Seq(Int) /\ Len(parts) = n
    BY <2>2, <2>3
  <2> QED BY <2>4 DEF n, parts
<1>7. \A k \in 1 .. Size : Within(noise[k], scenario.spec)
  BY <1>1, <1>4 DEF HealthyIsGood
<1> DEFINE parts == made(noise)
           n == Size
<1>8. /\ parts \in Seq(Int) /\ Len(parts) = n /\ n \in Nat
      /\ \A k \in 1 .. n : Within(parts[k], scenario.spec)
      /\ truth' = truth \o parts
  BY <1>1, <1>4, <1>5, <1>6, <1>7
<1> HIDE DEF parts, n, made
<1>9. CASE i \in 1 .. Len(truth)
  <2>1. truth'[i] = truth[i]
    BY <1>4, <1>8, <1>9
  <2> QED BY <1>3, <1>9, <2>1 DEF GoodPartsInv
<1>10. CASE i \notin 1 .. Len(truth)
  <2>1. i - Len(truth) \in 1 .. n /\ truth'[i] = parts[i - Len(truth)]
    BY <1>4, <1>8, <1>10
  <2> QED BY <1>8, <2>1
<1> QED BY <1>9, <1>10

THEOREM GoodPartsInvariance ==
    ASSUME HealthyIsGood PROVE Spec => []GoodPartsInv
<1>1. Init => GoodPartsInv
  BY DEF Init, GoodPartsInv
<1>2. RunInv /\ GoodPartsInv /\ [Next]_vars => GoodPartsInv'
  <2> SUFFICES ASSUME RunInv, GoodPartsInv, [Next]_vars
               PROVE  GoodPartsInv'
    OBVIOUS
  <2>1. CASE Collect
    BY <2>1, CollectGoodParts DEF RunInv
  <2>2. CASE AddToBaseline \/ Monitor \/ Report \/ UNCHANGED vars
    <3>1. UNCHANGED <<scenario, truth>>
      BY <2>2 DEF AddToBaseline, Monitor, Report, vars
    <3> QED BY <3>1 DEF GoodPartsInv
  <2> QED BY <2>1, <2>2 DEF Next
<1> QED BY <1>1, <1>2, RunInvariance, PTL DEF Spec

\* The scrapped parts are parts of the monitored window that were made.
LEMMA ScrapFacts ==
    ASSUME PartsInv, phase # "collect"
    PROVE  /\ IsFiniteSet(ScrapIndices) /\ ScrapIndices \in SUBSET (Nat \ {0})
           /\ \A i \in ScrapIndices :
                 /\ BaselineSubgroups * Size + i \in 1 .. Len(truth)
                 /\ OutOfSpec(truth[BaselineSubgroups * Size + i])
<1> DEFINE b == BaselineSubgroups * Size
           m == MonitorSubgroups * Size
<1>1. /\ BaselineSubgroups \in Nat /\ MonitorSubgroups \in Nat /\ Size \in Nat
      /\ Len(truth) = Expected * Size
  BY ScenarioFacts DEF PartsInv
<1>2. b \in Nat /\ m \in Nat /\ Expected * Size = b + m
  BY <1>1 DEF Expected
<1>3. /\ ScrapIndices = {i \in 1 .. m : OutOfSpec(truth[b + i])}
      /\ Len(truth) = b + m
  BY <1>1, <1>2 DEF ScrapIndices
<1> HIDE DEF b, m
<1>4. IsFiniteSet(ScrapIndices)
  <2>1. IsFiniteSet(1 .. m)
    <3>1. 1 \in Int /\ m \in Int
      BY <1>2
    <3> QED BY <3>1, FS_Interval
  <2>2. ScrapIndices \subseteq 1 .. m
    BY <1>3
  <2> QED BY <2>1, <2>2, FS_Subset
<1>5. ScrapIndices \in SUBSET (Nat \ {0})
      /\ \A i \in ScrapIndices : b + i \in 1 .. Len(truth) /\ OutOfSpec(truth[b + i])
  BY <1>2, <1>3
<1> QED BY <1>4, <1>5 DEF b

\* The warning is positive exactly when all scrap comes after the alarm.
LEMMA WarningCountsScrap ==
    ASSUME NEW S \in SUBSET (Nat \ {0}), IsFiniteSet(S), S # {}, NEW d \in Nat
    PROVE  Min(S) - d > 0 <=> Cardinality({i \in S : i > d}) = Cardinality(S)
<1> DEFINE after == {i \in S : i > d}
<1>1. after \subseteq S
  OBVIOUS
<1>2. Min(S) \in S /\ \A x \in S : Min(S) <= x
  <2>1. S \in SUBSET Int
    OBVIOUS
  <2> QED BY <2>1, LargestAndSmallest
<1>3. Min(S) - d > 0 <=> after = S
  <2> DEFINE least == Min(S)
  <2>1. least \in Nat /\ least \in S /\ \A x \in S : x \in Nat /\ least <= x
    BY <1>2
  <2> HIDE DEF least
  <2>2. ASSUME least - d > 0
        PROVE  after = S
    <3>1. \A x \in S : x > d
      BY <2>1, <2>2
    <3> QED BY <3>1
  <2>3. ASSUME after = S
        PROVE  least - d > 0
    <3>1. least > d
      BY <2>1, <2>3
    <3> QED BY <2>1, <3>1
  <2> QED BY <2>2, <2>3 DEF least
<1>4. Cardinality(after) = Cardinality(S) <=> after = S
  <2> HIDE DEF after
  <2> QED BY <1>1, FS_Subset
<1> QED BY <1>3, <1>4

LEMMA ResultTells ==
    ASSUME RunInv, GoodPartsInv
    PROVE  ResultIsConsistent
<1> SUFFICES ASSUME phase = "done" PROVE ResultIsConsistent
  BY DEF ResultIsConsistent
<1> DEFINE s == first.subgroups
<1>1. /\ position = Expected /\ result.detected = (first # None)
      /\ result.scrap_parts = Cardinality(ScrapIndices)
      /\ result.warning_parts # None =>
              /\ first # None /\ ScrapIndices # {}
              /\ result.warning_parts = Min(ScrapIndices) - DetectionParts
              /\ result.scrap_after_alarm = Cardinality(AfterAlarm)
  BY DEF RunInv, ResultInv
<1>2. /\ Size \in Nat \ {0} /\ MonitorSubgroups \in Nat
  BY ScenarioFacts DEF RunInv
<1>3. Plotted = MonitorSubgroups /\ DOMAIN points = 1 .. MonitorSubgroups
  <2>1. limits # None
    BY DEF RunInv, ChartInv
  <2>2. Plotted = MonitorSubgroups
    BY <1>1, <2>1, EvaluationAssumption DEF Plotted, Expected
  <2>3. points = [k \in 1 .. Plotted |-> Evaluate(limits, Subgroups[BaselineSubgroups + k])]
    BY DEF RunInv, ChartInv
  <2> QED BY <2>2, <2>3
<1>4. /\ first = None => \A k \in DOMAIN points : ~ Critical(points[k])
      /\ first # None => /\ s \in 1 .. MonitorSubgroups
                         /\ alarm_subgroups \in 1 .. MonitorSubgroups - s + 1
                         /\ first.critical => Critical(points[s])
                         /\ \A k \in 1 .. s - 1 : ~ Critical(points[k])
  BY <1>3 DEF RunInv, AlarmsInv
<1>5. \A k \in DOMAIN points :
          Critical(points[k]) <=>
              /\ points[k].mean_out_of_control \/ points[k].range_out_of_control
              /\ ~ Repeatable
  BY PointIsTheLimits DEF RunInv, Critical
<1>6. result.detected => /\ s \in 1 .. MonitorSubgroups
                         /\ alarm_subgroups \in 1 .. MonitorSubgroups - s + 1
                         /\ first.critical => \/ points[s].mean_out_of_control
                                              \/ points[s].range_out_of_control
  BY <1>1, <1>3, <1>4, <1>5
<1>7. ASSUME NEW k \in DOMAIN points,
             points[k].mean_out_of_control \/ points[k].range_out_of_control, ~ Repeatable
      PROVE  result.detected /\ s <= k
  <2>1. Critical(points[k])
    BY <1>5, <1>7
  <2>2. first # None
    BY <1>4, <2>1
  <2>3. s \in 1 .. MonitorSubgroups /\ k \in 1 .. MonitorSubgroups /\ k \notin 1 .. s - 1
    BY <1>3, <1>4, <2>1, <2>2
  <2>4. s <= k
    BY <1>2, <2>3
  <2> QED BY <1>1, <2>2, <2>4
<1>8. /\ IsFiniteSet(ScrapIndices) /\ ScrapIndices \in SUBSET (Nat \ {0})
      /\ \A i \in ScrapIndices :
            /\ BaselineSubgroups * Size + i \in 1 .. Len(truth)
            /\ OutOfSpec(truth[BaselineSubgroups * Size + i])
  BY ScrapFacts DEF RunInv
<1>9. ASSUME result.warning_parts # None
      PROVE  result.warning_parts > 0 <=> result.scrap_after_alarm = result.scrap_parts
  <2>1. DetectionParts \in Nat
    <3>1. s \in Nat
      BY <1>1, <1>4, <1>9
    <3> QED BY <1>2, <3>1 DEF DetectionParts
  <2>2. Min(ScrapIndices) - DetectionParts > 0
            <=> Cardinality(AfterAlarm) = Cardinality(ScrapIndices)
    BY <1>1, <1>8, <1>9, <2>1, WarningCountsScrap DEF AfterAlarm
  <2> QED BY <1>1, <1>9, <2>2
<1>10. ASSUME result.scrap_parts > 0
       PROVE  scenario.kind = "process"
  <2>1. ScrapIndices # {}
    <3>1. Cardinality({}) = 0
      BY FS_EmptySet
    <3> QED BY <1>1, <1>10, <3>1
  <2>2. PICK i \in 1 .. Len(truth) : OutOfSpec(truth[i])
    BY <1>8, <2>1
  <2>3. ~ Within(truth[i], scenario.spec)
    <3>1. /\ scenario.spec.lsl \in Int \cup {None} /\ scenario.spec.usl \in Int \cup {None}
          /\ truth[i] \in Int
      BY ScenarioFacts, EvaluationAssumption DEF RunInv, PartsInv
    <3> QED BY <2>2, <3>1 DEF OutOfSpec, Within
  <2> QED BY <2>3 DEF GoodPartsInv
<1> QED BY <1>6, <1>7, <1>9, <1>10 DEF ResultIsConsistent

\* Alarms, flags and scrap in the result of a run agree with each other, for
\* every run of a process that is good while it is healthy.
THEOREM ResultCorrect ==
    ASSUME HealthyIsGood PROVE Spec => []ResultIsConsistent
<1>1. RunInv /\ GoodPartsInv => ResultIsConsistent
  BY ResultTells
<1> QED BY <1>1, RunInvariance, GoodPartsInvariance, PTL
=============================================================================
