------------------------- MODULE NelsonRulesProofs -------------------------
(***************************************************************************)
(* The streaming monitor reports exactly what apply_rules finds, for every *)
(* choice of windows, rules, thresholds and values, and what follows for   *)
(* the reports.  The argument: a pattern depends only on its slice, the    *)
(* monitor's window is the tail of the series, and the tail is long enough *)
(* to hold the slice of every rule.                                        *)
(***************************************************************************)
EXTENDS NelsonRules, TLAPS

\* The rules of the violations that end at point i of series z.
Completed(z, i) == {r \in Chosen : i \in Completions(r, z)}

FoundAt(z, i) == {v \in ApplyRules(z) : v.end = i}

-----------------------------------------------------------------------------
(* The operators.                                                          *)

\* What apply_rules finds at a point, as the set of rules completed there.
LEMMA FoundCharacter ==
    ASSUME NEW z, NEW i
    PROVE  FoundAt(z, i) = {Violation(r, i) : r \in Completed(z, i)}
BY DEF FoundAt, ApplyRules, Check, Completed, Violation

\* What add reports is the same set of rules, at the absolute position.
LEMMA FiredCharacter ==
    ASSUME NEW w, NEW n \in Nat, Len(w) \in Nat
    PROVE  Fired(w, n) = {Violation(r, n) : r \in Completed(w, Len(w))}
<1> DEFINE offset == n - Len(w)
<1> DEFINE Moved(v) == [rule |-> v.rule, start |-> v.start + offset, end |-> v.end + offset]
<1>1. \A r \in RuleNumbers : Moved(Violation(r, Len(w))) = Violation(r, n)
  BY RulesAssumption DEF Violation
<1>2. {u \in ApplyRules(w) : u.end = Len(w)}
        = {Violation(r, Len(w)) : r \in Completed(w, Len(w))}
  BY FoundCharacter DEF FoundAt
<1>3. Completed(w, Len(w)) \subseteq RuleNumbers
  BY RulesAssumption DEF Completed
<1>4. Fired(w, n) = {Moved(v) : v \in {Violation(r, Len(w)) : r \in Completed(w, Len(w))}}
  BY <1>2 DEF Fired
<1> HIDE DEF Moved
<1> QED BY <1>1, <1>3, <1>4

\* A later point does not change what an earlier point completed.
LEMMA CompletedOfPrefix ==
    ASSUME NEW z \in Seq(Values), NEW x \in Values, NEW i \in 1..Len(z)
    PROVE  Completed(Append(z, x), i) = Completed(z, i)
<1> DEFINE y == Append(z, x)
<1>1. Len(y) = Len(z) + 1 /\ \A j \in 1..Len(z) : y[j] = z[j]
  OBVIOUS
<1> HIDE DEF y
<1>2. ASSUME NEW r \in RuleNumbers, Span[r] <= i
      PROVE  Slice(y, i, Span[r]) = Slice(z, i, Span[r])
  <2>1. Span[r] \in Nat \ {0}
    BY RulesAssumption
  <2>2. \A o \in 0..(Span[r] - 1) : i - Span[r] + 1 + o \in 1..Len(z)
    BY <1>2, <2>1
  <2>3. \A o \in 0..(Span[r] - 1) : y[i - Span[r] + 1 + o] = z[i - Span[r] + 1 + o]
    BY <1>1, <2>2
  <2> QED BY <2>3 DEF Slice
<1>3. \A r \in RuleNumbers : i \in Completions(r, y) <=> i \in Completions(r, z)
  <2> SUFFICES ASSUME NEW r \in RuleNumbers
               PROVE  i \in Completions(r, y) <=> i \in Completions(r, z)
    OBVIOUS
  <2>1. Span[r] \in Nat \ {0}
    BY RulesAssumption
  <2>2. i \in Span[r]..Len(y) <=> Span[r] <= i
    BY <1>1, <2>1
  <2>3. i \in Span[r]..Len(z) <=> Span[r] <= i
    BY <2>1
  <2> QED BY <1>2, <2>2, <2>3 DEF Completions
<1> QED BY <1>3, RulesAssumption DEF Completed, y

-----------------------------------------------------------------------------
(* The monitor's window.                                                   *)

\* w holds the last points of z, all of them or MaxRuleWindow.
IsTail(w, z) ==
    /\ w \in Seq(Values)
    /\ Len(w) = IF Len(z) < MaxRuleWindow THEN Len(z) ELSE MaxRuleWindow
    /\ \A i \in 1..Len(w) : w[i] = z[i + (Len(z) - Len(w))]

\* The window completes at its newest point what the series does.
LEMMA CompletedOfTail ==
    ASSUME NEW z \in Seq(Values), NEW w, IsTail(w, z)
    PROVE  Completed(w, Len(w)) = Completed(z, Len(z))
<1>1. Len(w) \in Nat /\ Len(z) \in Nat /\ MaxRuleWindow \in Nat /\ Len(w) <= Len(z)
  BY RulesAssumption DEF IsTail
<1>2. ASSUME NEW r \in RuleNumbers
      PROVE  Len(w) \in Completions(r, w) <=> Len(z) \in Completions(r, z)
  <2>1. Span[r] \in Nat \ {0} /\ Span[r] <= MaxRuleWindow
    BY RulesAssumption
  <2>2. Len(w) \in Span[r]..Len(w) <=> Len(z) \in Span[r]..Len(z)
    BY <1>1, <2>1 DEF IsTail
  <2>3. ASSUME Span[r] <= Len(w)
        PROVE  Slice(w, Len(w), Span[r]) = Slice(z, Len(z), Span[r])
    <3>1. \A o \in 0..(Span[r] - 1) :
            /\ Len(w) - Span[r] + 1 + o \in 1..Len(w)
            /\ (Len(w) - Span[r] + 1 + o) + (Len(z) - Len(w)) = Len(z) - Span[r] + 1 + o
      BY <1>1, <2>1, <2>3, SMTT(30)
    <3>2. \A o \in 0..(Span[r] - 1) :
            w[Len(w) - Span[r] + 1 + o] = z[Len(z) - Span[r] + 1 + o]
      BY <3>1 DEF IsTail
    <3> QED BY <3>2 DEF Slice
  <2> QED BY <1>1, <2>1, <2>2, <2>3 DEF Completions
<1> QED BY <1>2, RulesAssumption DEF Completed

\* The deque stays the tail of the series when a point is appended.
LEMMA RememberKeepsTail ==
    ASSUME NEW z \in Seq(Values), NEW w, IsTail(w, z), NEW x \in Values
    PROVE  IsTail(Remember(w, x), Append(z, x))
<1> DEFINE y == Append(z, x)
<1>1. /\ Len(w) \in Nat /\ Len(z) \in Nat /\ MaxRuleWindow \in Nat \ {0}
      /\ Len(w) <= MaxRuleWindow /\ w \in Seq(Values)
  <2>1. 1 \in RuleNumbers /\ Span[1] = 1 /\ MaxRuleWindow \in Nat
        /\ \A r \in RuleNumbers : Span[r] <= MaxRuleWindow
    BY RulesAssumption DEF RuleNumbers
  <2>2. MaxRuleWindow \in Nat \ {0}
    BY <2>1
  <2>3. w \in Seq(Values)
        /\ Len(w) = IF Len(z) < MaxRuleWindow THEN Len(z) ELSE MaxRuleWindow
    BY DEF IsTail
  <2> QED BY <2>2, <2>3
<1>2. Len(y) = Len(z) + 1 /\ y[Len(z) + 1] = x /\ \A j \in 1..Len(z) : y[j] = z[j]
  OBVIOUS
<1>3. CASE Len(w) < MaxRuleWindow
  <2>1. Remember(w, x) = Append(w, x) /\ Len(w) = Len(z)
    BY <1>1, <1>3 DEF Remember, IsTail
  <2>2. Len(Append(w, x)) = Len(w) + 1 /\ Append(w, x) \in Seq(Values)
    BY <1>1
  <2>3. \A i \in 1..Len(w) : w[i] = z[i]
    <3>1. \A i \in 1..Len(w) : i + (Len(z) - Len(w)) = i
      BY <1>1, <2>1
    <3> QED BY <3>1 DEF IsTail
  <2>4. \A i \in 1..(Len(w) + 1) : Append(w, x)[i] = y[i]
    BY <1>1, <1>2, <2>1, <2>3
  <2>5. Len(Append(w, x)) = IF Len(y) < MaxRuleWindow THEN Len(y) ELSE MaxRuleWindow
    BY <1>1, <1>2, <1>3, <2>1, <2>2
  <2> QED BY <1>1, <1>2, <2>1, <2>2, <2>4, <2>5 DEF IsTail
<1>4. CASE Len(w) = MaxRuleWindow
  <2> DEFINE v == Append(Tail(w), x)
  <2>1. Remember(w, x) = v /\ Len(z) >= Len(w)
    BY <1>1, <1>4 DEF Remember, IsTail
  <2>2. Tail(w) \in Seq(Values) /\ Len(Tail(w)) = Len(w) - 1
        /\ \A i \in 1..(Len(w) - 1) : Tail(w)[i] = w[i + 1]
    BY <1>1, <1>4
  <2>3. v \in Seq(Values) /\ Len(v) = Len(w) /\ v[Len(w)] = x
        /\ \A i \in 1..(Len(w) - 1) : v[i] = w[i + 1]
    BY <1>1, <1>4, <2>2
  <2> HIDE DEF v
  <2>4. ASSUME NEW i \in 1..Len(v)
        PROVE  v[i] = y[i + (Len(y) - Len(v))]
    <3>1. CASE i = Len(w)
      BY <1>1, <1>2, <2>3, <3>1
    <3>2. CASE i < Len(w)
      <4>1. v[i] = w[i + 1] /\ i + 1 \in 1..Len(w)
        BY <1>1, <2>3, <2>4, <3>2
      <4>2. w[i + 1] = z[(i + 1) + (Len(z) - Len(w))]
        BY <4>1 DEF IsTail
      <4>3. (i + 1) + (Len(z) - Len(w)) \in 1..Len(z)
        BY <1>1, <2>1, <3>2, <2>4, <2>3
      <4>4. (i + 1) + (Len(z) - Len(w)) = i + (Len(y) - Len(v))
        BY <1>1, <1>2, <2>3, <2>4
      <4> QED BY <1>2, <4>1, <4>2, <4>3, <4>4
    <3>3. i \in 1..Len(w)
      BY <2>3, <2>4
    <3>4. i = Len(w) \/ i < Len(w)
      BY <1>1, <3>3
    <3> QED BY <3>1, <3>2, <3>4
  <2>5. Len(v) = IF Len(y) < MaxRuleWindow THEN Len(y) ELSE MaxRuleWindow
    BY <1>1, <1>2, <1>4, <2>1, <2>3
  <2> QED BY <2>1, <2>3, <2>4, <2>5 DEF IsTail
<1> QED BY <1>1, <1>3, <1>4

-----------------------------------------------------------------------------
(* The invariant.                                                          *)

IInv ==
    /\ series \in Seq(Values) /\ IsTail(window, series)
    /\ count = Len(series) /\ Len(violations) = Len(series)
    /\ violations \in Seq(SUBSET [rule : RuleNumbers, start : Int, end : Int])
    /\ \A i \in 1..Len(series) :
          violations[i] = {Violation(r, i) : r \in Completed(series, i)}

\* A violation of a rule is a record of the type the list holds.
LEMMA ViolationType ==
    ASSUME NEW r \in RuleNumbers, NEW i \in Int
    PROVE  Violation(r, i) \in [rule : RuleNumbers, start : Int, end : Int]
BY RulesAssumption DEF Violation

LEMMA AddKeepsInvariant ==
    ASSUME IInv, NEW x \in Values, Add(x)
    PROVE  IInv'
<1>1. /\ series' = Append(series, x) /\ window' = Remember(window, x)
      /\ count' = count + 1 /\ violations' = Append(violations, Fired(window', count'))
  BY DEF Add
<1>2. /\ series \in Seq(Values) /\ IsTail(window, series)
      /\ count = Len(series) /\ Len(violations) = Len(series)
      /\ violations \in Seq(SUBSET [rule : RuleNumbers, start : Int, end : Int])
  BY DEF IInv
<1>3. /\ series' \in Seq(Values) /\ Len(series') = Len(series) + 1
      /\ count' = Len(series') /\ count' \in Nat
  BY <1>1, <1>2
<1>4. IsTail(window', series')
  BY <1>1, <1>2, RememberKeepsTail
<1>5. Len(window') \in Nat
  <2>1. window' \in Seq(Values)
    BY <1>4 DEF IsTail
  <2> QED BY <2>1
<1>6. Fired(window', count') = {Violation(r, count') : r \in Completed(series', count')}
  <2>1. Fired(window', count')
          = {Violation(r, count') : r \in Completed(window', Len(window'))}
    BY <1>3, <1>5, FiredCharacter
  <2>2. Completed(window', Len(window')) = Completed(series', Len(series'))
    BY <1>3, <1>4, CompletedOfTail
  <2> QED BY <1>3, <2>1, <2>2
<1>7. Fired(window', count') \in SUBSET [rule : RuleNumbers, start : Int, end : Int]
  <2>1. Completed(series', count') \subseteq RuleNumbers
    BY RulesAssumption DEF Completed
  <2> QED BY <1>3, <1>6, <2>1, ViolationType
<1>8. /\ violations' \in Seq(SUBSET [rule : RuleNumbers, start : Int, end : Int])
      /\ Len(violations') = Len(series')
      /\ violations'[count'] = Fired(window', count')
      /\ \A i \in 1..Len(series) : violations'[i] = violations[i]
  BY <1>1, <1>2, <1>3, <1>7
<1>9. ASSUME NEW i \in 1..Len(series')
      PROVE  violations'[i] = {Violation(r, i) : r \in Completed(series', i)}
  <2>1. CASE i = count'
    BY <1>6, <1>8, <2>1
  <2>2. CASE i \in 1..Len(series)
    <3>1. violations[i] = {Violation(r, i) : r \in Completed(series, i)}
      BY <2>2 DEF IInv
    <3>2. Completed(series', i) = Completed(series, i)
      BY <1>1, <1>2, <2>2, CompletedOfPrefix
    <3> QED BY <1>8, <2>2, <3>1, <3>2
  <2> QED BY <1>2, <1>3, <2>1, <2>2
<1> QED BY <1>3, <1>4, <1>8, <1>9 DEF IInv

\* The window is the tail of the series and every report is what the series
\* completes at its point.
THEOREM MonitorInvariance == Spec => []IInv
<1>1. Init => IInv
  <2> SUFFICES ASSUME Init PROVE IInv
    OBVIOUS
  <2>1. MaxRuleWindow \in Nat \ {0}
    BY RulesAssumption DEF RuleNumbers
  <2>2. IsTail(<<>>, <<>>)
    BY <2>1 DEF IsTail
  <2> QED BY <2>2 DEF Init, IInv
<1>2. IInv /\ [Next]_vars => IInv'
  <2> SUFFICES ASSUME IInv, [Next]_vars PROVE IInv'
    OBVIOUS
  <2>1. CASE Reset
    <3>1. MaxRuleWindow \in Nat \ {0}
      BY RulesAssumption DEF RuleNumbers
    <3>2. IsTail(<<>>, <<>>)
      BY <3>1 DEF IsTail
    <3> QED BY <2>1, <3>2 DEF Reset, IInv
  <2>2. CASE \E x \in Values : Add(x)
    BY <2>2, AddKeepsInvariant
  <2>3. CASE UNCHANGED vars
    BY <2>3 DEF vars, IInv
  <2> QED BY <2>1, <2>2, <2>3 DEF Next
<1> QED BY <1>1, <1>2, PTL DEF Spec

-----------------------------------------------------------------------------
(* What follows.                                                           *)

\* The monitor's reports, taken together, are the batch result
\* (test_nelson_rules.py checks one seeded series).
THEOREM StreamingCorrect == Spec => []StreamingIsBatch
<1>1. IInv => StreamingIsBatch
  <2> SUFFICES ASSUME IInv, NEW i \in 1..Len(series)
               PROVE  violations[i] = FoundAt(series, i)
    BY DEF StreamingIsBatch, FoundAt
  <2> QED BY FoundCharacter DEF IInv
<1> QED BY <1>1, MonitorInvariance, PTL

\* The rules reported at a point are those whose slice shows the pattern.
LEMMA ReportedCharacter ==
    ASSUME IInv, NEW i \in 1..Len(series), NEW r \in RuleNumbers
    PROVE  r \in Reported(i) <=> /\ r \in Chosen /\ Span[r] <= i
                                 /\ Pattern(r, Slice(series, i, Span[r]))
<1>1. Span[r] \in Nat \ {0}
  BY RulesAssumption
<1>2. violations[i] = {Violation(q, i) : q \in Completed(series, i)}
  BY DEF IInv
<1>3. r \in Reported(i) <=> r \in Completed(series, i)
  <2>1. \A q \in Completed(series, i) : Violation(q, i).rule = q
    BY DEF Violation
  <2>2. Reported(i) = {v.rule : v \in {Violation(q, i) : q \in Completed(series, i)}}
    BY <1>2 DEF Reported
  <2> QED BY <2>1, <2>2
<1>4. i \in Span[r]..Len(series) <=> Span[r] <= i
  BY <1>1
<1> QED BY <1>3, <1>4 DEF Completed, Completions

\* The type of the monitor's state, the bound on its memory included.
THEOREM NelsonTypeCorrect == Spec => []NelsonTypeOK
<1>1. IInv => NelsonTypeOK
  <2> SUFFICES ASSUME IInv PROVE NelsonTypeOK
    OBVIOUS
  <2>1. /\ series \in Seq(Values) /\ window \in Seq(Values)
        /\ Len(window) <= MaxRuleWindow
        /\ count = Len(series) /\ Len(violations) = Len(series)
    BY RulesAssumption DEF IInv, IsTail
  <2>2. ASSUME NEW i \in 1..Len(violations)
        PROVE  violations[i] \subseteq [rule : RuleNumbers, start : 1..i, end : {i}]
    <3>1. violations[i] = {Violation(r, i) : r \in Completed(series, i)}
      BY <2>1 DEF IInv
    <3>2. ASSUME NEW r \in Completed(series, i)
          PROVE  Violation(r, i) \in [rule : RuleNumbers, start : 1..i, end : {i}]
      <4>1. r \in RuleNumbers /\ Span[r] \in Nat \ {0} /\ Span[r] <= i
        BY RulesAssumption DEF Completed, Completions
      <4>2. i - Span[r] + 1 \in 1..i
        BY <2>1, <2>2, <4>1
      <4> QED BY <4>1, <4>2 DEF Violation
    <3> QED BY <3>1, <3>2
  <2> QED BY <2>1, <2>2 DEF NelsonTypeOK
<1> QED BY <1>1, MonitorInvariance, PTL

\* A gauge that keeps one value is reported whatever the value is.
THEOREM FlatLineCorrect == Spec => []FlatLineIsReported
<1>1. IInv => FlatLineIsReported
  <2> SUFFICES ASSUME IInv, {2, 7} \subseteq Chosen,
                      Len(series) >= MaxRuleWindow, MaxRuleWindow > 0,
                      \A i \in 0..(MaxRuleWindow - 1) : series[count - i] = series[count]
               PROVE  Reported(count) # {}
    BY DEF FlatLineIsReported
  <2>1. /\ count = Len(series) /\ count \in 1..Len(series) /\ MaxRuleWindow \in Nat
        /\ series[count] \in Int
    <3>1. count = Len(series) /\ count \in 1..Len(series) /\ series \in Seq(Values)
      BY RulesAssumption DEF IInv
    <3>2. series[count] \in Values
      BY <3>1
    <3> QED BY <3>1, <3>2, RulesAssumption
  <2>2. ASSUME NEW r \in {2, 7}
        PROVE  /\ Span[r] <= count /\ r \in RuleNumbers /\ Span[r] \in Nat \ {0}
               /\ \A o \in 0..(Span[r] - 1) :
                    Slice(series, count, Span[r])[o] = series[count]
    <3>1. r \in RuleNumbers /\ Span[r] \in Nat \ {0} /\ Span[r] <= MaxRuleWindow
      BY RulesAssumption DEF RuleNumbers
    <3>2. \A o \in 0..(Span[r] - 1) :
            /\ (Span[r] - 1) - o \in 0..(MaxRuleWindow - 1)
            /\ count - ((Span[r] - 1) - o) = count - Span[r] + 1 + o
      BY <2>1, <3>1, SMTT(30)
    <3>3. \A o \in 0..(Span[r] - 1) : series[count - Span[r] + 1 + o] = series[count]
      BY <3>2
    <3> QED BY <2>1, <3>1, <3>3 DEF Slice
  <2>3. DOMAIN Slice(series, count, Span[2]) = 0..(Span[2] - 1)
        /\ DOMAIN Slice(series, count, Span[7]) = 0..(Span[7] - 1)
    BY DEF Slice
  <2>4. CASE series[count] # 0
    <3>1. SameSign(Slice(series, count, Span[2]))
      BY <2>1, <2>2, <2>3, <2>4 DEF SameSign
    <3>2. 2 \in Reported(count)
      BY <2>1, <2>2, <3>1, ReportedCharacter DEF Pattern
    <3> QED BY <3>2
  <2>5. CASE series[count] = 0
    <3>1. HuggingCentre(Slice(series, count, Span[7]))
      <4>1. Magnitude(0) < Sigma
        BY RulesAssumption DEF Magnitude
      <4>2. \A o \in 0..(Span[7] - 1) : Slice(series, count, Span[7])[o] = 0
        BY <2>2, <2>5
      <4> QED BY <2>3, <4>1, <4>2 DEF HuggingCentre
    <3>2. 7 \in Reported(count)
      BY <2>1, <2>2, <3>1, ReportedCharacter DEF Pattern
    <3> QED BY <3>2
  <2> QED BY <2>4, <2>5
<1> QED BY <1>1, MonitorInvariance, PTL
\* w is the slice of rule r at point i, in integers.
IsSlice(r, i, w) ==
    /\ Span[r] \in Nat \ {0} /\ Span[r] <= i
    /\ DOMAIN w = 0..(Span[r] - 1)
    /\ \A o \in 0..(Span[r] - 1) : w[o] = series[i - Span[r] + 1 + o] /\ w[o] \in Int

\* A reported rule has a slice that shows its pattern.
LEMMA ReportedShows ==
    ASSUME IInv, NEW i \in 1..Len(series), NEW r \in RuleNumbers, r \in Reported(i)
    PROVE  \E w : IsSlice(r, i, w) /\ Pattern(r, w)
<1>1. Span[r] \in Nat \ {0} /\ Values \subseteq Int /\ series \in Seq(Values)
  BY RulesAssumption DEF IInv
<1>2. Span[r] <= i /\ Pattern(r, Slice(series, i, Span[r]))
  BY ReportedCharacter
<1>3. \A o \in 0..(Span[r] - 1) : i - Span[r] + 1 + o \in 1..Len(series)
  BY <1>1, <1>2
<1>4. \A o \in 0..(Span[r] - 1) : series[i - Span[r] + 1 + o] \in Values
  BY <1>1, <1>3
<1>5. IsSlice(r, i, Slice(series, i, Span[r]))
  BY <1>1, <1>2, <1>4 DEF IsSlice, Slice
<1> QED BY <1>2, <1>5

\* A slice counted back from its newest point.
LEMMA FromNewest ==
    ASSUME NEW r \in RuleNumbers, NEW i \in Nat, NEW w, IsSlice(r, i, w),
           NEW k \in 0..(Span[r] - 1)
    PROVE  /\ Span[r] - 1 - k \in DOMAIN w
           /\ w[Span[r] - 1 - k] = series[i - k] /\ series[i - k] \in Int
<1>1. Span[r] \in Nat \ {0}
  BY DEF IsSlice
<1>2. Span[r] - 1 - k \in 0..(Span[r] - 1)
      /\ i - Span[r] + 1 + (Span[r] - 1 - k) = i - k
  BY <1>1
<1>3. DOMAIN w = 0..(Span[r] - 1) /\ w[Span[r] - 1 - k] \in Int
      /\ w[Span[r] - 1 - k] = series[i - Span[r] + 1 + (Span[r] - 1 - k)]
  BY <1>2 DEF IsSlice
<1> QED BY <1>2, <1>3

\* The newest point of every slice is the point itself.
LEMMA NewestIsThePoint ==
    ASSUME NEW r \in RuleNumbers, NEW i \in Nat, NEW w, IsSlice(r, i, w)
    PROVE  /\ Span[r] - 1 \in DOMAIN w
           /\ w[Span[r] - 1] = series[i] /\ series[i] \in Int
<1>1. Span[r] \in Nat \ {0}
  BY DEF IsSlice
<1>2. Span[r] - 1 \in 0..(Span[r] - 1) /\ i - Span[r] + 1 + (Span[r] - 1) = i
  BY <1>1
<1>3. DOMAIN w = 0..(Span[r] - 1) /\ w[Span[r] - 1] \in Int
      /\ w[Span[r] - 1] = series[i - Span[r] + 1 + (Span[r] - 1)]
  BY <1>2 DEF IsSlice
<1> QED BY <1>2, <1>3

\* The two last steps of a slice of three points or more.
LEMMA LastSteps ==
    ASSUME NEW r \in RuleNumbers, NEW i \in Nat, NEW w, IsSlice(r, i, w), Span[r] >= 3
    PROVE  /\ {Span[r] - 1, Span[r] - 2} \subseteq DOMAIN Steps(w)
           /\ Span[r] - 1 # 1 /\ (Span[r] - 1) - 1 = Span[r] - 2
           /\ Steps(w)[Span[r] - 1] = series[i] - series[i - 1]
           /\ Steps(w)[Span[r] - 2] = series[i - 1] - series[i - 2]
           /\ series[i] \in Int /\ series[i - 1] \in Int /\ series[i - 2] \in Int
<1>1. Span[r] \in Nat /\ DOMAIN w = 0..(Span[r] - 1)
  BY DEF IsSlice
<1>2. 0 \in 0..(Span[r] - 1) /\ 1 \in 0..(Span[r] - 1) /\ 2 \in 0..(Span[r] - 1)
  BY <1>1
<1>3. w[Span[r] - 1 - 1] = series[i - 1] /\ series[i - 1] \in Int
  BY <1>2, FromNewest
<1>4. w[Span[r] - 1 - 2] = series[i - 2] /\ series[i - 2] \in Int
  BY <1>2, FromNewest
<1>5. w[Span[r] - 1] = series[i] /\ series[i] \in Int
  BY NewestIsThePoint
<1>6. /\ Span[r] - 1 \in DOMAIN w \ {0} /\ Span[r] - 2 \in DOMAIN w \ {0}
      /\ Span[r] - 1 # 1 /\ (Span[r] - 1) - 1 = Span[r] - 2
      /\ Span[r] - 1 - 1 = Span[r] - 2 /\ (Span[r] - 2) - 1 = Span[r] - 1 - 2
  BY <1>1
<1> QED BY <1>3, <1>4, <1>5, <1>6 DEF Steps

\* A trend and an alternation end in different pairs of steps.
LEMMA TrendNotAlternating ==
    ASSUME NEW i \in Nat, NEW v, NEW w, IsSlice(3, i, v), IsSlice(4, i, w),
           Span[3] >= 3, Span[4] >= 3, Trend(v), Alternating(w)
    PROVE  FALSE
<1> DEFINE last == series[i] - series[i - 1]
           before == series[i - 1] - series[i - 2]
<1>1. /\ {Span[3] - 1, Span[3] - 2} \subseteq DOMAIN Steps(v)
      /\ Steps(v)[Span[3] - 1] = last /\ Steps(v)[Span[3] - 2] = before
      /\ last \in Int /\ before \in Int
  BY LastSteps DEF RuleNumbers
<1>2. /\ Span[4] - 1 \in DOMAIN Steps(w) \ {1} /\ (Span[4] - 1) - 1 = Span[4] - 2
      /\ Steps(w)[Span[4] - 1] = last /\ Steps(w)[Span[4] - 2] = before
  BY LastSteps DEF RuleNumbers
<1> HIDE DEF last, before
<1>3. (before > 0) # (last > 0)
  BY <1>2 DEF Alternating
<1>4. \/ last > 0 /\ before > 0
      \/ last < 0 /\ before < 0
  BY <1>1 DEF Trend
<1> QED BY <1>1, <1>3, <1>4

\* A run on one side covers every point of a shorter slice.
LEMMA OneSideNotBoth ==
    ASSUME NEW i \in Nat, NEW v, NEW w, IsSlice(2, i, v), IsSlice(8, i, w),
           Span[8] <= Span[2], SameSign(v), AvoidingCentre(w)
    PROVE  FALSE
<1>1. /\ Span[2] \in Nat /\ Span[8] \in Nat
      /\ DOMAIN v = 0..(Span[2] - 1) /\ DOMAIN w = 0..(Span[8] - 1)
  BY DEF IsSlice
<1>2. ASSUME NEW o \in DOMAIN w
      PROVE  \E q \in DOMAIN v : w[o] = v[q] /\ w[o] \in Int
  <2> DEFINE k == Span[8] - 1 - o
  <2>1. /\ k \in 0..(Span[8] - 1) /\ k \in 0..(Span[2] - 1) /\ Span[8] - 1 - k = o
    BY <1>1, <1>2
  <2> HIDE DEF k
  <2>2. w[Span[8] - 1 - k] = series[i - k] /\ series[i - k] \in Int
    BY <2>1, FromNewest DEF RuleNumbers
  <2>3. Span[2] - 1 - k \in DOMAIN v /\ v[Span[2] - 1 - k] = series[i - k]
    BY <2>1, FromNewest DEF RuleNumbers
  <2> QED BY <2>1, <2>2, <2>3
<1>3. PICK o1 \in DOMAIN w, o2 \in DOMAIN w : w[o1] > 0 /\ w[o2] < 0
  BY DEF AvoidingCentre
<1>4. PICK q1 \in DOMAIN v : w[o1] = v[q1] /\ w[o1] \in Int
  BY <1>2
<1>5. PICK q2 \in DOMAIN v : w[o2] = v[q2] /\ w[o2] \in Int
  BY <1>2
<1>6. \/ v[q1] > 0 /\ v[q2] > 0
      \/ v[q1] < 0 /\ v[q2] < 0
  BY DEF SameSign
<1> QED BY <1>3, <1>4, <1>5, <1>6

\* An excess by rules 5 and 6 is an excess of the newest point.
LEMMA ExcessAtTheNewest ==
    ASSUME NEW r \in RuleNumbers, NEW i \in Nat, NEW w, IsSlice(r, i, w),
           NEW m, NEW k \in {1, 2}, MOfNBeyond(w, m, Span[r], k)
    PROVE  Magnitude(series[i]) > Sigma
<1>1. Sigma \in Nat \ {0}
  BY RulesAssumption
<1>2. PICK sign \in {1, -1} : Span[r] - 1 \in Hits(w, sign, k)
  BY DEF MOfNBeyond
<1>3. w[Span[r] - 1] = series[i] /\ series[i] \in Int
  BY NewestIsThePoint
<1>4. sign * series[i] > k * Sigma
  BY <1>2, <1>3 DEF Hits
<1>5. CASE k = 1 /\ sign = 1
  BY <1>1, <1>3, <1>4, <1>5 DEF Magnitude
<1>6. CASE k = 1 /\ sign = -1
  BY <1>1, <1>3, <1>4, <1>6 DEF Magnitude
<1>7. CASE k = 2 /\ sign = 1
  BY <1>1, <1>3, <1>4, <1>7 DEF Magnitude
<1>8. CASE k = 2 /\ sign = -1
  BY <1>1, <1>3, <1>4, <1>8 DEF Magnitude
<1> QED BY <1>5, <1>6, <1>7, <1>8

\* Every rule of excess needs the newest point away from the centre.
LEMMA QuietNotExcessive ==
    ASSUME NEW i \in Nat, NEW v, IsSlice(7, i, v), HuggingCentre(v),
           NEW r \in {1, 5, 6, 8}, NEW w, IsSlice(r, i, w), Pattern(r, w)
    PROVE  FALSE
<1>1. Sigma \in Nat \ {0} /\ r \in RuleNumbers /\ 7 \in RuleNumbers /\ Span[1] = 1
  BY RulesAssumption DEF RuleNumbers
<1>2. Magnitude(series[i]) < Sigma /\ series[i] \in Int
  BY <1>1, NewestIsThePoint DEF HuggingCentre
<1>3. Magnitude(series[i]) \in Int
  BY <1>2 DEF Magnitude
<1>4. CASE r = 1
  <2>1. Beyond3Sigma(w) /\ w[0] = series[i]
    <3>1. Beyond3Sigma(w)
      BY <1>4 DEF Pattern
    <3>2. w[Span[1] - 1] = series[i] /\ Span[1] - 1 = 0
      BY <1>1, <1>4, NewestIsThePoint
    <3> QED BY <3>1, <3>2
  <2>2. Magnitude(series[i]) > 3 * Sigma
    BY <2>1 DEF Beyond3Sigma
  <2> QED BY <1>1, <1>2, <1>3, <2>2
<1>5. CASE r = 5
  <2>1. MOfNBeyond(w, Needed[5], Span[r], 2)
    BY <1>5 DEF Pattern
  <2>2. Magnitude(series[i]) > Sigma
    BY <1>1, <2>1, ExcessAtTheNewest
  <2> QED BY <1>1, <1>2, <1>3, <2>2
<1>6. CASE r = 6
  <2>1. MOfNBeyond(w, Needed[6], Span[r], 1)
    BY <1>6 DEF Pattern
  <2>2. Magnitude(series[i]) > Sigma
    BY <1>1, <2>1, ExcessAtTheNewest
  <2> QED BY <1>1, <1>2, <1>3, <2>2
<1>7. CASE r = 8
  <2>1. AvoidingCentre(w)
    BY <1>7 DEF Pattern
  <2>2. Magnitude(series[i]) > Sigma
    BY <1>1, <2>1, NewestIsThePoint DEF AvoidingCentre
  <2> QED BY <1>1, <1>2, <1>3, <2>2
<1> QED BY <1>4, <1>5, <1>6, <1>7

\* Two rules that say opposite things are never reported for one point.
THEOREM OppositesCorrect == Spec => []OppositesKeptApart
<1>1. IInv => OppositesKeptApart
  <2> SUFFICES ASSUME IInv, NEW i \in 1..Len(series)
               PROVE  /\ (Span[3] >= 3 /\ Span[4] >= 3) => ~ {3, 4} \subseteq Reported(i)
                      /\ Span[8] <= Span[2] => ~ {2, 8} \subseteq Reported(i)
                      /\ 7 \in Reported(i) => Reported(i) \cap {1, 5, 6, 8} = {}
    BY DEF OppositesKeptApart
  <2>1. i \in Nat
    OBVIOUS
  <2>2. \A r \in RuleNumbers : r \in Reported(i) => \E w : IsSlice(r, i, w) /\ Pattern(r, w)
    BY ReportedShows
  <2>3. /\ 2 \in RuleNumbers /\ 3 \in RuleNumbers /\ 4 \in RuleNumbers
        /\ 7 \in RuleNumbers /\ 8 \in RuleNumbers
    BY DEF RuleNumbers
  <2>4. ASSUME Span[3] >= 3, Span[4] >= 3, 3 \in Reported(i), 4 \in Reported(i)
        PROVE  FALSE
    <3>1. PICK v : IsSlice(3, i, v) /\ Pattern(3, v)
      BY <2>2, <2>3, <2>4
    <3>2. PICK w : IsSlice(4, i, w) /\ Pattern(4, w)
      BY <2>2, <2>3, <2>4
    <3>3. Trend(v) /\ Alternating(w)
      BY <3>1, <3>2 DEF Pattern
    <3> QED BY <2>1, <2>4, <3>1, <3>2, <3>3, TrendNotAlternating
  <2>5. ASSUME Span[8] <= Span[2], 2 \in Reported(i), 8 \in Reported(i)
        PROVE  FALSE
    <3>1. PICK v : IsSlice(2, i, v) /\ Pattern(2, v)
      BY <2>2, <2>3, <2>5
    <3>2. PICK w : IsSlice(8, i, w) /\ Pattern(8, w)
      BY <2>2, <2>3, <2>5
    <3>3. SameSign(v) /\ AvoidingCentre(w)
      BY <3>1, <3>2 DEF Pattern
    <3> QED BY <2>1, <2>5, <3>1, <3>2, <3>3, OneSideNotBoth
  <2>6. ASSUME 7 \in Reported(i), NEW r \in {1, 5, 6, 8}, r \in Reported(i)
        PROVE  FALSE
    <3>1. PICK v : IsSlice(7, i, v) /\ Pattern(7, v)
      BY <2>2, <2>3, <2>6
    <3>2. PICK w : IsSlice(r, i, w) /\ Pattern(r, w)
      BY <2>2, <2>6 DEF RuleNumbers
    <3>3. HuggingCentre(v)
      BY <3>1 DEF Pattern
    <3> QED BY <2>1, <2>6, <3>1, <3>2, <3>3, QuietNotExcessive
  <2> QED BY <2>4, <2>5, <2>6
<1> QED BY <1>1, MonitorInvariance, PTL

-----------------------------------------------------------------------------
(* The mirror image.                                                       *)

Negated(w) == [o \in DOMAIN w |-> -w[o]]

\* Turning a slice upside down swaps its hits above and below.
LEMMA HitsMirrored ==
    ASSUME NEW n \in Nat, NEW w \in [0..(n - 1) -> Int], NEW k \in {1, 2}
    PROVE  /\ Hits(Negated(w), 1, k) = Hits(w, -1, k)
           /\ Hits(Negated(w), -1, k) = Hits(w, 1, k)
<1>1. DOMAIN Negated(w) = DOMAIN w /\ \A o \in DOMAIN w : Negated(w)[o] = -w[o] /\ w[o] \in Int
  BY DEF Negated
<1>2. \A o \in DOMAIN w : /\ 1 * (-w[o]) = (-1) * w[o]
                          /\ (-1) * (-w[o]) = 1 * w[o]
  BY <1>1
<1> QED BY <1>1, <1>2 DEF Hits

\* Hence "m of n on one side" is the same question upside down.
LEMMA MOfNMirrored ==
    ASSUME NEW n \in Nat, NEW w \in [0..(n - 1) -> Int], NEW m, NEW k \in {1, 2}
    PROVE  MOfNBeyond(Negated(w), m, n, k) <=> MOfNBeyond(w, m, n, k)
<1>1. /\ Hits(Negated(w), 1, k) = Hits(w, -1, k)
      /\ Hits(Negated(w), -1, k) = Hits(w, 1, k)
  BY HitsMirrored
<1> QED BY <1>1 DEF MOfNBeyond

\* The steps of a slice change sign with it.
LEMMA StepsMirrored ==
    ASSUME NEW n \in Nat, NEW w \in [0..(n - 1) -> Int]
    PROVE  /\ DOMAIN Steps(Negated(w)) = DOMAIN Steps(w)
           /\ \A o \in DOMAIN Steps(w) : /\ Steps(w)[o] \in Int
                                         /\ Steps(Negated(w))[o] = -Steps(w)[o]
<1>1. DOMAIN Negated(w) = DOMAIN w /\ DOMAIN w = 0..(n - 1)
      /\ \A o \in DOMAIN w : Negated(w)[o] = -w[o] /\ w[o] \in Int
  BY DEF Negated
<1>2. DOMAIN Steps(Negated(w)) = DOMAIN w \ {0} /\ DOMAIN Steps(w) = DOMAIN w \ {0}
  BY <1>1 DEF Steps
<1>3. ASSUME NEW o \in DOMAIN w \ {0}
      PROVE  Steps(w)[o] \in Int /\ Steps(Negated(w))[o] = -Steps(w)[o]
  <2>1. o - 1 \in DOMAIN w /\ o \in DOMAIN w
    BY <1>1
  <2>2. Steps(w)[o] = w[o] - w[o - 1]
    BY DEF Steps
  <2>3. Steps(Negated(w))[o] = (-w[o]) - (-w[o - 1])
    BY <1>1, <2>1 DEF Steps
  <2> QED BY <1>1, <2>1, <2>2, <2>3
<1> QED BY <1>2, <1>3

\* A slice and its mirror image show the same patterns.
LEMMA PatternMirrored ==
    ASSUME NEW r \in RuleNumbers, NEW w \in [0..(Span[r] - 1) -> Int]
    PROVE  Pattern(r, Negated(w)) <=> Pattern(r, w)
<1>1. /\ Span[r] \in Nat \ {0} /\ Sigma \in Nat \ {0} /\ Span[1] = 1
      /\ r \in {1, 2, 3, 4, 5, 6, 7, 8}
  <2>1. r \in {1, 2, 3, 4, 5, 6, 7, 8}
    BY DEF RuleNumbers
  <2> QED BY <2>1, RulesAssumption
<1>2. DOMAIN Negated(w) = DOMAIN w /\ DOMAIN w = 0..(Span[r] - 1)
      /\ \A o \in DOMAIN w : Negated(w)[o] = -w[o] /\ w[o] \in Int
  BY DEF Negated
<1>3. \A o \in DOMAIN w : Magnitude(Negated(w)[o]) = Magnitude(w[o])
  BY <1>2 DEF Magnitude
<1>4. \A o \in DOMAIN w : /\ Negated(w)[o] > 0 <=> w[o] < 0
                          /\ Negated(w)[o] < 0 <=> w[o] > 0
  BY <1>2
<1>5. DOMAIN Steps(Negated(w)) = DOMAIN Steps(w)
      /\ \A o \in DOMAIN Steps(w) : /\ Steps(w)[o] \in Int
                                    /\ Steps(Negated(w))[o] = -Steps(w)[o]
  BY <1>1, StepsMirrored
<1>6. \A o \in DOMAIN Steps(w) : /\ Steps(Negated(w))[o] > 0 <=> Steps(w)[o] < 0
                                 /\ Steps(Negated(w))[o] < 0 <=> Steps(w)[o] > 0
                                 /\ Steps(Negated(w))[o] # 0 <=> Steps(w)[o] # 0
  BY <1>5
<1>7. Beyond3Sigma(Negated(w)) <=> Beyond3Sigma(w)
  <2>1. 0 \in DOMAIN w
    BY <1>1, <1>2
  <2> QED BY <1>3, <2>1 DEF Beyond3Sigma
<1>8. SameSign(Negated(w)) <=> SameSign(w)
  BY <1>2, <1>4 DEF SameSign
<1>9. Trend(Negated(w)) <=> Trend(w)
  BY <1>5, <1>6 DEF Trend
<1>10. Alternating(Negated(w)) <=> Alternating(w)
  <2>1. (\A o \in DOMAIN Steps(Negated(w)) : Steps(Negated(w))[o] # 0)
          <=> (\A o \in DOMAIN Steps(w) : Steps(w)[o] # 0)
    BY <1>5, <1>6
  <2>2. ASSUME NEW o \in DOMAIN Steps(w) \ {1}, \A p \in DOMAIN Steps(w) : Steps(w)[p] # 0
        PROVE  ((Steps(Negated(w))[o - 1] > 0) # (Steps(Negated(w))[o] > 0))
                 <=> ((Steps(w)[o - 1] > 0) # (Steps(w)[o] > 0))
    <3>1. DOMAIN Steps(w) = 0..(Span[r] - 1) \ {0}
      BY <1>2 DEF Steps
    <3>2. o \in DOMAIN Steps(w) /\ o - 1 \in DOMAIN Steps(w)
      BY <1>1, <2>2, <3>1
    <3>3. /\ Steps(w)[o] > 0 \/ Steps(w)[o] < 0
          /\ Steps(w)[o - 1] > 0 \/ Steps(w)[o - 1] < 0
      BY <1>5, <2>2, <3>2
    <3>4. /\ ~ (Steps(w)[o] > 0 /\ Steps(w)[o] < 0)
          /\ ~ (Steps(w)[o - 1] > 0 /\ Steps(w)[o - 1] < 0)
      BY <1>5, <3>2
    <3>5. /\ Steps(Negated(w))[o] > 0 <=> Steps(w)[o] < 0
          /\ Steps(Negated(w))[o - 1] > 0 <=> Steps(w)[o - 1] < 0
      BY <1>6, <3>2
    <3> QED BY <3>3, <3>4, <3>5
  <2> QED BY <1>5, <2>1, <2>2 DEF Alternating
<1>11. HuggingCentre(Negated(w)) <=> HuggingCentre(w)
  BY <1>2, <1>3 DEF HuggingCentre
<1>12. AvoidingCentre(Negated(w)) <=> AvoidingCentre(w)
  BY <1>2, <1>3, <1>4 DEF AvoidingCentre
<1>13. ASSUME NEW k \in {1, 2}, NEW m
       PROVE  MOfNBeyond(Negated(w), m, Span[r], k) <=> MOfNBeyond(w, m, Span[r], k)
  BY <1>1, MOfNMirrored
<1>14. CASE r \in {1, 2, 3, 4}
  BY <1>7, <1>8, <1>9, <1>10, <1>14 DEF Pattern
<1>15. CASE r = 5
  <2>1. MOfNBeyond(Negated(w), Needed[5], Span[5], 2) <=> MOfNBeyond(w, Needed[5], Span[5], 2)
    BY <1>13, <1>15
  <2> QED BY <1>15, <2>1 DEF Pattern
<1>16. CASE r = 6
  <2>1. MOfNBeyond(Negated(w), Needed[6], Span[6], 1) <=> MOfNBeyond(w, Needed[6], Span[6], 1)
    BY <1>13, <1>16
  <2> QED BY <1>16, <2>1 DEF Pattern
<1>17. CASE r \in {7, 8}
  BY <1>11, <1>12, <1>17 DEF Pattern
<1> QED BY <1>1, <1>14, <1>15, <1>16, <1>17

\* Upside down the series completes the same rules at the same points.
LEMMA CompletedMirrored ==
    ASSUME NEW z \in Seq(Values), NEW i \in 1..Len(z)
    PROVE  Completed(Mirrored(z), i) = Completed(z, i)
<1>1. /\ Len(z) \in Nat /\ Values \subseteq Int
      /\ Len(Mirrored(z)) = Len(z)
      /\ \A j \in 1..Len(z) : Mirrored(z)[j] = -z[j]
  BY RulesAssumption DEF Mirrored
<1>2. \A j \in 1..Len(z) : z[j] \in Values
  OBVIOUS
<1>3. ASSUME NEW r \in RuleNumbers, Span[r] <= i
      PROVE  /\ Slice(z, i, Span[r]) \in [0..(Span[r] - 1) -> Int]
             /\ Slice(Mirrored(z), i, Span[r]) = Negated(Slice(z, i, Span[r]))
  <2>1. Span[r] \in Nat \ {0}
    BY RulesAssumption
  <2>2. \A o \in 0..(Span[r] - 1) : i - Span[r] + 1 + o \in 1..Len(z)
    BY <1>1, <1>3, <2>1
  <2>3. \A o \in 0..(Span[r] - 1) :
          /\ z[i - Span[r] + 1 + o] \in Int
          /\ Mirrored(z)[i - Span[r] + 1 + o] = -z[i - Span[r] + 1 + o]
    BY <1>1, <1>2, <2>2
  <2> QED BY <2>3 DEF Slice, Negated
<1>4. \A r \in RuleNumbers : i \in Completions(r, Mirrored(z)) <=> i \in Completions(r, z)
  <2> SUFFICES ASSUME NEW r \in RuleNumbers
               PROVE  i \in Completions(r, Mirrored(z)) <=> i \in Completions(r, z)
    OBVIOUS
  <2>1. Span[r] \in Nat \ {0}
    BY RulesAssumption
  <2>2. /\ i \in Span[r]..Len(z) <=> Span[r] <= i
        /\ i \in Span[r]..Len(Mirrored(z)) <=> Span[r] <= i
    BY <1>1, <2>1
  <2>3. Span[r] <= i => (Pattern(r, Slice(Mirrored(z), i, Span[r]))
                           <=> Pattern(r, Slice(z, i, Span[r])))
    BY <1>3, PatternMirrored
  <2> QED BY <2>2, <2>3 DEF Completions
<1> QED BY <1>4, RulesAssumption DEF Completed

\* The monitor has no preferred side.
THEOREM NoPreferredSideCorrect == Spec => []NoPreferredSide
<1>1. IInv => NoPreferredSide
  <2> SUFFICES ASSUME IInv, NEW i \in 1..Len(series)
               PROVE  violations[i] = FoundAt(Mirrored(series), i)
    BY DEF NoPreferredSide, FoundAt
  <2>1. FoundAt(Mirrored(series), i) = {Violation(r, i) : r \in Completed(Mirrored(series), i)}
    BY FoundCharacter
  <2>2. series \in Seq(Values)
        /\ violations[i] = {Violation(r, i) : r \in Completed(series, i)}
    BY DEF IInv
  <2>3. Completed(Mirrored(series), i) = Completed(series, i)
    BY <2>2, CompletedMirrored
  <2> QED BY <2>1, <2>2, <2>3
<1> QED BY <1>1, MonitorInvariance, PTL
=============================================================================
