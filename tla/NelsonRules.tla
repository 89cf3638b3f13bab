---------------------------- MODULE NelsonRules ----------------------------
(***************************************************************************)
(* The eight Nelson Rules of spc/nelson_rules.py, the batch function       *)
(* apply_rules, and the streaming NelsonMonitor that keeps a bounded       *)
(* window.  A point is its distance from the centre line in whole units,   *)
(* Sigma units being one sigma, so that every comparison the rules make    *)
(* (with 0, with 1, 2 and 3 sigma, with the previous point) is exact.      *)
(* Points are numbered from 1; the code numbers them from 0.               *)
(***************************************************************************)
EXTENDS Integers, Sequences, FiniteSets

CONSTANTS
    Sigma,          \* units in one sigma
    Values,         \* the sigma distances fed in, in units
    Span,           \* the window of every rule, RULES[r].window
    Needed,         \* how many extreme points rules 5 and 6 ask for
    MaxRuleWindow,  \* how many recent points the monitor keeps
    Chosen,         \* the rules the monitor was built with
    MaxPoints       \* bound: points fed between two resets

RuleNumbers == 1..8

ASSUME RulesAssumption ==
    /\ Sigma \in Nat \ {0} /\ Values \subseteq Int
    /\ Span \in [RuleNumbers -> Nat \ {0}] /\ Span[1] = 1
    /\ Needed \in [{5, 6} -> Nat]
    /\ MaxRuleWindow \in Nat /\ \A r \in RuleNumbers : Span[r] <= MaxRuleWindow
    /\ Chosen \subseteq RuleNumbers /\ MaxPoints \in Nat

-----------------------------------------------------------------------------
(* The patterns.  Each is a predicate on a slice w, a function on          *)
(* 0..n-1 holding n consecutive points.                                    *)

Magnitude(v) == IF v < 0 THEN -v ELSE v

\* The points z[end-n+1 : end+1] every rule cuts out of the series.
Slice(z, end, n) == [o \in 0..(n - 1) |-> z[end - n + 1 + o]]

Steps(w) == [o \in DOMAIN w \ {0} |-> w[o] - w[o - 1]]

Beyond3Sigma(w) == Magnitude(w[0]) > 3 * Sigma

SameSign(w) == \/ \A o \in DOMAIN w : w[o] > 0
               \/ \A o \in DOMAIN w : w[o] < 0

Trend(w) == \/ \A o \in DOMAIN Steps(w) : Steps(w)[o] > 0
            \/ \A o \in DOMAIN Steps(w) : Steps(w)[o] < 0

Alternating(w) ==
    /\ \A o \in DOMAIN Steps(w) : Steps(w)[o] # 0
    /\ \A o \in DOMAIN Steps(w) \ {1} : (Steps(w)[o - 1] > 0) # (Steps(w)[o] > 0)

Hits(w, sign, sigmas) == {o \in DOMAIN w : sign * w[o] > sigmas * Sigma}

\* Mutant of MOfNBeyond: the side below the centre line is forgotten.
MOfNAbove(w, m, n, sigmas) ==
    /\ Cardinality(Hits(w, 1, sigmas)) >= m
    /\ n - 1 \in Hits(w, 1, sigmas)

\* At least m of the n points beyond, all on one side, the newest among them.
MOfNBeyond(w, m, n, sigmas) ==
    \E sign \in {1, -1} : /\ Cardinality(Hits(w, sign, sigmas)) >= m
                          /\ n - 1 \in Hits(w, sign, sigmas)

\* Mutant of HuggingCentre: a point on the centre line is on no side.
HuggingOffCentre(w) == \A o \in DOMAIN w : Magnitude(w[o]) \in 1..(Sigma - 1)

HuggingCentre(w) == \A o \in DOMAIN w : Magnitude(w[o]) < Sigma

AvoidingCentre(w) ==
    /\ \A o \in DOMAIN w : Magnitude(w[o]) > Sigma
    /\ \E o \in DOMAIN w : w[o] > 0
    /\ \E o \in DOMAIN w : w[o] < 0

\* RULES: which pattern each number stands for.
Pattern(r, w) ==
    \/ r = 1 /\ Beyond3Sigma(w)
    \/ r = 2 /\ SameSign(w)
    \/ r = 3 /\ Trend(w)
    \/ r = 4 /\ Alternating(w)
    \/ r = 5 /\ MOfNBeyond(w, Needed[5], Span[5], 2)
    \/ r = 6 /\ MOfNBeyond(w, Needed[6], Span[6], 1)
    \/ r = 7 /\ HuggingCentre(w)
    \/ r = 8 /\ AvoidingCentre(w)

\* A Violation: the rule, the point that completed it, the first it covers.
Violation(r, end) == [rule |-> r, start |-> end - Span[r] + 1, end |-> end]

\* spec.check(z): every end at which the rule's pattern is complete.
Completions(r, z) == {e \in Span[r]..Len(z) : Pattern(r, Slice(z, e, Span[r]))}
Check(r, z) == {Violation(r, e) : e \in Completions(r, z)}

ApplyRules(z) == UNION {Check(r, z) : r \in Chosen}

-----------------------------------------------------------------------------
(* The monitor.                                                            *)

VARIABLES
    series,     \* history: every point fed in since the last reset
    window,     \* _window, the deque of recent points
    count,      \* _count
    violations  \* _violations, as what each call of add returned

vars == <<series, window, count, violations>>

RememberTooFew(w, x) ==
    IF Len(w) + 1 < MaxRuleWindow THEN Append(w, x) ELSE Append(Tail(w), x)

\* deque(maxlen=MAX_RULE_WINDOW).append
Remember(w, x) == IF Len(w) < MaxRuleWindow THEN Append(w, x) ELSE Append(Tail(w), x)

\* What add reports: the patterns that end at the newest point of the window,
\* moved to absolute positions by the offset of the window's first point.
Fired(w, n) ==
    LET offset == n - Len(w)
    IN  {[rule |-> v.rule, start |-> v.start + offset, end |-> v.end + offset] :
            v \in {u \in ApplyRules(w) : u.end = Len(w)}}

Init == /\ series = <<>> /\ window = <<>>
        /\ count = 0 /\ violations = <<>>

Add(x) ==
    /\ Len(series) < MaxPoints
    /\ series' = Append(series, x)
    /\ window' = Remember(window, x)
    /\ count' = count + 1
    /\ violations' = Append(violations, Fired(window', count'))

Reset ==
    /\ series' = <<>> /\ window' = <<>>
    /\ count' = 0 /\ violations' = <<>>

Next == Reset \/ \E x \in Values : Add(x)

Spec == Init /\ [][Next]_vars

-----------------------------------------------------------------------------
(* Properties.                                                             *)

\* The monitor never remembers more than MAX_RULE_WINDOW points
\* (nelson_rules.py:47-49) and has one list of violations per point fed in.
NelsonTypeOK ==
    /\ series \in Seq(Values) /\ window \in Seq(Values)
    /\ Len(window) <= MaxRuleWindow
    /\ count = Len(series) /\ Len(violations) = Len(series)
    /\ \A i \in 1..Len(violations) : violations[i] \subseteq
          [rule : RuleNumbers, start : 1..i, end : {i}]

\* What the monitor reported point by point, from a bounded window, is what
\* apply_rules finds in the whole series: nothing missed because a point
\* left the window, nothing reported twice, nothing left over from before a
\* reset, every position absolute.
StreamingIsBatch ==
    LET found == ApplyRules(series)
    IN  \A i \in 1..Len(series) : violations[i] = {v \in found : v.end = i}

Reported(i) == {v.rule : v \in violations[i]}

\* A gauge that keeps giving one value is reported as soon as the window is
\* full of it, wherever it stuck: on a side by rule 2, on the centre line by
\* rule 7 (its comment names the stuck sensor).  No value is a blind spot.
FlatLineIsReported ==
    ({2, 7} \subseteq Chosen /\ Len(series) >= MaxRuleWindow /\ MaxRuleWindow > 0
        /\ \A i \in 0..(MaxRuleWindow - 1) : series[count - i] = series[count])
    => Reported(count) # {}

\* Signals that mean opposite things are never given for the same point: a
\* trend and an alternation (rules 3 and 4), a run on one side and a mixture
\* (2 and 8, when 8 looks no further back than 2), a too quiet series and any
\* excess (7 against 1, 5, 6 and 8).
OppositesKeptApart ==
    \A i \in 1..Len(series) :
        /\ (Span[3] >= 3 /\ Span[4] >= 3) => ~ {3, 4} \subseteq Reported(i)
        /\ Span[8] <= Span[2] => ~ {2, 8} \subseteq Reported(i)
        /\ 7 \in Reported(i) => Reported(i) \cap {1, 5, 6, 8} = {}

Mirrored(z) == [i \in 1..Len(z) |-> -z[i]]

\* The rules have no preferred side: the series turned upside down breaks the
\* same rules at the same points, for streams as for apply_rules.
NoPreferredSide ==
    LET found == ApplyRules(Mirrored(series))
    IN  \A i \in 1..Len(series) : violations[i] = {v \in found : v.end = i}
=============================================================================
