--------------------------- MODULE ControlCharts ---------------------------
(***************************************************************************)
(* spc/control_charts.py, with the constants of spc/constants.py and the   *)
(* subgroups of spc/subgroups.py: limits computed from a baseline, and     *)
(* what is beyond them.  A subgroup is the sequence of its measurements,   *)
(* whole numbers of some unit.                                             *)
(*                                                                         *)
(* The arithmetic is exact.  Everything on one chart is multiplied by what *)
(* makes it whole: the X-bar chart of a baseline of b subgroups of n parts *)
(* by 10 n b d2, the R chart by 10 b d2, with d2 in thousandths and d3 in  *)
(* ten-thousandths.  Comparisons are those of the code, distances in sigma *)
(* are compared without dividing.                                          *)
(***************************************************************************)
EXTENDS Integers, Sequences, SequencesExt

CONSTANT RelativeRange      \* n to [d2, d3], the tabulated ones
                            \* of the sizes that have a whole square root

ASSUME RelativeRangeAssumption ==
    /\ DOMAIN RelativeRange \subseteq {r * r : r \in 2 .. 5}
    /\ \A n \in DOMAIN RelativeRange :
         RelativeRange[n] \in [d2 : Nat \ {0}, d3 : Nat \ {0}]

-----------------------------------------------------------------------------
(* Subgroups *)

Total(values) == FoldSeq(LAMBDA v, sum : v + sum, 0, values)

\* Largest minus smallest, of a subgroup that is not empty.
RangeOf(group) == Max(ToSet(group)) - Min(ToSet(group))

Ranges(groups) == Total([i \in DOMAIN groups |-> RangeOf(groups[i])])
Measurements(groups) == FlattenSeq(groups)

OneSize(groups) == \A i, j \in DOMAIN groups : Len(groups[i]) = Len(groups[j])

\* subgroups_from_values: complete subgroups only, a short remainder is dropped.
SubgroupsFromValues(values, n) ==
    [k \in 1 .. Len(values) \div n |-> SubSeq(values, (k - 1) * n + 1, k * n)]

-----------------------------------------------------------------------------
(* Limits *)

\* The limits of one chart, and of both.
ControlLimits == [center : Int, upper : Int, lower : Int, sigma : Int]
ChartLimits == [subgroup_size : Nat, baseline_count : Nat,
                xbar : ControlLimits, r : ControlLimits]

Root(n) == CHOOSE r \in 1 .. n : r * r = n
D2(n) == RelativeRange[n].d2
D3(n) == RelativeRange[n].d3

AtLeastZero(x) == IF x > 0 THEN x ELSE 0

\* A2 R-bar, 3 / (d2 sqrt(n)) times the mean range, is three sigma of a mean.
XbarLimits(baseline, n) ==
    LET center == 10 * D2(n) * Total(Measurements(baseline))
        sigma  == 10000 * Root(n) * Ranges(baseline)
    IN  [center |-> center, upper |-> center + 3 * sigma, lower |-> center - 3 * sigma,
         sigma |-> sigma]

\* Mutant: one sixth of the width, which the floor of the lower limit narrows.
RLimitsByWidth(baseline, n) ==
    LET upper == (10 * D2(n) + 3 * D3(n)) * Ranges(baseline)
        lower == AtLeastZero(10 * D2(n) - 3 * D3(n)) * Ranges(baseline)
    IN  [center |-> 10 * D2(n) * Ranges(baseline), upper |-> upper, lower |-> lower,
         sigma |-> (upper - lower) \div 6]

\* D4 R-bar above, D3 R-bar floored at zero below; sigma is a third of the
\* distance to the upper limit, which is never floored.
RLimits(baseline, n) ==
    LET mean == 10 * D2(n) * Ranges(baseline)
    IN  [center |-> mean,
         upper  |-> mean + 3 * D3(n) * Ranges(baseline),
         lower  |-> AtLeastZero(10 * D2(n) - 3 * D3(n)) * Ranges(baseline),
         sigma  |-> D3(n) * Ranges(baseline)]

\* compute_limits raises for an empty baseline, for mixed sizes and for a size
\* that is not in the table.
CanComputeLimits(baseline) ==
    baseline # <<>> /\ OneSize(baseline) /\ Len(baseline[1]) \in DOMAIN RelativeRange

ComputeLimits(baseline) ==
    LET n == Len(baseline[1])
    IN  [subgroup_size |-> n, baseline_count |-> Len(baseline),
         xbar |-> XbarLimits(baseline, n), r |-> RLimits(baseline, n)]

-----------------------------------------------------------------------------
(* Monitoring *)

IsBeyondLimits(limits, value) == value > limits.upper \/ value < limits.lower

Distance(limits, value) == IF value < limits.center THEN limits.center - value
                                                    ELSE value - limits.center

\* sigma_distance is zero when sigma is, so no value is far from the centre.
FurtherThan(limits, value, k) ==
    limits.sigma > 0 /\ Distance(limits, value) > k * limits.sigma

Zone(limits, value) ==
    CASE FurtherThan(limits, value, 3) -> "beyond"
      [] FurtherThan(limits, value, 2) /\ ~ FurtherThan(limits, value, 3) -> "A"
      [] FurtherThan(limits, value, 1) /\ ~ FurtherThan(limits, value, 2) -> "B"
      [] ~ FurtherThan(limits, value, 1) -> "C"

\* The mean and the range of a subgroup in the units of the two charts.
PlottedMean(limits, group) ==
    10 * D2(Len(group)) * limits.baseline_count * Total(group)
PlottedRange(limits, group) ==
    10 * D2(Len(group)) * limits.baseline_count * RangeOf(group)

\* evaluate raises for a subgroup of another size.
CanEvaluate(limits, group) == Len(group) = limits.subgroup_size

Evaluate(limits, group) ==
    LET mean  == PlottedMean(limits, group)
        range == PlottedRange(limits, group)
    IN  [mean |-> mean, range |-> range,
         mean_out_of_control  |-> IsBeyondLimits(limits.xbar, mean),
         range_out_of_control |-> IsBeyondLimits(limits.r, range),
         mean_zone  |-> Zone(limits.xbar, mean),
         range_zone |-> Zone(limits.r, range)]
=============================================================================
