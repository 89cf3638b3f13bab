----------------------------- MODULE Capability -----------------------------
(***************************************************************************)
(* spc/capability.py: Cp and Cpk of a set of subgroups against the limits  *)
(* of a tag (TagSpec), its verdict, and the rolling trend.  An index is a  *)
(* pair <<numerator, denominator>>; infinity is <<1, 0>>.  Pp and Ppk are  *)
(* the same formulas with the overall spread, a square root: of them only  *)
(* whether that spread is zero is kept.                                    *)
(***************************************************************************)
EXTENDS ControlCharts, FiniteSets

CONSTANT None               \* no specification limit, no index

ASSUME NoneAssumption == None \notin Int /\ None \notin Int \X Int

Infinity == <<1, 0>>

\* Order of indices; a denominator is never negative.  The indices of one
\* assessment have the same one.
Below(x, y) == IF x[2] = y[2] THEN x[1] < y[1] ELSE x[1] * y[2] < y[1] * x[2]
Smallest(X) == CHOOSE x \in X : \A y \in X : ~ Below(y, x)

HasSpecLimits(spec) == spec.lsl # None \/ spec.usl # None
TwoSided(spec) == spec.lsl # None /\ spec.usl # None

\* capability_from_subgroups raises for no subgroups, mixed sizes, a tag without
\* limits, and, in sigma_from_mean_range, a size that is not in the table.
CanAssess(groups, spec) == CanComputeLimits(groups) /\ HasSpecLimits(spec)

\* (limit - mean) / (3 sigma), sigma being R-bar over d2, and its mirror image.
Cpu(spec, parts, total, sigma) ==
    IF spec.usl = None THEN None ELSE
    IF sigma.num = 0 THEN Infinity ELSE
    <<2 * (spec.usl * parts - total) * sigma.den, 6 * parts * sigma.num>>

Cpl(spec, parts, total, sigma) ==
    IF spec.lsl = None THEN None ELSE
    IF sigma.num = 0 THEN Infinity ELSE
    <<2 * (total - spec.lsl * parts) * sigma.den, 6 * parts * sigma.num>>

Cp(spec, parts, sigma) ==
    IF ~ TwoSided(spec) THEN None ELSE
    IF sigma.num = 0 THEN Infinity ELSE
    <<(spec.usl - spec.lsl) * parts * sigma.den, 6 * parts * sigma.num>>

\* Mutant: the better of the two sides.
CpkBest(cpu, cpl) ==
    LET sides == {cpu, cpl} \ {None}
    IN  CHOOSE x \in sides : \A y \in sides : ~ Below(x, y)

Cpk(cpu, cpl) == Smallest({cpu, cpl} \ {None})

\* sigma_within = (ranges / count) / d2
SigmaWithin(groups) == [num |-> 1000 * Ranges(groups),
                        den |-> Len(groups) * D2(Len(groups[1]))]

CapabilityFromSubgroups(groups, spec) ==
    LET values == Measurements(groups)
        total  == Total(values)
        sigma  == SigmaWithin(groups)
        cpu    == Cpu(spec, Len(values), total, sigma)
        cpl    == Cpl(spec, Len(values), total, sigma)
    IN  [sample_size |-> Len(values), subgroup_count |-> Len(groups), total |-> total,
         repeatable |-> sigma.num = 0, flat |-> Cardinality(ToSet(values)) = 1,
         cp |-> Cp(spec, Len(values), sigma), cpu |-> cpu, cpl |-> cpl, cpk |-> Cpk(cpu, cpl)]

Verdict(cpk) ==
    CASE cpk = None -> "NO SPEC"
      [] cpk # None /\ Below(cpk, <<1, 1>>) -> "NOT CAPABLE"
      [] cpk # None /\ ~ Below(cpk, <<1, 1>>) /\ Below(cpk, <<133, 100>>) -> "MARGINAL"
      [] cpk # None /\ ~ Below(cpk, <<133, 100>>) /\ Below(cpk, <<167, 100>>) -> "CAPABLE"
      [] cpk # None /\ ~ Below(cpk, <<167, 100>>) /\ Below(cpk, <<2, 1>>) -> "GOOD"
      [] cpk # None /\ ~ Below(cpk, <<2, 1>>) -> "EXCELLENT"

\* rolling_capability raises for a window below two subgroups.
CanRoll(window) == window >= 2

RollingCapability(groups, spec, window) ==
    IF Len(groups) < window THEN <<>> ELSE
    [k \in 1 .. Len(groups) - window + 1 |->
        CapabilityFromSubgroups(SubSeq(groups, k, k + window - 1), spec)]
=============================================================================
