----------------------------- MODULE Evaluation -----------------------------
(***************************************************************************)
(* One run of the evaluation: run_once of evaluation/runner.py, on a       *)
(* scenario of evaluation/scenarios.py.  First every part is made and      *)
(* measured (simulator/offline.py), then the readings are fed, subgroup by *)
(* subgroup, to an SPCEngine with the charts of ControlCharts and the      *)
(* indices of Capability, then what happened is counted.                   *)
(*                                                                         *)
(* Rule 1 is exact; whether another rule fires on a subgroup is free       *)
(* (NelsonRules has the rules), and which one was first is left out.       *)
(* update.raised holds an alarm exactly when a rule fires, as record_many  *)
(* returns updated alarms too.                                             *)
(***************************************************************************)
EXTENDS Capability

CONSTANTS
    Noise,          \* Noise[n]: the deviations of n consecutive healthy parts
    Cycles,         \* times from one part to the next, whole samples
    Specs,          \* specification limits of the tag: [lsl, usl]
    Shift,          \* what the process fault adds to every part
    BaselineSubgroups, MonitorSubgroups, SubgroupSize, CycleTime,
                    \* the four constants of scenarios.py
    CapabilityWindow

ASSUME EvaluationAssumption ==
    /\ DOMAIN Noise \subseteq DOMAIN RelativeRange
    /\ \A n \in DOMAIN Noise : \A s \in Noise[n] : s \in Seq(Int) /\ Len(s) = n
    /\ Cycles \subseteq 1 .. BaselineSubgroups * SubgroupSize * CycleTime - 1
    /\ CycleTime \in Cycles
    /\ BaselineSubgroups \in Nat /\ BaselineSubgroups >= 2
    /\ MonitorSubgroups \in Nat \ {0} /\ SubgroupSize \in Nat \ {0}
    /\ CapabilityWindow \in Nat /\ CapabilityWindow >= 2 /\ Shift \in Int
    /\ Specs \subseteq [lsl : Int \cup {None}, usl : Int \cup {None}]
    /\ \A spec \in Specs : HasSpecLimits(spec)
    /\ None \notin [subgroups : Int, critical : BOOLEAN]
    /\ None \notin ChartLimits

Kinds == {"healthy", "process", "sensor"}

VARIABLES
    scenario,       \* [kind, spec, size, cycle]: the run asked for
    phase,          \* "collect", "feed" or "done"
    truth,          \* the dimension of every part so far
    readings,       \* what the gauge said of it
    position,       \* subgroups fed
    limits,         \* the engine's frozen limits, or None
    points,         \* its chart
    trend,          \* its capability trend
    first,          \* detection_subgroups and critical, or None
    alarm_subgroups,
    result          \* the RunResult, or None

vars == <<scenario, phase, truth, readings, position, limits, points, trend, first,
          alarm_subgroups, result>>

Size == scenario.size
TotalParts == (BaselineSubgroups + MonitorSubgroups) * Size
Subgroups == SubgroupsFromValues(readings, Size)
Monitored == SubSeq(Subgroups, BaselineSubgroups + 1, position)

Init ==
    /\ scenario \in [kind : Kinds, spec : Specs, size : DOMAIN Noise, cycle : Cycles]
    /\ phase = "collect"
    /\ truth = <<>> /\ readings = <<>>
    /\ position = 0 /\ limits = None /\ points = <<>> /\ trend = <<>>
    /\ first = None /\ alarm_subgroups = 0 /\ result = None

-----------------------------------------------------------------------------
(* Making and measuring the parts *)

\* START_S.  A fault is active from then on; part i is completed cycle after
\* part i - 1, the first one a cycle after the start of the machine.
StartTime == BaselineSubgroups * SubgroupSize * CycleTime
Faulty(i) == scenario.kind # "healthy" /\ i * scenario.cycle >= StartTime

\* A process fault changes the part.
Made(i, noise) == IF scenario.kind = "process" /\ Faulty(i) THEN noise + Shift ELSE noise

\* A sensor fault repeats the reading before it.  There is one: the cycle of a
\* run is shorter than its healthy stretch, so that no fault meets the first part.
Measure(old, i, dimension) ==
    IF scenario.kind = "sensor" /\ Faulty(i) /\ old # <<>> THEN Append(old, Last(old))
    ELSE Append(old, dimension)

\* Parts are collected until there are enough, here a subgroup at a time.
Collect ==
    /\ phase = "collect"
    /\ \E noise \in Noise[Size] :
         LET made == [k \in 1 .. Size |-> Made(Len(truth) + k, noise[k])]
         IN  /\ truth' = truth \o made
             /\ readings' = FoldLeftDomain(LAMBDA r, k : Measure(r, Len(truth) + k, made[k]),
                                           readings, made)
    /\ phase' = IF Len(truth') < TotalParts THEN "collect" ELSE "feed"
    /\ UNCHANGED <<scenario, position, limits, points, trend, first, alarm_subgroups,
                   result>>

-----------------------------------------------------------------------------
(* Feeding the engine *)

AddToBaseline ==
    /\ phase = "feed" /\ limits = None
    /\ position' = position + 1
    /\ limits' = IF position' < BaselineSubgroups THEN None
                 ELSE ComputeLimits(SubSeq(Subgroups, 1, position'))
    /\ UNCHANGED <<scenario, phase, truth, readings, points, trend, first,
                   alarm_subgroups, result>>

RuleOne(zone) == zone = "beyond"

\* Mutant: subgroups are counted from the baseline, which is position less one.
LatencyFromZero(p) == p - 1 - BaselineSubgroups

\* position - baseline + 1, with position counted from 0 (here from 1).
Latency(p) == p - BaselineSubgroups

\* Mutant: the window stays where it was first full.
LastWindowStays(groups) == SubSeq(groups, 1, CapabilityWindow)

LastWindow(groups) == SubSeq(groups, Len(groups) - CapabilityWindow + 1, Len(groups))

\* _monitor on the next subgroup, and what run_once notes of its update.
Monitor ==
    /\ phase = "feed" /\ limits # None /\ position < Len(Subgroups)
    /\ position' = position + 1
    /\ \E another \in BOOLEAN :
         LET point    == Evaluate(limits, Subgroups[position'])
             critical == RuleOne(point.mean_zone) \/ RuleOne(point.range_zone)
             raised   == critical \/ another
         IN  /\ points' = Append(points, point)
             /\ alarm_subgroups' = IF raised THEN alarm_subgroups + 1 ELSE alarm_subgroups
             /\ first' = IF raised /\ first = None
                         THEN [subgroups |-> Latency(position'), critical |-> critical]
                         ELSE first
    /\ trend' = LET kept == SubSeq(Subgroups, BaselineSubgroups + 1, position')
                IN  IF Len(kept) < CapabilityWindow THEN trend
                    ELSE Append(trend, CapabilityFromSubgroups(LastWindow(kept), scenario.spec))
    /\ UNCHANGED <<scenario, phase, truth, readings, limits, result>>

-----------------------------------------------------------------------------
(* Counting *)

OutOfSpec(value) == \/ scenario.spec.lsl # None /\ value < scenario.spec.lsl
                    \/ scenario.spec.usl # None /\ value > scenario.spec.usl

\* The scrapped parts of the monitored window, counted from 1.
ScrapIndices ==
    {i \in 1 .. MonitorSubgroups * Size : OutOfSpec(truth[BaselineSubgroups * Size + i])}

\* The part whose subgroup raised the first alarm.
DetectionParts == first.subgroups * Size

Report ==
    /\ phase = "feed" /\ limits # None /\ position = Len(Subgroups)
    /\ result' =
         [detected |-> first # None,
          scrap_parts |-> Cardinality(ScrapIndices),
          scrap_after_alarm |->
              IF first = None THEN 0
              ELSE Cardinality({i \in ScrapIndices : i > DetectionParts}),
          warning_parts |->
              IF first = None \/ ScrapIndices = {} THEN None
              ELSE Min(ScrapIndices) - DetectionParts,
          final_cpk |-> IF trend = <<>> THEN None ELSE Last(trend).cpk]
    /\ phase' = "done"
    /\ UNCHANGED <<scenario, truth, readings, position, limits, points, trend, first,
                   alarm_subgroups>>

Next == Collect \/ AddToBaseline \/ Monitor \/ Report

Spec == Init /\ [][Next]_vars

-----------------------------------------------------------------------------
(* Properties *)

Repeatable == limits # None /\ limits.r.center = 0

\* "beyond: outside the limits" (control_charts.py:110) and "CRITICAL: outside
\* its control limits" (alarms.py:20), two ways of telling a bad point that the
\* code computes apart from each other: rule 1 fires, on either chart, exactly
\* on the points flagged as out of control, floored lower limit or not.  Only
\* for a baseline whose ranges are all zero does rule 1 never fire, whatever
\* is flagged.
RuleOneIsTheLimits ==
    \A k \in DOMAIN points :
        /\ RuleOne(points[k].mean_zone)  <=> points[k].mean_out_of_control /\ ~ Repeatable
        /\ RuleOne(points[k].range_zone) <=> points[k].range_out_of_control /\ ~ Repeatable

\* The trend the engine keeps, one window after the other, is the rolling
\* capability of all monitored subgroups, recomputed (capability.py:383).
TrendIsRolling ==
    trend = RollingCapability(Monitored, scenario.spec, CapabilityWindow)

\* "Cpk is never greater than Cp" (capability.py:38-41), equal exactly for a
\* centred process, and negative exactly when the mean is outside the
\* tolerance; unless nothing varies within the subgroups: then both are
\* infinite and the verdict is EXCELLENT wherever the process sits, even when
\* the subgroups differ from each other.
CpkTellsCentring ==
    \A k \in DOMAIN trend :
        LET c == trend[k]
            spec == scenario.spec
        IN  /\ c.repeatable => c.cpk = Infinity /\ Verdict(c.cpk) = "EXCELLENT"
            /\ ~ c.repeatable =>
                  /\ ~ c.flat
                  /\ Below(c.cpk, <<0, 1>>) <=>
                        \/ spec.usl # None /\ c.total > spec.usl * c.sample_size
                        \/ spec.lsl # None /\ c.total < spec.lsl * c.sample_size
                  /\ TwoSided(spec) =>
                        /\ ~ Below(c.cp, c.cpk)
                        /\ c.cp = c.cpk <=>
                              2 * c.total = (spec.usl + spec.lsl) * c.sample_size

\* A process that is good while it is healthy: its deviations stay within the
\* limits of the tag.
Within(value, spec) == /\ spec.lsl # None => value >= spec.lsl
                       /\ spec.usl # None => value <= spec.usl

HealthyIsGood ==
    \A n \in DOMAIN Noise : \A noise \in Noise[n] : \A k \in 1 .. n :
        \A spec \in Specs : Within(noise[k], spec)

\* The alarms and the scrap of a run agree: an alarm comes in the window and no
\* later than the first point outside the limits (unless the baseline had no
\* range at all, when no sigma distance is beyond any zone), the warning is
\* positive exactly when every scrapped part comes after the alarm, and only a
\* process fault makes scrap, whatever the gauge says.  The last is a statement
\* about a process that is good while healthy (HealthyIsGood); the program's
\* noise has no bound.
ResultIsConsistent ==
    phase = "done" =>
        /\ result.detected => /\ first.subgroups \in 1 .. MonitorSubgroups
                              /\ alarm_subgroups \in
                                     1 .. MonitorSubgroups - first.subgroups + 1
                              /\ first.critical => \/ points[first.subgroups].mean_out_of_control
                                                   \/ points[first.subgroups].range_out_of_control
        /\ \A k \in DOMAIN points :
              (points[k].mean_out_of_control \/ points[k].range_out_of_control)
              /\ ~ Repeatable => result.detected /\ first.subgroups <= k
        /\ result.warning_parts # None =>
              (result.warning_parts > 0 <=> result.scrap_after_alarm = result.scrap_parts)
        /\ result.scrap_parts > 0 => scenario.kind = "process"

-----------------------------------------------------------------------------
(* What the documentation says and the run does not do *)

\* "every scenario runs healthy for the whole baseline, and the fault begins on
\* the first monitored part.  START_S is that moment" (scenarios.py:13): the
\* parts the limits are computed from are healthy, in a run with the catalogue's
\* subgroup size and cycle time.
HealthyBaseline ==
    scenario.size = SubgroupSize /\ scenario.cycle = CycleTime =>
        \A i \in 1 .. Min({Len(truth), BaselineSubgroups * Size}) : ~ Faulty(i)
=============================================================================
