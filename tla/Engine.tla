------------------------------- MODULE Engine -------------------------------
(***************************************************************************)
(* spc/engine.py, class SPCEngine: the baseline phase that freezes the     *)
(* control limits, then for every subgroup the chart, the two Nelson       *)
(* monitors, the alarm log and the rolling capability.  add is one call of *)
(* the code; here it is split at every record, and it stops half way where *)
(* the code raises.                                                        *)
(*                                                                         *)
(* Of a subgroup only its size matters.  Which rules it breaks is free     *)
(* (NelsonRules has the rules).  Three counters meet in the alarm log and  *)
(* nothing in the code relates them: the monitor of the X-bar chart, the   *)
(* monitor of the R chart and the length of the chart.  AlarmLog is        *)
(* instantiated once for each of them.                                     *)
(***************************************************************************)
EXTENDS Integers, Sequences, FiniteSets

CONSTANTS
    Key,            \* the (chart, rule) pairs
    Turn,           \* the place of each rule in rules
    ClearAfter,     \* clear_alarms_after
    Sizes,          \* the sizes of the subgroups fed in
    Baseline,       \* baseline_subgroups
    Window,         \* capability_window
    HasSpecLimits,  \* whether the charted tag has specification limits
    MaxIndex,       \* bound: points on the chart
    MaxFailures     \* bound: calls of add that raise

\* The constructor refuses a baseline below 2, and AlarmLog a ClearAfter of 0.
ASSUME EngineAssumption ==
    /\ Turn \in [{k[2] : k \in Key} -> Nat]
    /\ Sizes \subseteq Nat \ {0} /\ Baseline \in Nat /\ Baseline >= 2
    /\ ClearAfter \in Nat \ {0}
    /\ Window \in Nat \ {0} /\ HasSpecLimits \in BOOLEAN
    /\ MaxIndex \in Nat /\ MaxFailures \in Nat

VARIABLES
    pc,             \* where add is: idle, or recording for one of the charts
    baseline,       \* _baseline: sizes of the subgroups collected
    limits,         \* _chart: NoLimits, or the subgroup size of its limits
    monitored,      \* _monitored: sizes of the subgroups kept
    points,         \* how many points the chart has
    xbarSeen,       \* _xbar_monitor: points fed in
    rSeen,          \* _r_monitor: points fed in
    todo,           \* violations the monitor of pc reported, not yet recorded
    trend,          \* _capability_trend: the chart point of each entry
    update,         \* the EngineUpdate being built, or returned last
    failures,       \* history: calls of add that have raised
    alarms, open,   \* the AlarmLog
    reported, fired \* history variables of AlarmLog

logVars == <<alarms, open, reported, fired>>
vars == <<pc, baseline, limits, monitored, points, xbarSeen, rSeen, todo, trend,
          update, failures, logVars>>

\* The log as each counter sees it: what record takes for the index of a
\* violation (end_index) and what expire is given (point.index).
XbarLog == INSTANCE AlarmLog WITH index <- xbarSeen - 1
RLog    == INSTANCE AlarmLog WITH index <- rSeen - 1
ChartLog == INSTANCE AlarmLog WITH index <- points - 1

NoLimits == 0
XbarKeys == {k \in Key : k[1] = "X-bar"}
RKeys    == Key \ XbarKeys

Returned(error) == [raised |-> {}, cleared |-> {}, error |-> error]

Init == /\ pc = "idle"
        /\ baseline = <<>> /\ limits = NoLimits
        /\ monitored = <<>> /\ points = 0 /\ xbarSeen = 0 /\ rSeen = 0
        /\ todo = {} /\ trend = <<>>
        /\ update = Returned(FALSE) /\ failures = 0
        /\ alarms = <<>> /\ open = [k \in Key |-> 0]
        /\ reported = {} /\ fired = [k \in Key |-> {}]

OneSize(s) == \A i, j \in DOMAIN s : s[i] = s[j]

\* The end of a call of add that raises ValueError.
Raises == /\ failures < MaxFailures
          /\ failures' = failures + 1

-----------------------------------------------------------------------------
(* _add_to_baseline                                                        *)

\* Mutant of BaselineIsFull: the limits are frozen one subgroup early.
BaselineIsFullEarly(b) == Len(b) >= Baseline - 1

BaselineIsFull(b) == Len(b) >= Baseline

AddToBaseline(size) ==
    /\ pc = "idle" /\ limits = NoLimits
    /\ baseline' = Append(baseline, size)
    /\ \/ /\ ~ BaselineIsFull(baseline')
          /\ update' = Returned(FALSE)
          /\ UNCHANGED <<limits, failures>>
       \/ /\ BaselineIsFull(baseline') /\ OneSize(baseline')
          /\ limits' = size
          /\ update' = Returned(FALSE)
          /\ UNCHANGED failures
       \/ \* compute_limits raises; the subgroup stays in the baseline
          /\ BaselineIsFull(baseline') /\ ~ OneSize(baseline')
          /\ Raises
          /\ update' = Returned(TRUE)
          /\ UNCHANGED limits
    /\ UNCHANGED <<pc, monitored, points, xbarSeen, rSeen, todo, trend, logVars>>

-----------------------------------------------------------------------------
(* _monitor                                                                *)

\* Mutant of Refuse: the X-bar monitor is fed before the chart has accepted.
RefuseAfterMonitoring(size) ==
    /\ pc = "idle" /\ limits # NoLimits /\ size # limits
    /\ Raises
    /\ monitored' = Append(monitored, size)
    /\ xbarSeen' = xbarSeen + 1
    /\ update' = Returned(TRUE)
    /\ UNCHANGED <<pc, baseline, limits, points, rSeen, todo, trend, logVars>>

\* The chart refuses a subgroup of another size, which is kept all the same.
Refuse(size) ==
    /\ pc = "idle" /\ limits # NoLimits /\ size # limits
    /\ Raises
    /\ monitored' = Append(monitored, size)
    /\ update' = Returned(TRUE)
    /\ UNCHANGED <<pc, baseline, limits, points, xbarSeen, rSeen, todo, trend, logVars>>

\* The subgroup is plotted and the X-bar monitor reports the rules in V.
Plot(size, V) ==
    /\ pc = "idle" /\ limits # NoLimits /\ size = limits
    /\ points < MaxIndex
    /\ monitored' = Append(monitored, size)
    /\ points' = points + 1
    /\ xbarSeen' = xbarSeen + 1
    /\ todo' = V
    /\ update' = Returned(FALSE)
    /\ pc' = "xbar"
    /\ UNCHANGED <<baseline, limits, rSeen, trend, failures, logVars>>

\* The violations come in the order in which the engine was given its rules.
IsNext(k) == k \in todo /\ \A j \in todo : Turn[k[2]] <= Turn[j[2]]

\* Mutant of Recorded: the position of an alarm about to be appended.
RecordedAtNewEnd(k) == Len(alarms) + 1

\* The position of the alarm record returns, new or updated.
Recorded(k) == IF open[k] = 0 THEN Len(alarms) + 1 ELSE open[k]

RecordNext(k) ==
    /\ IsNext(k)
    /\ todo' = todo \ {k}
    /\ update' = [update EXCEPT !.raised = @ \cup {Recorded(k)}]
    /\ UNCHANGED <<pc, baseline, limits, monitored, points, xbarSeen, rSeen, trend, failures>>

RecordXbar(k) == pc = "xbar" /\ RecordNext(k) /\ XbarLog!Record(k)

RecordR(k) == pc = "r" /\ RecordNext(k) /\ RLog!Record(k)

\* The X-bar violations are recorded and the R monitor reports the rules in V.
MonitorR(V) ==
    /\ pc = "xbar" /\ todo = {}
    /\ rSeen' = rSeen + 1
    /\ todo' = V
    /\ pc' = "r"
    /\ UNCHANGED <<baseline, limits, monitored, points, xbarSeen, trend, update, failures, logVars>>

Expire ==
    /\ alarms' = ChartLog!Cleared(ChartLog!Expiring)
    /\ open' = [k \in Key |-> IF k \in ChartLog!Expiring THEN 0 ELSE open[k]]
    /\ reported' = {}
    /\ UNCHANGED fired

\* The last Window subgroups kept, refused ones among them.
LastWindow == SubSeq(monitored, Len(monitored) - Window + 1, Len(monitored))

\* Mutant of WindowIsFull: the window is thought full one subgroup late.
WindowIsFullLate == Len(monitored) > Window

WindowIsFull == Len(monitored) >= Window

\* expire and the rolling capability end the call; capability_from_subgroups
\* raises after the alarms have changed.
Finish ==
    /\ pc = "r" /\ todo = {}
    /\ Expire
    /\ pc' = "idle"
    /\ LET cleared == {open[k] : k \in ChartLog!Expiring}
       IN  \/ /\ ~ WindowIsFull
              /\ update' = [update EXCEPT !.cleared = cleared]
              /\ UNCHANGED <<trend, failures>>
           \/ /\ WindowIsFull /\ OneSize(LastWindow) /\ HasSpecLimits
              /\ trend' = Append(trend, points - 1)
              /\ update' = [update EXCEPT !.cleared = cleared]
              /\ UNCHANGED failures
           \/ /\ WindowIsFull /\ ~ (OneSize(LastWindow) /\ HasSpecLimits)
              /\ Raises
              /\ update' = Returned(TRUE)
              /\ UNCHANGED trend
    /\ UNCHANGED <<baseline, limits, monitored, points, xbarSeen, rSeen, todo>>

Next == \/ \E size \in Sizes : AddToBaseline(size) \/ Refuse(size)
        \/ \E size \in Sizes, V \in SUBSET XbarKeys : Plot(size, V)
        \/ \E k \in Key : RecordXbar(k) \/ RecordR(k)
        \/ \E V \in SUBSET RKeys : MonitorR(V)
        \/ Finish

Spec == Init /\ [][Next]_vars

-----------------------------------------------------------------------------
(* Properties.                                                             *)

\* The state of the engine; an update refers to alarms the log holds.
EngineTypeOK ==
    /\ pc \in {"idle", "xbar", "r"}
    /\ baseline \in Seq(Sizes) /\ monitored \in Seq(Sizes)
    /\ limits \in Sizes \cup {NoLimits}
    /\ points \in 0..MaxIndex /\ xbarSeen \in Nat /\ rSeen \in Nat
    /\ todo \subseteq Key /\ trend \in Seq(Nat) /\ failures \in 0..MaxFailures
    /\ update \in [raised : SUBSET DOMAIN alarms, cleared : SUBSET DOMAIN alarms,
                   error : BOOLEAN]
    /\ ChartLog!TypeOK \/ points = 0

\* The subgroup the log is at: one past the chart between two calls.
LogIndex == IF pc = "idle" THEN points ELSE points - 1
Log == INSTANCE AlarmLog WITH index <- LogIndex

\* The engine drives the log as AlarmLog assumes its caller does: every
\* violation is recorded under the position its subgroup has on the chart, at
\* most once for each chart and rule, and expire comes last with that same
\* position, however many calls of add have raised before and wherever they
\* stopped.  What is shown of AlarmLog holds of the engine's log.
DrivesTheLog == Log!Spec

\* The limits come from exactly the first Baseline subgroups, all of one size,
\* and everything plotted later has that size.  A baseline of mixed sizes gives
\* no limits, then or later: the engine stays in its first phase.
LimitsFromBaseline ==
    /\ limits # NoLimits =>
          /\ Len(baseline) = Baseline
          /\ \A i \in DOMAIN baseline : baseline[i] = limits
    /\ (Len(baseline) >= Baseline /\ ~ OneSize(baseline))
          => limits = NoLimits /\ points = 0

\* capability_frame labels row o of the trend with point o + Window - 1.  The
\* label is the chart point the row was computed at, and every later point
\* has a row, for as long as no call of add has raised.
TrendRowsLineUp ==
    (failures = 0 /\ pc = "idle") =>
        /\ Len(trend) = IF points < Window THEN 0 ELSE points - Window + 1
        /\ \A o \in DOMAIN trend : trend[o] = (o - 1) + Window - 1
=============================================================================
