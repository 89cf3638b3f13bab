---------------------------- MODULE EngineProofs ----------------------------
(***************************************************************************)
(* Proofs about Engine, for any keys, subgroup sizes, baseline and window. *)
(* CountersInv says where the three counters stand at each place of add,   *)
(* BaselineInv and TrendInv what the limits and the trend were made from.  *)
(* With the counters in step the engine implements AlarmLog, and so all    *)
(* that is proved of AlarmLog holds of the engine's log.                   *)
(***************************************************************************)
EXTENDS Engine, TLAPS

\* The chart counts first, then the X-bar monitor with it, then the R monitor.
CountersInv ==
    /\ pc \in {"idle", "xbar", "r"}
    /\ points \in 0 .. MaxIndex
    /\ pc # "idle" => points > 0
    /\ xbarSeen = points
    /\ rSeen = IF pc = "xbar" THEN points - 1 ELSE points
    /\ todo \subseteq CASE pc = "idle" -> {} [] pc = "xbar" -> XbarKeys [] pc = "r" -> RKeys
    /\ reported \subseteq CASE pc = "idle" -> {} [] pc = "xbar" -> XbarKeys [] pc = "r" -> Key
    /\ reported \cap todo = {}

BaselineInv ==
    /\ baseline \in Seq(Sizes)
    /\ limits \in Sizes \cup {NoLimits}
    /\ limits = NoLimits => /\ pc = "idle" /\ points = 0
                            /\ Len(baseline) < Baseline \/ ~ OneSize(baseline)
    /\ limits # NoLimits => /\ Len(baseline) = Baseline
                            /\ \A i \in DOMAIN baseline : baseline[i] = limits

\* Points that have their row in the trend, or never will.
Assessed == IF pc = "idle" THEN points ELSE points - 1

TrendInv ==
    /\ monitored \in Seq(Sizes) /\ trend \in Seq(Nat)
    /\ failures \in 0 .. MaxFailures
    /\ failures = 0 =>
          /\ Len(monitored) = points
          /\ Len(trend) = IF Assessed < Window THEN 0 ELSE Assessed - Window + 1
          /\ \A o \in DOMAIN trend : trend[o] = (o - 1) + Window - 1

IInv == CountersInv /\ BaselineInv /\ TrendInv

-----------------------------------------------------------------------------
(* The steps *)

LEMMA SizesArePositive == Sizes \subseteq Nat /\ NoLimits \notin Sizes
  BY EngineAssumption DEF NoLimits

LEMMA AddToBaselineInv ==
    ASSUME IInv, NEW size \in Sizes, AddToBaseline(size)
    PROVE  IInv'
  <1>1. CountersInv'
    BY DEF IInv, CountersInv, AddToBaseline, logVars, XbarKeys, RKeys
  <1>2. BaselineInv'
    <2>1. baseline' = Append(baseline, size) /\ baseline \in Seq(Sizes) /\ Baseline \in Nat
      BY EngineAssumption DEF IInv, BaselineInv, AddToBaseline
    <2>2. /\ baseline' \in Seq(Sizes) /\ Len(baseline') = Len(baseline) + 1
          /\ \A i \in DOMAIN baseline : i \in DOMAIN baseline' /\ baseline'[i] = baseline[i]
          /\ baseline'[Len(baseline')] = size /\ Len(baseline') \in DOMAIN baseline'
      BY <2>1
    <2>3. ~ OneSize(baseline) => ~ OneSize(baseline')
      BY <2>2 DEF OneSize
    <2>4. /\ limits = NoLimits /\ pc = "idle" /\ points = 0
          /\ Len(baseline) < Baseline \/ ~ OneSize(baseline)
          /\ UNCHANGED <<pc, points>>
      BY DEF IInv, BaselineInv, AddToBaseline
    <2>5. CASE ~ BaselineIsFull(baseline') /\ UNCHANGED limits
      BY <2>2, <2>4, <2>5, EngineAssumption DEF BaselineInv, BaselineIsFull
    <2>6. CASE BaselineIsFull(baseline') /\ OneSize(baseline') /\ limits' = size
      <3>1. Len(baseline') = Baseline
        BY <2>1, <2>2, <2>3, <2>4, <2>6 DEF BaselineIsFull
      <3>2. \A i \in DOMAIN baseline' : baseline'[i] = size
        BY <2>2, <2>6 DEF OneSize
      <3> QED BY <2>2, <2>6, <3>1, <3>2, SizesArePositive DEF BaselineInv
    <2>7. CASE ~ OneSize(baseline') /\ UNCHANGED limits
      BY <2>2, <2>4, <2>7 DEF BaselineInv
    <2>8. \/ ~ BaselineIsFull(baseline') /\ UNCHANGED limits
          \/ BaselineIsFull(baseline') /\ OneSize(baseline') /\ limits' = size
          \/ ~ OneSize(baseline') /\ UNCHANGED limits
      BY Zenon DEF AddToBaseline
    <2> QED BY <2>5, <2>6, <2>7, <2>8
  <1>3. TrendInv'
    <2>1. UNCHANGED <<pc, monitored, points, trend>>
      BY DEF AddToBaseline
    <2>2. failures' = failures \/ Raises
      BY DEF AddToBaseline
    <2> QED BY <2>1, <2>2, EngineAssumption DEF IInv, TrendInv, Assessed, Raises
  <1> QED BY <1>1, <1>2, <1>3 DEF IInv

LEMMA RefuseInv ==
    ASSUME IInv, NEW size \in Sizes, Refuse(size)
    PROVE  IInv'
  <1>1. CountersInv' /\ BaselineInv'
    BY DEF IInv, CountersInv, BaselineInv, Refuse, logVars, XbarKeys, RKeys, OneSize
  <1>2. TrendInv'
    BY EngineAssumption DEF IInv, TrendInv, Refuse, Assessed, Raises
  <1> QED BY <1>1, <1>2 DEF IInv

LEMMA PlotInv ==
    ASSUME IInv, NEW size \in Sizes, NEW V \in SUBSET XbarKeys, Plot(size, V)
    PROVE  IInv'
  <1>1. CountersInv'
    BY EngineAssumption, SMTT(30) DEF IInv, CountersInv, Plot, logVars, XbarKeys, RKeys
  <1>2. BaselineInv'
    BY DEF IInv, BaselineInv, Plot, OneSize
  <1>3. TrendInv'
    BY EngineAssumption, SMTT(30) DEF IInv, CountersInv, TrendInv, Plot, Assessed
  <1> QED BY <1>1, <1>2, <1>3 DEF IInv

LEMMA RecordInv ==
    ASSUME IInv, NEW k \in Key, RecordXbar(k) \/ RecordR(k)
    PROVE  IInv'
  <1>1. /\ k \in todo /\ todo' = todo \ {k} /\ reported' = reported \cup {k}
        /\ pc \in {"xbar", "r"}
        /\ UNCHANGED <<pc, baseline, limits, monitored, points, xbarSeen, rSeen, trend, failures>>
    BY DEF RecordXbar, RecordR, RecordNext, IsNext, XbarLog!Record, RLog!Record
  <1>2. CountersInv'
    BY <1>1 DEF IInv, CountersInv, XbarKeys, RKeys
  <1>3. BaselineInv' /\ TrendInv'
    BY <1>1 DEF IInv, BaselineInv, TrendInv, OneSize, Assessed
  <1> QED BY <1>2, <1>3 DEF IInv

LEMMA MonitorRInv ==
    ASSUME IInv, NEW V \in SUBSET RKeys, MonitorR(V)
    PROVE  IInv'
  <1>1. CountersInv'
    BY DEF IInv, CountersInv, MonitorR, logVars, XbarKeys, RKeys
  <1>2. BaselineInv' /\ TrendInv'
    BY DEF IInv, BaselineInv, TrendInv, MonitorR, OneSize, Assessed
  <1> QED BY <1>1, <1>2 DEF IInv

\* A row for the point just plotted, once the window is full.
LEMMA FinishInv ==
    ASSUME IInv, Finish
    PROVE  IInv'
  <1>1. /\ pc = "r" /\ pc' = "idle" /\ todo = {} /\ reported' = {}
        /\ UNCHANGED <<baseline, limits, monitored, points, xbarSeen, rSeen, todo>>
    BY DEF Finish, Expire
  <1>2. CountersInv'
    BY <1>1 DEF IInv, CountersInv
  <1>3. BaselineInv'
    BY <1>1 DEF IInv, BaselineInv, OneSize
  <1>4. TrendInv'
    <2>1. /\ points \in Nat \ {0} /\ Assessed = points - 1 /\ Assessed' = points
          /\ Window \in Nat \ {0}
      BY <1>1, EngineAssumption DEF IInv, CountersInv, Assessed
    <2>2. CASE ~ WindowIsFull /\ UNCHANGED <<trend, failures>>
      BY <1>1, <2>1, <2>2 DEF IInv, TrendInv, WindowIsFull
    <2>3. CASE WindowIsFull /\ trend' = Append(trend, points - 1) /\ UNCHANGED failures
      <3>1. trend' \in Seq(Nat) /\ Len(trend') = Len(trend) + 1
        BY <2>1, <2>3 DEF IInv, TrendInv
      <3>2. ASSUME failures = 0
            PROVE  /\ Len(trend') = points - Window + 1 /\ points >= Window
                   /\ \A o \in DOMAIN trend' : trend'[o] = (o - 1) + Window - 1
        <4>1. points >= Window /\ Len(trend) = points - Window
          BY <2>1, <2>3, <3>2 DEF IInv, TrendInv, WindowIsFull
        <4>2. \A o \in DOMAIN trend : trend[o] = (o - 1) + Window - 1
          BY <3>2 DEF IInv, TrendInv
        <4>3. ASSUME NEW o \in DOMAIN trend'
              PROVE  trend'[o] = (o - 1) + Window - 1
          <5>1. CASE o \in DOMAIN trend
            BY <2>1, <2>3, <4>2, <5>1 DEF IInv, TrendInv
          <5>2. CASE o = Len(trend) + 1
            <6>1. trend'[o] = points - 1
              BY <2>3, <5>2 DEF IInv, TrendInv
            <6> QED BY <2>1, <4>1, <5>2, <6>1
          <5>3. o \in DOMAIN trend \/ o = Len(trend) + 1
            BY <2>1, <2>3, <3>1 DEF IInv, TrendInv
          <5> QED BY <5>1, <5>2, <5>3
        <4> QED BY <2>1, <3>1, <4>1, <4>3
      <3> QED BY <1>1, <2>1, <2>3, <3>1, <3>2 DEF IInv, TrendInv
    <2>4. CASE Raises /\ UNCHANGED trend
      BY <1>1, <2>4, EngineAssumption DEF IInv, TrendInv, Raises
    <2>5. \/ ~ WindowIsFull /\ UNCHANGED <<trend, failures>>
          \/ WindowIsFull /\ trend' = Append(trend, points - 1) /\ UNCHANGED failures
          \/ Raises /\ UNCHANGED trend
      BY DEF Finish
    <2> QED BY <2>2, <2>3, <2>4, <2>5
  <1> QED BY <1>2, <1>3, <1>4 DEF IInv

LEMMA InitInv == Init => IInv
  <1> SUFFICES ASSUME Init PROVE IInv
    OBVIOUS
  <1>1. CountersInv
    BY EngineAssumption DEF Init, CountersInv
  <1>2. BaselineInv
    BY EngineAssumption DEF Init, BaselineInv, NoLimits
  <1>3. TrendInv
    BY EngineAssumption DEF Init, TrendInv, Assessed
  <1> QED BY <1>1, <1>2, <1>3 DEF IInv

LEMMA NextInv == IInv /\ [Next]_vars => IInv'
  <1> SUFFICES ASSUME IInv, [Next]_vars PROVE IInv'
    OBVIOUS
  <1>1. CASE \E size \in Sizes : AddToBaseline(size) \/ Refuse(size)
    BY <1>1, AddToBaselineInv, RefuseInv
  <1>2. CASE \E size \in Sizes, V \in SUBSET XbarKeys : Plot(size, V)
    BY <1>2, PlotInv
  <1>3. CASE \E k \in Key : RecordXbar(k) \/ RecordR(k)
    BY <1>3, RecordInv
  <1>4. CASE \E V \in SUBSET RKeys : MonitorR(V)
    BY <1>4, MonitorRInv
  <1>5. CASE Finish
    BY <1>5, FinishInv
  <1>6. CASE UNCHANGED vars
    BY <1>6 DEF vars, logVars, IInv, CountersInv, BaselineInv, TrendInv, OneSize, Assessed
  <1> QED BY <1>1, <1>2, <1>3, <1>4, <1>5, <1>6 DEF Next

\* The strengthening holds in every reachable state.
THEOREM Invariance == Spec => []IInv
  <1> QED BY InitInv, NextInv, PTL DEF Spec

\* The limits come from the first Baseline subgroups, all of one size; mixed
\* sizes give none, ever.
THEOREM LimitsCorrect == Spec => []LimitsFromBaseline
  <1>1. IInv => LimitsFromBaseline
    BY EngineAssumption DEF IInv, BaselineInv, LimitsFromBaseline, OneSize
  <1> QED BY <1>1, Invariance, PTL

\* Without a call that raised, the rows of capability_frame carry the points
\* they were computed at, whatever the window.
THEOREM TrendCorrect == Spec => []TrendRowsLineUp
  <1>1. IInv => TrendRowsLineUp
    BY DEF IInv, TrendInv, TrendRowsLineUp, Assessed
  <1> QED BY <1>1, Invariance, PTL

-----------------------------------------------------------------------------
(* The engine drives the log                                               *)

LEMMA RecordRefines ==
    ASSUME IInv, NEW k \in Key, RecordXbar(k) \/ RecordR(k)
    PROVE  Log!Record(k)
  <1>1. CASE RecordXbar(k)
    <2>1. xbarSeen - 1 = LogIndex /\ LogIndex' = LogIndex
      BY <1>1 DEF RecordXbar, RecordNext, IInv, CountersInv, LogIndex
    <2>2. XbarLog!Record(k)
      BY <1>1 DEF RecordXbar
    <2> QED
      BY <2>1, <2>2 DEF XbarLog!Record, XbarLog!Raise, XbarLog!Update, XbarLog!NewAlarm,
                        XbarLog!Refired, Log!Record, Log!Raise, Log!Update, Log!NewAlarm,
                        Log!Refired
  <1>2. CASE RecordR(k)
    <2>1. rSeen - 1 = LogIndex /\ LogIndex' = LogIndex
      BY <1>2 DEF RecordR, RecordNext, IInv, CountersInv, LogIndex
    <2>2. RLog!Record(k)
      BY <1>2 DEF RecordR
    <2> QED
      BY <2>1, <2>2 DEF RLog!Record, RLog!Raise, RLog!Update, RLog!NewAlarm, RLog!Refired,
                        Log!Record, Log!Raise, Log!Update, Log!NewAlarm, Log!Refired
  <1> QED BY <1>1, <1>2

LEMMA FinishRefines ==
    ASSUME IInv, Finish
    PROVE  Log!Expire
  <1>1. /\ points \in 0 .. MaxIndex /\ points > 0 /\ MaxIndex \in Nat
        /\ LogIndex = points - 1 /\ LogIndex' = points
    BY EngineAssumption DEF IInv, CountersInv, Finish, LogIndex
  <1>2. LogIndex < MaxIndex /\ LogIndex' = LogIndex + 1
    BY <1>1
  <1>3. Expire
    BY DEF Finish
  <1> QED
    BY <1>1, <1>2, <1>3
       DEF Expire, Log!Expire, ChartLog!Cleared, ChartLog!Expiring, ChartLog!QuietFor,
           Log!Cleared, Log!Expiring, Log!QuietFor

LEMMA NextRefines == IInv /\ [Next]_vars => [Log!Next]_Log!vars
  <1> SUFFICES ASSUME IInv, [Next]_vars PROVE [Log!Next]_Log!vars
    OBVIOUS
  <1>1. CASE \E size \in Sizes : AddToBaseline(size) \/ Refuse(size)
    BY <1>1 DEF AddToBaseline, Refuse, logVars, Log!vars, LogIndex
  <1>2. CASE \E size \in Sizes, V \in SUBSET XbarKeys : Plot(size, V)
    BY <1>2 DEF IInv, CountersInv, Plot, logVars, Log!vars, LogIndex
  <1>3. CASE \E k \in Key : RecordXbar(k) \/ RecordR(k)
    BY <1>3, RecordRefines DEF Log!Next
  <1>4. CASE \E V \in SUBSET RKeys : MonitorR(V)
    BY <1>4 DEF MonitorR, logVars, Log!vars, LogIndex
  <1>5. CASE Finish
    BY <1>5, FinishRefines DEF Log!Next
  <1>6. CASE UNCHANGED vars
    BY <1>6 DEF vars, logVars, Log!vars, LogIndex
  <1> QED BY <1>1, <1>2, <1>3, <1>4, <1>5, <1>6 DEF Next

\* Whatever raises and wherever it stops, the engine is a caller AlarmLog is
\* written for: three counters, one index.
THEOREM DrivesCorrect == Spec => DrivesTheLog
  <1>1. Init => Log!Init
    BY DEF Init, Log!Init, LogIndex
  <1> QED
    BY <1>1, NextRefines, Invariance, PTL DEF Spec, DrivesTheLog, Log!Spec

-----------------------------------------------------------------------------
(* The log and the update the call returns                                 *)

Updates(positions) ==
    [raised : SUBSET positions, cleared : SUBSET positions, error : BOOLEAN]

\* The dictionary points into the list, and so does the update.
LogInv ==
    /\ alarms \in Seq(ChartLog!Alarm)
    /\ open \in [Key -> Nat]
    /\ \A k \in Key : open[k] # 0 => open[k] \in DOMAIN alarms
    /\ fired \in [Key -> SUBSET Nat]
    /\ update \in Updates(DOMAIN alarms)

\* A position stays one when the list grows or changes in place.
LEMMA UpdatesGrow ==
    ASSUME NEW S, NEW T, S \subseteq T, NEW u \in Updates(S)
    PROVE  u \in Updates(T)
  BY DEF Updates

LEMMA ReturnedUpdates ==
    ASSUME NEW S, NEW error \in BOOLEAN
    PROVE  Returned(error) \in Updates(S)
  BY DEF Returned, Updates

\* record on the list, for the counter of either monitor.
LEMMA RecordedLog ==
    ASSUME LogInv, NEW k \in Key, NEW n \in Nat, NEW fresh \in ChartLog!Alarm,
           NEW moved,
           open[k] # 0 => moved \in ChartLog!Alarm,
           \/ /\ open[k] = 0
              /\ alarms' = Append(alarms, fresh)
              /\ open' = [open EXCEPT ![k] = Len(alarms) + 1]
           \/ /\ open[k] # 0
              /\ alarms' = [alarms EXCEPT ![open[k]] = moved]
              /\ UNCHANGED open,
           fired' = [fired EXCEPT ![k] = @ \cup {n}],
           update' = [update EXCEPT !.raised = @ \cup {Recorded(k)}]
    PROVE  LogInv'
  <1>1. /\ alarms' \in Seq(ChartLog!Alarm) /\ DOMAIN alarms \subseteq DOMAIN alarms'
        /\ open' \in [Key -> Nat]
        /\ \A j \in Key : open'[j] # 0 => open'[j] \in DOMAIN alarms'
        /\ Recorded(k) \in DOMAIN alarms'
    <2>1. CASE open[k] = 0
      <3>1. /\ alarms' = Append(alarms, fresh)
            /\ open' = [open EXCEPT ![k] = Len(alarms) + 1]
        BY <2>1
      <3>2. /\ alarms' \in Seq(ChartLog!Alarm) /\ Len(alarms) \in Nat
            /\ DOMAIN alarms = 1 .. Len(alarms) /\ DOMAIN alarms' = 1 .. Len(alarms) + 1
        BY <3>1 DEF LogInv
      <3> QED BY <2>1, <3>1, <3>2 DEF LogInv, Recorded
    <2>2. CASE open[k] # 0
      <3>1. alarms' = [alarms EXCEPT ![open[k]] = moved] /\ open' = open
            /\ open[k] \in DOMAIN alarms
        BY <2>2 DEF LogInv
      <3>2. alarms' \in Seq(ChartLog!Alarm) /\ DOMAIN alarms' = DOMAIN alarms
        BY <2>2, <3>1 DEF LogInv
      <3> QED BY <2>2, <3>1, <3>2 DEF LogInv, Recorded
    <2> QED BY <2>1, <2>2
  <1>2. fired' \in [Key -> SUBSET Nat]
    BY DEF LogInv
  <1>3. update' \in Updates(DOMAIN alarms')
    <2>1. update \in Updates(DOMAIN alarms')
      BY <1>1, UpdatesGrow DEF LogInv
    <2> QED BY <1>1, <2>1 DEF Updates
  <1> QED BY <1>1, <1>2, <1>3 DEF LogInv

LEMMA RecordLogInv ==
    ASSUME IInv, LogInv, NEW k \in Key, RecordXbar(k) \/ RecordR(k)
    PROVE  LogInv'
  <1>1. update' = [update EXCEPT !.raised = @ \cup {Recorded(k)}]
    BY Zenon DEF RecordXbar, RecordR, RecordNext
  <1>2. ASSUME NEW n \in Nat
        PROVE  /\ [key |-> k, first_index |-> n, last_index |-> n, occurrences |-> 1,
                   active |-> TRUE, acknowledged |-> FALSE] \in ChartLog!Alarm
               /\ \A a \in ChartLog!Alarm :
                    [a EXCEPT !.last_index = n, !.occurrences = a.occurrences + 1]
                        \in ChartLog!Alarm
    <2>1. ASSUME NEW a \in ChartLog!Alarm
          PROVE  [a EXCEPT !.last_index = n, !.occurrences = a.occurrences + 1]
                     \in ChartLog!Alarm
      <3> DEFINE later == [a EXCEPT !.last_index = n]
      <3>1. later \in ChartLog!Alarm /\ later.occurrences = a.occurrences
        BY <1>2 DEF ChartLog!Alarm
      <3>2. [a EXCEPT !.last_index = n, !.occurrences = a.occurrences + 1]
                = [later EXCEPT !.occurrences = a.occurrences + 1]
        BY Zenon
      <3> HIDE DEF later
      <3>3. [later EXCEPT !.occurrences = a.occurrences + 1] \in ChartLog!Alarm
        BY <3>1 DEF ChartLog!Alarm
      <3> QED BY <3>2, <3>3
    <2> QED BY <1>2, <2>1 DEF ChartLog!Alarm
  <1>3. open[k] # 0 => alarms[open[k]] \in ChartLog!Alarm
    BY DEF LogInv
  <1>4. CASE RecordXbar(k)
    <2>1. xbarSeen - 1 \in Nat
      BY <1>4 DEF RecordXbar, IInv, CountersInv
    <2>2. XbarLog!Record(k)
      BY <1>4 DEF RecordXbar
    <2>3. /\ XbarLog!NewAlarm(k) \in ChartLog!Alarm
          /\ open[k] # 0 => XbarLog!Refired(alarms[open[k]]) \in ChartLog!Alarm
      BY <1>2, <1>3, <2>1 DEF XbarLog!NewAlarm, XbarLog!Refired
    <2>4. /\ \/ /\ open[k] = 0
                /\ alarms' = Append(alarms, XbarLog!NewAlarm(k))
                /\ open' = [open EXCEPT ![k] = Len(alarms) + 1]
             \/ /\ open[k] # 0
                /\ alarms' = [alarms EXCEPT ![open[k]] = XbarLog!Refired(alarms[open[k]])]
                /\ UNCHANGED open
          /\ fired' = [fired EXCEPT ![k] = @ \cup {xbarSeen - 1}]
      BY <2>2, Zenon DEF XbarLog!Record, XbarLog!Raise, XbarLog!Update
    <2> QED BY <1>1, <2>1, <2>3, <2>4, RecordedLog
  <1>5. CASE RecordR(k)
    <2>1. rSeen - 1 \in Nat
      BY <1>5 DEF RecordR, IInv, CountersInv
    <2>2. RLog!Record(k)
      BY <1>5 DEF RecordR
    <2>3. /\ RLog!NewAlarm(k) \in ChartLog!Alarm
          /\ open[k] # 0 => RLog!Refired(alarms[open[k]]) \in ChartLog!Alarm
      BY <1>2, <1>3, <2>1 DEF RLog!NewAlarm, RLog!Refired
    <2>4. /\ \/ /\ open[k] = 0
                /\ alarms' = Append(alarms, RLog!NewAlarm(k))
                /\ open' = [open EXCEPT ![k] = Len(alarms) + 1]
             \/ /\ open[k] # 0
                /\ alarms' = [alarms EXCEPT ![open[k]] = RLog!Refired(alarms[open[k]])]
                /\ UNCHANGED open
          /\ fired' = [fired EXCEPT ![k] = @ \cup {rSeen - 1}]
      BY <2>2, Zenon DEF RLog!Record, RLog!Raise, RLog!Update
    <2> QED BY <1>1, <2>1, <2>3, <2>4, RecordedLog
  <1> QED BY <1>4, <1>5

\* expire empties entries of the dictionary, whose positions the update lists.
LEMMA FinishLogInv ==
    ASSUME LogInv, Finish
    PROVE  LogInv'
  <1> DEFINE quiet == ChartLog!Expiring
             cleared == {open[k] : k \in quiet}
             silenced(i) == [alarms[i] EXCEPT !.active = FALSE]
  <1>1. /\ alarms' = [i \in DOMAIN alarms |->
                        IF \E k \in quiet : open[k] = i THEN silenced(i) ELSE alarms[i]]
        /\ open' = [k \in Key |-> IF k \in quiet THEN 0 ELSE open[k]]
        /\ UNCHANGED fired
    BY Zenon DEF Finish, Expire, ChartLog!Cleared
  <1>2. \A k \in quiet : k \in Key /\ open[k] # 0
    BY DEF ChartLog!Expiring
  <1> HIDE DEF quiet
  <1>3. alarms' \in Seq(ChartLog!Alarm) /\ DOMAIN alarms' = DOMAIN alarms
    <2>1. \A i \in DOMAIN alarms : alarms[i] \in ChartLog!Alarm
      BY DEF LogInv
    <2>2. \A i \in DOMAIN alarms : silenced(i) \in ChartLog!Alarm
      BY <2>1 DEF ChartLog!Alarm
    <2> HIDE DEF silenced
    <2>3. \A i \in DOMAIN alarms : alarms'[i] \in ChartLog!Alarm
      BY <1>1, <2>1, <2>2
    <2>4. DOMAIN alarms' = 1 .. Len(alarms) /\ Len(alarms) \in Nat
      BY <1>1 DEF LogInv
    <2> QED BY <1>1, <2>3, <2>4 DEF LogInv
  <1>4. open' \in [Key -> Nat] /\ \A k \in Key : open'[k] # 0 => open'[k] \in DOMAIN alarms'
    BY <1>1, <1>3 DEF LogInv
  <1>5. update' \in Updates(DOMAIN alarms')
    <2>1. cleared \subseteq DOMAIN alarms
      BY <1>2 DEF LogInv
    <2>2. \/ update' = [update EXCEPT !.cleared = cleared]
          \/ update' = Returned(TRUE)
      BY Zenon DEF Finish, quiet
    <2> HIDE DEF cleared
    <2>3. CASE update' = [update EXCEPT !.cleared = cleared]
      BY <1>3, <2>1, <2>3 DEF LogInv, Updates
    <2>4. CASE update' = Returned(TRUE)
      BY <2>4, ReturnedUpdates
    <2> QED BY <2>2, <2>3, <2>4
  <1> QED BY <1>1, <1>3, <1>4, <1>5 DEF LogInv

LEMMA NextLogInv == IInv /\ LogInv /\ [Next]_vars => LogInv'
  <1> SUFFICES ASSUME IInv, LogInv, [Next]_vars PROVE LogInv'
    OBVIOUS
  <1>1. ASSUME UNCHANGED logVars, NEW error \in BOOLEAN,
               update' = update \/ update' = Returned(error)
        PROVE  LogInv'
    BY <1>1, ReturnedUpdates DEF LogInv, logVars
  <1>2. CASE \E size \in Sizes : AddToBaseline(size) \/ Refuse(size)
    <2>1. /\ UNCHANGED logVars
          /\ update' = Returned(FALSE) \/ update' = Returned(TRUE)
      BY <1>2 DEF AddToBaseline, Refuse
    <2> QED BY <1>1, <2>1
  <1>3. CASE \E size \in Sizes, V \in SUBSET XbarKeys : Plot(size, V)
    BY <1>1, <1>3 DEF Plot
  <1>4. CASE \E k \in Key : RecordXbar(k) \/ RecordR(k)
    BY <1>4, RecordLogInv
  <1>5. CASE \E V \in SUBSET RKeys : MonitorR(V)
    BY <1>1, <1>5 DEF MonitorR
  <1>6. CASE Finish
    BY <1>6, FinishLogInv
  <1>7. CASE UNCHANGED vars
    BY <1>1, <1>7 DEF vars
  <1> QED BY <1>2, <1>3, <1>4, <1>5, <1>6, <1>7 DEF Next

\* The engine keeps its types, and an update, returned or left behind by a call
\* that raised, never names an alarm the log does not hold.
THEOREM EngineTypeCorrect == Spec => []EngineTypeOK
  <1>1. Init => LogInv
    <2> SUFFICES ASSUME Init PROVE LogInv
      OBVIOUS
    <2>1. alarms \in Seq(ChartLog!Alarm)
      BY DEF Init
    <2>2. update \in Updates(DOMAIN alarms)
      BY ReturnedUpdates DEF Init
    <2> QED BY <2>1, <2>2 DEF Init, LogInv
  <1>2. IInv /\ LogInv => EngineTypeOK
    <2> SUFFICES ASSUME IInv, LogInv PROVE EngineTypeOK
      OBVIOUS
    <2>1. reported \subseteq Key /\ todo \subseteq Key
      BY DEF IInv, CountersInv, XbarKeys, RKeys
    <2>2. xbarSeen \in Nat /\ rSeen \in Nat /\ points \in 0 .. MaxIndex
      BY EngineAssumption DEF IInv, CountersInv
    <2>3. ChartLog!TypeOK \/ points = 0
      BY <2>1, <2>2, EngineAssumption DEF LogInv, ChartLog!TypeOK
    <2> QED
      BY <2>1, <2>2, <2>3
         DEF IInv, CountersInv, BaselineInv, TrendInv, LogInv, Updates, EngineTypeOK
  <1> QED BY <1>1, <1>2, NextLogInv, Invariance, PTL DEF Spec
=============================================================================
