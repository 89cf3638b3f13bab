# Verification of real-time-spc-opcua

TLA+ specifications, TLC model checks and TLAPS proofs for the program in
`src/spc_opcua`: a simulated boring machine publishes its measurements over
OPC UA, a client turns them into subgroups, and an SPC engine charts them,
applies the Nelson rules and raises alarms that a dashboard shows to an
operator, who acknowledges them.

## 1. The system

```
 MachineSimulator --Sample--> MachineServer ==OPC UA==> MachineClient
  (+ FaultSchedule)            (asyncua)                 (_enqueue, updates)
                                                             | TagUpdate
                                                             v
   Snapshot <--_refresh-- SPCEngine <--Subgroup-- DataCollector
      |  ^                 | NelsonMonitor x2        (+ SubgroupBuilder)
      |  |                 | XbarRChart, capability
      v  |acknowledge      v
   dashboard ----------> AlarmLog
```

| Part | State | Operations | What is hard | What makes it correct |
|---|---|---|---|---|
| `spc/alarms.py` AlarmLog | list of alarms, dictionary of open positions | record, expire, acknowledge_all, reset | positions outlive appends and clearings; two threads use it | an alarm stands exactly while its rule fires; history is final; no flapping |
| `dashboard/live_source.py` LiveSource | snapshot, lock, thread, stop flag, engine | start, stop, acknowledge_alarms, _pump, _refresh, _run | `engine.add` runs without the lock; every await may raise; stop gives up after a timeout; restart | the operator sees the log as it is; no ended thread is shown as connected, every failure is recorded, a start is lost only on a thread that is ending, every stopped thread ends |
| `spc/engine.py` SPCEngine | baseline, frozen limits, monitored subgroups, two monitors, log, capability trend | add | add may raise half way; three counters must agree | the log is driven in order; limits come from the baseline only |
| `spc/nelson_rules.py` rules, NelsonMonitor | window of 15 points, count, violations | apply_rules, add, reset | bounded window, offsets, boundaries of the zones | streaming equals batch; no contradictory or blind rules |
| `spc/control_charts.py` | frozen limits, points | compute_limits, evaluate, add, zone | a floored lower limit, zero ranges, refusals | limits and rule 1 condemn the same points |
| `spc/capability.py` | none | capability_from_subgroups, rolling_capability, verdict | one-sided limits, zero spread, two ways to the trend | indices tell centring; the kept trend is the recomputed one |
| `pipeline.py` DataCollector, `spc/subgroups.py` | parts, partial subgroup, counters of skipped readings | handle, mark_stoppage, add, discard_partial | opening reading, warm-up, stoppages | each part in one place, subgroups consecutive, missed parts counted (with one too many: see the findings) |
| `opcua_client.py` MachineClient | buffer, latest values, connection | connect, subscribe, _enqueue, updates, disconnect | buffer at its limit, order of tags | nothing vanishes uncounted; latest is latest |
| `opcua_server.py` MachineServer | nodes, pacing deadline | start, publish, run, stop | a sample is written node by node; falling behind | every sample reaches the nodes in order |
| `simulator/machine.py`, `simulator/faults.py` | clocks, counts, held readings, two random generators | step, reset, effects of faults | two generators read in a fixed order, faults that stack, held and stuck readings | a fault changes what it reaches, while it runs, and nothing else; a reset replays |
| `simulator/offline.py`, `evaluation/` | none kept | run_once, part_readings_and_truth, summarise | off-by-one of latencies, a fault that begins on a part boundary | alarms and scrap of a result agree |
| `dashboard/app.py`, `charts.py` | Streamlit session | get_source, drawing | the source is rebuilt when settings change | one live source per session |
| `config.py`, `spc/constants.py`, `distributions.py`, `logging_setup.py` | none | parsing, tables, draws | - | not modelled: sequential and stateless |

The parts interact by calls within a task (collector -> engine -> log), by
queues between tasks (asyncua's queue for each tag, the client's buffer), and
by shared memory between two threads (the alarm log and the snapshot).
`PROJECT.json` lists every component with what is and is not modelled of it,
and the hazards with the line where each bites and the properties that cover it.

## 2. The modules

| Module | Models | Correspondence |
|---|---|---|
| `AlarmConditions` | what an alarm promises, without list or dictionary | abstract specification: conditions that stand, were seen, began and last fired |
| `AlarmLog` | `spc/alarms.py` | `Record` = Raise or Update, `Expire` one call of expire, `AcknowledgeAll`, `Reset`; `alarms` and `open` are `_alarms` and `_open` (positions from 1, 0 = not open) |
| `LiveAlarms` | AlarmLog shared by two threads | EXTENDS AlarmLog; record, expire and acknowledge_all split at the read and the write of an alarm; `bg`, `ui` are the program counters, `lock` and `snapshot` those of LiveSource |
| `Collector` | DataCollector and SubgroupBuilder | `HandleChart`, `HandlePartCount`, `HandleOther` are handle by tag; `MarkStoppage` |
| `Pipeline` | from `step` to `handle` | EXTENDS Collector; `Step`, `WriteTag` (one node write), `Subscribe`, `PublishInterval` (asyncua, external), `Receive`, `Handle` |
| `NelsonRules` | the rules and the monitor | a rule is a predicate on a slice; `Add`, `Reset` of the monitor |
| `Engine` | SPCEngine | one call of add is `AddToBaseline`, or `Refuse`, or `Plot`, `RecordXbar`..., `MonitorR`, `RecordR`..., `Finish`; instantiates AlarmLog once for each counter that indexes it, and refines it |
| `LiveSource` | LiveSource's thread and the page's get_source | one action per await of `_run` (with its `Crash`), `Refresh` and `Pump`, the publisher that may fail, `Start`, `Stop` and its join, `Acknowledge`, `GetSource`; the snapshot names the run each of its parts was made in |
| `ControlCharts` | compute_limits, ControlLimits, evaluate, subgroups_from_values | operators, exact: each chart is scaled by what makes its numbers whole |
| `Capability` | capability_from_subgroups, verdict, rolling_capability | operators; an index is a fraction, infinity is 1/0 |
| `Evaluation` | run_once on a scenario | `Collect` a subgroup of parts, `AddToBaseline`, `Monitor`, `Report`; composes ControlCharts and Capability as the engine does |
| `Simulator` | MachineSimulator and FaultSchedule | `Step` is one call of step with all its draws, `Reset`; `sim` holds the attributes of both objects, its fields `noisePos` and `faultPos` how far their generators have been read; operators on such a record, so that there can be two |
| `Twins` | two simulators with the same seeds | the second, `twinSim`, takes the same operators and has one fault more, anywhere in its schedule; `StepBoth`, `ResetBoth` |

The modules `*Proofs` hold the theorems, each about the modules it extends, and
`FoldTheorems` what two of them need of folds; every `MC*` module only gives constants to the module it extends.

Abstractions, chosen by what the properties tell apart: texts, severities,
timestamps and log lines are left out; a reading is the number of the part it
measures and the error of the sensor; a subgroup is its size (Engine) or its
parts (Collector); sigma distances are whole units, `Sigma` units being one
sigma, so that comparisons are exact; three tags (BoreDiameter, Torque,
PartCount) stand for all. The rules an engine's subgroup breaks are free in
`Engine`, since `NelsonRules` has the rules; `Turn` is the order in which the
engine tries them, that of `self.rules`. Of the text of an exception only
whether it is empty is kept, since that decides what the page shows: the error
of a snapshot is "none", "empty" or "text".

`Simulator` replaces a random generator by a fixed sequence for each seed, and
keeps what the program's claims rest on: which draw takes which element, from
which generator, in which order. Values are whole units and time counts in
samples; `hypot` is rounded up. `Twins` states where two runs may differ. Its
exceptions are part of the result: a fault of the cycle time moves every later
draw, and a gauge fault that draws from the schedule's generator (or keeps
another from drawing) moves the outliers of a schedule that has some, so that
only without outliers a sensor fault leaves every part alone.

Three further choices that a reader should know. A behaviour of `LiveAlarms`
interleaves the two threads at every read and write of an alarm, which is where
the interpreter may switch; one such read or write is atomic in CPython.
`_refresh(full=False)`, which `_pump` also runs, changes nothing of the alarms
and is left out. `asyncua` is modelled from how the program uses it and from its
documented behaviour: unchanged values notify nobody, each tag has a queue of
its newest values, and one publishing interval sends them tag by tag.

## 3. The runs

Passing runs (bounds are constants named `Max*`, and the guards that use them):

| Run | Distinct states | Question and bounds |
|---|---|---|
| `alarm_log` | 172 thousand | two rules, clear after 2, 7 subgroups: long enough for a key to be raised, cleared and raised again with the other one overlapping it |
| `live_alarms` | 87 thousand | two keys, 4 subgroups, 2 clicks: every overlap of an add and an acknowledgement, twice; liveness under weak fairness of both threads |
| `collector` | 707 thousand | subgroups of 3, warm-up of 1, 9 updates in any order with stoppages anywhere: two complete subgroups and a stop in each position |
| `pipeline` | 819 thousand | subgroups of 2, server queue of 2, client buffer of 3, 4 samples: both queues overflow; safety, what `missed_parts` counts, and that it comes to rest under fairness |
| `nelson_rules` | 137 thousand | all eight rules with windows of 1 to 4 points, a monitor window of 4 and series of 6: the window slides twice past its limit |
| `engine` | 201 thousand | three keys, subgroups of two sizes, baseline of 2, capability window of 2, 4 points, 2 calls that raise, anywhere |
| `twins` | 184 thousand | seven faults on three tags, beside five schedules, four pairs of seeds, 9 samples with two to four parts, a reset anywhere: every fault against a machine without it |
| `live_source` | 549 thousand | two sources, one with a server of its own, each started at most twice, 4 calls of the page, an exception, with or without a text, at every await and in the publisher: a restart after a timed-out stop, and a replacement while the old thread still ends |
| `evaluation` | 98 thousand | subgroups of 4 (lower range limit floored) and of 9 (not floored), flat, off-centre and wild parts, one- and two-sided tolerances, 2 baseline and 3 monitored subgroups, healthy, process and sensor runs: everything that can be said of a result, in exact arithmetic |

In `evaluation` healthy parts are within the tolerance, so that a scrapped part
is the work of a fault; the two sizes are the ones for which the factor of the
lower range limit has different signs.

Deadlock is checked in `alarm_log`, `collector` and `nelson_rules`. The other
configurations turn it off because the system may stop: nobody has to click,
produce a part or feed a subgroup, and the bounds end the input.

Runs that find a disagreement between the code and what its text says:

| Run | The text | What the code does |
|---|---|---|
| `quiet_alarm` | an alarm clears after its rule has been quiet (`alarms.py:12-16`) | acknowledge_all writes back an alarm that expire cleared in between; it stays active for ever |
| `sensor_drift` | one BoreDiameter notification is one finished part (`pipeline.py:9-10`) | a drifting gauge notifies on every sample of a held part |
| `fault_in_baseline` | every scenario is healthy for the whole baseline, the fault begins on the first monitored part (`scenarios.py:13`) | part i is completed i cycles after the start, so the last baseline part is completed at `START_S`, when the fault is active |

Two more disagreements are stated exactly by an invariant of a passing run:

| Property (run) | The text | What the code does |
|---|---|---|
| `MissedPartsCountTheOpening` (`pipeline`) | `missed_parts` are "parts the machine says it made that we never received a value for" (`pipeline.py:186`), "part measurements never arrived" (`app.py:396`) | the opening reading of a subscription is received, discarded and not subtracted: when it is a part's, that part counts as missed, and the page shows an error although nothing was lost |
| `FailuresAreRecorded` (`live_source`) | `error: str \| None = None` (`live_source.py:68`): None is no error | an exception without arguments leaves `""` (`live_source.py:237`, `286`), which `if snapshot.error` (`app.py:208`) takes for none: a run that failed looks like one that was stopped |

`StartedRunsOn` tells when a start is lost. `start` does nothing for a thread
that is alive (`live_source.py:175`), so it is lost on a thread which an
exception is about to end, as well as on one that still has to obey a stop
whose join timed out; in every other case a started source has a thread that
runs.

`quiet_alarm` has its cause in `live_source.py:311`, which calls `engine.add`
without the lock. The same overlap can lose a mark: record writes back
(`alarms.py:225`) an alarm it read before acknowledge_all marked it.
`WholeCalls` and the theorems about `AlarmLog` say what holds as long as no
acknowledgement overlaps an add; `EntriesStand` and `PositionsKept` what holds
in any case. None of them says that a mark is kept once calls overlap: it is not.

`TrendRowsLineUp` speaks of an engine none of whose calls has raised. A call that
raises in the capability (`engine.py:238`) leaves a row out, and all later
labels (`engine.py:274`) are then off by one; two hazards say so.

**Fairness.** `LiveAlarms` assumes weak fairness of the rest of an add and of
the rest of an acknowledgement: the operating system runs both threads. Weak is
enough for the lock, because the interface thread holds it only for a bounded
scan and `MaxClicks` bounds the clicks. `Pipeline` assumes weak fairness of the
node writes, the publishing interval, the receive loop and the draining loop,
four tasks of event loops that run until they are cancelled. `LiveSource`
assumes weak fairness of each background thread, whose awaits all end or raise
(the connection has a timeout, the draining loop asks for updates with one, and
asyncio.run cancels what is left), and of the interface thread once it is in a
join, which has a timeout. Nothing is assumed of the operator, the machine, the
arrival of a subscriber, or a publisher that fails.

**Mutants.** Each property of a passing run is broken by a small change of a
definition that models the code; the changed operators stand next to the
definition they change, marked "Mutant".

## 4. The proofs

TLAPS proves, for every value of the constants that satisfies the named
assumptions (which TLC evaluates in the runs), every invariant and every safety
property of the passing runs:

* `AlarmProofs`, first part: the safety properties of `alarm_log` and
  the refinement `Spec => ImplementsConditions`; further, stated in `AlarmLog`
  and proved but checked by no run, its types, that list and dictionary agree
  (`OpenIsActive`), that firings are split between alarms
  (`FiringsInOneAlarm`), that alarms do not flap (`NoFlapping`), that history is
  final and that an acknowledgement stays. The inductive
  invariant `IInv` adds to the type invariant that dictionary and list agree,
  that every alarm's span ends in firings of its key, that the newest alarm of a
  key holds its latest firing, and that alarms of one key are ordered and
  further than `ClearAfter` apart. `StandsWhileFiring` alone is not inductive:
  whether an old firing still counts depends on which alarm it belongs to. The
  number of occurrences is proved with the cardinality theorems.
* `AlarmProofs`, second part: all invariants of `live_alarms`, `PositionsKept`
  and `WholeCalls`, for any number of keys, subgroups and clicks. The
  invariant is about copies: each thread writes back an alarm it read a moment
  ago, and `CopiesFit` says that the copy has the key and the start of the
  position it goes to and is active. The other thread never moves an alarm,
  hence a copy goes on fitting. For the snapshot, the background thread comes to
  rest only by publishing, which needs the lock, so that nothing the interface
  thread has read can be older than the log once the background thread rests.
  `ExactWithoutOverlap` needs a second invariant: `QuietInv` says that before the
  first overlap a copy is not only fit but equal to what the log holds, that no
  key is recorded twice in an add, and that the log satisfies `IInv` of
  the first part, or, between the reads and writes of expire, `ExpiringInv`:
  the same with the alarms still to be cleared allowed for. On it rests
  `WholeCallsCorrect`: until the first overlap the threads implement `AlarmLog`,
  with `record`, `expire` and `acknowledge_all` each one step. The mapping lets
  expire and acknowledge_all take effect when they start: `ToClear` are the
  alarms expire will still clear, and while acknowledge_all scans, all active
  alarms count as marked. Each later write of the call is then a stutter, and
  `SeenBefore` shows that the end of the scan changes nothing any more.
* `EngineProofs`: `EngineTypeOK`, `LimitsFromBaseline`, `TrendRowsLineUp` and
  `DrivesTheLog`, that is `Spec => Log!Spec`: the engine implements `AlarmLog`.
  `CountersInv` says where the three counters stand at each place in `add`.
  With it, and because `AlarmLog` has the same constants under the same
  assumptions, the theorems of `AlarmProofs` speak of the engine's log.
* `PipelineProofs`, first part: all properties of `collector`, its types and the sum of
  its counters. `CollectorIInv` says where part number n is: parts carry their
  positions, the partial subgroup is the tail of the list, subgroups are runs
  that end before it, and everything else was discarded at a stop.
* `PipelineProofs`, second part: all invariants of `pipeline`, for any server queue, client
  buffer and number of samples. `FlowInv` follows the values of a tag along the
  chain from the node to the server's queue, the notifications on the wire, the
  client's buffer and what the collector has handled: at each place they are in
  the order they were written, none twice, and the newest one is still on its
  way or has arrived; for BoreDiameter it also says where each part is and that
  a lost one was counted. Three results carry hypotheses on the constants, each
  the case it speaks of: `RecordedInOrder` that no sensor error varies within a
  part (`sensor_drift` shows what happens then), `EveryPartAccountedFor` that
  the gauge is sound, `MissedPartsCountTheOpening` that the client subscribes
  after the start and skips the opening reading, without a varying error. For the
  last one `ReadingsCounted` says that the readings handled are of as many
  different parts. Further, the
  collector inside the pipeline implements `Collector` when it is allowed as
  many updates as the machine produces, so what the first part proves of it
  holds at the end of the pipeline.
* `NelsonRulesProofs`: all properties of `nelson_rules`, for any windows,
  thresholds and values, and that contradictory rules never fire together.
  `IInv` says that the monitor's window is the tail of
  the series and that what was reported at point i is what the series completes
  at i. A pattern at a point only depends on the slice that ends there
  (`CompletedOfPrefix`, `CompletedOfTail`), which makes the bounded window
  enough. `FlatLineCorrect` needs that windows are no longer than the
  monitor's; the pairs in `OppositesCorrect` carry the conditions on the
  windows under which they exclude each other.
* `LiveSourceProofs`: the five invariants of `live_source`, for any set of
  sources and any number of runs and calls. The invariant ties what the page
  shows to the place of each thread, the flags to the call the interface is in,
  and the runs named on the page to the engine that made them. Of failures it
  says that snapshot and last exception agree from the except clauses on, and
  that a thread on its way out without a stop has raised.
* `EvaluationProofs`: all properties of `evaluation`, for any scenarios, tables
  and measurements. It begins with the arithmetic: rule 1 (the zone "beyond")
  and the control limits condemn the same values on both charts, whatever the
  relative range, the baseline and the value; Cpk is at most Cp, equal exactly
  when the process is centred, and negative exactly when the mean is outside the
  tolerance. What the folds of the charts return (sums of whole numbers are
  whole, a sum of ranges is not negative and zero only without any range, the
  sum of a list with one more element, the least and the greatest measurement)
  is proved from the definition of the fold in the community modules, by taking
  the smallest set of positions on which a claim fails. `RunInv` then relates
  the parts read to the limits of the baseline, the points to what evaluate
  says of their subgroups, the trend to the recomputed one, and the first alarm,
  the count of alarms and the counts of the result to the points.
  `ResultCorrect` has a hypothesis, `HealthyIsGood`: the parts of a run without
  process fault are within the tolerance, which is what makes a scrapped part
  the work of a fault. `MCEvaluation` has TLC evaluate it for the run.
* `TwinsProofs`: the four invariants of `twins`, for any faults, schedules and
  random sequences, and the additional fault at any place of its schedule. What
  a draw or a gauge sees is a fold over the schedule. The two folds are walked
  side by side: alike up to the inserted fault, then apart by what that fault
  did, and related from there on (`TracesStayRelated`). `Untouched` lifts this
  to a step of both machines while the fault does not run, `Level` to one from
  then on, as long as neither parts nor draws are moved: the generators are
  read alike and only tags the fault reaches differ. `Coupled` and `Read` are what
  is left of it between steps: of the counts and true values, which are held
  from part to part, and of what was published last. `ResetReplays` is not inductive: equal samples do not
  make equal machines. `ReplayInv` therefore says that there is a history of
  states of the machine, each the successor of the one before, whose samples
  are the first run, and that the machine is at its place in that history.
* `FoldTheorems`: what the folds of the community modules return, and the least
  element of a set of numbers, from the well-founded induction of the library,
  without an induction theorem (they take an operator as a parameter).

Only model-checked: liveness (`ThreadsFinish`, `ComesToRest`,
`StoppedSourcesEnd`), since reasoning under fairness needs ENABLED, which is left
to TLC, and the three runs that find a disagreement. The theorems about runs
rest on the assumptions in the modules only, apart from the four whose
hypotheses are named above and the two that relate `Pipeline` to `Collector`;
those about the operators of charts and indices state their arguments' types.

## 5. Not modelled

* Command lines, tables, CSV files, drawing, YAML parsing, logging, the
  validation of arguments and the random distributions: sequential code without
  state of its own.
* Real time: the pacing of `MachineServer.run` and of the simulator's clock in
  floating point. Time is the order of steps, or a count of samples.
* Floating point anywhere: `NelsonRules`, `ControlCharts` and `Capability`
  compare exactly. The charts are modelled for the subgroup sizes with a whole
  square root (4, 9, 16, 25), since A2 divides by the root of the size. Of Pp
  and Ppk, the overall indices, only whether the spread is zero is kept.
* `summarise` and `headline` of the evaluation, which reduce finished results
  to means and rates.
* The polling `read` and `read_all` of the client, and the `reset` of the
  charts and of the subgroup builder, which nothing in the source calls.
* What asyncua and Streamlit do inside: modelled from their use, as external.

## 6. Running

```
tlc -config AlarmLog.cfg MCAlarmLog.tla      # likewise for the other runs
tlapm AlarmProofs.tla                        # likewise for the other proofs
```
