----------------------------- MODULE Simulator -----------------------------
(***************************************************************************)
(* simulator/machine.py and simulator/faults.py: the boring station, one   *)
(* sample per step, with a schedule of faults.                             *)
(*                                                                         *)
(* Both random generators are sequences that their seed fixes: the machine *)
(* draws from Stream[seed], the schedule from Stream[faultSeed], and all a *)
(* generator keeps is how far it has been read.  Time counts in samples,   *)
(* measurements and standard deviations in whole units.  The attributes of *)
(* the simulator and of its schedule are the fields of sim.                *)
(***************************************************************************)
EXTENDS Integers, Sequences, SequencesExt

CONSTANTS
    Mean,           \* the nominal value of a tag
    StdDev,         \* its standard deviation
    VibrationStd,   \* the part of vibration's that torque does not explain
    Coupling,       \* vibration per unit of torque above nominal
    WarmUp,         \* the spindle temperature expected at each time
    Lsl, Usl,       \* the specification limits of the bore
    Stream,         \* what the generator of each seed yields (make_rng)
    MinCycle,       \* the shortest time a part can take (0.1 s: one sample)
    MaxSamples,     \* bound: samples produced
    Schedules       \* the schedules a machine may have

SampledTags == {"Torque", "Temperature", "Vibration"}
PartTags == {"BoreDiameter", "CycleTime"}
Measured == SampledTags \cup PartTags

ProcessFaults == {"ToolWear", "MeanShift", "Outlier", "VarianceInflation"}
SensorFaults == {"SensorDrift", "SensorStuck", "SensorNoise"}

\* What __post_init__ lets pass; a fault without an end runs to the last sample.
\* both is the both_directions of an outlier.
Fault ==
    {f \in [kind : ProcessFaults \cup SensorFaults, tag : Measured, size : Int,
             both : BOOLEAN, start : Nat, end : Nat] :
        f.start < f.end /\ (f.kind = "VarianceInflation" => f.size > 0)}

\* The spread of what opens a run is positive, so that reset draws twice; that
\* of vibration may be explained by torque completely (split_variance).  A run
\* draws at most five values a sample.
ASSUME SimulatorAssumption ==
    /\ Mean \in [Measured -> Int] /\ StdDev \in [Measured -> Nat \ {0}]
    /\ VibrationStd \in Nat /\ Coupling \in Int
    /\ WarmUp \in [0 .. MaxSamples -> Int]
    /\ Lsl \in Int /\ Usl \in Int /\ MinCycle \in Nat \ {0} /\ MaxSamples \in Nat
    /\ \A s \in DOMAIN Stream : \A i \in 0 .. 1 + 5 * MaxSamples : Stream[s][i] \in Int
    /\ Schedules \subseteq Seq(Fault)

VARIABLES
    sim,            \* the simulator
    sample          \* the sample that step returned last

-----------------------------------------------------------------------------
(* Faults *)

\* is_active: from start to just before end.
Active(f, t) == f.start <= t /\ t < f.end

\* _by_tag and is_active: a fault reaches the draws of its tag while it runs.
Reaches(f, s, tag) == f.tag = tag /\ Active(f, s.t)

\* random() < p: the lower values of the generator.
Low(value) == value < 0

\* Outlier: one draw for whether, and if so, in both directions, one for which.
Spike(e, f, draws) ==
    LET size == f.size * StdDev[f.tag]
    IN  IF ~ Low(draws[e.faultPos]) THEN [e EXCEPT !.faultPos = @ + 1]
        ELSE IF ~ f.both THEN [e EXCEPT !.faultPos = @ + 1, !.spike = @ + size]
        ELSE [e EXCEPT !.faultPos = @ + 2,
                       !.spike = @ + (IF Low(draws[e.faultPos + 1]) THEN -size ELSE size)]

\* Mutant: an outlier is drawn first, then the window is looked at.
ProcessDrawingEarly(e, f, s, tag) ==
    IF ~ Reaches(f, s, tag)
    THEN IF f.kind = "Outlier" /\ f.tag = tag THEN [e EXCEPT !.faultPos = @ + 1] ELSE e
    ELSE CASE f.kind = "ToolWear"          -> [e EXCEPT !.offset = @ + f.size * (s.t - f.start)]
           [] f.kind = "MeanShift"         -> [e EXCEPT !.offset = @ + f.size * StdDev[f.tag]]
           [] f.kind = "VarianceInflation" -> [e EXCEPT !.spread = @ * f.size]
           [] f.kind = "Outlier"           -> Spike(e, f, Stream[s.faultSeed])
           [] f.kind \in SensorFaults      -> e

\* process_effect of one fault, stacked on the effect e of those before it.
Process(e, f, s, tag) ==
    IF ~ Reaches(f, s, tag) THEN e
    ELSE CASE f.kind = "ToolWear"          -> [e EXCEPT !.offset = @ + f.size * (s.t - f.start)]
           [] f.kind = "MeanShift"         -> [e EXCEPT !.offset = @ + f.size * StdDev[f.tag]]
           [] f.kind = "VarianceInflation" -> [e EXCEPT !.spread = @ * f.size]
           [] f.kind = "Outlier"           -> Spike(e, f, Stream[s.faultSeed])
           [] f.kind \in SensorFaults      -> e

ProcessEffect(s, tag) ==
    FoldLeft(LAMBDA e, f : Process(e, f, s, tag),
             [offset |-> 0, spread |-> 1, spike |-> 0, faultPos |-> s.faultPos], s.faults)

\* np.hypot, rounded up to a whole unit.
Hypot(a, b) == CHOOSE n \in 0 .. a * a + b * b :
                   n * n >= a * a + b * b /\ (n = 0 \/ (n - 1) * (n - 1) < a * a + b * b)

\* Mutant: a sensor fault that has started never ends.
SensorForGood(e, f, s, tag) ==
    IF f.tag # tag \/ s.t < f.start THEN e
    ELSE CASE f.kind = "SensorDrift"    -> [e EXCEPT !.offset = @ + f.size * (s.t - f.start)]
           [] f.kind = "SensorStuck"    -> [e EXCEPT !.frozen = TRUE]
           [] f.kind = "SensorNoise"    -> [e EXCEPT !.extra = Hypot(@, f.size * StdDev[f.tag])]
           [] f.kind \in ProcessFaults -> e

\* sensor_effect of one fault, stacked on the effect e of those before it.
Sensor(e, f, s, tag) ==
    IF ~ Reaches(f, s, tag) THEN e
    ELSE CASE f.kind = "SensorDrift"    -> [e EXCEPT !.offset = @ + f.size * (s.t - f.start)]
           [] f.kind = "SensorStuck"    -> [e EXCEPT !.frozen = TRUE]
           [] f.kind = "SensorNoise"    -> [e EXCEPT !.extra = Hypot(@, f.size * StdDev[f.tag])]
           [] f.kind \in ProcessFaults -> e

SensorEffect(s, tag) ==
    FoldLeft(LAMBDA e, f : Sensor(e, f, s, tag),
             [offset |-> 0, extra |-> 0, frozen |-> FALSE], s.faults)

-----------------------------------------------------------------------------
(* The machine *)

\* The healthy centre of a draw: the spindle warms up, and the true torque
\* drives the vibration.
Centre(s, tag) ==
    CASE tag = "Temperature" -> WarmUp[s.t]
      [] tag = "Vibration"   -> Mean["Vibration"] + Coupling * (s.truth["Torque"] - Mean["Torque"])
      [] tag \in PartTags \cup {"Torque"} -> Mean[tag]

Spread(tag) == IF tag = "Vibration" THEN VibrationStd ELSE StdDev[tag]

\* A part takes some time, whatever was drawn.
Floored(tag, value) == IF tag = "CycleTime" /\ value < MinCycle THEN MinCycle ELSE value

\* What _draw returns under effect e, by the next value of the generator.
Value(s, tag, e) ==
    Centre(s, tag) + e.offset + Spread(tag) * e.spread * Stream[s.seed][s.noisePos] + e.spike

\* Mutant: a part may take no time at all.
DrawUnfloored(s, tag) ==
    LET e == ProcessEffect(s, tag)
    IN  [s EXCEPT !.faultPos = e.faultPos,
                  !.noisePos = IF Spread(tag) * e.spread > 0 THEN @ + 1 ELSE @,
                  !.truth = [@ EXCEPT ![tag] = Value(s, tag, e)]]

\* _draw and normal: a true value; without a spread nothing is drawn.
Draw(s, tag) ==
    LET e == ProcessEffect(s, tag)
    IN  [s EXCEPT !.faultPos = e.faultPos,
                  !.noisePos = IF Spread(tag) * e.spread > 0 THEN @ + 1 ELSE @,
                  !.truth = [@ EXCEPT ![tag] = Floored(tag, Value(s, tag, e))]]

\* The part in the machine is finished at or after its time.
Due(s) == s.t >= s.nextPart

\* Every sample draws three tags, in this order; a part that is due, two more.
DrawSample(s) == Draw(Draw(Draw(s, "Torque"), "Temperature"), "Vibration")
DrawPart(s) == Draw(Draw(s, "BoreDiameter"), "CycleTime")

IsScrap(bore) == bore < Lsl \/ bore > Usl

\* The bore and the cycle time drawn are those of the finished part, and the
\* next one will take as long as this one is said to have taken.
CompletePart(s) ==
    [s EXCEPT !.parts = @ + 1,
              !.nextPart = s.t + s.truth["CycleTime"],
              !.scrap = IF IsScrap(s.truth["BoreDiameter"]) THEN @ + 1 ELSE @]

Reported(s, tag, value) ==
    [t \in DOMAIN s.published \cup {tag} |-> IF t = tag THEN value ELSE s.published[t]]

\* The extra noise of the gauge is drawn only if the sensor works.
Noisy(e) == ~ e.frozen /\ e.extra > 0

\* What the sensor reports under error e: the truth, with the error of the
\* calibration and the extra noise; a stuck one what it reported last, if it has.
Reading(s, tag, e) ==
    IF e.frozen
    THEN IF tag \in DOMAIN s.published THEN s.published[tag] ELSE s.truth[tag]
    ELSE s.truth[tag] + e.offset
         + (IF Noisy(e) THEN e.extra * Stream[s.faultSeed][s.faultPos] ELSE 0)

\* _publish: the reading is kept, for a sensor that gets stuck later.
Publish(s, tag) ==
    LET e == SensorEffect(s, tag)
    IN  [s EXCEPT !.published = Reported(s, tag, Reading(s, tag, e)),
                  !.faultPos = IF Noisy(e) THEN @ + 1 ELSE @]

PublishAll(s) ==
    Publish(Publish(Publish(Publish(Publish(s, "BoreDiameter"), "Torque"), "CycleTime"),
                    "Temperature"), "Vibration")

\* step: draw, finish the part that is due, publish.
Stepped(s) ==
    LET drawn == DrawSample(s)
    IN  PublishAll(IF Due(s) THEN CompletePart(DrawPart(drawn)) ELSE drawn)

Advanced(s) == LET made == Stepped(s) IN [made EXCEPT !.t = @ + 1]

SampleOf(s) ==
    LET made == Stepped(s)
    IN  [index |-> s.t, values |-> made.published, truth |-> made.truth,
         part_completed |-> made.parts > s.parts,
         part_index |-> made.parts, scrap |-> made.scrap,
         active_faults |-> SelectSeq(s.faults, LAMBDA f : Active(f, s.t))]

\* The state at time zero, with both generators at their beginning: an opening
\* bore and cycle time, which no fault touches; the other truths come with the
\* first sample.
Fresh(faults, seed, faultSeed) ==
    LET noise == Stream[seed]
        cycle == Mean["CycleTime"] + StdDev["CycleTime"] * noise[1]
    IN  [faults |-> faults, seed |-> seed, faultSeed |-> faultSeed,
         t |-> 0, parts |-> 0, scrap |-> 0, noisePos |-> 2, faultPos |-> 0,
         nextPart |-> cycle,
         published |-> <<>>,
         truth |-> [tag \in Measured |->
                      CASE tag = "BoreDiameter" ->
                             Mean["BoreDiameter"] + StdDev["BoreDiameter"] * noise[0]
                        [] tag = "CycleTime" -> cycle
                        [] tag \in SampledTags -> 0]]

\* Mutant: the schedule's generator goes on where it is.
RewoundMachineOnly(s) ==
    [Fresh(s.faults, s.seed, s.faultSeed) EXCEPT !.faultPos = s.faultPos]

\* reset keeps the schedule and the seeds, and nothing else.
Rewound(s) == Fresh(s.faults, s.seed, s.faultSeed)

NoSample == [index |-> -1, active_faults |-> <<>>]

Init ==
    /\ \E faults \in Schedules, seed, faultSeed \in DOMAIN Stream :
         sim = Fresh(faults, seed, faultSeed)
    /\ sample = NoSample

Step ==
    /\ sim.t < MaxSamples
    /\ sim' = Advanced(sim)
    /\ sample' = SampleOf(sim)

Reset ==
    /\ sim' = Rewound(sim)
    /\ sample' = NoSample

-----------------------------------------------------------------------------
(* Properties *)

\* The counts, the clock of the parts, and how far the machine's generator has
\* been read: by every sample and every part alike, whatever the faults are.
CountsOK(s, out) ==
    /\ s.t \in 0 .. MaxSamples /\ out.index = s.t - 1
    /\ s.parts \in 0 .. s.t /\ s.scrap \in 0 .. s.parts
    /\ s.parts > 0 => s.nextPart >= s.t
    /\ s.noisePos = 2 + 2 * s.parts + (IF VibrationStd > 0 THEN 3 ELSE 2) * s.t
    /\ DOMAIN s.published = IF s.t = 0 THEN {} ELSE Measured
=============================================================================
