------------------------------- MODULE Twins -------------------------------
(***************************************************************************)
(* Two simulators (simulator/machine.py) with the same seeds side by side. *)
(* The twin's schedule has one fault more.  faults.py says what that may   *)
(* change: "attaching an inactive fault does not shift a single value",    *)
(* "process faults change the part", "sensor faults change only the        *)
(* reading".  The properties say exactly which values may differ, when.    *)
(***************************************************************************)
EXTENDS Simulator

CONSTANTS
    Added,          \* the faults that the twin may have in addition
    MaxResets       \* bound: resets in a behaviour

ASSUME TwinsAssumption == Added \subseteq Fault

VARIABLES
    added,          \* the twin's additional fault
    twinSim,        \* the twin
    twinSample,     \* and the sample that its step returned last
    firstRun,       \* history: the twin's samples since it was built
    resets          \* history: how often the two were reset

twinVars == <<sim, sample, added, twinSim, twinSample, firstRun, resets>>

TwinsInit ==
    /\ Init
    /\ added \in Added
    /\ \E p \in 1 .. Len(sim.faults) + 1 :
         twinSim = Fresh(InsertAt(sim.faults, p, added), sim.seed, sim.faultSeed)
    /\ twinSample = NoSample
    /\ firstRun = <<>>
    /\ resets = 0

StepBoth ==
    /\ Step
    /\ twinSim' = Advanced(twinSim)
    /\ twinSample' = SampleOf(twinSim)
    /\ firstRun' = IF resets = 0 THEN Append(firstRun, twinSample') ELSE firstRun
    /\ UNCHANGED <<added, resets>>

ResetBoth ==
    /\ resets < MaxResets
    /\ Reset
    /\ twinSim' = Rewound(twinSim)
    /\ twinSample' = NoSample
    /\ resets' = resets + 1
    /\ UNCHANGED <<added, firstRun>>

TwinsNext == StepBoth \/ ResetBoth

TwinsSpec == TwinsInit /\ [][TwinsNext]_twinVars

-----------------------------------------------------------------------------
(* Properties *)

\* The counts, clocks and generators of both machines.
TwinsTypeOK == CountsOK(sim, sample) /\ CountsOK(twinSim, twinSample)

\* When the value that a tag shows was measured: the bore and the cycle time
\* with the last part, the other tags with the sample.
MeasuredAt(tag) ==
    IF tag \in PartTags THEN twinSim.nextPart - twinSim.truth["CycleTime"] ELSE twinSample.index

Started == added.start <= twinSample.index

\* The tags whose true values a process fault changes while it runs.
Drives(f, tag) == f.tag = tag \/ (f.tag = "Torque" /\ tag = "Vibration")

\* A fault of the cycle time moves the parts to other samples, and with them
\* every later draw.
MovesParts(f) == f.kind \in ProcessFaults /\ f.tag = "CycleTime"

\* Some fault of the one machine is of this kind and on this tag.
Has(kind, tag) ==
    \E i \in DOMAIN sim.faults : sim.faults[i].kind = kind /\ sim.faults[i].tag = tag

\* A fault that draws, or keeps another from drawing, moves the later draws of
\* the schedule's generator: the other outliers come at other places.
MovesDraws ==
    \/ added.kind \in {"Outlier", "SensorNoise"}
    \/ added.kind = "SensorStuck" /\ Has("SensorNoise", added.tag)
OutliersMoveTruth(tag) ==
    /\ MovesDraws
    /\ \/ Has("Outlier", tag)
       \/ Has("Outlier", "CycleTime")
       \/ tag = "Vibration" /\ Has("Outlier", "Torque")

TruthMayDiffer(tag) ==
    \/ /\ added.kind \in ProcessFaults /\ Drives(added, tag)
       /\ Active(added, MeasuredAt(tag))
       /\ tag \in PartTags => twinSim.parts > 0
    \/ Started /\ (MovesParts(added) \/ OutliersMoveTruth(tag))

\* A true value differs only where a process fault reached it when it was
\* measured: no sensor fault and no fault that is not running changes a part,
\* and a fault that is over leaves no trace.  Parts and scrap likewise.
TruthIsExplained ==
    twinSample.index >= 0 =>
      /\ \A tag \in Measured : sample.truth[tag] # twinSample.truth[tag] => TruthMayDiffer(tag)
      /\ sample.part_index # twinSample.part_index \/ sim.nextPart # twinSim.nextPart
            => Started /\ (MovesParts(added) \/ OutliersMoveTruth("CycleTime"))
      /\ sample.scrap # twinSample.scrap
            => /\ Started
               /\ \/ added.kind \in ProcessFaults /\ added.tag = "BoreDiameter"
                  \/ MovesParts(added) \/ OutliersMoveTruth("BoreDiameter")

\* A reading differs only with the truth, or under a sensor fault of its tag
\* that is running now; a gauge that is stuck or noisy on both machines may
\* also show what the added fault did to it earlier.
ReadingsAreExplained ==
    twinSample.index >= 0 =>
      \A tag \in Measured : sample.values[tag] # twinSample.values[tag] =>
         \/ TruthMayDiffer(tag)
         \/ added.kind \in SensorFaults /\ added.tag = tag /\ Active(added, twinSample.index)
         \/ /\ Started
            /\ Has("SensorStuck", tag) \/ (MovesDraws /\ Has("SensorNoise", tag))

\* reset: the same run again, sample for sample.
ResetReplays ==
    twinSample.index \in 0 .. Len(firstRun) - 1 =>
      twinSample = firstRun[twinSample.index + 1]
=============================================================================
