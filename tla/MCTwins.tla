------------------------------ MODULE MCTwins ------------------------------
(* Twins for TLC: parts of two to four samples, a bore that one more standard *)
(* deviation than usual makes scrap, and streams that are not periodic within *)
(* a run.  Outliers of torque are always high, the others go either way.      *)
EXTENDS Twins

MCMean == [tag \in Measured |-> CASE tag = "CycleTime" -> 3 [] OTHER -> 10]
MCStdDev == [tag \in Measured |-> 1]
MCWarmUp == [t \in 0 .. MaxSamples |-> IF t < 3 THEN 7 + t ELSE 10]

MCFault(kind, tag, start, end) ==
    [kind |-> kind, tag |-> tag, size |-> IF kind = "ToolWear" THEN -1 ELSE 2,
     both |-> tag # "Torque", start |-> start, end |-> end]

\* Faults that run to the end of the run, and faults that stop before.
MCAdded ==
    {MCFault(kind, tag, w[1], w[2]) : kind \in ProcessFaults \cup SensorFaults,
       tag \in {"BoreDiameter", "Torque", "CycleTime"}, w \in {<<0, MaxSamples>>, <<5, 8>>}}

MCSchedules ==
    {<<>>,
     <<MCFault("Outlier", "BoreDiameter", 0, MaxSamples)>>,
     <<MCFault("Outlier", "CycleTime", 2, MaxSamples)>>,
     <<MCFault("SensorStuck", "Torque", 4, 8)>>,
     <<MCFault("SensorNoise", "Torque", 1, 7), MCFault("ToolWear", "BoreDiameter", 2, 8)>>}

MCStream ==
    [s \in 1 .. 2 |-> [i \in 0 .. 8 * MaxSamples |-> ((((2 * s + 1) * i * i + i + s) % 7) % 3) - 1]]
=============================================================================
