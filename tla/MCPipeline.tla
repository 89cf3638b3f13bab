----------------------------- MODULE MCPipeline -----------------------------
(* Pipeline for TLC: subgroups of two parts and queues short enough to       *)
(* overflow.  The readings are those of the parts made, whatever the sensor  *)
(* adds to them.                                                             *)
EXTENDS Pipeline

MCReading == {BoreReading(n, e) : n \in -1 .. MaxSamples, e \in 0 .. MaxSamples}
=============================================================================
