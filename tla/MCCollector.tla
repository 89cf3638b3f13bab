---------------------------- MODULE MCCollector -----------------------------
(* Collector for TLC: subgroups of three parts, one part of warm-up.  The   *)
(* collector never looks at a reading, so one is enough.                    *)
EXTENDS Collector

MCReading == {"diameter"}
=============================================================================
