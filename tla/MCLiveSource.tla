---------------------------- MODULE MCLiveSource ----------------------------
(* LiveSource for TLC: a source with a server of its own and one that       *)
(* follows an external server, either of which may replace the other.       *)
EXTENDS LiveSource

CONSTANTS s1, s2

MCSource == {s1, s2}
MCServed == {s1}
=============================================================================
