---------------------------- MODULE MCLiveAlarms ----------------------------
(* LiveAlarms for TLC: rule 1 of the two charts.                            *)
EXTENDS LiveAlarms

MCKey == {<<"X-bar", 1>>, <<"R", 1>>}
=============================================================================
