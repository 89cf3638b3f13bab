----------------------------- MODULE MCAlarmLog -----------------------------
(* AlarmLog for TLC: rule 1 and rule 2 of the X-bar chart.                  *)
EXTENDS AlarmLog

MCKey == {<<"X-bar", 1>>, <<"X-bar", 2>>}
=============================================================================
