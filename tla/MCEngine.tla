------------------------------ MODULE MCEngine ------------------------------
EXTENDS Engine

\* Two rules of the X-bar chart and one of the R chart.
MCKey == {<<"X-bar", 1>>, <<"X-bar", 2>>, <<"R", 1>>}
MCTwoKeys == {<<"X-bar", 1>>, <<"R", 1>>}

\* The engine was given rule 2 before rule 1.
MCTurn == [rule \in {k[2] : k \in Key} |-> 2 - rule]
=============================================================================
