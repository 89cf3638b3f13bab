--------------------------- MODULE MCNelsonRules ---------------------------
EXTENDS NelsonRules

\* Windows shortened in proportion, thresholds and values in half sigmas.
MCValues == {-7, -3, 0, 1, 2, 5, 7}
MCSpan == <<1, 4, 3, 4, 3, 4, 4, 3>>
MCNeeded == [r \in {5, 6} |-> IF r = 5 THEN 2 ELSE 3]
=============================================================================
