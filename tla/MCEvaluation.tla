---------------------------- MODULE MCEvaluation ----------------------------
(* Evaluation for TLC: subgroups of 4, which have no lower limit for ranges, *)
(* and of 9, which have one.                                                 *)
EXTENDS Evaluation

MCRelativeRange == 4 :> [d2 |-> 2059, d3 |-> 8798] @@ 9 :> [d2 |-> 2970, d3 |-> 8078]

\* Flat, off centre, wild.
MCNoise == 4 :> {<<0, 0, 0, 0>>, <<3, -1, 1, 1>>, <<-4, 5, 3, -4>>}
        @@ 9 :> {[k \in 1 .. 9 |-> 1], [k \in 1 .. 9 |-> IF k = 1 THEN 1 ELSE 0],
                 [k \in 1 .. 9 |-> IF k > 5 THEN 4 ELSE -4]}

\* Two-sided, and one-sided.
MCSpecs == {[lsl |-> -6, usl |-> 6], [lsl |-> None, usl |-> 6]}

ASSUME HealthyIsGood
=============================================================================
