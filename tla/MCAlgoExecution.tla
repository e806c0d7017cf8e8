--------------------------- MODULE MCAlgoExecution --------------------------
(* Two callers, two orders of three units, each in two children due at once or *)
(* one step apart, cut 1 + 2 and 2 + 1, and a clock of one step.  Both channels *)
(* hold one item, so that both fill up.                                         *)
EXTENDS AlgoExecution

CONSTANTS c1, c2

MCCallers == {c1, c2}
MCQuantities == {3}
MCVisible == {2}
MCSlices == {2}
MCWindows == {1}
MCWeights == {1, 2}
MCPlans == {<<2, 1>>}

=============================================================================
