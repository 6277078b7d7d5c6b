--------------------------- MODULE MC_ExecutionLoop ---------------------------
(* The bounds of the run of ExecutionLoop. *)
EXTENDS ExecutionLoop

CONSTANTS a1, a2

TwoActions == {a1, a2}
OneConsequential == {a1}

LoopSpec == Spec /\ LoopFairness

===============================================================================
