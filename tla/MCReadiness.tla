---------------------------- MODULE MCReadiness ----------------------------
(* Four rungs, the last one run on the CPU: a step down within an engine,  *)
(* one across engines, and a rung offered after two automatic steps.        *)
EXTENDS Readiness

Ladder == 1 .. 4
CpuRungs == {4}
DownByOne == [m \in Ladder |-> IF m = 4 THEN None ELSE m + 1]
=============================================================================
