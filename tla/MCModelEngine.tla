--------------------------- MODULE MCModelEngine ---------------------------
(* Instances of ModelEngine for TLC. *)
EXTENDS ModelEngine, TLC

Symmetry == Permutations(Calls)
=============================================================================
