--------------------------- MODULE MCConsolidator ---------------------------
(* Constants of the model-checking runs of Consolidator.                   *)
EXTENDS Consolidator, TLC

Symmetry == Permutations(Request) \cup Permutations(Path) \cup Permutations(Obj)
=============================================================================
