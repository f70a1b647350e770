------------------------------- MODULE MCBatch -------------------------------
(* Batch for TLC: the children are alike.                                  *)
EXTENDS Batch, TLC

Symmetry == Permutations(Children)

=============================================================================
