-------------------------- MODULE MCCheckLifecycle --------------------------
(* CheckLifecycle for TLC: the workers and the ids of sync jobs are alike.  *)
EXTENDS CheckLifecycle, TLC

Symmetry == Permutations(Workers) \cup Permutations(SyncIds)

=============================================================================
