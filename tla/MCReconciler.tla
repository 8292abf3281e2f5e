----------------------------- MODULE MCReconciler -----------------------------
(* Instances of Reconciler for TLC: a provider and a consumer in one source,   *)
(* and a source that has no task.                                              *)
EXTENDS Reconciler

CONSTANTS p, c, s1, s2

OneSource == [t \in {p, c} |-> s1]
ConsumerNeedsProvider == [t \in {p, c} |-> IF t = c THEN p ELSE NoTask]
=============================================================================
