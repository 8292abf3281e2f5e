----------------------------- MODULE MCTriggers -----------------------------
(* One cron task that is there when the daemon starts again. *)
EXTENDS Triggers

MCVersions == [id \in {"t1"} |-> {[enabled |-> TRUE, cron |-> "c1", hook |-> None, ok |-> TRUE]}]
MCStageOf == [p \in {} |-> None]
=============================================================================
