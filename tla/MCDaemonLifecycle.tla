-------------------------- MODULE MCDaemonLifecycle --------------------------
(* Instances of DaemonLifecycle for TLC.                                     *)
EXTENDS DaemonLifecycle, TLC

\* Run IDs and slot entries are interchangeable.
Symmetry == Permutations(RunIDs \ ManualRuns) \cup Permutations(Entries)

\* A bound: a manual run goes along with one registration and one run of its own.
ManualEarly == (reloads < 2 /\ \A r, s \in minted : r = s) \/ \A r \in ManualRuns : pc[r] = "unborn"
=============================================================================
