---------------------------- MODULE MCApprovalGate ----------------------------
(* Instances of ApprovalGate for TLC.                                        *)
EXTENDS ApprovalGate, TLC

\* Versions are interchangeable.
Symmetry == Permutations(Versions)
=============================================================================
