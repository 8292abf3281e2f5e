--------------------------- MODULE MCRunLifecycle ---------------------------
(***************************************************************************)
(* Task graphs on which RunLifecycle is checked.                           *)
(***************************************************************************)
EXTENDS RunLifecycle

CONSTANTS a, b, c

NoEdges == {}
\* On any end of b, a follows; a and b fail to each other: a loop over both kinds.
LoopEdges == {[from |-> b, to |-> a, on |-> "always"]}
LoopFail == [t \in Tasks |-> IF t = a THEN b ELSE a]
NoFail == [t \in Tasks |-> NoTask]
OneScope == [t \in Tasks |-> a]
Own == [t \in Tasks |-> t]
None == [t \in Tasks |-> {}]
ACallsB == [t \in Tasks |-> IF t = a THEN {b} ELSE {}]
BNeedsC == [t \in Tasks |-> IF t = b THEN {c} ELSE {}]
=============================================================================
