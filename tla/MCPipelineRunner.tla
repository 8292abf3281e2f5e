-------------------------- MODULE MCPipelineRunner --------------------------
(* Instances of PipelineRunner for TLC.                                      *)
EXTENDS PipelineRunner

InOrder(n) == [s \in 1..n |-> {s - 1} \ {0}]
FanIn == [s \in 1..3 |-> IF s = 3 THEN {1, 2} ELSE {}]
Pipeline(n, needs, parallel, daemon, what, outside, ids) ==
  [size |-> n, needs |-> needs, parallel |-> parallel, daemon |-> daemon, may |-> what,
   outside |-> outside, ids |-> ids]
Daemon(n, what, outside, ids) == Pipeline(n, InOrder(n), FALSE, TRUE, what, outside, ids)

\* A daemon behind one and behind two stages that are fired by hand meanwhile, two
\* stages in order, and two stages side by side with one after both.
Mixed ==
  { Daemon(2, {"kill", "slow", "flip", "refuse"}, 2, 5),
    Daemon(2, {"exit", "suspend"}, 0, 4),
    Daemon(2, {"suspend", "resume", "kill"}, 0, 4),
    Daemon(2, {"stop", "timeout", "kill"}, 1, 4),
    Daemon(3, {}, 1, 6),
    Daemon(3, {"suspend"}, 1, 5),
    Pipeline(2, InOrder(2), FALSE, FALSE, {"kill", "timeout", "refuse", "suspend", "resume", "stop"}, 0, 4),
    Pipeline(3, FanIn, TRUE, FALSE, {"kill", "timeout", "refuse"}, 0, 3),
    Pipeline(2, [s \in 1..2 |-> {}], TRUE, FALSE, {"suspend", "resume", "refuse"}, 0, 4) }
Parallel == {Pipeline(2, [s \in 1..2 |-> {}], TRUE, FALSE, {"timeout"}, 0, 2)}
Exits == {Daemon(2, {"exit"}, 0, 3)}
Stops == {Daemon(1, {"stop"}, 0, 2)}
=============================================================================
