-------------------------- MODULE RunLifecycleProofs -------------------------
(***************************************************************************)
(* Proofs about RunLifecycle, for any run IDs, tasks, chain graph, limits  *)
(* and scenario: the failure-chain counters are the slots that are held,   *)
(* runs that left leave nothing behind, final rows stay, chains follow     *)
(* runs that ended, hops are bounded where no deadline sweep runs, and a   *)
(* waiter sees the end of the run it waits for.                            *)
(***************************************************************************)
EXTENDS RunLifecycle, Integers, FiniteSetTheorems, FunctionTheorems, TLAPS

-----------------------------------------------------------------------------
(* The inductive invariant.  Each part is inductive relative to the parts    *)
(* before it.                                                              *)

\* TypeOK apart from wg, which is a natural number because it counts runs.
Types ==
  /\ may \in Scenarios
  /\ run \in [RunIDs -> RunType]
  /\ pc \in [RunIDs -> PCs]
  /\ row \in [RunIDs -> Statuses]
  /\ carry \in [RunIDs -> Nat] /\ chains \in [RunIDs -> BOOLEAN]
  /\ kid \in [RunIDs -> RunIDs \cup {NoRun}]
  /\ registered \subseteq RunIDs /\ open \subseteq RunIDs /\ cancelled \subseteq RunIDs
  /\ probed \in [RunIDs -> Nat] /\ swept \subseteq RunIDs
  /\ holding \subseteq RunIDs /\ wg \in Int
  /\ phase \in {"up", "stopping", "latched"}
  /\ inFlight \in [Tasks -> Nat] /\ inFlightGlobal \in Nat
  /\ cooling \subseteq Tasks /\ stormy \subseteq Tasks
  /\ fires \in [Tasks -> Nat]
  /\ wpc \in [Waiting -> {"idle", "opening", "load", "block", "read", "done"}]
  /\ wrun \in [Waiting -> RunIDs \cup {NoRun}]
  /\ wres \in [Waiting -> Statuses \cup {"ctx", "refused"}]

\* The row, the maps and the slots of a run go with its goroutine.
Places ==
  \A r \in RunIDs :
    /\ pc[r] \in {"none", "fired", "reserved", "refused"} => row[r] = "none"
    /\ pc[r] \in {"inserted"} \cup Body => row[r] = "running"
    /\ pc[r] \in Ending \cup {"leave"} => row[r] \notin {"none", "running"}
    /\ pc[r] = "gone" => row[r] # "running"
    /\ r \in registered <=> pc[r] \in Body \cup Ending
    /\ r \in open <=> pc[r] \in Body \cup {"finish"}
    /\ r \in holding => pc[r] \notin {"none", "fired", "refused", "gone"}

\* What a run was fired with is there from the fire on.
Names ==
  \A r \in RunIDs :
    /\ pc[r] = "none" => run[r] = Blank
    /\ pc[r] # "none" => run[r].task \in Tasks /\ run[r].source # "none"

\* Runs that fire chains have ended, and those past the guards of the failure chain
\* still meet them.
Outcomes ==
  \A r \in RunIDs :
    /\ pc[r] = "finish" /\ chains[r] => row[r] \in {"success", "failure", "cancelled"}
    /\ pc[r] \in {"chain", "check", "acquire", "resolve", "firing"} =>
         row[r] \in {"success", "failure", "cancelled"}
    /\ pc[r] \in {"check", "acquire", "resolve", "firing"} => FailureChainApplies(r)
    /\ r \in swept => row[r] = "cancelled"

\* A failure-chain run and the goroutine that is opening it know each other.
Kids ==
  \A r \in RunIDs :
    /\ pc[r] = "firing" => /\ kid[r] \in RunIDs /\ pc[kid[r]] # "none"
                           /\ run[kid[r]].parent = r /\ run[kid[r]].slot = Task(r)
    /\ run[r].slot # NoTask => /\ run[r].parent \in RunIDs
                               /\ run[r].task = FailTo[run[r].slot]
                               /\ run[r].task # run[r].slot
                               /\ run[r].source = "chain"
    /\ run[r].slot # NoTask /\ pc[r] \in Opening =>
         pc[run[r].parent] = "firing" /\ kid[run[r].parent] = r

\* Chains and continuations follow a run.
Parents ==
  /\ \A r \in RunIDs : run[r].source \in {"chain", "resume"} => run[r].parent \in RunIDs
  /\ ChainsFollowTheEnd

\* A resumed run has the continuation, and no other run has one.
Continues ==
  /\ \A r \in RunIDs : run[r].source = "resume" => row[run[r].parent] = "resumed"
  /\ \A r1, r2 \in RunIDs :
       run[r1].source = "resume" /\ run[r2].source = "resume" /\ run[r1].parent = run[r2].parent
         => r1 = r2

\* The failure-chain slots that are held, one for each run and task.
Tickets == {x \in RunIDs \X Tasks : x[1] \in ChainHolders(x[2])}
Writing == {r \in RunIDs : pc[r] \in {"reserved", "inserted", "leave"} \cup Body \cup Ending}

WgExact == wg = Cardinality(Writing)
Counts ==
  /\ WgExact
  /\ ChainSlotsExact

\* Without the deadline sweep the recorded depth is the number of hops, also over a
\* suspension.
Depths ==
  "sweep" \notin may =>
    /\ swept = {}
    /\ \A r \in RunIDs : run[r].hops = run[r].depth
    /\ \A r \in RunIDs : row[r] = "suspended" => carry[r] = run[r].depth
    /\ HopsBounded

\* What a waiting goroutine knows of the run it waits for.
Knows(w) ==
  /\ w \in RunIDs /\ wpc[w] # "idle" => pc[w] \in {"preflight", "executing"}
  /\ wpc[w] \in {"opening", "load", "block", "read"} =>
       wrun[w] \in RunIDs /\ pc[wrun[w]] # "none"
  /\ wpc[w] = "opening" /\ pc[wrun[w]] = "gone" => row[wrun[w]] # "none"
  /\ wpc[w] \in {"load", "block", "read"} =>
       row[wrun[w]] # "none" /\ (Settled(w) => pc[wrun[w]] # "inserted")
  /\ wpc[w] = "read" /\ Settled(w) => wrun[w] \notin open
  /\ wpc[w] = "done" /\ wres[w] \notin {"ctx", "refused"} =>
       IF Settled(w) THEN wres[w] \in Terminal \cup {"suspended"}
       ELSE /\ wres[w] \in Terminal /\ wrun[w] \in RunIDs /\ row[wrun[w]] = wres[w]
            /\ wres[w] = "resumed" =>
                 \A q \in RunIDs : run[q].parent = wrun[w] /\ run[q].source = "resume" =>
                   pc[q] \notin Opening /\ row[q] = "none"
Waits == \A w \in Waiting : Knows(w)

IInv == Types /\ Places /\ Names /\ Outcomes /\ Kids /\ Parents /\ Continues /\ Counts /\ Depths
        /\ Waits

-----------------------------------------------------------------------------
(* Fires: a new run takes an ID that no run used.                          *)

LEMMA FreshID == Fresh # {} => NewID \in RunIDs /\ pc[NewID] = "none"
  BY DEF Fresh, NewID

LEMMA PlacementIsInjective ==
  ASSUME NEW opts, IsFiniteSet(opts), Cardinality(opts) <= Cardinality(Fresh)
  PROVE  /\ Placement(opts) \in [opts -> Fresh]
         /\ \A a, b \in opts : Placement(opts)[a] = Placement(opts)[b] => a = b
<1> DEFINE n == Cardinality(opts)
           m == Cardinality(Fresh)
<1>1. IsFiniteSet(Fresh)
  BY RunAssumption, FS_Subset DEF Fresh
<1>2. n \in Nat /\ m \in Nat /\ n <= m
  BY <1>1, FS_CardinalityType
<1>3. PICK f \in Bijection(1..n, opts) : TRUE
  BY FS_CardinalityType, Fun_ExistsBij
<1>4. PICK g \in Bijection(1..m, Fresh) : TRUE
  BY <1>1, FS_CardinalityType, Fun_ExistsBij
<1>8. 1..n \subseteq 1..m
  BY <1>2
<1> HIDE DEF n, m
<1>5. /\ f \in [1..n -> opts]
      /\ \A o \in opts : \E i \in 1..n : f[i] = o
  BY <1>3 DEF Bijection, Surjection
<1>6. /\ g \in [1..m -> Fresh]
      /\ \A i, j \in 1..m : g[i] = g[j] => i = j
  <2>1. g \in Injection(1..m, Fresh)
    BY <1>4, Fun_BijectionProperties
  <2> QED
    BY <2>1, Fun_InjectionProperties
<1> DEFINE no(o) == CHOOSE i \in 1..n : f[i] = o
           h == [o \in opts |-> g[no(o)]]
<1>7. \A o \in opts : no(o) \in 1..n /\ f[no(o)] = o
  BY <1>5
<1> HIDE DEF no
<1>9. h \in [opts -> Fresh]
  BY <1>6, <1>7, <1>8
<1>10. \A a, b \in opts : h[a] = h[b] => a = b
  BY <1>6, <1>7, <1>8
<1> HIDE DEF h
<1> QED
  BY <1>9, <1>10 DEF Placement

\* FireAll puts each fire on an ID of its own and leaves the other runs alone.
LEMMA FireAllFires ==
  ASSUME NEW p, NEW opts, IsFiniteSet(opts), FireAll(p, opts)
  PROVE  \E new \in SUBSET RunIDs :
           /\ \A r \in new : pc[r] = "none" /\ run'[r] \in opts /\ pc'[r] = "fired"
           /\ \A r \in RunIDs \ new : run'[r] = run[r] /\ pc'[r] = p[r]
           /\ DOMAIN run' = RunIDs /\ DOMAIN pc' = RunIDs
           /\ run' = [r \in RunIDs |-> run'[r]] /\ pc' = [r \in RunIDs |-> pc'[r]]
<1> DEFINE at == Placement(opts)
           new == {at[o] : o \in opts}
           optsOf(r) == CHOOSE o \in opts : at[o] = r
<1>1. Cardinality(opts) <= Cardinality(Fresh)
  BY DEF FireAll
<1>2. /\ run' = [r \in RunIDs |-> IF r \in new THEN optsOf(r) ELSE run[r]]
      /\ pc' = [r \in RunIDs |-> IF r \in new THEN "fired" ELSE p[r]]
  BY DEF FireAll
<1>3. at \in [opts -> Fresh]
  BY <1>1, PlacementIsInjective
<1>4. new \in SUBSET RunIDs /\ \A r \in new : pc[r] = "none"
  BY <1>3 DEF Fresh
<1>5. \A r \in new : optsOf(r) \in opts
  BY <1>3
<1> HIDE DEF at, new, optsOf
<1>6. \A r \in new : pc[r] = "none" /\ run'[r] \in opts /\ pc'[r] = "fired"
  BY <1>2, <1>4, <1>5
<1>7. \A r \in RunIDs \ new : run'[r] = run[r] /\ pc'[r] = p[r]
  BY <1>2
<1>8. DOMAIN run' = RunIDs /\ DOMAIN pc' = RunIDs
  BY <1>2
<1>9. run' = [r \in RunIDs |-> run'[r]] /\ pc' = [r \in RunIDs |-> pc'[r]]
  BY <1>2
<1> QED
  BY <1>4, <1>6, <1>7, <1>8, <1>9

\* A task has finitely many chain edges.
LEMMA EdgesAreFinite ==
  ASSUME NEW r, NEW status, NEW opts \in SUBSET EdgeFires(r, status)
  PROVE  IsFiniteSet(opts)
<1> DEFINE M == Matching(Task(r), status)
           f == [e \in M |-> Options(e.to, "chain", r, ChainDepth(r) + 1, NoTask, run[r].hops + 1)]
           all == {Options(e.to, "chain", r, ChainDepth(r) + 1, NoTask, run[r].hops + 1) : e \in M}
<1>1. IsFiniteSet(M)
  BY RunAssumption, FS_Subset DEF Matching
<1>2. IsFiniteSet(all)
  <2>1. f \in Surjection(M, all)
    BY Fun_IsSurj
  <2> QED
    BY <1>1, <2>1, FS_Surjection
<1>3. EdgeFires(r, status) \subseteq all
  BY DEF EdgeFires
<1> QED
  BY <1>2, <1>3, FS_Subset

-----------------------------------------------------------------------------
(* Types *)

LEMMA FireOneTypes ==
  ASSUME Types, NEW p \in [RunIDs -> PCs], NEW o \in RunType, FireOne(p, o)
  PROVE  /\ NewID \in RunIDs
         /\ run' \in [RunIDs -> RunType] /\ pc' \in [RunIDs -> PCs]
<1>1. NewID \in RunIDs
  BY FreshID DEF FireOne
<1>2. "fired" \in PCs
  BY DEF PCs, Opening
<1> QED
  BY <1>1, <1>2 DEF FireOne, Types

LEMMA FireAllTypes ==
  ASSUME Types, NEW p \in [RunIDs -> PCs], NEW opts \in SUBSET RunType, IsFiniteSet(opts),
         FireAll(p, opts)
  PROVE  run' \in [RunIDs -> RunType] /\ pc' \in [RunIDs -> PCs]
<1>1. PICK new \in SUBSET RunIDs :
        /\ \A r \in new : pc[r] = "none" /\ run'[r] \in opts /\ pc'[r] = "fired"
        /\ \A r \in RunIDs \ new : run'[r] = run[r] /\ pc'[r] = p[r]
        /\ run' = [r \in RunIDs |-> run'[r]] /\ pc' = [r \in RunIDs |-> pc'[r]]
  BY FireAllFires
<1>2. "fired" \in PCs
  BY DEF PCs, Opening
<1>3. \A r \in RunIDs : run'[r] \in RunType /\ pc'[r] \in PCs
  BY <1>1, <1>2 DEF Types
<1> QED
  BY <1>1, <1>3

\* The edges of a run that has a task are fires with a type.
LEMMA EdgeTypes ==
  ASSUME Types, NEW r \in RunIDs, NEW status
  PROVE  EdgeFires(r, status) \subseteq RunType
<1>1. run[r].hops + 1 \in Nat /\ ChainDepth(r) + 1 \in Nat
  BY DEF Types, RunType, ChainDepth
<1>2. \A e \in Edges : e.to \in Tasks
  BY RunAssumption
<1> QED
  BY <1>1, <1>2 DEF EdgeFires, Matching, Options, RunType, Sources

LEMMA InitTypes == Init => Types
  BY RunAssumption DEF Init, Types, RunType, Blank, Sources, PCs, Statuses

LEMMA TypesStep ==
  ASSUME Types, Names, Waits, [Next]_vars PROVE Types'
<1> USE DEF runVars, mapVars, resumeVars, engVars, guardVars, waitVars
<1>1. ASSUME NEW t \in Roots, NEW w \in Callers, FireRoot(t, w) PROVE Types'
  <2>1. Options(t, "manual", NoRun, 0, NoTask, 0) \in RunType
    BY RunAssumption DEF Options, RunType, Sources
  <2>2. NewID \in RunIDs /\ run' \in [RunIDs -> RunType] /\ pc' \in [RunIDs -> PCs]
    BY <1>1, <2>1, FireOneTypes DEF FireRoot, Types
  <2> QED
    BY <1>1, <2>2 DEF FireRoot, Await, Types, Waiting, Statuses
<1>2. ASSUME NEW t \in Roots, FireSync(t) PROVE Types'
  <2>1. Options(t, "webhook", NoRun, 0, NoTask, 0) \in RunType
    BY RunAssumption DEF Options, RunType, Sources
  <2>2. NewID \in RunIDs
    BY <1>2, FreshID DEF FireSync
  <2> QED
    BY <1>2, <2>1, <2>2 DEF FireSync, Types, PCs, Opening
<1>3. ASSUME NEW r \in RunIDs, Track(r) PROVE Types'
  BY <1>3 DEF Track, Goto, Types, PCs, Opening, Begun, Body, Ending, Statuses
<1>4. ASSUME NEW r \in RunIDs, InsertRow(r) PROVE Types'
  BY <1>4 DEF InsertRow, Goto, Types, PCs, Opening, Begun, Body, Ending, Statuses
<1>5. ASSUME NEW r \in RunIDs, RegisterRun(r) PROVE Types'
  BY <1>5 DEF RegisterRun, Goto, Types, PCs, Opening, Begun, Body, Ending, Statuses
<1>6. ASSUME NEW r \in RunIDs, AcquireSlot(r) PROVE Types'
  BY <1>6 DEF AcquireSlot, Goto, Types, PCs, Opening, Begun, Body, Ending, Statuses
<1>7. ASSUME NEW r \in RunIDs, AbortQueued(r) PROVE Types'
  BY <1>7 DEF AbortQueued, Goto, Types, PCs, Opening, Begun, Body, Ending, Statuses
<1>8. ASSUME NEW r \in RunIDs, NEW t \in Tasks, LookUp(r, t) PROVE Types'
  <2>1. Options(t, "provider", NoRun, 0, NoTask, 0) \in RunType
    BY DEF Options, RunType, Sources
  <2>2. NewID \in RunIDs /\ run' \in [RunIDs -> RunType] /\ pc' \in [RunIDs -> PCs]
    BY <1>8, <2>1, FireOneTypes DEF LookUp, Types
  <2> QED
    BY <1>8, <2>2 DEF LookUp, Await, Types, Waiting, Statuses
<1>9. ASSUME NEW r \in RunIDs, Preflight(r) PROVE Types'
  BY <1>9 DEF Preflight, Goto, End, Types, PCs, Opening, Begun, Body, Ending, Statuses
<1>10. ASSUME NEW r \in RunIDs, Finish(r) PROVE Types'
  BY <1>10 DEF Finish, Goto, Types, PCs, Opening, Begun, Body, Ending, Statuses
<1>11. ASSUME NEW r \in RunIDs, FireEdges(r) PROVE Types'
  <2>1. PICK opts \in SUBSET EdgeFires(r, row[r]) :
          FireAll([pc EXCEPT ![r] = IF FailureChainApplies(r) THEN "check" ELSE "release"], opts)
    BY <1>11 DEF FireEdges
  <2>2. opts \in SUBSET RunType /\ IsFiniteSet(opts)
    BY EdgeTypes, EdgesAreFinite
  <2>3. [pc EXCEPT ![r] = IF FailureChainApplies(r) THEN "check" ELSE "release"] \in [RunIDs -> PCs]
    BY DEF Types, PCs, Begun, Ending
  <2>4. run' \in [RunIDs -> RunType] /\ pc' \in [RunIDs -> PCs]
    BY <2>1, <2>2, <2>3, FireAllTypes
  <2> QED
    BY <1>11, <2>4 DEF FireEdges, Types
<1>12. ASSUME NEW r \in RunIDs, CheckGuards(r) PROVE Types'
  BY <1>12 DEF CheckGuards, Goto, Types, PCs, Opening, Begun, Body, Ending, Statuses
<1>13. ASSUME NEW r \in RunIDs, AcquireChainSlot(r) PROVE Types'
  BY <1>13 DEF AcquireChainSlot, Goto, Types, PCs, Opening, Begun, Body, Ending, Statuses
<1>14. ASSUME NEW r \in RunIDs, ResolveFails(r) PROVE Types'
  <2>1. Task(r) \in Tasks
    BY <1>14 DEF ResolveFails, Names, Task
  <2>2. inFlight' \in [Tasks -> Nat] /\ inFlightGlobal' \in Nat
    BY <1>14, <2>1 DEF ResolveFails, ReleaseChainSlot, Less, Types
  <2> QED
    BY <1>14, <2>2 DEF ResolveFails, Goto, Types, PCs, Begun, Ending
<1>15. ASSUME NEW r \in RunIDs, FireFailureChain(r) PROVE Types'
  <2>1. Options(FailTo[Task(r)], "chain", r, ChainDepth(r) + 1, Task(r),
     run[r].hops + 1) \in RunType
    <3>1. pc[r] = "resolve" /\ Task(r) \in Tasks
      BY <1>15 DEF FireFailureChain, Names, Task
    <3>2. FailTo[Task(r)] \in Tasks \cup {NoTask}
      BY <3>1, RunAssumption
    <3> QED
      BY <3>1, <3>2 DEF Options, RunType, Sources, Types, ChainDepth
  <2>2. [pc EXCEPT ![r] = "firing"] \in [RunIDs -> PCs]
    BY DEF Types, PCs, Begun, Ending
  <2>3. NewID \in RunIDs /\ run' \in [RunIDs -> RunType] /\ pc' \in [RunIDs -> PCs]
    BY <1>15, <2>1, <2>2, FireOneTypes DEF FireFailureChain
  <2> QED
    BY <1>15, <2>3 DEF FireFailureChain, Types
<1>16. ASSUME NEW r \in RunIDs, ChainRefused(r) PROVE Types'
  <2>1. Task(r) \in Tasks
    BY <1>16 DEF ChainRefused, Names, Task
  <2>2. inFlight' \in [Tasks -> Nat] /\ inFlightGlobal' \in Nat
    BY <1>16, <2>1 DEF ChainRefused, ReleaseChainSlot, Less, Types
  <2> QED
    BY <1>16, <2>2 DEF ChainRefused, Goto, Types, PCs, Begun, Ending
<1>17. ASSUME NEW r \in RunIDs, ChainOpened(r) PROVE Types'
  <2>1. Task(r) \in Tasks /\ Scope[Task(r)] \in Tasks
    BY <1>17, RunAssumption DEF ChainOpened, Names, Task
  <2>2. fires' \in [Tasks -> Nat] /\ stormy' \subseteq Tasks /\ cooling' \subseteq Tasks
    BY <1>17, <2>1 DEF ChainOpened, Types
  <2> QED
    BY <1>17, <2>2 DEF ChainOpened, Goto, Types, PCs, Begun, Ending
<1>18. ASSUME NEW r \in RunIDs, Release(r) PROVE Types'
  BY <1>18 DEF Release, Goto, ReleaseChainSlot, Less, Types, PCs, Opening, Begun, Body, Ending,
     Statuses
<1>19. ASSUME NEW r \in RunIDs, Leave(r) PROVE Types'
  BY <1>19 DEF Leave, Goto, Types, PCs, Opening, Begun, Body, Ending, Statuses
<1>20. ASSUME NEW r \in RunIDs, BodyEnds(r) PROVE Types'
  <2>1. PICK status \in {"success", "failure", "cancelled"} : End(r, status, TRUE)
    BY <1>20 DEF BodyEnds
  <2> QED
    BY <1>20, <2>1 DEF BodyEnds, End, Goto, Types, PCs, Begun, Ending, Statuses, Waiting
<1>21. ASSUME NEW r \in RunIDs, BodyRejected(r) PROVE Types'
  BY <1>21 DEF BodyRejected, MayEnd, End, Goto, Types, PCs, Opening, Begun, Body, Ending, Statuses
<1>22. ASSUME NEW r \in RunIDs, Suspend(r) PROVE Types'
  <2>1. ChainDepth(r) \in Nat
    BY DEF ChainDepth, Types, RunType
  <2> QED
    BY <1>22, <2>1 DEF Suspend, End, Goto, Types, PCs, Begun, Ending, Statuses, Waiting
<1>23. ASSUME NEW r \in RunIDs, NEW t \in Tasks, CallTask(r, t) PROVE Types'
  <2>1. Options(t, "manual", r, 0, NoTask, 0) \in RunType
    BY DEF Options, RunType, Sources
  <2>2. NewID \in RunIDs /\ run' \in [RunIDs -> RunType] /\ pc' \in [RunIDs -> PCs]
    BY <1>23, <2>1, FireOneTypes DEF CallTask, Types
  <2> QED
    BY <1>23, <2>2 DEF CallTask, Await, Types, Waiting, Statuses
<1>24. ASSUME NEW r \in RunIDs, Refuse(r) PROVE Types'
  BY <1>24 DEF Refuse, Goto, Types, PCs, Opening, Begun, Body, Ending, Statuses
<1>25. ASSUME NEW r \in RunIDs, ProbeResume(r) PROVE Types'
  BY <1>25 DEF ProbeResume, Types, PCs, Opening, Begun, Body, Ending, Statuses
<1>26. ASSUME NEW r \in RunIDs, Resume(r) PROVE Types'
  <2>1. Options(Task(r), "resume", r, carry[r], NoTask, run[r].hops) \in RunType
    BY DEF Options, RunType, Sources, Types, Task
  <2>2. row[r] = "suspended" => run' \in [RunIDs -> RunType] /\ pc' \in [RunIDs -> PCs]
    BY <1>26, <2>1, FireOneTypes DEF Resume, Types
  <2> QED
    BY <1>26, <2>2 DEF Resume, Types, Statuses
<1>27. ASSUME NEW r \in RunIDs, Sweep(r) PROVE Types'
  BY <1>27 DEF Sweep, Types, PCs, Opening, Begun, Body, Ending, Statuses
<1>28. ASSUME NEW r \in RunIDs, SweepChains(r) PROVE Types'
  <2>1. PICK opts \in SUBSET EdgeFires(r, "cancelled") : FireAll(pc, opts)
    BY <1>28 DEF SweepChains
  <2>2. opts \in SUBSET RunType /\ IsFiniteSet(opts)
    BY EdgeTypes, EdgesAreFinite
  <2>3. run' \in [RunIDs -> RunType] /\ pc' \in [RunIDs -> PCs]
    BY <2>1, <2>2, FireAllTypes DEF Types
  <2> QED
    BY <1>28, <2>3 DEF SweepChains, Types
<1>29. ASSUME NEW r \in RunIDs, KillRun(r) PROVE Types'
  BY <1>29 DEF KillRun, Types, PCs, Opening, Begun, Body, Ending, Statuses
<1>30. ASSUME NEW r \in RunIDs, Replay(r) PROVE Types'
  <2>1. PICK d \in {0} \cup (IF run[r].source \in {"chain", "replay"} THEN {run[r].depth} ELSE {}) :
          FireOne(pc, Options(Task(r), "replay", r, d, NoTask, d))
    BY <1>30 DEF Replay
  <2>2. Options(Task(r), "replay", r, d, NoTask, d) \in RunType
    BY DEF Options, RunType, Sources, Types, Task
  <2>3. run' \in [RunIDs -> RunType] /\ pc' \in [RunIDs -> PCs]
    BY <2>1, <2>2, FireOneTypes DEF Types
  <2> QED
    BY <1>30, <2>3 DEF Replay, Types
<1>31. ASSUME NEW w \in Waiting, WaitOpened(w) PROVE Types'
  BY <1>31 DEF WaitOpened, Return, Types, PCs, Opening, Begun, Body, Ending, Statuses
<1>32. ASSUME NEW w \in Waiting, WaitLoad(w) PROVE Types'
  BY <1>32 DEF WaitLoad, Types, PCs, Opening, Begun, Body, Ending, Statuses
<1>33. ASSUME NEW w \in Waiting, WaitWoken(w) PROVE Types'
  BY <1>33 DEF WaitWoken, Types, PCs, Opening, Begun, Body, Ending, Statuses
<1>34. ASSUME NEW w \in Waiting, WaitRead(w) PROVE Types'
  <2>1. wrun[w] \in RunIDs /\ row[wrun[w]] \in Statuses
    BY <1>34 DEF WaitRead, Waits, Knows, Types
  <2>2. wpc' \in [Waiting -> {"idle", "opening", "load", "block", "read", "done"}]
    BY <1>34 DEF WaitRead, Return, Types
  <2>3. wrun' \in [Waiting -> RunIDs \cup {NoRun}]
    BY <1>34 DEF WaitRead, Return, Types, Continuation
  <2>4. wres' \in [Waiting -> Statuses \cup {"ctx", "refused"}]
    <3>1. wres' = wres \/ \E s \in Statuses : wres' = [wres EXCEPT ![w] = s]
      BY <1>34, <2>1 DEF WaitRead, Return, Statuses
    <3> QED
      BY <3>1 DEF Types
  <2> QED
    BY <1>34, <2>2, <2>3, <2>4 DEF WaitRead, Types
<1>35. ASSUME NEW w \in Waiting, WaitCancelled(w) PROVE Types'
  BY <1>35 DEF WaitCancelled, Return, Types, PCs, Opening, Begun, Body, Ending, Statuses
<1>36. ASSUME Stop PROVE Types'
  BY <1>36 DEF Stop, Types, PCs, Opening, Begun, Body, Ending, Statuses
<1>37. ASSUME BeginShutdown PROVE Types'
  BY <1>37 DEF BeginShutdown, Types, PCs, Opening, Begun, Body, Ending, Statuses
<1>38. ASSUME Restart PROVE Types'
  BY <1>38 DEF Restart, Types, PCs, Opening, Begun, Body, Ending, Statuses
<1>39. ASSUME NEW t \in Tasks, CooldownOver(t) PROVE Types'
  BY <1>39 DEF CooldownOver, Types, PCs, Opening, Begun, Body, Ending, Statuses
<1>40. ASSUME NEW t \in Tasks, WindowOver(t) PROVE Types'
  BY <1>40 DEF WindowOver, Types, PCs, Opening, Begun, Body, Ending, Statuses
<1>41. ASSUME NEW t \in Tasks, SuppressOver(t) PROVE Types'
  BY <1>41 DEF SuppressOver, Types, PCs, Opening, Begun, Body, Ending, Statuses
<1>42. CASE UNCHANGED vars
  BY <1>42 DEF vars, Types, PCs, Opening, Begun, Body, Ending, Statuses
<1> QED
  BY <1>1, <1>2, <1>3, <1>4, <1>5, <1>6, <1>7, <1>8, <1>9, <1>10, <1>11, <1>12, <1>13, <1>14,
     <1>15, <1>16, <1>17, <1>18, <1>19, <1>20, <1>21, <1>22, <1>23, <1>24, <1>25, <1>26, <1>27,
        <1>28, <1>29, <1>30, <1>31, <1>32, <1>33, <1>34, <1>35, <1>36, <1>37, <1>38, <1>39, <1>40,
           <1>41, <1>42
     DEF Next, RunStep, BodyStep, Wait

-----------------------------------------------------------------------------
(* What a step makes of the runs: IDs are used once, a run keeps what it was *)
(* fired with, a final row stays, and a new run comes from outside, from a   *)
(* run that ended or from a suspension.                                    *)

Born(r) == pc[r] = "none" /\ pc'[r] # "none"

FromOutside(o) ==
  o.source \in {"manual", "webhook", "provider"} /\ o.depth = 0 /\ o.hops = 0 /\ o.slot = NoTask
FromReplay(o) ==
  /\ o.source = "replay" /\ o.slot = NoTask /\ o.hops = o.depth
  /\ o.depth = 0 \/ \E q \in RunIDs : o.depth = run[q].depth
FromEdge(o, q) ==
  /\ o.source = "chain" /\ o.slot = NoTask /\ o.parent = q
  /\ row[q] \in {"success", "failure", "cancelled"}
  /\ \E e \in Matching(Task(q), row[q]) : e.to = o.task
  /\ o.depth = ChainDepth(q) + 1 /\ o.depth <= MaxSuccess /\ o.hops = run[q].hops + 1
  /\ q \in registered \/ q \in swept
FromFailure(o, q) ==
  /\ pc[q] = "resolve"
  /\ o.source = "chain" /\ o.slot = Task(q) /\ o.parent = q /\ o.task = FailTo[Task(q)]
  /\ o.depth = ChainDepth(q) + 1 /\ o.hops = run[q].hops + 1
FromSuspension(o, q) ==
  /\ row[q] = "suspended" /\ row'[q] = "resumed"
  /\ o.source = "resume" /\ o.slot = NoTask /\ o.parent = q
  /\ o.depth = carry[q] /\ o.hops = run[q].hops

\* The IDs and what the runs on them were fired with.
Advance ==
  \A r \in RunIDs :
    /\ pc[r] # "none" => run'[r] = run[r] /\ pc'[r] # "none"
    /\ pc'[r] = "none" => run'[r] = run[r]
    /\ Born(r) =>
         /\ pc'[r] \in {"fired", "reserved"} /\ run'[r].task \in Tasks
         /\ \/ FromOutside(run'[r]) \/ FromReplay(run'[r])
            \/ \E q \in RunIDs : FromEdge(run'[r], q) \/ FromFailure(run'[r], q)
            \/ /\ \E q \in RunIDs : FromSuspension(run'[r], q)
               /\ \A q \in RunIDs : Born(q) => q = r

\* The rows and the depths stored with them.
RowsAdvance ==
  /\ may' = may
  /\ \A r \in RunIDs :
       /\ row[r] \in Terminal => row'[r] = row[r]
       /\ row[r] # "none" => row'[r] # "none"
       /\ row'[r] = "suspended" => \/ row[r] = "suspended" /\ carry'[r] = carry[r]
                                   \/ pc[r] # "none" /\ carry'[r] = run[r].depth
       /\ r \in swept' => row'[r] = "cancelled" /\ (r \in swept \/ "sweep" \in may)

\* A step that fires nothing.
LEMMA NobodyBorn ==
  ASSUME run' = run, \A r \in RunIDs : pc'[r] = "none" <=> pc[r] = "none"
  PROVE  Advance
  BY DEF Advance, Born

\* One fire puts one run on an ID that no run used.
LEMMA FireOneFires ==
  ASSUME Types, NEW p \in [RunIDs -> PCs], NEW o, FireOne(p, o)
  PROVE  \E n \in RunIDs :
           /\ n = NewID /\ pc[n] = "none" /\ run'[n] = o /\ pc'[n] = "fired"
           /\ \A r \in RunIDs \ {n} : run'[r] = run[r] /\ pc'[r] = p[r]
<1>1. NewID \in RunIDs /\ pc[NewID] = "none"
  BY FreshID DEF FireOne
<1> QED
  BY <1>1 DEF FireOne, Types

LEMMA OneBorn ==
  ASSUME Types, NEW o, FireOne(pc, o), o.task \in Tasks,
         FromOutside(o) \/ FromReplay(o) \/ \E q \in RunIDs : FromSuspension(o, q)
  PROVE  Advance
<1>1. PICK n \in RunIDs :
        /\ pc[n] = "none" /\ run'[n] = o /\ pc'[n] = "fired"
        /\ \A r \in RunIDs \ {n} : run'[r] = run[r] /\ pc'[r] = pc[r]
  BY FireOneFires DEF Types
<1>2. \A q \in RunIDs : Born(q) => q = n
  BY <1>1 DEF Born
<1>3. \A q \in RunIDs : Born(q) <=> q = n
  BY <1>1 DEF Born
<1> QED
  <2> SUFFICES ASSUME NEW r \in RunIDs
               PROVE  /\ pc[r] # "none" => run'[r] = run[r] /\ pc'[r] # "none"
                      /\ pc'[r] = "none" => run'[r] = run[r]
                      /\ Born(r) =>
                           /\ pc'[r] \in {"fired", "reserved"} /\ run'[r].task \in Tasks
                           /\ \/ FromOutside(run'[r]) \/ FromReplay(run'[r])
                              \/ /\ \E q \in RunIDs : FromSuspension(run'[r], q)
                                 /\ \A q \in RunIDs : Born(q) => q = r
    BY DEF Advance
  <2>1. CASE r = n
    BY <1>1, <1>2, <2>1 DEF Born
  <2>2. CASE r # n
    BY <1>1, <1>3, <2>2
  <2> QED
    BY <2>1, <2>2

\* The edges of a run that ended.
LEMMA EdgesBorn ==
  ASSUME Types, NEW q \in RunIDs, NEW p \in [RunIDs -> PCs],
         NEW opts \in SUBSET EdgeFires(q, row[q]), FireAll(p, opts),
         row[q] \in {"success", "failure", "cancelled"}, q \in registered \/ q \in swept,
         \A r \in RunIDs : p[r] = "none" <=> pc[r] = "none"
  PROVE  Advance
<1>1. IsFiniteSet(opts)
  BY EdgesAreFinite
<1>2. PICK new \in SUBSET RunIDs :
        /\ \A r \in new : pc[r] = "none" /\ run'[r] \in opts /\ pc'[r] = "fired"
        /\ \A r \in RunIDs \ new : run'[r] = run[r] /\ pc'[r] = p[r]
  BY <1>1, FireAllFires
<1>3. \A o \in opts : o.task \in Tasks /\ FromEdge(o, q)
  <2>1. \A e \in Edges : e.to \in Tasks
    BY RunAssumption
  <2>2. ChainDepth(q) + 1 <= MaxSuccess \/ opts = {}
    BY RunAssumption DEF EdgeFires, ChainDepth, Types, RunType
  <2> QED
    BY <2>1, <2>2 DEF EdgeFires, FromEdge, Options, Matching
<1> QED
  BY <1>2, <1>3 DEF Advance, Born

LEMMA AdvanceStep ==
  ASSUME Types, Places, Names, Outcomes, [Next]_vars PROVE Advance
<1>1. ASSUME NEW t \in Roots, NEW w \in Callers, FireRoot(t, w) PROVE Advance
  <2> DEFINE o == Options(t, "manual", NoRun, 0, NoTask, 0)
  <2>1. o.task \in Tasks /\ FromOutside(o)
    BY <1>1, RunAssumption DEF FireRoot, Options, FromOutside
  <2> QED
    BY <1>1, <2>1, OneBorn DEF FireRoot
<1>2. ASSUME NEW t \in Roots, FireSync(t) PROVE Advance
  <2> DEFINE n == NewID
             o == Options(t, "webhook", NoRun, 0, NoTask, 0)
  <2>1. n \in RunIDs /\ pc[n] = "none"
    BY <1>2, FreshID DEF FireSync
  <2>2. run'[n] = o /\ pc'[n] = "reserved" /\ \A r \in RunIDs \ {n} : run'[r] = run[r] /\ pc'[r] = pc[r]
    BY <1>2, <2>1 DEF FireSync, Types
  <2>3. o.task \in Tasks /\ FromOutside(o)
    BY RunAssumption DEF Options, FromOutside
  <2> HIDE DEF n, o
  <2> QED
    BY <2>1, <2>2, <2>3 DEF Advance, Born
<1>3. ASSUME NEW r \in RunIDs, Track(r) PROVE Advance
  <2>1. run' = run /\ \A q \in RunIDs : pc'[q] = "none" <=> pc[q] = "none"
    BY <1>3 DEF Track, Goto, Types
  <2> QED
    BY <2>1, NobodyBorn
<1>4. ASSUME NEW r \in RunIDs, InsertRow(r) PROVE Advance
  <2>1. run' = run /\ \A q \in RunIDs : pc'[q] = "none" <=> pc[q] = "none"
    BY <1>4 DEF InsertRow, Goto, Types
  <2> QED
    BY <2>1, NobodyBorn
<1>5. ASSUME NEW r \in RunIDs, RegisterRun(r) PROVE Advance
  <2>1. run' = run /\ \A q \in RunIDs : pc'[q] = "none" <=> pc[q] = "none"
    BY <1>5 DEF RegisterRun, Goto, Types
  <2> QED
    BY <2>1, NobodyBorn
<1>6. ASSUME NEW r \in RunIDs, AcquireSlot(r) PROVE Advance
  <2>1. run' = run /\ \A q \in RunIDs : pc'[q] = "none" <=> pc[q] = "none"
    BY <1>6 DEF AcquireSlot, Goto, Types
  <2> QED
    BY <2>1, NobodyBorn
<1>7. ASSUME NEW r \in RunIDs, AbortQueued(r) PROVE Advance
  <2>1. run' = run /\ \A q \in RunIDs : pc'[q] = "none" <=> pc[q] = "none"
    BY <1>7 DEF AbortQueued, Goto, Types
  <2> QED
    BY <2>1, NobodyBorn
<1>8. ASSUME NEW r \in RunIDs, NEW t \in Tasks, LookUp(r, t) PROVE Advance
  <2> DEFINE o == Options(t, "provider", NoRun, 0, NoTask, 0)
  <2>1. o.task \in Tasks /\ FromOutside(o)
    BY <1>8 DEF LookUp, Options, FromOutside
  <2> QED
    BY <1>8, <2>1, OneBorn DEF LookUp
<1>9. ASSUME NEW r \in RunIDs, Preflight(r) PROVE Advance
  <2>1. run' = run /\ \A q \in RunIDs : pc'[q] = "none" <=> pc[q] = "none"
    BY <1>9 DEF Preflight, Goto, End, Types
  <2> QED
    BY <2>1, NobodyBorn
<1>10. ASSUME NEW r \in RunIDs, Finish(r) PROVE Advance
  <2>1. run' = run /\ \A q \in RunIDs : pc'[q] = "none" <=> pc[q] = "none"
    BY <1>10 DEF Finish, Goto, Types
  <2> QED
    BY <2>1, NobodyBorn
<1>11. ASSUME NEW r \in RunIDs, FireEdges(r) PROVE Advance
  <2> DEFINE p == [pc EXCEPT ![r] = IF FailureChainApplies(r) THEN "check" ELSE "release"]
  <2>1. PICK opts \in SUBSET EdgeFires(r, row[r]) : FireAll(p, opts)
    BY <1>11 DEF FireEdges
  <2>2. p \in [RunIDs -> PCs] /\ \A q \in RunIDs : p[q] = "none" <=> pc[q] = "none"
    BY <1>11 DEF FireEdges, Types, PCs, Begun, Ending
  <2>3. r \in registered /\ row[r] \in {"success", "failure", "cancelled"}
    BY <1>11 DEF FireEdges, Places, Outcomes, Ending
  <2> HIDE DEF p
  <2> QED
    BY <2>1, <2>2, <2>3, EdgesBorn
<1>12. ASSUME NEW r \in RunIDs, CheckGuards(r) PROVE Advance
  <2>1. run' = run /\ \A q \in RunIDs : pc'[q] = "none" <=> pc[q] = "none"
    BY <1>12 DEF CheckGuards, Goto, Types
  <2> QED
    BY <2>1, NobodyBorn
<1>13. ASSUME NEW r \in RunIDs, AcquireChainSlot(r) PROVE Advance
  <2>1. run' = run /\ \A q \in RunIDs : pc'[q] = "none" <=> pc[q] = "none"
    BY <1>13 DEF AcquireChainSlot, Goto, Types
  <2> QED
    BY <2>1, NobodyBorn
<1>14. ASSUME NEW r \in RunIDs, ResolveFails(r) PROVE Advance
  <2>1. run' = run /\ \A q \in RunIDs : pc'[q] = "none" <=> pc[q] = "none"
    BY <1>14 DEF ResolveFails, Goto, ReleaseChainSlot, Less, Types
  <2> QED
    BY <2>1, NobodyBorn
<1>15. ASSUME NEW r \in RunIDs, FireFailureChain(r) PROVE Advance
  <2> DEFINE p == [pc EXCEPT ![r] = "firing"]
             o == Options(FailTo[Task(r)], "chain", r, ChainDepth(r) + 1, Task(r), run[r].hops + 1)
  <2>1. p \in [RunIDs -> PCs] /\ FireOne(p, o) /\ pc[r] = "resolve"
    BY <1>15 DEF FireFailureChain, Types, PCs, Begun, Ending
  <2>3. o.task \in Tasks /\ FromFailure(o, r)
    <3>1. FailureChainApplies(r) /\ Task(r) \in Tasks
      BY <2>1 DEF Outcomes, Names, Task
    <3> QED
      BY <2>1, <3>1, RunAssumption DEF FailureChainApplies, FromFailure, Options
  <2>4. \A q \in RunIDs : p[q] = "none" <=> pc[q] = "none"
    BY <2>1 DEF Types
  <2> HIDE DEF o, p
  <2>2. PICK n \in RunIDs :
          /\ pc[n] = "none" /\ run'[n] = o /\ pc'[n] = "fired"
          /\ \A q \in RunIDs \ {n} : run'[q] = run[q] /\ pc'[q] = p[q]
    BY <2>1, FireOneFires
  <2> QED
    BY <2>2, <2>3, <2>4 DEF Advance, Born
<1>16. ASSUME NEW r \in RunIDs, ChainRefused(r) PROVE Advance
  <2>1. run' = run /\ \A q \in RunIDs : pc'[q] = "none" <=> pc[q] = "none"
    BY <1>16 DEF ChainRefused, Goto, ReleaseChainSlot, Less, Types
  <2> QED
    BY <2>1, NobodyBorn
<1>17. ASSUME NEW r \in RunIDs, ChainOpened(r) PROVE Advance
  <2>1. run' = run /\ \A q \in RunIDs : pc'[q] = "none" <=> pc[q] = "none"
    BY <1>17 DEF ChainOpened, Goto, Types
  <2> QED
    BY <2>1, NobodyBorn
<1>18. ASSUME NEW r \in RunIDs, Release(r) PROVE Advance
  <2>1. run' = run /\ \A q \in RunIDs : pc'[q] = "none" <=> pc[q] = "none"
    BY <1>18 DEF Release, Goto, ReleaseChainSlot, Less, Types
  <2> QED
    BY <2>1, NobodyBorn
<1>19. ASSUME NEW r \in RunIDs, Leave(r) PROVE Advance
  <2>1. run' = run /\ \A q \in RunIDs : pc'[q] = "none" <=> pc[q] = "none"
    BY <1>19 DEF Leave, Goto, Types
  <2> QED
    BY <2>1, NobodyBorn
<1>20. ASSUME NEW r \in RunIDs, BodyEnds(r) PROVE Advance
  <2>1. run' = run /\ \A q \in RunIDs : pc'[q] = "none" <=> pc[q] = "none"
    BY <1>20 DEF BodyEnds, MayEnd, End, Goto, Types
  <2> QED
    BY <2>1, NobodyBorn
<1>21. ASSUME NEW r \in RunIDs, BodyRejected(r) PROVE Advance
  <2>1. run' = run /\ \A q \in RunIDs : pc'[q] = "none" <=> pc[q] = "none"
    BY <1>21 DEF BodyRejected, MayEnd, End, Goto, Types
  <2> QED
    BY <2>1, NobodyBorn
<1>22. ASSUME NEW r \in RunIDs, Suspend(r) PROVE Advance
  <2>1. run' = run /\ \A q \in RunIDs : pc'[q] = "none" <=> pc[q] = "none"
    BY <1>22 DEF Suspend, MayEnd, End, Goto, Types
  <2> QED
    BY <2>1, NobodyBorn
<1>23. ASSUME NEW r \in RunIDs, NEW t \in Tasks, CallTask(r, t) PROVE Advance
  <2> DEFINE o == Options(t, "manual", r, 0, NoTask, 0)
  <2>1. o.task \in Tasks /\ FromOutside(o)
    BY <1>23 DEF CallTask, Options, FromOutside
  <2> QED
    BY <1>23, <2>1, OneBorn DEF CallTask
<1>24. ASSUME NEW r \in RunIDs, Refuse(r) PROVE Advance
  <2>1. run' = run /\ \A q \in RunIDs : pc'[q] = "none" <=> pc[q] = "none"
    BY <1>24 DEF Refuse, Goto, Types
  <2> QED
    BY <2>1, NobodyBorn
<1>25. ASSUME NEW r \in RunIDs, ProbeResume(r) PROVE Advance
  <2>1. run' = run /\ \A q \in RunIDs : pc'[q] = "none" <=> pc[q] = "none"
    BY <1>25 DEF ProbeResume, Types, runVars
  <2> QED
    BY <2>1, NobodyBorn
<1>26. ASSUME NEW r \in RunIDs, Resume(r) PROVE Advance
  <2> DEFINE o == Options(Task(r), "resume", r, carry[r], NoTask, run[r].hops)
  <2>1. CASE row[r] = "suspended"
    <3>1. FireOne(pc, o) /\ row'[r] = "resumed"
      BY <1>26, <2>1 DEF Resume, Types
    <3>2. o.task \in Tasks /\ FromSuspension(o, r)
      BY <2>1, <3>1 DEF Options, FromSuspension, Names, Places, Task
    <3> QED
      BY <3>1, <3>2, OneBorn
  <2>2. CASE row[r] # "suspended"
    BY <1>26, <2>2, NobodyBorn DEF Resume
  <2> QED
    BY <2>1, <2>2
<1>27. ASSUME NEW r \in RunIDs, Sweep(r) PROVE Advance
  <2>1. run' = run /\ \A q \in RunIDs : pc'[q] = "none" <=> pc[q] = "none"
    BY <1>27 DEF Sweep, Types
  <2> QED
    BY <2>1, NobodyBorn
<1>28. ASSUME NEW r \in RunIDs, SweepChains(r) PROVE Advance
  <2>1. row[r] = "cancelled" /\ r \in swept
    BY <1>28 DEF SweepChains, Outcomes
  <2>2. PICK opts \in SUBSET EdgeFires(r, row[r]) : FireAll(pc, opts)
    BY <1>28, <2>1 DEF SweepChains
  <2>3. pc \in [RunIDs -> PCs]
    BY DEF Types
  <2> QED
    BY <2>1, <2>2, <2>3, EdgesBorn
<1>29. ASSUME NEW r \in RunIDs, KillRun(r) PROVE Advance
  <2>1. run' = run /\ \A q \in RunIDs : pc'[q] = "none" <=> pc[q] = "none"
    BY <1>29 DEF KillRun, Types, runVars
  <2> QED
    BY <2>1, NobodyBorn
<1>30. ASSUME NEW r \in RunIDs, Replay(r) PROVE Advance
  <2>1. PICK d \in {0} \cup (IF run[r].source \in {"chain", "replay"} THEN {run[r].depth} ELSE {}) :
          FireOne(pc, Options(Task(r), "replay", r, d, NoTask, d))
    BY <1>30 DEF Replay
  <2> DEFINE o == Options(Task(r), "replay", r, d, NoTask, d)
  <2>2. o.task \in Tasks /\ FromReplay(o)
    BY <1>30 DEF Replay, Options, FromReplay, Names, Places, Task, Terminal
  <2> QED
    BY <2>1, <2>2, OneBorn
<1>31. ASSUME NEW w \in Waiting, WaitOpened(w) PROVE Advance
  <2>1. run' = run /\ \A q \in RunIDs : pc'[q] = "none" <=> pc[q] = "none"
    BY <1>31 DEF WaitOpened, Return, Types, runVars
  <2> QED
    BY <2>1, NobodyBorn
<1>32. ASSUME NEW w \in Waiting, WaitLoad(w) PROVE Advance
  <2>1. run' = run /\ \A q \in RunIDs : pc'[q] = "none" <=> pc[q] = "none"
    BY <1>32 DEF WaitLoad, Types, runVars
  <2> QED
    BY <2>1, NobodyBorn
<1>33. ASSUME NEW w \in Waiting, WaitWoken(w) PROVE Advance
  <2>1. run' = run /\ \A q \in RunIDs : pc'[q] = "none" <=> pc[q] = "none"
    BY <1>33 DEF WaitWoken, Types, runVars
  <2> QED
    BY <2>1, NobodyBorn
<1>34. ASSUME NEW w \in Waiting, WaitRead(w) PROVE Advance
  <2>1. run' = run /\ \A q \in RunIDs : pc'[q] = "none" <=> pc[q] = "none"
    BY <1>34 DEF WaitRead, Return, Types, runVars
  <2> QED
    BY <2>1, NobodyBorn
<1>35. ASSUME NEW w \in Waiting, WaitCancelled(w) PROVE Advance
  <2>1. run' = run /\ \A q \in RunIDs : pc'[q] = "none" <=> pc[q] = "none"
    BY <1>35 DEF WaitCancelled, Return, Types, runVars
  <2> QED
    BY <2>1, NobodyBorn
<1>36. ASSUME Stop PROVE Advance
  <2>1. run' = run /\ \A q \in RunIDs : pc'[q] = "none" <=> pc[q] = "none"
    BY <1>36 DEF Stop, Types, runVars
  <2> QED
    BY <2>1, NobodyBorn
<1>37. ASSUME BeginShutdown PROVE Advance
  <2>1. run' = run /\ \A q \in RunIDs : pc'[q] = "none" <=> pc[q] = "none"
    BY <1>37 DEF BeginShutdown, Types, runVars
  <2> QED
    BY <2>1, NobodyBorn
<1>38. ASSUME Restart PROVE Advance
  <2>1. run' = run /\ \A q \in RunIDs : pc'[q] = "none" <=> pc[q] = "none"
    BY <1>38 DEF Restart, Types
  <2> QED
    BY <2>1, NobodyBorn
<1>39. ASSUME NEW t \in Tasks, CooldownOver(t) PROVE Advance
  <2>1. run' = run /\ \A q \in RunIDs : pc'[q] = "none" <=> pc[q] = "none"
    BY <1>39 DEF CooldownOver, Types, runVars
  <2> QED
    BY <2>1, NobodyBorn
<1>40. ASSUME NEW t \in Tasks, WindowOver(t) PROVE Advance
  <2>1. run' = run /\ \A q \in RunIDs : pc'[q] = "none" <=> pc[q] = "none"
    BY <1>40 DEF WindowOver, Types, runVars
  <2> QED
    BY <2>1, NobodyBorn
<1>41. ASSUME NEW t \in Tasks, SuppressOver(t) PROVE Advance
  <2>1. run' = run /\ \A q \in RunIDs : pc'[q] = "none" <=> pc[q] = "none"
    BY <1>41 DEF SuppressOver, Types, runVars
  <2> QED
    BY <2>1, NobodyBorn
<1>42. CASE UNCHANGED vars
  BY <1>42, NobodyBorn DEF vars, runVars
<1> QED
  BY <1>1, <1>2, <1>3, <1>4, <1>5, <1>6, <1>7, <1>8, <1>9, <1>10, <1>11, <1>12, <1>13, <1>14,
     <1>15, <1>16, <1>17, <1>18, <1>19, <1>20, <1>21, <1>22, <1>23, <1>24, <1>25, <1>26, <1>27,
        <1>28, <1>29, <1>30, <1>31, <1>32, <1>33, <1>34, <1>35, <1>36, <1>37, <1>38, <1>39, <1>40,
           <1>41, <1>42
     DEF Next, RunStep, BodyStep, Wait

LEMMA RowsAdvanceStep ==
  ASSUME Types, Places, Outcomes, [Next]_vars PROVE RowsAdvance
<1> USE DEF runVars, resumeVars
<1>1. ASSUME NEW t \in Roots, NEW w \in Callers, FireRoot(t, w) PROVE RowsAdvance
  BY <1>1 DEF FireRoot, Await, FireOne, Options, RowsAdvance, Places, Outcomes, Types, Terminal,
     Body
<1>2. ASSUME NEW t \in Roots, FireSync(t) PROVE RowsAdvance
  BY <1>2 DEF FireSync, Options, RowsAdvance, Places, Outcomes, Types, Terminal, Body
<1>3. ASSUME NEW r \in RunIDs, Track(r) PROVE RowsAdvance
  BY <1>3 DEF Track, Goto, RowsAdvance, Places, Outcomes, Types, Terminal, Body
<1>4. ASSUME NEW r \in RunIDs, InsertRow(r) PROVE RowsAdvance
  BY <1>4 DEF InsertRow, Goto, RowsAdvance, Places, Outcomes, Types, Terminal, Body
<1>5. ASSUME NEW r \in RunIDs, RegisterRun(r) PROVE RowsAdvance
  BY <1>5 DEF RegisterRun, Goto, RowsAdvance, Places, Outcomes, Types, Terminal, Body
<1>6. ASSUME NEW r \in RunIDs, AcquireSlot(r) PROVE RowsAdvance
  BY <1>6 DEF AcquireSlot, Goto, RowsAdvance, Places, Outcomes, Types, Terminal, Body
<1>7. ASSUME NEW r \in RunIDs, AbortQueued(r) PROVE RowsAdvance
  BY <1>7 DEF AbortQueued, Goto, RowsAdvance, Places, Outcomes, Types, Terminal, Body
<1>8. ASSUME NEW r \in RunIDs, NEW t \in Tasks, LookUp(r, t) PROVE RowsAdvance
  BY <1>8 DEF LookUp, Await, FireOne, Options, RowsAdvance, Places, Outcomes, Types, Terminal, Body
<1>9. ASSUME NEW r \in RunIDs, Preflight(r) PROVE RowsAdvance
  BY <1>9 DEF Preflight, Goto, End, RowsAdvance, Places, Outcomes, Types, Terminal, Body
<1>10. ASSUME NEW r \in RunIDs, Finish(r) PROVE RowsAdvance
  BY <1>10 DEF Finish, Goto, RowsAdvance, Places, Outcomes, Types, Terminal, Body
<1>11. ASSUME NEW r \in RunIDs, FireEdges(r) PROVE RowsAdvance
  BY <1>11 DEF FireEdges, RowsAdvance, Places, Outcomes, Types, Terminal, Body
<1>12. ASSUME NEW r \in RunIDs, CheckGuards(r) PROVE RowsAdvance
  BY <1>12 DEF CheckGuards, Goto, RowsAdvance, Places, Outcomes, Types, Terminal, Body
<1>13. ASSUME NEW r \in RunIDs, AcquireChainSlot(r) PROVE RowsAdvance
  BY <1>13 DEF AcquireChainSlot, Goto, RowsAdvance, Places, Outcomes, Types, Terminal, Body
<1>14. ASSUME NEW r \in RunIDs, ResolveFails(r) PROVE RowsAdvance
  BY <1>14 DEF ResolveFails, Goto, ReleaseChainSlot, Less, RowsAdvance, Places, Outcomes, Types,
     Terminal, Body
<1>15. ASSUME NEW r \in RunIDs, FireFailureChain(r) PROVE RowsAdvance
  BY <1>15 DEF FireFailureChain, FireOne, Options, RowsAdvance, Places, Outcomes, Types, Terminal,
     Body
<1>16. ASSUME NEW r \in RunIDs, ChainRefused(r) PROVE RowsAdvance
  BY <1>16 DEF ChainRefused, Goto, ReleaseChainSlot, Less, RowsAdvance, Places, Outcomes, Types,
     Terminal, Body
<1>17. ASSUME NEW r \in RunIDs, ChainOpened(r) PROVE RowsAdvance
  BY <1>17 DEF ChainOpened, Goto, RowsAdvance, Places, Outcomes, Types, Terminal, Body
<1>18. ASSUME NEW r \in RunIDs, Release(r) PROVE RowsAdvance
  BY <1>18 DEF Release, Goto, ReleaseChainSlot, Less, RowsAdvance, Places, Outcomes, Types,
     Terminal, Body
<1>19. ASSUME NEW r \in RunIDs, Leave(r) PROVE RowsAdvance
  BY <1>19 DEF Leave, Goto, RowsAdvance, Places, Outcomes, Types, Terminal, Body
<1>20. ASSUME NEW r \in RunIDs, BodyEnds(r) PROVE RowsAdvance
  BY <1>20 DEF BodyEnds, MayEnd, End, Goto, RowsAdvance, Places, Outcomes, Types, Terminal, Body
<1>21. ASSUME NEW r \in RunIDs, BodyRejected(r) PROVE RowsAdvance
  BY <1>21 DEF BodyRejected, MayEnd, End, Goto, RowsAdvance, Places, Outcomes, Types, Terminal, Body
<1>22. ASSUME NEW r \in RunIDs, Suspend(r) PROVE RowsAdvance
  <2>1. carry'[r] = run[r].depth /\ pc[r] = "executing" /\ row'[r] = "suspended" /\ row[r] = "running"
    BY <1>22 DEF Suspend, MayEnd, End, ChainDepth, Places, Types, Body
  <2> QED
    BY <1>22, <2>1 DEF Suspend, End, RowsAdvance, Places, Outcomes, Types, Terminal
<1>23. ASSUME NEW r \in RunIDs, NEW t \in Tasks, CallTask(r, t) PROVE RowsAdvance
  BY <1>23 DEF CallTask, Await, FireOne, Options, RowsAdvance, Places, Outcomes, Types, Terminal,
     Body
<1>24. ASSUME NEW r \in RunIDs, Refuse(r) PROVE RowsAdvance
  BY <1>24 DEF Refuse, Goto, RowsAdvance, Places, Outcomes, Types, Terminal, Body
<1>25. ASSUME NEW r \in RunIDs, ProbeResume(r) PROVE RowsAdvance
  BY <1>25 DEF ProbeResume, RowsAdvance, Places, Outcomes, Types, Terminal, Body
<1>26. ASSUME NEW r \in RunIDs, Resume(r) PROVE RowsAdvance
  BY <1>26 DEF Resume, FireOne, Options, RowsAdvance, Places, Outcomes, Types, Terminal, Body
<1>27. ASSUME NEW r \in RunIDs, Sweep(r) PROVE RowsAdvance
  BY <1>27 DEF Sweep, RowsAdvance, Places, Outcomes, Types, Terminal, Body
<1>28. ASSUME NEW r \in RunIDs, SweepChains(r) PROVE RowsAdvance
  BY <1>28 DEF SweepChains, RowsAdvance, Places, Outcomes, Types, Terminal, Body
<1>29. ASSUME NEW r \in RunIDs, KillRun(r) PROVE RowsAdvance
  BY <1>29 DEF KillRun, RowsAdvance, Places, Outcomes, Types, Terminal, Body
<1>30. ASSUME NEW r \in RunIDs, Replay(r) PROVE RowsAdvance
  BY <1>30 DEF Replay, FireOne, Options, RowsAdvance, Places, Outcomes, Types, Terminal, Body
<1>31. ASSUME NEW w \in Waiting, WaitOpened(w) PROVE RowsAdvance
  BY <1>31 DEF WaitOpened, Return, RowsAdvance, Places, Outcomes, Types, Terminal, Body
<1>32. ASSUME NEW w \in Waiting, WaitLoad(w) PROVE RowsAdvance
  BY <1>32 DEF WaitLoad, RowsAdvance, Places, Outcomes, Types, Terminal, Body
<1>33. ASSUME NEW w \in Waiting, WaitWoken(w) PROVE RowsAdvance
  BY <1>33 DEF WaitWoken, RowsAdvance, Places, Outcomes, Types, Terminal, Body
<1>34. ASSUME NEW w \in Waiting, WaitRead(w) PROVE RowsAdvance
  BY <1>34 DEF WaitRead, Return, RowsAdvance, Places, Outcomes, Types, Terminal, Body
<1>35. ASSUME NEW w \in Waiting, WaitCancelled(w) PROVE RowsAdvance
  BY <1>35 DEF WaitCancelled, Return, RowsAdvance, Places, Outcomes, Types, Terminal, Body
<1>36. ASSUME Stop PROVE RowsAdvance
  BY <1>36 DEF Stop, RowsAdvance, Places, Outcomes, Types, Terminal, Body
<1>37. ASSUME BeginShutdown PROVE RowsAdvance
  BY <1>37 DEF BeginShutdown, RowsAdvance, Places, Outcomes, Types, Terminal, Body
<1>38. ASSUME Restart PROVE RowsAdvance
  BY <1>38 DEF Restart, RowsAdvance, Places, Outcomes, Types, Terminal, Body
<1>39. ASSUME NEW t \in Tasks, CooldownOver(t) PROVE RowsAdvance
  BY <1>39 DEF CooldownOver, RowsAdvance, Places, Outcomes, Types, Terminal, Body
<1>40. ASSUME NEW t \in Tasks, WindowOver(t) PROVE RowsAdvance
  BY <1>40 DEF WindowOver, RowsAdvance, Places, Outcomes, Types, Terminal, Body
<1>41. ASSUME NEW t \in Tasks, SuppressOver(t) PROVE RowsAdvance
  BY <1>41 DEF SuppressOver, RowsAdvance, Places, Outcomes, Types, Terminal, Body
<1>42. CASE UNCHANGED vars
  BY <1>42 DEF vars, RowsAdvance, Places, Outcomes, Types, Terminal, Body
<1> QED
  BY <1>1, <1>2, <1>3, <1>4, <1>5, <1>6, <1>7, <1>8, <1>9, <1>10, <1>11, <1>12, <1>13, <1>14,
     <1>15, <1>16, <1>17, <1>18, <1>19, <1>20, <1>21, <1>22, <1>23, <1>24, <1>25, <1>26, <1>27,
        <1>28, <1>29, <1>30, <1>31, <1>32, <1>33, <1>34, <1>35, <1>36, <1>37, <1>38, <1>39, <1>40,
           <1>41, <1>42
     DEF Next, RunStep, BodyStep, Wait

-----------------------------------------------------------------------------
(* Places and names *)

LEMMA InitPlaces == Init => Places /\ Names
  BY DEF Init, Places, Names, Body, Ending

\* Where the goroutines of other runs than the one that fires, and of the new run, are.
LEMMA FireOnePlaces ==
  ASSUME Types, Places, NEW o, FireOne(pc, o),
         UNCHANGED <<row, registered, open, holding>>
  PROVE  Places'
<1>1. PICK n \in RunIDs :
        /\ pc[n] = "none" /\ pc'[n] = "fired"
        /\ \A r \in RunIDs \ {n} : pc'[r] = pc[r]
  BY FireOneFires DEF Types
<1> QED
  BY <1>1 DEF Places, Body, Ending

LEMMA FireAllPlaces ==
  ASSUME Types, Places, NEW p \in [RunIDs -> PCs], NEW opts, IsFiniteSet(opts), FireAll(p, opts),
         UNCHANGED <<row, registered, open, holding>>,
         \A r \in RunIDs : \/ p[r] = pc[r]
                           \/ pc[r] = "chain" /\ p[r] \in {"check", "release"}
  PROVE  Places'
<1>1. PICK new \in SUBSET RunIDs :
        /\ \A r \in new : pc[r] = "none" /\ pc'[r] = "fired"
        /\ \A r \in RunIDs \ new : pc'[r] = p[r]
  BY FireAllFires
<1>2. \A r \in RunIDs : \/ pc'[r] = pc[r]
                        \/ pc[r] = "none" /\ pc'[r] = "fired"
                        \/ pc[r] = "chain" /\ pc'[r] \in {"check", "release"}
  BY <1>1
<1> QED
  BY <1>2 DEF Places, Body, Ending

LEMMA PlacesStep ==
  ASSUME Types, Places, [Next]_vars PROVE Places'
<1> USE DEF runVars, mapVars, engVars
<1>1. ASSUME NEW t \in Roots, NEW w \in Callers, FireRoot(t, w) PROVE Places'
  BY <1>1, FireOnePlaces DEF FireRoot
<1>2. ASSUME NEW t \in Roots, FireSync(t) PROVE Places'
  <2>1. NewID \in RunIDs /\ pc[NewID] = "none"
    BY <1>2, FreshID DEF FireSync
  <2> QED
    BY <1>2, <2>1 DEF FireSync, Types, Places, Body, Ending
<1>3. ASSUME NEW r \in RunIDs, Track(r) PROVE Places'
  BY <1>3 DEF Track, Goto, Places, Types, Body, Ending
<1>4. ASSUME NEW r \in RunIDs, InsertRow(r) PROVE Places'
  BY <1>4 DEF InsertRow, Goto, Places, Types, Body, Ending
<1>5. ASSUME NEW r \in RunIDs, RegisterRun(r) PROVE Places'
  BY <1>5 DEF RegisterRun, Goto, Places, Types, Body, Ending
<1>6. ASSUME NEW r \in RunIDs, AcquireSlot(r) PROVE Places'
  BY <1>6 DEF AcquireSlot, Goto, Places, Types, Body, Ending
<1>7. ASSUME NEW r \in RunIDs, AbortQueued(r) PROVE Places'
  BY <1>7 DEF AbortQueued, Goto, Places, Types, Body, Ending
<1>8. ASSUME NEW r \in RunIDs, NEW t \in Tasks, LookUp(r, t) PROVE Places'
  BY <1>8, FireOnePlaces DEF LookUp
<1>9. ASSUME NEW r \in RunIDs, Preflight(r) PROVE Places'
  BY <1>9 DEF Preflight, Goto, End, Places, Types, Body, Ending
<1>10. ASSUME NEW r \in RunIDs, Finish(r) PROVE Places'
  BY <1>10 DEF Finish, Goto, Places, Types, Body, Ending
<1>11. ASSUME NEW r \in RunIDs, FireEdges(r) PROVE Places'
  <2> DEFINE p == [pc EXCEPT ![r] = IF FailureChainApplies(r) THEN "check" ELSE "release"]
  <2>1. PICK opts \in SUBSET EdgeFires(r, row[r]) : FireAll(p, opts)
    BY <1>11 DEF FireEdges
  <2>2. p \in [RunIDs -> PCs]
        /\ \A q \in RunIDs : p[q] = pc[q] \/ (pc[q] = "chain" /\ p[q] \in {"check", "release"})
    BY <1>11 DEF FireEdges, Types, PCs, Begun, Ending
  <2>3. UNCHANGED <<row, registered, open, holding>>
    BY <1>11 DEF FireEdges
  <2> HIDE DEF p
  <2> QED
    BY <2>1, <2>2, <2>3, EdgesAreFinite, FireAllPlaces
<1>12. ASSUME NEW r \in RunIDs, CheckGuards(r) PROVE Places'
  BY <1>12 DEF CheckGuards, Goto, Places, Types, Body, Ending
<1>13. ASSUME NEW r \in RunIDs, AcquireChainSlot(r) PROVE Places'
  BY <1>13 DEF AcquireChainSlot, Goto, Places, Types, Body, Ending
<1>14. ASSUME NEW r \in RunIDs, ResolveFails(r) PROVE Places'
  BY <1>14 DEF ResolveFails, Goto, ReleaseChainSlot, Less, Places, Types, Body, Ending
<1>15. ASSUME NEW r \in RunIDs, FireFailureChain(r) PROVE Places'
  <2>1. PICK n \in RunIDs :
          /\ pc[n] = "none" /\ pc'[n] = "fired"
          /\ \A q \in RunIDs \ {n} : pc'[q] = [pc EXCEPT ![r] = "firing"][q]
    <3> DEFINE p == [pc EXCEPT ![r] = "firing"]
               o == Options(FailTo[Task(r)], "chain", r, ChainDepth(r) + 1, Task(r),
                  run[r].hops + 1)
    <3>1. p \in [RunIDs -> PCs] /\ FireOne(p, o)
      BY <1>15 DEF FireFailureChain, Types, PCs, Begun, Ending
    <3> HIDE DEF p, o
    <3>2. PICK n \in RunIDs :
            /\ pc[n] = "none" /\ pc'[n] = "fired"
            /\ \A q \in RunIDs \ {n} : pc'[q] = p[q]
      BY <3>1, FireOneFires
    <3> QED
      BY <3>2 DEF p
  <2>2. pc[r] = "resolve" /\ pc'[r] = "firing" /\ \A q \in RunIDs \ {n, r} : pc'[q] = pc[q]
    BY <1>15, <2>1 DEF FireFailureChain, Types
  <2> QED
    BY <1>15, <2>1, <2>2 DEF FireFailureChain, Places, Body, Ending
<1>16. ASSUME NEW r \in RunIDs, ChainRefused(r) PROVE Places'
  BY <1>16 DEF ChainRefused, Goto, ReleaseChainSlot, Less, Places, Types, Body, Ending
<1>17. ASSUME NEW r \in RunIDs, ChainOpened(r) PROVE Places'
  BY <1>17 DEF ChainOpened, Goto, Places, Types, Body, Ending
<1>18. ASSUME NEW r \in RunIDs, Release(r) PROVE Places'
  BY <1>18 DEF Release, Goto, ReleaseChainSlot, Less, Places, Types, Body, Ending
<1>19. ASSUME NEW r \in RunIDs, Leave(r) PROVE Places'
  BY <1>19 DEF Leave, Goto, Places, Types, Body, Ending
<1>20. ASSUME NEW r \in RunIDs, BodyEnds(r) PROVE Places'
  BY <1>20 DEF BodyEnds, MayEnd, End, Goto, Places, Types, Body, Ending
<1>21. ASSUME NEW r \in RunIDs, BodyRejected(r) PROVE Places'
  BY <1>21 DEF BodyRejected, MayEnd, End, Goto, Places, Types, Body, Ending
<1>22. ASSUME NEW r \in RunIDs, Suspend(r) PROVE Places'
  BY <1>22 DEF Suspend, MayEnd, End, Goto, Places, Types, Body, Ending
<1>23. ASSUME NEW r \in RunIDs, NEW t \in Tasks, CallTask(r, t) PROVE Places'
  BY <1>23, FireOnePlaces DEF CallTask
<1>24. ASSUME NEW r \in RunIDs, Refuse(r) PROVE Places'
  BY <1>24 DEF Refuse, Goto, Places, Types, Body, Ending
<1>25. ASSUME NEW r \in RunIDs, ProbeResume(r) PROVE Places'
  BY <1>25 DEF ProbeResume, Places, Types, Body, Ending
<1>26. ASSUME NEW r \in RunIDs, Resume(r) PROVE Places'
  <2>1. CASE row[r] = "suspended"
    <3>1. PICK n \in RunIDs :
            /\ pc[n] = "none" /\ pc'[n] = "fired"
            /\ \A q \in RunIDs \ {n} : pc'[q] = pc[q]
      BY <1>26, <2>1, FireOneFires DEF Resume, Types
    <3>2. row' = [row EXCEPT ![r] = "resumed"]
      BY <1>26, <2>1 DEF Resume
    <3> QED
      BY <1>26, <2>1, <3>1, <3>2 DEF Resume, Types, Places, Body, Ending
  <2>2. CASE row[r] # "suspended"
    BY <1>26, <2>2 DEF Resume, Places
  <2> QED
    BY <2>1, <2>2
<1>27. ASSUME NEW r \in RunIDs, Sweep(r) PROVE Places'
  BY <1>27 DEF Sweep, Places, Types, Body, Ending
<1>28. ASSUME NEW r \in RunIDs, SweepChains(r) PROVE Places'
  <2>1. PICK opts \in SUBSET EdgeFires(r, "cancelled") : FireAll(pc, opts)
    BY <1>28 DEF SweepChains
  <2>2. pc \in [RunIDs -> PCs] /\ UNCHANGED <<row, registered, open, holding>>
    BY <1>28 DEF SweepChains, Types
  <2> QED
    BY <2>1, <2>2, EdgesAreFinite, FireAllPlaces
<1>29. ASSUME NEW r \in RunIDs, KillRun(r) PROVE Places'
  BY <1>29 DEF KillRun, Places, Types, Body, Ending
<1>30. ASSUME NEW r \in RunIDs, Replay(r) PROVE Places'
  BY <1>30, FireOnePlaces DEF Replay
<1>31. ASSUME NEW w \in Waiting, WaitOpened(w) PROVE Places'
  BY <1>31 DEF WaitOpened, Return, Places, Types, Body, Ending
<1>32. ASSUME NEW w \in Waiting, WaitLoad(w) PROVE Places'
  BY <1>32 DEF WaitLoad, Places, Types, Body, Ending
<1>33. ASSUME NEW w \in Waiting, WaitWoken(w) PROVE Places'
  BY <1>33 DEF WaitWoken, Places, Types, Body, Ending
<1>34. ASSUME NEW w \in Waiting, WaitRead(w) PROVE Places'
  BY <1>34 DEF WaitRead, Places
<1>35. ASSUME NEW w \in Waiting, WaitCancelled(w) PROVE Places'
  BY <1>35 DEF WaitCancelled, Return, Places, Types, Body, Ending
<1>36. ASSUME Stop PROVE Places'
  BY <1>36 DEF Stop, Places, Types, Body, Ending
<1>37. ASSUME BeginShutdown PROVE Places'
  BY <1>37 DEF BeginShutdown, Places, Types, Body, Ending
<1>38. ASSUME Restart PROVE Places'
  BY <1>38 DEF Restart, Places, Types, Body, Ending
<1>39. ASSUME NEW t \in Tasks, CooldownOver(t) PROVE Places'
  BY <1>39 DEF CooldownOver, Places, Types, Body, Ending
<1>40. ASSUME NEW t \in Tasks, WindowOver(t) PROVE Places'
  BY <1>40 DEF WindowOver, Places, Types, Body, Ending
<1>41. ASSUME NEW t \in Tasks, SuppressOver(t) PROVE Places'
  BY <1>41 DEF SuppressOver, Places, Types, Body, Ending
<1>42. CASE UNCHANGED vars
  BY <1>42 DEF vars, Places, Types, Body, Ending
<1> QED
  BY <1>1, <1>2, <1>3, <1>4, <1>5, <1>6, <1>7, <1>8, <1>9, <1>10, <1>11, <1>12, <1>13, <1>14,
     <1>15, <1>16, <1>17, <1>18, <1>19, <1>20, <1>21, <1>22, <1>23, <1>24, <1>25, <1>26, <1>27,
        <1>28, <1>29, <1>30, <1>31, <1>32, <1>33, <1>34, <1>35, <1>36, <1>37, <1>38, <1>39, <1>40,
           <1>41, <1>42
     DEF Next, RunStep, BodyStep, Wait

LEMMA NamesStep == ASSUME Names, Advance PROVE Names'
<1>1. ASSUME NEW r \in RunIDs, FromOutside(run'[r]) \/ FromReplay(run'[r])
      PROVE  run'[r].source # "none"
  BY <1>1 DEF FromOutside, FromReplay
<1>2. ASSUME NEW r \in RunIDs, NEW q \in RunIDs,
             FromEdge(run'[r], q) \/ FromFailure(run'[r], q) \/ FromSuspension(run'[r], q)
      PROVE  run'[r].source # "none"
  BY <1>2 DEF FromEdge, FromFailure, FromSuspension
<1>3. \A r \in RunIDs : Born(r) => run'[r].task \in Tasks /\ run'[r].source # "none"
  BY <1>1, <1>2 DEF Advance
<1> QED
  BY <1>3 DEF Names, Advance, Born

-----------------------------------------------------------------------------
(* Chains *)

\* A goroutine past the guards of the failure chain.
Guarded == {"check", "acquire", "resolve", "firing"}

\* How the goroutines move that fire chains or open a chain-fired run.
ChainLabels ==
  \A r \in RunIDs :
    /\ pc'[r] \in Opening => pc[r] \in Opening \cup {"none"}
    /\ pc'[r] = "finish" /\ chains'[r] => \/ pc[r] = "finish" /\ chains[r]
                                          \/ row'[r] \in {"success", "failure", "cancelled"}
    /\ pc'[r] = "chain" => pc[r] = "chain" \/ (pc[r] = "finish" /\ chains[r])
    /\ pc'[r] \in Guarded => pc[r] \in Guarded \/ (pc[r] = "chain" /\ FailureChainApplies(r))
    /\ pc'[r] = "firing" =>
         \/ pc[r] = "firing" /\ kid'[r] = kid[r]
         \/ /\ kid'[r] \in RunIDs /\ Born(kid'[r])
            /\ run'[kid'[r]].slot = Task(r) /\ run'[kid'[r]].parent = r
    /\ pc[r] = "firing" /\ pc'[r] # "firing" => pc'[kid[r]] \notin Opening
    /\ Born(r) /\ run'[r].slot # NoTask =>
         LET p == run'[r].parent IN p \in RunIDs /\ pc'[p] = "firing" /\ kid'[p] = r

\* A fire without a failure-chain slot.
LEMMA FireOneLabels ==
  ASSUME Types, Kids, NEW o, o.slot = NoTask, FireOne(pc, o), UNCHANGED <<chains, kid>>,
         \A r \in RunIDs : pc[r] = "finish" => row'[r] = row[r]
  PROVE  ChainLabels
<1>1. PICK n \in RunIDs :
        /\ pc[n] = "none" /\ run'[n] = o /\ pc'[n] = "fired"
        /\ \A r \in RunIDs \ {n} : run'[r] = run[r] /\ pc'[r] = pc[r]
  BY FireOneFires DEF Types
<1>2. \A r \in RunIDs : Born(r) => run'[r].slot = NoTask
  BY <1>1 DEF Born
<1> QED
  BY <1>1, <1>2 DEF ChainLabels, Guarded, Opening

LEMMA FireAllLabels ==
  ASSUME Types, Kids, NEW q \in RunIDs, NEW status, NEW opts \in SUBSET EdgeFires(q, status),
         NEW p \in [RunIDs -> PCs], FireAll(p, opts), UNCHANGED <<row, chains, kid>>,
         \A r \in RunIDs : \/ p[r] = pc[r]
                           \/ pc[r] = "chain" /\ p[r] = "release"
                           \/ pc[r] = "chain" /\ p[r] = "check" /\ FailureChainApplies(r)
  PROVE  ChainLabels
<1>1. IsFiniteSet(opts)
  BY EdgesAreFinite
<1>2. PICK new \in SUBSET RunIDs :
        /\ \A r \in new : pc[r] = "none" /\ run'[r] \in opts /\ pc'[r] = "fired"
        /\ \A r \in RunIDs \ new : run'[r] = run[r] /\ pc'[r] = p[r]
  BY <1>1, FireAllFires
<1>3. \A o \in opts : o.slot = NoTask
  BY DEF EdgeFires, Options
<1>4. \A r \in RunIDs : \/ pc'[r] = pc[r]
                        \/ pc[r] = "none" /\ pc'[r] = "fired"
                        \/ pc[r] = "chain" /\ pc'[r] = "release"
                        \/ pc[r] = "chain" /\ pc'[r] = "check" /\ FailureChainApplies(r)
  BY <1>2
<1>5. \A r \in RunIDs : Born(r) => run'[r].slot = NoTask
  <2>1. \A r \in RunIDs : pc[r] = "none" /\ r \notin new => pc'[r] = "none"
    BY <1>2
  <2> QED
    BY <1>2, <1>3, <2>1 DEF Born
<1>6. \A r \in RunIDs : pc[r] = "firing" <=> pc'[r] = "firing"
  BY <1>4
<1> HIDE DEF FailureChainApplies
<1> QED
  BY <1>4, <1>5, <1>6 DEF ChainLabels, Guarded, Opening

LEMMA ChainLabelsStep ==
  ASSUME Types, Places, Outcomes, Kids, [Next]_vars PROVE ChainLabels
<1> USE DEF runVars, mapVars, engVars
<1>1. ASSUME NEW t \in Roots, NEW w \in Callers, FireRoot(t, w) PROVE ChainLabels
  <2>1. Options(t, "manual", NoRun, 0, NoTask, 0).slot = NoTask
    BY DEF Options
  <2> QED
    BY <1>1, <2>1, FireOneLabels DEF FireRoot
<1>2. ASSUME NEW t \in Roots, FireSync(t) PROVE ChainLabels
  <2>1. NewID \in RunIDs /\ pc[NewID] = "none"
    BY <1>2, FreshID DEF FireSync
  <2>2. /\ run'[NewID].slot = NoTask /\ pc'[NewID] = "reserved"
        /\ \A q \in RunIDs \ {NewID} : pc'[q] = pc[q]
    BY <1>2, <2>1 DEF FireSync, Types, Options
  <2> QED
    BY <1>2, <2>1, <2>2 DEF FireSync, ChainLabels, Born, Guarded, Opening, Kids
<1>3. ASSUME NEW r \in RunIDs, Track(r) PROVE ChainLabels
  BY <1>3 DEF Track, Goto, ChainLabels, Born, Guarded, Types, Opening, Body, Begun, Ending
<1>4. ASSUME NEW r \in RunIDs, InsertRow(r) PROVE ChainLabels
  BY <1>4 DEF InsertRow, Goto, ChainLabels, Born, Guarded, Types, Opening, Body, Begun, Ending
<1>5. ASSUME NEW r \in RunIDs, RegisterRun(r) PROVE ChainLabels
  BY <1>5 DEF RegisterRun, Goto, ChainLabels, Born, Guarded, Types, Opening, Body, Begun, Ending
<1>6. ASSUME NEW r \in RunIDs, AcquireSlot(r) PROVE ChainLabels
  BY <1>6 DEF AcquireSlot, Goto, ChainLabels, Born, Guarded, Types, Opening, Body, Begun, Ending
<1>7. ASSUME NEW r \in RunIDs, AbortQueued(r) PROVE ChainLabels
  BY <1>7 DEF AbortQueued, Goto, ChainLabels, Born, Guarded, Types, Opening, Body, Begun, Ending
<1>8. ASSUME NEW r \in RunIDs, NEW t \in Tasks, LookUp(r, t) PROVE ChainLabels
  <2>1. Options(t, "provider", NoRun, 0, NoTask, 0).slot = NoTask
    BY DEF Options
  <2> QED
    BY <1>8, <2>1, FireOneLabels DEF LookUp
<1>9. ASSUME NEW r \in RunIDs, Preflight(r) PROVE ChainLabels
  BY <1>9 DEF Preflight, Goto, End, ChainLabels, Born, Guarded, Types, Opening, Body, Begun, Ending
<1>10. ASSUME NEW r \in RunIDs, Finish(r) PROVE ChainLabels
  BY <1>10 DEF Finish, Goto, ChainLabels, Born, Guarded, Types, Opening, Body, Begun, Ending
<1>11. ASSUME NEW r \in RunIDs, FireEdges(r) PROVE ChainLabels
  <2> DEFINE p == [pc EXCEPT ![r] = IF FailureChainApplies(r) THEN "check" ELSE "release"]
  <2>1. PICK opts \in SUBSET EdgeFires(r, row[r]) : FireAll(p, opts)
    BY <1>11 DEF FireEdges
  <2>2. p \in [RunIDs -> PCs]
        /\ \A q \in RunIDs : \/ p[q] = pc[q]
                             \/ pc[q] = "chain" /\ p[q] = "release"
                             \/ pc[q] = "chain" /\ p[q] = "check" /\ FailureChainApplies(q)
    BY <1>11 DEF FireEdges, Types, PCs, Begun, Ending
  <2>3. UNCHANGED <<row, chains, kid>>
    BY <1>11 DEF FireEdges
  <2> HIDE DEF p
  <2> QED
    BY <2>1, <2>2, <2>3, FireAllLabels
<1>12. ASSUME NEW r \in RunIDs, CheckGuards(r) PROVE ChainLabels
  BY <1>12 DEF CheckGuards, Goto, ChainLabels, Born, Guarded, Types, Opening, Body, Begun, Ending
<1>13. ASSUME NEW r \in RunIDs, AcquireChainSlot(r) PROVE ChainLabels
  BY <1>13 DEF AcquireChainSlot, Goto, ChainLabels, Born, Guarded, Types, Opening, Body, Begun,
     Ending
<1>14. ASSUME NEW r \in RunIDs, ResolveFails(r) PROVE ChainLabels
  BY <1>14 DEF ResolveFails, Goto, ReleaseChainSlot, Less, ChainLabels, Born, Guarded, Types,
     Opening, Body, Begun, Ending
<1>15. ASSUME NEW r \in RunIDs, FireFailureChain(r) PROVE ChainLabels
  <2> DEFINE p == [pc EXCEPT ![r] = "firing"]
             o == Options(FailTo[Task(r)], "chain", r, ChainDepth(r) + 1, Task(r), run[r].hops + 1)
  <2>1. p \in [RunIDs -> PCs] /\ FireOne(p, o)
    BY <1>15 DEF FireFailureChain, Types, PCs, Begun, Ending
  <2>2. o.slot = Task(r) /\ o.parent = r
    BY DEF Options
  <2> HIDE DEF p, o
  <2>3. PICK n \in RunIDs :
          /\ n = NewID /\ pc[n] = "none" /\ run'[n] = o /\ pc'[n] = "fired"
          /\ \A q \in RunIDs \ {n} : run'[q] = run[q] /\ pc'[q] = p[q]
    BY <2>1, FireOneFires
  <2>4. /\ pc[r] = "resolve" /\ pc'[r] = "firing" /\ kid'[r] = n /\ n # r
        /\ \A q \in RunIDs \ {n, r} : pc'[q] = pc[q] /\ kid'[q] = kid[q]
    BY <1>15, <2>3 DEF FireFailureChain, Types, p
  <2>5. \A q \in RunIDs : Born(q) <=> q = n
    BY <2>3, <2>4 DEF Born
  <2> QED
    BY <1>15, <2>2, <2>3, <2>4, <2>5 DEF FireFailureChain, ChainLabels, Guarded, Opening
<1>16. ASSUME NEW r \in RunIDs, ChainRefused(r) PROVE ChainLabels
  BY <1>16 DEF ChainRefused, Goto, ReleaseChainSlot, Less, ChainLabels, Born, Guarded, Types,
     Opening, Body, Begun, Ending
<1>17. ASSUME NEW r \in RunIDs, ChainOpened(r) PROVE ChainLabels
  BY <1>17 DEF ChainOpened, Goto, ChainLabels, Born, Guarded, Types, Opening, Body, Begun, Ending
<1>18. ASSUME NEW r \in RunIDs, Release(r) PROVE ChainLabels
  BY <1>18 DEF Release, Goto, ReleaseChainSlot, Less, ChainLabels, Born, Guarded, Types, Opening,
     Body, Begun, Ending
<1>19. ASSUME NEW r \in RunIDs, Leave(r) PROVE ChainLabels
  BY <1>19 DEF Leave, Goto, ChainLabels, Born, Guarded, Types, Opening, Body, Begun, Ending
<1>20. ASSUME NEW r \in RunIDs, BodyEnds(r) PROVE ChainLabels
  BY <1>20 DEF BodyEnds, MayEnd, End, Goto, ChainLabels, Born, Guarded, Types, Opening, Body,
     Begun, Ending
<1>21. ASSUME NEW r \in RunIDs, BodyRejected(r) PROVE ChainLabels
  BY <1>21 DEF BodyRejected, MayEnd, End, Goto, ChainLabels, Born, Guarded, Types, Opening, Body,
     Begun, Ending
<1>22. ASSUME NEW r \in RunIDs, Suspend(r) PROVE ChainLabels
  BY <1>22 DEF Suspend, MayEnd, End, Goto, ChainLabels, Born, Guarded, Types, Opening, Body,
     Begun, Ending
<1>23. ASSUME NEW r \in RunIDs, NEW t \in Tasks, CallTask(r, t) PROVE ChainLabels
  <2>1. Options(t, "manual", r, 0, NoTask, 0).slot = NoTask
    BY DEF Options
  <2> QED
    BY <1>23, <2>1, FireOneLabels DEF CallTask
<1>24. ASSUME NEW r \in RunIDs, Refuse(r) PROVE ChainLabels
  BY <1>24 DEF Refuse, Goto, ChainLabels, Born, Guarded, Types, Opening, Body, Begun, Ending
<1>25. ASSUME NEW r \in RunIDs, ProbeResume(r) PROVE ChainLabels
  BY <1>25 DEF ProbeResume, ChainLabels, Born, Guarded, Types, Opening, Body, Begun, Ending
<1>26. ASSUME NEW r \in RunIDs, Resume(r) PROVE ChainLabels
  <2>1. CASE row[r] = "suspended"
    <3>1. Options(Task(r), "resume", r, carry[r], NoTask, run[r].hops).slot = NoTask
      BY DEF Options
    <3>2. FireOne(pc, Options(Task(r), "resume", r, carry[r], NoTask, run[r].hops))
      BY <1>26, <2>1 DEF Resume
    <3>3. PICK n \in RunIDs :
            /\ pc[n] = "none" /\ run'[n].slot = NoTask /\ pc'[n] = "fired"
            /\ \A q \in RunIDs \ {n} : run'[q] = run[q] /\ pc'[q] = pc[q]
      BY <3>1, <3>2, FireOneFires DEF Types
    <3>4. \A q \in RunIDs : Born(q) => run'[q].slot = NoTask
      BY <3>3 DEF Born
    <3>5. UNCHANGED <<chains, kid>>
      BY <1>26 DEF Resume
    <3>6. \A q \in RunIDs : pc'[q] = pc[q] \/ (pc[q] = "none" /\ pc'[q] = "fired")
      BY <3>3
    <3>7. \A q \in RunIDs : pc[q] = "firing" <=> pc'[q] = "firing"
      BY <3>6
    <3> HIDE DEF FailureChainApplies, Born
    <3> QED
      BY <3>4, <3>5, <3>6, <3>7 DEF ChainLabels, Guarded, Opening
  <2>2. CASE row[r] # "suspended"
    BY <1>26, <2>2 DEF Resume, ChainLabels, Born
  <2> QED
    BY <2>1, <2>2
<1>27. ASSUME NEW r \in RunIDs, Sweep(r) PROVE ChainLabels
  BY <1>27 DEF Sweep, ChainLabels, Born, Guarded, Types, Opening, Body, Begun, Ending
<1>28. ASSUME NEW r \in RunIDs, SweepChains(r) PROVE ChainLabels
  <2>1. PICK opts \in SUBSET EdgeFires(r, "cancelled") : FireAll(pc, opts)
    BY <1>28 DEF SweepChains
  <2>2. pc \in [RunIDs -> PCs] /\ UNCHANGED <<row, chains, kid>>
    BY <1>28 DEF SweepChains, Types
  <2> QED
    BY <2>1, <2>2, FireAllLabels
<1>29. ASSUME NEW r \in RunIDs, KillRun(r) PROVE ChainLabels
  BY <1>29 DEF KillRun, ChainLabels, Born, Guarded, Types, Opening, Body, Begun, Ending
<1>30. ASSUME NEW r \in RunIDs, Replay(r) PROVE ChainLabels
  <2>1. PICK d \in {0} \cup (IF run[r].source \in {"chain", "replay"} THEN {run[r].depth} ELSE {}) :
          FireOne(pc, Options(Task(r), "replay", r, d, NoTask, d))
    BY <1>30 DEF Replay
  <2>2. Options(Task(r), "replay", r, d, NoTask, d).slot = NoTask
    BY DEF Options
  <2> QED
    BY <1>30, <2>1, <2>2, FireOneLabels DEF Replay
<1>31. ASSUME NEW w \in Waiting, WaitOpened(w) PROVE ChainLabels
  BY <1>31 DEF WaitOpened, Return, ChainLabels, Born, Guarded, Types, Opening, Body, Begun, Ending
<1>32. ASSUME NEW w \in Waiting, WaitLoad(w) PROVE ChainLabels
  BY <1>32 DEF WaitLoad, ChainLabels, Born, Guarded, Types, Opening, Body, Begun, Ending
<1>33. ASSUME NEW w \in Waiting, WaitWoken(w) PROVE ChainLabels
  BY <1>33 DEF WaitWoken, ChainLabels, Born, Guarded, Types, Opening, Body, Begun, Ending
<1>34. ASSUME NEW w \in Waiting, WaitRead(w) PROVE ChainLabels
  BY <1>34 DEF WaitRead, Return, ChainLabels, Born, Guarded, Types, Opening, Body, Begun, Ending
<1>35. ASSUME NEW w \in Waiting, WaitCancelled(w) PROVE ChainLabels
  BY <1>35 DEF WaitCancelled, Return, ChainLabels, Born, Guarded, Types, Opening, Body, Begun,
     Ending
<1>36. ASSUME Stop PROVE ChainLabels
  BY <1>36 DEF Stop, ChainLabels, Born, Guarded, Types, Opening, Body, Begun, Ending
<1>37. ASSUME BeginShutdown PROVE ChainLabels
  BY <1>37 DEF BeginShutdown, ChainLabels, Born, Guarded, Types, Opening, Body, Begun, Ending
<1>38. ASSUME Restart PROVE ChainLabels
  <2>1. \A r \in RunIDs : pc'[r] \in {"none", "refused",
     "gone"} /\ (pc'[r] = "none" <=> pc[r] = "none")
    BY <1>38 DEF Restart, Types
  <2>2. \A r \in RunIDs : pc[r] = "firing" => kid[r] \in RunIDs
    BY DEF Kids
  <2> QED
    BY <2>1, <2>2 DEF ChainLabels, Born, Guarded, Opening
<1>39. ASSUME NEW t \in Tasks, CooldownOver(t) PROVE ChainLabels
  BY <1>39 DEF CooldownOver, ChainLabels, Born, Guarded, Types, Opening, Body, Begun, Ending
<1>40. ASSUME NEW t \in Tasks, WindowOver(t) PROVE ChainLabels
  BY <1>40 DEF WindowOver, ChainLabels, Born, Guarded, Types, Opening, Body, Begun, Ending
<1>41. ASSUME NEW t \in Tasks, SuppressOver(t) PROVE ChainLabels
  BY <1>41 DEF SuppressOver, ChainLabels, Born, Guarded, Types, Opening, Body, Begun, Ending
<1>42. CASE UNCHANGED vars
  BY <1>42 DEF vars, ChainLabels, Born, Guarded, Types, Opening, Body, Begun, Ending
<1> QED
  BY <1>1, <1>2, <1>3, <1>4, <1>5, <1>6, <1>7, <1>8, <1>9, <1>10, <1>11, <1>12, <1>13, <1>14,
     <1>15, <1>16, <1>17, <1>18, <1>19, <1>20, <1>21, <1>22, <1>23, <1>24, <1>25, <1>26, <1>27,
        <1>28, <1>29, <1>30, <1>31, <1>32, <1>33, <1>34, <1>35, <1>36, <1>37, <1>38, <1>39, <1>40,
           <1>41, <1>42
     DEF Next, RunStep, BodyStep, Wait

LEMMA InitChains == Init => Outcomes /\ Kids /\ Parents /\ Continues /\ Depths
<1> SUFFICES ASSUME Init PROVE Outcomes /\ Kids /\ Parents /\ Continues /\ Depths
  OBVIOUS
<1>1. \A r \in RunIDs : /\ pc[r] = "none" /\ row[r] = "none" /\ run[r].source = "none"
                        /\ run[r].slot = NoTask /\ run[r].hops = 0 /\ run[r].depth = 0
  BY DEF Init, Blank
<1>2. Outcomes /\ Kids
  BY <1>1 DEF Init, Outcomes, Kids
<1>3. Parents /\ Continues
  BY <1>1 DEF Parents, ChainsFollowTheEnd, Continues
<1>4. Depths
  <2>1. HopsBounded
    BY <1>1, RunAssumption DEF HopsBounded
  <2> QED
    BY <1>1, <2>1 DEF Depths, Init
<1> QED
  BY <1>2, <1>3, <1>4

LEMMA OutcomesStep ==
  ASSUME Types, Places, Places', Names, Outcomes, Advance, RowsAdvance, ChainLabels
  PROVE  Outcomes'
<1> SUFFICES ASSUME NEW r \in RunIDs
             PROVE  /\ pc'[r] = "finish" /\ chains'[r] => row'[r] \in {"success", "failure", "cancelled"}
                    /\ pc'[r] \in {"chain"} \cup Guarded => row'[r] \in {"success", "failure", "cancelled"}
                    /\ pc'[r] \in Guarded => FailureChainApplies(r)'
                    /\ r \in swept' => row'[r] = "cancelled"
  BY DEF Outcomes, Guarded
<1>1. row[r] \in {"success", "failure", "cancelled"} => row'[r] = row[r]
  BY DEF RowsAdvance, Terminal
<1>2. pc'[r] = "finish" /\ chains'[r] => row'[r] \in {"success", "failure", "cancelled"}
  BY <1>1 DEF Outcomes, ChainLabels
<1>3. pc'[r] \in {"chain"} \cup Guarded => row'[r] \in {"success", "failure", "cancelled"}
  BY <1>1 DEF Outcomes, ChainLabels, Guarded
<1>4. ASSUME pc'[r] \in Guarded PROVE FailureChainApplies(r)'
  <2>1. FailureChainApplies(r) /\ pc[r] \in Guarded \cup {"chain"}
    BY <1>4 DEF ChainLabels, Outcomes, Guarded
  <2>2. run'[r] = run[r] /\ r \in registered /\ r \in registered'
    BY <1>4, <2>1 DEF Advance, Guarded, Places, Ending
  <2> QED
    BY <1>1, <2>1, <2>2 DEF FailureChainApplies, ChainDepth, Task
<1>5. r \in swept' => row'[r] = "cancelled"
  BY DEF RowsAdvance
<1> QED
  BY <1>2, <1>3, <1>4, <1>5

\* The run that takes over a failure-chain slot is the task its parent fails to.
LEMMA SlotGoesOver ==
  ASSUME Types, Names, Outcomes, NEW o, NEW q \in RunIDs, FromFailure(o, q)
  PROVE  /\ o.slot \in Tasks /\ o.slot # NoTask /\ o.task = FailTo[o.slot] /\ o.task # o.slot
         /\ q \in RunIDs /\ FailureChainApplies(q)
<1>1. FailureChainApplies(q) /\ Task(q) \in Tasks
  BY DEF FromFailure, Outcomes, Names, Task
<1> QED
  BY <1>1, RunAssumption DEF FailureChainApplies, FromFailure

\* A new run with a failure-chain slot comes from a parent past its guards.
LEMMA SlotsFromFailures ==
  ASSUME Advance, NEW r \in RunIDs, Born(r), run'[r].slot # NoTask
  PROVE  \E q \in RunIDs : FromFailure(run'[r], q)
  BY DEF Advance, FromOutside, FromReplay, FromEdge, FromSuspension

LEMMA KidsStep ==
  ASSUME Types, Types', Places, Names, Names', Outcomes, Kids, Advance, ChainLabels
  PROVE  Kids'
<1>1. ASSUME NEW r \in RunIDs, pc'[r] = "firing"
      PROVE  /\ kid'[r] \in RunIDs /\ pc'[kid'[r]] # "none"
             /\ run'[kid'[r]].parent = r /\ run'[kid'[r]].slot = run'[r].task
  <2>1. pc[r] # "none" /\ run'[r] = run[r]
    BY <1>1 DEF ChainLabels, Advance, Guarded
  <2>2. CASE pc[r] = "firing" /\ kid'[r] = kid[r]
    BY <2>1, <2>2 DEF Kids, Advance, Task
  <2>3. CASE /\ kid'[r] \in RunIDs /\ Born(kid'[r])
             /\ run'[kid'[r]].slot = Task(r) /\ run'[kid'[r]].parent = r
    BY <2>1, <2>3 DEF Born, Task
  <2> QED
    BY <1>1, <2>2, <2>3 DEF ChainLabels
<1>2. ASSUME NEW r \in RunIDs, run'[r].slot # NoTask
      PROVE  /\ run'[r].parent \in RunIDs /\ run'[r].task = FailTo[run'[r].slot]
             /\ run'[r].task # run'[r].slot /\ run'[r].source = "chain"
  <2>1. CASE Born(r)
    <3>1. PICK q \in RunIDs : FromFailure(run'[r], q)
      BY <1>2, <2>1, SlotsFromFailures
    <3> QED
      BY <3>1, SlotGoesOver DEF FromFailure
  <2>2. CASE ~Born(r)
    <3>1. run'[r] = run[r]
      BY <2>2 DEF Advance, Born
    <3> QED
      BY <1>2, <3>1 DEF Kids
  <2> QED
    BY <2>1, <2>2
<1>3. ASSUME NEW r \in RunIDs, run'[r].slot # NoTask, pc'[r] \in Opening
      PROVE  pc'[run'[r].parent] = "firing" /\ kid'[run'[r].parent] = r
  <2>1. CASE Born(r)
    BY <1>3, <2>1 DEF ChainLabels
  <2>2. CASE ~Born(r)
    <3> DEFINE p == run[r].parent
    <3>1. pc[r] \in Opening /\ run'[r] = run[r]
      BY <1>3, <2>2 DEF ChainLabels, Advance, Born, Opening
    <3>2. p \in RunIDs /\ pc[p] = "firing" /\ kid[p] = r
      BY <1>3, <3>1 DEF Kids
    <3>3. pc'[p] = "firing"
      BY <1>3, <3>2 DEF ChainLabels
    <3>4. kid'[p] = kid[p]
      <4>1. ~(kid'[p] \in RunIDs /\ Born(kid'[p]) /\ run'[kid'[p]].slot = Task(p) /\ run'[kid'[p]].parent = p)
        <5> SUFFICES ASSUME kid'[p] \in RunIDs, Born(kid'[p]), run'[kid'[p]].slot = Task(p),
                            run'[kid'[p]].parent = p
                     PROVE  FALSE
          OBVIOUS
        <5>1. Task(p) # NoTask
          BY <3>2, RunAssumption DEF Names, Task
        <5>2. PICK q \in RunIDs : FromFailure(run'[kid'[p]], q)
          BY <5>1, SlotsFromFailures
        <5> QED
          BY <3>2, <5>2 DEF FromFailure
      <4> QED
        BY <3>2, <3>3, <4>1 DEF ChainLabels
    <3> QED
      BY <3>1, <3>2, <3>3, <3>4
  <2> QED
    BY <2>1, <2>2
<1> QED
  BY <1>1, <1>2, <1>3 DEF Kids, Task

LEMMA ParentsStep ==
  ASSUME Types, Places, Names, Outcomes, Parents, Advance, RowsAdvance
  PROVE  Parents'
<1> SUFFICES ASSUME NEW r \in RunIDs, run'[r].source \in {"chain", "resume"}
             PROVE  /\ run'[r].parent \in RunIDs
                    /\ run'[r].source = "chain" =>
                         LET p == run'[r].parent
                         IN /\ row'[p] \in {"success", "failure", "cancelled"}
                            /\ IF run'[r].slot # NoTask THEN row'[p] = "failure" /\ run'[p].source # "replay"
                               ELSE \E e \in Matching(run'[p].task, row'[p]) : e.to = run'[r].task
  BY DEF Parents, ChainsFollowTheEnd, Task, Matching
<1>1. \A q \in RunIDs : row[q] \in {"success", "failure", "cancelled"} =>
        row'[q] = row[q] /\ run'[q] = run[q]
  BY DEF RowsAdvance, Terminal, Places, Advance
<1>2. CASE ~Born(r)
  <2>1. run'[r] = run[r]
    BY <1>2 DEF Advance, Born
  <2> QED
    BY <1>1, <2>1 DEF Parents, ChainsFollowTheEnd, Task
<1>3. CASE Born(r)
  <2>1. ASSUME NEW q \in RunIDs, FromEdge(run'[r], q)
        PROVE  /\ run'[r].parent = q /\ run'[r].slot = NoTask
               /\ row'[q] \in {"success", "failure", "cancelled"}
               /\ \E e \in Matching(run'[q].task, row'[q]) : e.to = run'[r].task
    BY <1>1, <2>1 DEF FromEdge, Task
  <2>2. ASSUME NEW q \in RunIDs, FromFailure(run'[r], q)
        PROVE  /\ run'[r].parent = q /\ run'[r].slot # NoTask
               /\ row'[q] = "failure" /\ run'[q].source # "replay"
    <3>1. run'[r].slot # NoTask /\ FailureChainApplies(q)
      BY <2>2, SlotGoesOver
    <3>2. q \in registered
      BY <2>2 DEF FromFailure, Places, Ending
    <3> QED
      BY <1>1, <2>2, <3>1, <3>2 DEF FromFailure, FailureChainApplies
  <2>3. \A q \in RunIDs : FromSuspension(run'[r], q) => run'[r].source = "resume" /\ run'[r].parent = q
    BY DEF FromSuspension
  <2>4. ~FromOutside(run'[r]) /\ ~FromReplay(run'[r])
    BY DEF FromOutside, FromReplay
  <2>5. \/ \E q \in RunIDs : FromEdge(run'[r], q) \/ FromFailure(run'[r], q)
        \/ \E q \in RunIDs : FromSuspension(run'[r], q)
    BY <1>3, <2>4 DEF Advance
  <2> QED
    BY <2>1, <2>2, <2>3, <2>5
<1> QED
  BY <1>2, <1>3

LEMMA ContinuesStep ==
  ASSUME Types, Places, Names, Parents, Continues, Advance, RowsAdvance
  PROVE  Continues'
<1>1. \A q \in RunIDs : row[q] = "resumed" => row'[q] = "resumed"
  BY DEF RowsAdvance, Terminal
<1>2. ASSUME NEW r \in RunIDs, Born(r), run'[r].source = "resume"
      PROVE  /\ \E q \in RunIDs : FromSuspension(run'[r], q)
             /\ \A q \in RunIDs : Born(q) => q = r
  BY <1>2 DEF Advance, FromOutside, FromReplay, FromEdge, FromFailure
<1>3. \A r \in RunIDs : ~Born(r) => run'[r] = run[r]
  BY DEF Advance, Born
<1>4. ASSUME NEW r \in RunIDs, run'[r].source = "resume"
      PROVE  row'[run'[r].parent] = "resumed"
  <2>1. CASE Born(r)
    BY <1>2, <1>4, <2>1 DEF FromSuspension
  <2>2. CASE ~Born(r)
    BY <1>1, <1>3, <1>4, <2>2 DEF Parents, Continues
  <2> QED
    BY <2>1, <2>2
<1>5. ASSUME NEW r1 \in RunIDs, NEW r2 \in RunIDs, Born(r1), ~Born(r2),
             run'[r1].source = "resume", run'[r2].source = "resume",
             run'[r1].parent = run'[r2].parent
      PROVE  FALSE
  <2>1. row[run'[r1].parent] = "suspended"
    BY <1>2, <1>5 DEF FromSuspension
  <2>2. row[run'[r2].parent] = "resumed"
    BY <1>3, <1>5 DEF Continues
  <2> QED
    BY <1>5, <2>1, <2>2
<1>6. ASSUME NEW r1 \in RunIDs, NEW r2 \in RunIDs,
             run'[r1].source = "resume", run'[r2].source = "resume",
             run'[r1].parent = run'[r2].parent
      PROVE  r1 = r2
  <2>1. CASE Born(r1) /\ Born(r2)
    BY <1>2, <1>6, <2>1
  <2>2. CASE ~Born(r1) /\ ~Born(r2)
    BY <1>3, <1>6, <2>2 DEF Continues
  <2> QED
    BY <1>5, <1>6, <2>1, <2>2
<1> QED
  BY <1>4, <1>6 DEF Continues

\* The most hops a run may be away from the fire that started it.
Ceiling(o) ==
  CASE o.slot # NoTask -> MaxFail
    [] o.slot = NoTask /\ o.source = "chain" -> MaxSuccess
    [] OTHER -> IF MaxFail > MaxSuccess THEN MaxFail ELSE MaxSuccess

LEMMA DepthsStep ==
  ASSUME Types, Types', Places, Names, Outcomes, Depths, Advance, RowsAdvance
  PROVE  Depths'
<1> SUFFICES ASSUME "sweep" \notin may
             PROVE  /\ swept' = {}
                    /\ \A r \in RunIDs : run'[r].hops = run'[r].depth
                    /\ \A r \in RunIDs : row'[r] = "suspended" => carry'[r] = run'[r].depth
                    /\ HopsBounded'
  BY DEF Depths, RowsAdvance
<1>1. swept' = {}
  BY DEF Depths, RowsAdvance, Types
<1>2. ASSUME NEW r \in RunIDs PROVE run[r].hops = run[r].depth /\ run[r].depth <= Ceiling(run[r])
  BY DEF Depths, HopsBounded, Ceiling
<1>3. \A r \in RunIDs : ~Born(r) => run'[r] = run[r]
  BY DEF Advance, Born
<1>4. ASSUME NEW r \in RunIDs, Born(r)
      PROVE  run'[r].hops = run'[r].depth /\ run'[r].hops <= Ceiling(run'[r])
  <2>1. MaxFail \in Nat /\ MaxSuccess \in Nat /\ run'[r].depth \in Nat /\ run'[r].hops \in Nat
    BY RunAssumption DEF Types, RunType
  <2>2. CASE FromOutside(run'[r])
    BY <2>1, <2>2 DEF FromOutside, Ceiling
  <2>3. ASSUME NEW q \in RunIDs PROVE run[q].depth <= IF MaxFail > MaxSuccess THEN MaxFail ELSE MaxSuccess
    <3>1. run[q].depth \in Nat
      BY DEF Types, RunType
    <3> QED
      BY <1>2, <2>1, <3>1 DEF Ceiling
  <2>4. CASE FromReplay(run'[r])
    BY <2>1, <2>3, <2>4 DEF FromReplay, Ceiling
  <2>5. ASSUME NEW q \in RunIDs, FromEdge(run'[r], q)
        PROVE  run'[r].hops = run'[r].depth /\ run'[r].hops <= Ceiling(run'[r])
    <3>1. ChainDepth(q) = run[q].hops
      BY <1>2, <2>5 DEF FromEdge, ChainDepth, Depths
    <3> QED
      BY <2>1, <2>5, <3>1 DEF FromEdge, Ceiling
  <2>6. ASSUME NEW q \in RunIDs, FromFailure(run'[r], q)
        PROVE  run'[r].hops = run'[r].depth /\ run'[r].hops <= Ceiling(run'[r])
    <3>1. FailureChainApplies(q) /\ run'[r].slot # NoTask
      BY <2>6, SlotGoesOver
    <3>2. q \in registered
      BY <2>6 DEF FromFailure, Places, Ending
    <3>3. ChainDepth(q) = run[q].hops
      BY <1>2, <3>2 DEF ChainDepth
    <3> QED
      BY <2>1, <2>6, <3>1, <3>3 DEF FromFailure, FailureChainApplies, Ceiling
  <2>7. ASSUME NEW q \in RunIDs, FromSuspension(run'[r], q)
        PROVE  run'[r].hops = run'[r].depth /\ run'[r].hops <= Ceiling(run'[r])
    <3>1. carry[q] = run[q].depth
      BY <2>7 DEF FromSuspension, Depths
    <3> QED
      BY <1>2, <2>1, <2>3, <2>7, <3>1 DEF FromSuspension, Ceiling
  <2> QED
    BY <1>4, <2>2, <2>4, <2>5, <2>6, <2>7 DEF Advance
<1>5. ASSUME NEW r \in RunIDs PROVE run'[r].hops = run'[r].depth /\ run'[r].hops <= Ceiling(run'[r])
  BY <1>2, <1>3, <1>4
<1>6. ASSUME NEW r \in RunIDs, row'[r] = "suspended" PROVE carry'[r] = run'[r].depth
  <2>1. row[r] = "suspended" \/ (pc[r] # "none" /\ carry'[r] = run[r].depth)
    BY <1>6 DEF RowsAdvance
  <2>2. carry'[r] = run[r].depth
    BY <1>6, <2>1 DEF RowsAdvance, Depths
  <2>3. pc[r] # "none"
    BY <1>6, <2>1 DEF Places, RowsAdvance
  <2> QED
    BY <2>2, <2>3 DEF Advance
<1>7. HopsBounded'
  BY <1>5 DEF HopsBounded, Ceiling
<1> QED
  BY <1>1, <1>5, <1>6, <1>7

-----------------------------------------------------------------------------
(* Counters *)

LEMMA FinitePairs ==
  ASSUME NEW S, NEW T, IsFiniteSet(S), IsFiniteSet(T) PROVE IsFiniteSet(S \X T)
<1> DEFINE n == Cardinality(S)
           m == Cardinality(T)
<1>1. n \in Nat /\ m \in Nat
  BY FS_CardinalityType
<1>2. PICK f \in Bijection(1..n, S) : TRUE
  BY FS_CardinalityType, Fun_ExistsBij
<1>3. PICK g \in Bijection(1..m, T) : TRUE
  BY FS_CardinalityType, Fun_ExistsBij
<1> HIDE DEF n, m
<1>4. \A s \in S : \E i \in 1..n : f[i] = s
  BY <1>2 DEF Bijection, Surjection
<1>5. \A s \in T : \E i \in 1..m : g[i] = s
  BY <1>3 DEF Bijection, Surjection
<1> DEFINE no(s) == CHOOSE i \in 1..n : f[i] = s
           mo(s) == CHOOSE i \in 1..m : g[i] = s
           code == [x \in S \X T |-> no(x[1]) * m + mo(x[2])]
           top == n * m + m
<1>6. \A s \in S : no(s) \in 1..n /\ f[no(s)] = s
  BY <1>4
<1>7. \A s \in T : mo(s) \in 1..m /\ g[mo(s)] = s
  BY <1>5
<1> HIDE DEF no, mo
<1>8. ASSUME NEW a \in 1..n, NEW b \in 1..m PROVE a * m + b \in 0..top
  <2>1. a * m \in Nat /\ n * m \in Nat /\ a * m <= n * m
    BY <1>1
  <2> QED
    BY <1>1, <2>1
<1>9. ASSUME NEW a1 \in 1..n, NEW b1 \in 1..m, NEW a2 \in 1..n, NEW b2 \in 1..m,
             a1 * m + b1 = a2 * m + b2
      PROVE  a1 = a2 /\ b1 = b2
  <2>1. ASSUME NEW x \in Nat, NEW y \in Nat, x < y PROVE x * m + m <= y * m
    <3>1. y - x - 1 \in Nat /\ y = x + 1 + (y - x - 1)
      BY <2>1
    <3>2. (y - x - 1) * m \in Nat
      BY <1>1, <3>1
    <3>3. y * m = x * m + m + (y - x - 1) * m
      BY <1>1, <3>1
    <3>4. x * m \in Nat
      BY <1>1
    <3> QED
      BY <1>1, <3>2, <3>3, <3>4
  <2>2. a1 * m \in Nat /\ a2 * m \in Nat
    BY <1>1
  <2>3. ~(a1 < a2) /\ ~(a2 < a1)
    BY <1>1, <1>9, <2>1, <2>2
  <2> QED
    BY <1>1, <1>9, <2>2, <2>3
<1>10. top \in Int /\ IsFiniteSet(0..top)
  BY <1>1, FS_Interval
<1> HIDE DEF top
<1>11. code \in [S \X T -> 0..top]
  BY <1>6, <1>7, <1>8
<1>12. \A x, y \in S \X T : code[x] = code[y] => x = y
  <2> SUFFICES ASSUME NEW x \in S \X T, NEW y \in S \X T, code[x] = code[y] PROVE x = y
    OBVIOUS
  <2>1. no(x[1]) * m + mo(x[2]) = no(y[1]) * m + mo(y[2])
    OBVIOUS
  <2>2. no(x[1]) = no(y[1]) /\ mo(x[2]) = mo(y[2])
    BY <1>6, <1>7, <1>9, <2>1
  <2> QED
    BY <1>6, <1>7, <2>2
<1> HIDE DEF code
<1>13. code \in Injection(S \X T, 0..top)
  BY <1>11, <1>12, Fun_IsInj
<1> QED
  BY <1>10, <1>13, FS_Injection

LEMMA TicketsAreFinite ==
  /\ IsFiniteSet(Writing) /\ IsFiniteSet(Tickets)
  /\ \A t : IsFiniteSet(ChainHolders(t))
<1>1. IsFiniteSet(RunIDs \X Tasks)
  BY RunAssumption, FinitePairs
<1> QED
  BY <1>1, RunAssumption, FS_Subset DEF Writing, Tickets, ChainHolders

\* What makes a run hold the failure-chain slot of t.
Live == Opening \cup Body \cup Ending
Holds(r, t) ==
  \/ pc[r] = "resolve" /\ run[r].task = t
  \/ /\ run[r].slot = t
     /\ \/ pc[r] \in Live
        \/ pc[r] = "refused" /\ pc[run[r].parent] = "firing" /\ kid[run[r].parent] = r

LEMMA HoldersHold ==
  /\ \A r \in RunIDs, t \in Tasks : r \in ChainHolders(t) <=> Holds(r, t)
  /\ Tickets = {x \in RunIDs \X Tasks : Holds(x[1], x[2])}
  BY DEF ChainHolders, Holds, Tickets, Task, Live

\* The tickets stay as they are ...
LEMMA TicketsKept ==
  ASSUME ChainSlotsExact, UNCHANGED <<inFlight, inFlightGlobal>>,
         \A r \in RunIDs, t \in Tasks : Holds(r, t)' <=> Holds(r, t)
  PROVE  ChainSlotsExact'
<1>1. \A t \in Tasks : ChainHolders(t)' = ChainHolders(t)
  <2>1. \A r \in RunIDs, t \in Tasks : r \in ChainHolders(t)' <=> Holds(r, t)'
    BY HoldersHold DEF ChainHolders, Holds, Task, Live
  <2> QED
    BY <2>1, HoldersHold DEF ChainHolders
<1>2. Tickets' = Tickets
  BY <1>1 DEF Tickets
<1> QED
  BY <1>1, <1>2 DEF ChainSlotsExact, Tickets

\* ... or one is taken ...
LEMMA TicketTaken ==
  ASSUME Types, ChainSlotsExact, NEW r \in RunIDs, NEW t \in Tasks, ~Holds(r, t),
         inFlight[t] < PerTask, inFlightGlobal < Global,
         inFlight' = [inFlight EXCEPT ![t] = @ + 1], inFlightGlobal' = inFlightGlobal + 1,
         \A q \in RunIDs, s \in Tasks : Holds(q, s)' <=> Holds(q, s) \/ (q = r /\ s = t)
  PROVE  ChainSlotsExact'
<1>1. \A q \in RunIDs, s \in Tasks : q \in ChainHolders(s)' <=> Holds(q, s)'
  BY DEF ChainHolders, Holds, Task, Live
<1>2. \A s \in Tasks : s # t => ChainHolders(s)' = ChainHolders(s)
  BY <1>1, HoldersHold DEF ChainHolders
<1>3. ChainHolders(t)' = ChainHolders(t) \cup {r} /\ r \notin ChainHolders(t)
  BY <1>1, HoldersHold DEF ChainHolders
<1>4. Tickets' = Tickets \cup {<<r, t>>} /\ <<r, t>> \notin Tickets
  <2>1. \A x \in RunIDs \X Tasks : x \in Tickets' <=> Holds(x[1], x[2])'
    BY <1>1 DEF Tickets
  <2>2. \A x \in RunIDs \X Tasks : x \in Tickets <=> Holds(x[1], x[2])
    BY HoldersHold
  <2>3. \A x \in RunIDs \X Tasks : x[1] = r /\ x[2] = t <=> x = <<r, t>>
    OBVIOUS
  <2>4. Tickets \subseteq RunIDs \X Tasks /\ Tickets' \subseteq RunIDs \X Tasks
    BY DEF Tickets
  <2>5. \A x \in RunIDs \X Tasks : x \in Tickets' <=> x \in Tickets \/ x = <<r, t>>
    BY <2>1, <2>2, <2>3
  <2>6. <<r, t>> \in RunIDs \X Tasks
    OBVIOUS
  <2> QED
    BY <2>2, <2>4, <2>5, <2>6
<1>5. Cardinality(ChainHolders(t)') = Cardinality(ChainHolders(t)) + 1
  BY <1>3, TicketsAreFinite, FS_AddElement
<1>6. Cardinality(Tickets') = Cardinality(Tickets) + 1
  BY <1>4, TicketsAreFinite, FS_AddElement
<1>7. \A s \in Tasks : inFlight'[s] = Cardinality(ChainHolders(s)') /\ inFlight'[s] <= PerTask
  BY <1>2, <1>5, RunAssumption DEF ChainSlotsExact, Types
<1>8. inFlightGlobal' = Cardinality(Tickets') /\ inFlightGlobal' <= Global
  BY <1>6, RunAssumption DEF ChainSlotsExact, Types, Tickets
<1> QED
  BY <1>7, <1>8 DEF ChainSlotsExact, Tickets

\* ... or given back ...
LEMMA TicketGivenBack ==
  ASSUME Types, ChainSlotsExact, NEW r \in RunIDs, NEW t \in Tasks, Holds(r, t), ReleaseChainSlot(t),
         \A q \in RunIDs, s \in Tasks : Holds(q, s)' <=> Holds(q, s) /\ ~(q = r /\ s = t)
  PROVE  ChainSlotsExact'
<1>1. \A q \in RunIDs, s \in Tasks : q \in ChainHolders(s)' <=> Holds(q, s)'
  BY DEF ChainHolders, Holds, Task, Live
<1>2. \A s \in Tasks : s # t => ChainHolders(s)' = ChainHolders(s)
  BY <1>1, HoldersHold DEF ChainHolders
<1>3. ChainHolders(t)' = ChainHolders(t) \ {r} /\ r \in ChainHolders(t)
  BY <1>1, HoldersHold DEF ChainHolders
<1>4. Tickets' = Tickets \ {<<r, t>>} /\ <<r, t>> \in Tickets
  <2>1. \A x \in RunIDs \X Tasks : x \in Tickets' <=> Holds(x[1], x[2])'
    BY <1>1 DEF Tickets
  <2>2. \A x \in RunIDs \X Tasks : x \in Tickets <=> Holds(x[1], x[2])
    BY HoldersHold
  <2>3. \A x \in RunIDs \X Tasks : x[1] = r /\ x[2] = t <=> x = <<r, t>>
    OBVIOUS
  <2>4. Tickets \subseteq RunIDs \X Tasks /\ Tickets' \subseteq RunIDs \X Tasks
    BY DEF Tickets
  <2>5. \A x \in RunIDs \X Tasks : x \in Tickets' <=> x \in Tickets /\ x # <<r, t>>
    BY <2>1, <2>2, <2>3
  <2>6. <<r, t>> \in RunIDs \X Tasks
    OBVIOUS
  <2> QED
    BY <2>2, <2>4, <2>5, <2>6
<1>5. Cardinality(ChainHolders(t)') = Cardinality(ChainHolders(t)) - 1
  BY <1>3, TicketsAreFinite, FS_RemoveElement
<1>6. Cardinality(Tickets') = Cardinality(Tickets) - 1
  BY <1>4, TicketsAreFinite, FS_RemoveElement
<1>7. Cardinality(ChainHolders(t)) > 0 /\ Cardinality(Tickets) > 0
  <2>1. Cardinality(ChainHolders(t)) \in Nat /\ Cardinality(Tickets) \in Nat
    BY TicketsAreFinite, FS_CardinalityType
  <2> QED
    BY <1>3, <1>4, <2>1, TicketsAreFinite, FS_EmptySet
<1>8. inFlight'[t] = inFlight[t] - 1 /\ inFlightGlobal' = inFlightGlobal - 1
  BY <1>7 DEF ReleaseChainSlot, Less, ChainSlotsExact, Types, Tickets
<1>9. \A s \in Tasks : s # t => inFlight'[s] = inFlight[s]
  BY DEF ReleaseChainSlot, Types
<1>10. \A s \in Tasks : inFlight'[s] = Cardinality(ChainHolders(s)') /\ inFlight'[s] <= PerTask
  BY <1>2, <1>5, <1>8, <1>9, RunAssumption DEF ChainSlotsExact, Types
<1>11. inFlightGlobal' = Cardinality(Tickets') /\ inFlightGlobal' <= Global
  BY <1>6, <1>8, RunAssumption DEF ChainSlotsExact, Types, Tickets
<1> QED
  BY <1>10, <1>11 DEF ChainSlotsExact, Tickets

\* ... or handed over.
LEMMA TicketHandedOver ==
  ASSUME ChainSlotsExact, NEW r \in RunIDs, NEW n \in RunIDs, NEW t \in Tasks,
         Holds(r, t), ~Holds(n, t), UNCHANGED <<inFlight, inFlightGlobal>>,
         \A q \in RunIDs, s \in Tasks :
           Holds(q, s)' <=> (Holds(q, s) /\ ~(q = r /\ s = t)) \/ (q = n /\ s = t)
  PROVE  ChainSlotsExact'
<1>1. \A q \in RunIDs, s \in Tasks : q \in ChainHolders(s)' <=> Holds(q, s)'
  BY DEF ChainHolders, Holds, Task, Live
<1>2. \A s \in Tasks : s # t => ChainHolders(s)' = ChainHolders(s)
  BY <1>1, HoldersHold DEF ChainHolders
<1> DEFINE rest == ChainHolders(t) \ {r}
           pairs == Tickets \ {<<r, t>>}
<1>3. /\ ChainHolders(t)' = rest \cup {n} /\ n \notin rest
      /\ ChainHolders(t) = rest \cup {r} /\ r \notin rest
  BY <1>1, HoldersHold DEF ChainHolders
<1>4. /\ Tickets' = pairs \cup {<<n, t>>} /\ <<n, t>> \notin pairs
      /\ Tickets = pairs \cup {<<r, t>>} /\ <<r, t>> \notin pairs
  <2>1. \A x \in RunIDs \X Tasks : x \in Tickets' <=> Holds(x[1], x[2])'
    BY <1>1 DEF Tickets
  <2>2. \A x \in RunIDs \X Tasks : x \in Tickets <=> Holds(x[1], x[2])
    BY HoldersHold
  <2>3. \A x \in RunIDs \X Tasks : /\ x[1] = r /\ x[2] = t <=> x = <<r, t>>
                                   /\ x[1] = n /\ x[2] = t <=> x = <<n, t>>
    OBVIOUS
  <2>4. Tickets \subseteq RunIDs \X Tasks /\ Tickets' \subseteq RunIDs \X Tasks
    BY DEF Tickets
  <2>5. \A x \in RunIDs \X Tasks :
          x \in Tickets' <=> (x \in Tickets /\ x # <<r, t>>) \/ x = <<n, t>>
    BY <2>1, <2>2, <2>3
  <2>6. <<r, t>> \in RunIDs \X Tasks /\ <<n, t>> \in RunIDs \X Tasks
    OBVIOUS
  <2>7. <<r, t>> \in Tickets /\ <<n, t>> \notin Tickets
    BY <2>2, <2>6
  <2> QED
    BY <2>4, <2>5, <2>6, <2>7
<1>5. IsFiniteSet(rest) /\ IsFiniteSet(pairs)
  BY TicketsAreFinite, FS_RemoveElement
<1> HIDE DEF rest, pairs
<1>6. Cardinality(ChainHolders(t)') = Cardinality(ChainHolders(t))
  BY <1>3, <1>5, FS_AddElement
<1>7. Cardinality(Tickets') = Cardinality(Tickets)
  BY <1>4, <1>5, FS_AddElement
<1> QED
  BY <1>2, <1>6, <1>7 DEF ChainSlotsExact, Tickets

\* No run takes, gives back or hands over a slot.
SlotsStay ==
  /\ UNCHANGED <<kid, inFlight, inFlightGlobal>>
  /\ \A r \in RunIDs : /\ pc'[r] = "resolve" <=> pc[r] = "resolve"
                       /\ pc'[r] = "firing" <=> pc[r] = "firing"
                       /\ pc'[r] = "refused" <=> pc[r] = "refused"
                       /\ pc[r] # "none" => (pc'[r] \in Live <=> pc[r] \in Live)

LEMMA SlotsStayExact ==
  ASSUME Names, Kids, Advance, ChainLabels, ChainSlotsExact, SlotsStay
  PROVE  ChainSlotsExact'
<1>1. \A r \in RunIDs : Born(r) => run'[r].slot = NoTask
  BY DEF ChainLabels, SlotsStay, Kids, Born
<1>2. \A r \in RunIDs : ~Born(r) => run'[r] = run[r]
  BY DEF Advance, Born
<1>3. \A r \in RunIDs : pc[r] = "none" => run[r].slot = NoTask
  BY DEF Names, Blank
<1>4. ASSUME NEW r \in RunIDs, NEW t \in Tasks PROVE Holds(r, t)' <=> Holds(r, t)
  <2>1. t # NoTask
    BY RunAssumption
  <2>2. CASE Born(r)
    BY <1>1, <1>3, <2>1, <2>2 DEF Born, Holds, SlotsStay
  <2>3. CASE ~Born(r)
    <3>1. run'[r] = run[r]
      BY <1>2, <2>3
    <3>2. run[r].slot = t => run[r].parent \in RunIDs /\ pc[r] # "none"
      BY <1>3, <2>1 DEF Kids
    <3> QED
      BY <3>1, <3>2 DEF Holds, SlotsStay
  <2> QED
    BY <2>2, <2>3
<1> QED
  BY <1>4, TicketsKept DEF SlotsStay

LEMMA SlotsExactStep ==
  ASSUME Types, Places, Names, Outcomes, Kids, ChainSlotsExact, Advance, ChainLabels,
    [Next]_vars PROVE ChainSlotsExact'
<1> USE DEF guardVars, Live, Opening, Begun, Body, Ending
<1>1. ASSUME NEW t \in Roots, NEW w \in Callers, FireRoot(t, w) PROVE ChainSlotsExact'
  <2>1. \A q \in RunIDs : pc'[q] = pc[q] \/ (pc[q] = "none" /\ pc'[q] = "fired")
    BY <1>1, FireOneFires DEF FireRoot, Types
  <2>2. SlotsStay
    BY <1>1, <2>1 DEF FireRoot, SlotsStay
  <2> QED
    BY <2>2, SlotsStayExact
<1>2. ASSUME NEW t \in Roots, FireSync(t) PROVE ChainSlotsExact'
  <2>1. NewID \in RunIDs /\ pc[NewID] = "none"
    BY <1>2, FreshID DEF FireSync
  <2>2. SlotsStay
    BY <1>2, <2>1 DEF FireSync, SlotsStay, Types
  <2> QED
    BY <2>2, SlotsStayExact
<1>3. ASSUME NEW r \in RunIDs, Track(r) PROVE ChainSlotsExact'
  <2>1. CASE pc'[r] = "refused"
    <3>1. /\ pc[r] = "fired" /\ run' = run /\ UNCHANGED <<kid, inFlight, inFlightGlobal>>
          /\ \A q \in RunIDs \ {r} : pc'[q] = pc[q]
      BY <1>3 DEF Track, Goto, Types
    <3>2. ASSUME NEW q \in RunIDs, NEW t \in Tasks PROVE Holds(q, t)' <=> Holds(q, t)
      <4>1. t # NoTask
        BY RunAssumption
      <4>2. CASE q = r
        <5>1. run[r].slot = t => LET p == run[r].parent
                                 IN p \in RunIDs /\ p # r /\ pc[p] = "firing" /\ kid[p] = r
          BY <3>1, <4>1 DEF Kids, Opening
        <5> QED
          BY <2>1, <3>1, <4>2, <5>1 DEF Holds, Live, Opening
      <4>3. CASE q # r
        <5>1. run[q].slot = t => run[q].parent \in RunIDs
          BY <4>1 DEF Kids
        <5> QED
          BY <2>1, <3>1, <4>3, <5>1 DEF Holds
      <4> QED
        BY <4>2, <4>3
    <3> QED
      BY <3>1, <3>2, TicketsKept
  <2>2. CASE pc'[r] # "refused"
    <3>1. SlotsStay
      BY <1>3, <2>2 DEF Track, Goto, SlotsStay, Types
    <3> QED
      BY <3>1, SlotsStayExact
  <2> QED
    BY <2>1, <2>2
<1>4. ASSUME NEW r \in RunIDs, InsertRow(r) PROVE ChainSlotsExact'
  <2>1. SlotsStay
    BY <1>4 DEF InsertRow, Goto, SlotsStay, Types
  <2> QED
    BY <2>1, SlotsStayExact
<1>5. ASSUME NEW r \in RunIDs, RegisterRun(r) PROVE ChainSlotsExact'
  <2>1. SlotsStay
    BY <1>5 DEF RegisterRun, Goto, SlotsStay, Types
  <2> QED
    BY <2>1, SlotsStayExact
<1>6. ASSUME NEW r \in RunIDs, AcquireSlot(r) PROVE ChainSlotsExact'
  <2>1. SlotsStay
    BY <1>6 DEF AcquireSlot, Goto, SlotsStay, Types
  <2> QED
    BY <2>1, SlotsStayExact
<1>7. ASSUME NEW r \in RunIDs, AbortQueued(r) PROVE ChainSlotsExact'
  <2>1. SlotsStay
    BY <1>7 DEF AbortQueued, Goto, SlotsStay, Types
  <2> QED
    BY <2>1, SlotsStayExact
<1>8. ASSUME NEW r \in RunIDs, NEW t \in Tasks, LookUp(r, t) PROVE ChainSlotsExact'
  <2>1. \A q \in RunIDs : pc'[q] = pc[q] \/ (pc[q] = "none" /\ pc'[q] = "fired")
    BY <1>8, FireOneFires DEF LookUp, Types
  <2>2. SlotsStay
    BY <1>8, <2>1 DEF LookUp, SlotsStay
  <2> QED
    BY <2>2, SlotsStayExact
<1>9. ASSUME NEW r \in RunIDs, Preflight(r) PROVE ChainSlotsExact'
  <2>1. SlotsStay
    BY <1>9 DEF Preflight, Goto, End, SlotsStay, Types
  <2> QED
    BY <2>1, SlotsStayExact
<1>10. ASSUME NEW r \in RunIDs, Finish(r) PROVE ChainSlotsExact'
  <2>1. SlotsStay
    BY <1>10 DEF Finish, Goto, SlotsStay, Types
  <2> QED
    BY <2>1, SlotsStayExact
<1>11. ASSUME NEW r \in RunIDs, FireEdges(r) PROVE ChainSlotsExact'
  <2> DEFINE p == [pc EXCEPT ![r] = IF FailureChainApplies(r) THEN "check" ELSE "release"]
  <2>1. PICK opts \in SUBSET EdgeFires(r, row[r]) : FireAll(p, opts)
    BY <1>11 DEF FireEdges
  <2>2. \A q \in RunIDs : p[q] = pc[q] \/ (pc[q] = "chain" /\ p[q] \in {"check", "release"})
    BY <1>11 DEF FireEdges, Types
  <2> HIDE DEF p
  <2>3. PICK new \in SUBSET RunIDs :
          /\ \A q \in new : pc[q] = "none" /\ pc'[q] = "fired"
          /\ \A q \in RunIDs \ new : pc'[q] = p[q]
    BY <2>1, EdgesAreFinite, FireAllFires
  <2>4. \A q \in RunIDs : \/ pc'[q] = pc[q]
                          \/ pc[q] = "none" /\ pc'[q] = "fired"
                          \/ pc[q] = "chain" /\ pc'[q] \in {"check", "release"}
    <3> SUFFICES ASSUME NEW q \in RunIDs
                 PROVE  \/ pc'[q] = pc[q]
                        \/ pc[q] = "none" /\ pc'[q] = "fired"
                        \/ pc[q] = "chain" /\ pc'[q] \in {"check", "release"}
      OBVIOUS
    <3>1. CASE q \in new
      BY <2>3, <3>1
    <3>2. CASE q \notin new
      BY <2>2, <2>3, <3>2
    <3> QED
      BY <3>1, <3>2
  <2>5. UNCHANGED <<kid, inFlight, inFlightGlobal>>
    BY <1>11 DEF FireEdges
  <2>6. SlotsStay
    BY <2>4, <2>5 DEF SlotsStay
  <2> QED
    BY <2>6, SlotsStayExact
<1>12. ASSUME NEW r \in RunIDs, CheckGuards(r) PROVE ChainSlotsExact'
  <2>1. SlotsStay
    BY <1>12 DEF CheckGuards, Goto, SlotsStay, Types
  <2> QED
    BY <2>1, SlotsStayExact
<1>13. ASSUME NEW r \in RunIDs, AcquireChainSlot(r) PROVE ChainSlotsExact'
  <2>1. CASE pc'[r] = "resolve"
    <3>1. /\ run' = run /\ kid' = kid /\ \A q \in RunIDs \ {r} : pc'[q] = pc[q]
          /\ pc[r] = "acquire" /\ inFlight[Task(r)] < PerTask /\ inFlightGlobal < Global
          /\ inFlight' = [inFlight EXCEPT ![Task(r)] = @ + 1] /\ inFlightGlobal' = inFlightGlobal + 1
      BY <1>13, <2>1 DEF AcquireChainSlot, Goto, Types
    <3>2. Task(r) \in Tasks
      BY <3>1 DEF Names, Task
    <3>3. \A q \in RunIDs, t \in Tasks : run[q].slot = t =>
            run[q].parent \in RunIDs /\ run[q].task # t
      BY RunAssumption DEF Kids
    <3>4. ~Holds(r, Task(r))
      BY <3>1, <3>2, <3>3 DEF Holds, Task
    <3>5. ASSUME NEW q \in RunIDs, NEW t \in Tasks
          PROVE  Holds(q, t)' <=> Holds(q, t) \/ (q = r /\ t = Task(r))
      <4>1. CASE q = r
        BY <2>1, <3>1, <4>1 DEF Holds, Task, Live, Ending
      <4>2. CASE q # r
        BY <2>1, <3>1, <3>3, <4>2 DEF Holds
      <4> QED
        BY <4>1, <4>2
    <3> QED
      BY <3>1, <3>2, <3>4, <3>5, TicketTaken
  <2>2. CASE pc'[r] # "resolve"
    <3>1. SlotsStay
      BY <1>13, <2>2 DEF AcquireChainSlot, Goto, SlotsStay, Types
    <3> QED
      BY <3>1, SlotsStayExact
  <2> QED
    BY <2>1, <2>2
<1>14. ASSUME NEW r \in RunIDs, ResolveFails(r) PROVE ChainSlotsExact'
  <2>1. /\ run' = run /\ kid' = kid /\ \A q \in RunIDs \ {r} : pc'[q] = pc[q]
        /\ pc[r] = "resolve" /\ pc'[r] = "release" /\ ReleaseChainSlot(Task(r))
    BY <1>14 DEF ResolveFails, Goto, Types
  <2>2. Task(r) \in Tasks
    BY <2>1 DEF Names, Task
  <2>3. \A q \in RunIDs, t \in Tasks : run[q].slot = t =>
          run[q].parent \in RunIDs /\ run[q].task # t
    BY RunAssumption DEF Kids
  <2>4. Holds(r, Task(r))
    BY <2>1 DEF Holds, Task
  <2>5. ASSUME NEW q \in RunIDs, NEW t \in Tasks
        PROVE  Holds(q, t)' <=> Holds(q, t) /\ ~(q = r /\ t = Task(r))
    <3>1. CASE q = r
      BY <2>1, <2>3, <3>1 DEF Holds, Task, Live, Ending
    <3>2. CASE q # r
      BY <2>1, <2>3, <3>2 DEF Holds
    <3> QED
      BY <3>1, <3>2
  <2> QED
    BY <2>1, <2>2, <2>4, <2>5, TicketGivenBack
<1>15. ASSUME NEW r \in RunIDs, FireFailureChain(r) PROVE ChainSlotsExact'
  <2> DEFINE p == [pc EXCEPT ![r] = "firing"]
             o == Options(FailTo[Task(r)], "chain", r, ChainDepth(r) + 1, Task(r), run[r].hops + 1)
  <2>1. p \in [RunIDs -> PCs] /\ FireOne(p, o)
    BY <1>15 DEF FireFailureChain, Types, PCs, Begun, Ending
  <2>2. o.slot = Task(r) /\ o.parent = r
    BY DEF Options
  <2> HIDE DEF p, o
  <2>3. PICK n \in RunIDs :
          /\ n = NewID /\ pc[n] = "none" /\ run'[n] = o /\ pc'[n] = "fired"
          /\ \A q \in RunIDs \ {n} : run'[q] = run[q] /\ pc'[q] = p[q]
    BY <2>1, FireOneFires
  <2>4. /\ pc[r] = "resolve" /\ pc'[r] = "firing" /\ kid'[r] = n /\ n # r
        /\ \A q \in RunIDs \ {n, r} : pc'[q] = pc[q] /\ kid'[q] = kid[q]
        /\ UNCHANGED <<inFlight, inFlightGlobal>>
    BY <1>15, <2>3 DEF FireFailureChain, Types, p
  <2>5. Task(r) \in Tasks /\ run[n] = Blank
    BY <2>3, <2>4 DEF Names, Task
  <2>6. \A q \in RunIDs, t \in Tasks : run[q].slot = t =>
          run[q].parent \in RunIDs /\ run[q].task # t
    BY RunAssumption DEF Kids
  <2>7. Holds(r, Task(r)) /\ ~Holds(n, Task(r))
    BY <2>3, <2>4, <2>5, RunAssumption DEF Holds, Task, Blank
  <2>8. ASSUME NEW q \in RunIDs, NEW t \in Tasks
        PROVE  Holds(q, t)' <=> (Holds(q, t) /\ ~(q = r /\ t = Task(r))) \/ (q = n /\ t = Task(r))
    <3>1. CASE q = r
      BY <2>3, <2>4, <2>6, <3>1 DEF Holds, Task, Live, Ending
    <3>2. CASE q = n
      BY <2>2, <2>3, <2>4, <2>5, <3>2, RunAssumption DEF Holds, Live, Opening, Blank
    <3>3. CASE q # r /\ q # n
      <4>1. /\ run'[q] = run[q] /\ pc'[q] = pc[q]
            /\ pc[q] = "refused" => run[q].parent \in RunIDs \/ run[q].slot # t
        BY <2>3, <2>4, <2>6, <3>3
      <4>2. ASSUME run[q].parent = n PROVE pc[n] # "firing" /\ pc'[n] # "firing"
        BY <2>3
      <4>3. ASSUME run[q].parent = r PROVE pc[r] # "firing" /\ kid'[r] # q
        BY <2>4, <3>3
      <4>4. ASSUME run[q].parent \in RunIDs \ {n, r}
            PROVE  pc'[run[q].parent] = pc[run[q].parent] /\ kid'[run[q].parent] = kid[run[q].parent]
        BY <2>4, <4>4
      <4> QED
        BY <3>3, <4>1, <4>2, <4>3, <4>4 DEF Holds
    <3> QED
      BY <3>1, <3>2, <3>3
  <2> QED
    BY <2>4, <2>5, <2>7, <2>8, TicketHandedOver
<1>16. ASSUME NEW r \in RunIDs, ChainRefused(r) PROVE ChainSlotsExact'
  <2> DEFINE c == kid[r]
  <2>1. /\ run' = run /\ kid' = kid /\ \A q \in RunIDs \ {r} : pc'[q] = pc[q]
        /\ pc[r] = "firing" /\ pc'[r] = "release" /\ ReleaseChainSlot(Task(r)) /\ pc[c] = "refused"
    BY <1>16 DEF ChainRefused, Goto, Types
  <2>2. Task(r) \in Tasks /\ c \in RunIDs /\ run[c].parent = r /\ run[c].slot = Task(r) /\ c # r
    BY <2>1 DEF Names, Kids, Task
  <2>3. \A q \in RunIDs, t \in Tasks : run[q].slot = t => run[q].parent \in RunIDs
    BY RunAssumption DEF Kids
  <2>4. Holds(c, Task(r))
    BY <2>1, <2>2 DEF Holds
  <2>5. ASSUME NEW q \in RunIDs, NEW t \in Tasks
        PROVE  Holds(q, t)' <=> Holds(q, t) /\ ~(q = c /\ t = Task(r))
    <3>1. CASE q = r
      BY <2>1, <2>2, <3>1 DEF Holds, Live, Ending
    <3>2. CASE q = c
      BY <2>1, <2>2, <3>2 DEF Holds, Live, Opening, Body, Ending
    <3>3. CASE q # r /\ q # c
      BY <2>1, <2>2, <2>3, <3>3 DEF Holds
    <3> QED
      BY <3>1, <3>2, <3>3
  <2> HIDE DEF c
  <2> QED
    BY <2>1, <2>2, <2>4, <2>5, TicketGivenBack
<1>17. ASSUME NEW r \in RunIDs, ChainOpened(r) PROVE ChainSlotsExact'
  <2>1. /\ run' = run /\ kid' = kid /\ \A q \in RunIDs \ {r} : pc'[q] = pc[q]
        /\ pc[r] = "firing" /\ pc'[r] = "release" /\ pc[kid[r]] \in Begun
        /\ UNCHANGED <<inFlight, inFlightGlobal>>
    BY <1>17 DEF ChainOpened, Goto, Types
  <2>2. pc[kid[r]] # "refused"
    BY <2>1 DEF Begun, Body, Ending
  <2>3. \A q \in RunIDs, t \in Tasks : run[q].slot = t => run[q].parent \in RunIDs
    BY RunAssumption DEF Kids
  <2>4. ASSUME NEW q \in RunIDs, NEW t \in Tasks PROVE Holds(q, t)' <=> Holds(q, t)
    <3>1. CASE q = r
      BY <2>1, <3>1 DEF Holds, Live, Ending
    <3>2. CASE q # r
      BY <2>1, <2>2, <2>3, <3>2 DEF Holds
    <3> QED
      BY <3>1, <3>2
  <2> QED
    BY <2>1, <2>4, TicketsKept
<1>18. ASSUME NEW r \in RunIDs, Release(r) PROVE ChainSlotsExact'
  <2>1. /\ run' = run /\ kid' = kid /\ \A q \in RunIDs \ {r} : pc'[q] = pc[q]
        /\ pc[r] = "release" /\ pc'[r] = "leave"
    BY <1>18 DEF Release, Goto, Types
  <2>2. \A q \in RunIDs, t \in Tasks : run[q].slot = t => run[q].parent \in RunIDs
    BY RunAssumption DEF Kids
  <2>3. CASE run[r].slot = NoTask
    <3>1. ASSUME NEW q \in RunIDs, NEW t \in Tasks PROVE Holds(q, t)' <=> Holds(q, t)
      <4>1. CASE q = r
        BY <2>1, <2>3, <4>1, RunAssumption DEF Holds
      <4>2. CASE q # r
        BY <2>1, <2>2, <4>2 DEF Holds
      <4> QED
        BY <4>1, <4>2
    <3>2. UNCHANGED <<inFlight, inFlightGlobal>>
      BY <1>18, <2>3 DEF Release
    <3> QED
      BY <3>1, <3>2, TicketsKept
  <2>4. CASE run[r].slot # NoTask
    <3> DEFINE s == run[r].slot
    <3>1. ReleaseChainSlot(s) /\ s \in Tasks /\ Holds(r, s)
      BY <1>18, <2>1, <2>4 DEF Release, Types, RunType, Holds, Live, Ending
    <3>2. ASSUME NEW q \in RunIDs, NEW t \in Tasks
          PROVE  Holds(q, t)' <=> Holds(q, t) /\ ~(q = r /\ t = s)
      <4>1. CASE q = r
        BY <2>1, <4>1 DEF Holds, Live, Opening, Body, Ending
      <4>2. CASE q # r
        BY <2>1, <2>2, <4>2 DEF Holds
      <4> QED
        BY <4>1, <4>2
    <3> HIDE DEF s
    <3> QED
      BY <3>1, <3>2, TicketGivenBack
  <2> QED
    BY <2>3, <2>4
<1>19. ASSUME NEW r \in RunIDs, Leave(r) PROVE ChainSlotsExact'
  <2>1. SlotsStay
    BY <1>19 DEF Leave, Goto, SlotsStay, Types
  <2> QED
    BY <2>1, SlotsStayExact
<1>20. ASSUME NEW r \in RunIDs, BodyEnds(r) PROVE ChainSlotsExact'
  <2>1. SlotsStay
    BY <1>20 DEF BodyEnds, MayEnd, End, Goto, SlotsStay, Types
  <2> QED
    BY <2>1, SlotsStayExact
<1>21. ASSUME NEW r \in RunIDs, BodyRejected(r) PROVE ChainSlotsExact'
  <2>1. SlotsStay
    BY <1>21 DEF BodyRejected, MayEnd, End, Goto, SlotsStay, Types
  <2> QED
    BY <2>1, SlotsStayExact
<1>22. ASSUME NEW r \in RunIDs, Suspend(r) PROVE ChainSlotsExact'
  <2>1. SlotsStay
    BY <1>22 DEF Suspend, MayEnd, End, Goto, SlotsStay, Types
  <2> QED
    BY <2>1, SlotsStayExact
<1>23. ASSUME NEW r \in RunIDs, NEW t \in Tasks, CallTask(r, t) PROVE ChainSlotsExact'
  <2>1. \A q \in RunIDs : pc'[q] = pc[q] \/ (pc[q] = "none" /\ pc'[q] = "fired")
    BY <1>23, FireOneFires DEF CallTask, Types
  <2>2. SlotsStay
    BY <1>23, <2>1 DEF CallTask, SlotsStay
  <2> QED
    BY <2>2, SlotsStayExact
<1>24. ASSUME NEW r \in RunIDs, Refuse(r) PROVE ChainSlotsExact'
  <2>1. CASE pc'[r] = "refused"
    <3>1. /\ pc[r] = "reserved" /\ run' = run /\ UNCHANGED <<kid, inFlight, inFlightGlobal>>
          /\ \A q \in RunIDs \ {r} : pc'[q] = pc[q]
      BY <1>24 DEF Refuse, Goto, Types
    <3>2. ASSUME NEW q \in RunIDs, NEW t \in Tasks PROVE Holds(q, t)' <=> Holds(q, t)
      <4>1. t # NoTask
        BY RunAssumption
      <4>2. CASE q = r
        <5>1. run[r].slot = t => LET p == run[r].parent
                                 IN p \in RunIDs /\ p # r /\ pc[p] = "firing" /\ kid[p] = r
          BY <3>1, <4>1 DEF Kids, Opening
        <5> QED
          BY <2>1, <3>1, <4>2, <5>1 DEF Holds, Live, Opening
      <4>3. CASE q # r
        <5>1. run[q].slot = t => run[q].parent \in RunIDs
          BY <4>1 DEF Kids
        <5> QED
          BY <2>1, <3>1, <4>3, <5>1 DEF Holds
      <4> QED
        BY <4>2, <4>3
    <3> QED
      BY <3>1, <3>2, TicketsKept
  <2> QED
    BY <1>24, <2>1 DEF Refuse, Goto, Types
<1>25. ASSUME NEW r \in RunIDs, ProbeResume(r) PROVE ChainSlotsExact'
  <2>1. SlotsStay
    BY <1>25 DEF ProbeResume, SlotsStay, runVars, guardVars
  <2> QED
    BY <2>1, SlotsStayExact
<1>26. ASSUME NEW r \in RunIDs, Resume(r) PROVE ChainSlotsExact'
  <2>1. \A q \in RunIDs : pc'[q] = pc[q] \/ (pc[q] = "none" /\ pc'[q] = "fired")
    BY <1>26, FireOneFires DEF Resume, Types
  <2>2. SlotsStay
    BY <1>26, <2>1 DEF Resume, SlotsStay
  <2> QED
    BY <2>2, SlotsStayExact
<1>27. ASSUME NEW r \in RunIDs, Sweep(r) PROVE ChainSlotsExact'
  <2>1. SlotsStay
    BY <1>27 DEF Sweep, SlotsStay, Types
  <2> QED
    BY <2>1, SlotsStayExact
<1>28. ASSUME NEW r \in RunIDs, SweepChains(r) PROVE ChainSlotsExact'
  <2>1. PICK opts \in SUBSET EdgeFires(r, "cancelled") : FireAll(pc, opts)
    BY <1>28 DEF SweepChains
  <2>2. PICK new \in SUBSET RunIDs :
          /\ \A q \in new : pc[q] = "none" /\ pc'[q] = "fired"
          /\ \A q \in RunIDs \ new : pc'[q] = pc[q]
    BY <2>1, EdgesAreFinite, FireAllFires
  <2>3. \A q \in RunIDs : pc'[q] = pc[q] \/ (pc[q] = "none" /\ pc'[q] = "fired")
    BY <2>2
  <2>4. UNCHANGED <<kid, inFlight, inFlightGlobal>>
    BY <1>28 DEF SweepChains
  <2>5. SlotsStay
    BY <2>3, <2>4 DEF SlotsStay
  <2> QED
    BY <2>5, SlotsStayExact
<1>29. ASSUME NEW r \in RunIDs, KillRun(r) PROVE ChainSlotsExact'
  <2>1. SlotsStay
    BY <1>29 DEF KillRun, SlotsStay, runVars, guardVars
  <2> QED
    BY <2>1, SlotsStayExact
<1>30. ASSUME NEW r \in RunIDs, Replay(r) PROVE ChainSlotsExact'
  <2>1. \A q \in RunIDs : pc'[q] = pc[q] \/ (pc[q] = "none" /\ pc'[q] = "fired")
    BY <1>30, FireOneFires DEF Replay, Types
  <2>2. SlotsStay
    BY <1>30, <2>1 DEF Replay, SlotsStay
  <2> QED
    BY <2>2, SlotsStayExact
<1>31. ASSUME NEW w \in Waiting, WaitOpened(w) PROVE ChainSlotsExact'
  <2>1. SlotsStay
    BY <1>31 DEF WaitOpened, SlotsStay, runVars, guardVars
  <2> QED
    BY <2>1, SlotsStayExact
<1>32. ASSUME NEW w \in Waiting, WaitLoad(w) PROVE ChainSlotsExact'
  <2>1. SlotsStay
    BY <1>32 DEF WaitLoad, SlotsStay, runVars, guardVars
  <2> QED
    BY <2>1, SlotsStayExact
<1>33. ASSUME NEW w \in Waiting, WaitWoken(w) PROVE ChainSlotsExact'
  <2>1. SlotsStay
    BY <1>33 DEF WaitWoken, SlotsStay, runVars, guardVars
  <2> QED
    BY <2>1, SlotsStayExact
<1>34. ASSUME NEW w \in Waiting, WaitRead(w) PROVE ChainSlotsExact'
  <2>1. SlotsStay
    BY <1>34 DEF WaitRead, SlotsStay, runVars, guardVars
  <2> QED
    BY <2>1, SlotsStayExact
<1>35. ASSUME NEW w \in Waiting, WaitCancelled(w) PROVE ChainSlotsExact'
  <2>1. SlotsStay
    BY <1>35 DEF WaitCancelled, SlotsStay, runVars, guardVars
  <2> QED
    BY <2>1, SlotsStayExact
<1>36. ASSUME Stop PROVE ChainSlotsExact'
  <2>1. SlotsStay
    BY <1>36 DEF Stop, SlotsStay, runVars, guardVars
  <2> QED
    BY <2>1, SlotsStayExact
<1>37. ASSUME BeginShutdown PROVE ChainSlotsExact'
  <2>1. SlotsStay
    BY <1>37 DEF BeginShutdown, SlotsStay, runVars, guardVars
  <2> QED
    BY <2>1, SlotsStayExact
<1>38. ASSUME Restart PROVE ChainSlotsExact'
  <2>1. \A q \in RunIDs : pc'[q] \in {"none", "refused",
     "gone"} /\ (pc'[q] = "none" <=> pc[q] = "none")
    BY <1>38 DEF Restart, Types
  <2>2. \A q \in RunIDs, t \in Tasks : ~Holds(q, t)'
    <3>1. \A q \in RunIDs, t \in Tasks : run'[q].slot = t => run'[q].parent \in RunIDs
      BY <1>38, RunAssumption DEF Restart, Kids
    <3> QED
      BY <2>1, <3>1 DEF Holds, Live, Opening, Body, Ending
  <2>3. \A q \in RunIDs, t \in Tasks : q \in ChainHolders(t)' <=> Holds(q, t)'
    BY DEF ChainHolders, Holds, Task, Live
  <2>4. \A t \in Tasks : ChainHolders(t)' = {}
    BY <2>2, <2>3 DEF ChainHolders
  <2>5. Tickets' = {}
    BY <2>4 DEF Tickets
  <2>6. Cardinality({}) = 0 /\ PerTask \in Nat /\ Global \in Nat
    BY FS_EmptySet, RunAssumption
  <2>7. inFlight' = [t \in Tasks |-> 0] /\ inFlightGlobal' = 0
    BY <1>38 DEF Restart
  <2>8. \A t \in Tasks : inFlight'[t] = Cardinality(ChainHolders(t)') /\ inFlight'[t] <= PerTask
    BY <2>4, <2>6, <2>7
  <2>9. inFlightGlobal' = Cardinality(Tickets') /\ inFlightGlobal' <= Global
    BY <2>5, <2>6, <2>7
  <2> QED
    BY <2>8, <2>9 DEF ChainSlotsExact, Tickets
<1>39. ASSUME NEW t \in Tasks, CooldownOver(t) PROVE ChainSlotsExact'
  <2>1. SlotsStay
    BY <1>39 DEF CooldownOver, SlotsStay, runVars, guardVars
  <2> QED
    BY <2>1, SlotsStayExact
<1>40. ASSUME NEW t \in Tasks, WindowOver(t) PROVE ChainSlotsExact'
  <2>1. SlotsStay
    BY <1>40 DEF WindowOver, SlotsStay, runVars, guardVars
  <2> QED
    BY <2>1, SlotsStayExact
<1>41. ASSUME NEW t \in Tasks, SuppressOver(t) PROVE ChainSlotsExact'
  <2>1. SlotsStay
    BY <1>41 DEF SuppressOver, SlotsStay, runVars, guardVars
  <2> QED
    BY <2>1, SlotsStayExact
<1>42. CASE UNCHANGED vars
  <2>1. SlotsStay
    BY <1>42 DEF vars, runVars, SlotsStay
  <2> QED
    BY <2>1, SlotsStayExact
<1> QED
  BY <1>1, <1>2, <1>3, <1>4, <1>5, <1>6, <1>7, <1>8, <1>9, <1>10, <1>11, <1>12, <1>13, <1>14,
     <1>15, <1>16, <1>17, <1>18, <1>19, <1>20, <1>21, <1>22, <1>23, <1>24, <1>25, <1>26, <1>27,
        <1>28, <1>29, <1>30, <1>31, <1>32, <1>33, <1>34, <1>35, <1>36, <1>37, <1>38, <1>39, <1>40,
           <1>41, <1>42
     DEF Next, RunStep, BodyStep, Wait

LEMMA InitSlots == Init => ChainSlotsExact
<1> SUFFICES ASSUME Init PROVE ChainSlotsExact
  OBVIOUS
<1>1. \A r \in RunIDs, t \in Tasks : ~Holds(r, t)
  BY RunAssumption DEF Init, Holds, Blank, Live, Opening, Body, Ending
<1>2. /\ \A t \in Tasks : ChainHolders(t) = {}
      /\ Tickets = {}
  BY <1>1, HoldersHold DEF ChainHolders, Tickets
<1>3. Cardinality({}) = 0 /\ PerTask \in Nat /\ Global \in Nat
  BY FS_EmptySet, RunAssumption
<1>4. \A t \in Tasks : inFlight[t] = Cardinality(ChainHolders(t)) /\ inFlight[t] <= PerTask
  BY <1>2, <1>3 DEF Init
<1>5. inFlightGlobal = Cardinality(Tickets) /\ inFlightGlobal <= Global
  BY <1>2, <1>3 DEF Init
<1> QED
  BY <1>4, <1>5 DEF ChainSlotsExact, Tickets

\* Where a goroutine is counted in runWG.
Counted == {"reserved", "inserted", "leave"} \cup Body \cup Ending

LEMMA WgStays ==
  ASSUME WgExact, wg' = wg, \A r \in RunIDs : pc'[r] \in Counted <=> pc[r] \in Counted
  PROVE  WgExact'
<1>1. Writing' = Writing
  BY DEF Writing, Counted
<1> QED
  BY <1>1 DEF WgExact

LEMMA WgUp ==
  ASSUME WgExact, NEW r \in RunIDs, wg' = wg + 1, pc[r] \notin Counted, pc'[r] \in Counted,
         \A q \in RunIDs \ {r} : pc'[q] = pc[q]
  PROVE  WgExact'
<1>1. Writing' = Writing \cup {r} /\ r \notin Writing
  BY DEF Writing, Counted
<1> QED
  BY <1>1, TicketsAreFinite, FS_AddElement DEF WgExact

LEMMA WgDown ==
  ASSUME WgExact, NEW r \in RunIDs, wg' = wg - 1, pc[r] \in Counted, pc'[r] \notin Counted,
         \A q \in RunIDs \ {r} : pc'[q] = pc[q]
  PROVE  WgExact'
<1>1. Writing' = Writing \ {r} /\ r \in Writing
  BY DEF Writing, Counted
<1> QED
  BY <1>1, TicketsAreFinite, FS_RemoveElement DEF WgExact

LEMMA InitWg == Init => WgExact
<1> SUFFICES ASSUME Init PROVE WgExact
  OBVIOUS
<1>1. Writing = {}
  BY DEF Init, Writing, Body, Ending
<1> QED
  BY <1>1, FS_EmptySet DEF Init, WgExact

LEMMA WgExactStep ==
  ASSUME Types, WgExact, [Next]_vars PROVE WgExact'
<1> USE DEF engVars, Counted, Body, Ending
<1>1. ASSUME NEW t \in Roots, NEW w \in Callers, FireRoot(t, w) PROVE WgExact'
  <2>1. \A q \in RunIDs : pc'[q] = pc[q] \/ (pc[q] = "none" /\ pc'[q] = "fired")
    BY <1>1, FireOneFires DEF FireRoot, Types
  <2>2. wg' = wg /\ \A q \in RunIDs : pc'[q] \in Counted <=> pc[q] \in Counted
    BY <1>1, <2>1 DEF FireRoot
  <2> QED
    BY <2>2, WgStays
<1>2. ASSUME NEW t \in Roots, FireSync(t) PROVE WgExact'
  <2>1. NewID \in RunIDs /\ pc[NewID] = "none"
    BY <1>2, FreshID DEF FireSync
  <2>2. /\ wg' = wg + 1 /\ pc'[NewID] = "reserved"
        /\ \A q \in RunIDs \ {NewID} : pc'[q] = pc[q]
    BY <1>2, <2>1 DEF FireSync, Types
  <2> QED
    BY <2>1, <2>2, WgUp
<1>3. ASSUME NEW r \in RunIDs, Track(r) PROVE WgExact'
  <2>1. pc[r] = "fired" /\ \A q \in RunIDs \ {r} : pc'[q] = pc[q]
    BY <1>3 DEF Track, Goto, Types
  <2>2. CASE phase = "latched"
    <3>1. wg' = wg /\ pc'[r] = "refused"
      BY <1>3, <2>2 DEF Track, Goto, Types
    <3> QED
      BY <2>1, <3>1, WgStays
  <2>3. CASE phase # "latched"
    <3>1. wg' = wg + 1 /\ pc'[r] = "reserved"
      BY <1>3, <2>3 DEF Track, Goto, Types
    <3> QED
      BY <2>1, <3>1, WgUp
  <2> QED
    BY <2>2, <2>3
<1>4. ASSUME NEW r \in RunIDs, InsertRow(r) PROVE WgExact'
  <2>1. wg' = wg /\ \A q \in RunIDs : pc'[q] \in Counted <=> pc[q] \in Counted
    BY <1>4 DEF InsertRow, Goto, Types
  <2> QED
    BY <2>1, WgStays
<1>5. ASSUME NEW r \in RunIDs, RegisterRun(r) PROVE WgExact'
  <2>1. wg' = wg /\ \A q \in RunIDs : pc'[q] \in Counted <=> pc[q] \in Counted
    BY <1>5 DEF RegisterRun, Goto, Types
  <2> QED
    BY <2>1, WgStays
<1>6. ASSUME NEW r \in RunIDs, AcquireSlot(r) PROVE WgExact'
  <2>1. wg' = wg /\ \A q \in RunIDs : pc'[q] \in Counted <=> pc[q] \in Counted
    BY <1>6 DEF AcquireSlot, Goto, Types
  <2> QED
    BY <2>1, WgStays
<1>7. ASSUME NEW r \in RunIDs, AbortQueued(r) PROVE WgExact'
  <2>1. wg' = wg /\ \A q \in RunIDs : pc'[q] \in Counted <=> pc[q] \in Counted
    BY <1>7 DEF AbortQueued, Goto, Types
  <2> QED
    BY <2>1, WgStays
<1>8. ASSUME NEW r \in RunIDs, NEW t \in Tasks, LookUp(r, t) PROVE WgExact'
  <2>1. \A q \in RunIDs : pc'[q] = pc[q] \/ (pc[q] = "none" /\ pc'[q] = "fired")
    BY <1>8, FireOneFires DEF LookUp, Types
  <2>2. wg' = wg /\ \A q \in RunIDs : pc'[q] \in Counted <=> pc[q] \in Counted
    BY <1>8, <2>1 DEF LookUp
  <2> QED
    BY <2>2, WgStays
<1>9. ASSUME NEW r \in RunIDs, Preflight(r) PROVE WgExact'
  <2>1. wg' = wg /\ \A q \in RunIDs : pc'[q] \in Counted <=> pc[q] \in Counted
    BY <1>9 DEF Preflight, Goto, End, Types
  <2> QED
    BY <2>1, WgStays
<1>10. ASSUME NEW r \in RunIDs, Finish(r) PROVE WgExact'
  <2>1. wg' = wg /\ \A q \in RunIDs : pc'[q] \in Counted <=> pc[q] \in Counted
    BY <1>10 DEF Finish, Goto, Types
  <2> QED
    BY <2>1, WgStays
<1>11. ASSUME NEW r \in RunIDs, FireEdges(r) PROVE WgExact'
  <2> DEFINE p == [pc EXCEPT ![r] = IF FailureChainApplies(r) THEN "check" ELSE "release"]
  <2>1. PICK opts \in SUBSET EdgeFires(r, row[r]) : FireAll(p, opts)
    BY <1>11 DEF FireEdges
  <2>2. \A q \in RunIDs : p[q] \in Counted <=> pc[q] \in Counted
    BY <1>11 DEF FireEdges, Types
  <2> HIDE DEF p
  <2>3. PICK new \in SUBSET RunIDs :
          /\ \A q \in new : pc[q] = "none" /\ pc'[q] = "fired"
          /\ \A q \in RunIDs \ new : pc'[q] = p[q]
    BY <2>1, EdgesAreFinite, FireAllFires
  <2>4. ASSUME NEW q \in RunIDs PROVE pc'[q] \in Counted <=> pc[q] \in Counted
    <3>1. CASE q \in new
      BY <2>3, <3>1
    <3>2. CASE q \notin new
      BY <2>2, <2>3, <3>2
    <3> QED
      BY <3>1, <3>2
  <2>5. wg' = wg
    BY <1>11 DEF FireEdges
  <2> QED
    BY <2>4, <2>5, WgStays
<1>12. ASSUME NEW r \in RunIDs, CheckGuards(r) PROVE WgExact'
  <2>1. wg' = wg /\ \A q \in RunIDs : pc'[q] \in Counted <=> pc[q] \in Counted
    BY <1>12 DEF CheckGuards, Goto, Types
  <2> QED
    BY <2>1, WgStays
<1>13. ASSUME NEW r \in RunIDs, AcquireChainSlot(r) PROVE WgExact'
  <2>1. wg' = wg /\ \A q \in RunIDs : pc'[q] \in Counted <=> pc[q] \in Counted
    BY <1>13 DEF AcquireChainSlot, Goto, Types
  <2> QED
    BY <2>1, WgStays
<1>14. ASSUME NEW r \in RunIDs, ResolveFails(r) PROVE WgExact'
  <2>1. wg' = wg /\ \A q \in RunIDs : pc'[q] \in Counted <=> pc[q] \in Counted
    BY <1>14 DEF ResolveFails, Goto, ReleaseChainSlot, Less, Types
  <2> QED
    BY <2>1, WgStays
<1>15. ASSUME NEW r \in RunIDs, FireFailureChain(r) PROVE WgExact'
  <2> DEFINE p == [pc EXCEPT ![r] = "firing"]
             o == Options(FailTo[Task(r)], "chain", r, ChainDepth(r) + 1, Task(r), run[r].hops + 1)
  <2>1. p \in [RunIDs -> PCs] /\ FireOne(p, o)
    BY <1>15 DEF FireFailureChain, Types, PCs, Begun
  <2> HIDE DEF p, o
  <2>2. PICK n \in RunIDs :
          /\ pc[n] = "none" /\ pc'[n] = "fired"
          /\ \A q \in RunIDs \ {n} : pc'[q] = p[q]
    BY <2>1, FireOneFires
  <2>3. pc[r] = "resolve" /\ wg' = wg /\ p[r] = "firing" /\ \A q \in RunIDs \ {r} : p[q] = pc[q]
    BY <1>15 DEF FireFailureChain, Types, p
  <2>4. \A q \in RunIDs : pc'[q] \in Counted <=> pc[q] \in Counted
    BY <2>2, <2>3
  <2> QED
    BY <2>3, <2>4, WgStays
<1>16. ASSUME NEW r \in RunIDs, ChainRefused(r) PROVE WgExact'
  <2>1. wg' = wg /\ \A q \in RunIDs : pc'[q] \in Counted <=> pc[q] \in Counted
    BY <1>16 DEF ChainRefused, Goto, ReleaseChainSlot, Less, Types
  <2> QED
    BY <2>1, WgStays
<1>17. ASSUME NEW r \in RunIDs, ChainOpened(r) PROVE WgExact'
  <2>1. wg' = wg /\ \A q \in RunIDs : pc'[q] \in Counted <=> pc[q] \in Counted
    BY <1>17 DEF ChainOpened, Goto, Types
  <2> QED
    BY <2>1, WgStays
<1>18. ASSUME NEW r \in RunIDs, Release(r) PROVE WgExact'
  <2>1. wg' = wg /\ \A q \in RunIDs : pc'[q] \in Counted <=> pc[q] \in Counted
    BY <1>18 DEF Release, Goto, ReleaseChainSlot, Less, Types
  <2> QED
    BY <2>1, WgStays
<1>19. ASSUME NEW r \in RunIDs, Leave(r) PROVE WgExact'
  <2>1. /\ wg' = wg - 1 /\ pc[r] \in Counted /\ pc'[r] \notin Counted
        /\ \A q \in RunIDs \ {r} : pc'[q] = pc[q]
    BY <1>19 DEF Leave, Goto, Types
  <2> QED
    BY <2>1, WgDown
<1>20. ASSUME NEW r \in RunIDs, BodyEnds(r) PROVE WgExact'
  <2>1. wg' = wg /\ \A q \in RunIDs : pc'[q] \in Counted <=> pc[q] \in Counted
    BY <1>20 DEF BodyEnds, MayEnd, End, Goto, Types
  <2> QED
    BY <2>1, WgStays
<1>21. ASSUME NEW r \in RunIDs, BodyRejected(r) PROVE WgExact'
  <2>1. wg' = wg /\ \A q \in RunIDs : pc'[q] \in Counted <=> pc[q] \in Counted
    BY <1>21 DEF BodyRejected, MayEnd, End, Goto, Types
  <2> QED
    BY <2>1, WgStays
<1>22. ASSUME NEW r \in RunIDs, Suspend(r) PROVE WgExact'
  <2>1. wg' = wg /\ \A q \in RunIDs : pc'[q] \in Counted <=> pc[q] \in Counted
    BY <1>22 DEF Suspend, MayEnd, End, Goto, Types
  <2> QED
    BY <2>1, WgStays
<1>23. ASSUME NEW r \in RunIDs, NEW t \in Tasks, CallTask(r, t) PROVE WgExact'
  <2>1. \A q \in RunIDs : pc'[q] = pc[q] \/ (pc[q] = "none" /\ pc'[q] = "fired")
    BY <1>23, FireOneFires DEF CallTask, Types
  <2>2. wg' = wg /\ \A q \in RunIDs : pc'[q] \in Counted <=> pc[q] \in Counted
    BY <1>23, <2>1 DEF CallTask
  <2> QED
    BY <2>2, WgStays
<1>24. ASSUME NEW r \in RunIDs, Refuse(r) PROVE WgExact'
  <2>1. /\ wg' = wg - 1 /\ pc[r] \in Counted /\ pc'[r] \notin Counted
        /\ \A q \in RunIDs \ {r} : pc'[q] = pc[q]
    BY <1>24 DEF Refuse, Goto, Types
  <2> QED
    BY <2>1, WgDown
<1>25. ASSUME NEW r \in RunIDs, ProbeResume(r) PROVE WgExact'
  <2>1. wg' = wg /\ \A q \in RunIDs : pc'[q] \in Counted <=> pc[q] \in Counted
    BY <1>25 DEF ProbeResume, Types, runVars
  <2> QED
    BY <2>1, WgStays
<1>26. ASSUME NEW r \in RunIDs, Resume(r) PROVE WgExact'
  <2>1. \A q \in RunIDs : pc'[q] = pc[q] \/ (pc[q] = "none" /\ pc'[q] = "fired")
    BY <1>26, FireOneFires DEF Resume, Types
  <2>2. wg' = wg /\ \A q \in RunIDs : pc'[q] \in Counted <=> pc[q] \in Counted
    BY <1>26, <2>1 DEF Resume
  <2> QED
    BY <2>2, WgStays
<1>27. ASSUME NEW r \in RunIDs, Sweep(r) PROVE WgExact'
  <2>1. wg' = wg /\ \A q \in RunIDs : pc'[q] \in Counted <=> pc[q] \in Counted
    BY <1>27 DEF Sweep, Types
  <2> QED
    BY <2>1, WgStays
<1>28. ASSUME NEW r \in RunIDs, SweepChains(r) PROVE WgExact'
  <2>1. PICK opts \in SUBSET EdgeFires(r, "cancelled") : FireAll(pc, opts)
    BY <1>28 DEF SweepChains
  <2>2. PICK new \in SUBSET RunIDs :
          /\ \A q \in new : pc[q] = "none" /\ pc'[q] = "fired"
          /\ \A q \in RunIDs \ new : pc'[q] = pc[q]
    BY <2>1, EdgesAreFinite, FireAllFires
  <2>3. \A q \in RunIDs : pc'[q] = pc[q] \/ (pc[q] = "none" /\ pc'[q] = "fired")
    BY <2>2
  <2>4. wg' = wg
    BY <1>28 DEF SweepChains
  <2> QED
    BY <2>3, <2>4, WgStays
<1>29. ASSUME NEW r \in RunIDs, KillRun(r) PROVE WgExact'
  <2>1. wg' = wg /\ \A q \in RunIDs : pc'[q] \in Counted <=> pc[q] \in Counted
    BY <1>29 DEF KillRun, Types, runVars
  <2> QED
    BY <2>1, WgStays
<1>30. ASSUME NEW r \in RunIDs, Replay(r) PROVE WgExact'
  <2>1. \A q \in RunIDs : pc'[q] = pc[q] \/ (pc[q] = "none" /\ pc'[q] = "fired")
    BY <1>30, FireOneFires DEF Replay, Types
  <2>2. wg' = wg /\ \A q \in RunIDs : pc'[q] \in Counted <=> pc[q] \in Counted
    BY <1>30, <2>1 DEF Replay
  <2> QED
    BY <2>2, WgStays
<1>31. ASSUME NEW w \in Waiting, WaitOpened(w) PROVE WgExact'
  <2>1. wg' = wg /\ \A q \in RunIDs : pc'[q] \in Counted <=> pc[q] \in Counted
    BY <1>31 DEF WaitOpened, Return, Types, runVars
  <2> QED
    BY <2>1, WgStays
<1>32. ASSUME NEW w \in Waiting, WaitLoad(w) PROVE WgExact'
  <2>1. wg' = wg /\ \A q \in RunIDs : pc'[q] \in Counted <=> pc[q] \in Counted
    BY <1>32 DEF WaitLoad, Types, runVars
  <2> QED
    BY <2>1, WgStays
<1>33. ASSUME NEW w \in Waiting, WaitWoken(w) PROVE WgExact'
  <2>1. wg' = wg /\ \A q \in RunIDs : pc'[q] \in Counted <=> pc[q] \in Counted
    BY <1>33 DEF WaitWoken, Types, runVars
  <2> QED
    BY <2>1, WgStays
<1>34. ASSUME NEW w \in Waiting, WaitRead(w) PROVE WgExact'
  <2>1. wg' = wg /\ \A q \in RunIDs : pc'[q] \in Counted <=> pc[q] \in Counted
    BY <1>34 DEF WaitRead, Return, Types, runVars
  <2> QED
    BY <2>1, WgStays
<1>35. ASSUME NEW w \in Waiting, WaitCancelled(w) PROVE WgExact'
  <2>1. wg' = wg /\ \A q \in RunIDs : pc'[q] \in Counted <=> pc[q] \in Counted
    BY <1>35 DEF WaitCancelled, Return, Types, runVars
  <2> QED
    BY <2>1, WgStays
<1>36. ASSUME Stop PROVE WgExact'
  <2>1. wg' = wg /\ \A q \in RunIDs : pc'[q] \in Counted <=> pc[q] \in Counted
    BY <1>36 DEF Stop, Types, runVars
  <2> QED
    BY <2>1, WgStays
<1>37. ASSUME BeginShutdown PROVE WgExact'
  <2>1. wg' = wg /\ \A q \in RunIDs : pc'[q] \in Counted <=> pc[q] \in Counted
    BY <1>37 DEF BeginShutdown, Types, runVars
  <2> QED
    BY <2>1, WgStays
<1>38. ASSUME Restart PROVE WgExact'
  <2>1. wg' = 0 /\ \A q \in RunIDs : pc'[q] \in {"none", "refused", "gone"}
    BY <1>38 DEF Restart, Types
  <2>2. Writing' = {}
    BY <2>1 DEF Writing
  <2> QED
    BY <2>1, <2>2, FS_EmptySet DEF WgExact
<1>39. ASSUME NEW t \in Tasks, CooldownOver(t) PROVE WgExact'
  <2>1. wg' = wg /\ \A q \in RunIDs : pc'[q] \in Counted <=> pc[q] \in Counted
    BY <1>39 DEF CooldownOver, Types, runVars
  <2> QED
    BY <2>1, WgStays
<1>40. ASSUME NEW t \in Tasks, WindowOver(t) PROVE WgExact'
  <2>1. wg' = wg /\ \A q \in RunIDs : pc'[q] \in Counted <=> pc[q] \in Counted
    BY <1>40 DEF WindowOver, Types, runVars
  <2> QED
    BY <2>1, WgStays
<1>41. ASSUME NEW t \in Tasks, SuppressOver(t) PROVE WgExact'
  <2>1. wg' = wg /\ \A q \in RunIDs : pc'[q] \in Counted <=> pc[q] \in Counted
    BY <1>41 DEF SuppressOver, Types, runVars
  <2> QED
    BY <2>1, WgStays
<1>42. CASE UNCHANGED vars
  BY <1>42, WgStays DEF vars, runVars
<1> QED
  BY <1>1, <1>2, <1>3, <1>4, <1>5, <1>6, <1>7, <1>8, <1>9, <1>10, <1>11, <1>12, <1>13, <1>14,
     <1>15, <1>16, <1>17, <1>18, <1>19, <1>20, <1>21, <1>22, <1>23, <1>24, <1>25, <1>26, <1>27,
        <1>28, <1>29, <1>30, <1>31, <1>32, <1>33, <1>34, <1>35, <1>36, <1>37, <1>38, <1>39, <1>40,
           <1>41, <1>42
     DEF Next, RunStep, BodyStep, Wait

-----------------------------------------------------------------------------
(* Waiting *)

\* What a step other than a restart makes of the runs that somebody waits for.
WaitLabels ==
  \A r \in RunIDs :
    /\ pc'[r] = "inserted" => pc[r] \in {"inserted", "reserved"}
    /\ r \in open' => r \in open \/ pc[r] = "inserted"
    /\ row[r] = "none" /\ row'[r] # "none" => pc[r] = "reserved"
    /\ pc'[r] = "gone" => pc[r] = "gone" \/ row'[r] # "none"

LEMMA FireOneWaitLabels ==
  ASSUME Types, Places, NEW o, FireOne(pc, o), open' = open,
         \A r \in RunIDs : row[r] = "none" <=> row'[r] = "none"
  PROVE  WaitLabels
<1>1. \A q \in RunIDs : pc'[q] = pc[q] \/ (pc[q] = "none" /\ pc'[q] = "fired")
  BY FireOneFires DEF Types
<1> QED
  BY <1>1 DEF WaitLabels, Places

LEMMA WaitLabelsStep ==
  ASSUME Types, Places, ~Restart, [Next]_vars PROVE WaitLabels
<1> USE DEF runVars, mapVars
<1>1. ASSUME NEW t \in Roots, NEW w \in Callers, FireRoot(t, w) PROVE WaitLabels
  BY <1>1, FireOneWaitLabels DEF FireRoot
<1>2. ASSUME NEW t \in Roots, FireSync(t) PROVE WaitLabels
  <2>1. NewID \in RunIDs
    BY <1>2, FreshID DEF FireSync
  <2> QED
    BY <1>2, <2>1 DEF FireSync, WaitLabels, Types
<1>3. ASSUME NEW r \in RunIDs, Track(r) PROVE WaitLabels
  BY <1>3 DEF Track, Goto, WaitLabels, Types, Places, Body, Ending
<1>4. ASSUME NEW r \in RunIDs, InsertRow(r) PROVE WaitLabels
  BY <1>4 DEF InsertRow, Goto, WaitLabels, Types, Places, Body, Ending
<1>5. ASSUME NEW r \in RunIDs, RegisterRun(r) PROVE WaitLabels
  BY <1>5 DEF RegisterRun, Goto, WaitLabels, Types, Places, Body, Ending
<1>6. ASSUME NEW r \in RunIDs, AcquireSlot(r) PROVE WaitLabels
  BY <1>6 DEF AcquireSlot, Goto, WaitLabels, Types, Places, Body, Ending
<1>7. ASSUME NEW r \in RunIDs, AbortQueued(r) PROVE WaitLabels
  BY <1>7 DEF AbortQueued, Goto, WaitLabels, Types, Places, Body, Ending
<1>8. ASSUME NEW r \in RunIDs, NEW t \in Tasks, LookUp(r, t) PROVE WaitLabels
  BY <1>8, FireOneWaitLabels DEF LookUp
<1>9. ASSUME NEW r \in RunIDs, Preflight(r) PROVE WaitLabels
  BY <1>9 DEF Preflight, Goto, End, WaitLabels, Types, Places, Body, Ending
<1>10. ASSUME NEW r \in RunIDs, Finish(r) PROVE WaitLabels
  BY <1>10 DEF Finish, Goto, WaitLabels, Types, Places, Body, Ending
<1>11. ASSUME NEW r \in RunIDs, FireEdges(r) PROVE WaitLabels
  <2> DEFINE p == [pc EXCEPT ![r] = IF FailureChainApplies(r) THEN "check" ELSE "release"]
  <2>1. PICK opts \in SUBSET EdgeFires(r, row[r]) : FireAll(p, opts)
    BY <1>11 DEF FireEdges
  <2>2. \A q \in RunIDs : p[q] = pc[q] \/ p[q] \in {"check", "release"}
    BY DEF Types
  <2> HIDE DEF p
  <2>3. PICK new \in SUBSET RunIDs :
          /\ \A q \in new : pc'[q] = "fired"
          /\ \A q \in RunIDs \ new : pc'[q] = p[q]
    BY <2>1, EdgesAreFinite, FireAllFires
  <2>4. \A q \in RunIDs : pc'[q] \in {"inserted", "gone"} => pc'[q] = pc[q]
    BY <2>2, <2>3
  <2>5. UNCHANGED <<row, open>>
    BY <1>11 DEF FireEdges
  <2> QED
    BY <2>4, <2>5 DEF WaitLabels
<1>12. ASSUME NEW r \in RunIDs, CheckGuards(r) PROVE WaitLabels
  BY <1>12 DEF CheckGuards, Goto, WaitLabels, Types, Places, Body, Ending
<1>13. ASSUME NEW r \in RunIDs, AcquireChainSlot(r) PROVE WaitLabels
  BY <1>13 DEF AcquireChainSlot, Goto, WaitLabels, Types, Places, Body, Ending
<1>14. ASSUME NEW r \in RunIDs, ResolveFails(r) PROVE WaitLabels
  BY <1>14 DEF ResolveFails, Goto, ReleaseChainSlot, Less, WaitLabels, Types, Places, Body, Ending
<1>15. ASSUME NEW r \in RunIDs, FireFailureChain(r) PROVE WaitLabels
  <2> DEFINE p == [pc EXCEPT ![r] = "firing"]
             o == Options(FailTo[Task(r)], "chain", r, ChainDepth(r) + 1, Task(r), run[r].hops + 1)
  <2>1. p \in [RunIDs -> PCs] /\ FireOne(p, o) /\ \A q \in RunIDs : p[q] = pc[q] \/ p[q] = "firing"
    BY <1>15 DEF FireFailureChain, Types, PCs, Begun, Ending
  <2> HIDE DEF p, o
  <2>2. PICK n \in RunIDs : pc'[n] = "fired" /\ \A q \in RunIDs \ {n} : pc'[q] = p[q]
    BY <2>1, FireOneFires
  <2>3. UNCHANGED <<row, open>>
    BY <1>15 DEF FireFailureChain
  <2> QED
    BY <2>1, <2>2, <2>3 DEF WaitLabels
<1>16. ASSUME NEW r \in RunIDs, ChainRefused(r) PROVE WaitLabels
  BY <1>16 DEF ChainRefused, Goto, ReleaseChainSlot, Less, WaitLabels, Types, Places, Body, Ending
<1>17. ASSUME NEW r \in RunIDs, ChainOpened(r) PROVE WaitLabels
  BY <1>17 DEF ChainOpened, Goto, WaitLabels, Types, Places, Body, Ending
<1>18. ASSUME NEW r \in RunIDs, Release(r) PROVE WaitLabels
  BY <1>18 DEF Release, Goto, ReleaseChainSlot, Less, WaitLabels, Types, Places, Body, Ending
<1>19. ASSUME NEW r \in RunIDs, Leave(r) PROVE WaitLabels
  BY <1>19 DEF Leave, Goto, WaitLabels, Types, Places, Body, Ending
<1>20. ASSUME NEW r \in RunIDs, BodyEnds(r) PROVE WaitLabels
  BY <1>20 DEF BodyEnds, MayEnd, End, Goto, WaitLabels, Types, Places, Body, Ending
<1>21. ASSUME NEW r \in RunIDs, BodyRejected(r) PROVE WaitLabels
  BY <1>21 DEF BodyRejected, MayEnd, End, Goto, WaitLabels, Types, Places, Body, Ending
<1>22. ASSUME NEW r \in RunIDs, Suspend(r) PROVE WaitLabels
  BY <1>22 DEF Suspend, MayEnd, End, Goto, WaitLabels, Types, Places, Body, Ending
<1>23. ASSUME NEW r \in RunIDs, NEW t \in Tasks, CallTask(r, t) PROVE WaitLabels
  BY <1>23, FireOneWaitLabels DEF CallTask
<1>24. ASSUME NEW r \in RunIDs, Refuse(r) PROVE WaitLabels
  BY <1>24 DEF Refuse, Goto, WaitLabels, Types, Places, Body, Ending
<1>25. ASSUME NEW r \in RunIDs, ProbeResume(r) PROVE WaitLabels
  BY <1>25 DEF ProbeResume, WaitLabels, Types, Places, Body, Ending
<1>26. ASSUME NEW r \in RunIDs, Resume(r) PROVE WaitLabels
  <2>1. CASE row[r] = "suspended"
    <3>1. \A q \in RunIDs : row[q] = "none" <=> row'[q] = "none"
      BY <1>26, <2>1 DEF Resume, Types
    <3> QED
      BY <1>26, <2>1, <3>1, FireOneWaitLabels DEF Resume
  <2>2. CASE row[r] # "suspended"
    BY <1>26, <2>2 DEF Resume, WaitLabels
  <2> QED
    BY <2>1, <2>2
<1>27. ASSUME NEW r \in RunIDs, Sweep(r) PROVE WaitLabels
  BY <1>27 DEF Sweep, WaitLabels, Types, Places, Body, Ending
<1>28. ASSUME NEW r \in RunIDs, SweepChains(r) PROVE WaitLabels
  <2>1. PICK opts \in SUBSET EdgeFires(r, "cancelled") : FireAll(pc, opts)
    BY <1>28 DEF SweepChains
  <2>2. PICK new \in SUBSET RunIDs :
          /\ \A q \in new : pc'[q] = "fired"
          /\ \A q \in RunIDs \ new : pc'[q] = pc[q]
    BY <2>1, EdgesAreFinite, FireAllFires
  <2>3. UNCHANGED <<row, open>>
    BY <1>28 DEF SweepChains
  <2> QED
    BY <2>2, <2>3 DEF WaitLabels
<1>29. ASSUME NEW r \in RunIDs, KillRun(r) PROVE WaitLabels
  BY <1>29 DEF KillRun, WaitLabels, Types, Places, Body, Ending
<1>30. ASSUME NEW r \in RunIDs, Replay(r) PROVE WaitLabels
  BY <1>30, FireOneWaitLabels DEF Replay
<1>31. ASSUME NEW w \in Waiting, WaitOpened(w) PROVE WaitLabels
  BY <1>31 DEF WaitOpened, Return, WaitLabels, Types, Places, Body, Ending
<1>32. ASSUME NEW w \in Waiting, WaitLoad(w) PROVE WaitLabels
  BY <1>32 DEF WaitLoad, WaitLabels, Types, Places, Body, Ending
<1>33. ASSUME NEW w \in Waiting, WaitWoken(w) PROVE WaitLabels
  BY <1>33 DEF WaitWoken, WaitLabels, Types, Places, Body, Ending
<1>34. ASSUME NEW w \in Waiting, WaitRead(w) PROVE WaitLabels
  BY <1>34 DEF WaitRead, Return, WaitLabels, Types, Places, Body, Ending
<1>35. ASSUME NEW w \in Waiting, WaitCancelled(w) PROVE WaitLabels
  BY <1>35 DEF WaitCancelled, Return, WaitLabels, Types, Places, Body, Ending
<1>36. ASSUME Stop PROVE WaitLabels
  BY <1>36 DEF Stop, WaitLabels, Types, Places, Body, Ending
<1>37. ASSUME BeginShutdown PROVE WaitLabels
  BY <1>37 DEF BeginShutdown, WaitLabels, Types, Places, Body, Ending
<1>38. ASSUME Restart PROVE WaitLabels
  BY <1>38
<1>39. ASSUME NEW t \in Tasks, CooldownOver(t) PROVE WaitLabels
  BY <1>39 DEF CooldownOver, WaitLabels, Types, Places, Body, Ending
<1>40. ASSUME NEW t \in Tasks, WindowOver(t) PROVE WaitLabels
  BY <1>40 DEF WindowOver, WaitLabels, Types, Places, Body, Ending
<1>41. ASSUME NEW t \in Tasks, SuppressOver(t) PROVE WaitLabels
  BY <1>41 DEF SuppressOver, WaitLabels, Types, Places, Body, Ending
<1>42. CASE UNCHANGED vars
  BY <1>42 DEF vars, WaitLabels, Types, Places, Body, Ending
<1> QED
  BY <1>1, <1>2, <1>3, <1>4, <1>5, <1>6, <1>7, <1>8, <1>9, <1>10, <1>11, <1>12, <1>13, <1>14,
     <1>15, <1>16, <1>17, <1>18, <1>19, <1>20, <1>21, <1>22, <1>23, <1>24, <1>25, <1>26, <1>27,
        <1>28, <1>29, <1>30, <1>31, <1>32, <1>33, <1>34, <1>35, <1>36, <1>37, <1>38, <1>39, <1>40,
           <1>41, <1>42
     DEF Next, RunStep, BodyStep, Wait

LEMMA KnowsIdle == ASSUME NEW w, wpc'[w] = "idle" PROVE Knows(w)'
  BY DEF Knows

\* Who goes on waiting for the same run still knows what it knew.
LEMMA KnowsKept ==
  ASSUME Places, Names, Waits, Advance, RowsAdvance, ChainLabels, WaitLabels, NEW w \in Waiting,
         wpc'[w] = wpc[w], wrun'[w] = wrun[w], wres'[w] = wres[w],
         w \in RunIDs /\ wpc[w] # "idle" => pc'[w] = pc[w]
  PROVE  Knows(w)'
<1> DEFINE x == wrun[w]
<1>1. Knows(w)
  BY DEF Waits
<1>2. wpc[w] # "idle" => (Settled(w)' <=> Settled(w))
  BY DEF Settled
<1>3. w \in RunIDs /\ wpc'[w] # "idle" => pc'[w] \in {"preflight", "executing"}
  BY <1>1 DEF Knows
<1>4. wpc[w] \in {"opening", "load", "block", "read"} => x \in RunIDs /\ pc'[x] # "none"
  BY <1>1 DEF Knows, Advance
<1>5. wpc[w] = "opening" /\ pc'[x] = "gone" => row'[x] # "none"
  BY <1>1, <1>4 DEF Knows, RowsAdvance, WaitLabels
<1>6. wpc[w] \in {"load", "block", "read"} =>
        row'[x] # "none" /\ (Settled(w) => pc'[x] # "inserted")
  BY <1>1, <1>4 DEF Knows, RowsAdvance, WaitLabels, Places
<1>7. wpc[w] = "read" /\ Settled(w) => x \notin open'
  BY <1>1, <1>4 DEF Knows, WaitLabels
<1>8. ASSUME wpc[w] = "done", wres[w] \notin {"ctx", "refused"}, ~Settled(w)
      PROVE  /\ wres[w] \in Terminal /\ x \in RunIDs /\ row'[x] = wres[w]
             /\ wres[w] = "resumed" =>
                  \A q \in RunIDs : run'[q].parent = x /\ run'[q].source = "resume" =>
                    pc'[q] \notin Opening /\ row'[q] = "none"
  <2>1. wres[w] \in Terminal /\ x \in RunIDs /\ row[x] = wres[w] /\ row'[x] = wres[w]
    BY <1>1, <1>8 DEF Knows, RowsAdvance
  <2>2. ASSUME wres[w] = "resumed", NEW q \in RunIDs, run'[q].parent = x, run'[q].source = "resume"
        PROVE  pc'[q] \notin Opening /\ row'[q] = "none"
    <3>1. CASE Born(q)
      <4>1. row[x] = "suspended"
        BY <2>2, <3>1 DEF Advance, FromOutside, FromReplay, FromEdge, FromFailure, FromSuspension
      <4> QED
        BY <2>1, <2>2, <4>1
    <3>2. CASE ~Born(q)
      <4>1. run'[q] = run[q]
        BY <3>2 DEF Advance, Born
      <4>2. pc[q] \notin Opening /\ row[q] = "none"
        BY <1>1, <1>8, <2>2, <4>1 DEF Knows
      <4>3. pc[q] # "none"
        BY <2>2, <4>1 DEF Names, Blank
      <4> QED
        BY <4>2, <4>3 DEF ChainLabels, WaitLabels, Opening
    <3> QED
      BY <3>1, <3>2
  <2> QED
    BY <2>1, <2>2
<1>9. wpc[w] = "done" /\ wres[w] \notin {"ctx", "refused"} /\ Settled(w) =>
        wres[w] \in Terminal \cup {"suspended"}
  BY <1>1 DEF Knows
<1> QED
  BY <1>2, <1>3, <1>4, <1>5, <1>6, <1>7, <1>8, <1>9 DEF Knows

\* A step that wakes nobody up and moves nobody that waits.
LEMMA WaitersKept ==
  ASSUME Places, Names, Waits, Advance, RowsAdvance, ChainLabels, WaitLabels, UNCHANGED waitVars,
         \A q \in RunIDs : pc[q] \in {"preflight", "executing"} => pc'[q] = pc[q]
  PROVE  Waits'
<1> SUFFICES ASSUME NEW w \in Waiting PROVE Knows(w)'
  BY DEF Waits
<1>1. w \in RunIDs /\ wpc[w] # "idle" => pc'[w] = pc[w]
  BY DEF Waits, Knows
<1> QED
  BY <1>1, KnowsKept DEF waitVars

\* A step of one waiting goroutine; the others know what they knew.
LEMMA OneWaiter ==
  ASSUME Types, Places, Names, Waits, Advance, RowsAdvance, ChainLabels, WaitLabels,
         NEW v \in Waiting, Knows(v)',
         \A w \in Waiting \ {v} : /\ wpc'[w] = wpc[w] /\ wrun'[w] = wrun[w] /\ wres'[w] = wres[w]
                                  /\ w \in RunIDs /\ wpc[w] # "idle" => pc'[w] = pc[w]
  PROVE  Waits'
  BY KnowsKept DEF Waits

\* The run's body is over, and with it its waiting.
LEMMA BodyLeaves ==
  ASSUME Types, Places, Names, Waits, Advance, RowsAdvance, ChainLabels, WaitLabels,
         NEW r \in RunIDs, wpc' = [wpc EXCEPT ![r] = "idle"], UNCHANGED <<wrun, wres>>,
         \A q \in RunIDs \ {r} : pc'[q] = pc[q]
  PROVE  Waits'
<1>1. r \in Waiting /\ wpc'[r] = "idle"
  BY DEF Waiting, Types
<1>2. \A w \in Waiting \ {r} : wpc'[w] = wpc[w]
  BY DEF Types
<1> QED
  BY <1>1, <1>2, KnowsIdle, OneWaiter

\* A goroutine starts to wait for a run that was just fired.
LEMMA StartsWaiting ==
  ASSUME Types, Places, Names, Waits, Advance, RowsAdvance, ChainLabels, WaitLabels,
         NEW v \in Waiting, NEW o, FireOne(pc, o), Await(v, NewID),
         v \in RunIDs => pc[v] \in {"preflight", "executing"}
  PROVE  Waits'
<1>1. PICK n \in RunIDs :
        /\ n = NewID /\ pc[n] = "none" /\ pc'[n] = "fired"
        /\ \A q \in RunIDs \ {n} : pc'[q] = pc[q]
  BY FireOneFires DEF Types
<1>2. wpc'[v] = "opening" /\ wrun'[v] = n
  BY <1>1 DEF Await, Types
<1>3. Knows(v)'
  BY <1>1, <1>2 DEF Knows
<1>4. \A w \in Waiting \ {v} : /\ wpc'[w] = wpc[w] /\ wrun'[w] = wrun[w] /\ wres'[w] = wres[w]
                               /\ w \in RunIDs /\ wpc[w] # "idle" => pc'[w] = pc[w]
  <2>1. \A w \in Waiting : w \in RunIDs /\ wpc[w] # "idle" => pc[w] # "none"
    BY DEF Waits, Knows
  <2> QED
    BY <1>1, <2>1 DEF Await, Types
<1> QED
  BY <1>3, <1>4, OneWaiter

\* A restart ends the waiting of runs; a client that had its answer keeps it.
LEMMA WaitsRestart ==
  ASSUME Types, Waits, Restart PROVE Waits'
<1> SUFFICES ASSUME NEW w \in Waiting PROVE Knows(w)'
  BY DEF Waits
<1>1. CASE w \in RunIDs
  <2>1. wpc'[w] = "idle"
    BY <1>1, RunAssumption DEF Restart
  <2> QED
    BY <2>1, KnowsIdle
<1>2. CASE w \in Clients /\ wpc'[w] # "idle"
  <2>1. /\ w \notin RunIDs /\ wpc[w] # "idle" /\ wpc'[w] = "done"
        /\ wpc[w] # "done" => wres'[w] = "ctx"
        /\ wpc[w] = "done" => wres'[w] = wres[w]
        /\ wrun' = wrun /\ run' = run
    BY <1>2, RunAssumption DEF Restart, Types
  <2>2. CASE wpc[w] = "done" /\ wres[w] \notin {"ctx", "refused"}
    <3> DEFINE x == wrun[w]
    <3>1. /\ wres[w] \in Terminal /\ x \in RunIDs /\ row[x] = wres[w]
          /\ wres[w] = "resumed" =>
               \A q \in RunIDs : run[q].parent = x /\ run[q].source = "resume" => row[q] = "none"
      BY <2>1, <2>2 DEF Waits, Knows, Settled
    <3>2. /\ row'[x] = row[x]
          /\ \A q \in RunIDs : row[q] = "none" => row'[q] = "none"
          /\ \A q \in RunIDs : pc'[q] \notin Opening
      BY <3>1 DEF Restart, Terminal, Opening, Types
    <3> QED
      BY <2>1, <2>2, <3>1, <3>2 DEF Knows, Settled
  <2>3. CASE wres'[w] \in {"ctx", "refused"}
    BY <2>1, <2>3 DEF Knows
  <2> QED
    BY <2>1, <2>2, <2>3
<1>3. CASE wpc'[w] = "idle"
  BY <1>3, KnowsIdle
<1> QED
  BY <1>1, <1>2, <1>3 DEF Waiting

LEMMA WaitsKeptStep ==
  ASSUME Types, Places, Names, Waits, Advance, RowsAdvance, ChainLabels, WaitLabels,
    [Next]_vars PROVE Waits'
<1>1. ASSUME NEW t \in Roots, NEW w \in Callers, FireRoot(t, w) PROVE Waits'
  <2>1. CASE w = NoClient
    <3>1. \A q \in RunIDs : pc'[q] = pc[q] \/ (pc[q] = "none" /\ pc'[q] = "fired")
      BY <1>1, FireOneFires DEF FireRoot, Types
    <3> QED
      BY <1>1, <2>1, <3>1, WaitersKept DEF FireRoot
  <2>2. CASE w # NoClient
    <3>1. w \in Waiting /\ w \notin RunIDs
      BY <2>2, RunAssumption DEF Waiting
    <3> QED
      BY <1>1, <2>2, <3>1, StartsWaiting DEF FireRoot
  <2> QED
    BY <2>1, <2>2
<1>2. ASSUME NEW t \in Roots, FireSync(t) PROVE Waits'
  <2>1. NewID \in RunIDs /\ pc[NewID] = "none"
    BY <1>2, FreshID DEF FireSync
  <2> QED
    BY <1>2, <2>1, WaitersKept DEF FireSync, Types
<1>3. ASSUME NEW r \in RunIDs, Track(r) PROVE Waits'
  <2>1. UNCHANGED waitVars /\ \A q \in RunIDs : pc[q] \in {"preflight",
     "executing"} => pc'[q] = pc[q]
    BY <1>3 DEF Track, Goto, Types, waitVars
  <2> QED
    BY <2>1, WaitersKept
<1>4. ASSUME NEW r \in RunIDs, InsertRow(r) PROVE Waits'
  <2>1. UNCHANGED waitVars /\ \A q \in RunIDs : pc[q] \in {"preflight",
     "executing"} => pc'[q] = pc[q]
    BY <1>4 DEF InsertRow, Goto, Types, waitVars
  <2> QED
    BY <2>1, WaitersKept
<1>5. ASSUME NEW r \in RunIDs, RegisterRun(r) PROVE Waits'
  <2>1. UNCHANGED waitVars /\ \A q \in RunIDs : pc[q] \in {"preflight",
     "executing"} => pc'[q] = pc[q]
    BY <1>5 DEF RegisterRun, Goto, Types, waitVars
  <2> QED
    BY <2>1, WaitersKept
<1>6. ASSUME NEW r \in RunIDs, AcquireSlot(r) PROVE Waits'
  <2>1. UNCHANGED waitVars /\ \A q \in RunIDs : pc[q] \in {"preflight",
     "executing"} => pc'[q] = pc[q]
    BY <1>6 DEF AcquireSlot, Goto, Types, waitVars
  <2> QED
    BY <2>1, WaitersKept
<1>7. ASSUME NEW r \in RunIDs, AbortQueued(r) PROVE Waits'
  <2>1. UNCHANGED waitVars /\ \A q \in RunIDs : pc[q] \in {"preflight",
     "executing"} => pc'[q] = pc[q]
    BY <1>7 DEF AbortQueued, Goto, Types, waitVars
  <2> QED
    BY <2>1, WaitersKept
<1>8. ASSUME NEW r \in RunIDs, NEW t \in Tasks, LookUp(r, t) PROVE Waits'
  BY <1>8, StartsWaiting DEF LookUp, Waiting
<1>9. ASSUME NEW r \in RunIDs, Preflight(r) PROVE Waits'
  <2>1. \A q \in RunIDs \ {r} : pc'[q] = pc[q]
    BY <1>9 DEF Preflight, End, Goto, Types
  <2> QED
    BY <1>9, <2>1, BodyLeaves DEF Preflight
<1>10. ASSUME NEW r \in RunIDs, Finish(r) PROVE Waits'
  <2>1. UNCHANGED waitVars /\ \A q \in RunIDs : pc[q] \in {"preflight",
     "executing"} => pc'[q] = pc[q]
    BY <1>10 DEF Finish, Goto, Types, waitVars
  <2> QED
    BY <2>1, WaitersKept
<1>11. ASSUME NEW r \in RunIDs, FireEdges(r) PROVE Waits'
  <2> DEFINE p == [pc EXCEPT ![r] = IF FailureChainApplies(r) THEN "check" ELSE "release"]
  <2>1. PICK opts \in SUBSET EdgeFires(r, row[r]) : FireAll(p, opts)
    BY <1>11 DEF FireEdges
  <2>2. \A q \in RunIDs : p[q] = pc[q] \/ pc[q] = "chain"
    BY <1>11 DEF FireEdges, Types
  <2> HIDE DEF p
  <2>3. PICK new \in SUBSET RunIDs :
          /\ \A q \in new : pc[q] = "none"
          /\ \A q \in RunIDs \ new : pc'[q] = p[q]
    BY <2>1, EdgesAreFinite, FireAllFires
  <2>4. \A q \in RunIDs : pc[q] \in {"preflight", "executing"} => pc'[q] = pc[q]
    BY <2>2, <2>3
  <2> QED
    BY <1>11, <2>4, WaitersKept DEF FireEdges
<1>12. ASSUME NEW r \in RunIDs, CheckGuards(r) PROVE Waits'
  <2>1. UNCHANGED waitVars /\ \A q \in RunIDs : pc[q] \in {"preflight",
     "executing"} => pc'[q] = pc[q]
    BY <1>12 DEF CheckGuards, Goto, Types, waitVars
  <2> QED
    BY <2>1, WaitersKept
<1>13. ASSUME NEW r \in RunIDs, AcquireChainSlot(r) PROVE Waits'
  <2>1. UNCHANGED waitVars /\ \A q \in RunIDs : pc[q] \in {"preflight",
     "executing"} => pc'[q] = pc[q]
    BY <1>13 DEF AcquireChainSlot, Goto, Types, waitVars
  <2> QED
    BY <2>1, WaitersKept
<1>14. ASSUME NEW r \in RunIDs, ResolveFails(r) PROVE Waits'
  <2>1. UNCHANGED waitVars /\ \A q \in RunIDs : pc[q] \in {"preflight",
     "executing"} => pc'[q] = pc[q]
    BY <1>14 DEF ResolveFails, Goto, ReleaseChainSlot, Less, Types, waitVars
  <2> QED
    BY <2>1, WaitersKept
<1>15. ASSUME NEW r \in RunIDs, FireFailureChain(r) PROVE Waits'
  <2> DEFINE p == [pc EXCEPT ![r] = "firing"]
             o == Options(FailTo[Task(r)], "chain", r, ChainDepth(r) + 1, Task(r), run[r].hops + 1)
  <2>1. /\ p \in [RunIDs -> PCs] /\ FireOne(p, o)
        /\ \A q \in RunIDs : p[q] = pc[q] \/ pc[q] = "resolve"
    BY <1>15 DEF FireFailureChain, Types, PCs, Begun, Ending
  <2> HIDE DEF p, o
  <2>2. PICK n \in RunIDs : pc[n] = "none" /\ \A q \in RunIDs \ {n} : pc'[q] = p[q]
    BY <2>1, FireOneFires
  <2>3. \A q \in RunIDs : pc[q] \in {"preflight", "executing"} => pc'[q] = pc[q]
    BY <2>1, <2>2
  <2> QED
    BY <1>15, <2>3, WaitersKept DEF FireFailureChain
<1>16. ASSUME NEW r \in RunIDs, ChainRefused(r) PROVE Waits'
  <2>1. UNCHANGED waitVars /\ \A q \in RunIDs : pc[q] \in {"preflight",
     "executing"} => pc'[q] = pc[q]
    BY <1>16 DEF ChainRefused, Goto, ReleaseChainSlot, Less, Types, waitVars
  <2> QED
    BY <2>1, WaitersKept
<1>17. ASSUME NEW r \in RunIDs, ChainOpened(r) PROVE Waits'
  <2>1. UNCHANGED waitVars /\ \A q \in RunIDs : pc[q] \in {"preflight",
     "executing"} => pc'[q] = pc[q]
    BY <1>17 DEF ChainOpened, Goto, Types, waitVars
  <2> QED
    BY <2>1, WaitersKept
<1>18. ASSUME NEW r \in RunIDs, Release(r) PROVE Waits'
  <2>1. UNCHANGED waitVars /\ \A q \in RunIDs : pc[q] \in {"preflight",
     "executing"} => pc'[q] = pc[q]
    BY <1>18 DEF Release, Goto, ReleaseChainSlot, Less, Types, waitVars
  <2> QED
    BY <2>1, WaitersKept
<1>19. ASSUME NEW r \in RunIDs, Leave(r) PROVE Waits'
  <2>1. UNCHANGED waitVars /\ \A q \in RunIDs : pc[q] \in {"preflight",
     "executing"} => pc'[q] = pc[q]
    BY <1>19 DEF Leave, Goto, Types, waitVars
  <2> QED
    BY <2>1, WaitersKept
<1>20. ASSUME NEW r \in RunIDs, BodyEnds(r) PROVE Waits'
  <2>1. \A q \in RunIDs \ {r} : pc'[q] = pc[q]
    BY <1>20 DEF BodyEnds, End, Goto, Types
  <2> QED
    BY <1>20, <2>1, BodyLeaves DEF BodyEnds
<1>21. ASSUME NEW r \in RunIDs, BodyRejected(r) PROVE Waits'
  <2>1. \A q \in RunIDs \ {r} : pc'[q] = pc[q]
    BY <1>21 DEF BodyRejected, End, Goto, Types
  <2> QED
    BY <1>21, <2>1, BodyLeaves DEF BodyRejected
<1>22. ASSUME NEW r \in RunIDs, Suspend(r) PROVE Waits'
  <2>1. \A q \in RunIDs \ {r} : pc'[q] = pc[q]
    BY <1>22 DEF Suspend, End, Goto, Types
  <2> QED
    BY <1>22, <2>1, BodyLeaves DEF Suspend
<1>23. ASSUME NEW r \in RunIDs, NEW t \in Tasks, CallTask(r, t) PROVE Waits'
  BY <1>23, StartsWaiting DEF CallTask, Waiting
<1>24. ASSUME NEW r \in RunIDs, Refuse(r) PROVE Waits'
  <2>1. UNCHANGED waitVars /\ \A q \in RunIDs : pc[q] \in {"preflight",
     "executing"} => pc'[q] = pc[q]
    BY <1>24 DEF Refuse, Goto, Types, waitVars
  <2> QED
    BY <2>1, WaitersKept
<1>25. ASSUME NEW r \in RunIDs, ProbeResume(r) PROVE Waits'
  <2>1. UNCHANGED waitVars /\ \A q \in RunIDs : pc[q] \in {"preflight",
     "executing"} => pc'[q] = pc[q]
    BY <1>25 DEF ProbeResume, Types, runVars, waitVars
  <2> QED
    BY <2>1, WaitersKept
<1>26. ASSUME NEW r \in RunIDs, Resume(r) PROVE Waits'
  <2>1. \A q \in RunIDs : pc'[q] = pc[q] \/ (pc[q] = "none" /\ pc'[q] = "fired")
    BY <1>26, FireOneFires DEF Resume, Types
  <2> QED
    BY <1>26, <2>1, WaitersKept DEF Resume
<1>27. ASSUME NEW r \in RunIDs, Sweep(r) PROVE Waits'
  <2>1. UNCHANGED waitVars /\ \A q \in RunIDs : pc[q] \in {"preflight",
     "executing"} => pc'[q] = pc[q]
    BY <1>27 DEF Sweep, Types, waitVars
  <2> QED
    BY <2>1, WaitersKept
<1>28. ASSUME NEW r \in RunIDs, SweepChains(r) PROVE Waits'
  <2>1. PICK opts \in SUBSET EdgeFires(r, "cancelled") : FireAll(pc, opts)
    BY <1>28 DEF SweepChains
  <2>2. PICK new \in SUBSET RunIDs :
          /\ \A q \in new : pc[q] = "none"
          /\ \A q \in RunIDs \ new : pc'[q] = pc[q]
    BY <2>1, EdgesAreFinite, FireAllFires
  <2>3. \A q \in RunIDs : pc[q] \in {"preflight", "executing"} => pc'[q] = pc[q]
    BY <2>2
  <2> QED
    BY <1>28, <2>3, WaitersKept DEF SweepChains
<1>29. ASSUME NEW r \in RunIDs, KillRun(r) PROVE Waits'
  <2>1. UNCHANGED waitVars /\ \A q \in RunIDs : pc[q] \in {"preflight",
     "executing"} => pc'[q] = pc[q]
    BY <1>29 DEF KillRun, Types, runVars, waitVars
  <2> QED
    BY <2>1, WaitersKept
<1>30. ASSUME NEW r \in RunIDs, Replay(r) PROVE Waits'
  <2>1. \A q \in RunIDs : pc'[q] = pc[q] \/ (pc[q] = "none" /\ pc'[q] = "fired")
    BY <1>30, FireOneFires DEF Replay, Types
  <2> QED
    BY <1>30, <2>1, WaitersKept DEF Replay
<1>31. ASSUME NEW w \in Waiting, WaitOpened(w) PROVE Waits'
  <2>1. \A v \in Waiting \ {w} : /\ wpc'[v] = wpc[v] /\ wrun'[v] = wrun[v] /\ wres'[v] = wres[v]
                                 /\ v \in RunIDs /\ wpc[v] # "idle" => pc'[v] = pc[v]
    BY <1>31 DEF WaitOpened, Return, Types, runVars
  <2>2. Knows(w) /\ (Settled(w)' <=> Settled(w)) /\ (w \in RunIDs => pc'[w] = pc[w])
    BY <1>31 DEF WaitOpened, Waits, Settled, runVars
  <2> DEFINE x == wrun[w]
  <2>3. x \in RunIDs /\ pc'[x] = pc[x] /\ row'[x] = row[x]
    BY <1>31, <2>2 DEF WaitOpened, Knows, runVars
  <2>4. ASSUME wpc'[w] = "done", wres'[w] = "refused" PROVE Knows(w)'
    BY <1>31, <2>2, <2>4 DEF WaitOpened, Knows
  <2>5. ASSUME pc[x] \in Begun, wpc'[w] = "load", wrun'[w] = x PROVE Knows(w)'
    <3>1. row[x] # "none" /\ pc[x] \notin {"none", "inserted"}
      BY <1>31, <2>2, <2>3, <2>5 DEF WaitOpened, Knows, Places, Begun, Body, Ending
    <3> QED
      BY <1>31, <2>2, <2>3, <2>5, <3>1 DEF WaitOpened, Knows
  <2>6. Knows(w)'
    BY <1>31, <2>4, <2>5 DEF WaitOpened, Return, Types
  <2> QED
    BY <2>1, <2>6, OneWaiter
<1>32. ASSUME NEW w \in Waiting, WaitLoad(w) PROVE Waits'
  <2>1. \A v \in Waiting \ {w} : /\ wpc'[v] = wpc[v] /\ wrun'[v] = wrun[v] /\ wres'[v] = wres[v]
                                 /\ v \in RunIDs /\ wpc[v] # "idle" => pc'[v] = pc[v]
    BY <1>32 DEF WaitLoad, Return, Types, runVars
  <2>2. Knows(w) /\ (Settled(w)' <=> Settled(w)) /\ (w \in RunIDs => pc'[w] = pc[w])
    BY <1>32 DEF WaitLoad, Waits, Settled, runVars
  <2>3. Knows(w)'
    BY <1>32, <2>2 DEF WaitLoad, Knows, Types, runVars, mapVars
  <2> QED
    BY <2>1, <2>3, OneWaiter
<1>33. ASSUME NEW w \in Waiting, WaitWoken(w) PROVE Waits'
  <2>1. \A v \in Waiting \ {w} : /\ wpc'[v] = wpc[v] /\ wrun'[v] = wrun[v] /\ wres'[v] = wres[v]
                                 /\ v \in RunIDs /\ wpc[v] # "idle" => pc'[v] = pc[v]
    BY <1>33 DEF WaitWoken, Return, Types, runVars
  <2>2. Knows(w) /\ (Settled(w)' <=> Settled(w)) /\ (w \in RunIDs => pc'[w] = pc[w])
    BY <1>33 DEF WaitWoken, Waits, Settled, runVars
  <2>3. Knows(w)'
    BY <1>33, <2>2 DEF WaitWoken, Knows, Types, runVars, mapVars
  <2> QED
    BY <2>1, <2>3, OneWaiter
<1>34. ASSUME NEW w \in Waiting, WaitRead(w) PROVE Waits'
  <2>1. \A v \in Waiting \ {w} : /\ wpc'[v] = wpc[v] /\ wrun'[v] = wrun[v] /\ wres'[v] = wres[v]
                                 /\ v \in RunIDs /\ wpc[v] # "idle" => pc'[v] = pc[v]
    BY <1>34 DEF WaitRead, Return, Types, runVars
  <2>2. Knows(w) /\ (Settled(w)' <=> Settled(w)) /\ (w \in RunIDs => pc'[w] = pc[w])
    BY <1>34 DEF WaitRead, Waits, Settled, runVars
  <2> DEFINE x == wrun[w]
  <2>3. /\ wpc[w] = "read" /\ x \in RunIDs /\ row[x] # "none" /\ UNCHANGED <<run, pc, row, open>>
        /\ Settled(w) => pc[x] # "inserted" /\ x \notin open
        /\ w \in RunIDs => pc'[w] \in {"preflight", "executing"}
    BY <1>34, <2>2 DEF WaitRead, Knows, runVars, mapVars
  <2>4. ASSUME Settled(w) \/ row[x] \in {"success", "failure", "cancelled"}, Return(w, row[x])
        PROVE  Knows(w)'
    <3>1. wpc'[w] = "done" /\ wres'[w] = row[x] /\ wrun'[w] = x
      BY <2>4 DEF Return, Types
    <3>2. Settled(w) => row[x] \in Terminal \cup {"suspended"}
      <4>1. Settled(w) => row[x] # "running"
        BY <2>3 DEF Places, Types, PCs, Opening, Begun, Body, Ending
      <4> QED
        BY <2>3, <4>1 DEF Types, Statuses, Terminal
    <3> QED
      BY <2>2, <2>3, <2>4, <3>1, <3>2 DEF Knows, Terminal
  <2>5. ASSUME ~Settled(w), wpc' = [wpc EXCEPT ![w] = "load"], UNCHANGED <<wrun, wres>>
        PROVE  Knows(w)'
    <3>1. wpc'[w] = "load"
      BY <2>5 DEF Types
    <3>2. pc[x] # "none"
      BY <2>3 DEF Places
    <3> QED
      BY <2>2, <2>3, <2>5, <3>1, <3>2 DEF Knows
  <2>6. ASSUME ~Settled(w), NEW c \in Continuation(x), wpc' = [wpc EXCEPT ![w] = "load"],
               wrun' = [wrun EXCEPT ![w] = c]
        PROVE  Knows(w)'
    <3>1. wpc'[w] = "load" /\ wrun'[w] = c /\ c \in RunIDs /\ row[c] # "none"
      BY <2>6 DEF Types, Continuation
    <3>2. pc[c] # "none"
      BY <3>1 DEF Places
    <3> QED
      BY <2>2, <2>3, <2>6, <3>1, <3>2 DEF Knows
  <2>7. ASSUME ~Settled(w), row[x] = "resumed", Continuation(x) = {}, Return(w, "resumed"),
               ~ \E c \in RunIDs : /\ run[c].parent = x /\ run[c].source = "resume"
                                   /\ pc[c] \in Opening
        PROVE  Knows(w)'
    <3>1. wpc'[w] = "done" /\ wres'[w] = "resumed" /\ wrun'[w] = x
      BY <2>7 DEF Return, Types
    <3>2. \A q \in RunIDs : run[q].parent = x /\ run[q].source = "resume" =>
            pc[q] \notin Opening /\ row[q] = "none"
      BY <2>7 DEF Continuation
    <3> QED
      BY <2>2, <2>3, <2>7, <3>1, <3>2 DEF Knows, Terminal
  <2>8. Knows(w)'
    BY <1>34, <2>4, <2>5, <2>6, <2>7 DEF WaitRead
  <2> QED
    BY <2>1, <2>8, OneWaiter
<1>35. ASSUME NEW w \in Waiting, WaitCancelled(w) PROVE Waits'
  <2>1. \A v \in Waiting \ {w} : /\ wpc'[v] = wpc[v] /\ wrun'[v] = wrun[v] /\ wres'[v] = wres[v]
                                 /\ v \in RunIDs /\ wpc[v] # "idle" => pc'[v] = pc[v]
    BY <1>35 DEF WaitCancelled, Return, Types, runVars
  <2>2. Knows(w) /\ (Settled(w)' <=> Settled(w)) /\ (w \in RunIDs => pc'[w] = pc[w])
    BY <1>35 DEF WaitCancelled, Waits, Settled, runVars
  <2>3. Knows(w)'
    BY <1>35, <2>2 DEF WaitCancelled, Return, Knows, Types, runVars, mapVars
  <2> QED
    BY <2>1, <2>3, OneWaiter
<1>36. ASSUME Stop PROVE Waits'
  <2>1. UNCHANGED waitVars /\ \A q \in RunIDs : pc[q] \in {"preflight",
     "executing"} => pc'[q] = pc[q]
    BY <1>36 DEF Stop, Types, runVars, waitVars
  <2> QED
    BY <2>1, WaitersKept
<1>37. ASSUME BeginShutdown PROVE Waits'
  <2>1. UNCHANGED waitVars /\ \A q \in RunIDs : pc[q] \in {"preflight",
     "executing"} => pc'[q] = pc[q]
    BY <1>37 DEF BeginShutdown, Types, runVars, waitVars
  <2> QED
    BY <2>1, WaitersKept
<1>38. ASSUME Restart PROVE Waits'
  BY <1>38, WaitsRestart
<1>39. ASSUME NEW t \in Tasks, CooldownOver(t) PROVE Waits'
  <2>1. UNCHANGED waitVars /\ \A q \in RunIDs : pc[q] \in {"preflight",
     "executing"} => pc'[q] = pc[q]
    BY <1>39 DEF CooldownOver, Types, runVars, waitVars
  <2> QED
    BY <2>1, WaitersKept
<1>40. ASSUME NEW t \in Tasks, WindowOver(t) PROVE Waits'
  <2>1. UNCHANGED waitVars /\ \A q \in RunIDs : pc[q] \in {"preflight",
     "executing"} => pc'[q] = pc[q]
    BY <1>40 DEF WindowOver, Types, runVars, waitVars
  <2> QED
    BY <2>1, WaitersKept
<1>41. ASSUME NEW t \in Tasks, SuppressOver(t) PROVE Waits'
  <2>1. UNCHANGED waitVars /\ \A q \in RunIDs : pc[q] \in {"preflight",
     "executing"} => pc'[q] = pc[q]
    BY <1>41 DEF SuppressOver, Types, runVars, waitVars
  <2> QED
    BY <2>1, WaitersKept
<1>42. CASE UNCHANGED vars
  <2>1. UNCHANGED waitVars /\ pc' = pc
    BY <1>42 DEF vars, runVars
  <2> QED
    BY <2>1, WaitersKept
<1> QED
  BY <1>1, <1>2, <1>3, <1>4, <1>5, <1>6, <1>7, <1>8, <1>9, <1>10, <1>11, <1>12, <1>13, <1>14,
     <1>15, <1>16, <1>17, <1>18, <1>19, <1>20, <1>21, <1>22, <1>23, <1>24, <1>25, <1>26, <1>27,
        <1>28, <1>29, <1>30, <1>31, <1>32, <1>33, <1>34, <1>35, <1>36, <1>37, <1>38, <1>39, <1>40,
           <1>41, <1>42
     DEF Next, RunStep, BodyStep, Wait

LEMMA WaitsStep ==
  ASSUME Types, Places, Names, Waits, Advance, RowsAdvance, ChainLabels, [Next]_vars PROVE Waits'
<1>1. CASE Restart
  BY <1>1, WaitsRestart
<1>2. CASE ~Restart
  BY <1>2, WaitLabelsStep, WaitsKeptStep
<1> QED
  BY <1>1, <1>2

LEMMA InitWaits == Init => Waits
  BY KnowsIdle DEF Init, Waits, Knows

-----------------------------------------------------------------------------
(* The theorems *)

LEMMA InitIInv == Init => IInv
  BY InitTypes, InitPlaces, InitChains, InitSlots, InitWg, InitWaits DEF IInv, Counts

LEMMA NextIInv == IInv /\ [Next]_vars => IInv'
<1> SUFFICES ASSUME IInv, [Next]_vars PROVE IInv'
  OBVIOUS
<1> USE DEF IInv
<1>1. Advance /\ RowsAdvance
  BY AdvanceStep, RowsAdvanceStep
<1>2. ChainLabels
  BY ChainLabelsStep
<1>3. Types' /\ Places' /\ Names'
  BY <1>1, TypesStep, PlacesStep, NamesStep
<1>4. Outcomes' /\ Parents' /\ Continues' /\ Depths'
  BY <1>1, <1>2, <1>3, OutcomesStep, ParentsStep, ContinuesStep, DepthsStep
<1>5. Kids'
  BY <1>1, <1>2, <1>3, KidsStep
<1>6. Counts'
  BY <1>1, <1>2, WgExactStep, SlotsExactStep DEF Counts
<1>7. Waits'
  BY <1>1, <1>2, WaitsStep
<1> QED
  BY <1>3, <1>4, <1>5, <1>6, <1>7

\* The invariant behind the theorems below holds of every run of the engine.
THEOREM RunInvariant == Spec => []IInv
  BY InitIInv, NextIInv, PTL DEF Spec

\* Every variable of the engine's runs keeps its type; runWG, which is only ever
\* incremented and decremented, never goes below zero.
THEOREM RunTypeCorrect == Spec => []TypeOK
<1>1. IInv => TypeOK
  <2>1. IsFiniteSet(Writing) => Cardinality(Writing) \in Nat
    BY FS_CardinalityType
  <2> QED
    BY <2>1, TicketsAreFinite DEF IInv, Types, TypeOK, Counts, WgExact
<1> QED
  BY <1>1, RunInvariant, PTL

\* A run that left leaves no registration, completion channel, slot or running row,
\* and runWG counts the goroutines that may still write: for any limit, number of
\* runs and scenario (release, Leave, finalizeCancelled, CleanupStaleRuns).
THEOREM NothingIsLeaked == Spec => []NothingLeaks
<1>1. IInv /\ TypeOK => NothingLeaks
  BY DEF IInv, NothingLeaks, Places, Body, Ending, Counts, WgExact, Writing
<1> QED
  BY <1>1, RunInvariant, RunTypeCorrect, PTL

\* The failure-chain counters are the slots that are held, for each task and in all,
\* and stay within their caps (acquireSlot, releaseSlot, release, fireAsync's refusal).
THEOREM SlotsAreExact == Spec => []ChainSlotsExact
<1>1. IInv => ChainSlotsExact
  BY DEF IInv, Counts
<1> QED
  BY <1>1, RunInvariant, PTL

\* A chain run follows a run that ended, for an edge of its outcome or a failure that
\* no replay caused (fireSuccessChains, fireFailureChain, FireChain of the sweep).
THEOREM ChainsFollow == Spec => []ChainsFollowTheEnd
<1>1. IInv => ChainsFollowTheEnd
  BY DEF IInv, Parents
<1> QED
  BY <1>1, RunInvariant, PTL

\* Without the deadline sweep no chain is longer than the ceilings allow, over
\* failures, suspensions, replays and restarts.  (With it HopsBounded is wrong: the
\* sweep fires the chains of a run whose recorded depth release dropped.)
THEOREM HopsAreBounded == Spec => []("sweep" \notin may => HopsBounded)
<1>1. IInv => ("sweep" \notin may => HopsBounded)
  BY DEF IInv, Depths
<1> QED
  BY <1>1, RunInvariant, PTL

\* At most one run has the suspension of a given run as its source, and only one
\* that is marked resumed (MarkRunResumed).
LEMMA OneContinuationEach == Types /\ Parents /\ Continues => ResumedOnce
<1> SUFFICES ASSUME Types, Parents, Continues, NEW r \in RunIDs
             PROVE  LET next == {c \in RunIDs : run[c].parent = r /\ run[c].source = "resume"}
                    IN Cardinality(next) <= 1 /\ (next # {} => row[r] = "resumed")
  BY DEF ResumedOnce
<1> DEFINE next == {c \in RunIDs : run[c].parent = r /\ run[c].source = "resume"}
<1>1. next # {} => row[r] = "resumed"
  BY DEF Continues
<1>2. next = {} \/ \E c \in RunIDs : next = {c}
  BY DEF Continues
<1> HIDE DEF next
<1>3. Cardinality(next) <= 1
  <2>1. CASE next = {}
    BY <2>1, FS_EmptySet
  <2>2. ASSUME NEW c \in RunIDs, next = {c} PROVE Cardinality(next) <= 1
    <3>1. Cardinality({c}) = 1
      BY FS_Singleton
    <3>2. Cardinality(next) = Cardinality({c})
      BY <2>2
    <3> QED
      BY <3>1, <3>2
  <2> QED
    BY <1>2, <2>1, <2>2
<1> QED
  BY <1>1, <1>3 DEF next

\* What a waiting caller returns is what the row says, for any number of callers
\* and of runs that wait for one another (waitRunSettled, WaitRun).
THEOREM WaitersSee == Spec => []WaitersSeeTheEnd
<1>1. IInv => WaitersSeeTheEnd
  <2> SUFFICES ASSUME IInv PROVE WaitersSeeTheEnd
    OBVIOUS
  <2>1. ResumedOnce
    BY OneContinuationEach DEF IInv
  <2>2. ASSUME NEW w \in Waiting, wpc[w] = "done", wres[w] \notin {"ctx", "refused"}
        PROVE  IF Settled(w) THEN wres[w] \in Terminal \cup {"suspended"}
               ELSE /\ wres[w] \in Terminal /\ row[wrun[w]] = wres[w]
                    /\ wres[w] = "resumed" => Continuation(wrun[w]) = {}
    <3>1. Knows(w)
      BY DEF IInv, Waits
    <3> QED
      BY <2>2, <3>1 DEF Knows, Continuation
  <2> QED
    BY <2>1, <2>2 DEF WaitersSeeTheEnd
<1> QED
  BY <1>1, RunInvariant, PTL

\* A final status in the runs table is never overwritten, whoever finishes, sweeps,
\* resumes or cleans up (FinishRun has no guard on the status).
THEOREM FinalRowsStay == Spec => RowsSettle
<1>1. IInv /\ [Next]_vars => [\A r \in RunIDs : row[r] \in Terminal => row'[r] = row[r]]_vars
  BY RowsAdvanceStep DEF IInv, RowsAdvance
<1> QED
  BY <1>1, RunInvariant, PTL DEF Spec, RowsSettle

=============================================================================
