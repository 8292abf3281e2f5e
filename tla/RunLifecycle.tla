---------------------------- MODULE RunLifecycle ----------------------------
(***************************************************************************)
(* Plain task runs in pkg/trigger: the fire paths (fireAsync, the          *)
(* synchronous webhook), the queue for a concurrency slot, preflight and   *)
(* provider lookups, execution, finish and teardown, kill, suspend, resume *)
(* and deadline sweep, chains with their guards, callers that wait for a   *)
(* run, shutdown and restart.                                              *)
(*                                                                         *)
(* A run is executed by one goroutine; pc names its next statement that    *)
(* touches shared state.  Daemon tasks are the subject of DaemonLifecycle, *)
(* pipelines of PipelineRunner.                                            *)
(*                                                                         *)
(* Abstracted: what a body computes, parameters and their interpolation    *)
(* (it fails or not), lengths of time (cooldowns and windows end at any    *)
(* moment), audit and hooks.  A fire that finds no run ID left (RunIDs is  *)
(* the bound) does not happen.                                             *)
(***************************************************************************)
EXTENDS Naturals, FiniteSets

CONSTANTS
  RunIDs,        \* run IDs; one is used by one run
  Tasks,         \* task IDs
  Roots,         \* tasks that are fired from outside
  Edges,         \* chain edges [from, to, on]
  FailTo,        \* [Tasks -> Tasks \cup {NoTask}]: on_failure_chain of a task
  Scope,         \* [Tasks -> Tasks]: one task for each storm namespace
  Calls,         \* [Tasks -> SUBSET Tasks]: tasks its body runs and waits for
  Providers,     \* [Tasks -> SUBSET Tasks]: secret providers of its environment
  Suspending,    \* tasks whose body may call dicode.suspend()
  Fires,         \* bound: fires from outside
  Clients,       \* outside goroutines that wait for a run they fired
  Limit,         \* max_concurrent_tasks; 0 is no limit
  PerTask,       \* on_failure_chain.max_concurrent
  Global,        \* max_concurrent_global
  MaxFail,       \* on_failure_chain max_depth
  MaxSuccess,    \* maxSuccessChainDepth
  StormRate,     \* storm rate; 0 switches the breaker off
  Callers,       \* who fires from outside: clients, NoClient for one that does not wait
  Scenarios,     \* sets of things that may happen: "refuse" (the fire guard or the
                 \* insert of the row fails), "kill", "replay", "sync" (synchronous
                 \* webhooks), "noexec" (no executor, if_missing, executor errors),
                 \* "resume", "sweep", "stop", "crash", "time"
  NoRun, NoTask, NoClient

ASSUME RunAssumption ==
  /\ IsFiniteSet(RunIDs) /\ IsFiniteSet(Tasks) /\ IsFiniteSet(Edges)
  /\ Roots \subseteq Tasks
  /\ Suspending \subseteq Tasks
  /\ Edges \subseteq [from : Tasks, to : Tasks, on : {"success", "failure", "always"}]
  /\ FailTo \in [Tasks -> Tasks \cup {NoTask}]
  /\ Scope \in [Tasks -> Tasks]
  /\ Calls \in [Tasks -> SUBSET Tasks] /\ Providers \in [Tasks -> SUBSET Tasks]
  /\ Limit \in Nat /\ PerTask \in Nat \ {0} /\ Global \in Nat \ {0}
  /\ Fires \in Nat /\ MaxFail \in Nat /\ MaxSuccess \in Nat /\ StormRate \in Nat
  /\ Callers \subseteq Clients \cup {NoClient}
  /\ Clients \cap RunIDs = {}
  /\ NoRun \notin RunIDs /\ NoTask \notin Tasks /\ NoClient \notin Clients \cup RunIDs

VARIABLES
  may,       \* what may happen in this behaviour
  run,       \* run -> what it was fired with
  pc,        \* run -> next statement of its goroutine
  row,       \* run -> status in the runs table
  carry,     \* run -> chain depth stored with its suspension
  chains,    \* run -> runFinish.chain
  kid,       \* run -> the on_failure_chain run it is opening
  registered,\* runs in runCancels, runTriggerSource and runChainDepth
  open,      \* runs in runDone
  cancelled, \* runs whose context is cancelled
  probed,    \* run -> ResumeRun calls past their checks, before the UPDATE
  swept,     \* runs the sweep cancelled and has to fire chains for
  holding,   \* runs that hold a slot of taskSem
  wg,        \* runWG
  phase,     \* the engine: up, stopping, latched
  inFlight,  \* chainGuards.inFlightPerTask
  inFlightGlobal, \* chainGuards.inFlightGlobal
  cooling,   \* tasks whose lastFire is within the cooldown
  fires,     \* storm scope -> fires in the window
  stormy,    \* storm scopes that are suppressed
  wpc,       \* waiting goroutine -> next statement
  wrun,      \* waiting goroutine -> the run it waits for
  wres       \* waiting goroutine -> the status it returned

runVars == <<run, pc, row, carry, chains, kid>>
mapVars == <<registered, open, cancelled>>
resumeVars == <<probed, swept>>
guardVars == <<inFlight, inFlightGlobal, cooling, fires, stormy>>
waitVars == <<wpc, wrun, wres>>
engVars == <<holding, wg, phase>>
vars == <<runVars, mapVars, resumeVars, engVars, guardVars, waitVars, may>>

\* Waiting goroutines: clients, and the calls of a run (a provider lookup in its
\* preflight, dicode.run_task in its body).
Waiting == Clients \cup RunIDs

Sources == {"manual", "replay", "webhook", "chain", "resume", "provider", "none"}
Statuses == {"none", "running", "success", "failure", "cancelled", "suspended", "resumed"}
Terminal == {"success", "failure", "cancelled", "resumed"}
Blank == [task |-> NoTask, source |-> "none", parent |-> NoRun, depth |-> 0,
          slot |-> NoTask, hops |-> 0]

Opening == {"fired", "reserved", "inserted"}
Body == {"queued", "preflight", "executing"}
Ending == {"finish", "chain", "check", "acquire", "resolve", "firing", "record", "release"}
Begun == Body \cup Ending \cup {"leave", "gone"}
PCs == {"none", "refused"} \cup Opening \cup Begun

RunType == [task : Tasks \cup {NoTask}, source : Sources, parent : RunIDs \cup {NoRun},
            depth : Nat, slot : Tasks \cup {NoTask}, hops : Nat]

\* Every variable has its type, so that the other formulas make sense.
TypeOK ==
  /\ may \in Scenarios
  /\ run \in [RunIDs -> RunType]
  /\ pc \in [RunIDs -> PCs]
  /\ row \in [RunIDs -> Statuses]
  /\ carry \in [RunIDs -> Nat] /\ chains \in [RunIDs -> BOOLEAN]
  /\ kid \in [RunIDs -> RunIDs \cup {NoRun}]
  /\ registered \subseteq RunIDs /\ open \subseteq RunIDs /\ cancelled \subseteq RunIDs
  /\ probed \in [RunIDs -> Nat] /\ swept \subseteq RunIDs
  /\ holding \subseteq RunIDs /\ wg \in Nat
  /\ phase \in {"up", "stopping", "latched"}
  /\ inFlight \in [Tasks -> Nat] /\ inFlightGlobal \in Nat
  /\ cooling \subseteq Tasks /\ stormy \subseteq Tasks
  /\ fires \in [Tasks -> Nat]
  /\ wpc \in [Waiting -> {"idle", "opening", "load", "block", "read", "done"}]
  /\ wrun \in [Waiting -> RunIDs \cup {NoRun}]
  /\ wres \in [Waiting -> Statuses \cup {"ctx", "refused"}]

Init ==
  /\ may \in Scenarios
  /\ run = [r \in RunIDs |-> Blank]
  /\ pc = [r \in RunIDs |-> "none"]
  /\ row = [r \in RunIDs |-> "none"]
  /\ carry = [r \in RunIDs |-> 0]
  /\ chains = [r \in RunIDs |-> FALSE]
  /\ kid = [r \in RunIDs |-> NoRun]
  /\ registered = {} /\ open = {} /\ cancelled = {} /\ swept = {}
  /\ probed = [r \in RunIDs |-> 0]
  /\ holding = {} /\ wg = 0 /\ phase = "up"
  /\ inFlight = [t \in Tasks |-> 0] /\ inFlightGlobal = 0
  /\ cooling = {} /\ stormy = {}
  /\ fires = [t \in Tasks |-> 0]
  /\ wpc = [w \in Waiting |-> "idle"]
  /\ wrun = [w \in Waiting |-> NoRun]
  /\ wres = [w \in Waiting |-> "none"]

-----------------------------------------------------------------------------
(* Helpers.  An operator named ...Fault is a faulty variant of the one that  *)
(* follows it; no action uses it.                                          *)

Fresh == {r \in RunIDs : pc[r] = "none"}
Task(r) == run[r].task
ShutdownBegun == phase \in {"stopping", "latched"}
Full == Limit # 0 /\ Cardinality(holding) >= Limit

\* Engine.chainDepth: the depth recorded at fire time, until release drops it.
ChainDepth(r) == IF r \in registered THEN run[r].depth ELSE 0

\* What a fire hands over.  hops is history: the chain hops since an outside fire
\* or a replay, over resumes and sweeps.
Options(t, src, par, dep, slot, hops) ==
  [task |-> t, source |-> src, parent |-> par, depth |-> dep, slot |-> slot, hops |-> hops]

\* Start the fires, each on a run ID of its own (IDs are random, so which one does
\* not matter); p is pc apart from that.
MayFire == Cardinality({r \in RunIDs : run[r].source \in {"manual", "webhook"} /\ run[r].parent = NoRun}) < Fires
NewID == CHOOSE r \in Fresh : TRUE
FireOne(p, o) ==
  /\ Fresh # {}
  /\ run' = [run EXCEPT ![NewID] = o]
  /\ pc' = [p EXCEPT ![NewID] = "fired"]
Placement(opts) == CHOOSE f \in [opts -> Fresh] : \A a, b \in opts : f[a] = f[b] => a = b
FireAll(p, opts) ==
  /\ Cardinality(opts) <= Cardinality(Fresh)
  /\ LET at == Placement(opts)
         new == {at[o] : o \in opts}
         optsOf(r) == CHOOSE o \in opts : at[o] = r
     IN /\ run' = [r \in RunIDs |-> IF r \in new THEN optsOf(r) ELSE run[r]]
        /\ pc' = [r \in RunIDs |-> IF r \in new THEN "fired" ELSE p[r]]

Goto(r, l) == pc' = [pc EXCEPT ![r] = l]

\* Make waiting goroutine w wait for the run that is opened on ID r.
Await(w, r) ==
  /\ wpc' = [wpc EXCEPT ![w] = "opening"]
  /\ wrun' = [wrun EXCEPT ![w] = r]
  /\ wres' = [wres EXCEPT ![w] = "none"]
Return(w, res) ==
  /\ wpc' = [wpc EXCEPT ![w] = "done"]
  /\ wres' = [wres EXCEPT ![w] = res]
  /\ UNCHANGED wrun

-----------------------------------------------------------------------------
(* Fire paths *)

\* FireManual, cron, an asynchronous webhook: fireKinded -> fireAsync.  A client
\* goes on to wait for the run.
FireRoot(t, w) ==
  /\ t \in Roots /\ MayFire
  /\ FireOne(pc, Options(t, "manual", NoRun, 0, NoTask, 0))
  /\ IF w = NoClient THEN UNCHANGED waitVars
     ELSE wpc[w] = "idle" /\ Await(w, NewID)
  /\ UNCHANGED <<may, row, carry, chains, kid, mapVars, resumeVars, engVars, guardVars>>

\* A synchronous webhook takes a slot of taskSem without waiting and a drain slot
\* before it opens the run; without either it answers an error.
FireSync(t) ==
  /\ "sync" \in may /\ t \in Roots /\ MayFire
  /\ Fresh # {}
  /\ ~Full /\ phase # "latched"
  /\ run' = [run EXCEPT ![NewID] = Options(t, "webhook", NoRun, 0, NoTask, 0)]
  /\ pc' = [pc EXCEPT ![NewID] = "reserved"]
  /\ holding' = IF Limit = 0 THEN holding ELSE holding \cup {NewID}
  /\ wg' = wg + 1
  /\ UNCHANGED <<may, row, carry, chains, kid, mapVars, resumeVars, phase, guardVars, waitVars>>

\* FireForReplay.  The persisted input of a chain-fired run may hold its depth.
Replay(r) ==
  /\ "replay" \in may
  /\ row[r] \in Terminal
  /\ \E d \in {0} \cup (IF run[r].source \in {"chain", "replay"} THEN {run[r].depth} ELSE {}) :
       FireOne(pc, Options(Task(r), "replay", r, d, NoTask, d))
  /\ UNCHANGED <<may, row, carry, chains, kid, mapVars, resumeVars, engVars, guardVars, waitVars>>

\* trackRun: reserve a drain slot; refused once shutdown is latched.
Track(r) ==
  /\ pc[r] = "fired"
  /\ IF phase = "latched" THEN Goto(r, "refused") /\ UNCHANGED wg
                          ELSE Goto(r, "reserved") /\ wg' = wg + 1
  /\ UNCHANGED <<may, run, row, carry, chains, kid, mapVars, resumeVars, holding, phase,
                 guardVars, waitVars>>

RefuseFault(r) ==
  /\ "refuse" \in may /\ pc[r] = "reserved"
  /\ Goto(r, "refused")
  /\ holding' = holding \ {r}
  /\ UNCHANGED <<may, run, row, carry, chains, kid, mapVars, resumeVars, wg, phase, guardVars, waitVars>>

\* beginRun: the fire guard vetoes the run or the insert of its row fails.
Refuse(r) ==
  /\ "refuse" \in may
  /\ pc[r] = "reserved"
  /\ Goto(r, "refused")
  /\ wg' = wg - 1
  /\ holding' = holding \ {r}
  /\ UNCHANGED <<may, run, row, carry, chains, kid, mapVars, resumeVars, phase, guardVars, waitVars>>

\* beginRun: the row is inserted ...
InsertRow(r) ==
  /\ pc[r] = "reserved"
  /\ row' = [row EXCEPT ![r] = "running"]
  /\ Goto(r, "inserted")
  /\ UNCHANGED <<may, run, carry, chains, kid, mapVars, resumeVars, engVars, guardVars, waitVars>>

\* ... and after audit, input and hook the run is registered; fireAsync returns its
\* ID and starts the goroutine.
RegisterRun(r) ==
  /\ pc[r] = "inserted"
  /\ registered' = registered \cup {r}
  /\ open' = open \cup {r}
  /\ Goto(r, IF run[r].source = "webhook" THEN "preflight" ELSE "queued")
  /\ UNCHANGED <<may, run, row, carry, chains, kid, cancelled, resumeVars, engVars, guardVars, waitVars>>

\* fireAsync's goroutine: a slot of taskSem ...
AcquireSlot(r) ==
  /\ pc[r] = "queued"
  /\ ~Full
  /\ holding' = IF Limit = 0 THEN holding ELSE holding \cup {r}
  /\ Goto(r, "preflight")
  /\ UNCHANGED <<may, run, row, carry, chains, kid, mapVars, resumeVars, wg, phase, guardVars, waitVars>>

\* ... or the end of its context or of the engine: finalizeCancelled, no chains.
\* A queue exists only when there is a limit.
AbortQueued(r) ==
  /\ pc[r] = "queued"
  /\ Limit # 0
  /\ r \in cancelled \/ ShutdownBegun
  /\ row' = [row EXCEPT ![r] = "cancelled"]
  /\ chains' = [chains EXCEPT ![r] = FALSE]
  /\ Goto(r, "finish")
  /\ UNCHANGED <<may, run, carry, kid, mapVars, resumeVars, engVars, guardVars, waitVars>>

-----------------------------------------------------------------------------
(* Execution: runTask, dispatch *)

\* The run row becomes terminal (or suspended) and finish is called.
End(r, status, chain) ==
  /\ row' = [row EXCEPT ![r] = status]
  /\ chains' = [chains EXCEPT ![r] = chain]
  /\ Goto(r, "finish")

\* preflightEnv fires a secret provider and waits for it, in the context of the run.
LookUp(r, t) ==
  /\ pc[r] = "preflight"
  /\ t \in Providers[Task(r)]
  /\ wpc[r] = "idle"
  /\ FireOne(pc, Options(t, "provider", NoRun, 0, NoTask, 0))
  /\ Await(r, NewID)
  /\ UNCHANGED <<may, row, carry, chains, kid, mapVars, resumeVars, engVars, guardVars>>

\* Preflight is over: required parameters and secrets are there, or they are not (a
\* provider without an ID left counts as one) and the run fails with its chains.
Preflight(r) ==
  /\ pc[r] = "preflight"
  /\ Providers[Task(r)] = {} \/ wpc[r] = "done" \/ (wpc[r] = "idle" /\ Fresh = {})
  /\ \/ /\ Providers[Task(r)] # {} => wpc[r] = "done" /\ wres[r] = "success"
        /\ Goto(r, "executing")
        /\ UNCHANGED <<row, chains>>
     \/ End(r, "failure", TRUE)
  /\ wpc' = [wpc EXCEPT ![r] = "idle"]
  /\ UNCHANGED <<may, run, carry, kid, mapVars, resumeVars, engVars, guardVars, wrun, wres>>

\* dicode.run_task: FireFromTask, then WaitRun in the context of the task.
CallTask(r, t) ==
  /\ pc[r] = "executing"
  /\ t \in Calls[Task(r)]
  /\ wpc[r] = "idle"
  /\ FireOne(pc, Options(t, "manual", r, 0, NoTask, 0))
  /\ Await(r, NewID)
  /\ UNCHANGED <<may, row, carry, chains, kid, mapVars, resumeVars, engVars, guardVars>>

\* A body ends when it waits for nobody, or when its context ends.
MayEnd(r) == pc[r] = "executing" /\ (wpc[r] \in {"idle", "done"} \/ r \in cancelled)

\* dispatch: success, or an error that is a cancellation if the context ended.
BodyEnds(r) ==
  /\ MayEnd(r)
  /\ \E status \in {"success", IF r \in cancelled THEN "cancelled" ELSE "failure"} :
       End(r, status, TRUE)
  /\ wpc' = [wpc EXCEPT ![r] = "idle"]
  /\ UNCHANGED <<may, run, carry, kid, mapVars, resumeVars, engVars, guardVars, wrun, wres>>

\* dispatch: no executor, an if_missing prerequisite, an executor error or a
\* suspension that cannot be stored.  These failures fire no chains.
BodyRejected(r) ==
  /\ "noexec" \in may
  /\ MayEnd(r)
  /\ End(r, "failure", FALSE)
  /\ wpc' = [wpc EXCEPT ![r] = "idle"]
  /\ UNCHANGED <<may, run, carry, kid, mapVars, resumeVars, engVars, guardVars, wrun, wres>>

\* suspendRun: the chain depth goes into the row, and finish fires no chains.
Suspend(r) ==
  /\ MayEnd(r)
  /\ Task(r) \in Suspending
  /\ row[r] = "running"
  /\ carry' = [carry EXCEPT ![r] = ChainDepth(r)]
  /\ End(r, "suspended", FALSE)
  /\ wpc' = [wpc EXCEPT ![r] = "idle"]
  /\ UNCHANGED <<may, run, kid, mapVars, resumeVars, engVars, guardVars, wrun, wres>>

\* finish: wake the waiters before the chains.
Finish(r) ==
  /\ pc[r] = "finish"
  /\ open' = open \ {r}
  /\ Goto(r, IF chains[r] THEN "chain" ELSE "release")
  /\ UNCHANGED <<may, run, row, carry, chains, kid, registered, cancelled, resumeVars, engVars,
                 guardVars, waitVars>>

-----------------------------------------------------------------------------
(* Chains *)

Matching(t, status) == {e \in Edges : e.from = t /\ e.on \in {"always", status}}

EdgeFiresFault(r, status) ==
  IF ChainDepth(r) > MaxSuccess THEN {}
  ELSE {Options(e.to, "chain", r, ChainDepth(r) + 1, NoTask, run[r].hops + 1)
          : e \in Matching(Task(r), status)}

\* fireSuccessChains: every edge whose overrides are valid and whose references
\* resolve is dispatched on a goroutine of its own, below the depth ceiling.
EdgeFires(r, status) ==
  IF ChainDepth(r) + 1 > MaxSuccess THEN {}
  ELSE {Options(e.to, "chain", r, ChainDepth(r) + 1, NoTask, run[r].hops + 1)
          : e \in Matching(Task(r), status)}

FailureChainAppliesFault(r) ==
  /\ row[r] # "success"
  /\ FailTo[Task(r)] \notin {NoTask, Task(r)}
  /\ ~(r \in registered /\ run[r].source = "replay") /\ ChainDepth(r) + 1 <= MaxFail

\* fireFailureChain up to the depth ceiling.
FailureChainApplies(r) ==
  /\ row[r] = "failure"
  /\ FailTo[Task(r)] \notin {NoTask, Task(r)}
  /\ ~(r \in registered /\ run[r].source = "replay")
  /\ ChainDepth(r) + 1 <= MaxFail

FireEdges(r) ==
  /\ pc[r] = "chain"
  /\ \E opts \in SUBSET EdgeFires(r, row[r]) :
       FireAll([pc EXCEPT ![r] = IF FailureChainApplies(r) THEN "check" ELSE "release"], opts)
  /\ UNCHANGED <<may, row, carry, chains, kid, mapVars, resumeVars, engVars, guardVars, waitVars>>

\* Storm breaker and cooldown; they are recorded when the run is open.
CheckGuards(r) ==
  /\ pc[r] = "check"
  /\ Goto(r, IF Scope[Task(r)] \in stormy \/ Task(r) \in cooling THEN "release" ELSE "acquire")
  /\ UNCHANGED <<may, run, row, carry, chains, kid, mapVars, resumeVars, engVars, guardVars, waitVars>>

\* acquireSlot: both caps, in one critical section.
AcquireChainSlot(r) ==
  /\ pc[r] = "acquire"
  /\ IF inFlight[Task(r)] < PerTask /\ inFlightGlobal < Global
     THEN /\ inFlight' = [inFlight EXCEPT ![Task(r)] = @ + 1]
          /\ inFlightGlobal' = inFlightGlobal + 1
          /\ Goto(r, "resolve")
     ELSE UNCHANGED <<inFlight, inFlightGlobal>> /\ Goto(r, "release")
  /\ UNCHANGED <<may, run, row, carry, chains, kid, mapVars, resumeVars, engVars, cooling, fires,
                 stormy, waitVars>>

\* releaseSlot: clamped at zero.
Less(n) == IF n > 0 THEN n - 1 ELSE 0
ReleaseChainSlot(t) ==
  /\ inFlight' = [inFlight EXCEPT ![t] = Less(@)]
  /\ inFlightGlobal' = Less(inFlightGlobal)

\* The parameters of the failure chain do not resolve: the slot is given back ...
ResolveFails(r) ==
  /\ pc[r] = "resolve"
  /\ ReleaseChainSlot(Task(r))
  /\ Goto(r, "release")
  /\ UNCHANGED <<may, run, row, carry, chains, kid, mapVars, resumeVars, engVars, cooling, fires,
                 stormy, waitVars>>

\* ... or the run is fired; fireAsync is called, so this goroutine waits.
FireFailureChain(r) ==
  /\ pc[r] = "resolve"
  /\ FireOne([pc EXCEPT ![r] = "firing"],
             Options(FailTo[Task(r)], "chain", r, ChainDepth(r) + 1, Task(r), run[r].hops + 1))
  /\ kid' = [kid EXCEPT ![r] = NewID]
  /\ UNCHANGED <<may, row, carry, chains, mapVars, resumeVars, engVars, guardVars, waitVars>>

ChainRefusedFault(r) ==
  /\ pc[r] = "firing" /\ pc[kid[r]] = "refused"
  /\ Goto(r, "release")
  /\ UNCHANGED <<may, run, row, carry, chains, kid, mapVars, resumeVars, engVars, guardVars, waitVars>>

\* fireAsync refused the run.
ChainRefused(r) ==
  /\ pc[r] = "firing"
  /\ pc[kid[r]] = "refused"
  /\ ReleaseChainSlot(Task(r))
  /\ Goto(r, "release")
  /\ UNCHANGED <<may, run, row, carry, chains, kid, mapVars, resumeVars, engVars, cooling, fires,
                 stormy, waitVars>>

\* The run is open: recordChainFire and observeChainFire.
ChainOpened(r) ==
  /\ pc[r] = "firing"
  /\ pc[kid[r]] \in Begun
  /\ cooling' = cooling \cup {Task(r)}
  /\ LET s == Scope[Task(r)]
     IN IF StormRate = 0 THEN UNCHANGED <<fires, stormy>>
        ELSE /\ fires' = [fires EXCEPT ![s] = @ + 1]
             /\ stormy' = IF fires[s] + 1 > StormRate THEN stormy \cup {s} ELSE stormy
  /\ Goto(r, "release")
  /\ UNCHANGED <<may, run, row, carry, chains, kid, mapVars, resumeVars, engVars, inFlight,
                 inFlightGlobal, waitVars>>

\* runHandle.release: the chain slot, the registrations, the context.
Release(r) ==
  /\ pc[r] = "release"
  /\ IF run[r].slot = NoTask THEN UNCHANGED <<inFlight, inFlightGlobal>>
                             ELSE ReleaseChainSlot(run[r].slot)
  /\ registered' = registered \ {r}
  /\ open' = open \ {r}
  /\ cancelled' = cancelled \cup {r}
  /\ Goto(r, "leave")
  /\ UNCHANGED <<may, run, row, carry, chains, kid, resumeVars, engVars, cooling, fires, stormy, waitVars>>

\* The deferred receive from taskSem and runWG.Done.
Leave(r) ==
  /\ pc[r] = "leave"
  /\ holding' = holding \ {r}
  /\ wg' = wg - 1
  /\ Goto(r, "gone")
  /\ UNCHANGED <<may, run, row, carry, chains, kid, mapVars, resumeVars, phase, guardVars, waitVars>>

-----------------------------------------------------------------------------
(* Suspended runs *)

\* ResumeRun up to the UPDATE: token, status, deadline, guard, carried state.
ProbeResume(r) ==
  /\ "resume" \in may
  /\ row[r] = "suspended"
  /\ probed[r] < 2                            \* bound: two callers at a time
  /\ probed' = [probed EXCEPT ![r] = @ + 1]
  /\ UNCHANGED <<may, runVars, mapVars, swept, engVars, guardVars, waitVars>>

\* MarkRunResumed decides between the callers; the winner fires the continuation.
Resume(r) ==
  /\ probed[r] > 0
  /\ probed' = [probed EXCEPT ![r] = @ - 1]
  /\ IF row[r] = "suspended"
     THEN /\ row' = [row EXCEPT ![r] = "resumed"]
          /\ FireOne(pc, Options(Task(r), "resume", r, carry[r], NoTask, run[r].hops))
     ELSE UNCHANGED <<row, run, pc>>
  /\ UNCHANGED <<may, carry, chains, kid, mapVars, swept, engVars, guardVars, waitVars>>

SweepFault(r) ==
  /\ "sweep" \in may
  /\ row[r] \in {"suspended", "resumed"}
  /\ row' = [row EXCEPT ![r] = "cancelled"]
  /\ swept' = swept \cup {r}
  /\ UNCHANGED <<may, run, pc, carry, chains, kid, mapVars, probed, engVars, guardVars, waitVars>>

\* The deadline sweep: one guarded UPDATE for each run ...
Sweep(r) ==
  /\ "sweep" \in may
  /\ row[r] = "suspended"
  /\ row' = [row EXCEPT ![r] = "cancelled"]
  /\ swept' = swept \cup {r}
  /\ UNCHANGED <<may, run, pc, carry, chains, kid, mapVars, probed, engVars, guardVars, waitVars>>

\* ... then FireChain, beside the run's goroutine or long after it.
SweepChains(r) ==
  /\ r \in swept
  /\ swept' = swept \ {r}
  /\ \E opts \in SUBSET EdgeFires(r, "cancelled") : FireAll(pc, opts)
  /\ UNCHANGED <<may, row, carry, chains, kid, mapVars, probed, engVars, guardVars, waitVars>>

-----------------------------------------------------------------------------
(* Waiting for a run: waitRunSettled, and WaitRun around it *)

\* A run waits inside its preflight for a provider, and that with waitRunSettled.
Settled(w) == w \in RunIDs /\ pc[w] = "preflight"
Continuation(r) == {c \in RunIDs : run[c].parent = r /\ run[c].source = "resume" /\ row[c] # "none"}

\* The fire returned: with an error, or with the ID of an open run.
WaitOpened(w) ==
  /\ wpc[w] = "opening"
  /\ \/ pc[wrun[w]] = "refused" /\ Return(w, "refused")
     \/ /\ pc[wrun[w]] \in Begun
        /\ wpc' = [wpc EXCEPT ![w] = "load"]
        /\ UNCHANGED <<wrun, wres>>
  /\ UNCHANGED <<may, runVars, mapVars, resumeVars, engVars, guardVars>>

\* runDone.Load: block on the channel or read the row at once.
WaitLoad(w) ==
  /\ wpc[w] = "load"
  /\ wpc' = [wpc EXCEPT ![w] = IF wrun[w] \in open THEN "block" ELSE "read"]
  /\ UNCHANGED <<may, runVars, mapVars, resumeVars, engVars, guardVars, wrun, wres>>

WaitWoken(w) ==
  /\ wpc[w] = "block"
  /\ wrun[w] \notin open
  /\ wpc' = [wpc EXCEPT ![w] = "read"]
  /\ UNCHANGED <<may, runVars, mapVars, resumeVars, engVars, guardVars, wrun, wres>>

WaitReadFault(w) ==
  /\ wpc[w] = "read"
  /\ Return(w, row[wrun[w]])
  /\ UNCHANGED <<may, runVars, mapVars, resumeVars, engVars, guardVars>>
WaitPollsFault(w) ==
  /\ wpc[w] = "read"
  /\ IF row[wrun[w]] \in {"success", "failure", "cancelled"} THEN Return(w, row[wrun[w]])
     ELSE wpc' = [wpc EXCEPT ![w] = "load"] /\ UNCHANGED <<wrun, wres>>
  /\ UNCHANGED <<may, runVars, mapVars, resumeVars, engVars, guardVars>>

\* The row decides: terminal, poll again, or follow the continuation.  The search
\* for it is given up when there is none that is still being fired.
WaitRead(w) ==
  /\ wpc[w] = "read"
  /\ LET r == wrun[w]
         poll == wpc' = [wpc EXCEPT ![w] = "load"] /\ UNCHANGED <<wrun, wres>>
         follow == \E c \in Continuation(r) :
                      /\ wpc' = [wpc EXCEPT ![w] = "load"]
                      /\ wrun' = [wrun EXCEPT ![w] = c]
                      /\ UNCHANGED wres
         coming == \E c \in RunIDs : /\ run[c].parent = r /\ run[c].source = "resume"
                                     /\ pc[c] \in Opening
     IN \/ (Settled(w) \/ row[r] \in {"success", "failure", "cancelled"}) /\ Return(w, row[r])
        \/ ~Settled(w) /\ row[r] \in {"running", "suspended"} /\ poll
        \/ /\ ~Settled(w) /\ row[r] = "resumed"
           /\ IF Continuation(r) # {} THEN follow
              ELSE IF coming THEN poll ELSE Return(w, "resumed")
  /\ UNCHANGED <<may, runVars, mapVars, resumeVars, engVars, guardVars>>

\* The waiter's context, that of the run it waits in, is cancelled.
WaitCancelled(w) ==
  /\ w \in cancelled
  /\ wpc[w] \in {"load", "block", "read"}
  /\ Return(w, "ctx")
  /\ UNCHANGED <<may, runVars, mapVars, resumeVars, engVars, guardVars>>

-----------------------------------------------------------------------------
(* Kill, shutdown, restart, time *)

KillRun(r) ==
  /\ "kill" \in may
  /\ r \in registered
  /\ cancelled' = cancelled \cup {r}
  /\ UNCHANGED <<may, runVars, registered, open, resumeVars, engVars, guardVars, waitVars>>

\* Engine.Start: its context ends ...
Stop ==
  /\ "stop" \in may
  /\ phase = "up"
  /\ phase' = "stopping"
  /\ UNCHANGED <<may, runVars, mapVars, resumeVars, holding, wg, guardVars, waitVars>>

\* ... and beginShutdown latches trackRun.
BeginShutdown ==
  /\ phase = "stopping"
  /\ phase' = "latched"
  /\ UNCHANGED <<may, runVars, mapVars, resumeVars, holding, wg, guardVars, waitVars>>

\* The process ends, in a crash, after the drain or after the drain's grace, and
\* starts again: only the rows survive, and CleanupStaleRuns cancels the running.
Restart ==
  /\ phase = "latched" \/ "crash" \in may
  /\ \E r \in RunIDs : pc[r] # "none"
  /\ pc' = [r \in RunIDs |-> IF pc[r] \in {"none", "refused"} THEN pc[r] ELSE "gone"]
  /\ row' = [r \in RunIDs |-> IF row[r] = "running" THEN "cancelled" ELSE row[r]]
  /\ registered' = {} /\ open' = {} /\ cancelled' = {} /\ swept' = {}
  /\ probed' = [r \in RunIDs |-> 0]
  /\ holding' = {} /\ wg' = 0 /\ phase' = "up"
  /\ inFlight' = [t \in Tasks |-> 0] /\ inFlightGlobal' = 0
  /\ cooling' = {} /\ stormy' = {} /\ fires' = [t \in Tasks |-> 0]
  /\ wpc' = [w \in Waiting |-> IF w \in Clients /\ wpc[w] # "idle" THEN "done" ELSE "idle"]
  /\ wres' = [w \in Waiting |-> IF w \in Clients /\ wpc[w] \notin {"idle", "done"}
                                THEN "ctx" ELSE wres[w]]
  /\ UNCHANGED <<may, run, carry, chains, kid, wrun>>

\* A cooldown, the window of the storm breaker, its suppression are over.
CooldownOver(t) ==
  /\ "time" \in may
  /\ t \in cooling
  /\ cooling' = cooling \ {t}
  /\ UNCHANGED <<may, runVars, mapVars, resumeVars, engVars, inFlight, inFlightGlobal, fires,
                 stormy, waitVars>>
WindowOver(s) ==
  /\ "time" \in may
  /\ fires[s] > 0
  /\ fires' = [fires EXCEPT ![s] = @ - 1]
  /\ UNCHANGED <<may, runVars, mapVars, resumeVars, engVars, inFlight, inFlightGlobal, cooling,
                 stormy, waitVars>>
SuppressOver(s) ==
  /\ "time" \in may
  /\ s \in stormy
  /\ stormy' = stormy \ {s}
  /\ UNCHANGED <<may, runVars, mapVars, resumeVars, engVars, inFlight, inFlightGlobal, cooling,
                 fires, waitVars>>

-----------------------------------------------------------------------------
RunStep(r) ==
  \/ Track(r) \/ InsertRow(r) \/ RegisterRun(r)
  \/ AcquireSlot(r) \/ AbortQueued(r)
  \/ \E t \in Tasks : LookUp(r, t)
  \/ Preflight(r) \/ Finish(r)
  \/ FireEdges(r) \/ CheckGuards(r) \/ AcquireChainSlot(r)
  \/ ResolveFails(r) \/ FireFailureChain(r) \/ ChainRefused(r) \/ ChainOpened(r)
  \/ Release(r) \/ Leave(r)
BodyStep(r) == BodyEnds(r) \/ BodyRejected(r) \/ Suspend(r) \/ \E t \in Tasks : CallTask(r, t)
Wait(w) == WaitOpened(w) \/ WaitLoad(w) \/ WaitWoken(w) \/ WaitRead(w) \/ WaitCancelled(w)

Next ==
  \/ \E t \in Roots : FireSync(t) \/ \E w \in Callers : FireRoot(t, w)
  \/ \E r \in RunIDs :
       \/ RunStep(r) \/ BodyStep(r) \/ Refuse(r)
       \/ ProbeResume(r) \/ Resume(r) \/ Sweep(r) \/ SweepChains(r)
       \/ KillRun(r) \/ Replay(r)
  \/ \E w \in Waiting : Wait(w)
  \/ Stop \/ BeginShutdown \/ Restart
  \/ \E t \in Tasks : CooldownOver(t) \/ WindowOver(t) \/ SuppressOver(t)

\* Goroutines go on, bodies end, the sweep and a resume in progress go on.
Fairness ==
  /\ \A r \in RunIDs : /\ WF_vars(RunStep(r)) /\ WF_vars(BodyEnds(r))
                       /\ WF_vars(Resume(r)) /\ WF_vars(Sweep(r)) /\ WF_vars(SweepChains(r))
  /\ \A w \in Waiting : WF_vars(Wait(w))
  /\ WF_vars(BeginShutdown)

Spec == Init /\ [][Next]_vars
FairSpec == Spec /\ Fairness

-----------------------------------------------------------------------------
(* Safety *)

\* Runs that hold the failure-chain slot of t: those fired with it until release,
\* and a parent between acquireSlot and the fire.
ChainHolders(t) ==
  {r \in RunIDs :
     \/ pc[r] = "resolve" /\ Task(r) = t
     \/ /\ run[r].slot = t
        /\ \/ pc[r] \in Opening \cup Body \cup Ending
           \/ pc[r] = "refused" /\ pc[run[r].parent] = "firing" /\ kid[run[r].parent] = r}

\* The failure-chain counters are the runs that hold a slot: none is lost or given
\* back twice when a fire is refused, a reference does not resolve, a run is
\* killed in the queue or another run of the chain finishes; and the caps hold.
ChainSlotsExact ==
  /\ \A t \in Tasks : inFlight[t] = Cardinality(ChainHolders(t)) /\ inFlight[t] <= PerTask
  /\ inFlightGlobal = Cardinality({x \in RunIDs \X Tasks : x[1] \in ChainHolders(x[2])})
  /\ inFlightGlobal <= Global

\* No run is further from the fire that started it than the chain ceilings allow,
\* over suspensions, restarts and chains of both kinds (nextChainDepth, max_depth,
\* resumeCarry.ChainDepth).
HopsBounded ==
  \A r \in RunIDs : run[r].hops <=
    CASE run[r].slot # NoTask -> MaxFail
      [] run[r].slot = NoTask /\ run[r].source = "chain" -> MaxSuccess
      [] OTHER -> IF MaxFail > MaxSuccess THEN MaxFail ELSE MaxSuccess

\* A chain run follows a run that ended: not one that is suspended or was resumed,
\* nor one that was cancelled in the queue (finishes without chains); and an edge
\* fires only for its outcome.  A replayed run never starts an on_failure_chain, whatever
\* finishes or is torn down meanwhile (fireFailureChain's guard reads runTriggerSource,
\* which release drops).
ChainsFollowTheEnd ==
  \A r \in RunIDs : run[r].source = "chain" =>
    LET p == run[r].parent
    IN /\ row[p] \in {"success", "failure", "cancelled"}
       /\ IF run[r].slot # NoTask THEN row[p] = "failure" /\ run[p].source # "replay"
          ELSE \E e \in Matching(Task(p), row[p]) : e.to = Task(r)

\* A suspension is used once: at most one continuation is fired for it, and none
\* for one the deadline sweep cancelled (MarkRunResumed's guarded UPDATE against
\* concurrent callers and the sweep).
ResumedOnce ==
  \A r \in RunIDs :
    LET next == {c \in RunIDs : run[c].parent = r /\ run[c].source = "resume"}
    IN Cardinality(next) <= 1 /\ (next # {} => row[r] = "resumed")

\* A run that left leaves nothing behind: no registration, no completion channel a
\* waiter could block on, no slot, no row that says running; and runWG counts the
\* goroutines that may still write, so that the drain closes the database after
\* the last of them.
NothingLeaks ==
  /\ TypeOK
  /\ \A r \in RunIDs : pc[r] \in {"gone", "refused"} =>
       r \notin registered \cup open \cup holding /\ row[r] # "running"
  /\ wg = Cardinality({r \in RunIDs : pc[r] \in {"reserved", "inserted", "leave"} \cup Body \cup Ending})

\* What WaitRun and waitRunSettled return is what the row says: a final status, and
\* "resumed" only for a run whose continuation never opened; a provider lookup
\* may also see a suspension, never a run in progress. The continuation whose end
\* is waited for is the only one of its suspension.
WaitersSeeTheEnd ==
  /\ ResumedOnce
  /\ \A w \in Waiting : wpc[w] = "done" /\ wres[w] \notin {"ctx", "refused"} =>
       IF Settled(w) THEN wres[w] \in Terminal \cup {"suspended"}
       ELSE /\ wres[w] \in Terminal /\ row[wrun[w]] = wres[w]
            /\ wres[w] = "resumed" => Continuation(wrun[w]) = {}

\* A final status is never overwritten (FinishRun has no guard on the status).
RowsSettle ==
  [][\A r \in RunIDs : row[r] \in Terminal => row'[r] = row[r]]_vars

\* At most one on_failure_chain is recorded for a task within its cooldown.
CooldownHolds ==
  [][\A r \in RunIDs : ChainOpened(r) => Task(r) \notin cooling]_vars

\* A run that was resumed goes on in a continuation.
ResumedGoesOn ==
  \A r \in RunIDs : row[r] = "resumed" =>
    \E c \in RunIDs : run[c].parent = r /\ run[c].source = "resume" /\ pc[c] # "refused"

-----------------------------------------------------------------------------
(* Liveness *)

\* A client that fired a run gets an answer: when the run is queued, is suspended
\* and swept or resumed, is refused, or is cancelled.
ClientsReturn == \A w \in Clients : (wpc[w] # "idle") ~> (wpc[w] = "done")

\* A synchronous webhook run comes to an end.
WebhooksReturn ==
  \A r \in RunIDs :
    (run[r].source = "webhook" /\ pc[r] = "preflight") ~> (pc[r] = "gone")
=============================================================================
