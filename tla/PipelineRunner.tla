--------------------------- MODULE PipelineRunner ---------------------------
(***************************************************************************)
(* The fires of one pipeline in pkg/trigger: stages in order or as a DAG,  *)
(* a daemon as the last stage, the re-fire of a stage of a live pipeline   *)
(* that replays its descendants and replaces the daemon, kill, timeout,    *)
(* stages that suspend, and the shutdown of the engine.                    *)
(*                                                                         *)
(* A fire is executed by one goroutine (rpc) with one more for each stage  *)
(* in flight (st), a watcher for the daemon, and at most one goroutine for *)
(* a re-fire (rr), which holds the pipeline's slot.  The runs of stages    *)
(* have a life of their own; RunLifecycle shows it in full.                *)
(*                                                                         *)
(* Abstracted: what is passed from stage to stage, how long anything       *)
(* takes.  A fire that finds no run ID left (Runs is the bound) waits.     *)
(***************************************************************************)
EXTENDS Naturals, FiniteSets, Sequences

CONSTANTS
  Parents,    \* fires of the pipeline
  Runs,       \* runs of its stages and of continuations; each is used once
  Plans,      \* pipelines and what happens to them, see PlanType
  NoParent, NoRun

\* needs: depends_on of each stage, the stage before it in a sequential pipeline;
\* may: "kill", "timeout", "refuse" (a stage cannot be fired), "suspend", "resume",
\* "exit" (the daemon ends by itself), "slow" (a killed daemon outlives the five
\* seconds of its replacement), "flip" (the stage is no daemon any more), "stop";
\* outside and ids: bounds on operator fires of a stage's task and on runs.
PlanType ==
  [size : Nat \ {0}, needs : Seq(SUBSET Nat), parallel : BOOLEAN, daemon : BOOLEAN,
   may : SUBSET {"kill", "timeout", "refuse", "suspend", "resume", "exit", "slow", "flip", "stop"},
   outside : Nat, ids : Nat]
\* PipelineTask.Validate: depends_on names stages listed before; only runSequential
\* looks for a daemon.
ValidPlan(q) ==
  /\ q \in PlanType /\ Len(q.needs) = q.size
  /\ \A s \in 1..q.size :
       IF q.parallel THEN q.needs[s] \subseteq 1..(s - 1) ELSE q.needs[s] = {s - 1} \ {0}
  /\ q.daemon => ~q.parallel

ASSUME PipelineAssumption ==
  /\ NoParent \notin Parents /\ NoRun \notin Runs
  /\ \A q \in Plans : ValidPlan(q)

VARIABLES
  plan,       \* the pipeline and what may happen
  prow,       \* parent -> status of its row
  rpc,        \* parent -> next step of its runner
  outcome,    \* parent -> the status it is about to finish with
  ctx,        \* parents whose runCtx is cancelled
  late,       \* parents whose timeout is over
  failed,     \* parents with a first failure; the siblings' context is cancelled
  st,         \* parent -> stage -> progress of its goroutine
  srun,       \* parent -> stage -> the run it waits for
  daemonRun,  \* parent -> PipelineRunner.daemonRunID
  finished,   \* PipelineRunner.finished
  restarting, \* PipelineRunner.restarting
  cur,        \* parent -> the run its wait loop waits for
  watcher,    \* parent -> the goroutine that passes a kill on to the daemon
  live,       \* livePipelines[the pipeline]
  rr,         \* the goroutine of a re-fire; idle is a free pipeline slot
  own,        \* run -> whose it is
  row,        \* run -> status of its row
  body,       \* run -> none, open, ended (the channel in runDone is closed), gone
  cancelled,  \* runs whose context is cancelled
  phase,      \* engine: up, latched (trackRun refuses), listed, killed
  doomed      \* the daemon run on the kill list of the shutdown

parentVars == <<prow, rpc, outcome, cur>>
stageVars == <<st, srun, failed>>
liveVars == <<daemonRun, finished, restarting, watcher, live>>
ctxVars == <<ctx, late>>
runVars == <<own, row, body, cancelled>>
engVars == <<phase, doomed>>
vars == <<plan, parentVars, stageVars, liveVars, ctxVars, rr, runVars, engVars>>

Stages == 1..plan.size
Last == plan.size
May(x) == x \in plan.may

Final == {"success", "failure", "cancelled"}
StageStates == {"idle", "launched", "waiting", "suspended", "ok", "bad", "skipped"}
RunnerPCs == {"none", "stages", "live", "loop", "wait", "decide", "blocked", "redecide", "close",
              "finish", "row", "release", "leave", "over"}
RerunPCs == {"idle", "check", "replay", "await", "close", "last", "enter", "kill", "drain", "fire",
             "publish", "abort", "wake"}
Idle == [pc |-> "idle", p |-> NoParent, at |-> 0, old |-> NoRun, new |-> NoRun]
Nobody == [p |-> NoParent, stage |-> 0, by |-> "none"]

\* Every variable has its type, so that the other formulas make sense.
TypeOK ==
  /\ plan \in Plans
  /\ prow \in [Parents -> {"none", "running", "resumed"} \cup Final]
  /\ rpc \in [Parents -> RunnerPCs]
  /\ outcome \in [Parents -> {"none", "suspended", "resumed"} \cup Final]
  /\ ctx \subseteq Parents /\ late \subseteq Parents /\ failed \subseteq Parents
  /\ st \in [Parents -> [Stages -> StageStates]]
  /\ srun \in [Parents -> [Stages -> Runs \cup {NoRun}]]
  /\ daemonRun \in [Parents -> Runs \cup {NoRun}] /\ cur \in [Parents -> Runs \cup {NoRun}]
  /\ finished \subseteq Parents /\ restarting \subseteq Parents
  /\ watcher \in [Parents -> {"off", "armed", "done"}]
  /\ live \in Parents \cup {NoParent}
  /\ rr \in [pc : RerunPCs, p : Parents \cup {NoParent}, at : 0..Last + 1,
             old : Runs \cup {NoRun}, new : Runs \cup {NoRun}]
  /\ own \in [Runs -> [p : Parents \cup {NoParent}, stage : 0..Last,
                       by : {"none", "runner", "rerun", "outside", "resume"}]]
  /\ row \in [Runs -> {"none", "running", "suspended", "resumed"} \cup Final]
  /\ body \in [Runs -> {"none", "open", "ended", "gone"}]
  /\ cancelled \subseteq Runs
  /\ phase \in {"up", "latched", "listed", "killed"}
  /\ doomed \in Runs \cup {NoRun}

Init ==
  /\ plan \in Plans
  /\ prow = [p \in Parents |-> "none"] /\ rpc = [p \in Parents |-> "none"]
  /\ outcome = [p \in Parents |-> "none"]
  /\ ctx = {} /\ late = {} /\ failed = {}
  /\ st = [p \in Parents |-> [s \in Stages |-> "idle"]]
  /\ srun = [p \in Parents |-> [s \in Stages |-> NoRun]]
  /\ daemonRun = [p \in Parents |-> NoRun] /\ cur = [p \in Parents |-> NoRun]
  /\ finished = {} /\ restarting = {}
  /\ watcher = [p \in Parents |-> "off"]
  /\ live = NoParent /\ rr = Idle
  /\ own = [r \in Runs |-> Nobody]
  /\ row = [r \in Runs |-> "none"] /\ body = [r \in Runs |-> "none"]
  /\ cancelled = {} /\ phase = "up" /\ doomed = NoRun

-----------------------------------------------------------------------------
(* Runs of stages.  An operator named ...Fault is a faulty variant of the one *)
(* that follows it; no action uses it.                                       *)

Fresh == {r \in Runs : body[r] = "none" /\ Cardinality({q \in Runs : body[q] # "none"}) < plan.ids}
NewID == CHOOSE r \in Fresh : TRUE
IsDaemon(s) == plan.daemon /\ s = Last

\* fireStageRaw -> fireAsync: a run is open when it returns.
FireStage(o) ==
  /\ phase = "up" /\ Fresh # {}
  /\ own' = [own EXCEPT ![NewID] = o]
  /\ row' = [row EXCEPT ![NewID] = "running"]
  /\ body' = [body EXCEPT ![NewID] = "open"]
\* The stage is not registered, a reference does not resolve, the overrides are
\* invalid, the fire guard or trackRun refuses.  A fire without an ID left counts too.
FireFails == (phase # "up" \/ May("refuse") \/ Fresh = {}) /\ UNCHANGED <<own, row, body>>
KillRun(r) == cancelled' = IF r # NoRun /\ body[r] = "open" THEN cancelled \cup {r} ELSE cancelled

\* A body ends: with an outcome of its own unless it is a daemon that nobody
\* stopped, as cancelled when its context ended, or suspended.  The waiters are
\* woken before FireChain, which looks for live pipelines only after a success.
BodyEnds(r) ==
  /\ body[r] = "open"
  /\ \E status \in (IF ~IsDaemon(own[r].stage) \/ May("exit") THEN {"success", "failure"} ELSE {})
                   \cup (IF r \in cancelled THEN {"cancelled"} ELSE {})
                   \cup (IF May("suspend") THEN {"suspended"} ELSE {}) :
       /\ row' = [row EXCEPT ![r] = status]
       /\ body' = [body EXCEPT ![r] = IF status = "success" THEN "ended" ELSE "gone"]
  /\ UNCHANGED <<plan, parentVars, stageVars, liveVars, ctxVars, rr, own, cancelled, engVars>>

\* FireChain after a success: the re-fire of a stage of the live pipeline, unless
\* the pipeline's slot is taken (claimPipeline).  Then the run is released.
RunLeaves(r) ==
  /\ body[r] = "ended"
  /\ body' = [body EXCEPT ![r] = "gone"]
  /\ rr' = IF live # NoParent /\ rr.pc = "idle"
           THEN [Idle EXCEPT !.pc = "check", !.p = live, !.at = own[r].stage] ELSE rr
  /\ UNCHANGED <<plan, parentVars, stageVars, liveVars, ctxVars, own, row, cancelled, engVars>>

\* An operator fires the task of a stage by hand.
OutsideFire(s) ==
  /\ Cardinality({r \in Runs : own[r].by = "outside"}) < plan.outside
  /\ ~IsDaemon(s) /\ live # NoParent
  /\ FireStage([p |-> NoParent, stage |-> s, by |-> "outside"])
  /\ UNCHANGED <<plan, parentVars, stageVars, liveVars, ctxVars, rr, cancelled, engVars>>

\* An operator resumes a suspended stage run; the continuation belongs to nobody.
OutsideResume(r) ==
  /\ May("resume") /\ row[r] = "suspended" /\ phase = "up" /\ Fresh # {}
  /\ row' = [row EXCEPT ![r] = "resumed", ![NewID] = "running"]
  /\ body' = [body EXCEPT ![NewID] = "open"]
  /\ own' = [own EXCEPT ![NewID] = [own[r] EXCEPT !.by = "resume"]]
  /\ UNCHANGED <<plan, parentVars, stageVars, liveVars, ctxVars, rr, cancelled, engVars>>

\* finalizeSuspendedStage: only while the run is still suspended.
CancelSuspended(r) == row' = [row EXCEPT ![r] = IF @ = "suspended" THEN "cancelled" ELSE @]

-----------------------------------------------------------------------------
(* The runner: firePipeline, runSequential, runParallel *)

CtxDone(p) == p \in ctx \cup late \cup failed

\* firePipeline: trackRun, the parent's row, and the goroutine with the root stages.
Fire(p) ==
  /\ rpc[p] = "none" /\ phase = "up"
  /\ prow' = [prow EXCEPT ![p] = "running"]
  /\ rpc' = [rpc EXCEPT ![p] = "stages"]
  /\ st' = [st EXCEPT ![p] = [s \in Stages |-> IF plan.needs[s] = {} THEN "launched" ELSE "idle"]]
  /\ UNCHANGED <<plan, outcome, cur, srun, failed, liveVars, ctxVars, rr, runVars, engVars>>

StageFails(p, s) ==
  /\ st' = [st EXCEPT ![p][s] = "bad"]
  /\ failed' = failed \cup {p}

\* A stage of a parallel pipeline that is launched after its context ended returns
\* without a result and without a failure.
SkipStage(p, s) ==
  /\ rpc[p] = "stages" /\ st[p][s] = "launched"
  /\ plan.parallel /\ CtxDone(p)
  /\ st' = [st EXCEPT ![p][s] = "skipped"]
  /\ UNCHANGED <<plan, parentVars, srun, failed, liveVars, ctxVars, rr, runVars, engVars>>

\* dispatchStage up to the wait, and the fire of a terminal daemon.
DispatchStage(p, s) ==
  /\ rpc[p] = "stages" /\ st[p][s] = "launched"
  /\ plan.parallel => ~CtxDone(p)
  /\ \/ /\ FireStage([p |-> p, stage |-> s, by |-> "runner"])
        /\ srun' = [srun EXCEPT ![p][s] = NewID]
        /\ st' = [st EXCEPT ![p][s] = IF IsDaemon(s) THEN "ok" ELSE "waiting"]
        /\ rpc' = [rpc EXCEPT ![p] = IF IsDaemon(s) THEN "live" ELSE @]
        /\ UNCHANGED failed
     \/ FireFails /\ StageFails(p, s) /\ UNCHANGED <<srun, rpc>>
  /\ UNCHANGED <<plan, prow, outcome, cur, liveVars, ctxVars, rr, cancelled, engVars>>

\* awaitStageSuccess: the run ended ...
AwaitStage(p, s) ==
  /\ st[p][s] = "waiting"
  /\ body[srun[p][s]] \in {"ended", "gone"} /\ ~CtxDone(p)
  /\ CASE row[srun[p][s]] = "success" ->
            /\ st' = [st EXCEPT ![p] = [t \in Stages |->
                        IF t = s THEN "ok"
                        ELSE IF s \in plan.needs[t] /\ \A d \in plan.needs[t] \ {s} : st[p][d] = "ok"
                        THEN "launched" ELSE @[t]]]
            /\ UNCHANGED failed
       [] row[srun[p][s]] = "suspended" ->
            st' = [st EXCEPT ![p][s] = "suspended"] /\ UNCHANGED failed
       [] OTHER -> StageFails(p, s)
  /\ UNCHANGED <<plan, parentVars, srun, liveVars, ctxVars, rr, runVars, engVars>>

\* ... or the context of the stage: the run is stopped.
AbandonStage(p, s) ==
  /\ st[p][s] = "waiting" /\ CtxDone(p)
  /\ KillRun(srun[p][s])
  /\ StageFails(p, s)
  /\ UNCHANGED <<plan, parentVars, srun, liveVars, ctxVars, rr, own, row, body, engVars>>

CloseSuspendedStage(p, s) ==
  /\ st[p][s] = "suspended"
  /\ CancelSuspended(srun[p][s])
  /\ StageFails(p, s)
  /\ UNCHANGED <<plan, parentVars, srun, liveVars, ctxVars, rr, own, body, cancelled, engVars>>

\* No stage goroutine is left: wg.Wait, or the end of the loop.
StagesOver(p) ==
  /\ rpc[p] = "stages"
  /\ \A s \in Stages : st[p][s] \in {"idle", "ok", "bad", "skipped"}
  /\ rpc' = [rpc EXCEPT ![p] = "finish"]
  /\ outcome' = [outcome EXCEPT ![p] = IF p \in failed THEN "failure" ELSE "success"]
  /\ UNCHANGED <<plan, prow, cur, stageVars, liveVars, ctxVars, rr, runVars, engVars>>

-----------------------------------------------------------------------------
(* The terminal daemon: runTerminalDaemon *)

\* Its run is recorded, the pipeline is live, the watcher waits for a kill.
GoLive(p) ==
  /\ rpc[p] = "live"
  /\ daemonRun' = [daemonRun EXCEPT ![p] = srun[p][Last]]
  /\ live' = p
  /\ watcher' = [watcher EXCEPT ![p] = "armed"]
  /\ rpc' = [rpc EXCEPT ![p] = "loop"]
  /\ UNCHANGED <<plan, prow, outcome, cur, stageVars, finished, restarting, ctxVars, rr, runVars, engVars>>

Loop(p) ==
  /\ rpc[p] = "loop"
  /\ cur' = [cur EXCEPT ![p] = daemonRun[p]]
  /\ rpc' = [rpc EXCEPT ![p] = "wait"]
  /\ UNCHANGED <<plan, prow, outcome, stageVars, liveVars, ctxVars, rr, runVars, engVars>>

\* waitRunSettled, in no context that ends: the status of the row.
DaemonEnded(p) ==
  /\ rpc[p] = "wait"
  /\ body[cur[p]] \in {"ended", "gone"}
  /\ outcome' = [outcome EXCEPT ![p] = row[cur[p]]]
  /\ rpc' = [rpc EXCEPT ![p] = "decide"]
  /\ UNCHANGED <<plan, prow, cur, stageVars, liveVars, ctxVars, rr, runVars, engVars>>

Exited(p) == IF outcome[p] = "suspended" THEN "close" ELSE "finish"

\* In one critical section: replaced already, being replaced, or a real exit.
Decide(p) ==
  /\ rpc[p] = "decide"
  /\ rpc' = [rpc EXCEPT ![p] = IF daemonRun[p] # cur[p] THEN "loop"
                               ELSE IF p \in restarting THEN "blocked" ELSE Exited(p)]
  /\ UNCHANGED <<plan, prow, outcome, cur, stageVars, liveVars, ctxVars, rr, runVars, engVars>>

\* After restartDone was closed.
DecideAgain(p) ==
  /\ rpc[p] = "redecide"
  /\ rpc' = [rpc EXCEPT ![p] = IF daemonRun[p] # cur[p] THEN "loop" ELSE Exited(p)]
  /\ UNCHANGED <<plan, prow, outcome, cur, stageVars, liveVars, ctxVars, rr, runVars, engVars>>

\* finishTerminalDaemon: the fire must not adopt "suspended" (a wedged parent); it
\* adopts "resumed" if an operator was faster.
CloseSuspendedDaemon(p) ==
  /\ rpc[p] = "close"
  /\ CancelSuspended(cur[p])
  /\ outcome' = [outcome EXCEPT ![p] = "failure"]
  /\ rpc' = [rpc EXCEPT ![p] = "finish"]
  /\ UNCHANGED <<plan, prow, cur, stageVars, liveVars, ctxVars, rr, own, body, cancelled, engVars>>

-----------------------------------------------------------------------------
(* finish: the mark, the row, the release of the parent run, the live set *)

MarkFinished(p) ==
  /\ rpc[p] = "finish"
  /\ finished' = finished \cup {p}
  /\ rpc' = [rpc EXCEPT ![p] = "row"]
  /\ UNCHANGED <<plan, prow, outcome, cur, stageVars, daemonRun, restarting, watcher, live, ctxVars, rr,
                 runVars, engVars>>

FinishRow(p) ==
  /\ rpc[p] = "row"
  /\ prow' = [prow EXCEPT ![p] = outcome[p]]
  /\ rpc' = [rpc EXCEPT ![p] = "release"]
  /\ UNCHANGED <<plan, outcome, cur, stageVars, liveVars, ctxVars, rr, runVars, engVars>>

\* release cancels runCtx, which wakes a watcher that waits.
ReleaseParent(p) ==
  /\ rpc[p] = "release"
  /\ ctx' = ctx \cup {p}
  /\ rpc' = [rpc EXCEPT ![p] = "leave"]
  /\ UNCHANGED <<plan, prow, outcome, cur, stageVars, liveVars, late, rr, runVars, engVars>>

\* unregisterLivePipeline: only if this runner is still the registered one.
Leave(p) ==
  /\ rpc[p] = "leave"
  /\ live' = IF live = p THEN NoParent ELSE live
  /\ watcher' = [watcher EXCEPT ![p] = IF @ = "armed" /\ p \notin ctx THEN "done" ELSE @]
  /\ rpc' = [rpc EXCEPT ![p] = "over"]
  /\ UNCHANGED <<plan, prow, outcome, cur, stageVars, daemonRun, finished, restarting, ctxVars, rr,
                 runVars, engVars>>

\* The watcher, once: it kills the daemon run of this moment.
Watch(p) ==
  /\ watcher[p] = "armed" /\ p \in ctx
  /\ KillRun(daemonRun[p])
  /\ watcher' = [watcher EXCEPT ![p] = "done"]
  /\ UNCHANGED <<plan, parentVars, stageVars, daemonRun, finished, restarting, live, ctxVars, rr, own,
                 row, body, engVars>>

-----------------------------------------------------------------------------
(* The re-fire of a stage: runPipelineStageRerun *)

Rerun(pc) == rr' = [rr EXCEPT !.pc = pc]
ReleaseSlot == rr' = Idle
\* pipelineReplayAborted
Aborted == phase # "up" \/ live # rr.p \/ rr.p \in finished
RerunOf(s) == [p |-> rr.p, stage |-> s, by |-> "rerun"]

RerunCheck ==
  /\ rr.pc = "check"
  /\ IF Aborted THEN ReleaseSlot
     ELSE rr' = [rr EXCEPT !.pc = "replay", !.old = daemonRun[rr.p], !.at = @ + 1]
  /\ UNCHANGED <<plan, parentVars, stageVars, liveVars, ctxVars, runVars, engVars>>

\* A descendant below the daemon is replayed.
RerunReplay ==
  /\ rr.pc = "replay" /\ rr.at < Last
  /\ \/ Aborted /\ ReleaseSlot /\ UNCHANGED <<own, row, body>>
     \/ ~Aborted /\ FireFails /\ ReleaseSlot
     \/ ~Aborted /\ FireStage(RerunOf(rr.at)) /\ rr' = [rr EXCEPT !.pc = "await", !.new = NewID]
  /\ UNCHANGED <<plan, parentVars, stageVars, liveVars, ctxVars, cancelled, engVars>>

RerunAwait ==
  /\ rr.pc = "await"
  /\ \/ /\ phase # "up"
        /\ KillRun(rr.new) /\ ReleaseSlot
     \/ /\ phase = "up" /\ body[rr.new] \in {"ended", "gone"}
        /\ rr' = CASE row[rr.new] = "success" -> [rr EXCEPT !.pc = "replay", !.at = @ + 1]
                   [] row[rr.new] = "suspended" -> [rr EXCEPT !.pc = "close"]
                   [] OTHER -> Idle
        /\ UNCHANGED cancelled
  /\ UNCHANGED <<plan, parentVars, stageVars, liveVars, ctxVars, own, row, body, engVars>>

RerunClose ==
  /\ rr.pc = "close"
  /\ CancelSuspended(rr.new)
  /\ ReleaseSlot
  /\ UNCHANGED <<plan, parentVars, stageVars, liveVars, ctxVars, own, body, cancelled, engVars>>

\* The last check, and the start of the handshake.
RerunLast ==
  /\ rr.pc = "replay" /\ rr.at >= Last
  /\ IF Aborted THEN ReleaseSlot ELSE Rerun("enter")
  /\ UNCHANGED <<plan, parentVars, stageVars, liveVars, ctxVars, runVars, engVars>>

RerunEnter ==
  /\ rr.pc = "enter"
  /\ restarting' = restarting \cup {rr.p}
  /\ Rerun("kill")
  /\ UNCHANGED <<plan, parentVars, stageVars, daemonRun, finished, watcher, live, ctxVars, runVars, engVars>>

RerunKill ==
  /\ rr.pc = "kill"
  /\ KillRun(rr.old)
  /\ Rerun("drain")
  /\ UNCHANGED <<plan, parentVars, stageVars, liveVars, ctxVars, own, row, body, engVars>>

\* The old run is over, or five seconds are.
RerunDrain ==
  /\ rr.pc = "drain"
  /\ body[rr.old] \in {"ended", "gone"} \/ May("slow")
  /\ Rerun("fire")
  /\ UNCHANGED <<plan, parentVars, stageVars, liveVars, ctxVars, runVars, engVars>>

\* The new daemon is fired; one that is no daemon any more is stopped again.
RerunFire ==
  /\ rr.pc = "fire"
  /\ \/ FireFails /\ Rerun("abort") /\ UNCHANGED cancelled
     \/ /\ FireStage(RerunOf(Last))
        /\ rr' = [rr EXCEPT !.pc = "publish", !.new = NewID]
        /\ UNCHANGED cancelled
     \/ /\ May("flip")
        /\ FireStage(RerunOf(Last))
        /\ cancelled' = cancelled \cup {NewID}
        /\ Rerun("abort")
  /\ UNCHANGED <<plan, parentVars, stageVars, liveVars, ctxVars, engVars>>

Publish ==
  /\ daemonRun' = [daemonRun EXCEPT ![rr.p] = rr.new]
  /\ restarting' = restarting \ {rr.p}
  /\ Rerun("wake")
RerunPublishFault ==
  /\ rr.pc = "publish"
  /\ Publish
  /\ UNCHANGED <<plan, parentVars, stageVars, finished, watcher, live, ctxVars, runVars, engVars>>

\* In one critical section: the runner adopts the new run, unless it finished or
\* was cancelled, which its watcher has dealt with already.
RerunPublish ==
  /\ rr.pc = "publish"
  /\ IF rr.p \in finished \cup ctx
     THEN KillRun(rr.new) /\ Rerun("abort") /\ UNCHANGED <<daemonRun, restarting>>
     ELSE Publish /\ UNCHANGED cancelled
  /\ UNCHANGED <<plan, parentVars, stageVars, finished, watcher, live, ctxVars, own, row, body, engVars>>

RerunAbortFault ==
  /\ rr.pc = "abort"
  /\ restarting' = restarting \ {rr.p}
  /\ ReleaseSlot
  /\ UNCHANGED <<plan, parentVars, stageVars, daemonRun, finished, watcher, live, ctxVars, runVars, engVars>>

\* The deferred clean-up: restarting is cleared if nothing was published ...
RerunAbort ==
  /\ rr.pc = "abort"
  /\ restarting' = restarting \ {rr.p}
  /\ Rerun("wake")
  /\ UNCHANGED <<plan, parentVars, stageVars, daemonRun, finished, watcher, live, ctxVars, runVars, engVars>>

\* ... restartDone is closed, and the slot is free again.
RerunWake ==
  /\ rr.pc = "wake"
  /\ rpc' = [rpc EXCEPT ![rr.p] = IF @ = "blocked" THEN "redecide" ELSE @]
  /\ ReleaseSlot
  /\ UNCHANGED <<plan, prow, outcome, cur, stageVars, liveVars, ctxVars, runVars, engVars>>

-----------------------------------------------------------------------------
(* Kill, timeout, shutdown *)

KillParent(p) ==
  /\ May("kill") /\ prow[p] = "running" /\ p \notin ctx
  /\ ctx' = ctx \cup {p}
  /\ UNCHANGED <<plan, parentVars, stageVars, liveVars, late, rr, runVars, engVars>>

\* The timeout of the pipeline ends the context of its stages, not runCtx.
Timeout(p) ==
  /\ May("timeout") /\ prow[p] = "running" /\ p \notin late
  /\ late' = late \cup {p}
  /\ UNCHANGED <<plan, parentVars, stageVars, liveVars, ctx, rr, runVars, engVars>>

BeginShutdown ==
  /\ May("stop") /\ phase = "up"
  /\ phase' = "latched"
  /\ UNCHANGED <<plan, parentVars, stageVars, liveVars, ctxVars, rr, runVars, doomed>>

\* The daemon of the live pipeline is put on the kill list, then it is killed.
ListDaemons ==
  /\ phase = "latched"
  /\ phase' = "listed"
  /\ doomed' = IF live = NoParent THEN NoRun ELSE daemonRun[live]
  /\ UNCHANGED <<plan, parentVars, stageVars, liveVars, ctxVars, rr, runVars>>
KillDaemons ==
  /\ phase = "listed"
  /\ phase' = "killed"
  /\ KillRun(doomed)
  /\ UNCHANGED <<plan, parentVars, stageVars, liveVars, ctxVars, rr, own, row, body, doomed>>

-----------------------------------------------------------------------------
StageStep(p, s) ==
  SkipStage(p, s) \/ DispatchStage(p, s) \/ AwaitStage(p, s) \/ AbandonStage(p, s) \/ CloseSuspendedStage(p, s)
RunnerStep(p) ==
  \/ StagesOver(p) \/ GoLive(p) \/ Loop(p) \/ DaemonEnded(p) \/ Decide(p) \/ DecideAgain(p)
  \/ CloseSuspendedDaemon(p) \/ MarkFinished(p) \/ FinishRow(p) \/ ReleaseParent(p) \/ Leave(p)
RerunStep ==
  \/ RerunCheck \/ RerunReplay \/ RerunAwait \/ RerunClose \/ RerunLast \/ RerunEnter \/ RerunKill
  \/ RerunDrain \/ RerunFire \/ RerunPublish \/ RerunAbort \/ RerunWake
ShutdownStep == ListDaemons \/ KillDaemons

Next ==
  \/ \E p \in Parents :
       \/ Fire(p) \/ RunnerStep(p) \/ Watch(p) \/ KillParent(p) \/ Timeout(p)
       \/ \E s \in Stages : StageStep(p, s)
  \/ \E r \in Runs : BodyEnds(r) \/ RunLeaves(r) \/ OutsideResume(r)
  \/ \E s \in Stages : OutsideFire(s)
  \/ RerunStep \/ BeginShutdown \/ ShutdownStep

\* Goroutines go on, bodies of tasks end, and those of daemons that were stopped.
Fairness ==
  /\ \A p \in Parents :
       /\ WF_vars(RunnerStep(p)) /\ WF_vars(Watch(p))
       /\ \A s \in 1..3 : WF_vars(s \in Stages /\ StageStep(p, s))
  /\ \A r \in Runs :
       /\ WF_vars(BodyEnds(r) /\ (r \in cancelled \/ ~IsDaemon(own[r].stage)))
       /\ WF_vars(RunLeaves(r))
  /\ WF_vars(RerunStep) /\ WF_vars(ShutdownStep)

Spec == Init /\ [][Next]_vars
FairSpec == Spec /\ Fairness

-----------------------------------------------------------------------------
(* Safety *)

\* Daemon runs of a fire that go on and that nobody told to stop.
Daemons(p) ==
  {r \in Runs : /\ own[r].p = p /\ own[r].by \in {"runner", "rerun"} /\ IsDaemon(own[r].stage)
                /\ body[r] = "open" /\ r \notin cancelled}

\* A fire has one daemon at a time, also while a re-fire replaces it: re-fires are
\* serialised by the pipeline's slot, and the old run is stopped before the new one
\* is fired.
OneDaemon == \A p \in Parents : Cardinality(Daemons(p)) <= 1

\* A fire that is over leaves no daemon behind and no stage run that goes on, once
\* its watcher saw the end and the re-fire that was under way noticed it: the
\* publication is refused after the end, a daemon published before it is killed by
\* the watcher. While it is not over, OneDaemon holds.
NothingLeftRunning ==
  TypeOK /\ OneDaemon /\ \A p \in Parents : rpc[p] = "over" /\ watcher[p] # "armed" /\ ~(rr.p = p /\ rr.pc = "publish") =>
    /\ Daemons(p) = {}
    /\ \A r \in Runs : own[r].p = p /\ own[r].by = "runner" /\ body[r] = "open" => r \in cancelled

\* A success of the fire means that each of its stages succeeded.
SuccessMeansAll ==
  \A p \in Parents : prow[p] = "success" /\ ~plan.daemon => \A s \in Stages : st[p][s] = "ok"

\* A terminal daemon that ends by itself is not replaced: its status becomes that of
\* the pipeline.
DaemonExitEnds ==
  [][\A p \in Parents : daemonRun[p] # NoRun /\ daemonRun[p] \notin cancelled /\ row[daemonRun[p]] \in Final
        => daemonRun'[p] = daemonRun[p]]_vars

-----------------------------------------------------------------------------
(* Liveness *)

\* A fire that is killed or times out before its daemon comes to its end, whatever
\* a re-fire is doing: the handshake is always resolved.
KilledEnds ==
  \A p \in Parents : (p \in ctx) ~> (rpc[p] = "over")

\* The shutdown stops every daemon of a pipeline, so that its run is final before the
\* database is closed.
ShutdownStops ==
  \A r \in Runs : (phase = "killed" /\ body[r] = "open") ~> (body[r] # "open")
=============================================================================
