------------------------ MODULE PipelineRunnerProofs ------------------------
(***************************************************************************)
(* Proofs about PipelineRunner, for any fires, runs and pipelines: a fire  *)
(* has one daemon at a time while re-fires replace it, and leaves neither  *)
(* a daemon nor a run of a stage behind.                                   *)
(***************************************************************************)
EXTENDS PipelineRunner, FiniteSetTheorems, TLAPS

-----------------------------------------------------------------------------
(* The inductive invariant.                                                *)

\* A run that is told to stop or over; it stays so.
Stopped(r) == r \in cancelled \/ body[r] # "open"
Started(r) == r \in Runs /\ body[r] # "none"

\* A run that is over has the status of its end.
EndsAreRows == \A r \in Runs : body[r] \in {"ended", "gone"} => row[r] \notin {"none", "running"}

\* The stages that are over before a stage starts.
Before(s) == IF plan.parallel THEN plan.needs[s] ELSE 1..(s - 1)

\* A stage is launched once, when those before it have succeeded.
StageInOrder(p, s) ==
  /\ st[p][s] # "idle" => \A d \in Before(s) : st[p][d] = "ok"
  /\ st[p][s] \in {"idle", "launched"} => srun[p][s] = NoRun
  /\ rpc[p] = "none" => st[p][s] = "idle"
  /\ rpc[p] \notin {"none", "stages"} => st[p][s] \in {"idle", "ok", "bad", "skipped"}
StagesInOrder == \A p \in Parents, s \in Stages : StageInOrder(p, s)

\* A run that the runner fired is the one its stage waits for, until it is over or
\* told to stop; nobody waits for a daemon here.
RunnersRuns ==
  \A r \in Runs : own[r].by = "runner" =>
    /\ own[r].p \in Parents /\ own[r].stage \in Stages
    /\ srun[own[r].p][own[r].stage] = r
    /\ IsDaemon(own[r].stage) \/ st[own[r].p][own[r].stage] = "waiting" \/ Stopped(r)

\* The runner and its watcher.
Watching(p) ==
  /\ rpc[p] \in {"none", "stages", "live"} => watcher[p] = "off"
  /\ rpc[p] \in {"loop", "wait", "decide", "blocked", "redecide", "close"} => watcher[p] # "off"
  /\ rpc[p] = "live" => Started(srun[p][Last])
  /\ rpc[p] = "wait" => cur[p] \in Runs
  /\ rpc[p] \in {"finish", "row"} => outcome[p] # "suspended"
  /\ rpc[p] \in {"leave", "over"} => p \in ctx
  /\ IF watcher[p] = "off" THEN daemonRun[p] = NoRun ELSE Started(daemonRun[p])
  /\ watcher[p] = "done" => p \in ctx /\ Stopped(daemonRun[p])
  /\ live = p => watcher[p] # "off"
Watched == \A p \in Parents : Watching(p)

\* The re-fire works on the daemon it found, which nobody else replaces, and has
\* stopped it before it fires another one.
Replacing == {"replay", "await", "close", "enter", "kill", "drain", "fire", "publish"}
Refire ==
  /\ rr.pc # "idle" => rr.p \in Parents /\ watcher[rr.p] # "off"
  /\ rr.pc = "check" => rr.at <= Last
  /\ rr.pc = "await" => rr.at < Last
  /\ rr.pc \in Replacing => rr.old = daemonRun[rr.p]
  /\ rr.pc \in {"drain", "fire"} => Stopped(rr.old)
  /\ rr.pc = "publish" => Started(rr.new)

\* The daemon of a fire is the one that is about to go live, to be published, or
\* recorded.
Known(p) ==
  IF rpc[p] = "live" THEN srun[p][Last]
  ELSE IF rr.pc = "publish" /\ rr.p = p THEN rr.new ELSE daemonRun[p]
DaemonsKnown == \A p \in Parents : Daemons(p) \subseteq {Known(p)}

IInv ==
  TypeOK /\ EndsAreRows /\ StagesInOrder /\ RunnersRuns /\ Watched /\ Refire /\ DaemonsKnown

-----------------------------------------------------------------------------
(* What plans and fires are.                                               *)

\* A pipeline has stages, a sequential one in their order, and a daemon only the last.
LEMMA Plan ==
  ASSUME plan \in Plans
  PROVE  /\ plan.size \in Nat /\ 1 <= plan.size /\ Last \in Stages
         /\ \A s \in Stages : plan.needs[s] \subseteq Nat
         /\ ~plan.parallel => \A s \in Stages : plan.needs[s] = {s - 1} \ {0}
         /\ plan.daemon => ~plan.parallel
<1>1. ValidPlan(plan)
  BY PipelineAssumption
<1>2. plan \in PlanType /\ DOMAIN plan.needs = Stages /\ plan.needs \in Seq(SUBSET Nat)
  BY <1>1 DEF ValidPlan, PlanType, Stages
<1> QED
  BY <1>1, <1>2 DEF ValidPlan, PlanType, Stages, Last

\* The run a fire opens is one that was not used.
LEMMA NewRun == Fresh # {} => NewID \in Runs /\ body[NewID] = "none"
BY DEF Fresh, NewID

-----------------------------------------------------------------------------
(* Types *)

FireTypes ==
  /\ prow \in [Parents -> {"none", "running", "resumed"} \cup Final]
  /\ rpc \in [Parents -> RunnerPCs]
  /\ outcome \in [Parents -> {"none", "suspended", "resumed"} \cup Final]
  /\ ctx \subseteq Parents /\ late \subseteq Parents /\ failed \subseteq Parents
StageTypes ==
  /\ st \in [Parents -> [Stages -> StageStates]]
  /\ srun \in [Parents -> [Stages -> Runs \cup {NoRun}]]
DaemonTypes ==
  /\ daemonRun \in [Parents -> Runs \cup {NoRun}] /\ cur \in [Parents -> Runs \cup {NoRun}]
  /\ finished \subseteq Parents /\ restarting \subseteq Parents
  /\ watcher \in [Parents -> {"off", "armed", "done"}]
  /\ live \in Parents \cup {NoParent}
RefireTypes ==
  rr \in [pc : RerunPCs, p : Parents \cup {NoParent}, at : 0..Last + 1,
          old : Runs \cup {NoRun}, new : Runs \cup {NoRun}]
RunTypes ==
  /\ own \in [Runs -> [p : Parents \cup {NoParent}, stage : 0..Last,
                       by : {"none", "runner", "rerun", "outside", "resume"}]]
  /\ row \in [Runs -> {"none", "running", "suspended", "resumed"} \cup Final]
  /\ body \in [Runs -> {"none", "open", "ended", "gone"}]
  /\ cancelled \subseteq Runs
EngineTypes ==
  phase \in {"up", "latched", "listed", "killed"} /\ doomed \in Runs \cup {NoRun}

LEMMA Types ==
  TypeOK <=> /\ plan \in Plans /\ FireTypes /\ StageTypes /\ DaemonTypes /\ RefireTypes
             /\ RunTypes /\ EngineTypes
BY DEF TypeOK, FireTypes, StageTypes, DaemonTypes, RefireTypes, RunTypes, EngineTypes

\* The progress of one stage.
LEMMA PutStage ==
  ASSUME StageTypes, NEW p \in Parents, NEW s \in Stages, NEW x \in StageStates
  PROVE  [st EXCEPT ![p][s] = x] \in [Parents -> [Stages -> StageStates]]
<1>1. [st[p] EXCEPT ![s] = x] \in [Stages -> StageStates]
  BY DEF StageTypes
<1> QED
  BY <1>1 DEF StageTypes

\* A run that was opened is by its owner.
LEMMA Opened ==
  ASSUME RunTypes, NEW o, FireStage(o)
  PROVE  /\ NewID \in Runs /\ body[NewID] = "none" /\ own'[NewID] = o /\ body'[NewID] = "open"
         /\ \A r \in Runs : r # NewID => own'[r] = own[r] /\ body'[r] = body[r]
BY NewRun DEF FireStage, RunTypes

\* The rows and steps of the fires. A fire does not finish with the status "suspended",
\* which its row could not leave again (finishTerminalDaemon).
LEMMA FireTypesStep ==
  ASSUME FireTypes, EndsAreRows, Watched, DaemonTypes, RunTypes, [Next]_vars
  PROVE  FireTypes'
<1>1. ASSUME NEW p \in Parents, Fire(p) PROVE FireTypes'
  BY <1>1 DEF Fire, Stages, liveVars, ctxVars, runVars, engVars, FireTypes, Final, RunnerPCs
<1>2. ASSUME NEW p \in Parents, NEW s \in Stages, SkipStage(p, s) PROVE FireTypes'
  BY <1>2 DEF SkipStage, CtxDone, parentVars, liveVars, ctxVars, runVars, engVars,
     FireTypes, Final, RunnerPCs
<1>3. ASSUME NEW p \in Parents, NEW s \in Stages, DispatchStage(p, s) PROVE FireTypes'
  BY <1>3, NewRun DEF DispatchStage, CtxDone, FireStage, IsDaemon, FireFails, StageFails,
     liveVars, ctxVars, engVars, Last, FireTypes, Final, RunnerPCs
<1>4. ASSUME NEW p \in Parents, NEW s \in Stages, AwaitStage(p, s) PROVE FireTypes'
  BY <1>4 DEF AwaitStage, CtxDone, Stages, StageFails, parentVars, liveVars, ctxVars,
     runVars, engVars, FireTypes, Final, RunnerPCs
<1>5. ASSUME NEW p \in Parents, NEW s \in Stages, AbandonStage(p, s) PROVE FireTypes'
  BY <1>5 DEF AbandonStage, CtxDone, KillRun, StageFails, parentVars, liveVars, ctxVars,
     engVars, FireTypes, Final, RunnerPCs
<1>6. ASSUME NEW p \in Parents, NEW s \in Stages, CloseSuspendedStage(p, s) PROVE FireTypes'
  BY <1>6 DEF CloseSuspendedStage, CancelSuspended, StageFails, parentVars, liveVars,
     ctxVars, engVars, FireTypes, Final, RunnerPCs
<1>7. ASSUME NEW p \in Parents, StagesOver(p) PROVE FireTypes'
  BY <1>7 DEF StagesOver, Stages, stageVars, liveVars, ctxVars, runVars, engVars, FireTypes,
     Final, RunnerPCs
<1>8. ASSUME NEW p \in Parents, GoLive(p) PROVE FireTypes'
  BY <1>8 DEF GoLive, Last, stageVars, ctxVars, runVars, engVars, FireTypes, Final,
     RunnerPCs
<1>9. ASSUME NEW p \in Parents, Loop(p) PROVE FireTypes'
  BY <1>9 DEF Loop, stageVars, liveVars, ctxVars, runVars, engVars, FireTypes, Final,
     RunnerPCs
<1>10. ASSUME NEW p \in Parents, DaemonEnded(p) PROVE FireTypes'
  BY <1>10 DEF DaemonEnded, stageVars, liveVars, ctxVars, runVars, engVars, FireTypes,
     Final, RunnerPCs, Watched, Watching, EndsAreRows, DaemonTypes, RunTypes
<1>11. ASSUME NEW p \in Parents, Decide(p) PROVE FireTypes'
  BY <1>11 DEF Decide, Exited, stageVars, liveVars, ctxVars, runVars, engVars, FireTypes,
     Final, RunnerPCs
<1>12. ASSUME NEW p \in Parents, DecideAgain(p) PROVE FireTypes'
  BY <1>12 DEF DecideAgain, Exited, stageVars, liveVars, ctxVars, runVars, engVars,
     FireTypes, Final, RunnerPCs
<1>13. ASSUME NEW p \in Parents, CloseSuspendedDaemon(p) PROVE FireTypes'
  BY <1>13 DEF CloseSuspendedDaemon, CancelSuspended, stageVars, liveVars, ctxVars, engVars,
     FireTypes, Final, RunnerPCs
<1>14. ASSUME NEW p \in Parents, MarkFinished(p) PROVE FireTypes'
  BY <1>14 DEF MarkFinished, stageVars, ctxVars, runVars, engVars, FireTypes, Final,
     RunnerPCs
<1>15. ASSUME NEW p \in Parents, FinishRow(p) PROVE FireTypes'
  BY <1>15 DEF FinishRow, stageVars, liveVars, ctxVars, runVars, engVars, FireTypes, Final,
     RunnerPCs, Watched, Watching
<1>16. ASSUME NEW p \in Parents, ReleaseParent(p) PROVE FireTypes'
  BY <1>16 DEF ReleaseParent, stageVars, liveVars, runVars, engVars, FireTypes, Final,
     RunnerPCs
<1>17. ASSUME NEW p \in Parents, Leave(p) PROVE FireTypes'
  BY <1>17 DEF Leave, stageVars, ctxVars, runVars, engVars, FireTypes, Final, RunnerPCs
<1>18. ASSUME NEW p \in Parents, Watch(p) PROVE FireTypes'
  BY <1>18 DEF Watch, KillRun, parentVars, stageVars, ctxVars, engVars, FireTypes, Final,
     RunnerPCs
<1>19. ASSUME NEW p \in Parents, KillParent(p) PROVE FireTypes'
  BY <1>19 DEF KillParent, parentVars, stageVars, liveVars, runVars, engVars, FireTypes,
     Final, RunnerPCs
<1>20. ASSUME NEW p \in Parents, Timeout(p) PROVE FireTypes'
  BY <1>20 DEF Timeout, parentVars, stageVars, liveVars, runVars, engVars, FireTypes, Final,
     RunnerPCs
<1>21. ASSUME NEW r \in Runs, BodyEnds(r) PROVE FireTypes'
  BY <1>21 DEF BodyEnds, IsDaemon, parentVars, stageVars, liveVars, ctxVars, engVars, Last,
     FireTypes, Final, RunnerPCs
<1>22. ASSUME NEW r \in Runs, RunLeaves(r) PROVE FireTypes'
  BY <1>22 DEF RunLeaves, Idle, parentVars, stageVars, liveVars, ctxVars, engVars,
     FireTypes, Final, RunnerPCs
<1>23. ASSUME NEW r \in Runs, OutsideResume(r) PROVE FireTypes'
  BY <1>23, NewRun DEF OutsideResume, parentVars, stageVars, liveVars, ctxVars, engVars,
     FireTypes, Final, RunnerPCs
<1>24. ASSUME NEW s \in Stages, OutsideFire(s) PROVE FireTypes'
  BY <1>24, NewRun DEF OutsideFire, IsDaemon, FireStage, parentVars, stageVars, liveVars,
     ctxVars, engVars, Last, FireTypes, Final, RunnerPCs
<1>25. ASSUME RerunCheck PROVE FireTypes'
  BY <1>25 DEF RerunCheck, Aborted, ReleaseSlot, parentVars, stageVars, liveVars, ctxVars,
     runVars, engVars, Idle, FireTypes, Final, RunnerPCs
<1>26. ASSUME RerunReplay PROVE FireTypes'
  BY <1>26, NewRun DEF RerunReplay, Last, Aborted, ReleaseSlot, FireFails, FireStage,
     RerunOf, parentVars, stageVars, liveVars, ctxVars, engVars, Idle, FireTypes, Final,
     RunnerPCs
<1>27. ASSUME RerunAwait PROVE FireTypes'
  BY <1>27 DEF RerunAwait, KillRun, ReleaseSlot, Idle, parentVars, stageVars, liveVars,
     ctxVars, engVars, FireTypes, Final, RunnerPCs
<1>28. ASSUME RerunClose PROVE FireTypes'
  BY <1>28 DEF RerunClose, CancelSuspended, ReleaseSlot, parentVars, stageVars, liveVars,
     ctxVars, engVars, Idle, FireTypes, Final, RunnerPCs
<1>29. ASSUME RerunLast PROVE FireTypes'
  BY <1>29 DEF RerunLast, Last, Aborted, ReleaseSlot, Rerun, parentVars, stageVars,
     liveVars, ctxVars, runVars, engVars, Idle, FireTypes, Final, RunnerPCs
<1>30. ASSUME RerunEnter PROVE FireTypes'
  BY <1>30 DEF RerunEnter, Rerun, parentVars, stageVars, ctxVars, runVars, engVars,
     FireTypes, Final, RunnerPCs
<1>31. ASSUME RerunKill PROVE FireTypes'
  BY <1>31 DEF RerunKill, KillRun, Rerun, parentVars, stageVars, liveVars, ctxVars, engVars,
     FireTypes, Final, RunnerPCs
<1>32. ASSUME RerunDrain PROVE FireTypes'
  BY <1>32 DEF RerunDrain, Rerun, parentVars, stageVars, liveVars, ctxVars, runVars,
     engVars, FireTypes, Final, RunnerPCs
<1>33. ASSUME RerunFire PROVE FireTypes'
  BY <1>33, NewRun DEF RerunFire, FireFails, Rerun, FireStage, RerunOf, Last, parentVars,
     stageVars, liveVars, ctxVars, engVars, FireTypes, Final, RunnerPCs
<1>34. ASSUME RerunPublish PROVE FireTypes'
  BY <1>34 DEF RerunPublish, KillRun, Rerun, Publish, parentVars, stageVars, ctxVars,
     engVars, FireTypes, Final, RunnerPCs
<1>35. ASSUME RerunAbort PROVE FireTypes'
  BY <1>35 DEF RerunAbort, Rerun, parentVars, stageVars, ctxVars, runVars, engVars,
     FireTypes, Final, RunnerPCs
<1>36. ASSUME RerunWake PROVE FireTypes'
  BY <1>36 DEF RerunWake, ReleaseSlot, stageVars, liveVars, ctxVars, runVars, engVars, Idle,
     FireTypes, Final, RunnerPCs
<1>37. ASSUME BeginShutdown PROVE FireTypes'
  BY <1>37 DEF BeginShutdown, parentVars, stageVars, liveVars, ctxVars, runVars, FireTypes,
     Final, RunnerPCs
<1>38. ASSUME ListDaemons PROVE FireTypes'
  BY <1>38 DEF ListDaemons, parentVars, stageVars, liveVars, ctxVars, runVars, FireTypes,
     Final, RunnerPCs
<1>39. ASSUME KillDaemons PROVE FireTypes'
  BY <1>39 DEF KillDaemons, KillRun, parentVars, stageVars, liveVars, ctxVars, FireTypes,
     Final, RunnerPCs
<1>40. CASE UNCHANGED vars
  BY <1>40 DEF vars, parentVars, stageVars, liveVars, ctxVars, runVars, engVars, FireTypes,
     Final, RunnerPCs
<1> QED
  BY <1>1, <1>2, <1>3, <1>4, <1>5, <1>6, <1>7, <1>8, <1>9, <1>10, <1>11, <1>12, <1>13,
     <1>14, <1>15, <1>16, <1>17, <1>18, <1>19, <1>20, <1>21, <1>22, <1>23, <1>24, <1>25,
     <1>26, <1>27, <1>28, <1>29, <1>30, <1>31, <1>32, <1>33, <1>34, <1>35, <1>36, <1>37,
     <1>38, <1>39, <1>40
     DEF Next, RunnerStep, StageStep, RerunStep, ShutdownStep

\* The progress of the stages, whoever fires them.
LEMMA StageTypesStep ==
  ASSUME plan \in Plans, StageTypes, [Next]_vars
  PROVE  StageTypes'
<1>1. ASSUME NEW p \in Parents, Fire(p) PROVE StageTypes'
  BY <1>1, Plan DEF Fire, Stages, liveVars, ctxVars, runVars, engVars, StageTypes,
     StageStates
<1>2. ASSUME NEW p \in Parents, NEW s \in Stages, SkipStage(p, s) PROVE StageTypes'
  BY <1>2, Plan DEF SkipStage, CtxDone, parentVars, liveVars, ctxVars, runVars, engVars,
     StageTypes, Stages, StageStates
<1>3. ASSUME NEW p \in Parents, NEW s \in Stages, DispatchStage(p, s) PROVE StageTypes'
  <2>1. \E x \in StageStates : st' = [st EXCEPT ![p][s] = x]
    BY <1>3 DEF DispatchStage, StageFails, StageStates
  <2>2. srun' = srun \/ \E x \in Runs : srun' = [srun EXCEPT ![p][s] = x]
    BY <1>3, NewRun DEF DispatchStage, FireStage
  <2>3. plan' = plan
    BY <1>3 DEF DispatchStage
  <2>4. st' \in [Parents -> [Stages -> StageStates]]
    BY <2>1, PutStage
  <2>5. srun' \in [Parents -> [Stages -> Runs \cup {NoRun}]]
    BY <2>2 DEF StageTypes
  <2> QED
    BY <2>3, <2>4, <2>5 DEF StageTypes, Stages
<1>4. ASSUME NEW p \in Parents, NEW s \in Stages, AwaitStage(p, s) PROVE StageTypes'
  <2> DEFINE f == [t \in Stages |-> IF t = s THEN "ok"
                    ELSE IF s \in plan.needs[t] /\ \A d \in plan.needs[t] \ {s} : st[p][d] = "ok"
                    THEN "launched" ELSE st[p][t]]
  <2>1. \/ st' = [st EXCEPT ![p] = f]
        \/ \E x \in StageStates : st' = [st EXCEPT ![p][s] = x]
    BY <1>4 DEF AwaitStage, StageFails, StageStates, StageTypes
  <2>2. f \in [Stages -> StageStates]
    BY DEF StageTypes, StageStates
  <2>3. plan' = plan /\ srun' = srun
    BY <1>4 DEF AwaitStage
  <2> HIDE DEF f
  <2>4. st' \in [Parents -> [Stages -> StageStates]]
    <3>1. CASE st' = [st EXCEPT ![p] = f]
      BY <2>2, <3>1 DEF StageTypes
    <3> QED
      BY <2>1, <3>1, PutStage
  <2> QED
    BY <2>3, <2>4 DEF StageTypes, Stages
<1>5. ASSUME NEW p \in Parents, NEW s \in Stages, AbandonStage(p, s) PROVE StageTypes'
  BY <1>5, Plan DEF AbandonStage, CtxDone, KillRun, StageFails, parentVars, liveVars,
     ctxVars, engVars, StageTypes, Stages, StageStates
<1>6. ASSUME NEW p \in Parents, NEW s \in Stages, CloseSuspendedStage(p, s) PROVE StageTypes'
  BY <1>6, Plan DEF CloseSuspendedStage, CancelSuspended, StageFails, parentVars, liveVars,
     ctxVars, engVars, StageTypes, Stages, StageStates
<1>7. ASSUME NEW p \in Parents, StagesOver(p) PROVE StageTypes'
  BY <1>7, Plan DEF StagesOver, Stages, stageVars, liveVars, ctxVars, runVars, engVars,
     StageTypes, StageStates
<1>8. ASSUME NEW p \in Parents, GoLive(p) PROVE StageTypes'
  BY <1>8, Plan DEF GoLive, Last, stageVars, ctxVars, runVars, engVars, StageTypes, Stages,
     StageStates
<1>9. ASSUME NEW p \in Parents, Loop(p) PROVE StageTypes'
  BY <1>9, Plan DEF Loop, stageVars, liveVars, ctxVars, runVars, engVars, StageTypes,
     Stages, StageStates
<1>10. ASSUME NEW p \in Parents, DaemonEnded(p) PROVE StageTypes'
  BY <1>10, Plan DEF DaemonEnded, stageVars, liveVars, ctxVars, runVars, engVars,
     StageTypes, Stages, StageStates
<1>11. ASSUME NEW p \in Parents, Decide(p) PROVE StageTypes'
  BY <1>11, Plan DEF Decide, Exited, stageVars, liveVars, ctxVars, runVars, engVars,
     StageTypes, Stages, StageStates
<1>12. ASSUME NEW p \in Parents, DecideAgain(p) PROVE StageTypes'
  BY <1>12, Plan DEF DecideAgain, Exited, stageVars, liveVars, ctxVars, runVars, engVars,
     StageTypes, Stages, StageStates
<1>13. ASSUME NEW p \in Parents, CloseSuspendedDaemon(p) PROVE StageTypes'
  BY <1>13, Plan DEF CloseSuspendedDaemon, CancelSuspended, stageVars, liveVars, ctxVars,
     engVars, StageTypes, Stages, StageStates
<1>14. ASSUME NEW p \in Parents, MarkFinished(p) PROVE StageTypes'
  BY <1>14, Plan DEF MarkFinished, stageVars, ctxVars, runVars, engVars, StageTypes, Stages,
     StageStates
<1>15. ASSUME NEW p \in Parents, FinishRow(p) PROVE StageTypes'
  BY <1>15, Plan DEF FinishRow, stageVars, liveVars, ctxVars, runVars, engVars, StageTypes,
     Stages, StageStates
<1>16. ASSUME NEW p \in Parents, ReleaseParent(p) PROVE StageTypes'
  BY <1>16, Plan DEF ReleaseParent, stageVars, liveVars, runVars, engVars, StageTypes,
     Stages, StageStates
<1>17. ASSUME NEW p \in Parents, Leave(p) PROVE StageTypes'
  BY <1>17, Plan DEF Leave, stageVars, ctxVars, runVars, engVars, StageTypes, Stages,
     StageStates
<1>18. ASSUME NEW p \in Parents, Watch(p) PROVE StageTypes'
  BY <1>18, Plan DEF Watch, KillRun, parentVars, stageVars, ctxVars, engVars, StageTypes,
     Stages, StageStates
<1>19. ASSUME NEW p \in Parents, KillParent(p) PROVE StageTypes'
  BY <1>19, Plan DEF KillParent, parentVars, stageVars, liveVars, runVars, engVars,
     StageTypes, Stages, StageStates
<1>20. ASSUME NEW p \in Parents, Timeout(p) PROVE StageTypes'
  BY <1>20, Plan DEF Timeout, parentVars, stageVars, liveVars, runVars, engVars, StageTypes,
     Stages, StageStates
<1>21. ASSUME NEW r \in Runs, BodyEnds(r) PROVE StageTypes'
  BY <1>21, Plan DEF BodyEnds, IsDaemon, parentVars, stageVars, liveVars, ctxVars, engVars,
     Last, StageTypes, Stages, StageStates
<1>22. ASSUME NEW r \in Runs, RunLeaves(r) PROVE StageTypes'
  BY <1>22, Plan DEF RunLeaves, Idle, parentVars, stageVars, liveVars, ctxVars, engVars,
     StageTypes, Stages, StageStates
<1>23. ASSUME NEW r \in Runs, OutsideResume(r) PROVE StageTypes'
  BY <1>23, Plan, NewRun DEF OutsideResume, parentVars, stageVars, liveVars, ctxVars,
     engVars, StageTypes, Stages, StageStates
<1>24. ASSUME NEW s \in Stages, OutsideFire(s) PROVE StageTypes'
  BY <1>24, Plan, NewRun DEF OutsideFire, IsDaemon, FireStage, parentVars, stageVars,
     liveVars, ctxVars, engVars, Last, StageTypes, Stages, StageStates
<1>25. ASSUME RerunCheck PROVE StageTypes'
  BY <1>25, Plan DEF RerunCheck, Aborted, ReleaseSlot, parentVars, stageVars, liveVars,
     ctxVars, runVars, engVars, Idle, StageTypes, Stages, StageStates
<1>26. ASSUME RerunReplay PROVE StageTypes'
  BY <1>26, Plan, NewRun DEF RerunReplay, Last, Aborted, ReleaseSlot, FireFails, FireStage,
     RerunOf, parentVars, stageVars, liveVars, ctxVars, engVars, Idle, StageTypes, Stages,
     StageStates
<1>27. ASSUME RerunAwait PROVE StageTypes'
  BY <1>27, Plan DEF RerunAwait, KillRun, ReleaseSlot, Idle, parentVars, stageVars,
     liveVars, ctxVars, engVars, StageTypes, Stages, StageStates
<1>28. ASSUME RerunClose PROVE StageTypes'
  BY <1>28, Plan DEF RerunClose, CancelSuspended, ReleaseSlot, parentVars, stageVars,
     liveVars, ctxVars, engVars, Idle, StageTypes, Stages, StageStates
<1>29. ASSUME RerunLast PROVE StageTypes'
  BY <1>29, Plan DEF RerunLast, Last, Aborted, ReleaseSlot, Rerun, parentVars, stageVars,
     liveVars, ctxVars, runVars, engVars, Idle, StageTypes, Stages, StageStates
<1>30. ASSUME RerunEnter PROVE StageTypes'
  BY <1>30, Plan DEF RerunEnter, Rerun, parentVars, stageVars, ctxVars, runVars, engVars,
     StageTypes, Stages, StageStates
<1>31. ASSUME RerunKill PROVE StageTypes'
  BY <1>31, Plan DEF RerunKill, KillRun, Rerun, parentVars, stageVars, liveVars, ctxVars,
     engVars, StageTypes, Stages, StageStates
<1>32. ASSUME RerunDrain PROVE StageTypes'
  BY <1>32, Plan DEF RerunDrain, Rerun, parentVars, stageVars, liveVars, ctxVars, runVars,
     engVars, StageTypes, Stages, StageStates
<1>33. ASSUME RerunFire PROVE StageTypes'
  BY <1>33, Plan, NewRun DEF RerunFire, FireFails, Rerun, FireStage, RerunOf, Last,
     parentVars, stageVars, liveVars, ctxVars, engVars, StageTypes, Stages, StageStates
<1>34. ASSUME RerunPublish PROVE StageTypes'
  BY <1>34, Plan DEF RerunPublish, KillRun, Rerun, Publish, parentVars, stageVars, ctxVars,
     engVars, StageTypes, Stages, StageStates
<1>35. ASSUME RerunAbort PROVE StageTypes'
  BY <1>35, Plan DEF RerunAbort, Rerun, parentVars, stageVars, ctxVars, runVars, engVars,
     StageTypes, Stages, StageStates
<1>36. ASSUME RerunWake PROVE StageTypes'
  BY <1>36, Plan DEF RerunWake, ReleaseSlot, stageVars, liveVars, ctxVars, runVars, engVars,
     Idle, StageTypes, Stages, StageStates
<1>37. ASSUME BeginShutdown PROVE StageTypes'
  BY <1>37, Plan DEF BeginShutdown, parentVars, stageVars, liveVars, ctxVars, runVars,
     StageTypes, Stages, StageStates
<1>38. ASSUME ListDaemons PROVE StageTypes'
  BY <1>38, Plan DEF ListDaemons, parentVars, stageVars, liveVars, ctxVars, runVars,
     StageTypes, Stages, StageStates
<1>39. ASSUME KillDaemons PROVE StageTypes'
  BY <1>39, Plan DEF KillDaemons, KillRun, parentVars, stageVars, liveVars, ctxVars,
     StageTypes, Stages, StageStates
<1>40. CASE UNCHANGED vars
  BY <1>40, Plan DEF vars, parentVars, stageVars, liveVars, ctxVars, runVars, engVars,
     StageTypes, Stages, StageStates
<1> QED
  BY <1>1, <1>2, <1>3, <1>4, <1>5, <1>6, <1>7, <1>8, <1>9, <1>10, <1>11, <1>12, <1>13,
     <1>14, <1>15, <1>16, <1>17, <1>18, <1>19, <1>20, <1>21, <1>22, <1>23, <1>24, <1>25,
     <1>26, <1>27, <1>28, <1>29, <1>30, <1>31, <1>32, <1>33, <1>34, <1>35, <1>36, <1>37,
     <1>38, <1>39, <1>40
     DEF Next, RunnerStep, StageStep, RerunStep, ShutdownStep

\* The daemons, the watchers and the live fire; a re-fire publishes a run it started.
LEMMA DaemonTypesStep ==
  ASSUME plan \in Plans, DaemonTypes, StageTypes, Refire, RefireTypes, [Next]_vars
  PROVE  DaemonTypes'
<1>1. ASSUME NEW p \in Parents, Fire(p) PROVE DaemonTypes'
  BY <1>1, Plan DEF Fire, Stages, liveVars, ctxVars, runVars, engVars, DaemonTypes
<1>2. ASSUME NEW p \in Parents, NEW s \in Stages, SkipStage(p, s) PROVE DaemonTypes'
  BY <1>2, Plan DEF SkipStage, CtxDone, parentVars, liveVars, ctxVars, runVars, engVars,
     DaemonTypes
<1>3. ASSUME NEW p \in Parents, NEW s \in Stages, DispatchStage(p, s) PROVE DaemonTypes'
  BY <1>3, Plan, NewRun DEF DispatchStage, CtxDone, FireStage, IsDaemon, FireFails,
     StageFails, liveVars, ctxVars, engVars, Last, DaemonTypes
<1>4. ASSUME NEW p \in Parents, NEW s \in Stages, AwaitStage(p, s) PROVE DaemonTypes'
  BY <1>4, Plan DEF AwaitStage, CtxDone, Stages, StageFails, parentVars, liveVars, ctxVars,
     runVars, engVars, DaemonTypes
<1>5. ASSUME NEW p \in Parents, NEW s \in Stages, AbandonStage(p, s) PROVE DaemonTypes'
  BY <1>5, Plan DEF AbandonStage, CtxDone, KillRun, StageFails, parentVars, liveVars,
     ctxVars, engVars, DaemonTypes
<1>6. ASSUME NEW p \in Parents, NEW s \in Stages, CloseSuspendedStage(p, s) PROVE DaemonTypes'
  BY <1>6, Plan DEF CloseSuspendedStage, CancelSuspended, StageFails, parentVars, liveVars,
     ctxVars, engVars, DaemonTypes
<1>7. ASSUME NEW p \in Parents, StagesOver(p) PROVE DaemonTypes'
  BY <1>7, Plan DEF StagesOver, Stages, stageVars, liveVars, ctxVars, runVars, engVars,
     DaemonTypes
<1>8. ASSUME NEW p \in Parents, GoLive(p) PROVE DaemonTypes'
  BY <1>8, Plan DEF GoLive, Last, stageVars, ctxVars, runVars, engVars, DaemonTypes,
     StageTypes, Stages
<1>9. ASSUME NEW p \in Parents, Loop(p) PROVE DaemonTypes'
  BY <1>9, Plan DEF Loop, stageVars, liveVars, ctxVars, runVars, engVars, DaemonTypes
<1>10. ASSUME NEW p \in Parents, DaemonEnded(p) PROVE DaemonTypes'
  BY <1>10, Plan DEF DaemonEnded, stageVars, liveVars, ctxVars, runVars, engVars,
     DaemonTypes
<1>11. ASSUME NEW p \in Parents, Decide(p) PROVE DaemonTypes'
  BY <1>11, Plan DEF Decide, Exited, stageVars, liveVars, ctxVars, runVars, engVars,
     DaemonTypes
<1>12. ASSUME NEW p \in Parents, DecideAgain(p) PROVE DaemonTypes'
  BY <1>12, Plan DEF DecideAgain, Exited, stageVars, liveVars, ctxVars, runVars, engVars,
     DaemonTypes
<1>13. ASSUME NEW p \in Parents, CloseSuspendedDaemon(p) PROVE DaemonTypes'
  BY <1>13, Plan DEF CloseSuspendedDaemon, CancelSuspended, stageVars, liveVars, ctxVars,
     engVars, DaemonTypes
<1>14. ASSUME NEW p \in Parents, MarkFinished(p) PROVE DaemonTypes'
  BY <1>14, Plan DEF MarkFinished, stageVars, ctxVars, runVars, engVars, DaemonTypes
<1>15. ASSUME NEW p \in Parents, FinishRow(p) PROVE DaemonTypes'
  BY <1>15, Plan DEF FinishRow, stageVars, liveVars, ctxVars, runVars, engVars, DaemonTypes
<1>16. ASSUME NEW p \in Parents, ReleaseParent(p) PROVE DaemonTypes'
  BY <1>16, Plan DEF ReleaseParent, stageVars, liveVars, runVars, engVars, DaemonTypes
<1>17. ASSUME NEW p \in Parents, Leave(p) PROVE DaemonTypes'
  BY <1>17, Plan DEF Leave, stageVars, ctxVars, runVars, engVars, DaemonTypes
<1>18. ASSUME NEW p \in Parents, Watch(p) PROVE DaemonTypes'
  BY <1>18, Plan DEF Watch, KillRun, parentVars, stageVars, ctxVars, engVars, DaemonTypes
<1>19. ASSUME NEW p \in Parents, KillParent(p) PROVE DaemonTypes'
  BY <1>19, Plan DEF KillParent, parentVars, stageVars, liveVars, runVars, engVars,
     DaemonTypes
<1>20. ASSUME NEW p \in Parents, Timeout(p) PROVE DaemonTypes'
  BY <1>20, Plan DEF Timeout, parentVars, stageVars, liveVars, runVars, engVars, DaemonTypes
<1>21. ASSUME NEW r \in Runs, BodyEnds(r) PROVE DaemonTypes'
  BY <1>21, Plan DEF BodyEnds, IsDaemon, parentVars, stageVars, liveVars, ctxVars, engVars,
     Last, DaemonTypes
<1>22. ASSUME NEW r \in Runs, RunLeaves(r) PROVE DaemonTypes'
  BY <1>22, Plan DEF RunLeaves, Idle, parentVars, stageVars, liveVars, ctxVars, engVars,
     DaemonTypes
<1>23. ASSUME NEW r \in Runs, OutsideResume(r) PROVE DaemonTypes'
  BY <1>23, Plan, NewRun DEF OutsideResume, parentVars, stageVars, liveVars, ctxVars,
     engVars, DaemonTypes
<1>24. ASSUME NEW s \in Stages, OutsideFire(s) PROVE DaemonTypes'
  BY <1>24, Plan, NewRun DEF OutsideFire, IsDaemon, FireStage, parentVars, stageVars,
     liveVars, ctxVars, engVars, Last, DaemonTypes
<1>25. ASSUME RerunCheck PROVE DaemonTypes'
  BY <1>25, Plan DEF RerunCheck, Aborted, ReleaseSlot, parentVars, stageVars, liveVars,
     ctxVars, runVars, engVars, Idle, DaemonTypes
<1>26. ASSUME RerunReplay PROVE DaemonTypes'
  BY <1>26, Plan, NewRun DEF RerunReplay, Last, Aborted, ReleaseSlot, FireFails, FireStage,
     RerunOf, parentVars, stageVars, liveVars, ctxVars, engVars, Idle, DaemonTypes
<1>27. ASSUME RerunAwait PROVE DaemonTypes'
  BY <1>27, Plan DEF RerunAwait, KillRun, ReleaseSlot, Idle, parentVars, stageVars,
     liveVars, ctxVars, engVars, DaemonTypes
<1>28. ASSUME RerunClose PROVE DaemonTypes'
  BY <1>28, Plan DEF RerunClose, CancelSuspended, ReleaseSlot, parentVars, stageVars,
     liveVars, ctxVars, engVars, Idle, DaemonTypes
<1>29. ASSUME RerunLast PROVE DaemonTypes'
  BY <1>29, Plan DEF RerunLast, Last, Aborted, ReleaseSlot, Rerun, parentVars, stageVars,
     liveVars, ctxVars, runVars, engVars, Idle, DaemonTypes
<1>30. ASSUME RerunEnter PROVE DaemonTypes'
  BY <1>30, Plan DEF RerunEnter, Rerun, parentVars, stageVars, ctxVars, runVars, engVars,
     DaemonTypes, Refire
<1>31. ASSUME RerunKill PROVE DaemonTypes'
  BY <1>31, Plan DEF RerunKill, KillRun, Rerun, parentVars, stageVars, liveVars, ctxVars,
     engVars, DaemonTypes
<1>32. ASSUME RerunDrain PROVE DaemonTypes'
  BY <1>32, Plan DEF RerunDrain, Rerun, parentVars, stageVars, liveVars, ctxVars, runVars,
     engVars, DaemonTypes
<1>33. ASSUME RerunFire PROVE DaemonTypes'
  BY <1>33, Plan, NewRun DEF RerunFire, FireFails, Rerun, FireStage, RerunOf, Last,
     parentVars, stageVars, liveVars, ctxVars, engVars, DaemonTypes
<1>34. ASSUME RerunPublish PROVE DaemonTypes'
  BY <1>34, Plan DEF RerunPublish, KillRun, Rerun, Publish, parentVars, stageVars, ctxVars,
     engVars, DaemonTypes, Refire, RefireTypes, Started
<1>35. ASSUME RerunAbort PROVE DaemonTypes'
  BY <1>35, Plan DEF RerunAbort, Rerun, parentVars, stageVars, ctxVars, runVars, engVars,
     DaemonTypes, Refire
<1>36. ASSUME RerunWake PROVE DaemonTypes'
  BY <1>36, Plan DEF RerunWake, ReleaseSlot, stageVars, liveVars, ctxVars, runVars, engVars,
     Idle, DaemonTypes
<1>37. ASSUME BeginShutdown PROVE DaemonTypes'
  BY <1>37, Plan DEF BeginShutdown, parentVars, stageVars, liveVars, ctxVars, runVars,
     DaemonTypes
<1>38. ASSUME ListDaemons PROVE DaemonTypes'
  BY <1>38, Plan DEF ListDaemons, parentVars, stageVars, liveVars, ctxVars, runVars,
     DaemonTypes
<1>39. ASSUME KillDaemons PROVE DaemonTypes'
  BY <1>39, Plan DEF KillDaemons, KillRun, parentVars, stageVars, liveVars, ctxVars,
     DaemonTypes
<1>40. CASE UNCHANGED vars
  BY <1>40, Plan DEF vars, parentVars, stageVars, liveVars, ctxVars, runVars, engVars,
     DaemonTypes
<1> QED
  BY <1>1, <1>2, <1>3, <1>4, <1>5, <1>6, <1>7, <1>8, <1>9, <1>10, <1>11, <1>12, <1>13,
     <1>14, <1>15, <1>16, <1>17, <1>18, <1>19, <1>20, <1>21, <1>22, <1>23, <1>24, <1>25,
     <1>26, <1>27, <1>28, <1>29, <1>30, <1>31, <1>32, <1>33, <1>34, <1>35, <1>36, <1>37,
     <1>38, <1>39, <1>40
     DEF Next, RunnerStep, StageStep, RerunStep, ShutdownStep

\* A re-fire stays within the stages.
LEMMA RefireTypesStep ==
  ASSUME plan \in Plans, RefireTypes, Refire, DaemonTypes, RunTypes, [Next]_vars
  PROVE  RefireTypes'
<1>1. ASSUME NEW p \in Parents, Fire(p) PROVE RefireTypes'
  BY <1>1, Plan DEF Fire, Stages, liveVars, ctxVars, runVars, engVars, RefireTypes, Last,
     RerunPCs, Idle
<1>2. ASSUME NEW p \in Parents, NEW s \in Stages, SkipStage(p, s) PROVE RefireTypes'
  BY <1>2, Plan DEF SkipStage, CtxDone, parentVars, liveVars, ctxVars, runVars, engVars,
     RefireTypes, Last, RerunPCs, Idle
<1>3. ASSUME NEW p \in Parents, NEW s \in Stages, DispatchStage(p, s) PROVE RefireTypes'
  BY <1>3, Plan, NewRun DEF DispatchStage, CtxDone, FireStage, IsDaemon, FireFails,
     StageFails, liveVars, ctxVars, engVars, Last, RefireTypes, RerunPCs, Idle
<1>4. ASSUME NEW p \in Parents, NEW s \in Stages, AwaitStage(p, s) PROVE RefireTypes'
  BY <1>4, Plan DEF AwaitStage, CtxDone, Stages, StageFails, parentVars, liveVars, ctxVars,
     runVars, engVars, RefireTypes, Last, RerunPCs, Idle
<1>5. ASSUME NEW p \in Parents, NEW s \in Stages, AbandonStage(p, s) PROVE RefireTypes'
  BY <1>5, Plan DEF AbandonStage, CtxDone, KillRun, StageFails, parentVars, liveVars,
     ctxVars, engVars, RefireTypes, Last, RerunPCs, Idle
<1>6. ASSUME NEW p \in Parents, NEW s \in Stages, CloseSuspendedStage(p, s) PROVE RefireTypes'
  BY <1>6, Plan DEF CloseSuspendedStage, CancelSuspended, StageFails, parentVars, liveVars,
     ctxVars, engVars, RefireTypes, Last, RerunPCs, Idle
<1>7. ASSUME NEW p \in Parents, StagesOver(p) PROVE RefireTypes'
  BY <1>7, Plan DEF StagesOver, Stages, stageVars, liveVars, ctxVars, runVars, engVars,
     RefireTypes, Last, RerunPCs, Idle
<1>8. ASSUME NEW p \in Parents, GoLive(p) PROVE RefireTypes'
  BY <1>8, Plan DEF GoLive, Last, stageVars, ctxVars, runVars, engVars, RefireTypes,
     RerunPCs, Idle
<1>9. ASSUME NEW p \in Parents, Loop(p) PROVE RefireTypes'
  BY <1>9, Plan DEF Loop, stageVars, liveVars, ctxVars, runVars, engVars, RefireTypes, Last,
     RerunPCs, Idle
<1>10. ASSUME NEW p \in Parents, DaemonEnded(p) PROVE RefireTypes'
  BY <1>10, Plan DEF DaemonEnded, stageVars, liveVars, ctxVars, runVars, engVars,
     RefireTypes, Last, RerunPCs, Idle
<1>11. ASSUME NEW p \in Parents, Decide(p) PROVE RefireTypes'
  BY <1>11, Plan DEF Decide, Exited, stageVars, liveVars, ctxVars, runVars, engVars,
     RefireTypes, Last, RerunPCs, Idle
<1>12. ASSUME NEW p \in Parents, DecideAgain(p) PROVE RefireTypes'
  BY <1>12, Plan DEF DecideAgain, Exited, stageVars, liveVars, ctxVars, runVars, engVars,
     RefireTypes, Last, RerunPCs, Idle
<1>13. ASSUME NEW p \in Parents, CloseSuspendedDaemon(p) PROVE RefireTypes'
  BY <1>13, Plan DEF CloseSuspendedDaemon, CancelSuspended, stageVars, liveVars, ctxVars,
     engVars, RefireTypes, Last, RerunPCs, Idle
<1>14. ASSUME NEW p \in Parents, MarkFinished(p) PROVE RefireTypes'
  BY <1>14, Plan DEF MarkFinished, stageVars, ctxVars, runVars, engVars, RefireTypes, Last,
     RerunPCs, Idle
<1>15. ASSUME NEW p \in Parents, FinishRow(p) PROVE RefireTypes'
  BY <1>15, Plan DEF FinishRow, stageVars, liveVars, ctxVars, runVars, engVars, RefireTypes,
     Last, RerunPCs, Idle
<1>16. ASSUME NEW p \in Parents, ReleaseParent(p) PROVE RefireTypes'
  BY <1>16, Plan DEF ReleaseParent, stageVars, liveVars, runVars, engVars, RefireTypes,
     Last, RerunPCs, Idle
<1>17. ASSUME NEW p \in Parents, Leave(p) PROVE RefireTypes'
  BY <1>17, Plan DEF Leave, stageVars, ctxVars, runVars, engVars, RefireTypes, Last,
     RerunPCs, Idle
<1>18. ASSUME NEW p \in Parents, Watch(p) PROVE RefireTypes'
  BY <1>18, Plan DEF Watch, KillRun, parentVars, stageVars, ctxVars, engVars, RefireTypes,
     Last, RerunPCs, Idle
<1>19. ASSUME NEW p \in Parents, KillParent(p) PROVE RefireTypes'
  BY <1>19, Plan DEF KillParent, parentVars, stageVars, liveVars, runVars, engVars,
     RefireTypes, Last, RerunPCs, Idle
<1>20. ASSUME NEW p \in Parents, Timeout(p) PROVE RefireTypes'
  BY <1>20, Plan DEF Timeout, parentVars, stageVars, liveVars, runVars, engVars,
     RefireTypes, Last, RerunPCs, Idle
<1>21. ASSUME NEW r \in Runs, BodyEnds(r) PROVE RefireTypes'
  BY <1>21, Plan DEF BodyEnds, IsDaemon, parentVars, stageVars, liveVars, ctxVars, engVars,
     Last, RefireTypes, RerunPCs, Idle
<1>22. ASSUME NEW r \in Runs, RunLeaves(r) PROVE RefireTypes'
  <2>1. \/ rr' = rr
        \/ live # NoParent /\ rr' = [pc |-> "check", p |-> live, at |-> own[r].stage,
                                 old |-> NoRun, new |-> NoRun]
    BY <1>22 DEF RunLeaves, Idle
  <2>2. plan' = plan
    BY <1>22 DEF RunLeaves
  <2> QED
    BY <2>1, <2>2, Plan DEF RefireTypes, RerunPCs, Last, DaemonTypes, RunTypes
<1>23. ASSUME NEW r \in Runs, OutsideResume(r) PROVE RefireTypes'
  BY <1>23, Plan, NewRun DEF OutsideResume, parentVars, stageVars, liveVars, ctxVars,
     engVars, RefireTypes, Last, RerunPCs, Idle
<1>24. ASSUME NEW s \in Stages, OutsideFire(s) PROVE RefireTypes'
  BY <1>24, Plan, NewRun DEF OutsideFire, IsDaemon, FireStage, parentVars, stageVars,
     liveVars, ctxVars, engVars, Last, RefireTypes, RerunPCs, Idle
<1>25. ASSUME RerunCheck PROVE RefireTypes'
  <2>1. rr.at + 1 \in 0..Last + 1 /\ daemonRun[rr.p] \in Runs \cup {NoRun}
    BY <1>25, Plan DEF RerunCheck, Refire, RefireTypes, DaemonTypes, Last
  <2>2. plan' = plan
    BY <1>25 DEF RerunCheck
  <2>3. rr' = Idle \/ rr' = [pc |-> "replay", p |-> rr.p, at |-> rr.at + 1,
                               old |-> daemonRun[rr.p], new |-> rr.new]
    BY <1>25 DEF RerunCheck, ReleaseSlot, RefireTypes
  <2> QED
    BY <2>1, <2>2, <2>3, Plan DEF RefireTypes, RerunPCs, Last, Idle
<1>26. ASSUME RerunReplay PROVE RefireTypes'
  <2>1. plan' = plan
    BY <1>26 DEF RerunReplay
  <2>2. \/ rr' = Idle
        \/ NewID \in Runs /\ rr' = [pc |-> "await", p |-> rr.p, at |-> rr.at,
                                      old |-> rr.old, new |-> NewID]
    BY <1>26, NewRun DEF RerunReplay, ReleaseSlot, FireStage, RefireTypes
  <2> QED
    BY <2>1, <2>2, Plan DEF RefireTypes, RerunPCs, Last, Idle
<1>27. ASSUME RerunAwait PROVE RefireTypes'
  <2>1. plan' = plan
    BY <1>27 DEF RerunAwait
  <2>2. rr.at + 1 \in 0..Last + 1
    BY <1>27, Plan DEF RerunAwait, Refire, RefireTypes, Last
  <2>3. \/ rr' = Idle
        \/ rr' = [pc |-> "replay", p |-> rr.p, at |-> rr.at + 1, old |-> rr.old, new |-> rr.new]
        \/ rr' = [pc |-> "close", p |-> rr.p, at |-> rr.at, old |-> rr.old, new |-> rr.new]
    BY <1>27 DEF RerunAwait, ReleaseSlot, RefireTypes
  <2> QED
    BY <2>1, <2>2, <2>3, Plan DEF RefireTypes, RerunPCs, Last, Idle
<1>28. ASSUME RerunClose PROVE RefireTypes'
  BY <1>28, Plan DEF RerunClose, CancelSuspended, ReleaseSlot, parentVars, stageVars,
     liveVars, ctxVars, engVars, Idle, RefireTypes, Last, RerunPCs
<1>29. ASSUME RerunLast PROVE RefireTypes'
  BY <1>29, Plan DEF RerunLast, Last, Aborted, ReleaseSlot, Rerun, parentVars, stageVars,
     liveVars, ctxVars, runVars, engVars, Idle, RefireTypes, RerunPCs
<1>30. ASSUME RerunEnter PROVE RefireTypes'
  BY <1>30, Plan DEF RerunEnter, Rerun, parentVars, stageVars, ctxVars, runVars, engVars,
     RefireTypes, Last, RerunPCs, Idle
<1>31. ASSUME RerunKill PROVE RefireTypes'
  BY <1>31, Plan DEF RerunKill, KillRun, Rerun, parentVars, stageVars, liveVars, ctxVars,
     engVars, RefireTypes, Last, RerunPCs, Idle
<1>32. ASSUME RerunDrain PROVE RefireTypes'
  BY <1>32, Plan DEF RerunDrain, Rerun, parentVars, stageVars, liveVars, ctxVars, runVars,
     engVars, RefireTypes, Last, RerunPCs, Idle
<1>33. ASSUME RerunFire PROVE RefireTypes'
  BY <1>33, Plan, NewRun DEF RerunFire, FireFails, Rerun, FireStage, RerunOf, Last,
     parentVars, stageVars, liveVars, ctxVars, engVars, RefireTypes, RerunPCs, Idle
<1>34. ASSUME RerunPublish PROVE RefireTypes'
  BY <1>34, Plan DEF RerunPublish, KillRun, Rerun, Publish, parentVars, stageVars, ctxVars,
     engVars, RefireTypes, Last, RerunPCs, Idle
<1>35. ASSUME RerunAbort PROVE RefireTypes'
  BY <1>35, Plan DEF RerunAbort, Rerun, parentVars, stageVars, ctxVars, runVars, engVars,
     RefireTypes, Last, RerunPCs, Idle
<1>36. ASSUME RerunWake PROVE RefireTypes'
  BY <1>36, Plan DEF RerunWake, ReleaseSlot, stageVars, liveVars, ctxVars, runVars, engVars,
     Idle, RefireTypes, Last, RerunPCs
<1>37. ASSUME BeginShutdown PROVE RefireTypes'
  BY <1>37, Plan DEF BeginShutdown, parentVars, stageVars, liveVars, ctxVars, runVars,
     RefireTypes, Last, RerunPCs, Idle
<1>38. ASSUME ListDaemons PROVE RefireTypes'
  BY <1>38, Plan DEF ListDaemons, parentVars, stageVars, liveVars, ctxVars, runVars,
     RefireTypes, Last, RerunPCs, Idle
<1>39. ASSUME KillDaemons PROVE RefireTypes'
  BY <1>39, Plan DEF KillDaemons, KillRun, parentVars, stageVars, liveVars, ctxVars,
     RefireTypes, Last, RerunPCs, Idle
<1>40. CASE UNCHANGED vars
  BY <1>40, Plan DEF vars, parentVars, stageVars, liveVars, ctxVars, runVars, engVars,
     RefireTypes, Last, RerunPCs, Idle
<1> QED
  BY <1>1, <1>2, <1>3, <1>4, <1>5, <1>6, <1>7, <1>8, <1>9, <1>10, <1>11, <1>12, <1>13,
     <1>14, <1>15, <1>16, <1>17, <1>18, <1>19, <1>20, <1>21, <1>22, <1>23, <1>24, <1>25,
     <1>26, <1>27, <1>28, <1>29, <1>30, <1>31, <1>32, <1>33, <1>34, <1>35, <1>36, <1>37,
     <1>38, <1>39, <1>40
     DEF Next, RunnerStep, StageStep, RerunStep, ShutdownStep

\* What is known of a run.
LEMMA RunTypesStep ==
  ASSUME plan \in Plans, RunTypes, StageTypes, RefireTypes, DaemonTypes, EngineTypes, [Next]_vars
  PROVE  RunTypes'
<1>1. ASSUME NEW p \in Parents, Fire(p) PROVE RunTypes'
  BY <1>1, Plan DEF Fire, Stages, liveVars, ctxVars, runVars, engVars, RunTypes, Final, Last
<1>2. ASSUME NEW p \in Parents, NEW s \in Stages, SkipStage(p, s) PROVE RunTypes'
  BY <1>2, Plan DEF SkipStage, CtxDone, parentVars, liveVars, ctxVars, runVars, engVars,
     RunTypes, Final, Last
<1>3. ASSUME NEW p \in Parents, NEW s \in Stages, DispatchStage(p, s) PROVE RunTypes'
  <2>1. plan' = plan /\ cancelled' = cancelled
    BY <1>3 DEF DispatchStage
  <2>2. CASE FireStage([p |-> p, stage |-> s, by |-> "runner"])
    BY <2>1, <2>2, NewRun, Plan DEF FireStage, RunTypes, Last, Stages
  <2>3. CASE FireFails
    BY <2>1, <2>3 DEF FireFails, RunTypes, Last
  <2> QED
    BY <1>3, <2>2, <2>3 DEF DispatchStage
<1>4. ASSUME NEW p \in Parents, NEW s \in Stages, AwaitStage(p, s) PROVE RunTypes'
  BY <1>4, Plan DEF AwaitStage, CtxDone, Stages, StageFails, parentVars, liveVars, ctxVars,
     runVars, engVars, RunTypes, Final, Last
<1>5. ASSUME NEW p \in Parents, NEW s \in Stages, AbandonStage(p, s) PROVE RunTypes'
  BY <1>5, Plan DEF AbandonStage, CtxDone, KillRun, StageFails, parentVars, liveVars,
     ctxVars, engVars, RunTypes, Final, Last, StageTypes
<1>6. ASSUME NEW p \in Parents, NEW s \in Stages, CloseSuspendedStage(p, s) PROVE RunTypes'
  BY <1>6, Plan DEF CloseSuspendedStage, CancelSuspended, StageFails, parentVars, liveVars,
     ctxVars, engVars, RunTypes, Final, Last
<1>7. ASSUME NEW p \in Parents, StagesOver(p) PROVE RunTypes'
  BY <1>7, Plan DEF StagesOver, Stages, stageVars, liveVars, ctxVars, runVars, engVars,
     RunTypes, Final, Last
<1>8. ASSUME NEW p \in Parents, GoLive(p) PROVE RunTypes'
  BY <1>8, Plan DEF GoLive, Last, stageVars, ctxVars, runVars, engVars, RunTypes, Final
<1>9. ASSUME NEW p \in Parents, Loop(p) PROVE RunTypes'
  BY <1>9, Plan DEF Loop, stageVars, liveVars, ctxVars, runVars, engVars, RunTypes, Final,
     Last
<1>10. ASSUME NEW p \in Parents, DaemonEnded(p) PROVE RunTypes'
  BY <1>10, Plan DEF DaemonEnded, stageVars, liveVars, ctxVars, runVars, engVars, RunTypes,
     Final, Last
<1>11. ASSUME NEW p \in Parents, Decide(p) PROVE RunTypes'
  BY <1>11, Plan DEF Decide, Exited, stageVars, liveVars, ctxVars, runVars, engVars,
     RunTypes, Final, Last
<1>12. ASSUME NEW p \in Parents, DecideAgain(p) PROVE RunTypes'
  BY <1>12, Plan DEF DecideAgain, Exited, stageVars, liveVars, ctxVars, runVars, engVars,
     RunTypes, Final, Last
<1>13. ASSUME NEW p \in Parents, CloseSuspendedDaemon(p) PROVE RunTypes'
  BY <1>13, Plan DEF CloseSuspendedDaemon, CancelSuspended, stageVars, liveVars, ctxVars,
     engVars, RunTypes, Final, Last
<1>14. ASSUME NEW p \in Parents, MarkFinished(p) PROVE RunTypes'
  BY <1>14, Plan DEF MarkFinished, stageVars, ctxVars, runVars, engVars, RunTypes, Final,
     Last
<1>15. ASSUME NEW p \in Parents, FinishRow(p) PROVE RunTypes'
  BY <1>15, Plan DEF FinishRow, stageVars, liveVars, ctxVars, runVars, engVars, RunTypes,
     Final, Last
<1>16. ASSUME NEW p \in Parents, ReleaseParent(p) PROVE RunTypes'
  BY <1>16, Plan DEF ReleaseParent, stageVars, liveVars, runVars, engVars, RunTypes, Final,
     Last
<1>17. ASSUME NEW p \in Parents, Leave(p) PROVE RunTypes'
  BY <1>17, Plan DEF Leave, stageVars, ctxVars, runVars, engVars, RunTypes, Final, Last
<1>18. ASSUME NEW p \in Parents, Watch(p) PROVE RunTypes'
  BY <1>18, Plan DEF Watch, KillRun, parentVars, stageVars, ctxVars, engVars, RunTypes,
     Final, Last, DaemonTypes
<1>19. ASSUME NEW p \in Parents, KillParent(p) PROVE RunTypes'
  BY <1>19, Plan DEF KillParent, parentVars, stageVars, liveVars, runVars, engVars,
     RunTypes, Final, Last
<1>20. ASSUME NEW p \in Parents, Timeout(p) PROVE RunTypes'
  BY <1>20, Plan DEF Timeout, parentVars, stageVars, liveVars, runVars, engVars, RunTypes,
     Final, Last
<1>21. ASSUME NEW r \in Runs, BodyEnds(r) PROVE RunTypes'
  BY <1>21, Plan DEF BodyEnds, IsDaemon, parentVars, stageVars, liveVars, ctxVars, engVars,
     Last, RunTypes, Final
<1>22. ASSUME NEW r \in Runs, RunLeaves(r) PROVE RunTypes'
  BY <1>22, Plan DEF RunLeaves, Idle, parentVars, stageVars, liveVars, ctxVars, engVars,
     RunTypes, Final, Last
<1>23. ASSUME NEW r \in Runs, OutsideResume(r) PROVE RunTypes'
  BY <1>23, Plan, NewRun DEF OutsideResume, parentVars, stageVars, liveVars, ctxVars,
     engVars, RunTypes, Final, Last
<1>24. ASSUME NEW s \in Stages, OutsideFire(s) PROVE RunTypes'
  BY <1>24, Plan, NewRun DEF OutsideFire, IsDaemon, FireStage, parentVars, stageVars,
     liveVars, ctxVars, engVars, Last, RunTypes, Final, Stages
<1>25. ASSUME RerunCheck PROVE RunTypes'
  BY <1>25, Plan DEF RerunCheck, Aborted, ReleaseSlot, parentVars, stageVars, liveVars,
     ctxVars, runVars, engVars, Idle, RunTypes, Final, Last
<1>26. ASSUME RerunReplay PROVE RunTypes'
  <2>1. plan' = plan /\ cancelled' = cancelled
    BY <1>26 DEF RerunReplay
  <2>2. CASE FireStage(RerunOf(rr.at)) /\ rr.at < Last
    <3>1. rr.at \in 0..Last /\ rr.p \in Parents \cup {NoParent}
      BY <2>2, Plan DEF Stages, RefireTypes, Last
    <3> QED
      BY <2>1, <2>2, <3>1, NewRun, Plan DEF FireStage, RerunOf, RunTypes, Last
  <2>3. CASE UNCHANGED <<own, row, body>>
    BY <2>1, <2>3 DEF RunTypes, Last
  <2> QED
    BY <1>26, <2>2, <2>3 DEF RerunReplay, FireFails
<1>27. ASSUME RerunAwait PROVE RunTypes'
  BY <1>27, Plan DEF RerunAwait, KillRun, ReleaseSlot, Idle, parentVars, stageVars,
     liveVars, ctxVars, engVars, RunTypes, Final, Last, RefireTypes
<1>28. ASSUME RerunClose PROVE RunTypes'
  BY <1>28, Plan DEF RerunClose, CancelSuspended, ReleaseSlot, parentVars, stageVars,
     liveVars, ctxVars, engVars, Idle, RunTypes, Final, Last
<1>29. ASSUME RerunLast PROVE RunTypes'
  BY <1>29, Plan DEF RerunLast, Last, Aborted, ReleaseSlot, Rerun, parentVars, stageVars,
     liveVars, ctxVars, runVars, engVars, Idle, RunTypes, Final
<1>30. ASSUME RerunEnter PROVE RunTypes'
  BY <1>30, Plan DEF RerunEnter, Rerun, parentVars, stageVars, ctxVars, runVars, engVars,
     RunTypes, Final, Last
<1>31. ASSUME RerunKill PROVE RunTypes'
  BY <1>31, Plan DEF RerunKill, KillRun, Rerun, parentVars, stageVars, liveVars, ctxVars,
     engVars, RunTypes, Final, Last, RefireTypes
<1>32. ASSUME RerunDrain PROVE RunTypes'
  BY <1>32, Plan DEF RerunDrain, Rerun, parentVars, stageVars, liveVars, ctxVars, runVars,
     engVars, RunTypes, Final, Last
<1>33. ASSUME RerunFire PROVE RunTypes'
  <2>1. plan' = plan /\ cancelled' \subseteq Runs
    BY <1>33, NewRun DEF RerunFire, FireStage, RunTypes
  <2>2. CASE FireStage(RerunOf(Last))
    <3>1. Last \in 0..Last /\ rr.p \in Parents \cup {NoParent}
      BY Plan DEF Stages, RefireTypes, Last
    <3> QED
      BY <2>1, <2>2, <3>1, NewRun, Plan DEF FireStage, RerunOf, RunTypes, Last
  <2>3. CASE FireFails
    BY <2>1, <2>3 DEF FireFails, RunTypes, Last
  <2> QED
    BY <1>33, <2>2, <2>3 DEF RerunFire
<1>34. ASSUME RerunPublish PROVE RunTypes'
  BY <1>34, Plan DEF RerunPublish, KillRun, Rerun, Publish, parentVars, stageVars, ctxVars,
     engVars, RunTypes, Final, Last, RefireTypes
<1>35. ASSUME RerunAbort PROVE RunTypes'
  BY <1>35, Plan DEF RerunAbort, Rerun, parentVars, stageVars, ctxVars, runVars, engVars,
     RunTypes, Final, Last
<1>36. ASSUME RerunWake PROVE RunTypes'
  BY <1>36, Plan DEF RerunWake, ReleaseSlot, stageVars, liveVars, ctxVars, runVars, engVars,
     Idle, RunTypes, Final, Last
<1>37. ASSUME BeginShutdown PROVE RunTypes'
  BY <1>37, Plan DEF BeginShutdown, parentVars, stageVars, liveVars, ctxVars, runVars,
     RunTypes, Final, Last
<1>38. ASSUME ListDaemons PROVE RunTypes'
  BY <1>38, Plan DEF ListDaemons, parentVars, stageVars, liveVars, ctxVars, runVars,
     RunTypes, Final, Last
<1>39. ASSUME KillDaemons PROVE RunTypes'
  BY <1>39, Plan DEF KillDaemons, KillRun, parentVars, stageVars, liveVars, ctxVars,
     RunTypes, Final, Last, EngineTypes
<1>40. CASE UNCHANGED vars
  BY <1>40, Plan DEF vars, parentVars, stageVars, liveVars, ctxVars, runVars, engVars,
     RunTypes, Final, Last
<1> QED
  BY <1>1, <1>2, <1>3, <1>4, <1>5, <1>6, <1>7, <1>8, <1>9, <1>10, <1>11, <1>12, <1>13,
     <1>14, <1>15, <1>16, <1>17, <1>18, <1>19, <1>20, <1>21, <1>22, <1>23, <1>24, <1>25,
     <1>26, <1>27, <1>28, <1>29, <1>30, <1>31, <1>32, <1>33, <1>34, <1>35, <1>36, <1>37,
     <1>38, <1>39, <1>40
     DEF Next, RunnerStep, StageStep, RerunStep, ShutdownStep

\* The pipeline is not replaced, and the shutdown lists the run of a daemon.
LEMMA EngineTypesStep ==
  ASSUME EngineTypes, DaemonTypes, [Next]_vars
  PROVE  plan' = plan /\ EngineTypes'
<1>1. ASSUME NEW p \in Parents, Fire(p) PROVE plan' = plan /\ EngineTypes'
  BY <1>1 DEF Fire, Stages, liveVars, ctxVars, runVars, engVars, EngineTypes
<1>2. ASSUME NEW p \in Parents, NEW s \in Stages, SkipStage(p, s)
      PROVE plan' = plan /\ EngineTypes'
  BY <1>2 DEF SkipStage, CtxDone, parentVars, liveVars, ctxVars, runVars, engVars,
     EngineTypes
<1>3. ASSUME NEW p \in Parents, NEW s \in Stages, DispatchStage(p, s)
      PROVE plan' = plan /\ EngineTypes'
  BY <1>3, NewRun DEF DispatchStage, CtxDone, FireStage, IsDaemon, FireFails, StageFails,
     liveVars, ctxVars, engVars, Last, EngineTypes
<1>4. ASSUME NEW p \in Parents, NEW s \in Stages, AwaitStage(p, s)
      PROVE plan' = plan /\ EngineTypes'
  BY <1>4 DEF AwaitStage, CtxDone, Stages, StageFails, parentVars, liveVars, ctxVars,
     runVars, engVars, EngineTypes
<1>5. ASSUME NEW p \in Parents, NEW s \in Stages, AbandonStage(p, s)
      PROVE plan' = plan /\ EngineTypes'
  BY <1>5 DEF AbandonStage, CtxDone, KillRun, StageFails, parentVars, liveVars, ctxVars,
     engVars, EngineTypes
<1>6. ASSUME NEW p \in Parents, NEW s \in Stages, CloseSuspendedStage(p, s)
      PROVE plan' = plan /\ EngineTypes'
  BY <1>6 DEF CloseSuspendedStage, CancelSuspended, StageFails, parentVars, liveVars,
     ctxVars, engVars, EngineTypes
<1>7. ASSUME NEW p \in Parents, StagesOver(p) PROVE plan' = plan /\ EngineTypes'
  BY <1>7 DEF StagesOver, Stages, stageVars, liveVars, ctxVars, runVars, engVars,
     EngineTypes
<1>8. ASSUME NEW p \in Parents, GoLive(p) PROVE plan' = plan /\ EngineTypes'
  BY <1>8 DEF GoLive, Last, stageVars, ctxVars, runVars, engVars, EngineTypes
<1>9. ASSUME NEW p \in Parents, Loop(p) PROVE plan' = plan /\ EngineTypes'
  BY <1>9 DEF Loop, stageVars, liveVars, ctxVars, runVars, engVars, EngineTypes
<1>10. ASSUME NEW p \in Parents, DaemonEnded(p) PROVE plan' = plan /\ EngineTypes'
  BY <1>10 DEF DaemonEnded, stageVars, liveVars, ctxVars, runVars, engVars, EngineTypes
<1>11. ASSUME NEW p \in Parents, Decide(p) PROVE plan' = plan /\ EngineTypes'
  BY <1>11 DEF Decide, Exited, stageVars, liveVars, ctxVars, runVars, engVars, EngineTypes
<1>12. ASSUME NEW p \in Parents, DecideAgain(p) PROVE plan' = plan /\ EngineTypes'
  BY <1>12 DEF DecideAgain, Exited, stageVars, liveVars, ctxVars, runVars, engVars,
     EngineTypes
<1>13. ASSUME NEW p \in Parents, CloseSuspendedDaemon(p) PROVE plan' = plan /\ EngineTypes'
  BY <1>13 DEF CloseSuspendedDaemon, CancelSuspended, stageVars, liveVars, ctxVars, engVars,
     EngineTypes
<1>14. ASSUME NEW p \in Parents, MarkFinished(p) PROVE plan' = plan /\ EngineTypes'
  BY <1>14 DEF MarkFinished, stageVars, ctxVars, runVars, engVars, EngineTypes
<1>15. ASSUME NEW p \in Parents, FinishRow(p) PROVE plan' = plan /\ EngineTypes'
  BY <1>15 DEF FinishRow, stageVars, liveVars, ctxVars, runVars, engVars, EngineTypes
<1>16. ASSUME NEW p \in Parents, ReleaseParent(p) PROVE plan' = plan /\ EngineTypes'
  BY <1>16 DEF ReleaseParent, stageVars, liveVars, runVars, engVars, EngineTypes
<1>17. ASSUME NEW p \in Parents, Leave(p) PROVE plan' = plan /\ EngineTypes'
  BY <1>17 DEF Leave, stageVars, ctxVars, runVars, engVars, EngineTypes
<1>18. ASSUME NEW p \in Parents, Watch(p) PROVE plan' = plan /\ EngineTypes'
  BY <1>18 DEF Watch, KillRun, parentVars, stageVars, ctxVars, engVars, EngineTypes
<1>19. ASSUME NEW p \in Parents, KillParent(p) PROVE plan' = plan /\ EngineTypes'
  BY <1>19 DEF KillParent, parentVars, stageVars, liveVars, runVars, engVars, EngineTypes
<1>20. ASSUME NEW p \in Parents, Timeout(p) PROVE plan' = plan /\ EngineTypes'
  BY <1>20 DEF Timeout, parentVars, stageVars, liveVars, runVars, engVars, EngineTypes
<1>21. ASSUME NEW r \in Runs, BodyEnds(r) PROVE plan' = plan /\ EngineTypes'
  BY <1>21 DEF BodyEnds, IsDaemon, parentVars, stageVars, liveVars, ctxVars, engVars, Last,
     EngineTypes
<1>22. ASSUME NEW r \in Runs, RunLeaves(r) PROVE plan' = plan /\ EngineTypes'
  BY <1>22 DEF RunLeaves, Idle, parentVars, stageVars, liveVars, ctxVars, engVars,
     EngineTypes
<1>23. ASSUME NEW r \in Runs, OutsideResume(r) PROVE plan' = plan /\ EngineTypes'
  BY <1>23, NewRun DEF OutsideResume, parentVars, stageVars, liveVars, ctxVars, engVars,
     EngineTypes
<1>24. ASSUME NEW s \in Stages, OutsideFire(s) PROVE plan' = plan /\ EngineTypes'
  BY <1>24, NewRun DEF OutsideFire, IsDaemon, FireStage, parentVars, stageVars, liveVars,
     ctxVars, engVars, Last, EngineTypes
<1>25. ASSUME RerunCheck PROVE plan' = plan /\ EngineTypes'
  BY <1>25 DEF RerunCheck, Aborted, ReleaseSlot, parentVars, stageVars, liveVars, ctxVars,
     runVars, engVars, Idle, EngineTypes
<1>26. ASSUME RerunReplay PROVE plan' = plan /\ EngineTypes'
  BY <1>26, NewRun DEF RerunReplay, Last, Aborted, ReleaseSlot, FireFails, FireStage,
     RerunOf, parentVars, stageVars, liveVars, ctxVars, engVars, Idle, EngineTypes
<1>27. ASSUME RerunAwait PROVE plan' = plan /\ EngineTypes'
  BY <1>27 DEF RerunAwait, KillRun, ReleaseSlot, Idle, parentVars, stageVars, liveVars,
     ctxVars, engVars, EngineTypes
<1>28. ASSUME RerunClose PROVE plan' = plan /\ EngineTypes'
  BY <1>28 DEF RerunClose, CancelSuspended, ReleaseSlot, parentVars, stageVars, liveVars,
     ctxVars, engVars, Idle, EngineTypes
<1>29. ASSUME RerunLast PROVE plan' = plan /\ EngineTypes'
  BY <1>29 DEF RerunLast, Last, Aborted, ReleaseSlot, Rerun, parentVars, stageVars,
     liveVars, ctxVars, runVars, engVars, Idle, EngineTypes
<1>30. ASSUME RerunEnter PROVE plan' = plan /\ EngineTypes'
  BY <1>30 DEF RerunEnter, Rerun, parentVars, stageVars, ctxVars, runVars, engVars,
     EngineTypes
<1>31. ASSUME RerunKill PROVE plan' = plan /\ EngineTypes'
  BY <1>31 DEF RerunKill, KillRun, Rerun, parentVars, stageVars, liveVars, ctxVars, engVars,
     EngineTypes
<1>32. ASSUME RerunDrain PROVE plan' = plan /\ EngineTypes'
  BY <1>32 DEF RerunDrain, Rerun, parentVars, stageVars, liveVars, ctxVars, runVars,
     engVars, EngineTypes
<1>33. ASSUME RerunFire PROVE plan' = plan /\ EngineTypes'
  BY <1>33, NewRun DEF RerunFire, FireFails, Rerun, FireStage, RerunOf, Last, parentVars,
     stageVars, liveVars, ctxVars, engVars, EngineTypes
<1>34. ASSUME RerunPublish PROVE plan' = plan /\ EngineTypes'
  BY <1>34 DEF RerunPublish, KillRun, Rerun, Publish, parentVars, stageVars, ctxVars,
     engVars, EngineTypes
<1>35. ASSUME RerunAbort PROVE plan' = plan /\ EngineTypes'
  BY <1>35 DEF RerunAbort, Rerun, parentVars, stageVars, ctxVars, runVars, engVars,
     EngineTypes
<1>36. ASSUME RerunWake PROVE plan' = plan /\ EngineTypes'
  BY <1>36 DEF RerunWake, ReleaseSlot, stageVars, liveVars, ctxVars, runVars, engVars, Idle,
     EngineTypes
<1>37. ASSUME BeginShutdown PROVE plan' = plan /\ EngineTypes'
  BY <1>37 DEF BeginShutdown, parentVars, stageVars, liveVars, ctxVars, runVars, EngineTypes
<1>38. ASSUME ListDaemons PROVE plan' = plan /\ EngineTypes'
  BY <1>38 DEF ListDaemons, parentVars, stageVars, liveVars, ctxVars, runVars, EngineTypes,
     DaemonTypes
<1>39. ASSUME KillDaemons PROVE plan' = plan /\ EngineTypes'
  BY <1>39 DEF KillDaemons, KillRun, parentVars, stageVars, liveVars, ctxVars, EngineTypes
<1>40. CASE UNCHANGED vars
  BY <1>40 DEF vars, parentVars, stageVars, liveVars, ctxVars, runVars, engVars, EngineTypes
<1> QED
  BY <1>1, <1>2, <1>3, <1>4, <1>5, <1>6, <1>7, <1>8, <1>9, <1>10, <1>11, <1>12, <1>13,
     <1>14, <1>15, <1>16, <1>17, <1>18, <1>19, <1>20, <1>21, <1>22, <1>23, <1>24, <1>25,
     <1>26, <1>27, <1>28, <1>29, <1>30, <1>31, <1>32, <1>33, <1>34, <1>35, <1>36, <1>37,
     <1>38, <1>39, <1>40
     DEF Next, RunnerStep, StageStep, RerunStep, ShutdownStep

\* Every step keeps the types.
LEMMA TypeStep ==
  ASSUME TypeOK, EndsAreRows, Watched, Refire, [Next]_vars
  PROVE  TypeOK'
<1>1. /\ FireTypes' /\ StageTypes' /\ DaemonTypes' /\ RefireTypes' /\ RunTypes'
      /\ plan' = plan /\ EngineTypes'
  BY Types, FireTypesStep, StageTypesStep, DaemonTypesStep, RefireTypesStep, RunTypesStep,
     EngineTypesStep
<1> QED
  BY <1>1, Types
     DEF TypeOK, FireTypes, StageTypes, DaemonTypes, RefireTypes, RunTypes, EngineTypes

-----------------------------------------------------------------------------
(* The parts of the invariant, one step each.                              *)

\* The end of a run sets its row; nothing opens it again.
LEMMA EndsStep ==
  ASSUME TypeOK, EndsAreRows, Watched, [Next]_vars
  PROVE  EndsAreRows'
<1>1. ASSUME NEW p \in Parents, Fire(p) PROVE EndsAreRows'
  BY <1>1, Types DEF Fire, Stages, liveVars, ctxVars, runVars, engVars, EndsAreRows,
     RunTypes
<1>2. ASSUME NEW p \in Parents, NEW s \in Stages, SkipStage(p, s) PROVE EndsAreRows'
  BY <1>2, Types DEF SkipStage, CtxDone, parentVars, liveVars, ctxVars, runVars, engVars,
     EndsAreRows, RunTypes
<1>3. ASSUME NEW p \in Parents, NEW s \in Stages, DispatchStage(p, s) PROVE EndsAreRows'
  BY <1>3, Types, NewRun DEF DispatchStage, CtxDone, FireStage, IsDaemon, FireFails,
     StageFails, liveVars, ctxVars, engVars, Last, EndsAreRows, RunTypes
<1>4. ASSUME NEW p \in Parents, NEW s \in Stages, AwaitStage(p, s) PROVE EndsAreRows'
  BY <1>4, Types DEF AwaitStage, CtxDone, Stages, StageFails, parentVars, liveVars, ctxVars,
     runVars, engVars, EndsAreRows, RunTypes
<1>5. ASSUME NEW p \in Parents, NEW s \in Stages, AbandonStage(p, s) PROVE EndsAreRows'
  BY <1>5, Types DEF AbandonStage, CtxDone, KillRun, StageFails, parentVars, liveVars,
     ctxVars, engVars, EndsAreRows, RunTypes
<1>6. ASSUME NEW p \in Parents, NEW s \in Stages, CloseSuspendedStage(p, s) PROVE EndsAreRows'
  BY <1>6, Types DEF CloseSuspendedStage, CancelSuspended, StageFails, parentVars, liveVars,
     ctxVars, engVars, EndsAreRows, RunTypes
<1>7. ASSUME NEW p \in Parents, StagesOver(p) PROVE EndsAreRows'
  BY <1>7, Types DEF StagesOver, Stages, stageVars, liveVars, ctxVars, runVars, engVars,
     EndsAreRows, RunTypes
<1>8. ASSUME NEW p \in Parents, GoLive(p) PROVE EndsAreRows'
  BY <1>8, Types DEF GoLive, Last, stageVars, ctxVars, runVars, engVars, EndsAreRows,
     RunTypes
<1>9. ASSUME NEW p \in Parents, Loop(p) PROVE EndsAreRows'
  BY <1>9, Types DEF Loop, stageVars, liveVars, ctxVars, runVars, engVars, EndsAreRows,
     RunTypes
<1>10. ASSUME NEW p \in Parents, DaemonEnded(p) PROVE EndsAreRows'
  BY <1>10, Types DEF DaemonEnded, stageVars, liveVars, ctxVars, runVars, engVars,
     EndsAreRows, RunTypes
<1>11. ASSUME NEW p \in Parents, Decide(p) PROVE EndsAreRows'
  BY <1>11, Types DEF Decide, Exited, stageVars, liveVars, ctxVars, runVars, engVars,
     EndsAreRows, RunTypes
<1>12. ASSUME NEW p \in Parents, DecideAgain(p) PROVE EndsAreRows'
  BY <1>12, Types DEF DecideAgain, Exited, stageVars, liveVars, ctxVars, runVars, engVars,
     EndsAreRows, RunTypes
<1>13. ASSUME NEW p \in Parents, CloseSuspendedDaemon(p) PROVE EndsAreRows'
  BY <1>13, Types DEF CloseSuspendedDaemon, CancelSuspended, stageVars, liveVars, ctxVars,
     engVars, EndsAreRows, RunTypes
<1>14. ASSUME NEW p \in Parents, MarkFinished(p) PROVE EndsAreRows'
  BY <1>14, Types DEF MarkFinished, stageVars, ctxVars, runVars, engVars, EndsAreRows,
     RunTypes
<1>15. ASSUME NEW p \in Parents, FinishRow(p) PROVE EndsAreRows'
  BY <1>15, Types DEF FinishRow, stageVars, liveVars, ctxVars, runVars, engVars,
     EndsAreRows, RunTypes
<1>16. ASSUME NEW p \in Parents, ReleaseParent(p) PROVE EndsAreRows'
  BY <1>16, Types DEF ReleaseParent, stageVars, liveVars, runVars, engVars, EndsAreRows,
     RunTypes
<1>17. ASSUME NEW p \in Parents, Leave(p) PROVE EndsAreRows'
  BY <1>17, Types DEF Leave, stageVars, ctxVars, runVars, engVars, EndsAreRows, RunTypes
<1>18. ASSUME NEW p \in Parents, Watch(p) PROVE EndsAreRows'
  BY <1>18, Types DEF Watch, KillRun, parentVars, stageVars, ctxVars, engVars, EndsAreRows,
     RunTypes
<1>19. ASSUME NEW p \in Parents, KillParent(p) PROVE EndsAreRows'
  BY <1>19, Types DEF KillParent, parentVars, stageVars, liveVars, runVars, engVars,
     EndsAreRows, RunTypes
<1>20. ASSUME NEW p \in Parents, Timeout(p) PROVE EndsAreRows'
  BY <1>20, Types DEF Timeout, parentVars, stageVars, liveVars, runVars, engVars,
     EndsAreRows, RunTypes
<1>21. ASSUME NEW r \in Runs, BodyEnds(r) PROVE EndsAreRows'
  BY <1>21, Types DEF BodyEnds, IsDaemon, parentVars, stageVars, liveVars, ctxVars, engVars,
     Last, EndsAreRows, RunTypes
<1>22. ASSUME NEW r \in Runs, RunLeaves(r) PROVE EndsAreRows'
  BY <1>22, Types DEF RunLeaves, Idle, parentVars, stageVars, liveVars, ctxVars, engVars,
     EndsAreRows, RunTypes
<1>23. ASSUME NEW r \in Runs, OutsideResume(r) PROVE EndsAreRows'
  BY <1>23, Types, NewRun DEF OutsideResume, parentVars, stageVars, liveVars, ctxVars,
     engVars, EndsAreRows, RunTypes
<1>24. ASSUME NEW s \in Stages, OutsideFire(s) PROVE EndsAreRows'
  BY <1>24, Types, NewRun DEF OutsideFire, IsDaemon, FireStage, parentVars, stageVars,
     liveVars, ctxVars, engVars, Last, EndsAreRows, RunTypes
<1>25. ASSUME RerunCheck PROVE EndsAreRows'
  BY <1>25, Types DEF RerunCheck, Aborted, ReleaseSlot, parentVars, stageVars, liveVars,
     ctxVars, runVars, engVars, Idle, EndsAreRows, RunTypes
<1>26. ASSUME RerunReplay PROVE EndsAreRows'
  BY <1>26, Types, NewRun DEF RerunReplay, Last, Aborted, ReleaseSlot, FireFails, FireStage,
     RerunOf, parentVars, stageVars, liveVars, ctxVars, engVars, Idle, EndsAreRows, RunTypes
<1>27. ASSUME RerunAwait PROVE EndsAreRows'
  BY <1>27, Types DEF RerunAwait, KillRun, ReleaseSlot, Idle, parentVars, stageVars,
     liveVars, ctxVars, engVars, EndsAreRows, RunTypes
<1>28. ASSUME RerunClose PROVE EndsAreRows'
  BY <1>28, Types DEF RerunClose, CancelSuspended, ReleaseSlot, parentVars, stageVars,
     liveVars, ctxVars, engVars, Idle, EndsAreRows, RunTypes
<1>29. ASSUME RerunLast PROVE EndsAreRows'
  BY <1>29, Types DEF RerunLast, Last, Aborted, ReleaseSlot, Rerun, parentVars, stageVars,
     liveVars, ctxVars, runVars, engVars, Idle, EndsAreRows, RunTypes
<1>30. ASSUME RerunEnter PROVE EndsAreRows'
  BY <1>30, Types DEF RerunEnter, Rerun, parentVars, stageVars, ctxVars, runVars, engVars,
     EndsAreRows, RunTypes
<1>31. ASSUME RerunKill PROVE EndsAreRows'
  BY <1>31, Types DEF RerunKill, KillRun, Rerun, parentVars, stageVars, liveVars, ctxVars,
     engVars, EndsAreRows, RunTypes
<1>32. ASSUME RerunDrain PROVE EndsAreRows'
  BY <1>32, Types DEF RerunDrain, Rerun, parentVars, stageVars, liveVars, ctxVars, runVars,
     engVars, EndsAreRows, RunTypes
<1>33. ASSUME RerunFire PROVE EndsAreRows'
  BY <1>33, Types, NewRun DEF RerunFire, FireFails, Rerun, FireStage, RerunOf, Last,
     parentVars, stageVars, liveVars, ctxVars, engVars, EndsAreRows, RunTypes
<1>34. ASSUME RerunPublish PROVE EndsAreRows'
  BY <1>34, Types DEF RerunPublish, KillRun, Rerun, Publish, parentVars, stageVars, ctxVars,
     engVars, EndsAreRows, RunTypes
<1>35. ASSUME RerunAbort PROVE EndsAreRows'
  BY <1>35, Types DEF RerunAbort, Rerun, parentVars, stageVars, ctxVars, runVars, engVars,
     EndsAreRows, RunTypes
<1>36. ASSUME RerunWake PROVE EndsAreRows'
  BY <1>36, Types DEF RerunWake, ReleaseSlot, stageVars, liveVars, ctxVars, runVars,
     engVars, Idle, EndsAreRows, RunTypes
<1>37. ASSUME BeginShutdown PROVE EndsAreRows'
  BY <1>37, Types DEF BeginShutdown, parentVars, stageVars, liveVars, ctxVars, runVars,
     EndsAreRows, RunTypes
<1>38. ASSUME ListDaemons PROVE EndsAreRows'
  BY <1>38, Types DEF ListDaemons, parentVars, stageVars, liveVars, ctxVars, runVars,
     EndsAreRows, RunTypes
<1>39. ASSUME KillDaemons PROVE EndsAreRows'
  BY <1>39, Types DEF KillDaemons, KillRun, parentVars, stageVars, liveVars, ctxVars,
     EndsAreRows, RunTypes
<1>40. CASE UNCHANGED vars
  BY <1>40, Types DEF vars, parentVars, stageVars, liveVars, ctxVars, runVars, engVars,
     EndsAreRows, RunTypes
<1> QED
  BY <1>1, <1>2, <1>3, <1>4, <1>5, <1>6, <1>7, <1>8, <1>9, <1>10, <1>11, <1>12, <1>13,
     <1>14, <1>15, <1>16, <1>17, <1>18, <1>19, <1>20, <1>21, <1>22, <1>23, <1>24, <1>25,
     <1>26, <1>27, <1>28, <1>29, <1>30, <1>31, <1>32, <1>33, <1>34, <1>35, <1>36, <1>37,
     <1>38, <1>39, <1>40
     DEF Next, RunnerStep, StageStep, RerunStep, ShutdownStep

\* What comes before a stage: for a stage that needs none nothing, and when one
\* launches the next, everything before itself and itself.
LEMMA Earlier ==
  ASSUME plan \in Plans, NEW t \in Stages
  PROVE  /\ plan.needs[t] = {} => Before(t) = {}
         /\ plan.parallel => Before(t) = plan.needs[t]
         /\ ~plan.parallel => \A s \in plan.needs[t] \cap Stages : Before(t) = Before(s) \cup {s}
<1> USE Plan DEF Before, Stages
<1>1. CASE plan.parallel
  BY <1>1
<1>2. CASE ~plan.parallel
  <2>1. plan.needs[t] = {t - 1} \ {0}
    BY <1>2
  <2> QED
    BY <1>2, <2>1
<1> QED
  BY <1>1, <1>2

\* What comes before a stage is a stage.
LEMMA Within ==
  ASSUME plan \in Plans, NEW t \in Stages
  PROVE  Before(t) \subseteq Stages
<1>1. ValidPlan(plan)
  BY PipelineAssumption
<1> QED
  BY <1>1, Plan DEF ValidPlan, PlanType, Before, Stages

\* A stage is launched when those before it are over, and only once.
LEMMA StagesStep ==
  ASSUME TypeOK, StagesInOrder, [Next]_vars
  PROVE  StagesInOrder'
<1>1. ASSUME NEW p \in Parents, Fire(p) PROVE StagesInOrder'
  <2>1. plan' = plan /\ srun' = srun /\ rpc' = [rpc EXCEPT ![p] = "stages"]
    BY <1>1 DEF Fire, stageVars
  <2>2. st' = [st EXCEPT ![p] = [s \in Stages |-> IF plan.needs[s] = {} THEN "launched" ELSE "idle"]]
    BY <1>1 DEF Fire
  <2>3. \A s \in Stages : plan.needs[s] = {} => Before(s) = {}
    BY Earlier, Types
  <2>4. \A s \in Stages : srun[p][s] = NoRun
    BY <1>1 DEF Fire, StagesInOrder, StageInOrder
  <2>5. ASSUME NEW q \in Parents, NEW s \in Stages, q # p PROVE st'[q][s] = st[q][s] /\ rpc'[q] = rpc[q]
    BY <2>1, <2>2, <2>5, Types DEF StageTypes, FireTypes
  <2>6. ASSUME NEW s \in Stages
        PROVE  rpc'[p] = "stages" /\ st'[p][s] = IF plan.needs[s] = {} THEN "launched" ELSE "idle"
    BY <2>1, <2>2, Types DEF StageTypes, FireTypes
  <2> QED
    <3>1. ASSUME NEW q \in Parents, NEW s \in Stages PROVE StageInOrder(q, s)'
      <4>1. CASE q = p
        BY <2>1, <2>3, <2>4, <2>6, <4>1 DEF StageInOrder, Before
      <4>2. CASE q # p
        BY <2>1, <2>5, <4>2, Within, Types DEF StagesInOrder, StageInOrder, Before
      <4> QED
        BY <4>1, <4>2
    <3> QED
      BY <2>1, <3>1 DEF StagesInOrder, Stages
<1>2. ASSUME NEW p \in Parents, NEW s \in Stages, SkipStage(p, s) PROVE StagesInOrder'
  BY <1>2, Types DEF SkipStage, CtxDone, parentVars, liveVars, ctxVars, runVars, engVars,
     StagesInOrder, StageInOrder, Before, Stages, StageTypes, FireTypes
<1>3. ASSUME NEW p \in Parents, NEW s \in Stages, DispatchStage(p, s) PROVE StagesInOrder'
  <2>1. plan' = plan /\ st[p][s] = "launched" /\ rpc[p] = "stages"
    BY <1>3 DEF DispatchStage
  <2>2. PICK x \in {"waiting", "ok", "bad"} : st' = [st EXCEPT ![p][s] = x]
    BY <1>3 DEF DispatchStage, StageFails
  <2>3. \A q \in Parents, t \in Stages : (q # p \/ t # s) =>
          st'[q][t] = st[q][t] /\ srun'[q][t] = srun[q][t]
    BY <1>3, <2>2, Types DEF DispatchStage, StageTypes
  <2>4. st'[p][s] \in {"waiting", "ok", "bad"}
    BY <2>1, <2>2, Types DEF StageTypes
  <2>5. \A q \in Parents :
          \/ rpc'[q] = rpc[q]
          \/ q = p /\ rpc'[q] = "live" /\ IsDaemon(s) /\ st'[p][s] = "ok"
    <3>1. \/ rpc' = rpc
          \/ rpc' = [rpc EXCEPT ![p] = "live"] /\ IsDaemon(s) /\ st' = [st EXCEPT ![p][s] = "ok"]
      BY <1>3, Types DEF DispatchStage, FireTypes
    <3>2. IsDaemon(s) /\ st' = [st EXCEPT ![p][s] = "ok"] => st'[p][s] = "ok"
      BY Types DEF StageTypes
    <3>3. rpc \in [Parents -> RunnerPCs]
      BY Types DEF FireTypes
    <3> QED
      BY <3>1, <3>2, <3>3
  <2>6. IsDaemon(s) => s = Last /\ ~plan.parallel
    BY Plan, Types DEF IsDaemon
  <2>7. IsDaemon(s) => \A t \in Stages : t # s => t \in Before(s)
    BY <2>6 DEF Before, Stages, Last
  <2> QED
    <3>1. ASSUME NEW q \in Parents, NEW t \in Stages PROVE StageInOrder(q, t)'
      <4>1. \A d \in Before(t) : d \in Stages
        BY Within, Types
      <4>2. CASE q = p /\ t = s
        BY <2>1, <2>3, <2>4, <2>5, <4>1, <4>2 DEF StagesInOrder, StageInOrder, Before
      <4>3. CASE q = p /\ t # s
        BY <2>1, <2>3, <2>5, <2>7, <4>1, <4>3 DEF StagesInOrder, StageInOrder, Before
      <4>4. CASE q # p
        BY <2>1, <2>3, <2>5, <4>1, <4>4 DEF StagesInOrder, StageInOrder, Before
      <4> QED
        BY <4>2, <4>3, <4>4
    <3> QED
      BY <2>1, <3>1 DEF StagesInOrder, Stages
<1>4. ASSUME NEW p \in Parents, NEW s \in Stages, AwaitStage(p, s) PROVE StagesInOrder'
  <2>1. plan' = plan /\ srun' = srun /\ rpc' = rpc /\ st[p][s] = "waiting"
    BY <1>4 DEF AwaitStage, parentVars
  <2>2. rpc[p] = "stages"
    BY <2>1, Types DEF StagesInOrder, StageInOrder, FireTypes
  <2>3. CASE \E x \in {"suspended", "bad"} : st' = [st EXCEPT ![p][s] = x]
    <3>1. \A q \in Parents, t \in Stages : (q # p \/ t # s) => st'[q][t] = st[q][t]
      BY <2>3, Types DEF StageTypes
    <3>2. st'[p][s] \in {"suspended", "bad"}
      BY <2>3, Types DEF StageTypes
    <3> QED
      <4>1. ASSUME NEW q \in Parents, NEW t \in Stages PROVE StageInOrder(q, t)'
        BY <2>1, <2>2, <3>1, <3>2, Within, Types DEF StagesInOrder, StageInOrder, Before
      <4> QED
        BY <2>1, <4>1 DEF StagesInOrder, Stages
  <2>4. CASE st' = [st EXCEPT ![p] = [t \in Stages |->
                     IF t = s THEN "ok"
                     ELSE IF s \in plan.needs[t] /\ \A d \in plan.needs[t] \ {s} : st[p][d] = "ok"
                     THEN "launched" ELSE st[p][t]]]
    <3> DEFINE next == {t \in Stages : /\ t # s /\ s \in plan.needs[t]
                                      /\ \A d \in plan.needs[t] \ {s} : st[p][d] = "ok"}
    <3>1. \A q \in Parents, t \in Stages : q # p => st'[q][t] = st[q][t]
      BY <2>4, Types DEF StageTypes
    <3>2. \A t \in Stages :
              st'[p][t] = IF t = s THEN "ok" ELSE IF t \in next THEN "launched" ELSE st[p][t]
      BY <2>4, Types DEF StageTypes
    <3>3. ASSUME NEW t \in next
          PROVE  st[p][t] = "idle" /\ \A d \in Before(t) : d = s \/ st[p][d] = "ok"
      <4>1. s \in Before(t) /\ \A d \in Before(t) : d = s \/ st[p][d] = "ok"
        <5>1. CASE plan.parallel
          BY <5>1, Earlier, Types
        <5>2. CASE ~plan.parallel
          BY <2>1, <5>2, Earlier, Types DEF StagesInOrder, StageInOrder
        <5> QED
          BY <5>1, <5>2
      <4> QED
        BY <2>1, <4>1 DEF StagesInOrder, StageInOrder
    <3> HIDE DEF next
    <3>4. \A t \in Stages : \A d \in Before(t) : d \in Stages
      BY Plan, Types, Within
    <3> QED
      <4>1. ASSUME NEW q \in Parents, NEW t \in Stages PROVE StageInOrder(q, t)'
        BY <2>1, <2>2, <3>1, <3>2, <3>3, <3>4 DEF StagesInOrder, StageInOrder, Before
      <4> QED
        BY <2>1, <4>1 DEF StagesInOrder, Stages
  <2> QED
    BY <1>4, <2>3, <2>4 DEF AwaitStage, StageFails
<1>5. ASSUME NEW p \in Parents, NEW s \in Stages, AbandonStage(p, s) PROVE StagesInOrder'
  BY <1>5, Types DEF AbandonStage, CtxDone, KillRun, StageFails, parentVars, liveVars,
     ctxVars, engVars, StagesInOrder, StageInOrder, Before, Stages, StageTypes, FireTypes
<1>6. ASSUME NEW p \in Parents, NEW s \in Stages, CloseSuspendedStage(p, s) PROVE StagesInOrder'
  BY <1>6, Types DEF CloseSuspendedStage, CancelSuspended, StageFails, parentVars, liveVars,
     ctxVars, engVars, StagesInOrder, StageInOrder, Before, Stages, StageTypes, FireTypes
<1>7. ASSUME NEW p \in Parents, StagesOver(p) PROVE StagesInOrder'
  BY <1>7, Types DEF StagesOver, Stages, stageVars, liveVars, ctxVars, runVars, engVars,
     StagesInOrder, StageInOrder, Before, StageTypes, FireTypes
<1>8. ASSUME NEW p \in Parents, GoLive(p) PROVE StagesInOrder'
  BY <1>8, Types DEF GoLive, Last, stageVars, ctxVars, runVars, engVars, StagesInOrder,
     StageInOrder, Before, Stages, StageTypes, FireTypes
<1>9. ASSUME NEW p \in Parents, Loop(p) PROVE StagesInOrder'
  BY <1>9, Types DEF Loop, stageVars, liveVars, ctxVars, runVars, engVars, StagesInOrder,
     StageInOrder, Before, Stages, StageTypes, FireTypes
<1>10. ASSUME NEW p \in Parents, DaemonEnded(p) PROVE StagesInOrder'
  BY <1>10, Types DEF DaemonEnded, stageVars, liveVars, ctxVars, runVars, engVars,
     StagesInOrder, StageInOrder, Before, Stages, StageTypes, FireTypes
<1>11. ASSUME NEW p \in Parents, Decide(p) PROVE StagesInOrder'
  BY <1>11, Types DEF Decide, Exited, stageVars, liveVars, ctxVars, runVars, engVars,
     StagesInOrder, StageInOrder, Before, Stages, StageTypes, FireTypes
<1>12. ASSUME NEW p \in Parents, DecideAgain(p) PROVE StagesInOrder'
  BY <1>12, Types DEF DecideAgain, Exited, stageVars, liveVars, ctxVars, runVars, engVars,
     StagesInOrder, StageInOrder, Before, Stages, StageTypes, FireTypes
<1>13. ASSUME NEW p \in Parents, CloseSuspendedDaemon(p) PROVE StagesInOrder'
  BY <1>13, Types DEF CloseSuspendedDaemon, CancelSuspended, stageVars, liveVars, ctxVars,
     engVars, StagesInOrder, StageInOrder, Before, Stages, StageTypes, FireTypes
<1>14. ASSUME NEW p \in Parents, MarkFinished(p) PROVE StagesInOrder'
  BY <1>14, Types DEF MarkFinished, stageVars, ctxVars, runVars, engVars, StagesInOrder,
     StageInOrder, Before, Stages, StageTypes, FireTypes
<1>15. ASSUME NEW p \in Parents, FinishRow(p) PROVE StagesInOrder'
  BY <1>15, Types DEF FinishRow, stageVars, liveVars, ctxVars, runVars, engVars,
     StagesInOrder, StageInOrder, Before, Stages, StageTypes, FireTypes
<1>16. ASSUME NEW p \in Parents, ReleaseParent(p) PROVE StagesInOrder'
  BY <1>16, Types DEF ReleaseParent, stageVars, liveVars, runVars, engVars, StagesInOrder,
     StageInOrder, Before, Stages, StageTypes, FireTypes
<1>17. ASSUME NEW p \in Parents, Leave(p) PROVE StagesInOrder'
  BY <1>17, Types DEF Leave, stageVars, ctxVars, runVars, engVars, StagesInOrder,
     StageInOrder, Before, Stages, StageTypes, FireTypes
<1>18. ASSUME NEW p \in Parents, Watch(p) PROVE StagesInOrder'
  BY <1>18, Types DEF Watch, KillRun, parentVars, stageVars, ctxVars, engVars,
     StagesInOrder, StageInOrder, Before, Stages, StageTypes, FireTypes
<1>19. ASSUME NEW p \in Parents, KillParent(p) PROVE StagesInOrder'
  BY <1>19, Types DEF KillParent, parentVars, stageVars, liveVars, runVars, engVars,
     StagesInOrder, StageInOrder, Before, Stages, StageTypes, FireTypes
<1>20. ASSUME NEW p \in Parents, Timeout(p) PROVE StagesInOrder'
  BY <1>20, Types DEF Timeout, parentVars, stageVars, liveVars, runVars, engVars,
     StagesInOrder, StageInOrder, Before, Stages, StageTypes, FireTypes
<1>21. ASSUME NEW r \in Runs, BodyEnds(r) PROVE StagesInOrder'
  BY <1>21, Types DEF BodyEnds, IsDaemon, parentVars, stageVars, liveVars, ctxVars, engVars,
     Last, StagesInOrder, StageInOrder, Before, Stages, StageTypes, FireTypes
<1>22. ASSUME NEW r \in Runs, RunLeaves(r) PROVE StagesInOrder'
  BY <1>22, Types DEF RunLeaves, Idle, parentVars, stageVars, liveVars, ctxVars, engVars,
     StagesInOrder, StageInOrder, Before, Stages, StageTypes, FireTypes
<1>23. ASSUME NEW r \in Runs, OutsideResume(r) PROVE StagesInOrder'
  BY <1>23, Types, NewRun DEF OutsideResume, parentVars, stageVars, liveVars, ctxVars,
     engVars, StagesInOrder, StageInOrder, Before, Stages, StageTypes, FireTypes
<1>24. ASSUME NEW s \in Stages, OutsideFire(s) PROVE StagesInOrder'
  BY <1>24, Types, NewRun DEF OutsideFire, IsDaemon, FireStage, parentVars, stageVars,
     liveVars, ctxVars, engVars, Last, StagesInOrder, StageInOrder, Before, Stages,
     StageTypes, FireTypes
<1>25. ASSUME RerunCheck PROVE StagesInOrder'
  BY <1>25, Types DEF RerunCheck, Aborted, ReleaseSlot, parentVars, stageVars, liveVars,
     ctxVars, runVars, engVars, Idle, StagesInOrder, StageInOrder, Before, Stages,
     StageTypes, FireTypes
<1>26. ASSUME RerunReplay PROVE StagesInOrder'
  BY <1>26, Types, NewRun DEF RerunReplay, Last, Aborted, ReleaseSlot, FireFails, FireStage,
     RerunOf, parentVars, stageVars, liveVars, ctxVars, engVars, Idle, StagesInOrder,
     StageInOrder, Before, Stages, StageTypes, FireTypes
<1>27. ASSUME RerunAwait PROVE StagesInOrder'
  BY <1>27, Types DEF RerunAwait, KillRun, ReleaseSlot, Idle, parentVars, stageVars,
     liveVars, ctxVars, engVars, StagesInOrder, StageInOrder, Before, Stages, StageTypes,
     FireTypes
<1>28. ASSUME RerunClose PROVE StagesInOrder'
  BY <1>28, Types DEF RerunClose, CancelSuspended, ReleaseSlot, parentVars, stageVars,
     liveVars, ctxVars, engVars, Idle, StagesInOrder, StageInOrder, Before, Stages,
     StageTypes, FireTypes
<1>29. ASSUME RerunLast PROVE StagesInOrder'
  BY <1>29, Types DEF RerunLast, Last, Aborted, ReleaseSlot, Rerun, parentVars, stageVars,
     liveVars, ctxVars, runVars, engVars, Idle, StagesInOrder, StageInOrder, Before, Stages,
     StageTypes, FireTypes
<1>30. ASSUME RerunEnter PROVE StagesInOrder'
  BY <1>30, Types DEF RerunEnter, Rerun, parentVars, stageVars, ctxVars, runVars, engVars,
     StagesInOrder, StageInOrder, Before, Stages, StageTypes, FireTypes
<1>31. ASSUME RerunKill PROVE StagesInOrder'
  BY <1>31, Types DEF RerunKill, KillRun, Rerun, parentVars, stageVars, liveVars, ctxVars,
     engVars, StagesInOrder, StageInOrder, Before, Stages, StageTypes, FireTypes
<1>32. ASSUME RerunDrain PROVE StagesInOrder'
  BY <1>32, Types DEF RerunDrain, Rerun, parentVars, stageVars, liveVars, ctxVars, runVars,
     engVars, StagesInOrder, StageInOrder, Before, Stages, StageTypes, FireTypes
<1>33. ASSUME RerunFire PROVE StagesInOrder'
  BY <1>33, Types, NewRun DEF RerunFire, FireFails, Rerun, FireStage, RerunOf, Last,
     parentVars, stageVars, liveVars, ctxVars, engVars, StagesInOrder, StageInOrder, Before,
     Stages, StageTypes, FireTypes
<1>34. ASSUME RerunPublish PROVE StagesInOrder'
  BY <1>34, Types DEF RerunPublish, KillRun, Rerun, Publish, parentVars, stageVars, ctxVars,
     engVars, StagesInOrder, StageInOrder, Before, Stages, StageTypes, FireTypes
<1>35. ASSUME RerunAbort PROVE StagesInOrder'
  BY <1>35, Types DEF RerunAbort, Rerun, parentVars, stageVars, ctxVars, runVars, engVars,
     StagesInOrder, StageInOrder, Before, Stages, StageTypes, FireTypes
<1>36. ASSUME RerunWake PROVE StagesInOrder'
  BY <1>36, Types DEF RerunWake, ReleaseSlot, stageVars, liveVars, ctxVars, runVars,
     engVars, Idle, StagesInOrder, StageInOrder, Before, Stages, StageTypes, FireTypes
<1>37. ASSUME BeginShutdown PROVE StagesInOrder'
  BY <1>37, Types DEF BeginShutdown, parentVars, stageVars, liveVars, ctxVars, runVars,
     StagesInOrder, StageInOrder, Before, Stages, StageTypes, FireTypes
<1>38. ASSUME ListDaemons PROVE StagesInOrder'
  BY <1>38, Types DEF ListDaemons, parentVars, stageVars, liveVars, ctxVars, runVars,
     StagesInOrder, StageInOrder, Before, Stages, StageTypes, FireTypes
<1>39. ASSUME KillDaemons PROVE StagesInOrder'
  BY <1>39, Types DEF KillDaemons, KillRun, parentVars, stageVars, liveVars, ctxVars,
     StagesInOrder, StageInOrder, Before, Stages, StageTypes, FireTypes
<1>40. CASE UNCHANGED vars
  BY <1>40, Types DEF vars, parentVars, stageVars, liveVars, ctxVars, runVars, engVars,
     StagesInOrder, StageInOrder, Before, Stages, StageTypes, FireTypes
<1> QED
  BY <1>1, <1>2, <1>3, <1>4, <1>5, <1>6, <1>7, <1>8, <1>9, <1>10, <1>11, <1>12, <1>13,
     <1>14, <1>15, <1>16, <1>17, <1>18, <1>19, <1>20, <1>21, <1>22, <1>23, <1>24, <1>25,
     <1>26, <1>27, <1>28, <1>29, <1>30, <1>31, <1>32, <1>33, <1>34, <1>35, <1>36, <1>37,
     <1>38, <1>39, <1>40
     DEF Next, RunnerStep, StageStep, RerunStep, ShutdownStep

\* Nothing else touches these runs.
LEMMA RunsFrame ==
  ASSUME RunnersRuns, plan' = plan, st' = st, srun' = srun,
         \A r \in Runs : own'[r].by = "runner" =>
           own'[r] = own[r] /\ (Stopped(r) => r \in cancelled' \/ body'[r] # "open")
  PROVE  RunnersRuns'
BY DEF RunnersRuns, IsDaemon, Stopped, Stages, Last

\* A run that the runner fired is awaited, stopped or over.
LEMMA RunnersRunsStep ==
  ASSUME TypeOK, StagesInOrder, RunnersRuns, [Next]_vars
  PROVE  RunnersRuns'
<1>1. ASSUME NEW p \in Parents, Fire(p) PROVE RunnersRuns'
  <2>1. plan' = plan /\ own' = own /\ srun' = srun
    BY <1>1 DEF Fire, runVars
  <2>2. \A r \in Runs : Stopped(r) => r \in cancelled' \/ body'[r] # "open"
    BY <1>1, Types DEF Fire, Stopped, KillRun, runVars
  <2>3. \A r \in Runs : own[r].by = "runner" =>
          \/ IsDaemon(own[r].stage) \/ r \in cancelled' \/ body'[r] # "open"
          \/ st'[own[r].p][own[r].stage] = "waiting"
    <3> SUFFICES ASSUME NEW r \in Runs, own[r].by = "runner", ~IsDaemon(own[r].stage),
                        r \notin cancelled', body'[r] = "open"
                 PROVE  st'[own[r].p][own[r].stage] = "waiting"
      OBVIOUS
    <3>1. st[own[r].p][own[r].stage] = "waiting" /\ srun[own[r].p][own[r].stage] = r
          /\ own[r].p \in Parents /\ own[r].stage \in Stages
      BY <2>2 DEF RunnersRuns
    <3> QED
      BY <3>1, <1>1, Types DEF Fire, StagesInOrder, StageInOrder
  <2> QED
    BY <2>1, <2>2, <2>3 DEF RunnersRuns, IsDaemon, Stopped, Stages, Last
<1>2. ASSUME NEW p \in Parents, NEW s \in Stages, SkipStage(p, s) PROVE RunnersRuns'
  <2>1. plan' = plan /\ own' = own /\ srun' = srun
    BY <1>2 DEF SkipStage, runVars
  <2>2. \A r \in Runs : Stopped(r) => r \in cancelled' \/ body'[r] # "open"
    BY <1>2, Types DEF SkipStage, Stopped, KillRun, runVars
  <2>3. \A r \in Runs : own[r].by = "runner" =>
          \/ IsDaemon(own[r].stage) \/ r \in cancelled' \/ body'[r] # "open"
          \/ st'[own[r].p][own[r].stage] = "waiting"
    <3> SUFFICES ASSUME NEW r \in Runs, own[r].by = "runner", ~IsDaemon(own[r].stage),
                        r \notin cancelled', body'[r] = "open"
                 PROVE  st'[own[r].p][own[r].stage] = "waiting"
      OBVIOUS
    <3>1. st[own[r].p][own[r].stage] = "waiting" /\ srun[own[r].p][own[r].stage] = r
          /\ own[r].p \in Parents /\ own[r].stage \in Stages
      BY <2>2 DEF RunnersRuns
    <3> QED
      BY <3>1, <1>2, Types DEF SkipStage, StageTypes
  <2> QED
    BY <2>1, <2>2, <2>3 DEF RunnersRuns, IsDaemon, Stopped, Stages, Last
<1>3. ASSUME NEW p \in Parents, NEW s \in Stages, DispatchStage(p, s) PROVE RunnersRuns'
  <2>1. plan' = plan /\ st[p][s] = "launched" /\ cancelled' = cancelled
    BY <1>3 DEF DispatchStage
  <2>2. \A q \in Parents, t \in Stages :
            (q # p \/ t # s) => st'[q][t] = st[q][t] /\ srun'[q][t] = srun[q][t]
    BY <1>3, Types DEF DispatchStage, StageFails, StageTypes
  <2>3. srun[p][s] = NoRun
    BY <2>1 DEF StagesInOrder, StageInOrder
  <2>4. CASE /\ FireStage([p |-> p, stage |-> s, by |-> "runner"])
             /\ srun' = [srun EXCEPT ![p][s] = NewID]
             /\ st' = [st EXCEPT ![p][s] = IF IsDaemon(s) THEN "ok" ELSE "waiting"]
    <3>1. srun'[p][s] = NewID /\ st'[p][s] = IF IsDaemon(s) THEN "ok" ELSE "waiting"
      BY <2>4, Types DEF StageTypes
    <3>2. own'[NewID] = [p |-> p, stage |-> s, by |-> "runner"]
      BY <2>4, Opened, Types
    <3>3. \A r \in Runs : r # NewID => own'[r] = own[r] /\ body'[r] = body[r]
      BY <2>4, Opened, Types
    <3>4. \A r \in Runs : own[r].by = "runner" => ~(own[r].p = p /\ own[r].stage = s)
      BY <2>3, PipelineAssumption DEF RunnersRuns
    <3> QED
      BY <2>1, <2>2, <3>1, <3>2, <3>3, <3>4 DEF RunnersRuns, IsDaemon, Stopped, Stages, Last
  <2>5. CASE FireFails /\ srun' = srun
    <3>1. \A r \in Runs : own[r].by = "runner" => ~(own[r].p = p /\ own[r].stage = s)
      BY <2>3, PipelineAssumption DEF RunnersRuns
    <3> QED
      BY <2>1, <2>2, <2>5, <3>1 DEF FireFails, RunnersRuns, IsDaemon, Stopped, Stages, Last
  <2> QED
    BY <1>3, <2>4, <2>5 DEF DispatchStage
<1>4. ASSUME NEW p \in Parents, NEW s \in Stages, AwaitStage(p, s) PROVE RunnersRuns'
  <2>1. plan' = plan /\ own' = own /\ srun' = srun
    BY <1>4 DEF AwaitStage, runVars
  <2>2. \A r \in Runs : Stopped(r) => r \in cancelled' \/ body'[r] # "open"
    BY <1>4, Types DEF AwaitStage, Stopped, KillRun, runVars
  <2>3. \A r \in Runs : own[r].by = "runner" =>
          \/ IsDaemon(own[r].stage) \/ r \in cancelled' \/ body'[r] # "open"
          \/ st'[own[r].p][own[r].stage] = "waiting"
    <3> SUFFICES ASSUME NEW r \in Runs, own[r].by = "runner", ~IsDaemon(own[r].stage),
                        r \notin cancelled', body'[r] = "open"
                 PROVE  st'[own[r].p][own[r].stage] = "waiting"
      OBVIOUS
    <3>1. st[own[r].p][own[r].stage] = "waiting" /\ srun[own[r].p][own[r].stage] = r
          /\ own[r].p \in Parents /\ own[r].stage \in Stages
      BY <2>2 DEF RunnersRuns
    <3>2. ~(own[r].p = p /\ own[r].stage = s)
      BY <3>1, <1>4, Types DEF AwaitStage, runVars, RunTypes
    <3>3. \A q \in Parents, t \in Stages :
              st[q][t] = "waiting" /\ ~(q = p /\ t = s) => st'[q][t] = "waiting"
      <4>1. ASSUME NEW q \in Parents, NEW t \in Stages, st[q][t] = "waiting", ~(q = p /\ t = s)
            PROVE  st'[q][t] = "waiting"
        <5>1. st[p][s] = "waiting"
          BY <1>4 DEF AwaitStage
        <5>2. s \in plan.needs[t] /\ q = p => st[p][s] = "ok"
          BY <4>1, <5>1, Earlier, Types DEF StagesInOrder, StageInOrder
        <5> QED
          BY <4>1, <5>1, <5>2, <1>4, Types DEF AwaitStage, StageFails, StageTypes
      <4> QED
        BY <4>1
    <3> QED
      BY <3>1, <3>2, <3>3
  <2> QED
    BY <2>1, <2>2, <2>3 DEF RunnersRuns, IsDaemon, Stopped, Stages, Last
<1>5. ASSUME NEW p \in Parents, NEW s \in Stages, AbandonStage(p, s) PROVE RunnersRuns'
  <2>1. plan' = plan /\ own' = own /\ srun' = srun
    BY <1>5 DEF AbandonStage, runVars
  <2>2. \A r \in Runs : Stopped(r) => r \in cancelled' \/ body'[r] # "open"
    BY <1>5, Types DEF AbandonStage, Stopped, KillRun, runVars
  <2>3. \A r \in Runs : own[r].by = "runner" =>
          \/ IsDaemon(own[r].stage) \/ r \in cancelled' \/ body'[r] # "open"
          \/ st'[own[r].p][own[r].stage] = "waiting"
    <3> SUFFICES ASSUME NEW r \in Runs, own[r].by = "runner", ~IsDaemon(own[r].stage),
                        r \notin cancelled', body'[r] = "open"
                 PROVE  st'[own[r].p][own[r].stage] = "waiting"
      OBVIOUS
    <3>1. st[own[r].p][own[r].stage] = "waiting" /\ srun[own[r].p][own[r].stage] = r
          /\ own[r].p \in Parents /\ own[r].stage \in Stages
      BY <2>2 DEF RunnersRuns
    <3> QED
      BY <3>1, <1>5, Types, PipelineAssumption DEF AbandonStage, StageFails, StageTypes, KillRun
  <2> QED
    BY <2>1, <2>2, <2>3 DEF RunnersRuns, IsDaemon, Stopped, Stages, Last
<1>6. ASSUME NEW p \in Parents, NEW s \in Stages, CloseSuspendedStage(p, s) PROVE RunnersRuns'
  <2>1. plan' = plan /\ own' = own /\ srun' = srun
    BY <1>6 DEF CloseSuspendedStage, runVars
  <2>2. \A r \in Runs : Stopped(r) => r \in cancelled' \/ body'[r] # "open"
    BY <1>6, Types DEF CloseSuspendedStage, Stopped, KillRun, runVars
  <2>3. \A r \in Runs : own[r].by = "runner" =>
          \/ IsDaemon(own[r].stage) \/ r \in cancelled' \/ body'[r] # "open"
          \/ st'[own[r].p][own[r].stage] = "waiting"
    <3> SUFFICES ASSUME NEW r \in Runs, own[r].by = "runner", ~IsDaemon(own[r].stage),
                        r \notin cancelled', body'[r] = "open"
                 PROVE  st'[own[r].p][own[r].stage] = "waiting"
      OBVIOUS
    <3>1. st[own[r].p][own[r].stage] = "waiting" /\ srun[own[r].p][own[r].stage] = r
          /\ own[r].p \in Parents /\ own[r].stage \in Stages
      BY <2>2 DEF RunnersRuns
    <3> QED
      BY <3>1, <1>6, Types DEF CloseSuspendedStage, StageFails, StageTypes
  <2> QED
    BY <2>1, <2>2, <2>3 DEF RunnersRuns, IsDaemon, Stopped, Stages, Last
<1>7. ASSUME NEW p \in Parents, StagesOver(p) PROVE RunnersRuns'
  BY <1>7, RunsFrame, Types DEF StagesOver, Stages, stageVars, liveVars, ctxVars, runVars,
     engVars, Stopped, RunTypes
<1>8. ASSUME NEW p \in Parents, GoLive(p) PROVE RunnersRuns'
  BY <1>8, RunsFrame, Types DEF GoLive, Last, stageVars, ctxVars, runVars, engVars, Stopped,
     RunTypes
<1>9. ASSUME NEW p \in Parents, Loop(p) PROVE RunnersRuns'
  BY <1>9, RunsFrame, Types DEF Loop, stageVars, liveVars, ctxVars, runVars, engVars,
     Stopped, RunTypes
<1>10. ASSUME NEW p \in Parents, DaemonEnded(p) PROVE RunnersRuns'
  BY <1>10, RunsFrame, Types DEF DaemonEnded, stageVars, liveVars, ctxVars, runVars,
     engVars, Stopped, RunTypes
<1>11. ASSUME NEW p \in Parents, Decide(p) PROVE RunnersRuns'
  BY <1>11, RunsFrame, Types DEF Decide, Exited, stageVars, liveVars, ctxVars, runVars,
     engVars, Stopped, RunTypes
<1>12. ASSUME NEW p \in Parents, DecideAgain(p) PROVE RunnersRuns'
  BY <1>12, RunsFrame, Types DEF DecideAgain, Exited, stageVars, liveVars, ctxVars, runVars,
     engVars, Stopped, RunTypes
<1>13. ASSUME NEW p \in Parents, CloseSuspendedDaemon(p) PROVE RunnersRuns'
  BY <1>13, RunsFrame, Types DEF CloseSuspendedDaemon, CancelSuspended, stageVars, liveVars,
     ctxVars, engVars, Stopped, RunTypes
<1>14. ASSUME NEW p \in Parents, MarkFinished(p) PROVE RunnersRuns'
  BY <1>14, RunsFrame, Types DEF MarkFinished, stageVars, ctxVars, runVars, engVars,
     Stopped, RunTypes
<1>15. ASSUME NEW p \in Parents, FinishRow(p) PROVE RunnersRuns'
  BY <1>15, RunsFrame, Types DEF FinishRow, stageVars, liveVars, ctxVars, runVars, engVars,
     Stopped, RunTypes
<1>16. ASSUME NEW p \in Parents, ReleaseParent(p) PROVE RunnersRuns'
  BY <1>16, RunsFrame, Types DEF ReleaseParent, stageVars, liveVars, runVars, engVars,
     Stopped, RunTypes
<1>17. ASSUME NEW p \in Parents, Leave(p) PROVE RunnersRuns'
  BY <1>17, RunsFrame, Types DEF Leave, stageVars, ctxVars, runVars, engVars, Stopped,
     RunTypes
<1>18. ASSUME NEW p \in Parents, Watch(p) PROVE RunnersRuns'
  BY <1>18, RunsFrame, Types DEF Watch, KillRun, parentVars, stageVars, ctxVars, engVars,
     Stopped, RunTypes
<1>19. ASSUME NEW p \in Parents, KillParent(p) PROVE RunnersRuns'
  BY <1>19, RunsFrame, Types DEF KillParent, parentVars, stageVars, liveVars, runVars,
     engVars, Stopped, RunTypes
<1>20. ASSUME NEW p \in Parents, Timeout(p) PROVE RunnersRuns'
  BY <1>20, RunsFrame, Types DEF Timeout, parentVars, stageVars, liveVars, runVars, engVars,
     Stopped, RunTypes
<1>21. ASSUME NEW r \in Runs, BodyEnds(r) PROVE RunnersRuns'
  BY <1>21, RunsFrame, Types DEF BodyEnds, IsDaemon, parentVars, stageVars, liveVars,
     ctxVars, engVars, Last, Stopped, RunTypes
<1>22. ASSUME NEW r \in Runs, RunLeaves(r) PROVE RunnersRuns'
  BY <1>22, RunsFrame, Types DEF RunLeaves, Idle, parentVars, stageVars, liveVars, ctxVars,
     engVars, Stopped, RunTypes
<1>23. ASSUME NEW r \in Runs, OutsideResume(r) PROVE RunnersRuns'
  BY <1>23, RunsFrame, Types, NewRun DEF OutsideResume, parentVars, stageVars, liveVars,
     ctxVars, engVars, Stopped, RunTypes
<1>24. ASSUME NEW s \in Stages, OutsideFire(s) PROVE RunnersRuns'
  BY <1>24, RunsFrame, Opened, Types DEF OutsideFire, Stopped, stageVars
<1>25. ASSUME RerunCheck PROVE RunnersRuns'
  BY <1>25, RunsFrame, Types DEF RerunCheck, Aborted, ReleaseSlot, parentVars, stageVars,
     liveVars, ctxVars, runVars, engVars, Idle, Stopped, RunTypes
<1>26. ASSUME RerunReplay PROVE RunnersRuns'
  BY <1>26, RunsFrame, Opened, Types DEF RerunReplay, RerunOf, FireFails, Stopped, stageVars
<1>27. ASSUME RerunAwait PROVE RunnersRuns'
  BY <1>27, RunsFrame, Types DEF RerunAwait, KillRun, ReleaseSlot, Idle, parentVars,
     stageVars, liveVars, ctxVars, engVars, Stopped, RunTypes
<1>28. ASSUME RerunClose PROVE RunnersRuns'
  BY <1>28, RunsFrame, Types DEF RerunClose, CancelSuspended, ReleaseSlot, parentVars,
     stageVars, liveVars, ctxVars, engVars, Idle, Stopped, RunTypes
<1>29. ASSUME RerunLast PROVE RunnersRuns'
  BY <1>29, RunsFrame, Types DEF RerunLast, Last, Aborted, ReleaseSlot, Rerun, parentVars,
     stageVars, liveVars, ctxVars, runVars, engVars, Idle, Stopped, RunTypes
<1>30. ASSUME RerunEnter PROVE RunnersRuns'
  BY <1>30, RunsFrame, Types DEF RerunEnter, Rerun, parentVars, stageVars, ctxVars, runVars,
     engVars, Stopped, RunTypes
<1>31. ASSUME RerunKill PROVE RunnersRuns'
  BY <1>31, RunsFrame, Types DEF RerunKill, KillRun, Rerun, parentVars, stageVars, liveVars,
     ctxVars, engVars, Stopped, RunTypes
<1>32. ASSUME RerunDrain PROVE RunnersRuns'
  BY <1>32, RunsFrame, Types DEF RerunDrain, Rerun, parentVars, stageVars, liveVars,
     ctxVars, runVars, engVars, Stopped, RunTypes
<1>33. ASSUME RerunFire PROVE RunnersRuns'
  BY <1>33, RunsFrame, Opened, Types DEF RerunFire, RerunOf, FireFails, Stopped, stageVars
<1>34. ASSUME RerunPublish PROVE RunnersRuns'
  BY <1>34, RunsFrame, Types DEF RerunPublish, KillRun, Rerun, Publish, parentVars,
     stageVars, ctxVars, engVars, Stopped, RunTypes
<1>35. ASSUME RerunAbort PROVE RunnersRuns'
  BY <1>35, RunsFrame, Types DEF RerunAbort, Rerun, parentVars, stageVars, ctxVars, runVars,
     engVars, Stopped, RunTypes
<1>36. ASSUME RerunWake PROVE RunnersRuns'
  BY <1>36, RunsFrame, Types DEF RerunWake, ReleaseSlot, stageVars, liveVars, ctxVars,
     runVars, engVars, Idle, Stopped, RunTypes
<1>37. ASSUME BeginShutdown PROVE RunnersRuns'
  BY <1>37, RunsFrame, Types DEF BeginShutdown, parentVars, stageVars, liveVars, ctxVars,
     runVars, Stopped, RunTypes
<1>38. ASSUME ListDaemons PROVE RunnersRuns'
  BY <1>38, RunsFrame, Types DEF ListDaemons, parentVars, stageVars, liveVars, ctxVars,
     runVars, Stopped, RunTypes
<1>39. ASSUME KillDaemons PROVE RunnersRuns'
  BY <1>39, RunsFrame, Types DEF KillDaemons, KillRun, parentVars, stageVars, liveVars,
     ctxVars, Stopped, RunTypes
<1>40. CASE UNCHANGED vars
  BY <1>40, RunsFrame, Types DEF vars, parentVars, stageVars, liveVars, ctxVars, runVars,
     engVars, Stopped, RunTypes
<1> QED
  BY <1>1, <1>2, <1>3, <1>4, <1>5, <1>6, <1>7, <1>8, <1>9, <1>10, <1>11, <1>12, <1>13,
     <1>14, <1>15, <1>16, <1>17, <1>18, <1>19, <1>20, <1>21, <1>22, <1>23, <1>24, <1>25,
     <1>26, <1>27, <1>28, <1>29, <1>30, <1>31, <1>32, <1>33, <1>34, <1>35, <1>36, <1>37,
     <1>38, <1>39, <1>40
     DEF Next, RunnerStep, StageStep, RerunStep, ShutdownStep

\* A run that was started stays so, keeps its owner, and does not take up again what
\* it was told to stop.
RunsGoOn ==
  \A r \in Runs :
    /\ body[r] # "none" => body'[r] # "none" /\ own'[r] = own[r]
    /\ body[r] # "open" /\ body[r] # "none" => body'[r] # "open"
    /\ r \in cancelled => r \in cancelled'

\* Every step is such a step.
LEMMA RunsStep ==
  ASSUME TypeOK, [Next]_vars
  PROVE  RunsGoOn
<1>1. ASSUME NEW p \in Parents, Fire(p) PROVE RunsGoOn
  BY <1>1, Types DEF Fire, Stages, liveVars, ctxVars, runVars, engVars, RunTypes, RunsGoOn
<1>2. ASSUME NEW p \in Parents, NEW s \in Stages, SkipStage(p, s) PROVE RunsGoOn
  BY <1>2, Types DEF SkipStage, CtxDone, parentVars, liveVars, ctxVars, runVars, engVars,
     RunTypes, RunsGoOn
<1>3. ASSUME NEW p \in Parents, NEW s \in Stages, DispatchStage(p, s) PROVE RunsGoOn
  BY <1>3, Types, NewRun DEF DispatchStage, CtxDone, FireStage, IsDaemon, FireFails,
     StageFails, liveVars, ctxVars, engVars, Last, RunTypes, RunsGoOn
<1>4. ASSUME NEW p \in Parents, NEW s \in Stages, AwaitStage(p, s) PROVE RunsGoOn
  BY <1>4, Types DEF AwaitStage, CtxDone, Stages, StageFails, parentVars, liveVars, ctxVars,
     runVars, engVars, RunTypes, RunsGoOn
<1>5. ASSUME NEW p \in Parents, NEW s \in Stages, AbandonStage(p, s) PROVE RunsGoOn
  BY <1>5, Types DEF AbandonStage, CtxDone, KillRun, StageFails, parentVars, liveVars,
     ctxVars, engVars, RunTypes, RunsGoOn
<1>6. ASSUME NEW p \in Parents, NEW s \in Stages, CloseSuspendedStage(p, s) PROVE RunsGoOn
  BY <1>6, Types DEF CloseSuspendedStage, CancelSuspended, StageFails, parentVars, liveVars,
     ctxVars, engVars, RunTypes, RunsGoOn
<1>7. ASSUME NEW p \in Parents, StagesOver(p) PROVE RunsGoOn
  BY <1>7, Types DEF StagesOver, Stages, stageVars, liveVars, ctxVars, runVars, engVars,
     RunTypes, RunsGoOn
<1>8. ASSUME NEW p \in Parents, GoLive(p) PROVE RunsGoOn
  BY <1>8, Types DEF GoLive, Last, stageVars, ctxVars, runVars, engVars, RunTypes, RunsGoOn
<1>9. ASSUME NEW p \in Parents, Loop(p) PROVE RunsGoOn
  BY <1>9, Types DEF Loop, stageVars, liveVars, ctxVars, runVars, engVars, RunTypes,
     RunsGoOn
<1>10. ASSUME NEW p \in Parents, DaemonEnded(p) PROVE RunsGoOn
  BY <1>10, Types DEF DaemonEnded, stageVars, liveVars, ctxVars, runVars, engVars, RunTypes,
     RunsGoOn
<1>11. ASSUME NEW p \in Parents, Decide(p) PROVE RunsGoOn
  BY <1>11, Types DEF Decide, Exited, stageVars, liveVars, ctxVars, runVars, engVars,
     RunTypes, RunsGoOn
<1>12. ASSUME NEW p \in Parents, DecideAgain(p) PROVE RunsGoOn
  BY <1>12, Types DEF DecideAgain, Exited, stageVars, liveVars, ctxVars, runVars, engVars,
     RunTypes, RunsGoOn
<1>13. ASSUME NEW p \in Parents, CloseSuspendedDaemon(p) PROVE RunsGoOn
  BY <1>13, Types DEF CloseSuspendedDaemon, CancelSuspended, stageVars, liveVars, ctxVars,
     engVars, RunTypes, RunsGoOn
<1>14. ASSUME NEW p \in Parents, MarkFinished(p) PROVE RunsGoOn
  BY <1>14, Types DEF MarkFinished, stageVars, ctxVars, runVars, engVars, RunTypes, RunsGoOn
<1>15. ASSUME NEW p \in Parents, FinishRow(p) PROVE RunsGoOn
  BY <1>15, Types DEF FinishRow, stageVars, liveVars, ctxVars, runVars, engVars, RunTypes,
     RunsGoOn
<1>16. ASSUME NEW p \in Parents, ReleaseParent(p) PROVE RunsGoOn
  BY <1>16, Types DEF ReleaseParent, stageVars, liveVars, runVars, engVars, RunTypes,
     RunsGoOn
<1>17. ASSUME NEW p \in Parents, Leave(p) PROVE RunsGoOn
  BY <1>17, Types DEF Leave, stageVars, ctxVars, runVars, engVars, RunTypes, RunsGoOn
<1>18. ASSUME NEW p \in Parents, Watch(p) PROVE RunsGoOn
  BY <1>18, Types DEF Watch, KillRun, parentVars, stageVars, ctxVars, engVars, RunTypes,
     RunsGoOn
<1>19. ASSUME NEW p \in Parents, KillParent(p) PROVE RunsGoOn
  BY <1>19, Types DEF KillParent, parentVars, stageVars, liveVars, runVars, engVars,
     RunTypes, RunsGoOn
<1>20. ASSUME NEW p \in Parents, Timeout(p) PROVE RunsGoOn
  BY <1>20, Types DEF Timeout, parentVars, stageVars, liveVars, runVars, engVars, RunTypes,
     RunsGoOn
<1>21. ASSUME NEW r \in Runs, BodyEnds(r) PROVE RunsGoOn
  BY <1>21, Types DEF BodyEnds, IsDaemon, parentVars, stageVars, liveVars, ctxVars, engVars,
     Last, RunTypes, RunsGoOn
<1>22. ASSUME NEW r \in Runs, RunLeaves(r) PROVE RunsGoOn
  BY <1>22, Types DEF RunLeaves, Idle, parentVars, stageVars, liveVars, ctxVars, engVars,
     RunTypes, RunsGoOn
<1>23. ASSUME NEW r \in Runs, OutsideResume(r) PROVE RunsGoOn
  BY <1>23, Types, NewRun DEF OutsideResume, parentVars, stageVars, liveVars, ctxVars,
     engVars, RunTypes, RunsGoOn
<1>24. ASSUME NEW s \in Stages, OutsideFire(s) PROVE RunsGoOn
  BY <1>24, Types, NewRun DEF OutsideFire, IsDaemon, FireStage, parentVars, stageVars,
     liveVars, ctxVars, engVars, Last, RunTypes, RunsGoOn
<1>25. ASSUME RerunCheck PROVE RunsGoOn
  BY <1>25, Types DEF RerunCheck, Aborted, ReleaseSlot, parentVars, stageVars, liveVars,
     ctxVars, runVars, engVars, Idle, RunTypes, RunsGoOn
<1>26. ASSUME RerunReplay PROVE RunsGoOn
  BY <1>26, Types, NewRun DEF RerunReplay, Last, Aborted, ReleaseSlot, FireFails, FireStage,
     RerunOf, parentVars, stageVars, liveVars, ctxVars, engVars, Idle, RunTypes, RunsGoOn
<1>27. ASSUME RerunAwait PROVE RunsGoOn
  BY <1>27, Types DEF RerunAwait, KillRun, ReleaseSlot, Idle, parentVars, stageVars,
     liveVars, ctxVars, engVars, RunTypes, RunsGoOn
<1>28. ASSUME RerunClose PROVE RunsGoOn
  BY <1>28, Types DEF RerunClose, CancelSuspended, ReleaseSlot, parentVars, stageVars,
     liveVars, ctxVars, engVars, Idle, RunTypes, RunsGoOn
<1>29. ASSUME RerunLast PROVE RunsGoOn
  BY <1>29, Types DEF RerunLast, Last, Aborted, ReleaseSlot, Rerun, parentVars, stageVars,
     liveVars, ctxVars, runVars, engVars, Idle, RunTypes, RunsGoOn
<1>30. ASSUME RerunEnter PROVE RunsGoOn
  BY <1>30, Types DEF RerunEnter, Rerun, parentVars, stageVars, ctxVars, runVars, engVars,
     RunTypes, RunsGoOn
<1>31. ASSUME RerunKill PROVE RunsGoOn
  BY <1>31, Types DEF RerunKill, KillRun, Rerun, parentVars, stageVars, liveVars, ctxVars,
     engVars, RunTypes, RunsGoOn
<1>32. ASSUME RerunDrain PROVE RunsGoOn
  BY <1>32, Types DEF RerunDrain, Rerun, parentVars, stageVars, liveVars, ctxVars, runVars,
     engVars, RunTypes, RunsGoOn
<1>33. ASSUME RerunFire PROVE RunsGoOn
  BY <1>33, Types, NewRun DEF RerunFire, FireFails, Rerun, FireStage, RerunOf, Last,
     parentVars, stageVars, liveVars, ctxVars, engVars, RunTypes, RunsGoOn
<1>34. ASSUME RerunPublish PROVE RunsGoOn
  BY <1>34, Types DEF RerunPublish, KillRun, Rerun, Publish, parentVars, stageVars, ctxVars,
     engVars, RunTypes, RunsGoOn
<1>35. ASSUME RerunAbort PROVE RunsGoOn
  BY <1>35, Types DEF RerunAbort, Rerun, parentVars, stageVars, ctxVars, runVars, engVars,
     RunTypes, RunsGoOn
<1>36. ASSUME RerunWake PROVE RunsGoOn
  BY <1>36, Types DEF RerunWake, ReleaseSlot, stageVars, liveVars, ctxVars, runVars,
     engVars, Idle, RunTypes, RunsGoOn
<1>37. ASSUME BeginShutdown PROVE RunsGoOn
  BY <1>37, Types DEF BeginShutdown, parentVars, stageVars, liveVars, ctxVars, runVars,
     RunTypes, RunsGoOn
<1>38. ASSUME ListDaemons PROVE RunsGoOn
  BY <1>38, Types DEF ListDaemons, parentVars, stageVars, liveVars, ctxVars, runVars,
     RunTypes, RunsGoOn
<1>39. ASSUME KillDaemons PROVE RunsGoOn
  BY <1>39, Types DEF KillDaemons, KillRun, parentVars, stageVars, liveVars, ctxVars,
     RunTypes, RunsGoOn
<1>40. CASE UNCHANGED vars
  BY <1>40, Types DEF vars, parentVars, stageVars, liveVars, ctxVars, runVars, engVars,
     RunTypes, RunsGoOn
<1> QED
  BY <1>1, <1>2, <1>3, <1>4, <1>5, <1>6, <1>7, <1>8, <1>9, <1>10, <1>11, <1>12, <1>13,
     <1>14, <1>15, <1>16, <1>17, <1>18, <1>19, <1>20, <1>21, <1>22, <1>23, <1>24, <1>25,
     <1>26, <1>27, <1>28, <1>29, <1>30, <1>31, <1>32, <1>33, <1>34, <1>35, <1>36, <1>37,
     <1>38, <1>39, <1>40
     DEF Next, RunnerStep, StageStep, RerunStep, ShutdownStep

\* The same with the pipeline, which no step replaces.
LEMMA Onward ==
  ASSUME TypeOK, [Next]_vars
  PROVE  plan' = plan /\ \A r \in Runs :
           /\ body[r] # "none" => body'[r] # "none" /\ own'[r] = own[r]
           /\ body[r] # "open" /\ body[r] # "none" => body'[r] # "open"
           /\ r \in cancelled => r \in cancelled'
BY RunsStep, EngineTypesStep, Types DEF RunsGoOn

\* What is not waited for is left as it is.
LEMMA WatchedFrame ==
  ASSUME TypeOK, Watched, [Next]_vars, UNCHANGED <<rpc, cur, outcome, daemonRun, watcher, live>>,
         ctx \subseteq ctx', \A p \in Parents : rpc[p] = "live" => srun'[p][Last] = srun[p][Last]
  PROVE  Watched'
<1> SUFFICES ASSUME NEW p \in Parents PROVE Watching(p)'
  BY DEF Watched
<1> QED
  BY Onward DEF Watched, Watching, Started, Stopped, Last

\* The runner goes live with a run that was started, and the watcher that is done has
\* stopped the daemon that stays recorded: RerunPublish refuses a killed fire.
LEMMA WatchedStep ==
  ASSUME TypeOK, EndsAreRows, Watched, Refire, [Next]_vars
  PROVE  Watched'
<1>1. ASSUME NEW p \in Parents, Fire(p) PROVE Watched'
  <2> SUFFICES ASSUME NEW q \in Parents PROVE Watching(q)'
    BY DEF Watched
  <2> QED
    BY <1>1, Onward, Types DEF Fire, Stages, liveVars, ctxVars, Watched, Watching, Started,
       Stopped, Last, FireTypes, DaemonTypes
<1>2. ASSUME NEW p \in Parents, NEW s \in Stages, SkipStage(p, s) PROVE Watched'
  BY <1>2, WatchedFrame DEF SkipStage, CtxDone, parentVars, liveVars, ctxVars, runVars,
     engVars
<1>3. ASSUME NEW p \in Parents, NEW s \in Stages, DispatchStage(p, s) PROVE Watched'
  <2>1. CASE rpc' = rpc /\ \A q \in Parents : rpc[q] = "live" => srun'[q][Last] = srun[q][Last]
    BY <1>3, <2>1, WatchedFrame DEF DispatchStage, liveVars, ctxVars
  <2>2. CASE /\ FireStage([p |-> p, stage |-> s, by |-> "runner"]) /\ IsDaemon(s)
             /\ srun' = [srun EXCEPT ![p][s] = NewID] /\ rpc' = [rpc EXCEPT ![p] = "live"]
    <3>1. /\ rpc' = [rpc EXCEPT ![p] = "live"] /\ srun' = [srun EXCEPT ![p][s] = NewID]
          /\ rpc[p] = "stages" /\ plan' = plan
      BY <1>3, <2>2 DEF DispatchStage
    <3>2. NewID \in Runs /\ body'[NewID] # "none"
      BY <2>2, Opened, Types
    <3>3. \A q \in Parents : q # p => rpc'[q] = rpc[q] /\ srun'[q][Last] = srun[q][Last]
      BY <3>1, Types DEF FireTypes, StageTypes
    <3>4. rpc'[p] = "live" /\ srun'[p][Last] = NewID
      BY <2>2, <3>1, Types DEF FireTypes, StageTypes, IsDaemon
    <3> SUFFICES ASSUME NEW q \in Parents PROVE Watching(q)'
      BY DEF Watched
    <3> QED
      BY <3>1, <3>2, <3>3, <3>4, <1>3, Onward
         DEF DispatchStage, liveVars, ctxVars, Watched, Watching, Started, Stopped, Last
  <2>3. \A q \in Parents : rpc[q] = "live" => srun'[q][Last] = srun[q][Last]
    <3>1. srun' = srun \/ srun' = [srun EXCEPT ![p][s] = NewID]
      BY <1>3 DEF DispatchStage
    <3>2. rpc[p] # "live"
      BY <1>3 DEF DispatchStage
    <3> QED
      BY <3>1, <3>2, Types DEF StageTypes
  <2> QED
    BY <1>3, <2>1, <2>2, <2>3, Types DEF DispatchStage, FireTypes
<1>4. ASSUME NEW p \in Parents, NEW s \in Stages, AwaitStage(p, s) PROVE Watched'
  BY <1>4, WatchedFrame DEF AwaitStage, CtxDone, Stages, StageFails, parentVars, liveVars,
     ctxVars, runVars, engVars
<1>5. ASSUME NEW p \in Parents, NEW s \in Stages, AbandonStage(p, s) PROVE Watched'
  BY <1>5, WatchedFrame DEF AbandonStage, CtxDone, KillRun, StageFails, parentVars,
     liveVars, ctxVars, engVars
<1>6. ASSUME NEW p \in Parents, NEW s \in Stages, CloseSuspendedStage(p, s) PROVE Watched'
  BY <1>6, WatchedFrame DEF CloseSuspendedStage, CancelSuspended, StageFails, parentVars,
     liveVars, ctxVars, engVars
<1>7. ASSUME NEW p \in Parents, StagesOver(p) PROVE Watched'
  <2> SUFFICES ASSUME NEW q \in Parents PROVE Watching(q)'
    BY DEF Watched
  <2> QED
    BY <1>7, Onward, Types DEF StagesOver, Stages, stageVars, liveVars, ctxVars, Watched,
       Watching, Started, Stopped, Last, FireTypes, DaemonTypes
<1>8. ASSUME NEW p \in Parents, GoLive(p) PROVE Watched'
  <2> SUFFICES ASSUME NEW q \in Parents PROVE Watching(q)'
    BY DEF Watched
  <2> QED
    BY <1>8, Onward, Types DEF GoLive, Last, stageVars, ctxVars, Watched, Watching, Started,
       Stopped, Last, FireTypes, DaemonTypes
<1>9. ASSUME NEW p \in Parents, Loop(p) PROVE Watched'
  <2> SUFFICES ASSUME NEW q \in Parents PROVE Watching(q)'
    BY DEF Watched
  <2> QED
    BY <1>9, Onward, Types DEF Loop, stageVars, liveVars, ctxVars, Watched, Watching, Started,
       Stopped, Last, FireTypes, DaemonTypes
<1>10. ASSUME NEW p \in Parents, DaemonEnded(p) PROVE Watched'
  <2> SUFFICES ASSUME NEW q \in Parents PROVE Watching(q)'
    BY DEF Watched
  <2> QED
    BY <1>10, Onward, Types DEF DaemonEnded, stageVars, liveVars, ctxVars, Watched, Watching,
       Started, Stopped, Last, FireTypes, DaemonTypes
<1>11. ASSUME NEW p \in Parents, Decide(p) PROVE Watched'
  <2> SUFFICES ASSUME NEW q \in Parents PROVE Watching(q)'
    BY DEF Watched
  <2> QED
    BY <1>11, Onward, Types DEF Decide, Exited, stageVars, liveVars, ctxVars, Watched, Watching,
       Started, Stopped, Last, FireTypes, DaemonTypes
<1>12. ASSUME NEW p \in Parents, DecideAgain(p) PROVE Watched'
  <2> SUFFICES ASSUME NEW q \in Parents PROVE Watching(q)'
    BY DEF Watched
  <2> QED
    BY <1>12, Onward, Types DEF DecideAgain, Exited, stageVars, liveVars, ctxVars, Watched,
       Watching, Started, Stopped, Last, FireTypes, DaemonTypes
<1>13. ASSUME NEW p \in Parents, CloseSuspendedDaemon(p) PROVE Watched'
  <2> SUFFICES ASSUME NEW q \in Parents PROVE Watching(q)'
    BY DEF Watched
  <2> QED
    BY <1>13, Onward, Types DEF CloseSuspendedDaemon, CancelSuspended, stageVars, liveVars,
       ctxVars, Watched, Watching, Started, Stopped, Last, FireTypes, DaemonTypes
<1>14. ASSUME NEW p \in Parents, MarkFinished(p) PROVE Watched'
  <2> SUFFICES ASSUME NEW q \in Parents PROVE Watching(q)'
    BY DEF Watched
  <2> QED
    BY <1>14, Onward, Types DEF MarkFinished, stageVars, ctxVars, Watched, Watching, Started,
       Stopped, Last, FireTypes, DaemonTypes
<1>15. ASSUME NEW p \in Parents, FinishRow(p) PROVE Watched'
  <2> SUFFICES ASSUME NEW q \in Parents PROVE Watching(q)'
    BY DEF Watched
  <2> QED
    BY <1>15, Onward, Types DEF FinishRow, stageVars, liveVars, ctxVars, Watched, Watching,
       Started, Stopped, Last, FireTypes, DaemonTypes
<1>16. ASSUME NEW p \in Parents, ReleaseParent(p) PROVE Watched'
  <2> SUFFICES ASSUME NEW q \in Parents PROVE Watching(q)'
    BY DEF Watched
  <2> QED
    BY <1>16, Onward, Types DEF ReleaseParent, stageVars, liveVars, Watched, Watching, Started,
       Stopped, Last, FireTypes, DaemonTypes
<1>17. ASSUME NEW p \in Parents, Leave(p) PROVE Watched'
  <2>1. /\ watcher'[p] = watcher[p] /\ live' \in {live, NoParent} /\ rpc'[p] = "over"
        /\ UNCHANGED <<outcome, cur, srun, daemonRun, ctx>>
        /\ \A q \in Parents : q # p => watcher'[q] = watcher[q] /\ rpc'[q] = rpc[q]
        /\ p \in ctx /\ rpc[p] = "leave"
    BY <1>17, Types DEF Leave, Watched, Watching, FireTypes, DaemonTypes, stageVars, ctxVars
  <2> SUFFICES ASSUME NEW q \in Parents PROVE Watching(q)'
    BY DEF Watched
  <2> QED
    BY <2>1, Onward, PipelineAssumption DEF Watched, Watching, Started, Stopped, Last
<1>18. ASSUME NEW p \in Parents, Watch(p) PROVE Watched'
  <2>1. /\ UNCHANGED <<plan, rpc, outcome, cur, srun, daemonRun, ctx, live>>
        /\ p \in ctx /\ watcher[p] = "armed" /\ watcher'[p] = "done"
        /\ \A q \in Parents : q # p => watcher'[q] = watcher[q]
    BY <1>18, Types DEF Watch, DaemonTypes, parentVars, stageVars, ctxVars
  <2>2. Started(daemonRun[p])
    BY <2>1 DEF Watched, Watching
  <2>3. body'[daemonRun[p]] # "open" \/ daemonRun[p] \in cancelled'
    BY <2>2, <1>18, PipelineAssumption DEF Watch, KillRun, Started
  <2> SUFFICES ASSUME NEW q \in Parents PROVE Watching(q)'
    BY DEF Watched
  <2>4. CASE q = p
    BY <2>1, <2>2, <2>3, <2>4, Onward DEF Watched, Watching, Started, Stopped, Last
  <2>5. CASE q # p
    BY <2>1, <2>5, Onward DEF Watched, Watching, Started, Stopped, Last
  <2> QED
    BY <2>4, <2>5
<1>19. ASSUME NEW p \in Parents, KillParent(p) PROVE Watched'
  BY <1>19, WatchedFrame DEF KillParent, parentVars, stageVars, liveVars, runVars, engVars
<1>20. ASSUME NEW p \in Parents, Timeout(p) PROVE Watched'
  BY <1>20, WatchedFrame DEF Timeout, parentVars, stageVars, liveVars, runVars, engVars
<1>21. ASSUME NEW r \in Runs, BodyEnds(r) PROVE Watched'
  BY <1>21, WatchedFrame DEF BodyEnds, IsDaemon, parentVars, stageVars, liveVars, ctxVars,
     engVars, Last
<1>22. ASSUME NEW r \in Runs, RunLeaves(r) PROVE Watched'
  BY <1>22, WatchedFrame DEF RunLeaves, Idle, parentVars, stageVars, liveVars, ctxVars,
     engVars
<1>23. ASSUME NEW r \in Runs, OutsideResume(r) PROVE Watched'
  BY <1>23, WatchedFrame, NewRun DEF OutsideResume, parentVars, stageVars, liveVars,
     ctxVars, engVars
<1>24. ASSUME NEW s \in Stages, OutsideFire(s) PROVE Watched'
  BY <1>24, WatchedFrame, NewRun DEF OutsideFire, IsDaemon, FireStage, parentVars,
     stageVars, liveVars, ctxVars, engVars, Last
<1>25. ASSUME RerunCheck PROVE Watched'
  BY <1>25, WatchedFrame DEF RerunCheck, Aborted, ReleaseSlot, parentVars, stageVars,
     liveVars, ctxVars, runVars, engVars, Idle
<1>26. ASSUME RerunReplay PROVE Watched'
  BY <1>26, WatchedFrame, NewRun DEF RerunReplay, Last, Aborted, ReleaseSlot, FireFails,
     FireStage, RerunOf, parentVars, stageVars, liveVars, ctxVars, engVars, Idle
<1>27. ASSUME RerunAwait PROVE Watched'
  BY <1>27, WatchedFrame DEF RerunAwait, KillRun, ReleaseSlot, Idle, parentVars, stageVars,
     liveVars, ctxVars, engVars
<1>28. ASSUME RerunClose PROVE Watched'
  BY <1>28, WatchedFrame DEF RerunClose, CancelSuspended, ReleaseSlot, parentVars,
     stageVars, liveVars, ctxVars, engVars, Idle
<1>29. ASSUME RerunLast PROVE Watched'
  BY <1>29, WatchedFrame DEF RerunLast, Last, Aborted, ReleaseSlot, Rerun, parentVars,
     stageVars, liveVars, ctxVars, runVars, engVars, Idle
<1>30. ASSUME RerunEnter PROVE Watched'
  BY <1>30, WatchedFrame DEF RerunEnter, Rerun, parentVars, stageVars, ctxVars, runVars,
     engVars
<1>31. ASSUME RerunKill PROVE Watched'
  BY <1>31, WatchedFrame DEF RerunKill, KillRun, Rerun, parentVars, stageVars, liveVars,
     ctxVars, engVars
<1>32. ASSUME RerunDrain PROVE Watched'
  BY <1>32, WatchedFrame DEF RerunDrain, Rerun, parentVars, stageVars, liveVars, ctxVars,
     runVars, engVars
<1>33. ASSUME RerunFire PROVE Watched'
  BY <1>33, WatchedFrame, NewRun DEF RerunFire, FireFails, Rerun, FireStage, RerunOf, Last,
     parentVars, stageVars, liveVars, ctxVars, engVars
<1>34. ASSUME RerunPublish PROVE Watched'
  <2>1. CASE rr.p \in finished \cup ctx
    BY <1>34, <2>1, WatchedFrame DEF RerunPublish, parentVars, stageVars, ctxVars
  <2>2. CASE rr.p \notin finished \cup ctx
    <3>1. /\ UNCHANGED <<plan, rpc, outcome, cur, srun, watcher, ctx, live>>
          /\ rr.p \in Parents /\ watcher[rr.p] # "off" /\ rr.p \notin ctx /\ Started(rr.new)
          /\ daemonRun' = [daemonRun EXCEPT ![rr.p] = rr.new]
      BY <1>34, <2>2 DEF RerunPublish, Publish, parentVars, stageVars, ctxVars, Refire
    <3>2. daemonRun'[rr.p] = rr.new /\ \A q \in Parents : q # rr.p => daemonRun'[q] = daemonRun[q]
      BY <3>1, Types DEF DaemonTypes
    <3> SUFFICES ASSUME NEW q \in Parents PROVE Watching(q)'
      BY DEF Watched
    <3>3. CASE q = rr.p
      BY <3>1, <3>2, <3>3, Onward DEF Watched, Watching, Started, Stopped, Last
    <3>4. CASE q # rr.p
      BY <3>1, <3>2, <3>4, Onward DEF Watched, Watching, Started, Stopped, Last
    <3> QED
      BY <3>3, <3>4
  <2> QED
    BY <2>1, <2>2
<1>35. ASSUME RerunAbort PROVE Watched'
  BY <1>35, WatchedFrame DEF RerunAbort, Rerun, parentVars, stageVars, ctxVars, runVars,
     engVars
<1>36. ASSUME RerunWake PROVE Watched'
  <2> SUFFICES ASSUME NEW q \in Parents PROVE Watching(q)'
    BY DEF Watched
  <2> QED
    BY <1>36, Onward, Types DEF RerunWake, ReleaseSlot, stageVars, liveVars, ctxVars, Idle,
       Watched, Watching, Started, Stopped, Last, FireTypes, DaemonTypes
<1>37. ASSUME BeginShutdown PROVE Watched'
  BY <1>37, WatchedFrame DEF BeginShutdown, parentVars, stageVars, liveVars, ctxVars,
     runVars
<1>38. ASSUME ListDaemons PROVE Watched'
  BY <1>38, WatchedFrame DEF ListDaemons, parentVars, stageVars, liveVars, ctxVars, runVars
<1>39. ASSUME KillDaemons PROVE Watched'
  BY <1>39, WatchedFrame DEF KillDaemons, KillRun, parentVars, stageVars, liveVars, ctxVars
<1>40. CASE UNCHANGED vars
  BY <1>40, WatchedFrame DEF vars, parentVars, stageVars, liveVars, ctxVars, runVars,
     engVars
<1> QED
  BY <1>1, <1>2, <1>3, <1>4, <1>5, <1>6, <1>7, <1>8, <1>9, <1>10, <1>11, <1>12, <1>13,
     <1>14, <1>15, <1>16, <1>17, <1>18, <1>19, <1>20, <1>21, <1>22, <1>23, <1>24, <1>25,
     <1>26, <1>27, <1>28, <1>29, <1>30, <1>31, <1>32, <1>33, <1>34, <1>35, <1>36, <1>37,
     <1>38, <1>39, <1>40
     DEF Next, RunnerStep, StageStep, RerunStep, ShutdownStep

\* The daemon a re-fire found was started.
LEMMA OldStarted ==
  ASSUME Watched, Refire, RefireTypes, rr.pc \in Replacing
  PROVE  rr.p \in Parents /\ watcher[rr.p] # "off" /\ rr.old = daemonRun[rr.p] /\ Started(rr.old)
BY DEF Watched, Watching, Refire, Replacing

\* A re-fire that waits keeps what it knows.
LEMMA RefireFrame ==
  ASSUME TypeOK, Watched, Refire, [Next]_vars, rr' = rr,
         rr.pc # "idle" => daemonRun'[rr.p] = daemonRun[rr.p],
         \A p \in Parents : watcher[p] # "off" => watcher'[p] # "off"
  PROVE  Refire'
<1>1. rr.pc \in {"drain", "fire"} => rr.old \in cancelled' \/ body'[rr.old] # "open"
  BY OldStarted, Types, Onward DEF Replacing, Refire, Started, Stopped
<1> QED
  BY <1>1, Onward DEF Refire, Replacing, Started, Stopped, Last

\* A re-fire works on the recorded daemon until it publishes another one.
LEMMA RefireStep ==
  ASSUME TypeOK, Watched, Refire, [Next]_vars
  PROVE  Refire'
<1>1. ASSUME NEW p \in Parents, Fire(p) PROVE Refire'
  BY <1>1, RefireFrame DEF Fire, Stages, liveVars, ctxVars, runVars, engVars
<1>2. ASSUME NEW p \in Parents, NEW s \in Stages, SkipStage(p, s) PROVE Refire'
  BY <1>2, RefireFrame DEF SkipStage, CtxDone, parentVars, liveVars, ctxVars, runVars,
     engVars
<1>3. ASSUME NEW p \in Parents, NEW s \in Stages, DispatchStage(p, s) PROVE Refire'
  BY <1>3, RefireFrame DEF DispatchStage, CtxDone, FireStage, IsDaemon, FireFails,
     StageFails, liveVars, ctxVars, engVars, Last
<1>4. ASSUME NEW p \in Parents, NEW s \in Stages, AwaitStage(p, s) PROVE Refire'
  BY <1>4, RefireFrame DEF AwaitStage, CtxDone, Stages, StageFails, parentVars, liveVars,
     ctxVars, runVars, engVars
<1>5. ASSUME NEW p \in Parents, NEW s \in Stages, AbandonStage(p, s) PROVE Refire'
  BY <1>5, RefireFrame DEF AbandonStage, CtxDone, KillRun, StageFails, parentVars, liveVars,
     ctxVars, engVars
<1>6. ASSUME NEW p \in Parents, NEW s \in Stages, CloseSuspendedStage(p, s) PROVE Refire'
  BY <1>6, RefireFrame DEF CloseSuspendedStage, CancelSuspended, StageFails, parentVars,
     liveVars, ctxVars, engVars
<1>7. ASSUME NEW p \in Parents, StagesOver(p) PROVE Refire'
  BY <1>7, RefireFrame DEF StagesOver, Stages, stageVars, liveVars, ctxVars, runVars,
     engVars
<1>8. ASSUME NEW p \in Parents, GoLive(p) PROVE Refire'
  <2>1. rr' = rr /\ \A q \in Parents : watcher[q] # "off" => watcher'[q] # "off"
    BY <1>8, Types DEF GoLive, DaemonTypes
  <2>2. watcher[p] = "off" /\ daemonRun' = [daemonRun EXCEPT ![p] = srun[p][Last]]
    BY <1>8 DEF GoLive, Watched, Watching
  <2>3. rr.pc # "idle" => daemonRun'[rr.p] = daemonRun[rr.p]
    BY <2>2, Types DEF Refire, DaemonTypes
  <2> QED
    BY <2>1, <2>3, RefireFrame
<1>9. ASSUME NEW p \in Parents, Loop(p) PROVE Refire'
  BY <1>9, RefireFrame DEF Loop, stageVars, liveVars, ctxVars, runVars, engVars
<1>10. ASSUME NEW p \in Parents, DaemonEnded(p) PROVE Refire'
  BY <1>10, RefireFrame DEF DaemonEnded, stageVars, liveVars, ctxVars, runVars, engVars
<1>11. ASSUME NEW p \in Parents, Decide(p) PROVE Refire'
  BY <1>11, RefireFrame DEF Decide, Exited, stageVars, liveVars, ctxVars, runVars, engVars
<1>12. ASSUME NEW p \in Parents, DecideAgain(p) PROVE Refire'
  BY <1>12, RefireFrame DEF DecideAgain, Exited, stageVars, liveVars, ctxVars, runVars,
     engVars
<1>13. ASSUME NEW p \in Parents, CloseSuspendedDaemon(p) PROVE Refire'
  BY <1>13, RefireFrame DEF CloseSuspendedDaemon, CancelSuspended, stageVars, liveVars,
     ctxVars, engVars
<1>14. ASSUME NEW p \in Parents, MarkFinished(p) PROVE Refire'
  BY <1>14, RefireFrame DEF MarkFinished, stageVars, ctxVars, runVars, engVars
<1>15. ASSUME NEW p \in Parents, FinishRow(p) PROVE Refire'
  BY <1>15, RefireFrame DEF FinishRow, stageVars, liveVars, ctxVars, runVars, engVars
<1>16. ASSUME NEW p \in Parents, ReleaseParent(p) PROVE Refire'
  BY <1>16, RefireFrame DEF ReleaseParent, stageVars, liveVars, runVars, engVars
<1>17. ASSUME NEW p \in Parents, Leave(p) PROVE Refire'
  <2>1. rr' = rr /\ \A q \in Parents : watcher[q] # "off" => watcher'[q] # "off"
    BY <1>17, Types DEF Leave, DaemonTypes
  <2>2. daemonRun' = daemonRun
    BY <1>17 DEF Leave
  <2> QED
    BY <2>1, <2>2, RefireFrame
<1>18. ASSUME NEW p \in Parents, Watch(p) PROVE Refire'
  <2>1. rr' = rr /\ \A q \in Parents : watcher[q] # "off" => watcher'[q] # "off"
    BY <1>18, Types DEF Watch, DaemonTypes
  <2>2. daemonRun' = daemonRun
    BY <1>18 DEF Watch
  <2> QED
    BY <2>1, <2>2, RefireFrame
<1>19. ASSUME NEW p \in Parents, KillParent(p) PROVE Refire'
  BY <1>19, RefireFrame DEF KillParent, parentVars, stageVars, liveVars, runVars, engVars
<1>20. ASSUME NEW p \in Parents, Timeout(p) PROVE Refire'
  BY <1>20, RefireFrame DEF Timeout, parentVars, stageVars, liveVars, runVars, engVars
<1>21. ASSUME NEW r \in Runs, BodyEnds(r) PROVE Refire'
  BY <1>21, RefireFrame DEF BodyEnds, IsDaemon, parentVars, stageVars, liveVars, ctxVars,
     engVars, Last
<1>22. ASSUME NEW r \in Runs, RunLeaves(r) PROVE Refire'
  <2>1. CASE rr' = rr
    BY <1>22, <2>1, RefireFrame DEF RunLeaves, liveVars
  <2>2. CASE live # NoParent /\ rr' = [Idle EXCEPT !.pc = "check", !.p = live, !.at = own[r].stage]
    <3>1. rr'.pc = "check" /\ rr'.p = live /\ rr'.at = own[r].stage
      BY <2>2 DEF Idle
    <3>2. live \in Parents /\ watcher'[live] # "off"
      BY <1>22, <2>2, Types DEF RunLeaves, liveVars, Watched, Watching, DaemonTypes
    <3>3. own[r].stage <= Last
      BY Types, Plan DEF RunTypes, Last
    <3> QED
      BY <3>1, <3>2, <3>3, Onward DEF Refire, Replacing, Last
  <2> QED
    BY <1>22, <2>1, <2>2 DEF RunLeaves
<1>23. ASSUME NEW r \in Runs, OutsideResume(r) PROVE Refire'
  BY <1>23, RefireFrame DEF OutsideResume, parentVars, stageVars, liveVars, ctxVars,
     engVars
<1>24. ASSUME NEW s \in Stages, OutsideFire(s) PROVE Refire'
  BY <1>24, RefireFrame DEF OutsideFire, IsDaemon, FireStage, parentVars, stageVars,
     liveVars, ctxVars, engVars, Last
<1>25. ASSUME RerunCheck PROVE Refire'
  <2>1. daemonRun' = daemonRun /\ watcher' = watcher
    BY <1>25 DEF RerunCheck, liveVars
  <2>2. rr.p \in Parents /\ watcher[rr.p] # "off"
    BY <1>25 DEF RerunCheck, Refire
  <2>3. \/ rr' = Idle
        \/ rr'.pc = "replay" /\ rr'.p = rr.p /\ rr'.old = daemonRun[rr.p]
    BY <1>25, Types DEF RerunCheck, ReleaseSlot, RefireTypes
  <2> QED
    BY <2>1, <2>2, <2>3 DEF Refire, Replacing, Idle
<1>26. ASSUME RerunReplay PROVE Refire'
  <2>1. daemonRun' = daemonRun /\ watcher' = watcher /\ plan' = plan
    BY <1>26 DEF RerunReplay, liveVars
  <2>2. rr.p \in Parents /\ watcher[rr.p] # "off" /\ rr.old = daemonRun[rr.p] /\ rr.at < Last
    BY <1>26, Types, OldStarted DEF RerunReplay, Replacing
  <2>3. \/ rr' = Idle
        \/ rr'.pc = "await" /\ rr'.p = rr.p /\ rr'.old = rr.old /\ rr'.at = rr.at
    BY <1>26, Types DEF RerunReplay, ReleaseSlot, RefireTypes
  <2> QED
    BY <2>1, <2>2, <2>3 DEF Refire, Replacing, Idle, Last
<1>27. ASSUME RerunAwait PROVE Refire'
  <2>1. daemonRun' = daemonRun /\ watcher' = watcher
    BY <1>27 DEF RerunAwait, liveVars
  <2>2. rr.p \in Parents /\ watcher[rr.p] # "off" /\ rr.old = daemonRun[rr.p]
    BY <1>27, Types, OldStarted DEF RerunAwait, Replacing
  <2>3. \/ rr' = Idle
        \/ rr'.pc \in {"replay", "close"} /\ rr'.p = rr.p /\ rr'.old = rr.old
    BY <1>27, Types DEF RerunAwait, ReleaseSlot, RefireTypes
  <2> QED
    BY <2>1, <2>2, <2>3 DEF Refire, Replacing, Idle
<1>28. ASSUME RerunClose PROVE Refire'
  BY <1>28, Onward, OldStarted, Types DEF RerunClose, CancelSuspended, ReleaseSlot, liveVars,
     Idle, Refire, Replacing, Started, Stopped, Last, RefireTypes, Idle
<1>29. ASSUME RerunLast PROVE Refire'
  BY <1>29, Onward, OldStarted, Types DEF RerunLast, Last, Aborted, ReleaseSlot, Rerun,
     liveVars, Idle, Refire, Replacing, Started, Stopped, Last, RefireTypes, Idle
<1>30. ASSUME RerunEnter PROVE Refire'
  BY <1>30, Onward, OldStarted, Types DEF RerunEnter, Rerun, Refire, Replacing, Started,
     Stopped, Last, RefireTypes, Idle
<1>31. ASSUME RerunKill PROVE Refire'
  <2>1. rr.p \in Parents /\ watcher[rr.p] # "off" /\ rr.old = daemonRun[rr.p] /\ Started(rr.old)
    BY <1>31, Types, OldStarted DEF RerunKill, Replacing
  <2>2. /\ daemonRun' = daemonRun /\ watcher' = watcher /\ KillRun(rr.old) /\ body' = body
        /\ rr' = [rr EXCEPT !.pc = "drain"]
    BY <1>31 DEF RerunKill, Rerun, liveVars
  <2>3. rr.old \in cancelled' \/ body'[rr.old] # "open"
    BY <2>1, <2>2, PipelineAssumption DEF KillRun, Started
  <2>4. rr'.pc = "drain" /\ rr'.p = rr.p /\ rr'.old = rr.old
    BY <2>2, Types DEF RefireTypes
  <2> QED
    BY <2>1, <2>2, <2>3, <2>4 DEF Refire, Replacing, Stopped
<1>32. ASSUME RerunDrain PROVE Refire'
  BY <1>32, Onward, OldStarted, Types DEF RerunDrain, Rerun, liveVars, Refire, Replacing,
     Started, Stopped, Last, RefireTypes, Idle
<1>33. ASSUME RerunFire PROVE Refire'
  <2>1. daemonRun' = daemonRun /\ watcher' = watcher
    BY <1>33 DEF RerunFire, liveVars
  <2>2. CASE rr' = [rr EXCEPT !.pc = "abort"]
    BY <2>1, <2>2, <1>33, Types DEF RerunFire, Refire, RefireTypes, Replacing
  <2>3. CASE FireStage(RerunOf(Last)) /\ rr' = [rr EXCEPT !.pc = "publish", !.new = NewID]
    <3>1. NewID \in Runs /\ body'[NewID] = "open"
      BY <2>3, Opened, Types
    <3>2. rr'.pc = "publish" /\ rr'.p = rr.p /\ rr'.new = NewID /\ rr'.old = rr.old
      BY <2>3, Types DEF RefireTypes
    <3>3. rr.p \in Parents /\ watcher[rr.p] # "off" /\ rr.old = daemonRun[rr.p]
      BY <1>33, Types, OldStarted DEF RerunFire, Replacing
    <3> QED
      BY <2>1, <3>1, <3>2, <3>3 DEF Refire, Replacing, Started
  <2> QED
    BY <1>33, <2>2, <2>3 DEF RerunFire, Rerun
<1>34. ASSUME RerunPublish PROVE Refire'
  BY <1>34, Onward, OldStarted, Types DEF RerunPublish, KillRun, Rerun, Publish, Refire,
     Replacing, Started, Stopped, Last, RefireTypes, Idle
<1>35. ASSUME RerunAbort PROVE Refire'
  BY <1>35, Onward, OldStarted, Types DEF RerunAbort, Rerun, Refire, Replacing, Started,
     Stopped, Last, RefireTypes, Idle
<1>36. ASSUME RerunWake PROVE Refire'
  BY <1>36, Onward, OldStarted, Types DEF RerunWake, ReleaseSlot, liveVars, Idle, Refire,
     Replacing, Started, Stopped, Last, RefireTypes, Idle
<1>37. ASSUME BeginShutdown PROVE Refire'
  BY <1>37, RefireFrame DEF BeginShutdown, parentVars, stageVars, liveVars, ctxVars, runVars
<1>38. ASSUME ListDaemons PROVE Refire'
  BY <1>38, RefireFrame DEF ListDaemons, parentVars, stageVars, liveVars, ctxVars, runVars
<1>39. ASSUME KillDaemons PROVE Refire'
  BY <1>39, RefireFrame DEF KillDaemons, KillRun, parentVars, stageVars, liveVars, ctxVars
<1>40. CASE UNCHANGED vars
  BY <1>40, RefireFrame DEF vars, parentVars, stageVars, liveVars, ctxVars, runVars, engVars
<1> QED
  BY <1>1, <1>2, <1>3, <1>4, <1>5, <1>6, <1>7, <1>8, <1>9, <1>10, <1>11, <1>12, <1>13,
     <1>14, <1>15, <1>16, <1>17, <1>18, <1>19, <1>20, <1>21, <1>22, <1>23, <1>24, <1>25,
     <1>26, <1>27, <1>28, <1>29, <1>30, <1>31, <1>32, <1>33, <1>34, <1>35, <1>36, <1>37,
     <1>38, <1>39, <1>40
     DEF Next, RunnerStep, StageStep, RerunStep, ShutdownStep

\* While no daemon is fired and none is published, the known one stays.
LEMMA DaemonsFrame ==
  ASSUME TypeOK, DaemonsKnown, [Next]_vars,
         \A r \in Runs : body[r] = "none" /\ body'[r] = "open" =>
           ~(own'[r].by \in {"runner", "rerun"} /\ IsDaemon(own'[r].stage)),
         daemonRun' = daemonRun,
         \A p \in Parents :
           /\ rpc'[p] = "live" <=> rpc[p] = "live"
           /\ rpc[p] = "live" => srun'[p][Last] = srun[p][Last],
         rr'.pc = "publish" <=> rr.pc = "publish",
         rr.pc = "publish" => rr'.p = rr.p /\ rr'.new = rr.new
  PROVE  DaemonsKnown'
<1> SUFFICES ASSUME NEW p \in Parents, NEW r \in Daemons(p)' PROVE r = Known(p)'
  BY DEF DaemonsKnown
<1>1. plan' = plan /\ r \in Runs /\ body'[r] = "open" /\ r \notin cancelled' /\ own'[r].p = p
      /\ own'[r].by \in {"runner", "rerun"} /\ plan.daemon /\ own'[r].stage = plan.size
  BY Onward DEF Daemons, IsDaemon, Last
<1>2. body[r] = "open" /\ own'[r] = own[r] /\ r \notin cancelled
  BY <1>1, Onward, Types DEF RunTypes, IsDaemon, Last
<1>3. r \in Daemons(p)
  BY <1>1, <1>2 DEF Daemons, IsDaemon, Last
<1> QED
  BY <1>1, <1>3 DEF DaemonsKnown, Known, Last

\* A daemon is fired only when the known one was stopped, and is known from then on.
LEMMA DaemonsStep ==
  ASSUME TypeOK, Watched, Refire, DaemonsKnown, [Next]_vars
  PROVE  DaemonsKnown'
<1>1. ASSUME NEW p \in Parents, Fire(p) PROVE DaemonsKnown'
  BY <1>1, DaemonsFrame, Types DEF Fire, liveVars, runVars, FireTypes
<1>2. ASSUME NEW p \in Parents, NEW s \in Stages, SkipStage(p, s) PROVE DaemonsKnown'
  BY <1>2, DaemonsFrame, Types DEF SkipStage, parentVars, liveVars, runVars, FireTypes
<1>3. ASSUME NEW p \in Parents, NEW s \in Stages, DispatchStage(p, s) PROVE DaemonsKnown'
  <2>1. UNCHANGED <<plan, daemonRun, rr, cancelled>> /\ rpc[p] = "stages"
    BY <1>3 DEF DispatchStage, liveVars
  <2>2. CASE /\ FireStage([p |-> p, stage |-> s, by |-> "runner"]) /\ IsDaemon(s)
             /\ srun' = [srun EXCEPT ![p][s] = NewID] /\ rpc' = [rpc EXCEPT ![p] = "live"]
    <3>1. /\ own'[NewID] = [p |-> p, stage |-> s, by |-> "runner"] /\ NewID \in Runs
          /\ \A r \in Runs : r # NewID => own'[r] = own[r] /\ body'[r] = body[r]
      BY <2>2, Opened, Types
    <3>2. \A q \in Parents : q # p => rpc'[q] = rpc[q] /\ srun'[q][Last] = srun[q][Last]
      BY <2>2, Types DEF FireTypes, StageTypes
    <3>3. rpc'[p] = "live" /\ srun'[p][Last] = NewID
      BY <2>2, Types DEF FireTypes, StageTypes, IsDaemon
    <3>4. Daemons(p) = {}
      <4>1. daemonRun[p] = NoRun /\ ~(rr.pc = "publish" /\ rr.p = p)
        BY <2>1 DEF Watched, Watching, Refire
      <4> QED
        BY <2>1, <4>1, PipelineAssumption DEF DaemonsKnown, Known, Daemons
    <3> SUFFICES ASSUME NEW q \in Parents, NEW r \in Daemons(q)' PROVE r = Known(q)'
      BY DEF DaemonsKnown
    <3>5. r # NewID => r \in Daemons(q)
      BY <2>1, <3>1 DEF Daemons, IsDaemon, Last
    <3>6. r = NewID => q = p
      BY <3>1 DEF Daemons
    <3> QED
      BY <2>1, <3>2, <3>3, <3>4, <3>5, <3>6 DEF DaemonsKnown, Known, Last
  <2>3. CASE FireStage([p |-> p, stage |-> s, by |-> "runner"]) /\ ~IsDaemon(s) /\ rpc' = rpc
    <3>1. /\ own'[NewID].stage = s
          /\ \A r \in Runs : r # NewID => own'[r] = own[r] /\ body'[r] = body[r]
      BY <2>3, Opened, Types
    <3>2. \A q \in Parents : rpc[q] = "live" => srun'[q][Last] = srun[q][Last]
      BY <1>3, <2>1, Types DEF DispatchStage, StageTypes
    <3> QED
      BY <2>1, <2>3, <3>1, <3>2, DaemonsFrame
  <2>4. CASE FireFails /\ rpc' = rpc /\ srun' = srun
    BY <2>1, <2>4, DaemonsFrame DEF FireFails
  <2> QED
    BY <1>3, <2>2, <2>3, <2>4, Types DEF DispatchStage, FireTypes
<1>4. ASSUME NEW p \in Parents, NEW s \in Stages, AwaitStage(p, s) PROVE DaemonsKnown'
  BY <1>4, DaemonsFrame, Types DEF AwaitStage, parentVars, liveVars, runVars, FireTypes
<1>5. ASSUME NEW p \in Parents, NEW s \in Stages, AbandonStage(p, s) PROVE DaemonsKnown'
  BY <1>5, DaemonsFrame, Types DEF AbandonStage, parentVars, liveVars, FireTypes
<1>6. ASSUME NEW p \in Parents, NEW s \in Stages, CloseSuspendedStage(p, s) PROVE DaemonsKnown'
  BY <1>6, DaemonsFrame, Types DEF CloseSuspendedStage, parentVars, liveVars, FireTypes
<1>7. ASSUME NEW p \in Parents, StagesOver(p) PROVE DaemonsKnown'
  BY <1>7, DaemonsFrame, Types DEF StagesOver, stageVars, liveVars, runVars, FireTypes
<1>8. ASSUME NEW p \in Parents, GoLive(p) PROVE DaemonsKnown'
  <2>1. UNCHANGED <<plan, own, body, cancelled, rr, srun>> /\ rpc[p] = "live"
    BY <1>8 DEF GoLive, runVars, stageVars
  <2>2. /\ daemonRun'[p] = srun[p][Last] /\ rpc'[p] # "live"
        /\ \A q \in Parents : q # p => daemonRun'[q] = daemonRun[q] /\ rpc'[q] = rpc[q]
    BY <1>8, Types DEF GoLive, DaemonTypes, FireTypes
  <2>3. ~(rr.pc = "publish" /\ rr.p = p)
    BY <2>1 DEF Watched, Watching, Refire
  <2> SUFFICES ASSUME NEW q \in Parents, NEW r \in Daemons(q)' PROVE r = Known(q)'
    BY DEF DaemonsKnown
  <2>4. r \in Daemons(q)
    BY <2>1 DEF Daemons, IsDaemon, Last
  <2> QED
    BY <2>1, <2>2, <2>3, <2>4 DEF DaemonsKnown, Known, Last
<1>9. ASSUME NEW p \in Parents, Loop(p) PROVE DaemonsKnown'
  BY <1>9, DaemonsFrame, Types DEF Loop, stageVars, liveVars, runVars, FireTypes
<1>10. ASSUME NEW p \in Parents, DaemonEnded(p) PROVE DaemonsKnown'
  BY <1>10, DaemonsFrame, Types DEF DaemonEnded, stageVars, liveVars, runVars, FireTypes
<1>11. ASSUME NEW p \in Parents, Decide(p) PROVE DaemonsKnown'
  <2>1. \A q \in Parents : rpc'[q] = "live" <=> rpc[q] = "live"
    BY <1>11, Types DEF Decide, Exited, FireTypes
  <2> QED
    BY <1>11, <2>1, DaemonsFrame DEF Decide, stageVars, liveVars, runVars
<1>12. ASSUME NEW p \in Parents, DecideAgain(p) PROVE DaemonsKnown'
  <2>1. \A q \in Parents : rpc'[q] = "live" <=> rpc[q] = "live"
    BY <1>12, Types DEF DecideAgain, Exited, FireTypes
  <2> QED
    BY <1>12, <2>1, DaemonsFrame DEF DecideAgain, stageVars, liveVars, runVars
<1>13. ASSUME NEW p \in Parents, CloseSuspendedDaemon(p) PROVE DaemonsKnown'
  BY <1>13, DaemonsFrame, Types DEF CloseSuspendedDaemon, stageVars, liveVars, FireTypes
<1>14. ASSUME NEW p \in Parents, MarkFinished(p) PROVE DaemonsKnown'
  BY <1>14, DaemonsFrame, Types DEF MarkFinished, stageVars, runVars, FireTypes
<1>15. ASSUME NEW p \in Parents, FinishRow(p) PROVE DaemonsKnown'
  BY <1>15, DaemonsFrame, Types DEF FinishRow, stageVars, liveVars, runVars, FireTypes
<1>16. ASSUME NEW p \in Parents, ReleaseParent(p) PROVE DaemonsKnown'
  BY <1>16, DaemonsFrame, Types DEF ReleaseParent, stageVars, liveVars, runVars, FireTypes
<1>17. ASSUME NEW p \in Parents, Leave(p) PROVE DaemonsKnown'
  BY <1>17, DaemonsFrame, Types DEF Leave, stageVars, runVars, FireTypes
<1>18. ASSUME NEW p \in Parents, Watch(p) PROVE DaemonsKnown'
  BY <1>18, DaemonsFrame, Types DEF Watch, parentVars, stageVars, FireTypes
<1>19. ASSUME NEW p \in Parents, KillParent(p) PROVE DaemonsKnown'
  BY <1>19, DaemonsFrame, Types DEF KillParent, parentVars, stageVars, liveVars, runVars,
     FireTypes
<1>20. ASSUME NEW p \in Parents, Timeout(p) PROVE DaemonsKnown'
  BY <1>20, DaemonsFrame, Types DEF Timeout, parentVars, stageVars, liveVars, runVars, FireTypes
<1>21. ASSUME NEW r \in Runs, BodyEnds(r) PROVE DaemonsKnown'
  <2>1. \A r0 \in Runs : body[r0] = "none" => body'[r0] # "open"
    BY <1>21, Types DEF BodyEnds, RunTypes
  <2> QED
    BY <1>21, <2>1, DaemonsFrame DEF BodyEnds, liveVars, parentVars, stageVars
<1>22. ASSUME NEW r \in Runs, RunLeaves(r) PROVE DaemonsKnown'
  <2>1. \A r0 \in Runs : body[r0] = "none" => body'[r0] # "open"
    BY <1>22, Types DEF RunLeaves, RunTypes
  <2>2. rr'.pc = "publish" <=> rr.pc = "publish"
    BY <1>22 DEF RunLeaves, Idle
  <2>3. rr.pc = "publish" => rr' = rr
    BY <1>22 DEF RunLeaves
  <2> QED
    BY <1>22, <2>1, <2>2, <2>3, DaemonsFrame DEF RunLeaves, liveVars, parentVars, stageVars
<1>23. ASSUME NEW r \in Runs, OutsideResume(r) PROVE DaemonsKnown'
  <2>1. own'[NewID].by = "resume" /\ \A q \in Runs :
            q # NewID => own'[q] = own[q] /\ body'[q] = body[q]
    BY <1>23, NewRun, Types DEF OutsideResume, RunTypes
  <2> QED
    BY <1>23, <2>1, DaemonsFrame DEF OutsideResume, liveVars, parentVars, stageVars
<1>24. ASSUME NEW s \in Stages, OutsideFire(s) PROVE DaemonsKnown'
  <2>1. own'[NewID].by = "outside" /\ \A r \in Runs :
            r # NewID => own'[r] = own[r] /\ body'[r] = body[r]
    BY <1>24, Opened, Types DEF OutsideFire
  <2> QED
    BY <1>24, <2>1, DaemonsFrame DEF OutsideFire, liveVars, parentVars, stageVars
<1>25. ASSUME RerunCheck PROVE DaemonsKnown'
  <2>1. rr' = Idle \/ rr'.pc \in {"replay", "close"}
    BY <1>25, Types DEF RerunCheck, ReleaseSlot, RefireTypes
  <2>2. rr'.pc # "publish" /\ rr.pc # "publish"
    BY <1>25, <2>1 DEF RerunCheck, Idle
  <2> QED
    BY <1>25, <2>2, DaemonsFrame DEF RerunCheck, parentVars, stageVars, liveVars, runVars
<1>26. ASSUME RerunReplay PROVE DaemonsKnown'
  <2>1. /\ rr'.pc # "publish" /\ daemonRun' = daemonRun /\ rpc' = rpc /\ srun' = srun
        /\ rr.pc = "replay" /\ rr.at < Last
    <3>1. rr' = Idle \/ rr'.pc = "await"
      BY <1>26, Types DEF RerunReplay, ReleaseSlot, RefireTypes
    <3>2. rr'.pc # "publish" /\ rr.pc = "replay" /\ rr.at < Last
      BY <1>26, <3>1 DEF RerunReplay, Idle
    <3> QED
      BY <3>2, <1>26 DEF RerunReplay, liveVars, parentVars, stageVars
  <2>2. CASE FireStage(RerunOf(rr.at))
    <3>1. /\ own'[NewID].stage # Last
          /\ \A r \in Runs : r # NewID => own'[r] = own[r] /\ body'[r] = body[r]
      BY <2>1, <2>2, Opened, Types, Plan DEF RerunOf, RefireTypes, Last
    <3> QED
      BY <2>1, <3>1, DaemonsFrame DEF IsDaemon
  <2>3. CASE UNCHANGED <<own, row, body>>
    BY <2>1, <2>3, DaemonsFrame
  <2> QED
    BY <1>26, <2>2, <2>3 DEF RerunReplay, FireFails
<1>27. ASSUME RerunAwait PROVE DaemonsKnown'
  <2>1. rr' = Idle \/ rr'.pc \in {"replay", "close"}
    BY <1>27, Types DEF RerunAwait, ReleaseSlot, RefireTypes
  <2>2. rr'.pc # "publish" /\ rr.pc # "publish"
    BY <1>27, <2>1 DEF RerunAwait, Idle
  <2> QED
    BY <1>27, <2>2, DaemonsFrame DEF RerunAwait, parentVars, stageVars, liveVars, runVars
<1>28. ASSUME RerunClose PROVE DaemonsKnown'
  BY <1>28, DaemonsFrame, Types DEF RerunClose, ReleaseSlot, parentVars, stageVars, liveVars,
     Idle, RefireTypes
<1>29. ASSUME RerunLast PROVE DaemonsKnown'
  BY <1>29, DaemonsFrame, Types DEF RerunLast, ReleaseSlot, Rerun, parentVars, stageVars,
     liveVars, runVars, Idle, RefireTypes
<1>30. ASSUME RerunEnter PROVE DaemonsKnown'
  BY <1>30, DaemonsFrame, Types DEF RerunEnter, Rerun, parentVars, stageVars, runVars,
     RefireTypes
<1>31. ASSUME RerunKill PROVE DaemonsKnown'
  BY <1>31, DaemonsFrame, Types DEF RerunKill, Rerun, parentVars, stageVars, liveVars,
     RefireTypes
<1>32. ASSUME RerunDrain PROVE DaemonsKnown'
  BY <1>32, DaemonsFrame, Types DEF RerunDrain, Rerun, parentVars, stageVars, liveVars, runVars,
     RefireTypes
<1>33. ASSUME RerunFire PROVE DaemonsKnown'
  <2>1. UNCHANGED <<plan, daemonRun, rpc, srun>> /\ cancelled \subseteq cancelled'
    BY <1>33 DEF RerunFire, liveVars, parentVars, stageVars
  <2>2. /\ rr.p \in Parents /\ rr.pc = "fire" /\ rpc[rr.p] # "live"
        /\ rr.old = daemonRun[rr.p] /\ Stopped(rr.old)
    BY <1>33, OldStarted, Types DEF RerunFire, Replacing, Watched, Watching, Refire
  <2>3. Daemons(rr.p) = {}
    BY <2>2 DEF DaemonsKnown, Known, Daemons, Stopped
  <2>4. CASE FireFails /\ rr' = [rr EXCEPT !.pc = "abort"]
    <3>1. rr'.pc = "abort"
      BY <2>4, Types DEF RefireTypes
    <3> QED
      BY <2>1, <2>2, <2>4, <3>1, DaemonsFrame DEF FireFails
  <2>5. CASE FireStage(RerunOf(Last))
    <3>1. /\ own'[NewID] = RerunOf(Last) /\ NewID \in Runs
          /\ \A r \in Runs : r # NewID => own'[r] = own[r] /\ body'[r] = body[r]
      BY <2>5, Opened, Types
    <3>2. \/ rr'.pc = "publish" /\ rr'.p = rr.p /\ rr'.new = NewID
          \/ rr'.pc # "publish" /\ NewID \in cancelled'
          \/ UNCHANGED <<own, row, body>>
      BY <1>33, Types DEF RerunFire, Rerun, RefireTypes, FireFails
    <3>3. ~UNCHANGED <<own, row, body>>
      BY <2>5, Opened, Types
    <3> SUFFICES ASSUME NEW q \in Parents, NEW r \in Daemons(q)' PROVE r = Known(q)'
      BY DEF DaemonsKnown
    <3>4. r # NewID => r \in Daemons(q)
      BY <2>1, <3>1 DEF Daemons, IsDaemon, Last
    <3>5. r = NewID => q = rr.p /\ NewID \notin cancelled'
      BY <3>1 DEF Daemons, RerunOf
    <3> QED
      BY <2>1, <2>2, <2>3, <3>2, <3>3, <3>4, <3>5 DEF DaemonsKnown, Known, Last
  <2> QED
    BY <1>33, <2>4, <2>5 DEF RerunFire, Rerun
<1>34. ASSUME RerunPublish PROVE DaemonsKnown'
  <2>1. /\ plan' = plan /\ own' = own /\ body' = body /\ rpc' = rpc /\ srun' = srun /\ rr.pc = "publish"
        /\ rr'.pc # "publish"
    BY <1>34, Types DEF RerunPublish, Publish, Rerun, RefireTypes, parentVars, stageVars
  <2>2. rr.p \in Parents /\ rpc[rr.p] # "live" /\ Started(rr.new)
    BY <2>1 DEF Watched, Watching, Refire
  <2>3. \/ daemonRun' = daemonRun /\ KillRun(rr.new)
        \/ daemonRun' = [daemonRun EXCEPT ![rr.p] = rr.new] /\ cancelled' = cancelled
    BY <1>34 DEF RerunPublish, Publish
  <2>4. /\ cancelled \subseteq cancelled'
        /\ \/ daemonRun' = daemonRun /\ (body[rr.new] = "open" => rr.new \in cancelled')
           \/ daemonRun'[rr.p] = rr.new /\ \A q \in Parents :
               q # rr.p => daemonRun'[q] = daemonRun[q]
    BY <2>2, <2>3, PipelineAssumption, Types DEF KillRun, Started, DaemonTypes
  <2> SUFFICES ASSUME NEW q \in Parents, NEW r \in Daemons(q)' PROVE r = Known(q)'
    BY DEF DaemonsKnown
  <2>5. r \in Daemons(q) /\ body[r] = "open" /\ r \notin cancelled'
    BY <2>1, <2>4 DEF Daemons, IsDaemon, Last
  <2> QED
    BY <2>1, <2>2, <2>4, <2>5 DEF DaemonsKnown, Known, Last
<1>35. ASSUME RerunAbort PROVE DaemonsKnown'
  BY <1>35, DaemonsFrame, Types DEF RerunAbort, Rerun, parentVars, stageVars, runVars,
     RefireTypes
<1>36. ASSUME RerunWake PROVE DaemonsKnown'
  BY <1>36, DaemonsFrame, Types DEF RerunWake, ReleaseSlot, stageVars, liveVars, runVars, Idle,
     RefireTypes
<1>37. ASSUME BeginShutdown PROVE DaemonsKnown'
  BY <1>37, DaemonsFrame, Types DEF BeginShutdown, parentVars, stageVars, liveVars, runVars,
     FireTypes
<1>38. ASSUME ListDaemons PROVE DaemonsKnown'
  BY <1>38, DaemonsFrame, Types DEF ListDaemons, parentVars, stageVars, liveVars, runVars,
     FireTypes
<1>39. ASSUME KillDaemons PROVE DaemonsKnown'
  BY <1>39, DaemonsFrame, Types DEF KillDaemons, parentVars, stageVars, liveVars, FireTypes
<1>40. CASE UNCHANGED vars
  BY <1>40, DaemonsFrame DEF vars, parentVars, stageVars, liveVars, ctxVars, runVars,
     engVars
<1> QED
  BY <1>1, <1>2, <1>3, <1>4, <1>5, <1>6, <1>7, <1>8, <1>9, <1>10, <1>11, <1>12, <1>13,
     <1>14, <1>15, <1>16, <1>17, <1>18, <1>19, <1>20, <1>21, <1>22, <1>23, <1>24, <1>25,
     <1>26, <1>27, <1>28, <1>29, <1>30, <1>31, <1>32, <1>33, <1>34, <1>35, <1>36, <1>37,
     <1>38, <1>39, <1>40
     DEF Next, RunnerStep, StageStep, RerunStep, ShutdownStep

-----------------------------------------------------------------------------
(* The invariant, and what it says.                                        *)

LEMMA InitIInv == Init => IInv
<1> SUFFICES ASSUME Init PROVE IInv
  OBVIOUS
<1>1. plan \in Plans /\ Last \in Stages /\ plan.size \in Nat
  BY Plan DEF Init
<1>2. TypeOK
  BY <1>1 DEF Init, TypeOK, StageStates, RunnerPCs, RerunPCs, Idle, Nobody, Last
<1>3. EndsAreRows
  BY DEF Init, EndsAreRows
<1>4. StagesInOrder
  BY DEF Init, StagesInOrder, StageInOrder
<1>5. RunnersRuns
  BY DEF Init, RunnersRuns, Nobody
<1>6. Watched
  BY PipelineAssumption DEF Init, Watched, Watching
<1>7. Refire
  BY DEF Init, Refire, Replacing, Idle
<1>8. DaemonsKnown
  BY DEF Init, DaemonsKnown, Daemons
<1> QED
  BY <1>2, <1>3, <1>4, <1>5, <1>6, <1>7, <1>8 DEF IInv

\* A set with one element at most.
LEMMA OneAtMost ==
  ASSUME NEW S, NEW x, S \subseteq {x}
  PROVE  Cardinality(S) <= 1
<1>1. CASE S = {}
  BY <1>1, FS_EmptySet
<1>2. CASE S = {x}
  BY <1>2, FS_Singleton
<1> QED
  BY <1>1, <1>2

\* The invariant covers the property: the known daemon of a fire that is over was
\* stopped by the watcher, and no stage waits for a run.
LEMMA IInvEnds == IInv => NothingLeftRunning
<1> SUFFICES ASSUME IInv PROVE NothingLeftRunning
  OBVIOUS
<1> USE DEF IInv
<1>1. OneDaemon
  BY OneAtMost DEF OneDaemon, DaemonsKnown
<1>2. ASSUME NEW p \in Parents, rpc[p] = "over", watcher[p] # "armed",
             ~(rr.p = p /\ rr.pc = "publish")
      PROVE  Daemons(p) = {}
  <2>1. Known(p) = daemonRun[p]
    BY <1>2 DEF Known
  <2>2. daemonRun[p] = NoRun \/ Stopped(daemonRun[p])
    BY <1>2, Types DEF Watched, Watching, DaemonTypes
  <2> QED
    BY <2>1, <2>2, PipelineAssumption DEF DaemonsKnown, Daemons, Stopped
<1>3. ASSUME NEW p \in Parents, rpc[p] = "over", Daemons(p) = {},
             NEW r \in Runs, own[r].p = p, own[r].by = "runner", body[r] = "open"
      PROVE  r \in cancelled
  <2>1. /\ own[r].stage \in Stages
        /\ IsDaemon(own[r].stage) \/ st[p][own[r].stage] = "waiting" \/ Stopped(r)
    BY <1>3 DEF RunnersRuns
  <2>2. st[p][own[r].stage] # "waiting"
    BY <1>3, <2>1 DEF StagesInOrder, StageInOrder
  <2> QED
    BY <1>3, <2>1, <2>2 DEF Stopped, Daemons
<1> QED
  BY <1>1, <1>2, <1>3 DEF NothingLeftRunning

\* The steps of a fire, of its re-fires, of its runs and of the engine keep the
\* invariant.
THEOREM PipelineInvariant == Spec => []IInv
<1>1. IInv /\ [Next]_vars => IInv'
  BY TypeStep, EndsStep, StagesStep, RunnersRunsStep, WatchedStep, RefireStep, DaemonsStep DEF IInv
<1> QED
  BY <1>1, InitIInv, PTL DEF Spec

\* A fire has one daemon at a time, whatever re-fires, kills, exits and the shutdown
\* do, and once it is over and its watcher and re-fire have noticed, no daemon and no
\* run that its runner started goes on without being told to stop (runTerminalDaemon,
\* runPipelineStageRerun).
THEOREM NothingIsLeft == Spec => []NothingLeftRunning
BY PipelineInvariant, IInvEnds, PTL
=============================================================================
