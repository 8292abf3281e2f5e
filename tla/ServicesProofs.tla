---------------------------- MODULE ServicesProofs ----------------------------
(***************************************************************************)
(* What the theorems of the parts say of MCServices: its constants and     *)
(* cells are substituted in PartsProofs and TriggersProofs, a behaviour of *)
(* the composition is shown to be one of the part it starts in, and the    *)
(* invariants of its run follow.                                           *)
(***************************************************************************)
EXTENDS MCServices, FiniteSetTheorems, TLAPS

Parts == INSTANCE PartsProofs WITH
       Reqs <- {"q1", "q2"}, MaxTokens <- 2, MaxChanges <- 1, MaxRequests <- 3,
       mode <- v1, stored <- v2, cache <- v3, session <- v4, devices <- v5, jar <- v6, reqs <-
       v7, tokens <- v8, begun <- v9, trust <- v10,
       Runs <- {"r1", "r2"}, Batches <- {"b1", "b2"}, InputFaults <- 1,
       inputRows <- v1, inputs <- v2, inputBody <- v3, inputBatch <- v4, inputReads <- v5,
       swallowed <- v6, inputOrphans <- v7, torn <- v8, inputFaults <- v9,
       Clients <- {"c1", "c2"}, BlobFaults <- 1,
       blobRows <- v1, blobs <- v2, blobBody <- v3, resumes <- v4, cleaner <- v5, granted <- v6,
       blobOrphans <- v7, empty <- v8, blobFaults <- v9,
       Configs <- DockerBlocks, Policy <- {"volume"}, MaxBoxEdits <- 1, MaxBoxFaults <- 2,
       boxPhase <- v1, boxCfg <- v2, boxFile <- v3, boxKnown <- v4, images <- v5, doomed <- v6,
       boxPc <- v7, boxTag <- v8, boxCancelled <- v9, watcher <- v10, box <- v11, boxOrphans <-
       v12, left <- v13, boxEdits <- v14, boxFaults <- v15,
       MaxLogs <- 2,
       procPc <- v1, attempt <- v2, silent <- v3, procKey <- v4, procFiles <- v5, listener <-
       v6, procConn <- v7, proc <- v8, exit <- v9, queue <- v10, posted <- v11, ret <- v12,
       suspend <- v13, acking <- v14, procLogs <- v15, flusher <- v16, stopping <- v17,
       procCancelled <- v18, procOver <- v19, result <- v20,
       Tasks <- {"t1", "t2"}, Paths <- {"p1", "p2"}, Conns <- {"c1"}, Requests <- {"q1"}, Engine
       <- "engine", MaxHookCalls <- 2, MaxRegisters <- 1,
       hooks <- v1, routes <- v2, recorded <- v3, hookCalls <- v4, hookConns <- v5, hookReqs <-
       v6, contested <- v7, hookBegun <- v8, registers <- v9,
       Ids <- {"q1", "q2"}, Shapes <- HookRequests, Versions <- HookVersions,
       InitialVersions <- FirstHookVersions, HookTTL <- 3,
       HookTolerance <- 1, MaxEntries <- 2, HookSlots <- 1, MaxHookNow <- 4, MaxFires <- 3,
       MaxReloads <- 1, MaxRestarts <- 1,
       hookNow <- v1, hookTask <- v2, entries <- v3, order <- v4, sem <- v5, fireReqs <- v6,
       admitted <- v7, forgotten <- v8, fireBegun <- v9, reloads <- v10, restarts <- v11,
       Daemons <- <<"d1", "d2">>, Commands <- {"c1"}, Kinds <- {"task", "detach"}, PeerCred <-
       FALSE, MaxCrashes <- 1,
       sockPath <- v1, sockToken <- v2, webPort <- v3, dm <- v4, dmRows <- v5, commands <- v6,
       carriedOut <- v7, overlapped <- v8, crashes <- v9,
       RunIds <- <<"r1", "r2", "r3">>, Followers <- {"c1"}, Forms <- Wizard, Answers <- {{},
       {"a"}}, MaxFlips <- 1,
       stepRows <- v1, isDaemon <- v2, followers <- v3, stepsSent <- v4, flips <- v5
TP == INSTANCE TriggersProofs WITH
       Tasks <- {"t1", "t2"}, Pipes <- {"p1"}, StageOf <- [p \in {"p1"} |-> "t1"],
       Versions <- TriggerVersions, Relay <- None, Reserved <- "oauth", MaxChanges <- 1, MaxTicks <- 1,
       disk <- v1, todo <- v2, registry <- v3, entries <- v4, armed <- v5, rows <- v6, hooks <- v7,
       deferred <- v8, mu <- v9, call <- v10, boot <- v11, ticks <- v12, missed <- v13,
       caught <- v14, raced <- v15, spent <- v16,
       Servers <- {"m1"}, Values <- {"v1", "v2"}, Conns <- {"k1", "k2"}, CallVersions <- {Caller, Called},
       Initial <- {[t1 |-> Caller, t2 |-> Called]}, Launch <- {{"v1"}}, Any <- "*", RunIds <- <<"r1", "r2">>,
       MaxTriggers <- 1, MaxCallEdits <- 1, MaxConnCalls <- 3,
       registered <- v1, callRows <- v2, callServers <- v3, callConn <- v4, callLogs <- v5, trail <- v6,
       callEdits <- v7, callsMade <- v8,
       Runs <- {"r1", "r2"}, Keys <- {"k1", "k2"}, Providers <- {"p1"}, Specs <- EnvSpecs, Stores <- EnvStores,
       CacheTTL <- 1,
       MaxVersion <- 1, MaxContent <- 2, MaxNow <- 1, MaxPrereqs <- 2, MaxEnvEdits <- 1,
       secretStore <- v1, provider <- v2, secretCache <- v3, flight <- v4, envRun <- v5, prereqs <- v6,
       envEdits <- v7, envNow <- v8,
       Viewers <- {"v1"}, Links <- {"k1"}, Files <- {"yaml", "main"}, FileSets <- ReviewedFiles,
       SpecOf <- ReviewedSpecs, Overs <- {1, 2}, Literals <- {"lit1", "lit2"},
       MaxPushes <- 2, MaxAdmits <- 2, MaxViews <- 1,
       trees <- v1, over <- v2, rec <- v3, inRegistry <- v4, held <- v5, reviewLock <- v6, statuses <- v7,
       links <- v8, view <- v9, grants <- v10, reviewed <- v11, pushes <- v12, asked <- v13,
       AutCalls <- {"c1", "c2"}, Names <- {"n1", "n2"}, MaxSessions <- 2, MaxAutCalls <- 3,
       taskDir <- v1, listed <- v2, authorRows <- v3, authorLocks <- v4, autCalls <- v5, autBegun <- v6,
       twice <- v7, mixed <- v8

-----------------------------------------------------------------------------
\* The parts are the modules the theorems are about: both unfold to the same.

LEMMA LoginsArePart ==
  /\ W!Init => Parts!W!Init
  /\ W!Next => Parts!W!Next
  /\ Parts!W!TypeOK /\ Parts!W!NothingOutlivesAChange /\ Parts!W!TrustedOnce /\ Parts!W!DriftIsVisible
     => W!TypeOK /\ W!NothingOutlivesAChange /\ W!TrustedOnce /\ W!DriftIsVisible
  BY DEF W!vars, W!Values, W!Places, W!Row, W!NoReq, W!NoTrust, W!Init, W!To, W!Handler,
    W!Begin, W!Verified, W!Login, W!Migrate, W!Rehash, W!Warm, W!Late, W!Enter, W!Drifts,
    W!Anchor, W!Renew, W!Age, W!PurgeDevice, W!PurgeSession, W!LoggedOut, W!Destroy, W!Store,
    W!Cache, W!DropSessions, W!DropDevices, W!Respond, W!Next, W!Spec, W!TypeOK, W!Changing,
    W!NothingOutlivesAChange, W!TrustedOnce, W!DriftIsVisible, W!CacheIsTheStore, W!Cardinality,
    Parts!W!vars, Parts!W!Values, Parts!W!Places, Parts!W!Row, Parts!W!NoReq, Parts!W!NoTrust,
    Parts!W!Init, Parts!W!To, Parts!W!Handler, Parts!W!Begin, Parts!W!Verified, Parts!W!Login,
    Parts!W!Migrate, Parts!W!Rehash, Parts!W!Warm, Parts!W!Late, Parts!W!Enter, Parts!W!Drifts,
    Parts!W!Anchor, Parts!W!Renew, Parts!W!Age, Parts!W!PurgeDevice, Parts!W!PurgeSession,
    Parts!W!LoggedOut, Parts!W!Destroy, Parts!W!Store, Parts!W!Cache, Parts!W!DropSessions,
    Parts!W!DropDevices, Parts!W!Respond, Parts!W!Next, Parts!W!Spec, Parts!W!TypeOK,
    Parts!W!Changing, Parts!W!NothingOutlivesAChange, Parts!W!TrustedOnce,
    Parts!W!DriftIsVisible, Parts!W!CacheIsTheStore, Parts!W!Cardinality

LEMMA InputsArePart ==
  /\ I!Init => Parts!I!Init
  /\ I!Next => Parts!I!Next
  /\ Parts!I!TypeOK /\ Parts!I!InputsAreFound /\ Parts!I!KeysAreBacked
     => I!TypeOK /\ I!InputsAreFound /\ I!KeysAreBacked
  BY DEF I!vars, I!NoRow, I!Idle, I!Init, I!Fault, I!Body, I!Keyed, I!Fire, I!Persist, I!SetKey,
    I!Ends, I!Read, I!Replay, I!Pin, I!List, I!Keys, I!DeleteOne, I!Deleted, I!ClearChunk,
    I!Restart, I!Next, I!Spec, I!InputsAreFound, I!KeysAreBacked, I!NoInputLeaks, I!TypeOK,
    Parts!I!vars, Parts!I!NoRow, Parts!I!Idle, Parts!I!Init, Parts!I!Fault, Parts!I!Body,
    Parts!I!Keyed, Parts!I!Fire, Parts!I!Persist, Parts!I!SetKey, Parts!I!Ends, Parts!I!Read,
    Parts!I!Replay, Parts!I!Pin, Parts!I!List, Parts!I!Keys, Parts!I!DeleteOne, Parts!I!Deleted,
    Parts!I!ClearChunk, Parts!I!Restart, Parts!I!Next, Parts!I!Spec, Parts!I!InputsAreFound,
    Parts!I!KeysAreBacked, Parts!I!NoInputLeaks, Parts!I!TypeOK

LEMMA BlobsArePart ==
  /\ B!Init => Parts!B!Init
  /\ B!Next => Parts!B!Next
  /\ Parts!B!TypeOK /\ Parts!B!SuspendedKeepsItsState /\ Parts!B!BlobsAreFound /\ Parts!B!ContinuesAsItself
     => B!TypeOK /\ B!SuspendedKeepsItsState /\ B!BlobsAreFound /\ B!ContinuesAsItself
  BY DEF B!vars, B!Statuses, B!NoRow, B!NoCall, B!Idle, B!Secret, B!Mask, B!Init, B!Fault,
    B!Insert, B!Fire, B!Ends, B!Carried, B!SuspendInline, B!Offload, B!SuspendRow, B!Unstore,
    B!SuspendFails, B!To, B!Find, B!Fetch, B!Mark, B!Spawn, B!Free, B!ClearAfterResume,
    B!Expire, B!CancelSuspended, B!List, B!Pick, B!DeleteBlob, B!ClearColumns, B!Revoke,
    B!Restart, B!Next, B!Spec, B!SuspendedKeepsItsState, B!BlobsAreFound, B!ContinuesAsItself,
    B!TypeOK, Parts!B!vars, Parts!B!Statuses, Parts!B!NoRow, Parts!B!NoCall, Parts!B!Idle,
    Parts!B!Secret, Parts!B!Mask, Parts!B!Init, Parts!B!Fault, Parts!B!Insert, Parts!B!Fire,
    Parts!B!Ends, Parts!B!Carried, Parts!B!SuspendInline, Parts!B!Offload, Parts!B!SuspendRow,
    Parts!B!Unstore, Parts!B!SuspendFails, Parts!B!To, Parts!B!Find, Parts!B!Fetch,
    Parts!B!Mark, Parts!B!Spawn, Parts!B!Free, Parts!B!ClearAfterResume, Parts!B!Expire,
    Parts!B!CancelSuspended, Parts!B!List, Parts!B!Pick, Parts!B!DeleteBlob,
    Parts!B!ClearColumns, Parts!B!Revoke, Parts!B!Restart, Parts!B!Next, Parts!B!Spec,
    Parts!B!SuspendedKeepsItsState, Parts!B!BlobsAreFound, Parts!B!ContinuesAsItself,
    Parts!B!TypeOK

LEMMA ContainersArePart ==
  /\ K!Init => Parts!K!Init
  /\ K!Next => Parts!K!Next
  /\ Parts!K!TypeOK /\ Parts!K!EachHasAnOwner /\ Parts!K!OneContainer /\ Parts!K!AllowedOnly
     => K!TypeOK /\ K!EachHasAnOwner /\ K!OneContainer /\ K!AllowedOnly
  BY DEF K!vars, K!taskVars, K!imageVars, K!runVars, K!Network, K!BuildTag, K!Expected, K!Init,
    K!Fails, K!Fine, K!To, K!At, K!Live, K!Docker, K!Begin, K!Cancel, K!Refused, K!Check,
    K!Inspect, K!Build, K!ImageThere, K!ContainerExits, K!Create, K!Start, K!Attach, K!Wait,
    K!Drain, K!Remove, K!Spawn, K!Made, K!ClientRuns, K!ClientReturns, K!ClientKilled, K!Watch,
    K!CollectList, K!CollectOne, K!Edit, K!Crash, K!BootList, K!BootRemove, K!BootDone, K!Next,
    K!Spec, K!TypeOK, K!EachHasAnOwner, K!OneContainer, K!AllowedOnly, Parts!K!vars,
    Parts!K!taskVars, Parts!K!imageVars, Parts!K!runVars, Parts!K!Network, Parts!K!BuildTag,
    Parts!K!Expected, Parts!K!Init, Parts!K!Fails, Parts!K!Fine, Parts!K!To, Parts!K!At,
    Parts!K!Live, Parts!K!Docker, Parts!K!Begin, Parts!K!Cancel, Parts!K!Refused, Parts!K!Check,
    Parts!K!Inspect, Parts!K!Build, Parts!K!ImageThere, Parts!K!ContainerExits, Parts!K!Create,
    Parts!K!Start, Parts!K!Attach, Parts!K!Wait, Parts!K!Drain, Parts!K!Remove, Parts!K!Spawn,
    Parts!K!Made, Parts!K!ClientRuns, Parts!K!ClientReturns, Parts!K!ClientKilled,
    Parts!K!Watch, Parts!K!CollectList, Parts!K!CollectOne, Parts!K!Edit, Parts!K!Crash,
    Parts!K!BootList, Parts!K!BootRemove, Parts!K!BootDone, Parts!K!Next, Parts!K!Spec,
    Parts!K!TypeOK, Parts!K!EachHasAnOwner, Parts!K!OneContainer, Parts!K!AllowedOnly

LEMMA ProcessIsPart ==
  /\ P!Init => Parts!P!Init
  /\ P!Next => Parts!P!Next
  /\ Parts!P!TypeOK /\ Parts!P!OutcomeIsTheTasks /\ Parts!P!NothingIsLeft /\ Parts!P!LogsAreKept
     => P!TypeOK /\ P!OutcomeIsTheTasks /\ P!NothingIsLeft /\ P!LogsAreKept
  BY DEF P!vars, P!procVars, P!srvVars, P!Init, P!Fail, P!Prepared, P!Mint, P!Serve, P!Temp,
    P!Start, P!Run, P!Returned, P!Exited, P!Grace, P!Pipes, P!Relock, P!Classify, P!Unlisten,
    P!WaitConns, P!StopFlusher, P!Flushed, P!Revoke, P!Served, P!Accept, P!Count, P!Handle,
    P!Reply, P!Hangup, P!Tick, P!LastFlush, P!Process, P!Connect, P!Log, P!Post, P!Die, P!Kill,
    P!Next, P!Spec, P!TypeOK, P!OutcomeIsTheTasks, P!NothingIsLeft, P!LogsAreKeptAlways,
    P!LogsAreKept, Parts!P!vars, Parts!P!procVars, Parts!P!srvVars, Parts!P!Init, Parts!P!Fail,
    Parts!P!Prepared, Parts!P!Mint, Parts!P!Serve, Parts!P!Temp, Parts!P!Start, Parts!P!Run,
    Parts!P!Returned, Parts!P!Exited, Parts!P!Grace, Parts!P!Pipes, Parts!P!Relock,
    Parts!P!Classify, Parts!P!Unlisten, Parts!P!WaitConns, Parts!P!StopFlusher, Parts!P!Flushed,
    Parts!P!Revoke, Parts!P!Served, Parts!P!Accept, Parts!P!Count, Parts!P!Handle,
    Parts!P!Reply, Parts!P!Hangup, Parts!P!Tick, Parts!P!LastFlush, Parts!P!Process,
    Parts!P!Connect, Parts!P!Log, Parts!P!Post, Parts!P!Die, Parts!P!Kill, Parts!P!Next,
    Parts!P!Spec, Parts!P!TypeOK, Parts!P!OutcomeIsTheTasks, Parts!P!NothingIsLeft,
    Parts!P!LogsAreKeptAlways, Parts!P!LogsAreKept

LEMMA RoutesArePart ==
  /\ H!Init => Parts!H!Init
  /\ H!Next => Parts!H!Next
  /\ Parts!H!TypeOK /\ Parts!H!ClaimIsRouted /\ Parts!H!NoDeadRoute /\ Parts!H!LoopsGoOn
     => H!TypeOK /\ H!ClaimIsRouted /\ H!NoDeadRoute /\ H!LoopsGoOn
  BY DEF H!vars, H!routeVars, H!connVars, H!NoCall, H!Up, H!Fresh, H!Init, H!Claimants,
    H!Contest, H!Begin, H!BeginArm, H!BeginDisarm, H!EngineRegister, H!RouteHook, H!RecordHook,
    H!Land, H!ForgetRecord, H!DropRoute, H!EngineUnregister, H!Goes, H!HttpRegister, H!LeaveOld,
    H!Pending, H!LoadAnswer, H!SendAnswer, H!Break, H!HandlerReturns, H!Answered, H!Only,
    H!Dispatch, H!Push, H!TakeAnswer, H!GiveUp, H!ForgetRequest, H!Next, H!Spec, H!TypeOK,
    H!ClaimIsRouted, H!NoDeadRoute, H!LoopsGoOn, H!Cardinality, Parts!H!vars, Parts!H!routeVars,
    Parts!H!connVars, Parts!H!NoCall, Parts!H!Up, Parts!H!Fresh, Parts!H!Init,
    Parts!H!Claimants, Parts!H!Contest, Parts!H!Begin, Parts!H!BeginArm, Parts!H!BeginDisarm,
    Parts!H!EngineRegister, Parts!H!RouteHook, Parts!H!RecordHook, Parts!H!Land,
    Parts!H!ForgetRecord, Parts!H!DropRoute, Parts!H!EngineUnregister, Parts!H!Goes,
    Parts!H!HttpRegister, Parts!H!LeaveOld, Parts!H!Pending, Parts!H!LoadAnswer,
    Parts!H!SendAnswer, Parts!H!Break, Parts!H!HandlerReturns, Parts!H!Answered, Parts!H!Only,
    Parts!H!Dispatch, Parts!H!Push, Parts!H!TakeAnswer, Parts!H!GiveUp, Parts!H!ForgetRequest,
    Parts!H!Next, Parts!H!Spec, Parts!H!TypeOK, Parts!H!ClaimIsRouted, Parts!H!NoDeadRoute,
    Parts!H!LoopsGoOn, Parts!H!Cardinality

LEMMA FiresArePart ==
  /\ F!Init => Parts!F!Init
  /\ F!Next => Parts!F!Next
  /\ Parts!F!TypeOK /\ Parts!F!OncePerWindow /\ Parts!F!FiredByRight /\ Parts!F!SlotsReturn
     => F!TypeOK /\ F!OncePerWindow /\ F!FiredByRight /\ F!SlotsReturn
  BY ZenonT(90) DEF F!vars, F!cacheVars, F!worldVars, F!Digests, F!Idle, F!Init, F!To,
    F!Answered, F!At, F!Digest, F!CanHMAC, F!AuthOutcome, F!Guard, F!Handle, F!Genuine,
    F!Verify, F!Expired, F!Held, F!Front, F!Without, F!DropExpired, F!HasRoom, F!MakeRoom,
    F!Seen, F!FireAsync, F!TakeSlot, F!FireSync, F!RunEnds, F!Tick, F!Reload, F!Restart, F!Next,
    F!Spec, F!TypeOK, F!Renewed, F!OncePerWindow, F!FiredByRight, F!SlotsReturn, F!Cardinality,
    F!Min, Parts!F!vars, Parts!F!cacheVars, Parts!F!worldVars, Parts!F!Digests, Parts!F!Idle,
    Parts!F!Init, Parts!F!To, Parts!F!Answered, Parts!F!At, Parts!F!Digest, Parts!F!CanHMAC,
    Parts!F!AuthOutcome, Parts!F!Guard, Parts!F!Handle, Parts!F!Genuine, Parts!F!Verify,
    Parts!F!Expired, Parts!F!Held, Parts!F!Front, Parts!F!Without, Parts!F!DropExpired,
    Parts!F!HasRoom, Parts!F!MakeRoom, Parts!F!Seen, Parts!F!FireAsync, Parts!F!TakeSlot,
    Parts!F!FireSync, Parts!F!RunEnds, Parts!F!Tick, Parts!F!Reload, Parts!F!Restart,
    Parts!F!Next, Parts!F!Spec, Parts!F!TypeOK, Parts!F!Renewed, Parts!F!OncePerWindow,
    Parts!F!FiredByRight, Parts!F!SlotsReturn, Parts!F!Cardinality, Parts!F!Min

LEMMA CallsArePart ==
  /\ L!Init => TP!L!Init
  /\ L!Next => TP!L!Next
  /\ TP!L!TypeOK /\ TP!L!FiresAreAudited /\ TP!L!NoSecretLogged /\ TP!L!WaitsForItsOwn
     => L!TypeOK /\ L!FiresAreAudited /\ L!NoSecretLogged /\ L!WaitsForItsOwn
  BY DEF L!vars, L!Runs, L!Loops, L!NoRow, L!NoGrant, L!NoServer, L!Idle, L!CapsOf,
    L!taskAllowed, L!mcpAllowed, L!Start, L!Fired, L!Init, L!Call, L!Holds, L!Audit, L!McpCall,
    L!OutputSecret, L!WithExtra, L!StoreRedactor, L!Log, L!Allowed, L!RunTask, L!FireFromTask,
    L!AuditFired, L!WaitRun, L!MayRead, L!Replay, L!Trigger, L!End, L!Edit, L!Next, L!Spec,
    L!TypeOK, L!FiresAreAudited, L!NoSecretLogged, L!WaitsForItsOwn, L!Cardinality, TP!L!vars,
    TP!L!Runs, TP!L!Loops, TP!L!NoRow, TP!L!NoGrant, TP!L!NoServer, TP!L!Idle, TP!L!CapsOf,
    TP!L!taskAllowed, TP!L!mcpAllowed, TP!L!Start, TP!L!Fired, TP!L!Init, TP!L!Call, TP!L!Holds,
    TP!L!Audit, TP!L!McpCall, TP!L!OutputSecret, TP!L!WithExtra, TP!L!StoreRedactor, TP!L!Log,
    TP!L!Allowed, TP!L!RunTask, TP!L!FireFromTask, TP!L!AuditFired, TP!L!WaitRun, TP!L!MayRead,
    TP!L!Replay, TP!L!Trigger, TP!L!End, TP!L!Edit, TP!L!Next, TP!L!Spec, TP!L!TypeOK,
    TP!L!FiresAreAudited, TP!L!NoSecretLogged, TP!L!WaitsForItsOwn, TP!L!Cardinality

LEMMA ControlIsPart ==
  /\ N!Init => Parts!N!Init
  /\ N!Next => Parts!N!Next
  /\ Parts!N!TypeOK /\ Parts!N!TasksAreThere /\ Parts!N!ServingIsReached /\ Parts!N!RowsAreOfTheLiving /\ Parts!N!OneStays
     => N!TypeOK /\ N!TasksAreThere /\ N!ServingIsReached /\ N!RowsAreOfTheLiving /\ N!OneStays
  BY DEF N!Procs, N!vars, N!NoDaemon, N!Alive, N!Listens, N!Reachable, N!Next1, N!MoreDaemons,
    N!Init, N!Launch, N!Foreground, N!Gone, N!Settled, N!SetupRegistry, N!Boot, N!BootFails,
    N!Cancel, N!StartWeb, N!RemoveStale, N!Bind, N!FirstSync, N!FireRun, N!FinishRun, N!Stop,
    N!Close, N!RemoveFiles, N!Exit, N!Crash, N!At, N!Same, N!Found, N!Probe, N!Spawn,
    N!WaitDaemonUp, N!StartTimeout, N!ReadToken, N!Connect, N!Handshake, N!WaitReady,
    N!NotReady, N!Dispatch, N!Lost, N!Next, N!Spec, N!TypeOK, N!TasksAreThere, N!Serves,
    N!ServingIsReached, N!RowsAreOfTheLiving, N!OneStays, N!Cardinality, Parts!N!Procs,
    Parts!N!vars, Parts!N!NoDaemon, Parts!N!Alive, Parts!N!Listens, Parts!N!Reachable,
    Parts!N!Next1, Parts!N!MoreDaemons, Parts!N!Init, Parts!N!Launch, Parts!N!Foreground,
    Parts!N!Gone, Parts!N!Settled, Parts!N!SetupRegistry, Parts!N!Boot, Parts!N!BootFails,
    Parts!N!Cancel, Parts!N!StartWeb, Parts!N!RemoveStale, Parts!N!Bind, Parts!N!FirstSync,
    Parts!N!FireRun, Parts!N!FinishRun, Parts!N!Stop, Parts!N!Close, Parts!N!RemoveFiles,
    Parts!N!Exit, Parts!N!Crash, Parts!N!At, Parts!N!Same, Parts!N!Found, Parts!N!Probe,
    Parts!N!Spawn, Parts!N!WaitDaemonUp, Parts!N!StartTimeout, Parts!N!ReadToken,
    Parts!N!Connect, Parts!N!Handshake, Parts!N!WaitReady, Parts!N!NotReady, Parts!N!Dispatch,
    Parts!N!Lost, Parts!N!Next, Parts!N!Spec, Parts!N!TypeOK, Parts!N!TasksAreThere,
    Parts!N!Serves, Parts!N!ServingIsReached, Parts!N!RowsAreOfTheLiving, Parts!N!OneStays,
    Parts!N!Cardinality

LEMMA FollowIsPart ==
  /\ M!Init => Parts!M!Init
  /\ M!Next => Parts!M!Next
  /\ Parts!M!TypeOK /\ Parts!M!ResumedOnce /\ Parts!M!ConsentIsGiven /\ Parts!M!FollowsItsOwn
     => M!TypeOK /\ M!ResumedOnce /\ M!ConsentIsGiven /\ M!FollowsItsOwn
<1>1. M!Init => Parts!M!Init
  BY DEF M!Init, M!Command, M!NoRun, M!NoForm, M!Runs, Parts!M!Init, Parts!M!Command,
    Parts!M!NoRun, Parts!M!NoForm, Parts!M!Runs
<1>2. M!Next => Parts!M!Next
  BY DEF M!Runs, M!NoForm, M!Valid, M!missingRequired, M!vars, M!NoRun, M!Command,
    M!nonInteractive, M!Step, M!End, M!Fresh, M!Started, M!ResumeRun, M!Accepts,
    M!handleResume, M!Body, M!Cancelled, M!OtherResume, M!Reload, M!Run, M!Engages, M!Settled,
    M!Resume, M!OneShot, M!ResumeGet, M!Take, M!Submit, M!Collect, M!SubmitInput,
    M!SubmitRefused, M!HandleRunWait, M!Waited, M!Killed, M!Interrupt, M!Next, M!Cardinality,
    Parts!M!Runs, Parts!M!NoForm, Parts!M!Valid, Parts!M!missingRequired, Parts!M!vars,
    Parts!M!NoRun, Parts!M!Command, Parts!M!nonInteractive, Parts!M!Step, Parts!M!End,
    Parts!M!Fresh, Parts!M!Started, Parts!M!ResumeRun, Parts!M!Accepts, Parts!M!handleResume,
    Parts!M!Body, Parts!M!Cancelled, Parts!M!OtherResume, Parts!M!Reload, Parts!M!Run,
    Parts!M!Engages, Parts!M!Settled, Parts!M!Resume, Parts!M!OneShot, Parts!M!ResumeGet,
    Parts!M!Take, Parts!M!Submit, Parts!M!Collect, Parts!M!SubmitInput, Parts!M!SubmitRefused,
    Parts!M!HandleRunWait, Parts!M!Waited, Parts!M!Killed, Parts!M!Interrupt, Parts!M!Next,
    Parts!M!Cardinality
<1>3. Parts!M!TypeOK /\ Parts!M!ResumedOnce /\ Parts!M!ConsentIsGiven /\ Parts!M!FollowsItsOwn
      => M!TypeOK /\ M!ResumedOnce /\ M!ConsentIsGiven /\ M!FollowsItsOwn
  BY DEF M!TypeOK, M!Continuations, M!ResumedOnce, M!ConsentIsGiven, M!FollowsItsOwn, M!Runs,
    M!Valid, M!nonInteractive, M!Cardinality, Parts!M!TypeOK, Parts!M!Continuations,
    Parts!M!ResumedOnce, Parts!M!ConsentIsGiven, Parts!M!FollowsItsOwn, Parts!M!Runs,
    Parts!M!Valid, Parts!M!nonInteractive, Parts!M!Cardinality
<1> QED
  BY <1>1, <1>2, <1>3

LEMMA EnvIsPart ==
  /\ E!Init => TP!E!Init
  /\ E!Next => TP!E!Next
  /\ TP!E!TypeOK /\ TP!E!StartsWhole /\ TP!E!ValuesAreCurrent /\ TP!E!ProvidersFireOnce /\ TP!E!WaitsEnd
     => E!TypeOK /\ E!StartsWhole /\ E!ValuesAreCurrent /\ E!ProvidersFireOnce /\ E!WaitsEnd
  BY DEF E!vars, E!Slots, E!NoValue, E!NoFlight, E!NoAsk, E!Idle, E!Entries, E!EntriesOf,
    E!Named, E!Provided, E!Init, E!To, E!Fail, E!Begin, E!Found, E!Plain, E!Untyped,
    E!ResolveSecrets, E!Hit, E!Stale, E!Busted, E!Blank, E!Taken, E!Left, E!Degrade,
    E!ResolveProvider, E!ProviderStarts, E!ProviderEnds, E!Resolved, E!Guarded, E!Present,
    E!Skip, E!Join, E!JoinFails, E!PrereqStores, E!PrereqEnds, E!Recheck, E!Execute,
    E!DeleteSecret, E!EditProvider, E!Tick, E!Next, E!Spec, E!TypeOK, E!Required, E!Whole,
    E!StartsWhole, E!RequiredOrFailed, E!ValuesAreCurrent, E!ProvidersFireOnce, E!WaitsEnd,
    E!Cardinality, TP!E!vars, TP!E!Slots, TP!E!NoValue, TP!E!NoFlight, TP!E!NoAsk, TP!E!Idle,
    TP!E!Entries, TP!E!EntriesOf, TP!E!Named, TP!E!Provided, TP!E!Init, TP!E!To, TP!E!Fail,
    TP!E!Begin, TP!E!Found, TP!E!Plain, TP!E!Untyped, TP!E!ResolveSecrets, TP!E!Hit, TP!E!Stale,
    TP!E!Busted, TP!E!Blank, TP!E!Taken, TP!E!Left, TP!E!Degrade, TP!E!ResolveProvider,
    TP!E!ProviderStarts, TP!E!ProviderEnds, TP!E!Resolved, TP!E!Guarded, TP!E!Present,
    TP!E!Skip, TP!E!Join, TP!E!JoinFails, TP!E!PrereqStores, TP!E!PrereqEnds, TP!E!Recheck,
    TP!E!Execute, TP!E!DeleteSecret, TP!E!EditProvider, TP!E!Tick, TP!E!Next, TP!E!Spec,
    TP!E!TypeOK, TP!E!Required, TP!E!Whole, TP!E!StartsWhole, TP!E!RequiredOrFailed,
    TP!E!ValuesAreCurrent, TP!E!ProvidersFireOnce, TP!E!WaitsEnd, TP!E!Cardinality

LEMMA ReviewIsPart ==
  /\ G!Init => TP!G!Init
  /\ G!Next => TP!G!Next
  /\ TP!G!TypeOK /\ TP!G!ArmedAsShown /\ TP!G!MarksAreTrue /\ TP!G!NoLiteralShown /\ TP!G!LinkIsExact
     => G!TypeOK /\ G!ArmedAsShown /\ G!MarksAreTrue /\ G!NoLiteralShown /\ G!LinkIsExact
  BY DEF G!Disk, G!vars, G!Idle, G!Rest, G!EnvDecl, G!ParamDecl, G!TriggerDecl, G!Rendered,
    G!Redacted, G!Resolved, G!ContentHash, G!Init, G!Push, G!Override, G!Load, G!Hash, G!Decide,
    G!CommitOf, G!Entry, G!Pend, G!See, G!Mint, G!Open, G!Live, G!OpenLink, G!Read, G!List,
    G!Moved, G!Mark, G!Click, G!Redeem, G!Matches, G!Check, G!Record, G!Arm, G!Clear, G!Next,
    G!Spec, G!TypeOK, G!Reach, G!ArmedAsShown, G!Screens, G!MarksAreTrue, G!Atoms,
    G!NoLiteralShown, G!LinkIsExact, TP!G!Disk, TP!G!vars, TP!G!Idle, TP!G!Rest, TP!G!EnvDecl,
    TP!G!ParamDecl, TP!G!TriggerDecl, TP!G!Rendered, TP!G!Redacted, TP!G!Resolved,
    TP!G!ContentHash, TP!G!Init, TP!G!Push, TP!G!Override, TP!G!Load, TP!G!Hash, TP!G!Decide,
    TP!G!CommitOf, TP!G!Entry, TP!G!Pend, TP!G!See, TP!G!Mint, TP!G!Open, TP!G!Live,
    TP!G!OpenLink, TP!G!Read, TP!G!List, TP!G!Moved, TP!G!Mark, TP!G!Click, TP!G!Redeem,
    TP!G!Matches, TP!G!Check, TP!G!Record, TP!G!Arm, TP!G!Clear, TP!G!Next, TP!G!Spec,
    TP!G!TypeOK, TP!G!Reach, TP!G!ArmedAsShown, TP!G!Screens, TP!G!MarksAreTrue, TP!G!Atoms,
    TP!G!NoLiteralShown, TP!G!LinkIsExact

LEMMA AuthoringIsPart ==
  /\ A!Init => TP!A!Init
  /\ A!Next => TP!A!Next
  /\ TP!A!TypeOK /\ TP!A!ListedIsThere /\ TP!A!TurnsGoOn
     => A!TypeOK /\ A!ListedIsThere /\ A!TurnsGoOn
  BY DEF A!vars, A!Ids, A!SourceKey, A!NoCall, A!Init, A!At, A!To, A!Begin, A!Return, A!Files,
    A!Mkdir, A!WriteFiles, A!AddEntry, A!Cleanup, A!Answer, A!Delete, A!Unlist, A!Rmdir, A!Open,
    A!Exists, A!Edit, A!Lock, A!Resume, A!Look, A!Insert, A!Winner, A!Refuse, A!Fire, A!Settle,
    A!Persist, A!Close, A!Closed, A!PurgeExpired, A!Next, A!Spec, A!TypeOK, A!Working,
    A!ListedIsThere, A!TurnsGoOnAlways, A!TurnsGoOn, A!Cardinality, TP!A!vars, TP!A!Ids,
    TP!A!SourceKey, TP!A!NoCall, TP!A!Init, TP!A!At, TP!A!To, TP!A!Begin, TP!A!Return,
    TP!A!Files, TP!A!Mkdir, TP!A!WriteFiles, TP!A!AddEntry, TP!A!Cleanup, TP!A!Answer,
    TP!A!Delete, TP!A!Unlist, TP!A!Rmdir, TP!A!Open, TP!A!Exists, TP!A!Edit, TP!A!Lock,
    TP!A!Resume, TP!A!Look, TP!A!Insert, TP!A!Winner, TP!A!Refuse, TP!A!Fire, TP!A!Settle,
    TP!A!Persist, TP!A!Close, TP!A!Closed, TP!A!PurgeExpired, TP!A!Next, TP!A!Spec, TP!A!TypeOK,
    TP!A!Working, TP!A!ListedIsThere, TP!A!TurnsGoOnAlways, TP!A!TurnsGoOn, TP!A!Cardinality

LEMMA SmallSets ==
  /\ \A x : IsFiniteSet({x})
  /\ \A x, y : IsFiniteSet({x, y})
  /\ \A a, b, c, d, e : IsFiniteSet({a, b, c, d, e})
  /\ \A set : IsFiniteSet(set) => Parts!IsFiniteSet(set)
<1>1. \A x : IsFiniteSet({x})
  BY FS_Singleton
<1>2. ASSUME NEW set, NEW other, IsFiniteSet(set), IsFiniteSet(other) PROVE IsFiniteSet(set \cup other)
  BY <1>2, FS_Union, Zenon
<1>3. ASSUME NEW x, NEW y PROVE IsFiniteSet({x, y})
  <2>1. {x, y} = {x} \cup {y}
    OBVIOUS
  <2>2. IsFiniteSet({x} \cup {y})
    BY <1>1, <1>2
  <2> QED
    BY <2>1, <2>2, Zenon
<1>4. ASSUME NEW a, NEW b, NEW c, NEW d, NEW e PROVE IsFiniteSet({a, b, c, d, e})
  <2>1. {a, b, c, d, e} = ({a, b} \cup {c, d}) \cup {e}
    OBVIOUS
  <2>2. IsFiniteSet(({a, b} \cup {c, d}) \cup {e})
    BY <1>1, <1>2, <1>3, Zenon
  <2> QED
    BY <2>1, <2>2, Zenon
<1>5. ASSUME NEW set, IsFiniteSet(set) PROVE Parts!IsFiniteSet(set)
  BY <1>5 DEF IsFiniteSet, Parts!IsFiniteSet
<1> QED
  BY <1>1, <1>3, <1>4, <1>5

LEMMA BoxesFit == Parts!BoxConstants
  BY NoneIsNew DEF Parts!BoxConstants

LEMMA HooksFit == Parts!HookConstants
<1>1. Parts!IsFiniteSet({"t1", "t2"}) /\ Parts!IsFiniteSet({"c1"})
  BY SmallSets, Zenon
<1> QED
  BY <1>1, NoneIsNew DEF Parts!HookConstants

LEMMA FiresFit == Parts!FireConstants
<1>1. Parts!IsFiniteSet({"q1", "q2"}) /\ Parts!IsFiniteSet(HookRequests)
  BY SmallSets, Zenon DEF HookRequests
<1>2. HookRequests \subseteq [ts : Int \cup {None}, body : {s.body : s \in HookRequests}, signed : BOOLEAN,
                             get : BOOLEAN, asset : BOOLEAN, session : BOOLEAN, relayed : BOOLEAN, wait : BOOLEAN]
  BY NoneIsNew DEF HookRequests, HookRequest
<1>3. HookVersions \subseteq [mode : {"off", "any", "session"}, secret : BOOLEAN, needTs : BOOLEAN,
                             protect : BOOLEAN, pipe : BOOLEAN]
  BY DEF HookVersions, HookVersion
<1>4. FirstHookVersions \subseteq HookVersions
  BY DEF HookVersions, FirstHookVersions
<1> QED
  BY <1>1, <1>2, <1>3, <1>4, NoneIsNew DEF Parts!FireConstants

LEMMA CallsFit == TP!CallConstants
<1>1. /\ <<"r1", "r2">> \in Seq({"r1", "r2"})
      /\ TP!L!Runs = {"r1", "r2"}
      /\ \A i, j \in 1..2 : <<"r1", "r2">>[i] = <<"r1", "r2">>[j] => i = j
  BY DEF TP!L!Runs
<1>2. /\ None \notin {"t1", "t2"} \cup {"r1", "r2"} \cup {"task", "replay"}
      /\ Len(<<"r1", "r2">>) = 2
  BY NoneIsNew
<1>3. {Caller, Called} \subseteq [grant : {u.grant : u \in {Caller, Called}}, exposed : BOOLEAN, there : BOOLEAN]
  <2>1. ASSUME NEW set, NEW g \in set, NEW e \in BOOLEAN
        PROVE  [grant |-> g, exposed |-> e, there |-> TRUE] \in [grant : set, exposed : BOOLEAN, there : BOOLEAN]
    OBVIOUS
  <2>2. /\ Caller = [grant |-> Caller.grant, exposed |-> TRUE, there |-> TRUE]
        /\ Called = [grant |-> Called.grant, exposed |-> FALSE, there |-> TRUE]
    BY DEF Caller, Called, Granted
  <2> DEFINE set == {u.grant : u \in {Caller, Called}}
  <2>3. Caller.grant \in set /\ Called.grant \in set
    OBVIOUS
  <2> HIDE DEF set
  <2>4. Caller \in [grant : set, exposed : BOOLEAN, there : BOOLEAN]
    BY <2>1, <2>2, <2>3
  <2>5. Called \in [grant : set, exposed : BOOLEAN, there : BOOLEAN]
    BY <2>1, <2>2, <2>3
  <2> QED
    BY <2>4, <2>5 DEF set
<1>4. {[t1 |-> Caller, t2 |-> Called]} \subseteq [{"t1", "t2"} -> {Caller, Called}]
  OBVIOUS
<1> QED
  BY <1>1, <1>2, <1>3, <1>4 DEF TP!CallConstants

LEMMA ControlFits == Parts!CtlConstants
<1>1. /\ <<"d1", "d2">> \in Seq({"d1", "d2"})
      /\ Parts!N!Procs = {"d1", "d2"}
      /\ \A i, j \in 1..2 : <<"d1", "d2">>[i] = <<"d1", "d2">>[j] => i = j
  BY DEF Parts!N!Procs
<1>2. None \notin {"d1", "d2"} /\ Len(<<"d1", "d2">>) = 2 /\ FALSE \in BOOLEAN
  BY NoneIsNew
<1> QED
  BY <1>1, <1>2 DEF Parts!CtlConstants

LEMMA FollowFits == Parts!FolConstants
<1>1. /\ <<"r1", "r2", "r3">> \in Seq({"r1", "r2", "r3"})
      /\ Parts!M!Runs = {"r1", "r2", "r3"}
      /\ \A i, j \in 1..3 : <<"r1", "r2", "r3">>[i] = <<"r1", "r2", "r3">>[j] => i = j
  BY DEF Parts!M!Runs
<1>2. /\ None \notin {"r1", "r2", "r3"} \cup {"ended", "failure", "interrupted"}
      /\ Len(<<"r1", "r2", "r3">>) = 3
  BY NoneIsNew
<1> QED
  BY <1>1, <1>2 DEF Parts!FolConstants

LEMMA EnvFits == TP!EnvConstants
<1>1. \A miss, opt \in BOOLEAN :
        /\ EnvEntry("secret", "k1", miss, opt) \in TP!EnvDeclared
        /\ EnvEntry("task", "k1", miss, opt) \in TP!EnvDeclared
        /\ EnvEntry("task", "k2", miss, opt) \in TP!EnvDeclared
  BY DEF EnvEntry, TP!EnvDeclared
<1>2. EnvSpecs \subseteq Seq(TP!EnvDeclared)
  <2>1. ASSUME NEW set, NEW x \in set, NEW y \in set PROVE <<x, y>> \in Seq(set)
    OBVIOUS
  <2>2. /\ <<EnvEntry("secret", "k1", TRUE, FALSE), EnvEntry("task", "k2", FALSE, FALSE)>> \in Seq(TP!EnvDeclared)
        /\ <<EnvEntry("task", "k1", FALSE, FALSE), EnvEntry("task", "k2", FALSE, TRUE)>> \in Seq(TP!EnvDeclared)
    BY <1>1, <2>1
  <2> QED
    BY <2>2, Zenon DEF EnvSpecs
<1>3. \A s \in EnvSpecs : s[1].key = "k1" /\ s[2].key = "k2" /\ DOMAIN s = 1..2
  BY DEF EnvSpecs, EnvEntry
<1>4. \A s \in EnvSpecs : \A j, k \in DOMAIN s : s[j].key = s[k].key => j = k
  BY <1>3
<1>5. EnvStores \subseteq [{"k1", "k2"} -> 0..1]
  BY DEF EnvStores
<1> QED
  BY <1>2, <1>4, <1>5, NoneIsNew DEF TP!EnvConstants

LEMMA ReviewFits == TP!RevConstants
<1>1. TP!RevSpecs \subseteq {ReviewedSpecs[k] : k \in {1, 2} \X {1, 2}}
  BY DEF TP!RevSpecs, ReviewedFiles
<1>2. None \notin TP!RevHashes
  <2>1. \A s, c : TP!G!ContentHash(s, c) = G!ContentHash(s, c)
    BY DEF TP!G!ContentHash, G!ContentHash, TP!G!Resolved, G!Resolved, TP!G!Redacted, G!Redacted
  <2> QED
    BY <1>1, <2>1, NoneIsNoHash DEF TP!RevHashes
<1>3. ASSUME NEW i \in {1, 2}, NEW j \in {1, 2}, NEW s, s = ReviewedSpecs[<<i, j>>]
      PROVE  /\ {s.name, s.image, s.net, s.timeout} \cap {"lit1", "lit2"} = {} /\ DOMAIN s.boxEnv \cap {"lit1", "lit2"} = {}
             /\ (\A e \in s.env : TP!RevEnvOK(e)) /\ (\A p \in s.params : p.name \notin {"lit1", "lit2"})
             /\ TP!RevTriggerOK(s.trigger)
  <2>1. /\ s.name = "n1" /\ s.image \in {"i1", "i2"} /\ s.net = "any" /\ s.timeout = "s1" /\ s.boxEnv = [x \in {"b"} |-> "lit1"]
        /\ s.params = {[name |-> "q", required |-> FALSE, default |-> "lit2"]}
        /\ s.trigger = [kind |-> "daemon", at |-> "x", auth |-> None, restart |-> IF j = 2 THEN "always" ELSE "never",
                         params |-> [x \in {"p"} |-> "lit1"], key |-> "lit2"]
        /\ s.env = {DeclaredEnv("A", IF j = 2 THEN "lit1" ELSE "lit2", None, None, None),
                      DeclaredEnv("B", None, "sec", None, "lit1"),
                      DeclaredEnv("C", None, None, IF i = 1 THEN <<"task", "p">> ELSE <<"host", "H">>, None)}
    BY <1>3 DEF ReviewedSpecs
  <2>2. ASSUME NEW n \in {"A", "B", "C"}, NEW value, NEW secret \in {None, "sec"},
               NEW ref \in {None, <<"task", "p">>, <<"host", "H">>}, NEW default
        PROVE  TP!RevEnvOK(DeclaredEnv(n, value, secret, ref, default))
    <3>1. PICK e : e = [name |-> n, value |-> value, secret |-> secret, ref |-> ref, default |-> default,
                        optional |-> FALSE]
      OBVIOUS
    <3>2. e.name = n /\ e.secret = secret /\ e.ref = ref /\ e.value = value /\ e.default = default /\ e.optional = FALSE
      BY <3>1
    <3>3. ref # None => \A x \in DOMAIN ref : ref[x] \notin {"lit1", "lit2"}
      OBVIOUS
    <3>4. TP!RevEnvOK(e)
      BY <3>1, <3>2, <3>3, NoneIsNew DEF TP!RevEnvOK
    <3> QED
      BY <3>1, <3>4 DEF DeclaredEnv
  <2>3. \A e \in s.env : TP!RevEnvOK(e)
    BY <2>1, <2>2
  <2>4. TP!RevTriggerOK(s.trigger)
    BY <2>1 DEF TP!RevTriggerOK
  <2>5. (\A p \in s.params : p.name \notin {"lit1", "lit2"}) /\ DOMAIN s.boxEnv \cap {"lit1", "lit2"} = {}
    BY <2>1
  <2> QED
    BY <2>1, <2>3, <2>4, <2>5
<1>4. \A s \in TP!RevSpecs : \E i, j \in {1, 2} : s = ReviewedSpecs[<<i, j>>]
  BY <1>1
<1> QED
  BY <1>2, <1>3, <1>4, NoneIsNew DEF TP!RevConstants

LEMMA AuthoringFits == TP!AutConstants
  BY NoneIsNew DEF TP!AutConstants, TP!AutRows

-----------------------------------------------------------------------------

\* A behaviour that starts as the logins is one of WebSessions, to which its theorem applies.
LEMMA LoginsHold ==
  Spec => [](part = "web" => W!TypeOK /\ W!NothingOutlivesAChange /\ W!TrustedOnce /\ W!DriftIsVisible)
<1>1. Init => (part = "web" => Parts!W!Init)
  BY LoginsArePart DEF Init
<1>2. part = "web" /\ [Next]_vars => (part = "web")' /\ [Parts!W!Next]_(Parts!W!vars)
  BY LoginsArePart DEF Next, vars, cells, Parts!W!vars
<1>3. ~(part = "web") /\ [Next]_vars => ~(part = "web")'
  BY DEF Next, vars
<1>4. Parts!W!Spec
      => [](Parts!W!TypeOK /\ Parts!W!NothingOutlivesAChange /\ Parts!W!TrustedOnce /\ Parts!W!DriftIsVisible)
  BY Parts!LoginsStayCurrent
<1>5. Parts!W!TypeOK /\ Parts!W!NothingOutlivesAChange /\ Parts!W!TrustedOnce /\ Parts!W!DriftIsVisible
      => W!TypeOK /\ W!NothingOutlivesAChange /\ W!TrustedOnce /\ W!DriftIsVisible
  BY LoginsArePart
<1> QED
  BY <1>1, <1>2, <1>3, <1>4, <1>5, PTL DEF Spec, Parts!W!Spec

\* A behaviour that starts as the inputs is one of RunInputs, to which its theorem applies.
LEMMA InputsHold ==
  Spec => [](part = "inputs" => I!TypeOK /\ I!InputsAreFound /\ I!KeysAreBacked)
<1>1. Init => (part = "inputs" => Parts!I!Init)
  BY InputsArePart DEF Init
<1>2. part = "inputs" /\ [Next]_vars => (part = "inputs")' /\ [Parts!I!Next]_(Parts!I!vars)
  BY InputsArePart DEF Next, vars, cells, Parts!I!vars
<1>3. ~(part = "inputs") /\ [Next]_vars => ~(part = "inputs")'
  BY DEF Next, vars
<1>4. Parts!I!Spec
      => [](Parts!I!TypeOK /\ Parts!I!InputsAreFound /\ Parts!I!KeysAreBacked)
  BY Parts!InputsStay
<1>5. Parts!I!TypeOK /\ Parts!I!InputsAreFound /\ Parts!I!KeysAreBacked
      => I!TypeOK /\ I!InputsAreFound /\ I!KeysAreBacked
  BY InputsArePart
<1> QED
  BY <1>1, <1>2, <1>3, <1>4, <1>5, PTL DEF Spec, Parts!I!Spec

\* A behaviour that starts as the resume blobs is one of ResumeBlobs, to which its theorem applies.
LEMMA BlobsHold ==
  Spec => [](part = "blobs" => B!TypeOK /\ B!SuspendedKeepsItsState /\ B!BlobsAreFound /\ B!ContinuesAsItself)
<1>1. Init => (part = "blobs" => Parts!B!Init)
  BY BlobsArePart DEF Init
<1>2. part = "blobs" /\ [Next]_vars => (part = "blobs")' /\ [Parts!B!Next]_(Parts!B!vars)
  BY BlobsArePart DEF Next, vars, cells, Parts!B!vars
<1>3. ~(part = "blobs") /\ [Next]_vars => ~(part = "blobs")'
  BY DEF Next, vars
<1>4. Parts!B!Spec
      => [](Parts!B!TypeOK /\ Parts!B!SuspendedKeepsItsState /\ Parts!B!BlobsAreFound /\ Parts!B!ContinuesAsItself)
  BY Parts!BlobsStay
<1>5. Parts!B!TypeOK /\ Parts!B!SuspendedKeepsItsState /\ Parts!B!BlobsAreFound /\ Parts!B!ContinuesAsItself
      => B!TypeOK /\ B!SuspendedKeepsItsState /\ B!BlobsAreFound /\ B!ContinuesAsItself
  BY BlobsArePart
<1> QED
  BY <1>1, <1>2, <1>3, <1>4, <1>5, PTL DEF Spec, Parts!B!Spec

\* A behaviour that starts as the containers is one of Containers, to which its theorem applies.
LEMMA ContainersHold ==
  Spec => [](part = "containers" => K!TypeOK /\ K!EachHasAnOwner /\ K!OneContainer /\ K!AllowedOnly)
<1>1. Init => (part = "containers" => Parts!K!Init)
  BY ContainersArePart DEF Init
<1>2. part = "containers" /\ [Next]_vars => (part = "containers")' /\ [Parts!K!Next]_(Parts!K!vars)
  BY ContainersArePart DEF Next, vars, cells, Parts!K!vars
<1>3. ~(part = "containers") /\ [Next]_vars => ~(part = "containers")'
  BY DEF Next, vars
<1>4. Parts!K!Spec
      => [](Parts!K!TypeOK /\ Parts!K!EachHasAnOwner /\ Parts!K!OneContainer /\ Parts!K!AllowedOnly)
  BY Parts!ContainersEnd, BoxesFit
<1>5. Parts!K!TypeOK /\ Parts!K!EachHasAnOwner /\ Parts!K!OneContainer /\ Parts!K!AllowedOnly
      => K!TypeOK /\ K!EachHasAnOwner /\ K!OneContainer /\ K!AllowedOnly
  BY ContainersArePart
<1> QED
  BY <1>1, <1>2, <1>3, <1>4, <1>5, PTL DEF Spec, Parts!K!Spec

\* A behaviour that starts as the process is one of TaskProcess, to which its theorem applies.
LEMMA ProcessesHold ==
  Spec => [](part = "process" => P!TypeOK /\ P!OutcomeIsTheTasks /\ P!NothingIsLeft /\ P!LogsAreKept)
<1>1. Init => (part = "process" => Parts!P!Init)
  BY ProcessIsPart DEF Init
<1>2. part = "process" /\ [Next]_vars => (part = "process")' /\ [Parts!P!Next]_(Parts!P!vars)
  BY ProcessIsPart DEF Next, vars, cells, Parts!P!vars
<1>3. ~(part = "process") /\ [Next]_vars => ~(part = "process")'
  BY DEF Next, vars
<1>4. Parts!P!Spec
      => [](Parts!P!TypeOK /\ Parts!P!OutcomeIsTheTasks /\ Parts!P!NothingIsLeft /\ Parts!P!LogsAreKept)
  BY Parts!ProcessesEnd
<1>5. Parts!P!TypeOK /\ Parts!P!OutcomeIsTheTasks /\ Parts!P!NothingIsLeft /\ Parts!P!LogsAreKept
      => P!TypeOK /\ P!OutcomeIsTheTasks /\ P!NothingIsLeft /\ P!LogsAreKept
  BY ProcessIsPart
<1> QED
  BY <1>1, <1>2, <1>3, <1>4, <1>5, PTL DEF Spec, Parts!P!Spec

\* A behaviour that starts as the webhook routes is one of WebhookRoutes, to which its theorem applies.
LEMMA RoutesHold ==
  Spec => [](part = "routes" => H!TypeOK /\ H!ClaimIsRouted /\ H!NoDeadRoute /\ H!LoopsGoOn)
<1>1. Init => (part = "routes" => Parts!H!Init)
  BY RoutesArePart DEF Init
<1>2. part = "routes" /\ [Next]_vars => (part = "routes")' /\ [Parts!H!Next]_(Parts!H!vars)
  BY RoutesArePart DEF Next, vars, cells, Parts!H!vars
<1>3. ~(part = "routes") /\ [Next]_vars => ~(part = "routes")'
  BY DEF Next, vars
<1>4. Parts!H!Spec
      => [](Parts!H!TypeOK /\ Parts!H!ClaimIsRouted /\ Parts!H!NoDeadRoute /\ Parts!H!LoopsGoOn)
  BY Parts!HooksStayRouted, HooksFit
<1>5. Parts!H!TypeOK /\ Parts!H!ClaimIsRouted /\ Parts!H!NoDeadRoute /\ Parts!H!LoopsGoOn
      => H!TypeOK /\ H!ClaimIsRouted /\ H!NoDeadRoute /\ H!LoopsGoOn
  BY RoutesArePart
<1> QED
  BY <1>1, <1>2, <1>3, <1>4, <1>5, PTL DEF Spec, Parts!H!Spec

\* A behaviour that starts as the webhook fires is one of WebhookFires, to which its theorem applies.
LEMMA FiresHold ==
  Spec => [](part = "fires" => F!TypeOK /\ F!OncePerWindow /\ F!FiredByRight /\ F!SlotsReturn)
<1>1. Init => (part = "fires" => Parts!F!Init)
  BY FiresArePart DEF Init
<1>2. part = "fires" /\ [Next]_vars => (part = "fires")' /\ [Parts!F!Next]_(Parts!F!vars)
  BY FiresArePart DEF Next, vars, cells, Parts!F!vars
<1>3. ~(part = "fires") /\ [Next]_vars => ~(part = "fires")'
  BY DEF Next, vars
<1>4. Parts!F!Spec
      => [](Parts!F!TypeOK /\ Parts!F!OncePerWindow /\ Parts!F!FiredByRight /\ Parts!F!SlotsReturn)
  BY Parts!HooksFireByRight, FiresFit
<1>5. Parts!F!TypeOK /\ Parts!F!OncePerWindow /\ Parts!F!FiredByRight /\ Parts!F!SlotsReturn
      => F!TypeOK /\ F!OncePerWindow /\ F!FiredByRight /\ F!SlotsReturn
  BY FiresArePart
<1> QED
  BY <1>1, <1>2, <1>3, <1>4, <1>5, PTL DEF Spec, Parts!F!Spec

\* A behaviour that starts as the calls of tasks is one of TaskCalls, to which its theorem applies.
LEMMA CallsHold ==
  Spec => [](part = "calls" => L!TypeOK /\ L!FiresAreAudited /\ L!NoSecretLogged /\ L!WaitsForItsOwn)
<1>1. Init => (part = "calls" => TP!L!Init)
  BY CallsArePart DEF Init
<1>2. part = "calls" /\ [Next]_vars => (part = "calls")' /\ [TP!L!Next]_(TP!L!vars)
  BY CallsArePart DEF Next, vars, cells, TP!L!vars
<1>3. ~(part = "calls") /\ [Next]_vars => ~(part = "calls")'
  BY DEF Next, vars
<1>4. TP!L!Spec
      => [](TP!L!TypeOK /\ TP!L!FiresAreAudited /\ TP!L!NoSecretLogged /\ TP!L!WaitsForItsOwn)
  BY TP!CallsStayGranted, CallsFit
<1>5. TP!L!TypeOK /\ TP!L!FiresAreAudited /\ TP!L!NoSecretLogged /\ TP!L!WaitsForItsOwn
      => L!TypeOK /\ L!FiresAreAudited /\ L!NoSecretLogged /\ L!WaitsForItsOwn
  BY CallsArePart
<1> QED
  BY <1>1, <1>2, <1>3, <1>4, <1>5, PTL DEF Spec, TP!L!Spec

\* A behaviour that starts as the control socket is one of ControlSocket, to which its theorem applies.
LEMMA ControlHolds ==
  Spec => [](part = "control" => N!TypeOK /\ N!TasksAreThere /\ N!ServingIsReached /\ N!RowsAreOfTheLiving /\ N!OneStays)
<1>1. Init => (part = "control" => Parts!N!Init)
  BY ControlIsPart DEF Init
<1>2. part = "control" /\ [Next]_vars => (part = "control")' /\ [Parts!N!Next]_(Parts!N!vars)
  BY ControlIsPart DEF Next, vars, cells, Parts!N!vars
<1>3. ~(part = "control") /\ [Next]_vars => ~(part = "control")'
  BY DEF Next, vars
<1>4. Parts!N!Spec
      => [](Parts!N!TypeOK /\ Parts!N!TasksAreThere /\ Parts!N!ServingIsReached /\ Parts!N!RowsAreOfTheLiving /\ Parts!N!OneStays)
  BY Parts!CommandsReach, ControlFits
<1>5. Parts!N!TypeOK /\ Parts!N!TasksAreThere /\ Parts!N!ServingIsReached /\ Parts!N!RowsAreOfTheLiving /\ Parts!N!OneStays
      => N!TypeOK /\ N!TasksAreThere /\ N!ServingIsReached /\ N!RowsAreOfTheLiving /\ N!OneStays
  BY ControlIsPart
<1> QED
  BY <1>1, <1>2, <1>3, <1>4, <1>5, PTL DEF Spec, Parts!N!Spec

\* A behaviour that starts as the follow loop is one of CliFollow, to which its theorem applies.
LEMMA FollowHolds ==
  Spec => [](part = "follow" => M!TypeOK /\ M!ResumedOnce /\ M!ConsentIsGiven /\ M!FollowsItsOwn)
<1>1. Init => (part = "follow" => Parts!M!Init)
  BY FollowIsPart DEF Init
<1>2. part = "follow" /\ [Next]_vars => (part = "follow")' /\ [Parts!M!Next]_(Parts!M!vars)
  BY FollowIsPart DEF Next, vars, cells, Parts!M!vars
<1>3. ~(part = "follow") /\ [Next]_vars => ~(part = "follow")'
  BY DEF Next, vars
<1>4. Parts!M!Spec
      => [](Parts!M!TypeOK /\ Parts!M!ResumedOnce /\ Parts!M!ConsentIsGiven /\ Parts!M!FollowsItsOwn)
  BY Parts!StepsAreFollowed, FollowFits
<1>5. Parts!M!TypeOK /\ Parts!M!ResumedOnce /\ Parts!M!ConsentIsGiven /\ Parts!M!FollowsItsOwn
      => M!TypeOK /\ M!ResumedOnce /\ M!ConsentIsGiven /\ M!FollowsItsOwn
  BY FollowIsPart
<1> QED
  BY <1>1, <1>2, <1>3, <1>4, <1>5, PTL DEF Spec, Parts!M!Spec

\* A behaviour that starts as the environment of a run is one of EnvResolve, to which its theorem applies.
LEMMA EnvHolds ==
  Spec => [](part = "env" => E!TypeOK /\ E!StartsWhole /\ E!ValuesAreCurrent /\ E!ProvidersFireOnce /\ E!WaitsEnd)
<1>1. Init => (part = "env" => TP!E!Init)
  BY EnvIsPart DEF Init
<1>2. part = "env" /\ [Next]_vars => (part = "env")' /\ [TP!E!Next]_(TP!E!vars)
  BY EnvIsPart DEF Next, vars, cells, TP!E!vars
<1>3. ~(part = "env") /\ [Next]_vars => ~(part = "env")'
  BY DEF Next, vars
<1>4. TP!E!Spec
      => [](TP!E!TypeOK /\ TP!E!StartsWhole /\ TP!E!ValuesAreCurrent /\ TP!E!ProvidersFireOnce /\ TP!E!WaitsEnd)
  BY TP!RunsStartWhole, EnvFits
<1>5. TP!E!TypeOK /\ TP!E!StartsWhole /\ TP!E!ValuesAreCurrent /\ TP!E!ProvidersFireOnce /\ TP!E!WaitsEnd
      => E!TypeOK /\ E!StartsWhole /\ E!ValuesAreCurrent /\ E!ProvidersFireOnce /\ E!WaitsEnd
  BY EnvIsPart
<1> QED
  BY <1>1, <1>2, <1>3, <1>4, <1>5, PTL DEF Spec, TP!E!Spec

\* A behaviour that starts as the review is one of ApprovalReview, to which its theorem applies.
LEMMA ReviewHolds ==
  Spec => [](part = "review" => G!TypeOK /\ G!ArmedAsShown /\ G!MarksAreTrue /\ G!NoLiteralShown /\ G!LinkIsExact)
<1>1. Init => (part = "review" => TP!G!Init)
  BY ReviewIsPart DEF Init
<1>2. part = "review" /\ [Next]_vars => (part = "review")' /\ [TP!G!Next]_(TP!G!vars)
  BY ReviewIsPart DEF Next, vars, cells, TP!G!vars
<1>3. ~(part = "review") /\ [Next]_vars => ~(part = "review")'
  BY DEF Next, vars
<1>4. TP!G!Spec
      => [](TP!G!TypeOK /\ TP!G!ArmedAsShown /\ TP!G!MarksAreTrue /\ TP!G!NoLiteralShown /\ TP!G!LinkIsExact)
  BY TP!ReviewsAreExact, ReviewFits
<1>5. TP!G!TypeOK /\ TP!G!ArmedAsShown /\ TP!G!MarksAreTrue /\ TP!G!NoLiteralShown /\ TP!G!LinkIsExact
      => G!TypeOK /\ G!ArmedAsShown /\ G!MarksAreTrue /\ G!NoLiteralShown /\ G!LinkIsExact
  BY ReviewIsPart
<1> QED
  BY <1>1, <1>2, <1>3, <1>4, <1>5, PTL DEF Spec, TP!G!Spec

\* A behaviour that starts as the authoring sessions is one of Authoring, to which its theorem applies.
LEMMA AuthoringHeld ==
  Spec => [](part = "authoring" => A!TypeOK /\ A!ListedIsThere /\ A!TurnsGoOn)
<1>1. Init => (part = "authoring" => TP!A!Init)
  BY AuthoringIsPart DEF Init
<1>2. part = "authoring" /\ [Next]_vars => (part = "authoring")' /\ [TP!A!Next]_(TP!A!vars)
  BY AuthoringIsPart DEF Next, vars, cells, TP!A!vars
<1>3. ~(part = "authoring") /\ [Next]_vars => ~(part = "authoring")'
  BY DEF Next, vars
<1>4. TP!A!Spec
      => [](TP!A!TypeOK /\ TP!A!ListedIsThere /\ TP!A!TurnsGoOn)
  BY TP!TasksStayWhole, AuthoringFits
<1>5. TP!A!TypeOK /\ TP!A!ListedIsThere /\ TP!A!TurnsGoOn
      => A!TypeOK /\ A!ListedIsThere /\ A!TurnsGoOn
  BY AuthoringIsPart
<1> QED
  BY <1>1, <1>2, <1>3, <1>4, <1>5, PTL DEF Spec, TP!A!Spec

\* requireAuth, renewFromDevice and SetPassphrase: no login outlives a change of the
\* passphrase, a trusted device has one row, and a drift of its network stays visible.
THEOREM LoginsCurrent == Spec => []LoginsAreCurrent
<1>1. (part = "web" => W!TypeOK /\ W!NothingOutlivesAChange /\ W!TrustedOnce /\ W!DriftIsVisible) => LoginsAreCurrent
  BY DEF LoginsAreCurrent
<1> QED
  BY <1>1, LoginsHold, PTL

\* suspendRun, PersistInput and the sweeps: a suspended run has its state until it is
\* continued, a stored blob can be found, and a row that names one has it.
THEOREM StoredKept == Spec => []StoredIsKept
<1>1. (part = "inputs" => I!TypeOK /\ I!InputsAreFound /\ I!KeysAreBacked)
      /\ (part = "blobs" => B!TypeOK /\ B!SuspendedKeepsItsState /\ B!BlobsAreFound /\ B!ContinuesAsItself)
      => StoredIsKept
  BY DEF StoredIsKept
<1> QED
  BY <1>1, BlobsHold, InputsHold, PTL

\* AwaitBridgeCompletion, Server.Stop and docker.Run: an outcome is what the process was told
\* is taken, nothing of a run is left behind, and a container has an owner.
THEOREM RunsWhole == Spec => []RunsEndWhole
<1>1. (part = "containers" => K!TypeOK /\ K!EachHasAnOwner /\ K!OneContainer /\ K!AllowedOnly)
      /\ (part = "process" => P!TypeOK /\ P!OutcomeIsTheTasks /\ P!NothingIsLeft /\ P!LogsAreKept)
      => RunsEndWhole
  BY DEF RunsEndWhole
<1> QED
  BY <1>1, ProcessesHold, ContainersHold, PTL

\* Gateway and WebhookHandler: a claimed path is routed to its holder, no loop hangs on an
\* answer, and a webhook fires once per signed request within the time of the cache and by
\* right.
THEOREM HooksServed == Spec => []HooksAreServed
<1>1. (part = "routes" => H!TypeOK /\ H!ClaimIsRouted /\ H!NoDeadRoute /\ H!LoopsGoOn)
      /\ (part = "fires" => F!TypeOK /\ F!OncePerWindow /\ F!FiredByRight /\ F!SlotsReturn)
      => HooksAreServed
  BY DEF HooksAreServed
<1> QED
  BY <1>1, RoutesHold, FiresHold, PTL

\* Server.handleConn: a fire by a run is audited, no log row shows a secret but of a run
\* whose output overlapped with another, and a loop waits for its own child.
THEOREM CallsGranted == Spec => []CallsAreGranted
<1>1. (part = "calls" => L!TypeOK /\ L!FiresAreAudited /\ L!NoSecretLogged /\ L!WaitsForItsOwn) => CallsAreGranted
  BY DEF CallsAreGranted
<1> QED
  BY <1>1, CallsHold, PTL

\* ensureDaemon, ControlServer and the follow loop: a command reaches the daemon that serves,
\* a row is of a living daemon, and a wizard is answered once and with consent.
THEOREM CommandsServed == Spec => []CommandsAreServed
<1>1. (part = "control" => N!TypeOK /\ N!TasksAreThere /\ N!ServingIsReached /\ N!RowsAreOfTheLiving /\ N!OneStays)
      /\ (part = "follow" => M!TypeOK /\ M!ResumedOnce /\ M!ConsentIsGiven /\ M!FollowsItsOwn)
      => CommandsAreServed
  BY DEF CommandsAreServed
<1> QED
  BY <1>1, ControlHolds, FollowHolds, PTL

\* preflightEnv, Resolver.Resolve and resolveIfMissing: a deno or python run starts with
\* every secret it requires, of the content its provider had when it was asked; a provider
\* fires once for it, and no one waits for a prerequisite that nobody runs.
THEOREM EnvWhole == Spec => []EnvIsWhole
<1>1. (part = "env" => E!TypeOK /\ E!StartsWhole /\ E!ValuesAreCurrent /\ E!ProvidersFireOnce /\ E!WaitsEnd) => EnvIsWhole
  BY DEF EnvIsWhole
<1> QED
  BY <1>1, EnvHolds, PTL

\* Gate.StateFor, ApproveIfHash and the approve links: what an approval arms reaches what its
\* screen showed, marks are true of the range on the screen, and no inline value is shown.
THEOREM ReviewExact == Spec => []ReviewIsExact
<1>1. (part = "review" => G!TypeOK /\ G!ArmedAsShown /\ G!MarksAreTrue /\ G!NoLiteralShown /\ G!LinkIsExact) => ReviewIsExact
  BY DEF ReviewIsExact
<1> QED
  BY <1>1, ReviewHolds, PTL

\* TaskCreator.Create, DeleteTask and the turns of an authoring session: a listed task is
\* whole, and a session is never stuck.
THEOREM AuthoringKept == Spec => [](part = "authoring" => A!ListedIsThere /\ A!TurnsGoOn)
  BY AuthoringHeld, PTL

-----------------------------------------------------------------------------
LEMMA TriggersArePart ==
  /\ T!Init => TP!Init
  /\ T!Next => TP!Next
  /\ TP!TypeOK /\ TP!ArmedAsRegistered /\ TP!RowOfItsSchedule
     => T!TypeOK /\ T!ArmedAsRegistered /\ T!RowOfItsSchedule
  /\ TP!ReloadKeeps => T!ReloadKeeps
  /\ TP!WellFormed
  BY TriggersAssumption DEF T!IDs, T!Contents, T!Crons, T!Hooks, T!Entries, T!Actors, T!RowSet,
    T!WellFormed, T!regVars, T!armVars, T!bootVars, T!vars, T!NoCall, T!PCs, T!Row, T!TypeOK,
    T!Fresh, T!Init, T!Edit, T!Handle, T!To, T!IsPipe, T!KeepCron, T!KeepHook, T!Over,
    T!Unlocks, T!Lock, T!TakeDown, T!Had, T!Remove, T!DeleteRow, T!Check, T!Add, T!Record,
    T!Insert, T!ClaimPath, T!Retry, T!Forget, T!RemoveAll, T!DeleteRowAndReturn, T!Fireable,
    T!Tick, T!TickFire, T!TickAdvance, T!Boot, T!CatchupKnown, T!CatchupPrune, T!CatchupQuery,
    T!CatchupFire, T!ListTasks, T!RegisterAgain, T!StartCron, T!Restart, T!RegisterStep,
    T!BootStep, T!Next, T!Spec, T!Quiet, T!Asks, T!Wanted, T!ArmedAsRegistered,
    T!RowOfItsSchedule, T!ReloadKeeps, T!MissedAreCaughtUp, TP!IDs, TP!Contents, TP!Crons,
    TP!Hooks, TP!Entries, TP!Actors, TP!RowSet, TP!WellFormed, TP!regVars, TP!armVars,
    TP!bootVars, TP!vars, TP!NoCall, TP!PCs, TP!Row, TP!TypeOK, TP!Fresh, TP!Init, TP!Edit,
    TP!Handle, TP!To, TP!IsPipe, TP!KeepCron, TP!KeepHook, TP!Over, TP!Unlocks, TP!Lock,
    TP!TakeDown, TP!Had, TP!Remove, TP!DeleteRow, TP!Check, TP!Add, TP!Record, TP!Insert,
    TP!ClaimPath, TP!Retry, TP!Forget, TP!RemoveAll, TP!DeleteRowAndReturn, TP!Fireable,
    TP!Tick, TP!TickFire, TP!TickAdvance, TP!Boot, TP!CatchupKnown, TP!CatchupPrune,
    TP!CatchupQuery, TP!CatchupFire, TP!ListTasks, TP!RegisterAgain, TP!StartCron, TP!Restart,
    TP!RegisterStep, TP!BootStep, TP!Next, TP!Spec, TP!Quiet, TP!Asks, TP!Wanted,
    TP!ArmedAsRegistered, TP!RowOfItsSchedule, TP!ReloadKeeps, TP!MissedAreCaughtUp

LEMMA TriggersAreSpec == Spec => (part = "triggers" => TP!Spec /\ [](part = "triggers"))
<1>1. Init => (part = "triggers" => TP!Init)
  BY TriggersArePart DEF Init
<1>2. part = "triggers" /\ [Next]_vars => (part = "triggers")' /\ [TP!Next]_(TP!vars)
  <2>1. T!Next => TP!Next
    BY TriggersArePart
  <2> QED
    BY <2>1 DEF Next, vars, cells, TP!vars, TP!regVars, TP!armVars, TP!bootVars
<1> QED
  BY <1>1, <1>2, PTL DEF Spec, TP!Spec

\* Engine: when no registration is under way each task is armed with its schedule once, a
\* pipeline waits only for a stage that is not there, and a row is of its schedule.
THEOREM TriggersArmed == Spec => []ArmedAsRegistered
<1>1. TP!Spec => [](TP!TypeOK /\ TP!IInv)
  BY TriggersArePart, TP!TriggersInvariant
<1>2. TP!Spec => [](TP!ArmedAsRegistered /\ TP!RowOfItsSchedule)
  BY TriggersArePart, TP!ArmedRight
<1>3. ~(part = "triggers") /\ [Next]_vars => ~(part = "triggers")'
  BY DEF Next, vars
<1>4. TP!TypeOK /\ TP!ArmedAsRegistered /\ TP!RowOfItsSchedule => ArmedAsRegistered
  BY TriggersArePart DEF ArmedAsRegistered
<1>5. ~(part = "triggers") => ArmedAsRegistered
  BY DEF ArmedAsRegistered
<1> QED
  BY <1>1, <1>2, <1>3, <1>4, <1>5, TriggersAreSpec, PTL DEF Spec

\* Engine.Register: a reload that keeps path or schedule leaves no moment without it.
THEOREM ReloadsKeep == Spec => ReloadKeeps
<1>1. TP!Spec => [][TP!ReloadKeeps]_(TP!vars)
  BY TriggersArePart, TP!ReloadIsSeamless
<1>2. ~(part = "triggers") /\ [Next]_vars => ~(part = "triggers")'
  BY DEF Next, vars
<1>3. part = "triggers" /\ [Next]_vars /\ [TP!ReloadKeeps]_(TP!vars) => [part = "triggers" => T!ReloadKeeps]_vars
  <2>1. TP!ReloadKeeps => T!ReloadKeeps
    BY TriggersArePart
  <2> QED
    BY <2>1 DEF Next, Tail16, vars, cells, TP!vars, TP!regVars, TP!armVars, TP!bootVars
<1>4. ~(part = "triggers") => [part = "triggers" => T!ReloadKeeps]_vars
  OBVIOUS
<1> QED
  BY <1>1, <1>2, <1>3, <1>4, TriggersAreSpec, PTL DEF Spec, ReloadKeeps
=============================================================================
