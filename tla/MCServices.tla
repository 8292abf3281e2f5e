------------------------------ MODULE MCServices ------------------------------
(***************************************************************************)
(* The parts of the daemon that run beside the engine's runs, each on a    *)
(* small instance.  They share no state: a behaviour of this module is a   *)
(* behaviour of the part that `part` names, and the cells hold the         *)
(* variables of that part.                                                 *)
(***************************************************************************)
EXTENDS Integers, Sequences, FiniteSets

CONSTANT None

\* None is not one of the values the parts compare it with.
ASSUME NoneIsNew ==
  /\ None \notin {"created", "running", "exited", "answered", "t1", "t2", "p1", "p2", "c1", "engine"}
  /\ None \notin {"r1", "r2", "r3", "d1", "d2", "task", "replay", "ended", "failure", "interrupted"}
  /\ None \notin {"k1", "redacted", "page", "link", "lit1", "lit2"}
  /\ None \notin {"c2", "n1", "n2", "local"}
  /\ None \notin [task : {"n1", "n2"} \cup {None}, open : BOOLEAN, applied : BOOLEAN, agent : 0..3]
  /\ None \notin Int

VARIABLES
  part,
  v1, v2, v3, v4, v5, v6, v7, v8, v9, v10, v11, v12, v13, v14, v15, v16, v17, v18, v19, v20

cells == <<v1, v2, v3, v4, v5, v6, v7, v8, v9, v10, v11, v12, v13, v14, v15, v16, v17, v18, v19, v20>>

-----------------------------------------------------------------------------
Content(enabled, cron, hook, ok) == [enabled |-> enabled, cron |-> cron, hook |-> hook, ok |-> ok]
\* A task with two schedules, a disabled one, and a pipeline that waits for the first,
\* claims its path as well, and can be refused.
TriggerVersions ==
  [id \in {"t1", "t2", "p1"} |->
     CASE id = "t1" -> {Content(TRUE, "c1", "h1", TRUE), Content(TRUE, "c2", "h1", TRUE)}
       [] id = "t2" -> {Content(FALSE, None, "h1", TRUE)}
       [] OTHER -> {Content(TRUE, None, "h1", TRUE), Content(TRUE, "c1", "oauth", FALSE)}]

T == INSTANCE Triggers WITH
       Tasks <- {"t1", "t2"}, Pipes <- {"p1"}, StageOf <- [p \in {"p1"} |-> "t1"],
       Versions <- TriggerVersions, Relay <- None, Reserved <- "oauth", MaxChanges <- 1, MaxTicks <- 1,
       disk <- v1, todo <- v2, registry <- v3, entries <- v4, armed <- v5, rows <- v6, hooks <- v7,
       deferred <- v8, mu <- v9, call <- v10, boot <- v11, ticks <- v12, missed <- v13,
       caught <- v14, raced <- v15, spent <- v16

\* What the theorems about Triggers assume.
ASSUME TriggersAssumption == T!WellFormed

-----------------------------------------------------------------------------
B == INSTANCE ResumeBlobs WITH
       Runs <- {"r1", "r2"}, Clients <- {"c1", "c2"}, MaxFaults <- 1,
       rows <- v1, blobs <- v2, body <- v3, calls <- v4, cleaner <- v5, granted <- v6,
       orphans <- v7, empty <- v8, faults <- v9

-----------------------------------------------------------------------------
I == INSTANCE RunInputs WITH
       Runs <- {"r1", "r2"}, Batches <- {"b1", "b2"}, MaxFaults <- 1,
       rows <- v1, inputs <- v2, body <- v3, batch <- v4, reads <- v5, swallowed <- v6,
       orphans <- v7, torn <- v8, faults <- v9

-----------------------------------------------------------------------------
W == INSTANCE WebSessions WITH
       Reqs <- {"q1", "q2"}, MaxTokens <- 2, MaxChanges <- 1, MaxRequests <- 3,
       mode <- v1, stored <- v2, cache <- v3, session <- v4, devices <- v5, jar <- v6, reqs <- v7,
       tokens <- v8, begun <- v9, trust <- v10

-----------------------------------------------------------------------------
D == INSTANCE DevClones WITH
       Calls <- {"c1", "c2"}, Sessions <- {"r1", "r2"}, Deletes <- {"d1"}, Local <- "local", MaxCalls <- 3,
       clones <- v1, primary <- v2, root <- v3, dev <- v4, dirs <- v5, calls <- v6, begun <- v7,
       crossed <- v8, overlap <- v9, pushed <- v10

-----------------------------------------------------------------------------
A == INSTANCE Authoring WITH
       Calls <- {"c1", "c2"}, Names <- {"n1", "n2"}, MaxSessions <- 2, MaxCalls <- 3,
       dir <- v1, entries <- v2, sessions <- v3, locks <- v4, calls <- v5, begun <- v6,
       twice <- v7, mixed <- v8

-----------------------------------------------------------------------------
P == INSTANCE TaskProcess WITH
       MaxLogs <- 2,
       pc <- v1, attempt <- v2, silent <- v3, key <- v4, files <- v5, listener <- v6, conn <- v7,
       proc <- v8, exit <- v9, queue <- v10, posted <- v11, ret <- v12, suspend <- v13,
       acking <- v14, logs <- v15, flusher <- v16, stopping <- v17, cancelled <- v18, over <- v19,
       result <- v20

-----------------------------------------------------------------------------
NoEntries == [x \in {} |-> None]
Over(enabled, timeout, env, dicode, trigger, entries) ==
  [enabled |-> enabled, timeout |-> timeout, env |-> env, dicode |-> dicode, trigger |-> trigger, entries |-> entries]
Sets(timeout) == Over(None, timeout, [x \in {"E"} |-> timeout], {timeout}, [k \in {"cron"} |-> TRUE], NoEntries)
Switch(enabled) == Over(enabled, 0, NoEntries, {}, NoEntries, NoEntries)
Turns(kinds, on) == Over(None, 0, NoEntries, {}, [k \in kinds |-> k \in on], NoEntries)
For(name, patch) == Over(None, 9, NoEntries, {}, NoEntries, [x \in {name} |-> patch])
Ref(kind, url, token, file) == [kind |-> kind, url |-> url, token |-> token, file |-> file]
Base == [timeout |-> 1, env |-> [x \in {"B"} |-> 1], dicode |-> {1}, trigger |-> {"manual"}]
TaskAt(ref, dev, over) == [ref |-> ref, dev |-> dev, base |-> Base, over |-> over]
File(defaults, entries) == [defaults |-> defaults, entries |-> entries]
Local(kind, file) == Ref(kind, None, FALSE, file)

\* A task three tasksets down, with overrides on every level.
Deep(top, mid, own, defaults) ==
  [f \in {"root", "mid", "low"} |->
     CASE f = "root" -> File(None, [x \in {"m"} |-> TaskAt(Local("set", "mid"), None, top)])
       [] f = "mid" -> File(None, [x \in {"l"} |-> TaskAt(Local("set", "low"), None, mid)])
       [] OTHER -> File(defaults, [x \in {"t"} |-> TaskAt(Local("task", None), None, own)])]
DeepTrees ==
  { Deep(top, mid, own, defaults) :
      top \in {None, Switch(FALSE), For("l", Switch(FALSE)), For("l", For("t", Switch(FALSE))), For("l", For("t", Sets(5)))},
      mid \in {None, Switch(FALSE), For("t", Switch(TRUE)), For("t", Sets(4)), For("t", Turns({"manual"}, {}))},
      own \in {None, Sets(3), Switch(FALSE), Turns({"cron", "manual"}, {"cron"}),
             Over(TRUE, 0, [x \in {"B"} |-> 7], {}, [k \in {"chain", "daemon"} |-> TRUE], NoEntries)},
      defaults \in {None, Sets(2)} }
\* One git target used by the root and by a nested taskset, and entries that fail.
Wide(a, b, c, d) ==
  [f \in {"root", "mid", "gone"} |->
     CASE f = "root" -> File(None, [x \in {"a", "b", "m"} |->
                          CASE x = "a" -> TaskAt(a, None, None)
                            [] x = "b" -> TaskAt(b, Local("task", None), None)
                            [] OTHER -> TaskAt(Ref("set", None, FALSE, "mid"), None, None)])
       [] f = "mid" -> File(None, [x \in {"c", "d"} |-> TaskAt(IF x = "c" THEN c ELSE d, None, None)])
       [] OTHER -> None]
Git(kind, token) == Ref(kind, "u1", token, None)
WideTrees ==
  { Wide(a, b, c, d) : a \in {Git("task", TRUE), Git("pipeline", FALSE)}, b \in {Git("task", FALSE), Local("broken", None)},
      c \in {Git("task", TRUE), Local("set", "gone")}, d \in {None, Local("pipeline", None)} }
R == INSTANCE TasksetResolver WITH
       Trees <- DeepTrees \cup WideTrees, Private <- {"u1"}, MaxSpent <- 1,
       tree <- v1, devMode <- v2, clones <- v3, held <- v4, stack <- v5, out <- v6, failed <- v7,
       mixed <- v8, spent <- v9

-----------------------------------------------------------------------------
S == INSTANCE SourceWatch WITH
       Dirs <- {"d1", "d2"}, MaxChanges <- 2, MaxFaults <- 2,
       git <- v1, remote <- v2, parked <- v3, head <- v4, disk <- v5, pc <- v6, watchRoot <- v7,
       watched <- v8, debounce <- v9, fireSig <- v10, refresh <- v11, snapshot <- v12,
       pullOK <- v13, unseen <- v14, changes <- v15, faults <- v16

-----------------------------------------------------------------------------
C == INSTANCE SourceConfig WITH
       Names <- {"n1", "ai-scratch"}, Scratch <- "ai-scratch", MaxCalls <- 3,
       mem <- v1, file <- v2, calls <- v3, live <- v4, cancels <- v5, mgr <- v6, parentOv <- v7,
       nameOf <- v8, acked <- v9, mixed <- v10, again <- v11

-----------------------------------------------------------------------------
H == INSTANCE WebhookRoutes WITH
       Tasks <- {"t1", "t2"}, Paths <- {"p1", "p2"}, Conns <- {"c1"}, Requests <- {"q1"}, Engine <- "engine", MaxCalls <- 2, MaxRegisters <- 1,
       hooks <- v1, routes <- v2, recorded <- v3, calls <- v4, conns <- v5, reqs <- v6,
       contested <- v7, begun <- v8, registers <- v9

-----------------------------------------------------------------------------
HookVersion(mode, secret, needTs, pipe) ==
  [mode |-> mode, secret |-> secret, needTs |-> needTs, protect |-> TRUE, pipe |-> pipe]
HookVersions ==
  {HookVersion("off", TRUE, FALSE, FALSE), HookVersion("any", TRUE, TRUE, FALSE), HookVersion("session", FALSE, FALSE, TRUE)}
\* It starts unguarded; any other version comes with a reload.
FirstHookVersions == {HookVersion("off", TRUE, FALSE, FALSE)}
HookRequest(ts, body, by, asset, wait) ==
  [ts |-> ts, body |-> body, signed |-> by = "secret", get |-> asset, asset |-> asset,
   session |-> by = "session", relayed |-> ts # None, wait |-> wait]
\* Signed without and with a timestamp, another body, an asset, a browser with a session.
HookRequests ==
  {HookRequest(None, "b1", "secret", FALSE, FALSE), HookRequest(1, "b1", "secret", FALSE, FALSE),
   HookRequest(None, "b2", "secret", FALSE, FALSE), HookRequest(None, "b1", "nobody", TRUE, TRUE),
   HookRequest(None, "b1", "session", FALSE, TRUE)}
F == INSTANCE WebhookFires WITH
       Ids <- {"q1", "q2"}, Shapes <- HookRequests, Versions <- HookVersions, InitialVersions <- FirstHookVersions, TTL <- 3, Tolerance <- 1, MaxEntries <- 2, Slots <- 1, MaxNow <- 4, MaxRequests <- 3, MaxReloads <- 1, MaxRestarts <- 1,
       now <- v1, task <- v2, entries <- v3, order <- v4, sem <- v5, reqs <- v6, admitted <- v7,
       forgotten <- v8, begun <- v9, reloads <- v10, restarts <- v11

-----------------------------------------------------------------------------
DockerBlock(kind, asks, net, build) ==
  [kind |-> kind, asks |-> asks, mode |-> None, net |-> net, ports |-> FALSE, build |-> build]
DockerBlocks ==
  {DockerBlock("docker", {}, FALSE, TRUE), DockerBlock("docker", {"volume"}, TRUE, FALSE),
   DockerBlock("podman", {"capability"}, TRUE, FALSE), DockerBlock("podman", {"volume"}, FALSE, TRUE)}
K == INSTANCE Containers WITH
       Runs <- {"r1", "r2"}, Configs <- DockerBlocks, Policy <- {"volume"}, MaxEdits <- 1, MaxFaults <- 2,
       phase <- v1, cfg <- v2, file <- v3, known <- v4, images <- v5, doomed <- v6, pc <- v7,
       tag <- v8, cancelled <- v9, watcher <- v10, box <- v11, orphans <- v12, left <- v13,
       edits <- v14, faults <- v15

-----------------------------------------------------------------------------
Granted(replay, tasks, mcp, exposed) ==
  [grant |-> [replay |-> replay, tasks |-> tasks, mcp |-> mcp], exposed |-> exposed, there |-> TRUE]
Caller == Granted(TRUE, {"t2"}, {}, TRUE)
Called == Granted(FALSE, {"t1"}, {"m1"}, FALSE)
L == INSTANCE TaskCalls WITH
       Tasks <- {"t1", "t2"}, Servers <- {"m1"}, Values <- {"v1", "v2"}, Conns <- {"k1", "k2"}, Versions <- {Caller, Called}, Initial <- {[t1 |-> Caller, t2 |-> Called]}, Launch <- {{"v1"}}, Any <- "*", RunIds <- <<"r1", "r2">>, MaxTriggers <- 1, MaxEdits <- 1, MaxCalls <- 3,
       registered <- v1, rows <- v2, runs <- v3, conn <- v4, logs <- v5, trail <- v6, edits <- v7,
       calls <- v8

-----------------------------------------------------------------------------
N == INSTANCE ControlSocket WITH
       Daemons <- <<"d1", "d2">>, Clients <- {"c1"}, Kinds <- {"task", "detach"}, PeerCred <- FALSE, MaxCrashes <- 1,
       path <- v1, token <- v2, port <- v3, dm <- v4, rows <- v5, cl <- v6, did <- v7,
       overlapped <- v8, crashes <- v9

-----------------------------------------------------------------------------
\* A step to approve, and one with a field that must be given and one that may.
Wizard ==
  {[fields |-> {}, required |-> {}, atLeast |-> 0], [fields |-> {"a", "b"}, required |-> {"a"}, atLeast |-> 1]}
M == INSTANCE CliFollow WITH
       RunIds <- <<"r1", "r2", "r3">>, Clients <- {"c1"}, Forms <- Wizard, Answers <- {{}, {"a"}}, MaxReloads <- 1,
       rows <- v1, daemon <- v2, cl <- v3, sent <- v4, reloads <- v5

-----------------------------------------------------------------------------
EnvEntry(kind, key, miss, opt) ==
  [kind |-> kind, key |-> key, provider |-> "p1", optional |-> opt, default |-> FALSE, ifMissing |-> miss]
\* A secret with a prerequisite beside one of a provider, and two of a provider.
EnvSpecs ==
  {<<EnvEntry("secret", "k1", TRUE, FALSE), EnvEntry("task", "k2", FALSE, FALSE)>>,
   <<EnvEntry("task", "k1", FALSE, FALSE), EnvEntry("task", "k2", FALSE, TRUE)>>}
\* The secret may be there; nothing else is kept in the store.
EnvStores == {[k \in {"k1", "k2"} |-> 0], [k \in {"k1", "k2"} |-> IF k = "k1" THEN 1 ELSE 0]}
E == INSTANCE EnvResolve WITH
       Runs <- {"r1", "r2"}, Keys <- {"k1", "k2"}, Providers <- {"p1"}, Specs <- EnvSpecs, Stores <- EnvStores, TTL <- 1, MaxVersion <- 1, MaxContent <- 2, MaxNow <- 1, MaxPrereqs <- 2, MaxEdits <- 1,
       store <- v1, provider <- v2, cache <- v3, flight <- v4, run <- v5, prereqs <- v6,
       edits <- v7, now <- v8

-----------------------------------------------------------------------------
ReviewedFiles == {[yaml |-> 1, main |-> 1], [yaml |-> 2, main |-> 0]}
DeclaredEnv(name, value, secret, ref, default) ==
  [name |-> name, value |-> value, secret |-> secret, ref |-> ref, default |-> default, optional |-> FALSE]
\* A daemon; the override sets its restart policy and a literal, the file where a variable
\* comes from and the image.
ReviewedSpecs ==
  [k \in {1, 2} \X {1, 2} |->
    [name |-> "n1", image |-> IF k[1] = 1 THEN "i1" ELSE "i2", boxEnv |-> [x \in {"b"} |-> "lit1"],
     net |-> "any", timeout |-> "s1",
     env |-> {DeclaredEnv("A", IF k[2] = 2 THEN "lit1" ELSE "lit2", None, None, None),
              DeclaredEnv("B", None, "sec", None, "lit1"),
              DeclaredEnv("C", None, None, IF k[1] = 1 THEN <<"task", "p">> ELSE <<"host", "H">>, None)},
     params |-> {[name |-> "q", required |-> FALSE, default |-> "lit2"]},
     trigger |-> [kind |-> "daemon", at |-> "x", auth |-> None,
                  restart |-> IF k[2] = 2 THEN "always" ELSE "never",
                  params |-> [x \in {"p"} |-> "lit1"], key |-> "lit2"]]]
G == INSTANCE ApprovalReview WITH
       Viewers <- {"v1"}, Tokens <- {"k1"}, Files <- {"yaml", "main"}, Contents <- ReviewedFiles, SpecOf <- ReviewedSpecs, Overs <- {1, 2}, Literals <- {"lit1", "lit2"}, MaxChanges <- 2, MaxAdmits <- 2, MaxViews <- 1,
       trees <- v1, over <- v2, rec <- v3, registered <- v4, pending <- v5, lock <- v6,
       statuses <- v7, tokens <- v8, view <- v9, grants <- v10, armed <- v11, edits <- v12,
       asked <- v13

\* None is no hash either: a link that was not minted can be told from one that was.
ASSUME NoneIsNoHash ==
  None \notin {G!ContentHash(ReviewedSpecs[k], c) : k \in {1, 2} \X {1, 2}, c \in ReviewedFiles}

-----------------------------------------------------------------------------
vars == <<part, cells>>

\* The cells past the first i are not in use.
Unused16 == v17 = None /\ v18 = None /\ v19 = None /\ v20 = None
Unused15 == v16 = None /\ Unused16
Unused13 == v14 = None /\ v15 = None /\ Unused15
Unused11 == v12 = None /\ v13 = None /\ Unused13
Unused10 == v11 = None /\ Unused11
Unused9 == v10 = None /\ Unused10
Unused8 == v9 = None /\ Unused9
Unused5 == v6 = None /\ v7 = None /\ v8 = None /\ Unused8

Tail16 == <<v17, v18, v19, v20>>
Tail15 == <<v16, v17, v18, v19, v20>>
Tail13 == <<v14, v15, v16, v17, v18, v19, v20>>
Tail11 == <<v12, v13, v14, v15, v16, v17, v18, v19, v20>>
Tail10 == <<v11, v12, v13, v14, v15, v16, v17, v18, v19, v20>>
Tail9 == <<v10, v11, v12, v13, v14, v15, v16, v17, v18, v19, v20>>
Tail8 == <<v9, v10, v11, v12, v13, v14, v15, v16, v17, v18, v19, v20>>
Tail5 == <<v6, v7, v8, v9, v10, v11, v12, v13, v14, v15, v16, v17, v18, v19, v20>>

Init ==
  \/ part = "triggers" /\ T!Init /\ Unused16
  \/ part = "blobs" /\ B!Init /\ Unused9
  \/ part = "inputs" /\ I!Init /\ Unused9
  \/ part = "web" /\ W!Init /\ Unused10
  \/ part = "clones" /\ D!Init /\ Unused10
  \/ part = "authoring" /\ A!Init /\ Unused8
  \/ part = "process" /\ P!Init
  \/ part = "resolver" /\ R!Init /\ Unused9
  \/ part = "watch" /\ S!Init /\ Unused16
  \/ part = "config" /\ C!Init /\ Unused11
  \/ part = "routes" /\ H!Init /\ Unused9
  \/ part = "fires" /\ F!Init /\ Unused11
  \/ part = "containers" /\ K!Init /\ Unused15
  \/ part = "calls" /\ L!Init /\ Unused8
  \/ part = "control" /\ N!Init /\ Unused9
  \/ part = "follow" /\ M!Init /\ Unused5
  \/ part = "env" /\ E!Init /\ Unused8
  \/ part = "review" /\ G!Init /\ Unused13

Next ==
  /\ UNCHANGED part
  /\ \/ part = "triggers" /\ T!Next /\ UNCHANGED Tail16
     \/ part = "blobs" /\ B!Next /\ UNCHANGED Tail9
     \/ part = "inputs" /\ I!Next /\ UNCHANGED Tail9
     \/ part = "web" /\ W!Next /\ UNCHANGED Tail10
     \/ part = "clones" /\ D!Next /\ UNCHANGED Tail10
     \/ part = "authoring" /\ A!Next /\ UNCHANGED Tail8
     \/ part = "process" /\ P!Next
     \/ part = "resolver" /\ R!Next /\ UNCHANGED Tail9
     \/ part = "watch" /\ S!Next /\ UNCHANGED Tail16
     \/ part = "config" /\ C!Next /\ UNCHANGED Tail11
     \/ part = "routes" /\ H!Next /\ UNCHANGED Tail9
     \/ part = "fires" /\ F!Next /\ UNCHANGED Tail11
     \/ part = "containers" /\ K!Next /\ UNCHANGED Tail15
     \/ part = "calls" /\ L!Next /\ UNCHANGED Tail8
     \/ part = "control" /\ N!Next /\ UNCHANGED Tail9
     \/ part = "follow" /\ M!Next /\ UNCHANGED Tail5
     \/ part = "env" /\ E!Next /\ UNCHANGED Tail8
     \/ part = "review" /\ G!Next /\ UNCHANGED Tail13

Spec == Init /\ [][Next]_vars

-----------------------------------------------------------------------------
\* Engine: when no registration is under way each task is armed with its schedule once,
\* a pipeline waits only for a stage that is not there, and a row is of its schedule.
ArmedAsRegistered == part = "triggers" => T!TypeOK /\ T!ArmedAsRegistered /\ T!RowOfItsSchedule

\* Engine.Register: a reload that keeps path or schedule leaves no moment without it.
ReloadKeeps == [][part = "triggers" => T!ReloadKeeps]_vars

\* PersistResumeState, ResumeRun and the sweep: a suspended run has its state until it is
\* continued, a stored state can be found, and a continuation is of its conversation.
\* PersistInput, the retention sweep and delete_inputs: a stored input can be found by the
\* next sweep, and a row that names an input has one.
StoredIsKept ==
  /\ part = "blobs" => B!TypeOK /\ B!SuspendedKeepsItsState /\ B!BlobsAreFound /\ B!ContinuesAsItself
  /\ part = "inputs" => I!TypeOK /\ I!InputsAreFound /\ I!KeysAreBacked

\* requireAuth, renewFromDevice and SetPassphrase: no login outlives a change of the
\* passphrase, a trusted device has one row, and a drift of its network stays visible.
LoginsAreCurrent ==
  part = "web" => W!TypeOK /\ W!NothingOutlivesAChange /\ W!TrustedOnce /\ W!DriftIsVisible

\* Source.SetDevMode, deleteGit, CreateTask, EditTask and deleteLocal: what a source resolves
\* from exists and no clone is left behind; a taskset lists what is on disk and nothing else
\* is; a turn goes on from the last one, and a deletion pushes what its own clone changed.
AuthoringHolds ==
  /\ part = "clones" =>
       D!TypeOK /\ D!ClonesAreLive /\ D!NoCloneIsLeft /\ D!DevModeFollows /\ D!DeletesInItsClone
  /\ part = "authoring" => A!TypeOK /\ A!ListedIsThere /\ A!TurnsGoOn

\* AwaitBridgeCompletion and Server.Stop: a run's outcome is what its process was told is
\* taken, nothing of the run is left behind, and no log entry is lost.
\* docker.Run, the podman executor and CleanupOrphanedContainers: every container has
\* someone to remove it, a task has one at a time, and none is made against the policy.
RunsEndWhole ==
  /\ part = "process" => P!TypeOK /\ P!OutcomeIsTheTasks /\ P!NothingIsLeft /\ P!LogsAreKept
  /\ part = "containers" => K!TypeOK /\ K!EachHasAnOwner /\ K!OneContainer /\ K!AllowedOnly


\* apiAddSource, apiRemoveSource, apiPatchTaskOverrides and the raw editor: what runs is
\* configured, a restart runs the same, and overrides reach the source that runs.
ConfigAgrees ==
  part = "config" => C!TypeOK /\ C!RestartKeeps /\ C!AddedStays /\ C!NoOrphan /\ C!OverridesReach

\* Gateway, newArmDisarm, http.register and ipcHandler: a claimed path is routed to its
\* holder, none to a handler that is gone, and no message loop hangs on an answer.
\* webhookAuthGuard, WebhookHandler and the replay cache: a webhook fires once per signed
\* request and by right of the version it found, and gives its slot back.
HooksAreServed ==
  /\ part = "routes" => H!TypeOK /\ H!ClaimIsRouted /\ H!NoDeadRoute /\ H!LoopsGoOn
  /\ part = "fires" => F!TypeOK /\ F!OncePerWindow /\ F!FiredByRight /\ F!SlotsReturn

\* handleConn: every fire by a run is audited, a loop waits for its own run, and no log row
\* shows a secret, while the connections of a run output and log at once.
CallsAreGranted ==
  part = "calls" =>
    L!TypeOK /\ L!FiresAreAudited /\ L!NoSecretLogged /\ L!WaitsForItsOwn

\* ensureDaemon, ControlServer and the follow loop: a command reaches the daemon that serves,
\* once it is ready; a wizard is answered once, with consent, and interrupted for good.
CommandsAreServed ==
  /\ part = "control" => N!TypeOK /\ N!TasksAreThere /\ N!ServingIsReached /\ N!RowsAreOfTheLiving /\ N!OneStays
  /\ part = "follow" => M!TypeOK /\ M!ResumedOnce /\ M!ConsentIsGiven /\ M!FollowsItsOwn

\* preflightEnv, Resolver.Resolve and resolveIfMissing: a deno or python run starts with every
\* secret it requires (a container may not); what a provider's cache has is its content's of
\* the lookup; a provider fires once for a run, and no one waits for a prerequisite that
\* nobody runs.
EnvIsWhole ==
  part = "env" => E!TypeOK /\ E!StartsWhole /\ E!ValuesAreCurrent /\ E!ProvidersFireOnce /\ E!WaitsEnd

\* Gate.StateFor, ApproveIfHash and the approve links: what an approval arms reaches what its
\* screen showed, marks are true of the range on the screen, and no inline value is shown.
ReviewIsExact ==
  part = "review" => G!TypeOK /\ G!ArmedAsShown /\ G!MarksAreTrue /\ G!NoLiteralShown /\ G!LinkIsExact
===============================================================================
