--------------------------- MODULE DaemonLifecycle ---------------------------
(***************************************************************************)
(* The lifecycle of one standalone daemon task in pkg/trigger: register,   *)
(* start, exit, restart, suspend, resume, deadline sweep, operator kill,   *)
(* unregister and engine shutdown, as the goroutines that carry them out.  *)
(*                                                                         *)
(* A goroutine is a caller of DaemonSlots.  Its program counter names the  *)
(* next statement that touches shared state; each such statement is one    *)
(* action.  Daemons with different task IDs share only the shutdown state, *)
(* so one key, Daemon, is modelled.                                        *)
(*                                                                         *)
(* Abstracted: the length of the restart backoff (any delay), the exit     *)
(* time of a body (an exit is quick or sustained, either one), chains,     *)
(* hooks and audit events of a finishing run, and the contents of a        *)
(* suspension.                                                             *)
(***************************************************************************)
EXTENDS DaemonSlots, Naturals

CONSTANTS
  Daemon,             \* the slot key of the daemon
  Registrars,         \* goroutines that call Engine.Register / Unregister
  Resumers,           \* API goroutines in Engine.ResumeRun
  Sweepers,           \* goroutines of SweepExpiredSuspensions
  ManualRuns,         \* run IDs used by manual fires of the daemon task
  Policies,           \* restart policies a spec of the daemon may carry
  CrashloopThreshold, \* quick failures that make a crash loop
  MaxReloads,         \* bound: Register / Unregister calls in a behaviour
  Events,             \* which of "db" (SQLite reads and writes fail), "refuse"
                      \* (the fire guard or the row insert refuses a run), "kill"
                      \* (an operator kills a run) and "stop" (the engine's
                      \* context is cancelled) may happen
  NoSpec,             \* no spec registered under the daemon's ID
  NoThread            \* registerMu is free

ASSUME LifecycleAssumption ==
  /\ Daemon \in Keys
  /\ Callers = Registrars \cup Resumers \cup Sweepers \cup RunIDs
  /\ Registrars \cap (Resumers \cup Sweepers \cup RunIDs) = {}
  /\ Resumers \cap (Sweepers \cup RunIDs) = {}
  /\ Sweepers \cap RunIDs = {}
  /\ ManualRuns \subseteq RunIDs
  /\ Policies \subseteq {"always", "on-failure", "never"}
  /\ NoSpec \notin Policies
  /\ NoThread \notin Callers
  /\ CrashloopThreshold \in Nat \ {0}
  /\ MaxReloads \in Nat
  /\ Events \subseteq {"db", "refuse", "kill", "stop"}

VARIABLES
  pc,        \* goroutine -> its next statement
  plan,      \* goroutine -> the spec it works with
  fresh,     \* goroutine -> the run it is launching
  subject,   \* goroutine -> the run it handles (a run goroutine: its own)
  seen,      \* goroutine -> the status it read from the run's row
  row,       \* run -> status in the runs table
  parent,    \* run -> the suspended run it continues
  cancelled, \* runs whose context KillRun has cancelled
  spec,      \* daemonSpecs[Daemon], or NoSpec
  state,     \* daemonStates[Daemon]
  fails,     \* crashloopEntry.quickFails; 0 when there is no entry
  spawned,   \* crashloopEntry.spawnedAt is not zero
  registerMu,\* the registrar holding registerMu
  reloads,   \* Register / Unregister calls so far
  phase,     \* Engine.Start: where it is
  wg,        \* runs counted in runWG
  killList   \* runs Start still has to kill

threadVars == <<pc, plan, fresh, subject, seen>>
rowVars == <<row, parent>>
crashVars == <<fails, spawned>>
regVars == <<registerMu, reloads>>
shutVars == <<phase, wg, killList>>
vars == <<slotVars, threadVars, rowVars, cancelled, spec, state, crashVars,
          regVars, shutVars>>

Threads == Registrars \cup Resumers \cup Sweepers \cup RunIDs

Statuses == {"none", "running", "success", "failure", "cancelled", "suspended", "resumed"}
DaemonStates == {"stopped", "running", "failed_after_preflight", "crashed", "suspended"}
StartPhases == {"up", "stopping", "latched", "killing", "draining", "drained", "expired"}

Labels ==
  {"idle", "unborn", "minted", "exit", "done"}
  \cup {"drop", "evict", "reset", "kill", "enrol", "start"}
  \cup {"noteSpawn", "attach", "clearLost", "publishRunning", "track", "begin",
        "checkEvicted", "failRelease", "failClear", "publishFailed"}
  \cup {"body", "lookup", "releaseBlind", "holdToPark", "park", "publishSuspended", "release",
        "regCheck", "resetCancelled", "publishStopped", "noteExit",
        "publishNoRestart", "backoff", "reclaim", "recheck", "abandon"}
  \cup {"consume", "holdToAdopt", "adopt", "noteRespawn"}
  \cup {"sweepSpec", "sweepRelease", "sweepReg"}

TypeOK ==
  /\ SlotTypeOK
  /\ pc \in [Threads -> Labels]
  /\ plan \in [Threads -> Policies \cup {NoSpec}]
  /\ fresh \in [Threads -> RunIDs \cup {NoRun}]
  /\ subject \in [Threads -> RunIDs \cup {NoRun}]
  /\ seen \in [Threads -> Statuses]
  /\ row \in [RunIDs -> Statuses]
  /\ parent \in [RunIDs -> RunIDs \cup {NoRun}]
  /\ cancelled \subseteq RunIDs
  /\ spec \in Policies \cup {NoSpec}
  /\ state \in DaemonStates
  /\ fails \in 0..CrashloopThreshold
  /\ spawned \in BOOLEAN
  /\ registerMu \in Registrars \cup {NoThread}
  /\ reloads \in 0..MaxReloads
  /\ phase \in StartPhases
  /\ wg \subseteq RunIDs
  /\ killList \subseteq RunIDs

Init ==
  /\ m = [k \in Keys |-> NoEntry]
  /\ bound = [e \in Entries |-> NoRun]
  /\ parked = [e \in Entries |-> FALSE]
  /\ fate = [e \in Entries |-> "unused"]
  /\ handle = [c \in Callers |-> [key |-> Daemon, entry |-> NoEntry, run |-> NoRun]]
  /\ minted = {}
  /\ pc = [t \in Threads |-> IF t \in RunIDs THEN "unborn" ELSE "idle"]
  /\ plan = [t \in Threads |-> NoSpec]
  /\ fresh = [t \in Threads |-> NoRun]
  /\ subject = [t \in Threads |-> IF t \in RunIDs THEN t ELSE NoRun]
  /\ seen = [t \in Threads |-> "none"]
  /\ row = [r \in RunIDs |-> "none"]
  /\ parent = [r \in RunIDs |-> NoRun]
  /\ cancelled = {}
  /\ spec = NoSpec
  /\ state = "stopped"
  /\ fails = 0
  /\ spawned = FALSE
  /\ registerMu = NoThread
  /\ reloads = 0
  /\ phase = "up"
  /\ wg = {}
  /\ killList = {}

-----------------------------------------------------------------------------
(* Helpers.  As in DaemonSlots, an operator named ...Fault is a faulty     *)
(* variant that no action uses.                                            *)

At(t, l) == pc[t] = l
Goto(t, l) == pc' = [pc EXCEPT ![t] = l]
Branch(t, cond, l1, l2) == Goto(t, IF cond THEN l1 ELSE l2)

\* A step of t that touches none of the shared variables but those its own
\* conjuncts change is framed by these.
KeepLocals == UNCHANGED <<plan, fresh, subject, seen>>
KeepRows == UNCHANGED <<rowVars, cancelled>>
KeepStatus == UNCHANGED <<state, crashVars>>
KeepEngine == UNCHANGED <<spec, regVars, shutVars>>

\* KillRun finds the run's cancel function from beginRun to the end of runTask.
Kill(r) == cancelled' = IF r \in RunIDs /\ pc[r] = "body" THEN cancelled \cup {r} ELSE cancelled

\* isShuttingDown reads the context; trackRun reads the latch set after it.
ShuttingDown == phase # "up"
Latched == phase \notin {"up", "stopping"}

\* The crash-loop tracker.
NoteSpawn == spawned' = (fails > 0) /\ UNCHANGED fails
ClearSpawn == spawned' = FALSE /\ UNCHANGED fails
ResetTracker == fails' = 0 /\ spawned' = FALSE
NoteExit(clean, sustained) ==
  /\ spawned' = FALSE
  /\ fails' = IF clean \/ sustained THEN 0
              ELSE IF fails < CrashloopThreshold THEN fails + 1 ELSE fails

\* The publishing of a daemon state is a statement of its own everywhere.
Publish(t, from, s, to) ==
  /\ At(t, from)
  /\ state' = s
  /\ Goto(t, to)
  /\ UNCHANGED <<slotVars, crashVars>>
  /\ KeepLocals /\ KeepRows /\ KeepEngine

-----------------------------------------------------------------------------
(* Engine.Register and Engine.Unregister.                                  *)

\* Register: p is the spec's restart policy, or NoSpec for a spec that arms no
\* daemon (disabled, or refused by the chain-cycle check).
CallRegister(t, p) ==
  /\ At(t, "idle")
  /\ reloads < MaxReloads
  /\ registerMu = NoThread
  /\ registerMu' = t
  /\ reloads' = reloads + 1
  /\ plan' = [plan EXCEPT ![t] = p]
  /\ Goto(t, "drop")
  /\ UNCHANGED <<slotVars, fresh, subject, seen, spec, shutVars>>
  /\ KeepRows /\ KeepStatus

\* Unregister takes registerMu only around the deferred-pipeline delete.
CallUnregister(t) ==
  /\ At(t, "idle")
  /\ reloads < MaxReloads
  /\ registerMu = NoThread
  /\ reloads' = reloads + 1
  /\ Goto(t, "drop")
  /\ UNCHANGED <<slotVars, registerMu, spec, shutVars>>
  /\ KeepLocals /\ KeepRows /\ KeepStatus

DropSpec(t) ==
  /\ At(t, "drop")
  /\ spec' = NoSpec
  /\ Goto(t, "evict")
  /\ UNCHANGED <<slotVars, regVars, shutVars>>
  /\ KeepLocals /\ KeepRows /\ KeepStatus

EvictSlot(t) ==
  /\ At(t, "evict")
  /\ subject' = [subject EXCEPT ![t] = Current(Daemon)]
  /\ IF m[Daemon] = NoEntry THEN UNCHANGED slotVars ELSE Evict(Daemon)
  /\ Goto(t, "reset")
  /\ UNCHANGED <<plan, fresh, seen>>
  /\ KeepRows /\ KeepStatus /\ KeepEngine

ResetCrashLoop(t) ==
  /\ At(t, "reset")
  /\ ResetTracker
  /\ Goto(t, "kill")
  /\ UNCHANGED <<slotVars, state>>
  /\ KeepLocals /\ KeepRows /\ KeepEngine

\* Leaves the evicted body running.
KillEvictedRunFault(t) ==
  /\ At(t, "kill")
  /\ Branch(t, plan[t] = NoSpec, "exit", "enrol")
  /\ UNCHANGED <<slotVars, rowVars, cancelled>>
  /\ KeepLocals /\ KeepStatus /\ KeepEngine

KillEvictedRun(t) ==
  /\ At(t, "kill")
  /\ Kill(subject[t])
  /\ Branch(t, plan[t] = NoSpec, "exit", "enrol")
  /\ UNCHANGED <<slotVars, rowVars>>
  /\ KeepLocals /\ KeepStatus /\ KeepEngine

Enrol(t) ==
  /\ At(t, "enrol")
  /\ spec' = plan[t]
  /\ Goto(t, "start")
  /\ UNCHANGED <<slotVars, regVars, shutVars>>
  /\ KeepLocals /\ KeepRows /\ KeepStatus

\* startDaemon: claim the slot, or coalesce with the body in flight.
StartDaemon(t) ==
  /\ At(t, "start")
  /\ \/ Claim(t, Daemon) /\ Goto(t, "noteSpawn")
     \/ m[Daemon] # NoEntry /\ Goto(t, "exit") /\ UNCHANGED slotVars
  /\ KeepLocals /\ KeepRows /\ KeepStatus /\ KeepEngine

-----------------------------------------------------------------------------
(* launchDaemon, on a claimed slot, by a registrar or a restarting goroutine. *)

LaunchNoteSpawn(t) ==
  /\ At(t, "noteSpawn")
  /\ NoteSpawn
  /\ Goto(t, "attach")
  /\ UNCHANGED <<slotVars, state>>
  /\ KeepLocals /\ KeepRows /\ KeepEngine

LaunchAttach(t) ==
  /\ At(t, "attach")
  /\ \/ \E r \in RunIDs \ ManualRuns :
          /\ Attach(t, r)
          /\ pc' = [pc EXCEPT ![t] = "publishRunning", ![r] = "minted"]
          /\ fresh' = [fresh EXCEPT ![t] = r]
     \/ /\ ~Owned(t)
        /\ Goto(t, "clearLost")
        /\ UNCHANGED <<slotVars, fresh>>
  /\ UNCHANGED <<plan, subject, seen>>
  /\ KeepRows /\ KeepStatus /\ KeepEngine

LaunchLost(t) ==
  /\ At(t, "clearLost")
  /\ ClearSpawn
  /\ Goto(t, "exit")
  /\ UNCHANGED <<slotVars, state>>
  /\ KeepLocals /\ KeepRows /\ KeepEngine

PublishRunning(t) == Publish(t, "publishRunning", "running", "track")

\* Admits runs after the shutdown latch.
TrackRunFault(t) ==
  /\ At(t, "track")
  /\ Goto(t, "begin")
  /\ wg' = wg \cup {fresh[t]}
  /\ UNCHANGED <<slotVars, spec, regVars, phase, killList>>
  /\ KeepLocals /\ KeepRows /\ KeepStatus

\* fireAsync: trackRun refuses once the shutdown latch is set.
TrackRun(t) ==
  /\ At(t, "track")
  /\ Branch(t, Latched, "failRelease", "begin")
  /\ wg' = IF Latched THEN wg ELSE wg \cup {fresh[t]}
  /\ UNCHANGED <<slotVars, spec, regVars, phase, killList>>
  /\ KeepLocals /\ KeepRows /\ KeepStatus

\* beginRun opens the row and registers the cancellation; the run's goroutine
\* starts with the spec of its launcher.
BeginRun(t) ==
  /\ At(t, "begin")
  /\ pc' = [pc EXCEPT ![t] = "checkEvicted", ![fresh[t]] = "body"]
  /\ plan' = [plan EXCEPT ![fresh[t]] = plan[t]]
  /\ row' = [row EXCEPT ![fresh[t]] = "running"]
  /\ parent' = [parent EXCEPT ![fresh[t]] = IF t \in Resumers THEN subject[t] ELSE NoRun]
  /\ UNCHANGED <<slotVars, fresh, subject, seen, cancelled>>
  /\ KeepStatus /\ KeepEngine

\* The fire guard vetoes the run, or its row cannot be inserted; fireAsync's
\* deferred Done gives the drain slot back.
RefuseRun(t) ==
  /\ "refuse" \in Events
  /\ At(t, "begin")
  /\ Goto(t, "failRelease")
  /\ wg' = wg \ {fresh[t]}
  /\ UNCHANGED <<slotVars, spec, regVars, phase, killList>>
  /\ KeepLocals /\ KeepRows /\ KeepStatus

LaunchFailRelease(t) ==
  /\ At(t, "failRelease")
  /\ \/ Release(t, fresh[t])
     \/ ~(Owned(t) /\ bound[handle[t].entry] = fresh[t]) /\ UNCHANGED slotVars
  /\ Goto(t, "failClear")
  /\ KeepLocals /\ KeepRows /\ KeepStatus /\ KeepEngine

LaunchFailClear(t) ==
  /\ At(t, "failClear")
  /\ ClearSpawn
  /\ Goto(t, "publishFailed")
  /\ UNCHANGED <<slotVars, state>>
  /\ KeepLocals /\ KeepRows /\ KeepEngine

PublishFailed(t) == Publish(t, "publishFailed", "failed_after_preflight", "exit")

\* An unregistration's KillRun misses a run that had not begun.
KillIfEvicted(t) ==
  /\ At(t, "checkEvicted")
  /\ IF Evicted(t) THEN Kill(fresh[t]) ELSE UNCHANGED cancelled
  /\ Goto(t, "exit")
  /\ UNCHANGED <<slotVars, rowVars>>
  /\ KeepLocals /\ KeepStatus /\ KeepEngine

\* The call returns: locals and handle go out of scope, Register's deferred
\* unlock and a run goroutine's deferred runWG.Done run.
Exit(t) ==
  /\ At(t, "exit")
  /\ Goto(t, IF t \in RunIDs THEN "done" ELSE "idle")
  /\ Discard(t)
  /\ plan' = [plan EXCEPT ![t] = NoSpec]
  /\ fresh' = [fresh EXCEPT ![t] = NoRun]
  /\ subject' = [subject EXCEPT ![t] = IF t \in RunIDs THEN t ELSE NoRun]
  /\ seen' = [seen EXCEPT ![t] = "none"]
  /\ registerMu' = IF registerMu = t THEN NoThread ELSE registerMu
  /\ wg' = wg \ {t}
  /\ UNCHANGED <<reloads, spec, phase, killList>>
  /\ KeepRows /\ KeepStatus

-----------------------------------------------------------------------------
(* A run goroutine: the body, then onDaemonRunFinished.                    *)

\* The body returns and dispatch writes its outcome: a cancelled context only
\* turns an error into "cancelled", and SuspendRun finds the row running.  A
\* failed write leaves the row as it was.
BodyEnds(r) ==
  /\ At(r, "body")
  /\ \E s \in {"success", "failure", "cancelled", "suspended", "running"} :
       /\ s = "cancelled" => r \in cancelled
       /\ s = "running" => "db" \in Events
       /\ row' = [row EXCEPT ![r] = s]
  /\ Goto(r, "lookup")
  /\ UNCHANGED <<slotVars, parent, cancelled>>
  /\ KeepLocals /\ KeepStatus /\ KeepEngine

LookupStatus(r) ==
  /\ At(r, "lookup")
  /\ \/ /\ seen' = [seen EXCEPT ![r] = row[r]]
        /\ Branch(r, row[r] = "suspended", "holdToPark", "release")
     \/ "db" \in Events /\ Goto(r, "releaseBlind") /\ UNCHANGED seen
  /\ UNCHANGED <<slotVars, plan, fresh, subject>>
  /\ KeepRows /\ KeepStatus /\ KeepEngine

\* The status could not be read: the slot is freed and nothing else happens.
ReleaseBlind(r) ==
  /\ At(r, "releaseBlind")
  /\ ReleaseRun(Daemon, r) \/ (~BoundTo(Daemon, r) /\ UNCHANGED slotVars)
  /\ Goto(r, "exit")
  /\ KeepLocals /\ KeepRows /\ KeepStatus /\ KeepEngine

HoldToPark(r) ==
  /\ At(r, "holdToPark")
  /\ \/ Holding(r, Daemon, r) /\ Goto(r, "park")
     \/ ~BoundTo(Daemon, r) /\ Goto(r, "exit") /\ UNCHANGED slotVars
  /\ KeepLocals /\ KeepRows /\ KeepStatus /\ KeepEngine

ParkSlot(r) ==
  /\ At(r, "park")
  /\ \/ Park(r) /\ Goto(r, "publishSuspended")
     \/ /\ ~(Owned(r) /\ bound[handle[r].entry] = handle[r].run)
        /\ Goto(r, "exit")
        /\ UNCHANGED slotVars
  /\ KeepLocals /\ KeepRows /\ KeepStatus /\ KeepEngine

PublishSuspended(r) == Publish(r, "publishSuspended", "suspended", "exit")

\* A slot no longer bound to this run: a stale finish, which stops here.
ReleaseFinished(r) ==
  /\ At(r, "release")
  /\ \/ ReleaseRun(Daemon, r) /\ Goto(r, "regCheck")
     \/ ~BoundTo(Daemon, r) /\ Goto(r, "exit") /\ UNCHANGED slotVars
  /\ KeepLocals /\ KeepRows /\ KeepStatus /\ KeepEngine

CheckRegistered(r) ==
  /\ At(r, "regCheck")
  /\ Goto(r, IF spec = NoSpec \/ ShuttingDown THEN "exit"
             ELSE IF seen[r] = "cancelled" THEN "resetCancelled" ELSE "noteExit")
  /\ UNCHANGED slotVars
  /\ KeepLocals /\ KeepRows /\ KeepStatus /\ KeepEngine

\* An operator's kill: no crash, no restart.
ResetCancelled(r) ==
  /\ At(r, "resetCancelled")
  /\ ResetTracker
  /\ Goto(r, "publishStopped")
  /\ UNCHANGED <<slotVars, state>>
  /\ KeepLocals /\ KeepRows /\ KeepEngine

PublishStopped(t) == Publish(t, "publishStopped", "stopped", "exit")

-----------------------------------------------------------------------------
(* restartDaemonAfterExit, in a run goroutine or a sweep goroutine.        *)

\* Restarts only what failed, whatever the policy.
RestartsFault(policy, status) == policy # "never" /\ status = "failure"

Restarts(policy, status) ==
  \/ policy = "always"
  \/ policy = "on-failure" /\ status = "failure"

\* A row without finished_at counts as an instant crash.
AccountExit(t) ==
  /\ At(t, "noteExit")
  /\ \E sustained \in BOOLEAN :
       /\ seen[t] = "running" => ~sustained
       /\ NoteExit(seen[t] = "success", sustained)
  /\ Branch(t, Restarts(plan[t], seen[t]), "backoff", "publishNoRestart")
  /\ UNCHANGED <<slotVars, state>>
  /\ KeepLocals /\ KeepRows /\ KeepEngine

PublishNoRestart(t) ==
  Publish(t, "publishNoRestart", IF seen[t] = "success" THEN "stopped" ELSE "crashed", "exit")

\* The sleep ends, by the timer or by the shutdown context.
Backoff(t) ==
  /\ At(t, "backoff")
  /\ Branch(t, ShuttingDown, "exit", "reclaim")
  /\ UNCHANGED slotVars
  /\ KeepLocals /\ KeepRows /\ KeepStatus /\ KeepEngine

Reclaim(t) ==
  /\ At(t, "reclaim")
  /\ \/ Claim(t, Daemon) /\ Goto(t, "recheck")
     \/ m[Daemon] # NoEntry /\ Goto(t, "exit") /\ UNCHANGED slotVars
  /\ KeepLocals /\ KeepRows /\ KeepStatus /\ KeepEngine

\* Launches the spec of the exited body without looking it up.
RecheckFault(t) ==
  /\ At(t, "recheck")
  /\ Goto(t, "noteSpawn")
  /\ UNCHANGED slotVars
  /\ KeepLocals /\ KeepRows /\ KeepStatus /\ KeepEngine

\* An unregistration during the sleep must not be undone; a re-registration
\* supplies the spec to start.
Recheck(t) ==
  /\ At(t, "recheck")
  /\ plan' = [plan EXCEPT ![t] = IF spec = NoSpec THEN plan[t] ELSE spec]
  /\ Branch(t, spec = NoSpec, "abandon", "noteSpawn")
  /\ UNCHANGED <<slotVars, fresh, subject, seen>>
  /\ KeepRows /\ KeepStatus /\ KeepEngine

Abandon(t) ==
  /\ At(t, "abandon")
  /\ \/ Release(t, NoRun)
     \/ ~(Owned(t) /\ bound[handle[t].entry] = NoRun) /\ UNCHANGED slotVars
  /\ Goto(t, "exit")
  /\ KeepLocals /\ KeepRows /\ KeepStatus /\ KeepEngine

-----------------------------------------------------------------------------
(* Engine.ResumeRun and resumeDaemonBody.                                  *)

\* Everything before the token is consumed only reads; p is the policy of the
\* spec the registry has for the task now.
CallResume(u, r, p) ==
  /\ At(u, "idle")
  /\ row[r] = "suspended"
  /\ subject' = [subject EXCEPT ![u] = r]
  /\ plan' = [plan EXCEPT ![u] = p]
  /\ Goto(u, "consume")
  /\ UNCHANGED <<slotVars, fresh, seen>>
  /\ KeepRows /\ KeepStatus /\ KeepEngine

\* Ignores that the UPDATE changed no row.
ConsumeTokenFault(u) ==
  /\ At(u, "consume")
  /\ row' = [row EXCEPT ![subject[u]] = IF row[subject[u]] = "suspended" THEN "resumed" ELSE @]
  /\ Goto(u, "holdToAdopt")
  /\ UNCHANGED <<slotVars, parent, cancelled>>
  /\ KeepLocals /\ KeepStatus /\ KeepEngine

\* MarkRunResumed: one UPDATE, guarded by the status.
ConsumeToken(u) ==
  /\ At(u, "consume")
  /\ IF row[subject[u]] = "suspended"
     THEN row' = [row EXCEPT ![subject[u]] = "resumed"] /\ Goto(u, "holdToAdopt")
     ELSE UNCHANGED row /\ Goto(u, "exit")
  /\ UNCHANGED <<slotVars, parent, cancelled>>
  /\ KeepLocals /\ KeepStatus /\ KeepEngine

HoldToAdopt(u) ==
  /\ At(u, "holdToAdopt")
  /\ \/ Holding(u, Daemon, subject[u]) /\ Goto(u, "adopt")
     \/ ~BoundTo(Daemon, subject[u]) /\ Goto(u, "exit") /\ UNCHANGED slotVars
  /\ KeepLocals /\ KeepRows /\ KeepStatus /\ KeepEngine

AdoptSlot(u) ==
  /\ At(u, "adopt")
  /\ \/ \E r \in RunIDs \ ManualRuns :
          /\ Adopt(u, r)
          /\ pc' = [pc EXCEPT ![u] = "noteRespawn", ![r] = "minted"]
          /\ fresh' = [fresh EXCEPT ![u] = r]
     \/ /\ ~(Owned(u) /\ bound[handle[u].entry] = handle[u].run)
        /\ Goto(u, "exit")
        /\ UNCHANGED <<slotVars, fresh>>
  /\ UNCHANGED <<plan, subject, seen>>
  /\ KeepRows /\ KeepStatus /\ KeepEngine

ResumeNoteSpawn(u) ==
  /\ At(u, "noteRespawn")
  /\ NoteSpawn
  /\ Goto(u, "publishRunning")
  /\ UNCHANGED <<slotVars, state>>
  /\ KeepLocals /\ KeepRows /\ KeepEngine

-----------------------------------------------------------------------------
(* SweepExpiredSuspensions and onDaemonSuspensionSwept.                    *)

\* Cancels a run that was resumed in the meantime.
SweepRunFault(s, r) ==
  /\ At(s, "idle")
  /\ row[r] \in {"suspended", "resumed"}
  /\ row' = [row EXCEPT ![r] = "cancelled"]
  /\ subject' = [subject EXCEPT ![s] = r]
  /\ seen' = [seen EXCEPT ![s] = "cancelled"]
  /\ Goto(s, "sweepSpec")
  /\ UNCHANGED <<slotVars, plan, fresh, parent, cancelled>>
  /\ KeepStatus /\ KeepEngine

\* The registry cancels a suspension past its deadline with a guarded UPDATE.
SweepRun(s, r) ==
  /\ At(s, "idle")
  /\ row[r] = "suspended"
  /\ row' = [row EXCEPT ![r] = "cancelled"]
  /\ subject' = [subject EXCEPT ![s] = r]
  /\ seen' = [seen EXCEPT ![s] = "cancelled"]
  /\ Goto(s, "sweepSpec")
  /\ UNCHANGED <<slotVars, plan, fresh, parent, cancelled>>
  /\ KeepStatus /\ KeepEngine

\* Does not route the run to the daemon lifecycle.
SweepReadSpecFault(s) ==
  /\ At(s, "sweepSpec")
  /\ Goto(s, "exit")
  /\ UNCHANGED slotVars
  /\ KeepLocals /\ KeepRows /\ KeepStatus /\ KeepEngine

\* The engine routes the run to the daemon lifecycle if its task is registered
\* as a daemon and the row can be loaded.
SweepReadSpec(s) ==
  /\ At(s, "sweepSpec")
  /\ plan' = [plan EXCEPT ![s] = spec]
  /\ \/ Branch(s, spec = NoSpec, "exit", "sweepRelease")
     \/ "db" \in Events /\ Goto(s, "exit")
  /\ UNCHANGED <<slotVars, fresh, subject, seen>>
  /\ KeepRows /\ KeepStatus /\ KeepEngine

SweepRelease(s) ==
  /\ At(s, "sweepRelease")
  /\ \/ ReleaseRun(Daemon, subject[s]) /\ Goto(s, "sweepReg")
     \/ ~BoundTo(Daemon, subject[s]) /\ Goto(s, "exit") /\ UNCHANGED slotVars
  /\ KeepLocals /\ KeepRows /\ KeepStatus /\ KeepEngine

SweepCheckRegistered(s) ==
  /\ At(s, "sweepReg")
  /\ Branch(s, spec = NoSpec \/ ShuttingDown, "publishStopped", "noteExit")
  /\ UNCHANGED slotVars
  /\ KeepLocals /\ KeepRows /\ KeepStatus /\ KeepEngine

-----------------------------------------------------------------------------
(* Operators and observers.                                                *)

\* A manual fire of the daemon task has no slot; its goroutine still runs
\* onDaemonRunFinished.
FireManual(r, p) ==
  /\ At(r, "unborn")
  /\ ~Latched
  /\ Goto(r, "body")
  /\ plan' = [plan EXCEPT ![r] = p]
  /\ row' = [row EXCEPT ![r] = "running"]
  /\ wg' = wg \cup {r}
  /\ UNCHANGED <<slotVars, fresh, subject, seen, parent, cancelled, spec, regVars,
                 phase, killList>>
  /\ KeepStatus

KillByOperator(r) ==
  /\ "kill" \in Events
  /\ At(r, "body")
  /\ Kill(r)
  /\ UNCHANGED <<slotVars, threadVars, rowVars>>
  /\ KeepStatus /\ KeepEngine

\* isCrashLooping clears the tracker when the live spawn has sustained.
ReportSustained ==
  /\ fails = CrashloopThreshold
  /\ spawned
  /\ ResetTracker
  /\ UNCHANGED <<slotVars, threadVars, state>>
  /\ KeepRows /\ KeepEngine

-----------------------------------------------------------------------------
(* Engine.Start after its context is cancelled.                            *)

StartStep(from, to) ==
  /\ phase = from
  /\ phase' = to
  /\ UNCHANGED <<slotVars, threadVars, spec, regVars>>
  /\ KeepStatus

CancelContext ==
  "stop" \in Events /\ StartStep("up", "stopping") /\ KeepRows /\ UNCHANGED <<wg, killList>>

BeginShutdown == StartStep("stopping", "latched") /\ KeepRows /\ UNCHANGED <<wg, killList>>

SnapshotSlots ==
  /\ StartStep("latched", "killing")
  /\ killList' = {Current(Daemon)} \ {NoRun}
  /\ KeepRows /\ UNCHANGED wg

KillListed ==
  \E r \in killList :
    /\ StartStep("killing", "killing")
    /\ Kill(r)
    /\ killList' = killList \ {r}
    /\ UNCHANGED <<rowVars, wg>>

Drain ==
  /\ killList = {}
  /\ StartStep("killing", "draining")
  /\ KeepRows /\ UNCHANGED <<wg, killList>>

Drained ==
  /\ wg = {}
  /\ StartStep("draining", "drained")
  /\ KeepRows /\ UNCHANGED <<wg, killList>>

GraceElapsed == StartStep("draining", "expired") /\ KeepRows /\ UNCHANGED <<wg, killList>>

-----------------------------------------------------------------------------
RegistrarStep(t) ==
  DropSpec(t) \/ EvictSlot(t) \/ ResetCrashLoop(t) \/ KillEvictedRun(t) \/ Enrol(t)
  \/ StartDaemon(t)

LaunchStep(t) ==
  LaunchNoteSpawn(t) \/ LaunchAttach(t) \/ LaunchLost(t) \/ PublishRunning(t)
  \/ TrackRun(t) \/ BeginRun(t) \/ RefuseRun(t) \/ LaunchFailRelease(t)
  \/ LaunchFailClear(t) \/ PublishFailed(t) \/ KillIfEvicted(t) \/ Exit(t)

RestartStep(t) ==
  PublishStopped(t) \/ AccountExit(t) \/ PublishNoRestart(t) \/ Backoff(t)
  \/ Reclaim(t) \/ Recheck(t) \/ Abandon(t)

FinishStep(r) ==
  LookupStatus(r) \/ ReleaseBlind(r) \/ HoldToPark(r) \/ ParkSlot(r)
  \/ PublishSuspended(r) \/ ReleaseFinished(r) \/ CheckRegistered(r) \/ ResetCancelled(r)

ResumeStep(u) ==
  ConsumeToken(u) \/ HoldToAdopt(u) \/ AdoptSlot(u) \/ ResumeNoteSpawn(u)

SweepStep(s) == SweepReadSpec(s) \/ SweepRelease(s) \/ SweepCheckRegistered(s)

\* What a goroutine does on its own once it was called.
ThreadStep(t) ==
  \/ LaunchStep(t) \/ RestartStep(t)
  \/ t \in Registrars /\ RegistrarStep(t)
  \/ t \in RunIDs /\ FinishStep(t)
  \/ t \in Resumers /\ ResumeStep(t)
  \/ t \in Sweepers /\ SweepStep(t)

Step == \E t \in Threads : ThreadStep(t)

\* Shutdown once its context is cancelled.
StopStep == BeginShutdown \/ SnapshotSlots \/ KillListed \/ Drain \/ Drained \/ GraceElapsed

\* What the environment chooses to do.
Environment ==
  \/ \E t \in Registrars :
       CallUnregister(t) \/ \E p \in Policies \cup {NoSpec} : CallRegister(t, p)
  \/ \E u \in Resumers, r \in RunIDs, p \in Policies : CallResume(u, r, p)
  \/ \E s \in Sweepers, r \in RunIDs : SweepRun(s, r)
  \/ \E r \in ManualRuns, p \in Policies : FireManual(r, p)
  \/ \E r \in RunIDs : BodyEnds(r) \/ KillByOperator(r)
  \/ ReportSustained
  \/ CancelContext

Next == Step \/ StopStep \/ Environment

Spec == Init /\ [][Next]_vars

\* The Go scheduler runs every goroutine, and a runtime ends a body whose
\* context was cancelled.  Callers may never call, and a body left alone may
\* run for ever.
Fairness ==
  /\ \A t \in Threads : WF_vars(ThreadStep(t))
  /\ \A r \in RunIDs : WF_vars(r \in cancelled /\ BodyEnds(r))

FairSpec == Spec /\ Fairness

-----------------------------------------------------------------------------
(* Safety.                                                                 *)

\* A slot-managed body that has not been told to stop.
Live(r) == r \notin ManualRuns /\ At(r, "body") /\ r \notin cancelled

\* Some goroutine holds r and is committed to KillRun(r).
Condemned(r) ==
  \/ \E t \in Registrars : pc[t] \in {"reset", "kill"} /\ subject[t] = r
  \/ \E t \in Threads : At(t, "checkEvicted") /\ fresh[t] = r /\ Evicted(t)

\* "the 'at most one body in flight' invariant for standalone daemons"
\* (daemon_slot.go:8): across reloads, restarts, resumes and shutdown, a live
\* body either holds the daemon's slot or is about to be killed, so at most
\* one body stays.
OneBody == \A r \in RunIDs : Live(r) => BoundTo(Daemon, r) \/ Condemned(r)

\* "slot stays pinned to a now-cancelled run ... wedging the daemon"
\* (daemon.go:323-325): a slot bound to a run that is over is about to be
\* freed or taken over by a goroutine that is still at work.
NoPinnedSlot ==
  \A r \in RunIDs :
    BoundTo(Daemon, r) /\ row[r] \in {"success", "failure", "cancelled", "resumed"} =>
      \/ pc[r] \in {"lookup", "release"}
      \/ \E s \in Sweepers : pc[s] \in {"sweepSpec", "sweepRelease"} /\ subject[s] = r
      \/ \E u \in Resumers : pc[u] \in {"holdToAdopt", "adopt"} /\ subject[u] = r
      \/ \E t \in Registrars : pc[t] \in {"drop", "evict"}

\* "it must not resurrect the daemon" (daemon.go:301-302): with no spec
\* registered and no registration under way, no body stays, whatever restart,
\* resume or launch was in flight when the task was unregistered.
GoneWhenUnregistered ==
  spec = NoSpec /\ (\A t \in Registrars : At(t, "idle")) =>
    \A r \in RunIDs : Live(r) => Condemned(r)

\* The resume token is single-use (resume.go:354-361): a run that has a
\* continuation is resumed, and no two runs continue the same one.
OneContinuation ==
  \A r \in RunIDs : parent[r] # NoRun =>
    /\ row[parent[r]] = "resumed"
    /\ \A q \in RunIDs : parent[q] = parent[r] => q = r

\* "no Add can race the drain's Wait" (engine.go:473-476): once Start's wait
\* returned with the counter at zero, no run goroutine is or gets in flight.
DrainedStaysDrained ==
  phase = "drained" => \A r \in RunIDs : pc[r] \in {"unborn", "minted", "done"}

\* "adopting the slot parked on the suspended run" (daemon.go:86-88): a slot
\* bound to a run passes to another run only when the first one's token has
\* been consumed.
HandedOverOnResume ==
  [][\A e \in Entries : bound[e] # NoRun /\ bound'[e] # bound[e] =>
       row[bound[e]] = "resumed" /\ parked'[e] = FALSE]_vars
-----------------------------------------------------------------------------
(* Liveness, under FairSpec.                                               *)

\* A body whose slot an unregistration took ends (engine.go:696-709 and
\* daemon.go:80-83 together): the kill that missed a run before beginRun is
\* made up for after it.
EvictedBodyEnds ==
  \A r \in RunIDs : (Live(r) /\ ~BoundTo(Daemon, r)) ~> ~At(r, "body")

\* No run ID is left for another launch.
Exhausted == RunIDs \ ManualRuns \subseteq minted

\* restart=always (daemon.go:204-237): a body that exited without being
\* cancelled is followed by another, through this goroutine's restart or a
\* concurrent registration, unless the task is unregistered.
AlwaysComesBack ==
  \A t \in Threads :
    (At(t, "noteExit") /\ plan[t] = "always") ~>
      \/ spec = NoSpec \/ ShuttingDown \/ Exhausted
      \/ \E q \in RunIDs : BoundTo(Daemon, q) /\ q # subject[t]

-----------------------------------------------------------------------------
(* What comments and docs promise of the system at rest.  Races between    *)
(* the goroutines above leave it in states that break these promises.      *)

\* Nobody is in the middle of a call; bodies may be running.
Quiet == \A t \in Threads : pc[t] \in {"idle", "unborn", "done", "body"}

\* "it coalesces when a body is already in flight or being started"
\* (daemon.go:37-38): a start that coalesces is not the last word, so a
\* registered restart=always daemon of a running engine has its slot taken.
StartNotLost ==
  Quiet /\ spec = "always" /\ ~ShuttingDown => m[Daemon] # NoEntry

\* "The resume handle was consumed and a continuation run was spawned"
\* (docs/concepts/suspendable-tasks.md:406).
ResumedHasContinuation ==
  \A r \in RunIDs : Quiet /\ row[r] = "resumed" => \E q \in RunIDs : parent[q] = r
=============================================================================
