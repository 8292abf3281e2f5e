------------------------------ MODULE Triggers ------------------------------
(***************************************************************************)
(* The triggers the engine arms for registered tasks and pipelines: cron   *)
(* entries with their rows in cron_jobs, webhook paths, pipelines that     *)
(* wait for a stage; the ticks of the schedule and the catch-up of missed  *)
(* runs at the start of the daemon.                                        *)
(*                                                                         *)
(* Register runs as a whole under registerMu, but what it does is seen     *)
(* step by step by ticks, requests and Unregister, which takes registerMu  *)
(* for its first step only.  It is called by the reconciler ("rec"), one   *)
(* event after the other, and by the loop in Engine.Start ("boot").        *)
(*                                                                         *)
(* Abstracted: time (a row is due or it is not), daemons (DaemonLifecycle) *)
(* and what a fire starts (RunLifecycle).                                  *)
(***************************************************************************)
EXTENDS Naturals, FiniteSets

CONSTANTS
  Tasks, Pipes,      \* IDs by kind
  StageOf,           \* the stage task of each pipeline
  Versions,          \* ID -> contents it can have
  Relay, Reserved,   \* the one task that may claim the one reserved path
  None,
  MaxChanges, MaxTicks  \* bounds on edits and restarts together, and on ticks

IDs == Tasks \cup Pipes
Contents == UNION {Versions[id] : id \in IDs}   \* [enabled, cron, hook, ok]
Crons == {v.cron : v \in Contents} \ {None}
Hooks == {v.hook : v \in Contents} \ {None}
Entries == [id : IDs, expr : Crons, n : {0, 1}]
Actors == {"rec", "boot"}
RowSet == [expr : Crons, from : Crons, due : {"future", "due", "old"}]

\* The constants as the sources give them: an ID is a task or a pipeline, and None is
\* neither an ID nor a content.
WellFormed ==
  /\ Tasks \cap Pipes = {} /\ StageOf \in [Pipes -> Tasks]
  /\ \A id \in IDs : Versions[id] \subseteq Contents
  /\ None \notin IDs /\ None \notin Contents /\ None \notin Entries /\ None \notin RowSet /\ None \notin Actors

VARIABLES
  disk,      \* ID -> content the sources hold, None when there is no such task
  todo,      \* IDs with a change the reconciler has not handled
  registry,  \* ID -> content in the registry
  entries,   \* cron.Cron: the entries that fire
  armed,     \* cronArmed: ID -> entry
  rows,      \* cron_jobs: ID -> [expr, from, due]; from is what next_run_at was computed with
  hooks,     \* webhooks: path -> ID
  deferred,  \* deferredPipelines: ID -> content
  mu,        \* the holder of registerMu
  call,      \* actor -> its call of Register or Unregister
  boot,      \* [pc, seen, list]: the progress of Engine.Start
  ticks,     \* cron jobs that are running: [id, expr, pc]
  missed,    \* IDs whose run was missed while the daemon was down, and is recent
  caught,    \* IDs fired by the catch-up of this start
  raced,     \* IDs for which an older content is left: they changed while the loop in
             \* Engine.Start used it, or were refused while it waited for its stage
  spent      \* [changes, ticks, starts]

regVars == <<disk, todo, registry>>
armVars == <<entries, armed, rows, hooks, deferred>>
bootVars == <<boot, missed, caught>>
vars == <<regVars, armVars, mu, call, bootVars, ticks, raced, spent>>

NoCall == [pc |-> "idle", id |-> None, v |-> None, kept |-> FALSE, had |-> FALSE, more |-> {}, again |-> FALSE]
PCs == {"idle", "lock", "remove", "delete", "check", "add", "record", "insert", "claim", "retry",
        "forget", "uremove", "udelete"}
Row(expr, from, due) == [expr |-> expr, from |-> from, due |-> due]

TypeOK ==
  /\ disk \in [IDs -> Contents \cup {None}] /\ registry \in [IDs -> Contents \cup {None}]
  /\ todo \subseteq IDs
  /\ entries \subseteq Entries /\ armed \in [IDs -> Entries \cup {None}]
  /\ \A id \in IDs : rows[id] # None => rows[id] \in RowSet
  /\ hooks \in [Hooks -> IDs \cup {None}]
  /\ deferred \in [IDs -> Contents \cup {None}]
  /\ mu \in Actors \cup {None}
  /\ \A a \in Actors : call[a].pc \in PCs /\ call[a].id \in IDs \cup {None} /\ call[a].more \subseteq Pipes
  /\ boot.pc \in {"known", "prune", "query", "fire", "list", "loop", "up"}
  /\ missed \subseteq IDs /\ caught \subseteq IDs /\ raced \subseteq IDs

\* The daemon starts: the sources are read, nothing is armed, the rows are what the
\* last session left.
Fresh ==
  /\ todo' = {id \in IDs : disk'[id] # None} /\ registry' = [id \in IDs |-> None]
  /\ entries' = {} /\ armed' = [id \in IDs |-> None] /\ hooks' = [h \in Hooks |-> None]
  /\ deferred' = [id \in IDs |-> None]
  /\ mu' = None /\ call' = [a \in Actors |-> NoCall]
  /\ boot' = [pc |-> "known", seen |-> {}, list |-> [id \in IDs |-> None]]
  /\ ticks' = {} /\ caught' = {} /\ raced' = {}

Init ==
  /\ disk \in [IDs -> Contents \cup {None}]
  /\ \A id \in IDs : disk[id] \in Versions[id] \cup {None}
  /\ todo = {id \in IDs : disk[id] # None} /\ registry = [id \in IDs |-> None]
  /\ entries = {} /\ armed = [id \in IDs |-> None] /\ hooks = [h \in Hooks |-> None]
  /\ rows = [id \in IDs |-> None]
  /\ deferred = [id \in IDs |-> None]
  /\ mu = None /\ call = [a \in Actors |-> NoCall]
  /\ boot = [pc |-> "known", seen |-> {}, list |-> [id \in IDs |-> None]]
  /\ ticks = {} /\ missed = {} /\ caught = {} /\ raced = {}
  /\ spent = [changes |-> 0, ticks |-> 0, starts |-> 0]

-----------------------------------------------------------------------------
(* The reconciler *)

Edit(id) ==
  /\ spent.changes < MaxChanges
  /\ \E v \in (Versions[id] \cup {None}) \ {disk[id]} : disk' = [disk EXCEPT ![id] = v]
  /\ todo' = todo \cup {id}
  /\ spent' = [spent EXCEPT !.changes = @ + 1]
  /\ UNCHANGED <<registry, armVars, mu, call, bootVars, ticks, raced>>

\* handle: the registry first, then the engine.
Handle(id) ==
  /\ call["rec"].pc = "idle" /\ id \in todo
  /\ todo' = todo \ {id}
  /\ registry' = [registry EXCEPT ![id] = disk[id]]
  /\ call' = [call EXCEPT !["rec"] =
                [NoCall EXCEPT !.pc = IF disk[id] = None THEN "forget" ELSE "lock", !.id = id, !.v = disk[id]]]
  /\ raced' = IF (boot.pc = "loop" /\ boot.list[id] # None) \/ call["boot"].id = id
              THEN raced \cup {id} ELSE raced
  /\ UNCHANGED <<disk, armVars, mu, bootVars, ticks, spent>>

-----------------------------------------------------------------------------
(* Register.  An operator named ...Fault is a faulty variant of the one that *)
(* follows it; no action uses it.                                           *)

To(a, pc) == [call EXCEPT ![a].pc = pc]
IsPipe(id) == id \in Pipes
KeepCron(v) == IF v.enabled THEN v.cron ELSE None
KeepHook(id, v) == IF v.enabled /\ (v.hook = Reserved => id = Relay) THEN v.hook ELSE None

\* The end of a call, or of the retry of one pipeline within it.
Over(a) == IF call[a].more # {} THEN [call EXCEPT ![a].pc = "retry"] ELSE [call EXCEPT ![a] = NoCall]
Unlocks(a) == IF call[a].more = {} THEN None ELSE mu

Lock(a) ==
  /\ call[a].pc = "lock" /\ mu = None
  /\ mu' = a
  /\ deferred' = IF IsPipe(call[a].id) THEN deferred ELSE [deferred EXCEPT ![call[a].id] = None]
  /\ call' = To(a, "remove")
  /\ UNCHANGED <<regVars, entries, armed, rows, hooks, bootVars, ticks, raced, spent>>

\* unregisterTriggersKeeping, the part under e.mu.
TakeDown(id, cron, hook) ==
  /\ entries' = IF armed[id] # None /\ armed[id].expr # cron THEN entries \ {armed[id]} ELSE entries
  /\ armed' = IF armed[id] # None /\ armed[id].expr # cron THEN [armed EXCEPT ![id] = None] ELSE armed
  /\ hooks' = [h \in Hooks |-> IF hooks[h] = id /\ h # hook THEN None ELSE hooks[h]]
Had(id, cron) == armed[id] # None /\ armed[id].expr # cron

RemoveFault(a) ==
  /\ call[a].pc = "remove"
  /\ TakeDown(call[a].id, None, None)
  /\ call' = [call EXCEPT ![a].pc = "delete", ![a].had = armed[call[a].id] # None]
  /\ UNCHANGED <<regVars, rows, deferred, mu, bootVars, ticks, raced, spent>>

\* What the new content claims again stays in place.
Remove(a) ==
  LET c == call[a] IN
  /\ c.pc = "remove"
  /\ TakeDown(c.id, KeepCron(c.v), KeepHook(c.id, c.v))
  /\ call' = [call EXCEPT ![a].pc = "delete", ![a].had = Had(c.id, KeepCron(c.v)),
                          ![a].kept = armed[c.id] # None /\ ~Had(c.id, KeepCron(c.v))]
  /\ UNCHANGED <<regVars, rows, deferred, mu, bootVars, ticks, raced, spent>>

DeleteRow(a) ==
  /\ call[a].pc = "delete"
  /\ rows' = IF call[a].had THEN [rows EXCEPT ![call[a].id] = None] ELSE rows
  /\ call' = To(a, "check")
  /\ UNCHANGED <<regVars, entries, armed, hooks, deferred, mu, bootVars, ticks, raced, spent>>

\* A disabled task arms nothing, a pipeline waits for its stage, a cycle of chains or
\* an invalid stage is refused; an older content of a refused pipeline goes on waiting.
Check(a) ==
  LET c == call[a]
      waits == IsPipe(c.id) /\ registry[StageOf[c.id]] = None
  IN
  /\ c.pc = "check"
  /\ raced' = IF c.v.enabled /\ ~waits /\ ~c.v.ok /\ ~c.again /\ deferred[c.id] # None
              THEN raced \cup {c.id} ELSE raced
  /\ \/ /\ ~c.v.enabled
        /\ deferred' = [deferred EXCEPT ![c.id] = None]
        /\ call' = Over(a) /\ mu' = Unlocks(a)
     \/ /\ c.v.enabled /\ waits
        /\ deferred' = [deferred EXCEPT ![c.id] = c.v]
        /\ call' = Over(a) /\ mu' = Unlocks(a)
     \/ /\ c.v.enabled /\ ~waits /\ ~c.v.ok
        /\ deferred' = IF c.again THEN [deferred EXCEPT ![c.id] = None] ELSE deferred
        /\ call' = Over(a) /\ mu' = Unlocks(a)
     \/ /\ c.v.enabled /\ ~waits /\ c.v.ok
        /\ deferred' = [deferred EXCEPT ![c.id] = None]
        /\ call' = To(a, IF c.v.cron # None /\ ~c.kept THEN "add" ELSE "claim")
        /\ UNCHANGED mu
  /\ UNCHANGED <<regVars, entries, armed, rows, hooks, bootVars, ticks, spent>>

\* scheduleCron: the entry fires before it is recorded.
Add(a) ==
  /\ call[a].pc = "add"
  /\ \E n \in {0, 1} :
       LET e == [id |-> call[a].id, expr |-> call[a].v.cron, n |-> n] IN
       /\ e \notin entries /\ (n = 1 => [e EXCEPT !.n = 0] \in entries)
       /\ entries' = entries \cup {e}
       /\ call' = [call EXCEPT ![a].pc = "record", ![a].kept = n = 1]
  /\ UNCHANGED <<regVars, armed, rows, hooks, deferred, mu, bootVars, ticks, raced, spent>>

Record(a) ==
  /\ call[a].pc = "record"
  /\ armed' = [armed EXCEPT ![call[a].id] =
                 [id |-> call[a].id, expr |-> call[a].v.cron, n |-> IF call[a].kept THEN 1 ELSE 0]]
  /\ call' = To(a, "insert")
  /\ UNCHANGED <<regVars, entries, rows, hooks, deferred, mu, bootVars, ticks, raced, spent>>

Insert(a) ==
  LET c == call[a] IN
  /\ c.pc = "insert"
  /\ rows' = [rows EXCEPT ![c.id] = Row(c.v.cron, c.v.cron, "future")]
  /\ call' = To(a, "claim")
  /\ UNCHANGED <<regVars, entries, armed, hooks, deferred, mu, bootVars, ticks, raced, spent>>

ClaimPathFault(a) ==
  LET c == call[a]
      path == KeepHook(c.id, c.v)
  IN
  /\ c.pc = "claim"
  /\ hooks' = IF path # None /\ hooks[path] = None THEN [hooks EXCEPT ![path] = c.id] ELSE hooks
  /\ call' = Over(a) /\ mu' = Unlocks(a)
  /\ UNCHANGED <<regVars, entries, armed, rows, deferred, bootVars, ticks, raced, spent>>

\* registerWebhookPath: the first to claim a path keeps it.  A task then retries the
\* pipelines that wait.
ClaimPath(a) ==
  LET c == call[a]
      path == KeepHook(c.id, c.v)
      waiting == IF IsPipe(c.id) THEN c.more ELSE {p \in Pipes : deferred[p] # None}
  IN
  /\ c.pc = "claim"
  /\ hooks' = IF path # None /\ hooks[path] = None THEN [hooks EXCEPT ![path] = c.id] ELSE hooks
  /\ IF waiting = {} THEN call' = [call EXCEPT ![a] = NoCall] /\ mu' = None
     ELSE call' = [call EXCEPT ![a].pc = "retry", ![a].more = waiting] /\ UNCHANGED mu
  /\ UNCHANGED <<regVars, entries, armed, rows, deferred, bootVars, ticks, raced, spent>>

\* retryDeferredPipelines, one pipeline after the other; one that Unregister took out
\* meanwhile is left alone.
Retry(a) ==
  /\ call[a].pc = "retry"
  /\ \E p \in call[a].more :
       IF deferred[p] # None
       THEN /\ call' = [call EXCEPT ![a] = [NoCall EXCEPT !.pc = "remove", !.id = p, !.v = deferred[p],
                                                         !.more = call[a].more \ {p}, !.again = TRUE]]
            /\ UNCHANGED mu
       ELSE IF call[a].more = {p} THEN call' = [call EXCEPT ![a] = NoCall] /\ mu' = None
       ELSE call' = [call EXCEPT ![a].more = @ \ {p}] /\ UNCHANGED mu
  /\ UNCHANGED <<regVars, armVars, bootVars, ticks, raced, spent>>

-----------------------------------------------------------------------------
(* Unregister: registerMu protects the first step only *)

Forget(a) ==
  /\ call[a].pc = "forget" /\ mu = None
  /\ deferred' = [deferred EXCEPT ![call[a].id] = None]
  /\ call' = To(a, "uremove")
  /\ UNCHANGED <<regVars, entries, armed, rows, hooks, mu, bootVars, ticks, raced, spent>>

RemoveAll(a) ==
  /\ call[a].pc = "uremove"
  /\ TakeDown(call[a].id, None, None)
  /\ call' = [call EXCEPT ![a].pc = "udelete", ![a].had = armed[call[a].id] # None]
  /\ UNCHANGED <<regVars, rows, deferred, mu, bootVars, ticks, raced, spent>>

DeleteRowAndReturn(a) ==
  /\ call[a].pc = "udelete"
  /\ rows' = IF call[a].had THEN [rows EXCEPT ![call[a].id] = None] ELSE rows
  /\ call' = [call EXCEPT ![a] = NoCall]
  /\ UNCHANGED <<regVars, entries, armed, hooks, deferred, mu, bootVars, ticks, raced, spent>>

-----------------------------------------------------------------------------
(* The schedule *)

Fireable(id) == registry[id] # None /\ (IsPipe(id) => registry[StageOf[id]] # None)

\* The time of an entry has come; its job runs in a goroutine of its own.
Tick(e) ==
  /\ boot.pc = "up" /\ e \in entries
  /\ spent.ticks < MaxTicks
  /\ spent' = [spent EXCEPT !.ticks = @ + 1]
  /\ rows' = IF rows[e.id] # None /\ rows[e.id].from = e.expr THEN [rows EXCEPT ![e.id].due = "due"] ELSE rows
  /\ ticks' = ticks \cup {[id |-> e.id, expr |-> e.expr, pc |-> "fire"]}
  /\ UNCHANGED <<regVars, entries, armed, hooks, deferred, mu, call, bootVars, raced>>

\* The registry is asked; without a run next_run_at stays what it is.
TickFire(t) ==
  /\ t.pc = "fire"
  /\ ticks' = (ticks \ {t}) \cup (IF Fireable(t.id) THEN {[t EXCEPT !.pc = "advance"]} ELSE {})
  /\ UNCHANGED <<regVars, armVars, mu, call, bootVars, raced, spent>>

\* next_run_at of a row that still has the expression of the tick.
TickAdvance(t) ==
  /\ t.pc = "advance"
  /\ ticks' = ticks \ {t}
  /\ rows' = IF rows[t.id] # None /\ rows[t.id].expr = t.expr
             THEN [rows EXCEPT ![t.id].from = t.expr, ![t.id].due = "future"] ELSE rows
  /\ UNCHANGED <<regVars, entries, armed, hooks, deferred, mu, call, bootVars, raced, spent>>

-----------------------------------------------------------------------------
(* Engine.Start *)

Boot(pc) == boot' = [boot EXCEPT !.pc = pc]

\* catchupMissedCronRuns: the rows of unknown tasks are deleted ...
CatchupKnown ==
  /\ boot.pc = "known"
  /\ boot' = [boot EXCEPT !.pc = "prune", !.seen = {id \in IDs : registry[id] # None}]
  /\ UNCHANGED <<regVars, armVars, mu, call, missed, caught, ticks, raced, spent>>
CatchupPrune ==
  /\ boot.pc = "prune"
  /\ rows' = [id \in IDs |-> IF id \in boot.seen THEN rows[id] ELSE None]
  /\ Boot("query")
  /\ UNCHANGED <<regVars, entries, armed, hooks, deferred, mu, call, missed, caught, ticks, raced, spent>>
\* ... those that are due are read ...
CatchupQuery ==
  /\ boot.pc = "query"
  /\ boot' = [boot EXCEPT !.pc = "fire", !.seen = {id \in IDs : rows[id] # None /\ rows[id].due = "due"}]
  /\ UNCHANGED <<regVars, armVars, mu, call, missed, caught, ticks, raced, spent>>
\* ... and fired, once for each task.
CatchupFire ==
  /\ boot.pc = "fire"
  /\ IF boot.seen = {} THEN Boot("list") /\ UNCHANGED caught
     ELSE \E id \in boot.seen :
            /\ boot' = [boot EXCEPT !.seen = @ \ {id}]
            /\ caught' = IF Fireable(id) THEN caught \cup {id} ELSE caught
  /\ UNCHANGED <<regVars, armVars, mu, call, missed, ticks, raced, spent>>

\* The loop: the tasks that are in the registry now are registered once more.
ListTasks ==
  /\ boot.pc = "list"
  /\ boot' = [boot EXCEPT !.pc = "loop",
                          !.list = [id \in IDs |-> IF id \in Tasks THEN registry[id] ELSE None]]
  /\ UNCHANGED <<regVars, armVars, mu, call, missed, caught, ticks, raced, spent>>
RegisterAgain ==
  /\ boot.pc = "loop" /\ call["boot"].pc = "idle"
  /\ \E id \in Tasks :
       /\ boot.list[id] # None
       /\ boot' = [boot EXCEPT !.list[id] = None]
       /\ call' = [call EXCEPT !["boot"] = [NoCall EXCEPT !.pc = "lock", !.id = id, !.v = boot.list[id]]]
  /\ UNCHANGED <<regVars, armVars, mu, missed, caught, ticks, raced, spent>>
StartCron ==
  /\ boot.pc = "loop" /\ call["boot"].pc = "idle" /\ \A id \in IDs : boot.list[id] = None
  /\ Boot("up")
  /\ UNCHANGED <<regVars, armVars, mu, call, missed, caught, ticks, raced, spent>>

\* The daemon goes down and comes back; meanwhile a row that was not due can have
\* become due, some of them by more than a day.
Restart ==
  /\ spent.changes < MaxChanges /\ boot.pc = "up"
  /\ spent' = [spent EXCEPT !.changes = @ + 1, !.starts = @ + 1]
  /\ \E d \in [IDs -> {"future", "due", "old"}] :
       /\ \A id \in IDs : d[id] \in (IF rows[id] = None THEN {"future"}
                                     ELSE IF rows[id].due = "future" THEN {"future", "due", "old"}
                                     ELSE {"due", "old"})
       /\ rows' = [id \in IDs |-> IF rows[id] = None THEN None ELSE [rows[id] EXCEPT !.due = d[id]]]
       /\ missed' = {id \in IDs : d[id] = "due"}
  /\ UNCHANGED disk
  /\ Fresh

-----------------------------------------------------------------------------
RegisterStep(a) ==
  \/ Lock(a) \/ Remove(a) \/ DeleteRow(a) \/ Check(a) \/ Add(a) \/ Record(a) \/ Insert(a) \/ ClaimPath(a)
  \/ Retry(a) \/ Forget(a) \/ RemoveAll(a) \/ DeleteRowAndReturn(a)
BootStep ==
  \/ CatchupKnown \/ CatchupPrune \/ CatchupQuery \/ CatchupFire \/ ListTasks \/ RegisterAgain \/ StartCron

Next ==
  \/ \E id \in IDs : Edit(id) \/ Handle(id)
  \/ \E a \in Actors : RegisterStep(a)
  \/ \E e \in entries : Tick(e)
  \/ \E t \in ticks : TickFire(t) \/ TickAdvance(t)
  \/ BootStep \/ Restart

Spec == Init /\ [][Next]_vars

-----------------------------------------------------------------------------
Quiet == todo = {} /\ \A a \in Actors : call[a].pc = "idle"

\* The schedule that an ID's content asks for: a disabled, refused or removed one asks
\* for none.  A pipeline can be sure of it only when its stage is armed itself: a stage
\* that is registered disabled does not make the engine retry the pipeline.
Asks(id) == registry[id] # None /\ registry[id].enabled /\ registry[id].ok
Wanted(id) == IF Asks(id) /\ (IsPipe(id) => Asks(StageOf[id])) THEN registry[id].cron ELSE None

\* When no change is under way each task is armed with its schedule, and what is armed
\* fires once and is what the registered content claims: a removed or a disabled task
\* holds no path and no entry, a refused one at most what it held before and still
\* claims.  No pipeline waits for a stage that is there, whatever order tasks and
\* pipelines came in (registerMu, deferredPipelines).  Left out are the tasks of which
\* an older content is left (raced).
ArmedAsRegistered ==
  Quiet => \A id \in IDs \ raced :
    /\ Wanted(id) # None => armed[id] # None
    /\ {e \in entries : e.id = id} = {armed[id]} \ {None}
    /\ armed[id] # None => registry[id] # None /\ armed[id].expr = KeepCron(registry[id])
    /\ \A h \in Hooks : hooks[h] = id => registry[id] # None /\ KeepHook(id, registry[id]) = h
    /\ deferred[id] # None => registry[id] # None /\ ~Asks(StageOf[id])

\* next_run_at belongs to the schedule of its row: a tick of a schedule that was
\* replaced while it ran does not overwrite the row of the new one.
RowOfItsSchedule == \A id \in IDs : rows[id] # None => rows[id].from = rows[id].expr

\* A reload that keeps path and schedule is not seen by requests and ticks: neither
\* is gone for a moment, as long as the registry has a content that asks for it.
ReloadKeeps ==
  spent.starts = spent'.starts =>
    \A id \in IDs \ raced' :
      registry[id] # None /\ registry[id].ok =>
        /\ \A h \in Hooks : hooks[h] = id /\ KeepHook(id, registry[id]) = h => hooks'[h] = id
        /\ armed[id] # None /\ armed[id].expr = KeepCron(registry[id]) => armed[id] \in entries'

\* After the start each run that was missed less than a day ago is caught up: "On
\* startup, any task whose recorded next_run_at is in the past (but within the last
\* 24 hours) is fired immediately".
MissedAreCaughtUp ==
  boot.pc = "up" /\ Quiet => \A id \in missed : disk[id] # None /\ id \in Tasks => id \in caught
=============================================================================
