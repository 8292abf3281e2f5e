----------------------------- MODULE Reconciler ------------------------------
(***************************************************************************)
(* pkg/registry/reconciler.go: sources report task changes on channels of  *)
(* their own (TasksetSource), a forwarder each moves them to one merged    *)
(* channel, and one loop applies them to the registry.  A task whose       *)
(* secret provider is not registered is queued; after any registration a   *)
(* goroutine sends what is queued through the merged channel again.        *)
(*                                                                         *)
(* The loop applies an event as one action: between its statements only    *)
(* the retry goroutines look at what it changes, and they see the queued   *)
(* set alone.  Left out: sources added or removed at run time, which take  *)
(* no part in readiness, and the cancellation of the run context.          *)
(***************************************************************************)
EXTENDS TasksetSource

CONSTANTS
  Provider,     \* task -> the provider task its env names, or NoTask
  Capacity,     \* capacity of the merged channel (64 in the code)
  MaxRetriers   \* bound: retry goroutines started

ASSUME ReconcilerAssumption ==
  /\ Provider \in [Tasks -> Tasks \cup {NoTask}]
  /\ Capacity \in Nat \ {0} /\ MaxRetriers \in Nat

VARIABLES
  batch,       \* source -> events left of its initial scan, 0 once the barrier is sent
  barred,      \* sources whose barrier is still to be sent
  merged,      \* the merged channel
  registry,    \* task -> the registered version
  queued,      \* rc.pending: task -> the version to retry
  initPending, \* sources whose barrier has not been seen
  ready,       \* the Ready channel is closed
  todo,        \* retry goroutine -> events it has still to look at
  sending,     \* retry goroutine -> {} or the event it is about to send
  spawned,     \* retry goroutines started so far
  initial      \* history: tasks reported by an initial scan and not applied yet

forwardVars == <<batch, barred, initial>>
loopVars == <<registry, queued, initPending, ready>>
retryVars == <<todo, sending, spawned>>
vars == <<sourceVars, forwardVars, merged, loopVars, retryVars>>

Retriers == 1..MaxRetriers
Barrier == Event(NoTask, NoVersion)

TypeOK ==
  /\ SourceTypeOK
  /\ batch \in [Sources -> Nat]
  /\ barred \subseteq Sources
  /\ merged \in Seq(Events) /\ Len(merged) <= Capacity
  /\ registry \in [Tasks -> MaybeVersion]
  /\ queued \in [Tasks -> MaybeVersion]
  /\ initPending \in 0..Cardinality(Sources)
  /\ ready \in BOOLEAN
  /\ todo \in [Retriers -> SUBSET Events]
  /\ sending \in [Retriers -> SUBSET Events]
  /\ spawned \in 0..MaxRetriers
  /\ initial \subseteq Tasks

Init ==
  /\ SourceInit
  /\ batch = [s \in Sources |-> 0]
  /\ barred = Sources
  /\ merged = <<>>
  /\ registry = Nothing
  /\ queued = Nothing
  /\ initPending = Cardinality(Sources)
  /\ ready = (Sources = {})
  /\ todo = [g \in Retriers |-> {}]
  /\ sending = [g \in Retriers |-> {}]
  /\ spawned = 0
  /\ initial = {}

HasRoom == Len(merged) < Capacity

-----------------------------------------------------------------------------
(* Starting the sources, and their forwarders.                             *)

\* Start has returned: startSource counts what is in the channel by now, and
\* starts the forwarder.  Run starts its sources before it reads the merged
\* channel.
Started(s) ==
  /\ s \in begun \ started
  /\ pc[<<s, "watch">>] = "idle"
  /\ started' = started \cup {s}
  /\ batch' = [batch EXCEPT ![s] = Len(outbox[s])]
  /\ initial' = initial \cup {outbox[s][i].task : i \in DOMAIN outbox[s]}
  /\ UNCHANGED <<diskVars, passVars, outbox, barred, merged, loopVars, retryVars>>

Forward(s) ==
  /\ s \in started /\ outbox[s] # <<>>
  /\ s \in barred => batch[s] > 0
  /\ HasRoom
  /\ merged' = Append(merged, Head(outbox[s]))
  /\ outbox' = [outbox EXCEPT ![s] = Tail(@)]
  /\ batch' = [batch EXCEPT ![s] = IF @ > 0 THEN @ - 1 ELSE 0]
  /\ UNCHANGED <<diskVars, passVars, started, barred, initial, loopVars, retryVars>>

\* Sends the barrier one event too early.
SendBarrierFault(s) ==
  /\ s \in started /\ s \in barred /\ batch[s] <= 1
  /\ HasRoom
  /\ merged' = Append(merged, Barrier)
  /\ barred' = barred \ {s}
  /\ UNCHANGED <<sourceVars, batch, initial, loopVars, retryVars>>

\* The barrier follows the initial batch, before any later event.
SendBarrier(s) ==
  /\ s \in started /\ s \in barred /\ batch[s] = 0
  /\ HasRoom
  /\ merged' = Append(merged, Barrier)
  /\ barred' = barred \ {s}
  /\ UNCHANGED <<sourceVars, batch, initial, loopVars, retryVars>>

-----------------------------------------------------------------------------
(* The loop.                                                               *)

\* The next event, once Run is in its loop.
Next1(t) == started = Sources /\ merged # <<>> /\ Head(merged).task = t
Take == merged' = Tail(merged)

SeeBarrier ==
  /\ Next1(NoTask)
  /\ Take
  /\ initPending' = initPending - 1
  /\ ready' = (ready \/ initPending' = 0)
  /\ UNCHANGED <<sourceVars, forwardVars, registry, queued, retryVars>>

ProviderMissing(t) == Provider[t] # NoTask /\ registry[Provider[t]] = NoVersion

QueueTask(t) ==
  /\ Next1(t) /\ Head(merged).version # NoVersion
  /\ ProviderMissing(t)
  /\ Take
  /\ queued' = [queued EXCEPT ![t] = Head(merged).version]
  /\ initial' = initial \ {t}
  /\ UNCHANGED <<sourceVars, batch, barred, registry, initPending, ready, retryVars>>

\* Never retries.
RetryQueuedFault(still) == UNCHANGED retryVars

\* retryPending: a goroutine with a snapshot of what is queued, if anything is.
RetryQueued(still) ==
  LET events == {Event(u, still[u]) : u \in {w \in Tasks : still[w] # NoVersion}}
  IN  IF events = {} THEN UNCHANGED retryVars
      ELSE /\ spawned < MaxRetriers
           /\ spawned' = spawned + 1
           /\ todo' = [todo EXCEPT ![spawned'] = events]
           /\ UNCHANGED sending

\* Leaves a task that got registered in the queue.
UnqueueFault(t) == queued

Unqueue(t) == [queued EXCEPT ![t] = NoVersion]

RegisterTask(t) ==
  /\ Next1(t) /\ Head(merged).version # NoVersion
  /\ ~ProviderMissing(t)
  /\ Take
  /\ registry' = [registry EXCEPT ![t] = Head(merged).version]
  /\ queued' = Unqueue(t)
  /\ RetryQueued(queued')
  /\ initial' = initial \ {t}
  /\ UNCHANGED <<sourceVars, batch, barred, initPending, ready>>

RemoveTask(t) ==
  /\ Next1(t) /\ Head(merged).version = NoVersion
  /\ Take
  /\ queued' = [queued EXCEPT ![t] = NoVersion]
  /\ registry' = [registry EXCEPT ![t] = NoVersion]
  /\ initial' = initial \ {t}
  /\ UNCHANGED <<sourceVars, batch, barred, initPending, ready, retryVars>>

-----------------------------------------------------------------------------
(* Retry goroutines.                                                       *)

\* The goroutine ranges over a snapshot of a map, in any order; it skips a task
\* that is no longer queued.
CheckQueued(g) ==
  /\ sending[g] = {}
  /\ \E e \in todo[g] :
       /\ todo' = [todo EXCEPT ![g] = @ \ {e}]
       /\ sending' = [sending EXCEPT ![g] = IF queued[e.task] = NoVersion THEN {} ELSE {e}]
  /\ UNCHANGED <<sourceVars, forwardVars, merged, loopVars, spawned>>

SendAgain(g) ==
  /\ HasRoom
  /\ \E e \in sending[g] : merged' = Append(merged, e)
  /\ sending' = [sending EXCEPT ![g] = {}]
  /\ UNCHANGED <<sourceVars, forwardVars, loopVars, todo, spawned>>

-----------------------------------------------------------------------------

Loop == SeeBarrier \/ \E t \in Tasks : QueueTask(t) \/ RegisterTask(t) \/ RemoveTask(t)
Forwarder(s) == Forward(s) \/ SendBarrier(s)
Retrier(g) == CheckQueued(g) \/ SendAgain(g)

\* A step of the sources alone.
SourceStep(A) == A /\ UNCHANGED <<forwardVars, merged, loopVars, retryVars>>

Next ==
  \/ Loop
  \/ \E s \in Sources : Started(s) \/ Forwarder(s)
  \/ \E s \in Sources : SourceStep(Source(s)) \/ SourceStep(Call(s))
  \/ \E p \in Passes : SourceStep(Pass(p))
  \/ \E t \in Tasks, v \in OnDisk : SourceStep(EditTask(t, v))
  \/ \E g \in Retriers : Retrier(g)

Spec == Init /\ [][Next]_vars

\* The Go runtime runs every goroutine that can run, and a channel serves a
\* blocked sender after finitely many others.  Edits and API calls need not
\* happen.
Fairness ==
  /\ WF_vars(Loop)
  /\ \A s \in Sources :
       /\ WF_vars(SourceStep(Source(s))) /\ WF_vars(Started(s))
       /\ SF_vars(Forwarder(s))
  /\ \A p \in Passes : WF_vars(SourceStep(Pass(p)))
  /\ \A g \in Retriers : SF_vars(Retrier(g))

FairSpec == Spec /\ Fairness

-----------------------------------------------------------------------------
(* Properties.                                                             *)

\* "by the time the Run loop dequeues the barrier every task from that batch
\* has been handled (registered or rejected)" (reconciler.go:15-18): Ready
\* closes only when no event of an initial scan is left, whatever the sources
\* and the retries have put in between.
ReadyMeansSynced == TypeOK /\ (ready => initial = {})

\* "An entry that failed to resolve this pass must not look "removed""
\* (source.go:820-830): a registered task leaves the registry only if it has
\* been gone from the disk, however the passes of the watcher and of API calls,
\* retries and broken edits fall together.
OnlyRemovedIsUnregistered ==
  [][\A t \in Tasks : registry[t] # NoVersion /\ registry'[t] = NoVersion => t \in absent]_vars

\* Nothing is on its way to the loop, and no source has something to look at.
AtRest ==
  /\ started = Sources /\ changed = {} /\ barred = {} /\ merged = <<>>
  /\ \A p \in Passes : pc[p] = "idle"
  /\ \A s \in Sources : outbox[s] = <<>>
  /\ \A g \in Retriers : todo[g] = {} /\ sending[g] = {}

\* "It runs in a goroutine to avoid deadlocking the handle() call-site"
\* (reconciler.go:294-296): with finitely many changes, the loop, the full
\* channel and the retries come to rest; tasks that wait for a provider do not
\* keep each other busy.
Quiesces == <>[]AtRest

\* "After any successful registration these are re-emitted to merged for a
\* retry" (reconciler.go:40-43): a task does not stay queued while its provider
\* stays registered.
QueuedIsRetried ==
  \A t \in Tasks :
    queued[t] # NoVersion ~> (queued[t] = NoVersion \/ ProviderMissing(t))

-----------------------------------------------------------------------------
(* What comments and docs promise.                                         *)

\* "Skipping here prevents a re-registration of a task that was intentionally
\* removed" (reconciler.go:312-315): at rest, what is registered is on disk.
RemovedStaysRemoved ==
  AtRest => \A t \in Tasks : disk[t] = NoVersion => registry[t] = NoVersion

\* "Add a file, the task is live" (docs/concepts/sources.md:3): at rest, a task
\* that loads and is not queued for its provider is registered as it is on disk.
OnDiskIsLive ==
  AtRest => \A t \in Tasks :
    disk[t] \in Versions /\ queued[t] = NoVersion => registry[t] = disk[t]
=============================================================================
