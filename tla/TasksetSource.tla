---------------------------- MODULE TasksetSource ----------------------------
(***************************************************************************)
(* pkg/taskset/source.go: a source resolves the tasks of its taskset,      *)
(* compares them with the snapshot of the pass before, and puts what       *)
(* changed on its channel.  A pass (syncAndEmit) is run by the source's    *)
(* watcher and by API calls that toggle dev mode or set overrides; it      *)
(* holds the source's lock while it replaces the snapshot, and neither     *)
(* while it reads the files nor while it sends.                            *)
(*                                                                         *)
(* The reader of the channels is Reconciler.  Left out: pulls (a pull that *)
(* changes files is an edit), dev-mode clones, and edits in a directory    *)
(* that is not watched yet.                                                *)
(***************************************************************************)
EXTENDS Naturals, Sequences, FiniteSets

CONSTANTS
  Tasks,
  Sources,
  SourceOf,        \* task -> the source that reports it
  Versions,        \* versions of a task that load
  NoTask,
  NoVersion,       \* the task is not there
  Broken,          \* the task is there and does not load
  SourceCapacity,  \* capacity of a source's channel (64 in the code)
  Called,          \* bound: sources that API calls act on
  MaxEdits,        \* bound: changes on disk
  MaxCalls         \* bound: passes run by API calls

ASSUME SourceAssumption ==
  /\ SourceOf \in [Tasks -> Sources]
  /\ NoTask \notin Tasks /\ NoVersion \notin Versions
  /\ Broken \notin Versions \cup {NoVersion}
  /\ Called \subseteq Sources
  /\ IsFiniteSet(Sources) /\ IsFiniteSet(Tasks)
  /\ SourceCapacity \in Nat \ {0} /\ MaxEdits \in Nat /\ MaxCalls \in Nat

VARIABLES
  disk,      \* task -> what is on disk
  snapshot,  \* Source.snapshot: task -> the version of the last pass
  outbox,    \* source -> its channel
  pc,        \* <<source, pass>> -> "idle" | "start" | "diff" | "emit"
  scan,      \* <<source, pass>> -> the tasks it resolved, as on disk
  plan,      \* <<source, pass>> -> the events it has still to send
  begun,     \* sources that are in Start, or have left it
  started,   \* sources whose Start has returned
  changed,   \* sources whose watcher has a change to look at
  absent,    \* history: tasks that have not been on disk at some time
  edits, calls

diskVars == <<disk, absent, edits>>
passVars == <<snapshot, pc, scan, plan, begun, changed, calls>>
sourceVars == <<diskVars, passVars, outbox, started>>

MaybeVersion == Versions \cup {NoVersion}
OnDisk == MaybeVersion \cup {Broken}

\* The watcher's pass and the pass of an API call.
Passes == Sources \X {"watch", "api"}
TasksOf(s) == {t \in Tasks : SourceOf[t] = s}

\* An added or updated task carries its version, a removed one NoVersion, the
\* initial-sync barrier no task.
Events == [task : Tasks \cup {NoTask}, version : MaybeVersion]
Event(t, v) == [task |-> t, version |-> v]

SourceTypeOK ==
  /\ disk \in [Tasks -> OnDisk]
  /\ snapshot \in [Tasks -> MaybeVersion]
  /\ outbox \in [Sources -> Seq(Events)]
  /\ \A s \in Sources : Len(outbox[s]) <= SourceCapacity
  /\ pc \in [Passes -> {"idle", "start", "diff", "emit"}]
  /\ scan \in [Passes -> [Tasks -> OnDisk]]
  /\ plan \in [Passes -> Seq(Events)]
  /\ begun \subseteq Sources /\ started \subseteq begun
  /\ changed \subseteq Sources
  /\ absent \subseteq Tasks
  /\ edits \in 0..MaxEdits /\ calls \in 0..MaxCalls

Nothing == [t \in Tasks |-> NoVersion]

SourceInit ==
  /\ disk \in [Tasks -> OnDisk]
  /\ snapshot = Nothing
  /\ outbox = [s \in Sources |-> <<>>]
  /\ pc = [p \in Passes |-> "idle"]
  /\ scan = [p \in Passes |-> Nothing]
  /\ plan = [p \in Passes |-> <<>>]
  /\ begun = {} /\ started = {} /\ changed = {}
  /\ absent = {t \in Tasks : disk[t] = NoVersion}
  /\ edits = 0 /\ calls = 0

-----------------------------------------------------------------------------
(* One pass.                                                               *)

\* resolve: the files as they are now.
Resolve(p) ==
  /\ pc' = [pc EXCEPT ![p] = "diff"]
  /\ scan' = [scan EXCEPT ![p] = [t \in Tasks |-> IF SourceOf[t] = p[1] THEN disk[t] ELSE NoVersion]]
  /\ UNCHANGED <<diskVars, snapshot, plan, outbox, started>>

\* A task that fails to load counts as removed.
CurrentFault(p) ==
  [t \in Tasks |-> CASE SourceOf[t] # p[1] -> snapshot[t]
                     [] scan[p][t] = Broken -> NoVersion
                     [] OTHER -> scan[p][t]]

\* A task that failed to load keeps its entry of the snapshot, if it has one.
Current(p) ==
  [t \in Tasks |-> IF SourceOf[t] = p[1] /\ scan[p][t] # Broken THEN scan[p][t] ELSE snapshot[t]]

\* Added tasks are sent before updated ones, those before removed ones, each
\* in the order of a map.
Rank(t, cur) == IF snapshot[t] = NoVersion THEN 1 ELSE IF cur[t] # NoVersion THEN 2 ELSE 3

Diff(p) ==
  /\ pc[p] = "diff"
  /\ LET cur == Current(p)
         differ == {t \in Tasks : cur[t] # snapshot[t]}
     IN  /\ \E order \in [1..Cardinality(differ) -> differ] :
              /\ {order[i] : i \in DOMAIN order} = differ
              /\ \A i, j \in DOMAIN order : i < j => Rank(order[i], cur) <= Rank(order[j], cur)
              /\ plan' = [plan EXCEPT ![p] = [i \in DOMAIN order |-> Event(order[i], cur[order[i]])]]
         /\ snapshot' = cur
         /\ pc' = [pc EXCEPT ![p] = IF differ = {} THEN "idle" ELSE "emit"]
  /\ scan' = [scan EXCEPT ![p] = Nothing]
  /\ UNCHANGED <<diskVars, outbox, begun, started, changed, calls>>

\* send: an event that finds the channel full is dropped.
Emit(p) ==
  /\ pc[p] = "emit"
  /\ outbox' = IF Len(outbox[p[1]]) < SourceCapacity
               THEN [outbox EXCEPT ![p[1]] = Append(@, Head(plan[p]))] ELSE outbox
  /\ plan' = [plan EXCEPT ![p] = Tail(@)]
  /\ pc' = [pc EXCEPT ![p] = IF Tail(plan[p]) = <<>> THEN "idle" ELSE "emit"]
  /\ UNCHANGED <<diskVars, snapshot, scan, begun, started, changed, calls>>

Pass(p) == Diff(p) \/ Emit(p)

-----------------------------------------------------------------------------
(* Who runs a pass.                                                        *)

\* Start makes the channel, which has no reader yet, and pulls.
BeginStart(s) ==
  /\ s \notin begun
  /\ begun' = begun \cup {s}
  /\ pc' = [pc EXCEPT ![<<s, "watch">>] = "start"]
  /\ UNCHANGED <<diskVars, snapshot, scan, plan, changed, calls, outbox, started>>

\* Start runs the first pass itself.
FirstPass(s) ==
  /\ pc[<<s, "watch">>] = "start"
  /\ Resolve(<<s, "watch">>)
  /\ UNCHANGED <<begun, changed, calls>>

\* The watcher has seen a change (debounced), or was told to look.
Watch(s) ==
  /\ s \in started \cap changed /\ pc[<<s, "watch">>] = "idle"
  /\ changed' = changed \ {s}
  /\ Resolve(<<s, "watch">>)
  /\ UNCHANGED <<begun, calls>>

\* SetDevMode, on a source that has its channel.
Call(s) ==
  /\ s \in begun \cap Called
  /\ calls < MaxCalls /\ pc[<<s, "api">>] = "idle"
  /\ calls' = calls + 1
  /\ Resolve(<<s, "api">>)
  /\ UNCHANGED <<begun, changed>>

\* A file is edited, added or removed.  There is no watcher before Start has
\* returned.
EditTask(t, v) ==
  /\ edits < MaxEdits
  /\ disk[t] # v
  /\ disk' = [disk EXCEPT ![t] = v]
  /\ absent' = IF v = NoVersion THEN absent \cup {t} ELSE absent
  /\ changed' = IF SourceOf[t] \in started THEN changed \cup {SourceOf[t]} ELSE changed
  /\ edits' = edits + 1
  /\ UNCHANGED <<snapshot, pc, scan, plan, begun, calls, outbox, started>>

Source(s) == BeginStart(s) \/ FirstPass(s) \/ Watch(s)
=============================================================================
