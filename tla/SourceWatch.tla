----------------------------- MODULE SourceWatch -----------------------------
(***************************************************************************)
(* How a change comes to the snapshot of a source: Source.Start and the    *)
(* watch loop (taskset/source.go), the refresh of a clone                  *)
(* (internal/gitops/ref.go), the watched directories, the debounce and the *)
(* one-slot signals.  What a pass does with the snapshot is TasksetSource. *)
(*                                                                         *)
(* The root directory holds the taskset, each other directory a task.  A   *)
(* content is [v, ok]: a version, and whether it loads.                    *)
(***************************************************************************)
EXTENDS Naturals, FiniteSets

CONSTANTS
  Dirs,       \* task directories
  None,
  MaxChanges, MaxFaults  \* bounds: changes; failed fetches, corrupt clones and crashes

VARIABLES
  git,        \* the source is a git one
  remote,     \* what the remote ref has: directory -> content
  parked, head, disk,  \* refs/dicode/sync-target, HEAD and the worktree, None without one
  pc,         \* the goroutine of Start, then of watch
  watchRoot,  \* whether the root directory is known to the watcher
  watched,    \* directories with a watch
  debounce, fireSig, refresh,  \* a timer that runs, the two signals
  snapshot,   \* directory -> the content that was resolved, None
  pullOK,     \* PullStatus
  unseen,     \* directories that changed without a watch since the last pass
  changes, faults

vars == <<git, remote, parked, head, disk, pc, watchRoot, watched, debounce, fireSig, refresh, snapshot,
          pullOK, unseen, changes, faults>>
cloneVars == <<parked, head, disk>>
watchVars == <<watchRoot, watched, debounce, fireSig, refresh>>

Root == "root"
All == Dirs \cup {Root}
Contents == [v : 0..MaxChanges, ok : BOOLEAN]
First == [d \in All |-> [v |-> 0, ok |-> TRUE]]

Init ==
  /\ git \in BOOLEAN
  /\ remote = First /\ parked = None /\ head = None /\ disk = IF git THEN None ELSE First
  /\ pc = "start" /\ watchRoot = FALSE /\ watched = {}
  /\ debounce = FALSE /\ fireSig = FALSE /\ refresh = FALSE
  /\ snapshot = [d \in Dirs |-> None]
  /\ pullOK = FALSE /\ unseen = {} /\ changes = 0 /\ faults = 0

Fault == faults < MaxFaults /\ faults' = faults + 1

\* The files become `to`: a watched directory gives an event, which (re)starts the timer.
Becomes(to) ==
  LET changed == IF disk = None \/ to = None THEN All ELSE {d \in All : disk[d] # to[d]} IN
  /\ disk' = to
  /\ debounce' = (debounce \/ changed \cap watched # {})
  /\ unseen' = unseen \cup (changed \ watched)

-----------------------------------------------------------------------------
(* Resolver.Pull: fetch into the parked ref, compare, reset. *)

PullDone(ok) == pullOK' = ok /\ pc' = IF pc = "start" THEN "rooted" ELSE "watch"
\* watchRoot is what the first pull returned: nothing when it failed.
Rooted(ok) == watchRoot' = IF pc = "start" THEN ok ELSE watchRoot

Pulling == pc \in {"start", "tick"}
PullLocal ==
  /\ pc = "start" /\ ~git
  /\ pc' = "rooted" /\ watchRoot' = TRUE
  /\ UNCHANGED <<git, remote, cloneVars, watched, debounce, fireSig, refresh, snapshot, pullOK, unseen, changes, faults>>

PullFails ==
  /\ Pulling /\ git /\ Fault
  /\ PullDone(FALSE) /\ Rooted(FALSE)
  /\ UNCHANGED <<git, remote, cloneVars, watched, debounce, fireSig, refresh, snapshot, unseen, changes>>

Clone ==
  /\ Pulling /\ git /\ head = None
  /\ head' = remote /\ Becomes(remote)
  /\ PullDone(TRUE) /\ Rooted(TRUE)
  /\ UNCHANGED <<git, remote, parked, watched, fireSig, refresh, snapshot, changes, faults>>

Fetch ==
  /\ Pulling /\ git /\ head # None
  /\ parked' = remote
  /\ IF head = parked'
     THEN PullDone(TRUE) /\ Rooted(TRUE)
     ELSE pc' = (IF pc = "start" THEN "startReset" ELSE "reset") /\ UNCHANGED <<watchRoot, pullOK>>
  /\ UNCHANGED <<git, remote, head, disk, watched, debounce, fireSig, refresh, snapshot, unseen, changes, faults>>
Reset ==
  /\ pc \in {"startReset", "reset"}
  /\ head' = parked /\ Becomes(parked)
  /\ pullOK' = TRUE
  /\ pc' = (IF pc = "startReset" THEN "rooted" ELSE "watch")
  /\ watchRoot' = (watchRoot \/ pc = "startReset")
  /\ UNCHANGED <<git, remote, parked, watched, fireSig, refresh, snapshot, changes, faults>>

\* A clone whose objects are damaged is wiped before it is cloned again; the watches go
\* with the directories.
Wipe ==
  /\ Pulling /\ git /\ head # None /\ Fault
  /\ head' = None /\ parked' = None /\ Becomes(None) /\ watched' = {}
  /\ UNCHANGED <<git, remote, pc, watchRoot, fireSig, refresh, snapshot, pullOK, changes>>

-----------------------------------------------------------------------------
(* syncAndEmit, as far as the snapshot is concerned, and the loop around it. *)

Resolve ==
  /\ unseen' = {}
  /\ snapshot' = IF disk = None \/ ~disk[Root].ok THEN snapshot
                 ELSE [d \in Dirs |-> IF disk[d].ok THEN disk[d] ELSE snapshot[d]]

\* The resolver clones the root itself when the first pull failed; the next pull then
\* fetches.
FirstPass ==
  /\ pc = "rooted"
  /\ IF git /\ head = None
     THEN \/ Fault /\ UNCHANGED <<cloneVars, snapshot, unseen>>
          \/ /\ head' = remote /\ disk' = remote /\ UNCHANGED <<parked, faults>>
             /\ snapshot' = [d \in Dirs |-> IF remote[Root].ok /\ remote[d].ok THEN remote[d] ELSE None]
             /\ unseen' = {}
     ELSE Resolve /\ UNCHANGED <<cloneVars, faults>>
  /\ pc' = "add"
  /\ UNCHANGED <<git, remote, watchVars, pullOK, changes>>

\* addWatchDirs: the root, and the directories of the snapshot.
Watchable == (IF watchRoot THEN {Root} ELSE {}) \cup {d \in Dirs : snapshot[d] # None}
AddWatchDirs ==
  /\ pc \in {"add", "watch"}
  /\ watched' = IF disk = None THEN watched ELSE watched \cup Watchable
  /\ pc' = "watch"
  /\ UNCHANGED <<git, remote, cloneVars, watchRoot, debounce, fireSig, refresh, snapshot, pullOK, unseen, changes,
                 faults>>

Debounced ==
  /\ debounce /\ debounce' = FALSE /\ fireSig' = TRUE
  /\ UNCHANGED <<git, remote, cloneVars, pc, watchRoot, watched, refresh, snapshot, pullOK, unseen, changes, faults>>

Fire ==
  /\ pc = "watch" /\ fireSig /\ fireSig' = FALSE
  /\ Resolve /\ pc' = "add"
  /\ UNCHANGED <<git, remote, cloneVars, watchRoot, watched, debounce, refresh, pullOK, changes, faults>>
\* SetParentOverrides, and its signal: that pass adds no watches.
SetParentOverrides ==
  /\ pc # "start" /\ ~refresh /\ changes < MaxChanges /\ changes' = changes + 1 /\ refresh' = TRUE
  /\ UNCHANGED <<git, remote, cloneVars, pc, watchRoot, watched, debounce, fireSig, snapshot, pullOK, unseen, faults>>
Refreshed ==
  /\ pc = "watch" /\ refresh /\ refresh' = FALSE
  /\ Resolve
  /\ UNCHANGED <<git, remote, cloneVars, pc, watchRoot, watched, debounce, fireSig, pullOK, changes, faults>>

PullTick ==
  /\ pc = "watch" /\ git /\ pc' = "tick"
  /\ UNCHANGED <<git, remote, cloneVars, watchVars, snapshot, pullOK, unseen, changes, faults>>

-----------------------------------------------------------------------------
\* One directory changes: of the files of a local source, or on the remote, where a commit
\* may also rewind.
Change(d, c) ==
  /\ changes < MaxChanges /\ changes' = changes + 1
  /\ IF git
     THEN remote' = [remote EXCEPT ![d] = c] /\ UNCHANGED <<disk, debounce, unseen>>
     ELSE Becomes([disk EXCEPT ![d] = c]) /\ UNCHANGED remote
  /\ UNCHANGED <<git, parked, head, pc, watchRoot, watched, fireSig, refresh, snapshot, pullOK, faults>>

\* The daemon dies and starts again: the clone stays as it is.
Restart ==
  /\ Fault
  /\ pc' = "start" /\ watchRoot' = FALSE /\ watched' = {}
  /\ debounce' = FALSE /\ fireSig' = FALSE /\ refresh' = FALSE
  /\ snapshot' = [d \in Dirs |-> None] /\ pullOK' = FALSE /\ unseen' = {}
  /\ UNCHANGED <<git, remote, cloneVars, changes>>

Next ==
  \/ PullLocal \/ PullFails \/ Clone \/ Fetch \/ Reset \/ Wipe
  \/ FirstPass \/ AddWatchDirs \/ Debounced \/ Fire \/ SetParentOverrides \/ Refreshed \/ PullTick
  \/ \E d \in All, ok \in BOOLEAN : Change(d, [v |-> changes + 1, ok |-> ok])
  \/ git /\ \E d \in All : remote[d].v > 0 /\ Change(d, First[d])
  \/ Restart

Spec == Init /\ [][Next]_vars

-----------------------------------------------------------------------------
TypeOK ==
  /\ remote \in [All -> Contents] /\ disk # None => disk \in [All -> Contents]
  /\ watched \subseteq All /\ unseen \subseteq All

Quiet == pc = "watch" /\ ~debounce /\ ~fireSig /\ ~refresh
Live(d) == disk # None /\ disk[Root].ok /\ disk[d].ok => snapshot[d] = disk[d]

\* When the loop is at rest the snapshot has every content that loads, except in
\* directories that changed while nothing watched them: no event is lost in the debounce
\* or the one-slot signals, however changes, passes and pulls fall.
NoEventIsLost == Quiet /\ unseen = {} => \A d \in Dirs : Live(d)

\* "the next refresh still sees the two differ and completes the checkout": a pull that
\* ended well leaves HEAD on the fetched commit, also after a crash between fetch and reset.
RefreshCompletes == git /\ pc = "watch" /\ pullOK /\ parked # None => head = parked

=============================================================================
