----------------------------- MODULE ApprovalGate -----------------------------
(***************************************************************************)
(* pkg/approval and its wiring in pkg/daemon: the gate that holds a new or *)
(* changed task pending until an operator approves its content hash.       *)
(*                                                                         *)
(* The reconciler goroutine admits and forgets the task, operators approve *)
(* it, fires ask the fire guard, the bootstrap timer ends the first-run    *)
(* window, and the daemon may restart.  They share the pending and the     *)
(* admitted map (g.mu), the lock (its own mutex), the file behind it and   *)
(* the engine's triggers; no lock spans two of these, so each access is an *)
(* action of its own.                                                      *)
(*                                                                         *)
(* Tasks share only the lock file, and a save for one task writes the      *)
(* records of all: one task is modelled, and SaveForAnother stands for the *)
(* others.  Left out: commits and rendered review state, which no decision *)
(* reads, the enabled flag, and the lockfile's MAC.                        *)
(***************************************************************************)
EXTENDS Naturals

CONSTANTS
  Versions,    \* versions of the task's files and resolved fields
  Approvers,   \* goroutines that approve (API, control socket, approve link)
  Fires,       \* goroutines in the engine's fire guard
  Policies,    \* what dicode.yaml may say: "gated", "trusted" (a trusted or
               \* builtin task), "disabled" (the gate is off)
  Events,      \* which of "saveFails", "armFails", "remove", "crash",
               \* "lockLost", "dbLost" may happen
  MaxEdits,    \* bound: edits of the files
  MaxMishaps,  \* bound: crashes, and losses of the lock file or the database
  NoVersion,   \* no task: not on disk, not registered, not armed
  NoHash       \* the empty hash

ASSUME GateAssumption ==
  /\ NoVersion \notin Versions
  /\ NoHash \notin Versions \X Versions
  /\ Policies \subseteq {"gated", "trusted", "disabled"}
  /\ Events \subseteq {"saveFails", "armFails", "remove", "crash", "lockLost", "dbLost"}
  /\ MaxEdits \in Nat /\ MaxMishaps \in Nat

VARIABLES
  files,      \* the version on disk
  policy,     \* what dicode.yaml said at start
  registered, \* registry: the version the reconciler registered last
  armed,      \* engine: the version whose triggers are armed
  admitted,   \* Gate.admitted
  pending,    \* Gate.pending: {} or {the entry}
  bootstrap,  \* Gate.bootstrap
  lock,       \* Lock.tasks: the approved hash, or NoHash
  lockMark,   \* Lock.bootstrapped
  lockFile,   \* dicode.lock
  dbMark,     \* the marker row in SQLite
  rpc, rk, rh,\* reconciler: next statement, the task it handles, its hash
  apc, ent,   \* approver: next statement, the pending entry it read
  want,       \* approver: the hash it is bound to, or NoHash
  fpc, fk, fh,\* fire: next statement, the admitted task, its live hash
  tpc,        \* bootstrap timer: next statement
  issued,     \* hashes with an approve link outstanding, or shown for review
  reviewed,   \* history: what an operator, the policy or the window let in
              \* (a task without a hash: its version alone)
  closed,     \* history: the bootstrap window ended with both markers saved, and
              \* they have not both been lost since
  edits, mishaps

gateVars == <<admitted, pending, bootstrap>>
lockVars == <<lock, lockMark, lockFile>>
recVars == <<rpc, rk, rh>>
apVars == <<apc, ent, want>>
fireVars == <<fpc, fk, fh>>
bootVars == <<tpc, dbMark, closed>>
worldVars == <<files, policy, edits, mishaps>>
vars == <<registered, armed, issued, reviewed, gateVars, lockVars, recVars,
          apVars, fireVars, bootVars, worldVars>>

Hashes == Versions \X Versions
MaybeHash == Hashes \cup {NoHash}
MaybeVersion == Versions \cup {NoVersion}
\* pendingEntry: the task as registered and the hash the decision was about.
Entries == [kinded : Versions, hash : MaybeHash]
NoEntry == [kinded |-> NoVersion, hash |-> NoHash]
LockFiles == [exists : BOOLEAN, hash : MaybeHash, mark : BOOLEAN]
NoFile == [exists |-> FALSE, hash |-> NoHash, mark |-> FALSE]

RecLabels == {"idle", "hash", "note", "decide", "clear", "clearAuto", "record", "arm",
              "pend", "disarm", "disarmGone", "clearGone", "dropAdmitted", "forgetLock"}

TypeOK ==
  /\ files \in MaybeVersion /\ policy \in Policies
  /\ registered \in MaybeVersion /\ armed \in MaybeVersion
  /\ admitted \in MaybeVersion
  /\ pending \subseteq Entries /\ \A e1, e2 \in pending : e1 = e2
  /\ bootstrap \in BOOLEAN
  /\ lock \in MaybeHash /\ lockMark \in BOOLEAN /\ lockFile \in LockFiles
  /\ dbMark \in BOOLEAN
  /\ rpc \in RecLabels /\ rk \in MaybeVersion /\ rh \in MaybeHash
  /\ apc \in [Approvers -> {"idle", "read", "record", "arm", "clear"}]
  /\ ent \in [Approvers -> Entries \cup {NoEntry}]
  /\ want \in [Approvers -> MaybeHash]
  /\ fpc \in [Fires -> {"idle", "read", "rehash", "compare", "started"}]
  /\ fk \in [Fires -> MaybeVersion] /\ fh \in [Fires -> MaybeHash]
  /\ tpc \in {"armed", "markLock", "markDb", "done"}
  /\ issued \subseteq Hashes /\ reviewed \subseteq Versions \X MaybeVersion
  /\ closed \in BOOLEAN
  /\ edits \in 0..MaxEdits /\ mishaps \in 0..MaxMishaps

-----------------------------------------------------------------------------
(* Helpers.  An operator named ...Fault is a faulty variant of the one that *)
(* follows it, which no action uses.                                       *)

\* ContentHash: the resolved fields of the task as loaded, the files as they
\* are now; no hash when the directory is gone.
HashOf(k) == IF files = NoVersion \/ k = NoVersion THEN NoHash ELSE <<k, files>>

Trusted == policy # "gated"

\* A first run has neither a lock nor a marker; the DB marker is forgotten.
ShouldBootstrapFault(exists, mark, db) == ~exists /\ ~mark /\ policy' # "disabled"

ShouldBootstrap(exists, mark, db) == ~exists /\ ~(mark \/ db) /\ policy' # "disabled"

\* The lock file with the given contents.
FileOf(h, mark) == [exists |-> TRUE, hash |-> h, mark |-> mark]

\* Lock.Record: nothing to do at an unchanged hash; otherwise the record is
\* replaced in memory and then saved, and a failed save leaves it replaced.
\* ok says what Record returns.
RecordHash(h, ok) ==
  IF lock = h THEN ok /\ UNCHANGED lockVars
  ELSE /\ lock' = h
       /\ ok \/ "saveFails" \in Events
       /\ lockFile' = IF ok THEN FileOf(h, lockMark) ELSE lockFile
       /\ UNCHANGED lockMark

ClearPending == pending' = {}

RecGoto(l) == rpc' = l /\ UNCHANGED <<rk, rh>>
RecDone == rpc' = "idle" /\ rk' = NoVersion /\ rh' = NoHash
ApDone(a) ==
  /\ apc' = [apc EXCEPT ![a] = "idle"]
  /\ ent' = [ent EXCEPT ![a] = NoEntry]
  /\ want' = [want EXCEPT ![a] = NoHash]
FireDone(f) ==
  /\ fpc' = [fpc EXCEPT ![f] = "idle"]
  /\ fk' = [fk EXCEPT ![f] = NoVersion]
  /\ fh' = [fh EXCEPT ![f] = NoHash]

Others == UNCHANGED <<registered, issued, bootVars, worldVars>>
KeepRec == UNCHANGED recVars
KeepAp == UNCHANGED apVars
KeepFires == UNCHANGED fireVars

Init ==
  /\ files \in MaybeVersion /\ policy \in Policies
  /\ registered = NoVersion /\ armed = NoVersion /\ admitted = NoVersion
  /\ pending = {}
  /\ bootstrap = (policy # "disabled")
  /\ lock = NoHash /\ lockMark = FALSE /\ lockFile = NoFile /\ dbMark = FALSE
  /\ rpc = "idle" /\ rk = NoVersion /\ rh = NoHash
  /\ apc = [a \in Approvers |-> "idle"]
  /\ ent = [a \in Approvers |-> NoEntry]
  /\ want = [a \in Approvers |-> NoHash]
  /\ fpc = [f \in Fires |-> "idle"]
  /\ fk = [f \in Fires |-> NoVersion]
  /\ fh = [f \in Fires |-> NoHash]
  /\ tpc = IF bootstrap THEN "armed" ELSE "done"
  /\ issued = {} /\ reviewed = {} /\ closed = FALSE
  /\ edits = 0 /\ mishaps = 0

-----------------------------------------------------------------------------
(* The reconciler goroutine: OnRegister and OnUnregister.                  *)

\* The task's source reports the version on disk; the registry has it before
\* the gate decides.
TaskChanged ==
  /\ rpc = "idle" /\ files # NoVersion /\ files # registered
  /\ registered' = files
  /\ rpc' = "hash" /\ rk' = files /\ rh' = NoHash
  /\ UNCHANGED <<armed, issued, reviewed, gateVars, lockVars, bootVars, worldVars>>
  /\ KeepAp /\ KeepFires

AdmitHash ==
  /\ rpc = "hash"
  /\ rh' = HashOf(rk) /\ rpc' = "note" /\ UNCHANGED rk
  /\ UNCHANGED <<armed, reviewed, gateVars, lockVars>>
  /\ Others /\ KeepAp /\ KeepFires

AdmitNote ==
  /\ rpc = "note"
  /\ admitted' = rk
  /\ RecGoto("decide")
  /\ UNCHANGED <<armed, reviewed, pending, bootstrap, lockVars>>
  /\ Others /\ KeepAp /\ KeepFires

\* Holds nothing back while the window is open or the policy trusts the task,
\* and nothing the lock approves at this very hash.
AdmitDecide ==
  /\ rpc = "decide"
  /\ LET approved == rh # NoHash /\ lock = rh
         auto == Trusted \/ (~approved /\ bootstrap)
     IN  /\ RecGoto(IF auto THEN "clearAuto" ELSE IF approved THEN "clear" ELSE "pend")
         /\ reviewed' = IF auto THEN reviewed \cup {IF rh = NoHash THEN <<rk, NoVersion>> ELSE rh}
                        ELSE reviewed
  /\ UNCHANGED <<armed, gateVars, lockVars>>
  /\ Others /\ KeepAp /\ KeepFires

AdmitClear ==
  /\ rpc \in {"clear", "clearAuto"}
  /\ ClearPending
  /\ RecGoto(IF rpc = "clear" \/ rh = NoHash THEN "arm" ELSE "record")
  /\ UNCHANGED <<armed, reviewed, admitted, bootstrap, lockVars>>
  /\ Others /\ KeepAp /\ KeepFires

\* A failed write of the inventory does not keep the task from arming.
AdmitRecord ==
  /\ rpc = "record"
  /\ \E ok \in BOOLEAN : RecordHash(rh, ok)
  /\ RecGoto("arm")
  /\ UNCHANGED <<armed, reviewed, gateVars>>
  /\ Others /\ KeepAp /\ KeepFires

\* arm: Engine.Register; an engine that refuses the task keeps the triggers it
\* has.
AdmitArm ==
  /\ rpc = "arm"
  /\ \/ armed' = rk
     \/ "armFails" \in Events /\ UNCHANGED armed
  /\ RecDone
  /\ UNCHANGED <<reviewed, gateVars, lockVars>>
  /\ Others /\ KeepAp /\ KeepFires

AdmitPend ==
  /\ rpc = "pend"
  /\ pending' = {[kinded |-> rk, hash |-> rh]}
  /\ RecGoto("disarm")
  /\ UNCHANGED <<armed, reviewed, admitted, bootstrap, lockVars>>
  /\ Others /\ KeepAp /\ KeepFires

\* disarm: Engine.Unregister, for a held task and for a removed one.
Disarm ==
  /\ rpc \in {"disarm", "disarmGone"}
  /\ armed' = NoVersion
  /\ IF rpc = "disarm" THEN RecDone ELSE RecGoto("clearGone")
  /\ UNCHANGED <<reviewed, gateVars, lockVars>>
  /\ Others /\ KeepAp /\ KeepFires

TaskRemoved ==
  /\ rpc = "idle" /\ files = NoVersion /\ registered # NoVersion
  /\ registered' = NoVersion
  /\ RecGoto("disarmGone")
  /\ UNCHANGED <<armed, issued, reviewed, gateVars, lockVars, bootVars, worldVars>>
  /\ KeepAp /\ KeepFires

ForgetPending ==
  /\ rpc = "clearGone"
  /\ ClearPending
  /\ RecGoto("dropAdmitted")
  /\ UNCHANGED <<armed, reviewed, admitted, bootstrap, lockVars>>
  /\ Others /\ KeepAp /\ KeepFires

ForgetAdmitted ==
  /\ rpc = "dropAdmitted"
  /\ admitted' = NoVersion
  /\ RecGoto("forgetLock")
  /\ UNCHANGED <<armed, reviewed, pending, bootstrap, lockVars>>
  /\ Others /\ KeepAp /\ KeepFires

ForgetLock ==
  /\ rpc = "forgetLock"
  /\ lock' = NoHash
  /\ \/ lockFile' = IF lock = NoHash THEN lockFile ELSE FileOf(NoHash, lockMark)
     \/ "saveFails" \in Events /\ UNCHANGED lockFile
  /\ RecDone
  /\ UNCHANGED <<armed, reviewed, gateVars, lockMark>>
  /\ Others /\ KeepAp /\ KeepFires

-----------------------------------------------------------------------------
(* Operators.                                                              *)

\* An approve link is minted for, or a review surface shows, the pending hash.
IssueHash ==
  /\ \E e \in pending : e.hash # NoHash /\ issued' = issued \cup {e.hash}
  /\ UNCHANGED <<registered, armed, reviewed, gateVars, lockVars, bootVars, worldVars>>
  /\ KeepRec /\ KeepAp /\ KeepFires

\* Redeem: the row is deleted, then the gate is asked.  A bound request of the
\* dashboard is the same with a hash that was shown.
RedeemLink(a, h) ==
  /\ apc[a] = "idle" /\ h \in issued
  /\ issued' = issued \ {h}
  /\ reviewed' = reviewed \cup {h}
  /\ want' = [want EXCEPT ![a] = h]
  /\ apc' = [apc EXCEPT ![a] = "read"]
  /\ UNCHANGED <<registered, armed, ent, gateVars, lockVars, bootVars, worldVars>>
  /\ KeepRec /\ KeepFires

\* A link past its TTL is collected, or consumed by a redemption that fails.
ExpireLink ==
  /\ \E h \in issued : issued' = issued \ {h}
  /\ UNCHANGED <<registered, armed, reviewed, gateVars, lockVars, bootVars, worldVars>>
  /\ KeepRec /\ KeepAp /\ KeepFires

\* `dicode task approve`: whatever is pending when the gate reads it.
ApproveBlind(a) ==
  /\ apc[a] = "idle"
  /\ \E e \in pending :
       /\ e.hash # NoHash
       /\ ent' = [ent EXCEPT ![a] = e]
       /\ reviewed' = reviewed \cup {e.hash}
  /\ apc' = [apc EXCEPT ![a] = "record"]
  /\ UNCHANGED <<armed, want, gateVars, lockVars>>
  /\ Others /\ KeepRec /\ KeepFires

\* Approves what is pending, whatever the link was minted for.
ReadPendingFault(a) ==
  /\ apc[a] = "read"
  /\ IF \E e \in pending : e.hash # NoHash
     THEN /\ ent' = [ent EXCEPT ![a] = CHOOSE e \in pending : TRUE]
          /\ apc' = [apc EXCEPT ![a] = "record"]
          /\ UNCHANGED want
     ELSE ApDone(a)
  /\ UNCHANGED <<armed, reviewed, gateVars, lockVars>>
  /\ Others /\ KeepRec /\ KeepFires

ReadPending(a) ==
  /\ apc[a] = "read"
  /\ IF \E e \in pending : e.hash = want[a]
     THEN /\ ent' = [ent EXCEPT ![a] = CHOOSE e \in pending : TRUE]
          /\ apc' = [apc EXCEPT ![a] = "record"]
          /\ UNCHANGED want
     ELSE ApDone(a)
  /\ UNCHANGED <<armed, reviewed, gateVars, lockVars>>
  /\ Others /\ KeepRec /\ KeepFires

ApproveRecord(a) ==
  /\ apc[a] = "record"
  /\ \E ok \in BOOLEAN :
       /\ RecordHash(ent[a].hash, ok)
       /\ IF ok THEN apc' = [apc EXCEPT ![a] = "arm"] /\ UNCHANGED <<ent, want>> ELSE ApDone(a)
  /\ UNCHANGED <<armed, reviewed, gateVars>>
  /\ Others /\ KeepRec /\ KeepFires

ApproveArm(a) ==
  /\ apc[a] = "arm"
  /\ \/ armed' = ent[a].kinded /\ apc' = [apc EXCEPT ![a] = "clear"] /\ UNCHANGED <<ent, want>>
     \/ "armFails" \in Events /\ UNCHANGED armed /\ ApDone(a)
  /\ UNCHANGED <<reviewed, gateVars, lockVars>>
  /\ Others /\ KeepRec /\ KeepFires

\* Clears whatever is pending by now.
ApproveClearFault(a) ==
  /\ apc[a] = "clear"
  /\ ClearPending
  /\ ApDone(a)
  /\ UNCHANGED <<armed, reviewed, admitted, bootstrap, lockVars>>
  /\ Others /\ KeepRec /\ KeepFires

\* A version pended in the meantime at another hash stays held.
ApproveClear(a) ==
  /\ apc[a] = "clear"
  /\ pending' = {e \in pending : e.hash # ent[a].hash}
  /\ ApDone(a)
  /\ UNCHANGED <<armed, reviewed, admitted, bootstrap, lockVars>>
  /\ Others /\ KeepRec /\ KeepFires

-----------------------------------------------------------------------------
(* Engine.checkFireGuard: Gate.FireGuard.  Manual fires resolve the task    *)
(* from the registry, triggers from what is armed.                         *)

FireCheck(f) ==
  /\ fpc[f] = "idle"
  /\ registered # NoVersion \/ armed # NoVersion
  /\ pending = {}
  /\ fpc' = [fpc EXCEPT ![f] = IF Trusted THEN "started" ELSE "read"]
  /\ UNCHANGED <<armed, reviewed, fk, fh, gateVars, lockVars>>
  /\ Others /\ KeepRec /\ KeepAp

FireRead(f) ==
  /\ fpc[f] = "read"
  /\ IF admitted = NoVersion THEN FireDone(f)
     ELSE /\ fk' = [fk EXCEPT ![f] = admitted]
          /\ fpc' = [fpc EXCEPT ![f] = "rehash"]
          /\ UNCHANGED fh
  /\ UNCHANGED <<armed, reviewed, gateVars, lockVars>>
  /\ Others /\ KeepRec /\ KeepAp

\* The files may have been edited since the task was admitted.
FireRehash(f) ==
  /\ fpc[f] = "rehash"
  /\ IF HashOf(fk[f]) = NoHash THEN FireDone(f)
     ELSE /\ fh' = [fh EXCEPT ![f] = HashOf(fk[f])]
          /\ fpc' = [fpc EXCEPT ![f] = "compare"]
          /\ UNCHANGED fk
  /\ UNCHANGED <<armed, reviewed, gateVars, lockVars>>
  /\ Others /\ KeepRec /\ KeepAp

FireCompare(f) ==
  /\ fpc[f] = "compare"
  /\ IF lock = fh[f] THEN fpc' = [fpc EXCEPT ![f] = "started"] /\ UNCHANGED <<fk, fh>>
     ELSE FireDone(f)
  /\ UNCHANGED <<armed, reviewed, gateVars, lockVars>>
  /\ Others /\ KeepRec /\ KeepAp

\* The run is on its way.
FireLeaves(f) ==
  /\ fpc[f] = "started"
  /\ FireDone(f)
  /\ UNCHANGED <<armed, reviewed, gateVars, lockVars>>
  /\ Others /\ KeepRec /\ KeepAp

-----------------------------------------------------------------------------
(* The bootstrap timer.                                                    *)

\* The settle time has passed since the last registration of the window.
EndBootstrap ==
  /\ tpc = "armed"
  /\ bootstrap' = FALSE
  /\ tpc' = "markLock"
  /\ UNCHANGED <<registered, armed, issued, reviewed, admitted, pending, lockVars, dbMark, closed, worldVars>>
  /\ KeepRec /\ KeepAp /\ KeepFires

\* MarkBootstrapped takes its flag back when the save fails.
MarkLock ==
  /\ tpc = "markLock"
  /\ \/ lockMark' = TRUE /\ lockFile' = FileOf(lock, TRUE)
     \/ "saveFails" \in Events /\ UNCHANGED <<lockMark, lockFile>>
  /\ tpc' = "markDb"
  /\ UNCHANGED <<registered, armed, issued, reviewed, gateVars, lock, dbMark, closed, worldVars>>
  /\ KeepRec /\ KeepAp /\ KeepFires

MarkDb ==
  /\ tpc = "markDb"
  /\ \E ok \in BOOLEAN :
       /\ ok \/ "saveFails" \in Events
       /\ dbMark' = (dbMark \/ ok)
       /\ closed' = (closed \/ (ok /\ lockMark))
  /\ tpc' = "done"
  /\ UNCHANGED <<registered, armed, issued, reviewed, gateVars, lockVars, worldVars>>
  /\ KeepRec /\ KeepAp /\ KeepFires

-----------------------------------------------------------------------------
(* The world: edits, other tasks, losses and restarts.                     *)

EditFiles(v) ==
  /\ edits < MaxEdits
  /\ v # files
  /\ v = NoVersion => "remove" \in Events
  /\ files' = v
  /\ edits' = edits + 1
  /\ UNCHANGED <<registered, armed, issued, reviewed, gateVars, lockVars, bootVars, policy, mishaps>>
  /\ KeepRec /\ KeepAp /\ KeepFires

\* A save for another task writes this task's record too.
SaveForAnother ==
  /\ lockFile' = FileOf(lock, lockMark)
  /\ UNCHANGED <<lock, lockMark, armed, reviewed, gateVars>>
  /\ Others /\ KeepRec /\ KeepAp /\ KeepFires

LoseLock ==
  /\ "lockLost" \in Events /\ mishaps < MaxMishaps
  /\ lockFile' = NoFile
  /\ closed' = (closed /\ dbMark)
  /\ mishaps' = mishaps + 1
  /\ UNCHANGED <<registered, armed, issued, reviewed, gateVars, lock, lockMark, tpc, dbMark, files, policy, edits>>
  /\ KeepRec /\ KeepAp /\ KeepFires

\* The database holds the marker and the approve links.
LoseDb ==
  /\ "dbLost" \in Events /\ mishaps < MaxMishaps
  /\ dbMark' = FALSE /\ issued' = {}
  /\ closed' = (closed /\ lockFile.mark)
  /\ mishaps' = mishaps + 1
  /\ UNCHANGED <<registered, armed, reviewed, gateVars, lockVars, tpc, files, policy, edits>>
  /\ KeepRec /\ KeepAp /\ KeepFires

\* A lock without a marker: the window of a first run was cut short.
AdoptsLock == policy' # "disabled" /\ lockFile.exists /\ ~lockFile.mark /\ ~dbMark

\* A restart loses the memory of the daemon.  setupApprovalGate opens the
\* bootstrap window on a first run, and marks a lock it finds without a marker.
Restart ==
  /\ "crash" \in Events /\ mishaps < MaxMishaps
  /\ mishaps' = mishaps + 1
  /\ policy' \in Policies
  /\ registered' = NoVersion /\ armed' = NoVersion
  /\ admitted' = NoVersion /\ pending' = {}
  /\ lock' = lockFile.hash
  /\ bootstrap' = ShouldBootstrap(lockFile.exists, lockFile.mark, dbMark)
  /\ \E okLock, okDb \in BOOLEAN :
       /\ AdoptsLock /\ ~(okLock /\ okDb) => "saveFails" \in Events
       /\ lockMark' = (lockFile.mark \/ (AdoptsLock /\ okLock))
       /\ lockFile' = IF AdoptsLock /\ okLock THEN FileOf(lock', TRUE) ELSE lockFile
       /\ dbMark' = (dbMark \/ (AdoptsLock /\ okDb))
       /\ closed' = (closed \/ (AdoptsLock /\ okLock /\ okDb))
  /\ tpc' = IF bootstrap' THEN "armed" ELSE "done"
  /\ RecDone
  /\ apc' = [a \in Approvers |-> "idle"]
  /\ ent' = [a \in Approvers |-> NoEntry]
  /\ want' = [a \in Approvers |-> NoHash]
  /\ fpc' = [f \in Fires |-> "idle"]
  /\ fk' = [f \in Fires |-> NoVersion]
  /\ fh' = [f \in Fires |-> NoHash]
  /\ UNCHANGED <<issued, reviewed, files, edits>>

-----------------------------------------------------------------------------

Reconciler ==
  \/ TaskChanged \/ AdmitHash \/ AdmitNote \/ AdmitDecide \/ AdmitClear
  \/ AdmitRecord \/ AdmitArm \/ AdmitPend \/ Disarm
  \/ TaskRemoved \/ ForgetPending \/ ForgetAdmitted \/ ForgetLock

Approver(a) ==
  \/ \E h \in Hashes : RedeemLink(a, h)
  \/ ApproveBlind(a) \/ ReadPending(a)
  \/ ApproveRecord(a) \/ ApproveArm(a) \/ ApproveClear(a)

Fire(f) == FireCheck(f) \/ FireRead(f) \/ FireRehash(f) \/ FireCompare(f) \/ FireLeaves(f)

Timer == EndBootstrap \/ MarkLock \/ MarkDb

World ==
  \/ \E v \in MaybeVersion : EditFiles(v)
  \/ SaveForAnother \/ LoseLock \/ LoseDb \/ Restart

Next ==
  \/ Reconciler \/ IssueHash \/ ExpireLink \/ Timer \/ World
  \/ \E a \in Approvers : Approver(a)
  \/ \E f \in Fires : Fire(f)

Spec == Init /\ [][Next]_vars

-----------------------------------------------------------------------------
(* Properties.                                                             *)

\* "a token minted for one version of a task can never approve a later
\* version" (gate.go:447-448), and nothing else lets content in unseen: the
\* lock and its file name only hashes that an operator approved or the policy
\* or the bootstrap window let in, only such content is armed, and a fire gets
\* past the guard only on content that hashes to one of them.
OnlyReviewed ==
  /\ {lock, lockFile.hash} \subseteq reviewed \cup {NoHash}
  /\ armed # NoVersion => \E h \in reviewed : h[1] = armed
  /\ \A f \in Fires : fpc[f] = "started" /\ ~Trusted => fh[f] \in reviewed

\* "that newer version must stay held" (gate.go:503-504): a task leaves the
\* pending set by a removal, a restart, an admission, or the approval of the
\* very hash it was pending at.
StaysHeld ==
  [][\A e \in pending : e \notin pending' =>
       \/ e.hash \in reviewed
       \/ rpc \in {"clear", "clearAuto", "clearGone", "pend"}
       \/ mishaps' # mishaps]_vars

\* "deleting either alone is insufficient to re-enable bootstrap"
\* (bootstrap.go:27-30): a window that closed with both markers saved
\* stays shut, over restarts and the loss of either marker.
WindowStaysShut == closed => ~bootstrap

-----------------------------------------------------------------------------
(* What comments and docs promise.                                         *)

\* Nobody is in the middle of a call and the sources have nothing to report.
Settled ==
  /\ rpc = "idle" /\ registered = files
  /\ \A a \in Approvers : apc[a] = "idle"

\* "To find what is being held, `dicode task pending` lists each gate-held
\* task" (docs/upgrade-notes.md:91): a settled task that the fire guard refuses
\* is in the pending set.  Admissions that hashed files newer than the task
\* they were called with are left aside.
HeldIsListed ==
  Settled /\ (\A h \in reviewed : h[1] = h[2]) /\ admitted # NoVersion /\ ~Trusted /\ lock # HashOf(admitted) => pending # {}
=============================================================================
