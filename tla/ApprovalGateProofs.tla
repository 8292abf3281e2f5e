-------------------------- MODULE ApprovalGateProofs ---------------------------
(***************************************************************************)
(* Proofs about ApprovalGate, for every set of versions, approvers and     *)
(* fires, every policy and every choice of events: the types, and that     *)
(* nothing gets in that nobody reviewed.                                   *)
(***************************************************************************)
EXTENDS ApprovalGate, TLAPS

-----------------------------------------------------------------------------
(* The data.                                                               *)

LEMMA HashFacts ==
  /\ NoHash \in MaybeHash /\ NoHash \notin Hashes
  /\ \A h \in Hashes : h \in MaybeHash /\ h \in Versions \X MaybeVersion /\ h[1] \in Versions
  /\ \A h \in MaybeHash : h # NoHash => h \in Hashes
BY GateAssumption DEF MaybeHash, Hashes, MaybeVersion

LEMMA VersionFacts ==
  /\ NoVersion \in MaybeVersion /\ NoVersion \notin Versions
  /\ \A v \in Versions : v \in MaybeVersion
  /\ \A v \in MaybeVersion : v # NoVersion => v \in Versions
BY GateAssumption DEF MaybeVersion

LEMMA EntryFacts ==
  /\ \A k \in Versions, h \in MaybeHash : [kinded |-> k, hash |-> h] \in Entries
  /\ \A e \in Entries : e.kinded \in Versions /\ e.hash \in MaybeHash
  /\ NoEntry \notin Entries /\ NoEntry.hash = NoHash
BY GateAssumption DEF Entries, NoEntry

LEMMA FileFacts ==
  /\ NoFile \in LockFiles /\ NoFile.hash = NoHash
  /\ \A h \in MaybeHash, m \in BOOLEAN : FileOf(h, m) \in LockFiles /\ FileOf(h, m).hash = h
  /\ \A f \in LockFiles : f.hash \in MaybeHash /\ f.mark \in BOOLEAN /\ f.exists \in BOOLEAN
BY HashFacts DEF NoFile, LockFiles, FileOf

\* ContentHash hashes the task it is given together with the files.
LEMMA HashOfFacts ==
  ASSUME files \in MaybeVersion, NEW k \in MaybeVersion
  PROVE  /\ HashOf(k) \in MaybeHash
         /\ HashOf(k) # NoHash => k \in Versions /\ HashOf(k)[1] = k
BY GateAssumption DEF HashOf, MaybeHash, Hashes, MaybeVersion

\* Record leaves the lock at the hash, and the file at it or as it was.
LEMMA RecordFacts ==
  ASSUME TypeOK, NEW h \in MaybeHash, NEW ok \in BOOLEAN, RecordHash(h, ok)
  PROVE  /\ lock' = h /\ lockMark' \in BOOLEAN /\ lockFile' \in LockFiles
         /\ lockFile' = lockFile \/ lockFile'.hash = h
<1>1. lockMark \in BOOLEAN /\ lockFile \in LockFiles
  BY DEF TypeOK
<1>2. CASE lock = h
  BY <1>1, <1>2 DEF RecordHash, lockVars
<1>3. CASE lock # h
  BY <1>1, <1>3, FileFacts DEF RecordHash
<1> QED
  BY <1>2, <1>3

-----------------------------------------------------------------------------
(* Types.                                                                  *)

\* TypeOK, and the reconciler has a task in hand while it admits it.
TypeInv ==
  /\ TypeOK
  /\ rpc \in {"hash", "note", "decide", "clear", "clearAuto", "record", "arm", "pend"} => rk \in Versions

LEMMA TypeInit == Init => TypeInv
<1> SUFFICES ASSUME Init PROVE TypeInv
  OBVIOUS
<1>1. bootstrap \in BOOLEAN /\ tpc \in {"armed", "markLock", "markDb", "done"}
  BY DEF Init
<1>2. apc \in [Approvers -> {"idle", "read", "record", "arm", "clear"}]
      /\ ent \in [Approvers -> Entries \cup {NoEntry}] /\ want \in [Approvers -> MaybeHash]
  BY HashFacts DEF Init
<1>3. fpc \in [Fires -> {"idle", "read", "rehash", "compare", "started"}]
      /\ fk \in [Fires -> MaybeVersion] /\ fh \in [Fires -> MaybeHash]
  BY HashFacts, VersionFacts DEF Init
<1>4. edits \in 0..MaxEdits /\ mishaps \in 0..MaxMishaps
  BY GateAssumption DEF Init
<1> QED
  BY <1>1, <1>2, <1>3, <1>4, HashFacts, VersionFacts, FileFacts DEF Init, TypeInv, TypeOK, RecLabels

LEMMA TypeReconciler == TypeInv /\ Reconciler => TypeInv'
<1> SUFFICES ASSUME TypeInv, Reconciler PROVE TypeInv'
  OBVIOUS
<1> USE HashFacts, VersionFacts
     DEF TypeInv, TypeOK, Others, KeepRec, KeepAp, KeepFires, recVars, apVars, fireVars, bootVars, worldVars,
         gateVars, lockVars, RecLabels, RecGoto, RecDone
<1>1. CASE TaskChanged
  BY <1>1 DEF TaskChanged
<1>2. CASE AdmitHash
  BY <1>2, HashOfFacts DEF AdmitHash
<1>3. CASE AdmitNote
  BY <1>3 DEF AdmitNote
<1>4. CASE AdmitDecide
  <2>1. reviewed' \subseteq Versions \X MaybeVersion
    BY <1>4 DEF AdmitDecide
  <2> QED
    BY <2>1, <1>4 DEF AdmitDecide
<1>5. CASE AdmitClear
  BY <1>5 DEF AdmitClear, ClearPending
<1>6. CASE AdmitRecord
  <2>1. PICK ok \in BOOLEAN : RecordHash(rh, ok)
    BY <1>6 DEF AdmitRecord
  <2>2. lock' \in MaybeHash /\ lockMark' \in BOOLEAN /\ lockFile' \in LockFiles
    BY <2>1, RecordFacts
  <2> QED
    BY <1>6, <2>2 DEF AdmitRecord
<1>7. CASE AdmitArm
  BY <1>7 DEF AdmitArm
<1>8. CASE AdmitPend
  BY <1>8, EntryFacts DEF AdmitPend
<1>9. CASE Disarm
  BY <1>9 DEF Disarm
<1>10. CASE TaskRemoved
  BY <1>10 DEF TaskRemoved
<1>11. CASE ForgetPending
  BY <1>11 DEF ForgetPending, ClearPending
<1>12. CASE ForgetAdmitted
  BY <1>12 DEF ForgetAdmitted
<1>13. CASE ForgetLock
  <2>1. lockFile \in LockFiles /\ FileOf(NoHash, lockMark) \in LockFiles
    BY FileFacts
  <2>2. lockFile' \in {lockFile, FileOf(NoHash, lockMark)}
    BY <1>13 DEF ForgetLock
  <2> QED
    BY <1>13, <2>1, <2>2 DEF ForgetLock
<1> QED
  BY <1>1, <1>2, <1>3, <1>4, <1>5, <1>6, <1>7, <1>8, <1>9, <1>10, <1>11, <1>12, <1>13 DEF Reconciler

LEMMA TypeApprover == ASSUME TypeInv, NEW a \in Approvers, Approver(a) PROVE TypeInv'
<1> USE HashFacts, VersionFacts
     DEF TypeInv, TypeOK, Others, KeepRec, KeepAp, KeepFires, recVars, apVars, fireVars, bootVars, worldVars,
         gateVars, lockVars, RecLabels, ApDone
<1>1. ASSUME NEW h \in Hashes, RedeemLink(a, h) PROVE TypeInv'
  BY <1>1 DEF RedeemLink
<1>2. CASE ApproveBlind(a)
  <2>1. PICK e \in pending : /\ e.hash # NoHash /\ ent' = [ent EXCEPT ![a] = e]
                             /\ reviewed' = reviewed \cup {e.hash}
    BY <1>2 DEF ApproveBlind
  <2>2. e \in Entries /\ e.hash \in Versions \X MaybeVersion
    BY <2>1, EntryFacts
  <2> QED
    BY <1>2, <2>1, <2>2 DEF ApproveBlind
<1>3. CASE ReadPending(a)
  BY <1>3 DEF ReadPending
<1>4. CASE ApproveRecord(a)
  <2>1. PICK ok \in BOOLEAN :
          /\ RecordHash(ent[a].hash, ok)
          /\ IF ok THEN apc' = [apc EXCEPT ![a] = "arm"] /\ UNCHANGED <<ent, want>> ELSE ApDone(a)
    BY <1>4 DEF ApproveRecord
  <2>2. ent[a].hash \in MaybeHash
    BY EntryFacts
  <2>3. lock' \in MaybeHash /\ lockMark' \in BOOLEAN /\ lockFile' \in LockFiles
    BY <2>1, <2>2, RecordFacts
  <2> QED
    BY <1>4, <2>1, <2>3 DEF ApproveRecord
<1>5. CASE ApproveArm(a)
  <2>1. ent[a].kinded \in MaybeVersion
    BY EntryFacts DEF NoEntry
  <2> QED
    BY <1>5, <2>1 DEF ApproveArm
<1>6. CASE ApproveClear(a)
  BY <1>6 DEF ApproveClear
<1> QED
  BY <1>1, <1>2, <1>3, <1>4, <1>5, <1>6 DEF Approver

LEMMA TypeFire == ASSUME TypeInv, NEW f \in Fires, Fire(f) PROVE TypeInv'
<1> USE HashFacts, VersionFacts
     DEF TypeInv, TypeOK, Others, KeepRec, KeepAp, KeepFires, recVars, apVars, fireVars, bootVars, worldVars,
         gateVars, lockVars, RecLabels, FireDone
<1>1. CASE FireCheck(f)
  BY <1>1 DEF FireCheck
<1>2. CASE FireRead(f)
  BY <1>2 DEF FireRead
<1>3. CASE FireRehash(f)
  BY <1>3, HashOfFacts DEF FireRehash
<1>4. CASE FireCompare(f)
  BY <1>4 DEF FireCompare
<1>5. CASE FireLeaves(f)
  BY <1>5 DEF FireLeaves
<1> QED
  BY <1>1, <1>2, <1>3, <1>4, <1>5 DEF Fire

LEMMA TypeTimer == TypeInv /\ Timer => TypeInv'
<1> SUFFICES ASSUME TypeInv, Timer PROVE TypeInv'
  OBVIOUS
<1> USE DEF TypeInv, TypeOK, KeepRec, KeepAp, KeepFires, recVars, apVars, fireVars, worldVars,
         gateVars, lockVars, RecLabels
<1>1. CASE EndBootstrap
  BY <1>1 DEF EndBootstrap
<1>2. CASE MarkLock
  <2>1. lockFile' \in LockFiles /\ lockMark' \in BOOLEAN
    BY <1>2, FileFacts DEF MarkLock
  <2> QED
    BY <1>2, <2>1 DEF MarkLock
<1>3. CASE MarkDb
  BY <1>3 DEF MarkDb
<1> QED
  BY <1>1, <1>2, <1>3 DEF Timer

LEMMA TypeWorld == TypeInv /\ World => TypeInv'
<1> SUFFICES ASSUME TypeInv, World PROVE TypeInv'
  OBVIOUS
<1> USE GateAssumption, HashFacts, VersionFacts
     DEF TypeInv, TypeOK, Others, KeepRec, KeepAp, KeepFires, recVars, apVars, fireVars, bootVars, worldVars,
         gateVars, lockVars, RecLabels
<1>1. ASSUME NEW v \in MaybeVersion, EditFiles(v) PROVE TypeInv'
  BY <1>1 DEF EditFiles
<1>2. CASE SaveForAnother
  <2>1. FileOf(lock, lockMark) \in LockFiles
    BY FileFacts
  <2> QED
    BY <1>2, <2>1 DEF SaveForAnother
<1>3. CASE LoseLock
  <2>1. NoFile \in LockFiles /\ (closed /\ dbMark) \in BOOLEAN /\ mishaps' \in 0..MaxMishaps
    BY <1>3, FileFacts DEF LoseLock
  <2> QED
    BY <1>3, <2>1 DEF LoseLock
<1>4. CASE LoseDb
  <2>1. closed' \in BOOLEAN /\ mishaps' \in 0..MaxMishaps
    BY <1>4 DEF LoseDb
  <2> QED
    BY <1>4, <2>1 DEF LoseDb
<1>5. CASE Restart
  <2>1. lock' \in MaybeHash /\ bootstrap' \in BOOLEAN
    BY <1>5, FileFacts DEF Restart, ShouldBootstrap
  <2>2. lockMark' \in BOOLEAN /\ lockFile' \in LockFiles /\ dbMark' \in BOOLEAN /\ closed' \in BOOLEAN
    <3>1. PICK okLock \in BOOLEAN, okDb \in BOOLEAN :
            /\ lockMark' = (lockFile.mark \/ (AdoptsLock /\ okLock))
            /\ lockFile' = IF AdoptsLock /\ okLock THEN FileOf(lock', TRUE) ELSE lockFile
            /\ dbMark' = (dbMark \/ (AdoptsLock /\ okDb))
            /\ closed' = (closed \/ (AdoptsLock /\ okLock /\ okDb))
      BY <1>5 DEF Restart
    <3>2. FileOf(lock', TRUE) \in LockFiles /\ lockFile.mark \in BOOLEAN
      BY <2>1, FileFacts
    <3> QED
      BY <3>1, <3>2
  <2>3. apc' \in [Approvers -> {"idle", "read", "record", "arm", "clear"}]
        /\ ent' \in [Approvers -> Entries \cup {NoEntry}] /\ want' \in [Approvers -> MaybeHash]
    BY <1>5 DEF Restart
  <2>4. fpc' \in [Fires -> {"idle", "read", "rehash", "compare", "started"}]
        /\ fk' \in [Fires -> MaybeVersion] /\ fh' \in [Fires -> MaybeHash]
    BY <1>5 DEF Restart
  <2>5. tpc' \in {"armed", "markLock", "markDb", "done"} /\ mishaps' \in 0..MaxMishaps
    BY <1>5 DEF Restart
  <2> QED
    BY <1>5, <2>1, <2>2, <2>3, <2>4, <2>5 DEF Restart, RecDone
<1> QED
  BY <1>1, <1>2, <1>3, <1>4, <1>5 DEF World

LEMMA TypeLinks == TypeInv /\ (IssueHash \/ ExpireLink) => TypeInv'
<1> SUFFICES ASSUME TypeInv, IssueHash \/ ExpireLink PROVE TypeInv'
  OBVIOUS
<1> USE DEF TypeInv, TypeOK, KeepRec, KeepAp, KeepFires, recVars, apVars, fireVars, bootVars, worldVars,
         gateVars, lockVars, RecLabels
<1>1. CASE IssueHash
  <2>1. issued' \subseteq Hashes
    BY <1>1, HashFacts, EntryFacts DEF IssueHash
  <2> QED
    BY <1>1, <2>1 DEF IssueHash
<1>2. CASE ExpireLink
  BY <1>2 DEF ExpireLink
<1> QED
  BY <1>1, <1>2

LEMMA TypeStep == TypeInv /\ [Next]_vars => TypeInv'
<1>1. TypeInv /\ UNCHANGED vars => TypeInv'
  BY DEF vars, gateVars, lockVars, recVars, apVars, fireVars, bootVars, worldVars, TypeInv, TypeOK
<1> QED
  BY <1>1, TypeReconciler, TypeApprover, TypeFire, TypeTimer, TypeWorld, TypeLinks DEF Next

\* Type correctness of the approval gate, its lock and its clients.
THEOREM GateTypeCorrect == Spec => []TypeOK
<1>1. TypeInv => TypeOK
  BY DEF TypeInv
<1> QED
  BY <1>1, TypeInit, TypeStep, PTL DEF Spec

-----------------------------------------------------------------------------
(* Nothing gets in that nobody reviewed.                                   *)

\* The version was let in with some content.
ReviewedVersion(v) == \E h \in reviewed : h[1] = v

\* The lock and its file.
LockReviewed == {lock, lockFile.hash} \subseteq reviewed \cup {NoHash}

ArmedReviewed == armed # NoVersion => ReviewedVersion(armed)

\* A hash names the task it is the hash of.
HashesNameTheirTask ==
  /\ \A e \in pending : e.hash # NoHash => e.hash[1] = e.kinded
  /\ rh # NoHash => rh[1] = rk

\* What the reconciler is about to record or arm.
ReconcilerReviewed ==
  /\ rpc \in {"clear", "clearAuto", "record", "arm"} => ReviewedVersion(rk)
  /\ rpc \in {"clearAuto", "record"} /\ rh # NoHash => rh \in reviewed

\* What an approver is bound to, and what it is about to record and arm.
ApproverReviewed(a) ==
  /\ apc[a] = "read" => want[a] \in reviewed /\ want[a] # NoHash
  /\ apc[a] \in {"record", "arm", "clear"} =>
       /\ ent[a] # NoEntry
       /\ ent[a].hash \in reviewed
       /\ ent[a].hash[1] = ent[a].kinded

FireReviewed(f) ==
  /\ fpc[f] = "compare" => fh[f] # NoHash
  /\ fpc[f] = "started" /\ ~Trusted => fh[f] \in reviewed

\* The inductive invariant behind OnlyReviewed.
ReviewInv ==
  /\ TypeInv
  /\ LockReviewed
  /\ ArmedReviewed
  /\ HashesNameTheirTask
  /\ ReconcilerReviewed
  /\ \A a \in Approvers : ApproverReviewed(a)
  /\ \A f \in Fires : FireReviewed(f)

LEMMA ReviewInit == Init => ReviewInv
<1> SUFFICES ASSUME Init PROVE ReviewInv
  OBVIOUS
<1>1. TypeInv
  BY TypeInit
<1>2. LockReviewed
  BY FileFacts DEF Init, LockReviewed
<1>3. ArmedReviewed /\ HashesNameTheirTask /\ ReconcilerReviewed
  BY DEF Init, ArmedReviewed, HashesNameTheirTask, ReconcilerReviewed
<1>4. \A a \in Approvers : ApproverReviewed(a)
  BY DEF Init, ApproverReviewed
<1>5. \A f \in Fires : FireReviewed(f)
  BY DEF Init, FireReviewed
<1> QED
  BY <1>1, <1>2, <1>3, <1>4, <1>5 DEF ReviewInv

\* What was reviewed stays reviewed, so a part of the invariant whose other
\* variables a step leaves alone still holds.
LEMMA ReviewKept ==
  ASSUME ReviewInv, reviewed \subseteq reviewed'
  PROVE  /\ UNCHANGED <<lock, lockFile>> => LockReviewed'
         /\ UNCHANGED armed => ArmedReviewed'
         /\ UNCHANGED <<pending, rk, rh>> => HashesNameTheirTask'
         /\ UNCHANGED recVars => ReconcilerReviewed'
         /\ UNCHANGED apVars => \A a \in Approvers : ApproverReviewed(a)'
         /\ UNCHANGED <<fireVars, policy>> => \A f \in Fires : FireReviewed(f)'
<1>1. ASSUME UNCHANGED <<lock, lockFile>> PROVE LockReviewed'
  BY <1>1 DEF ReviewInv, LockReviewed
<1>2. ASSUME UNCHANGED armed PROVE ArmedReviewed'
  BY <1>2 DEF ReviewInv, ArmedReviewed, ReviewedVersion
<1>3. ASSUME UNCHANGED <<pending, rk, rh>> PROVE HashesNameTheirTask'
  BY <1>3 DEF ReviewInv, HashesNameTheirTask
<1>4. ASSUME UNCHANGED recVars PROVE ReconcilerReviewed'
  BY <1>4 DEF ReviewInv, ReconcilerReviewed, ReviewedVersion, recVars
<1>5. ASSUME UNCHANGED apVars, NEW a \in Approvers PROVE ApproverReviewed(a)'
  BY <1>5 DEF ReviewInv, ApproverReviewed, apVars
<1>6. ASSUME UNCHANGED <<fireVars, policy>>, NEW f \in Fires PROVE FireReviewed(f)'
  BY <1>6 DEF ReviewInv, FireReviewed, fireVars, Trusted
<1> QED
  BY <1>1, <1>2, <1>3, <1>4, <1>5, <1>6

LEMMA ReviewReconciler == ReviewInv /\ Reconciler => ReviewInv'
<1> SUFFICES ASSUME ReviewInv, Reconciler PROVE ReviewInv'
  OBVIOUS
<1>1. TypeInv /\ TypeInv'
  BY TypeReconciler DEF ReviewInv
<1>2. /\ reviewed \subseteq reviewed'
      /\ UNCHANGED <<apVars, fireVars, policy>>
  BY DEF Reconciler, TaskChanged, AdmitHash, AdmitNote, AdmitDecide, AdmitClear, AdmitRecord, AdmitArm,
         AdmitPend, Disarm, TaskRemoved, ForgetPending, ForgetAdmitted, ForgetLock,
         Others, KeepAp, KeepFires, worldVars
<1>3. /\ \A a \in Approvers : ApproverReviewed(a)'
      /\ \A f \in Fires : FireReviewed(f)'
  BY <1>2, ReviewKept
<1> SUFFICES LockReviewed' /\ ArmedReviewed' /\ HashesNameTheirTask' /\ ReconcilerReviewed'
  BY <1>1, <1>3 DEF ReviewInv
<1>4. CASE TaskChanged
  <2>1. UNCHANGED <<lock, lockFile, armed>>
    BY <1>4 DEF TaskChanged, lockVars
  <2>2. HashesNameTheirTask' /\ ReconcilerReviewed'
    BY <1>4 DEF TaskChanged, HashesNameTheirTask, ReconcilerReviewed, ReviewInv, gateVars
  <2> QED
    BY <1>2, <2>1, <2>2, ReviewKept
<1>5. CASE AdmitHash
  <2>1. UNCHANGED <<lock, lockFile, armed>>
    BY <1>5 DEF AdmitHash, lockVars
  <2>2. rh' # NoHash => rh'[1] = rk
    BY <1>1, <1>5, HashOfFacts DEF AdmitHash, TypeInv, TypeOK
  <2>3. HashesNameTheirTask' /\ ReconcilerReviewed'
    BY <1>5, <2>2 DEF AdmitHash, HashesNameTheirTask, ReconcilerReviewed, ReviewInv, gateVars
  <2> QED
    BY <1>2, <2>1, <2>3, ReviewKept
<1>6. CASE AdmitNote
  <2>1. UNCHANGED <<lock, lockFile, armed, pending, rk, rh>>
    BY <1>6 DEF AdmitNote, lockVars, RecGoto
  <2>2. ReconcilerReviewed'
    BY <1>6 DEF AdmitNote, RecGoto, ReconcilerReviewed
  <2> QED
    BY <1>2, <2>1, <2>2, ReviewKept
<1>7. CASE AdmitDecide
  <2>1. UNCHANGED <<lock, lockFile, armed, pending, rk, rh>>
    BY <1>7 DEF AdmitDecide, lockVars, gateVars, RecGoto
  <2>2. CASE rpc' = "clearAuto"
    <3>1. /\ rpc' = "clearAuto" => reviewed' = reviewed \cup {IF rh = NoHash THEN <<rk, NoVersion>> ELSE rh}
      BY <1>7 DEF AdmitDecide, RecGoto
    <3>2. rh # NoHash => rh \in reviewed' /\ rh[1] = rk
      BY <2>2, <3>1 DEF ReviewInv, HashesNameTheirTask
    <3>3. rh = NoHash => <<rk, NoVersion>> \in reviewed'
      BY <2>2, <3>1
    <3>4. \E h \in reviewed' : h[1] = rk
      BY <3>2, <3>3
    <3> QED
      BY <2>1, <2>2, <3>2, <3>4, <1>2, ReviewKept DEF ReconcilerReviewed, ReviewedVersion
  <2>3. CASE rpc' = "clear"
    <3>1. rh # NoHash /\ lock = rh
      BY <1>7, <2>3 DEF AdmitDecide, RecGoto
    <3>2. rh \in reviewed' /\ rh[1] = rk
      BY <3>1, <1>2 DEF ReviewInv, LockReviewed, HashesNameTheirTask
    <3> QED
      BY <2>1, <2>3, <3>2, <1>2, ReviewKept DEF ReconcilerReviewed, ReviewedVersion
  <2>4. CASE rpc' = "pend"
    BY <2>1, <2>4, <1>2, ReviewKept DEF ReconcilerReviewed
  <2> QED
    BY <1>7, <2>2, <2>3, <2>4 DEF AdmitDecide, RecGoto
<1>8. CASE AdmitClear
  <2>1. UNCHANGED <<lock, lockFile, armed, rk, rh, reviewed>> /\ pending' = {}
    BY <1>8 DEF AdmitClear, lockVars, RecGoto, ClearPending
  <2>2. /\ rpc \in {"clear", "clearAuto"}
        /\ rpc' = IF rpc = "clear" \/ rh = NoHash THEN "arm" ELSE "record"
    BY <1>8 DEF AdmitClear, RecGoto
  <2>3. HashesNameTheirTask' /\ ReconcilerReviewed'
    BY <2>1, <2>2 DEF HashesNameTheirTask, ReconcilerReviewed, ReviewedVersion, ReviewInv
  <2> QED
    BY <1>2, <2>1, <2>3, ReviewKept
<1>9. CASE AdmitRecord
  <2>1. PICK ok \in BOOLEAN : RecordHash(rh, ok)
    BY <1>9 DEF AdmitRecord
  <2>2. lock' = rh /\ (lockFile' = lockFile \/ lockFile'.hash = rh)
    BY <1>1, <2>1, RecordFacts DEF TypeInv, TypeOK
  <2>3. UNCHANGED <<armed, pending, rk, rh, reviewed>> /\ rpc = "record" /\ rpc' = "arm"
    BY <1>9 DEF AdmitRecord, gateVars, RecGoto
  <2>4. LockReviewed'
    BY <2>2, <2>3 DEF LockReviewed, ReconcilerReviewed, ReviewInv
  <2>5. ReconcilerReviewed'
    BY <2>3 DEF ReconcilerReviewed, ReviewedVersion, ReviewInv
  <2> QED
    BY <1>2, <2>3, <2>4, <2>5, ReviewKept
<1>10. CASE AdmitArm
  <2>1. UNCHANGED <<lock, lockFile, pending, reviewed>> /\ armed' \in {armed, rk} /\ rpc = "arm"
    BY <1>10 DEF AdmitArm, lockVars, gateVars
  <2>2. ArmedReviewed'
    BY <2>1 DEF ArmedReviewed, ReconcilerReviewed, ReviewedVersion, ReviewInv
  <2>3. HashesNameTheirTask' /\ ReconcilerReviewed'
    BY <1>10, <2>1 DEF AdmitArm, RecDone, HashesNameTheirTask, ReconcilerReviewed, ReviewInv
  <2> QED
    BY <1>2, <2>1, <2>2, <2>3, ReviewKept
<1>11. CASE AdmitPend
  <2>1. UNCHANGED <<lock, lockFile, armed, rk, rh>> /\ pending' = {[kinded |-> rk, hash |-> rh]} /\ rpc' = "disarm"
    BY <1>11 DEF AdmitPend, lockVars, RecGoto
  <2>2. HashesNameTheirTask' /\ ReconcilerReviewed'
    BY <2>1 DEF HashesNameTheirTask, ReconcilerReviewed, ReviewInv
  <2> QED
    BY <1>2, <2>1, <2>2, ReviewKept
<1>12. CASE Disarm
  <2>1. UNCHANGED <<lock, lockFile, pending>> /\ armed' = NoVersion
    BY <1>12 DEF Disarm, lockVars, gateVars
  <2>2. HashesNameTheirTask' /\ ReconcilerReviewed'
    BY <1>12, <2>1 DEF Disarm, RecDone, RecGoto, HashesNameTheirTask, ReconcilerReviewed, ReviewInv
  <2>3. ArmedReviewed'
    BY <2>1 DEF ArmedReviewed
  <2> QED
    BY <1>2, <2>1, <2>2, <2>3, ReviewKept
<1>13. CASE TaskRemoved
  <2>1. UNCHANGED <<lock, lockFile, armed, pending, rk, rh>> /\ rpc' = "disarmGone"
    BY <1>13 DEF TaskRemoved, lockVars, gateVars, RecGoto
  <2> QED
    BY <1>2, <2>1, ReviewKept DEF ReconcilerReviewed
<1>14. CASE ForgetPending
  <2>1. UNCHANGED <<lock, lockFile, armed, rk, rh>> /\ pending' = {} /\ rpc' = "dropAdmitted"
    BY <1>14 DEF ForgetPending, lockVars, RecGoto, ClearPending
  <2>2. HashesNameTheirTask'
    BY <2>1 DEF HashesNameTheirTask, ReviewInv
  <2> QED
    BY <1>2, <2>1, <2>2, ReviewKept DEF ReconcilerReviewed
<1>15. CASE ForgetAdmitted
  <2>1. UNCHANGED <<lock, lockFile, armed, pending, rk, rh>> /\ rpc' = "forgetLock"
    BY <1>15 DEF ForgetAdmitted, lockVars, RecGoto
  <2> QED
    BY <1>2, <2>1, ReviewKept DEF ReconcilerReviewed
<1>16. CASE ForgetLock
  <2>1. lock' = NoHash /\ lockFile' \in {lockFile, FileOf(NoHash, lockMark)}
    BY <1>16 DEF ForgetLock
  <2>2. FileOf(NoHash, lockMark).hash = NoHash
    BY DEF FileOf
  <2>3. LockReviewed'
    BY <1>2, <2>1, <2>2 DEF LockReviewed, ReviewInv
  <2>4. UNCHANGED <<armed, pending>> /\ rpc' = "idle" /\ rh' = NoHash
    BY <1>16 DEF ForgetLock, RecDone, gateVars
  <2>5. HashesNameTheirTask' /\ ReconcilerReviewed'
    BY <2>4 DEF HashesNameTheirTask, ReconcilerReviewed, ReviewInv
  <2> QED
    BY <1>2, <2>3, <2>4, <2>5, ReviewKept
<1> QED
  BY <1>4, <1>5, <1>6, <1>7, <1>8, <1>9, <1>10, <1>11, <1>12, <1>13, <1>14, <1>15, <1>16 DEF Reconciler

\* An approver touches its own state, and what the others are about to do stays
\* reviewed.
LEMMA ReviewApprover == ASSUME ReviewInv, NEW a \in Approvers, Approver(a) PROVE ReviewInv'
<1>1. TypeInv /\ TypeInv'
  BY TypeApprover DEF ReviewInv
<1>2. /\ reviewed \subseteq reviewed'
      /\ UNCHANGED <<recVars, fireVars, policy>>
  BY DEF Approver, RedeemLink, ApproveBlind, ReadPending, ApproveRecord, ApproveArm, ApproveClear,
         Others, KeepRec, KeepFires, worldVars
<1>3. ReconcilerReviewed' /\ \A f \in Fires : FireReviewed(f)'
  BY <1>2, ReviewKept
<1>4. ASSUME NEW b \in Approvers, b # a, apc'[b] = apc[b], ent'[b] = ent[b], want'[b] = want[b]
      PROVE ApproverReviewed(b)'
  BY <1>2, <1>4 DEF ReviewInv, ApproverReviewed
<1>5. \A b \in Approvers : b # a => apc'[b] = apc[b] /\ ent'[b] = ent[b] /\ want'[b] = want[b]
  BY <1>1 DEF Approver, RedeemLink, ApproveBlind, ReadPending, ApproveRecord, ApproveArm, ApproveClear,
              ApDone, TypeInv, TypeOK
<1> SUFFICES LockReviewed' /\ ArmedReviewed' /\ HashesNameTheirTask' /\ ApproverReviewed(a)'
  BY <1>1, <1>3, <1>4, <1>5 DEF ReviewInv
<1>6. a \in DOMAIN apc /\ a \in DOMAIN ent /\ a \in DOMAIN want
  BY <1>1 DEF TypeInv, TypeOK
<1>7. ASSUME NEW h \in Hashes, RedeemLink(a, h) PROVE LockReviewed' /\ ArmedReviewed' /\ HashesNameTheirTask' /\ ApproverReviewed(a)'
  <2>1. UNCHANGED <<lock, lockFile, armed, pending, rk, rh>>
    BY <1>2, <1>7 DEF RedeemLink, lockVars, gateVars, recVars
  <2>2. apc'[a] = "read" /\ want'[a] = h /\ h \in reviewed' /\ h # NoHash
    BY <1>6, <1>7, HashFacts DEF RedeemLink
  <2> QED
    BY <1>2, <2>1, <2>2, ReviewKept DEF ApproverReviewed
<1>8. CASE ApproveBlind(a)
  <2>1. UNCHANGED <<lock, lockFile, armed, pending, rk, rh>>
    BY <1>2, <1>8 DEF ApproveBlind, lockVars, gateVars, recVars
  <2>2. PICK e \in pending : /\ e.hash # NoHash /\ ent' = [ent EXCEPT ![a] = e]
                             /\ reviewed' = reviewed \cup {e.hash}
    BY <1>8 DEF ApproveBlind
  <2>3. apc'[a] = "record" /\ ent'[a] = e
    BY <1>6, <1>8, <2>2 DEF ApproveBlind
  <2>4. e # NoEntry /\ e.hash[1] = e.kinded
    BY <1>1, <2>2, EntryFacts DEF ReviewInv, HashesNameTheirTask, TypeInv, TypeOK
  <2> QED
    BY <1>2, <2>1, <2>2, <2>3, <2>4, ReviewKept DEF ApproverReviewed
<1>9. CASE ReadPending(a)
  <2>1. UNCHANGED <<lock, lockFile, armed, pending, rk, rh, reviewed>>
    BY <1>2, <1>9 DEF ReadPending, lockVars, gateVars, recVars
  <2>2. CASE \E e \in pending : e.hash = want[a]
    <3>1. PICK e \in pending : e.hash = want[a]
      BY <2>2
    <3>2. (CHOOSE x \in pending : TRUE) = e
      BY <1>1, <3>1 DEF TypeInv, TypeOK
    <3>3. apc'[a] = "record" /\ ent'[a] = e
      BY <1>6, <1>9, <2>2, <3>2 DEF ReadPending
    <3>4. want[a] \in reviewed /\ want[a] # NoHash
      BY <1>9 DEF ReadPending, ReviewInv, ApproverReviewed
    <3>5. e # NoEntry /\ e.hash[1] = e.kinded
      BY <1>1, <3>1, <3>4, EntryFacts DEF ReviewInv, HashesNameTheirTask, TypeInv, TypeOK
    <3> QED
      BY <1>2, <2>1, <3>1, <3>3, <3>4, <3>5, ReviewKept DEF ApproverReviewed
  <2>3. CASE ~\E e \in pending : e.hash = want[a]
    <3>1. apc'[a] = "idle"
      BY <1>6, <1>9, <2>3 DEF ReadPending, ApDone
    <3> QED
      BY <1>2, <2>1, <3>1, ReviewKept DEF ApproverReviewed
  <2> QED
    BY <2>2, <2>3
<1>10. CASE ApproveRecord(a)
  <2>1. PICK ok \in BOOLEAN :
          /\ RecordHash(ent[a].hash, ok)
          /\ IF ok THEN apc' = [apc EXCEPT ![a] = "arm"] /\ UNCHANGED <<ent, want>> ELSE ApDone(a)
    BY <1>10 DEF ApproveRecord
  <2>2. UNCHANGED <<armed, pending, rk, rh, reviewed>> /\ apc[a] = "record"
    BY <1>2, <1>10 DEF ApproveRecord, gateVars, recVars
  <2>3. ent[a].hash \in reviewed /\ ent[a].hash \in MaybeHash /\ ent[a] # NoEntry /\ ent[a].hash[1] = ent[a].kinded
    BY <1>1, <2>2, EntryFacts DEF ReviewInv, ApproverReviewed, TypeInv, TypeOK
  <2>4. lock' = ent[a].hash /\ (lockFile' = lockFile \/ lockFile'.hash = ent[a].hash)
    BY <1>1, <2>1, <2>3, RecordFacts DEF TypeInv
  <2>5. LockReviewed'
    BY <2>2, <2>3, <2>4 DEF LockReviewed, ReviewInv
  <2>6. apc'[a] = "idle" \/ (apc'[a] = "arm" /\ ent' = ent)
    BY <1>6, <2>1 DEF ApDone
  <2> QED
    BY <1>2, <2>2, <2>3, <2>5, <2>6, ReviewKept DEF ApproverReviewed
<1>11. CASE ApproveArm(a)
  <2>1. UNCHANGED <<lock, lockFile, pending, rk, rh, reviewed>> /\ apc[a] = "arm"
    BY <1>2, <1>11 DEF ApproveArm, gateVars, recVars, lockVars
  <2>2. ent[a].hash \in reviewed /\ ent[a] # NoEntry /\ ent[a].hash[1] = ent[a].kinded
    BY <2>1 DEF ReviewInv, ApproverReviewed
  <2>3. armed' \in {armed, ent[a].kinded}
    BY <1>11 DEF ApproveArm
  <2>4. ArmedReviewed'
    BY <2>1, <2>2, <2>3 DEF ReviewInv, ArmedReviewed, ReviewedVersion
  <2>5. apc'[a] = "idle" \/ (apc'[a] = "clear" /\ ent' = ent)
    BY <1>6, <1>11 DEF ApproveArm, ApDone
  <2> QED
    BY <1>2, <2>1, <2>2, <2>4, <2>5, ReviewKept DEF ApproverReviewed
<1>12. CASE ApproveClear(a)
  <2>1. UNCHANGED <<lock, lockFile, armed, rk, rh>> /\ pending' \subseteq pending /\ apc'[a] = "idle"
    BY <1>2, <1>6, <1>12 DEF ApproveClear, recVars, lockVars, ApDone
  <2>2. HashesNameTheirTask'
    BY <2>1 DEF ReviewInv, HashesNameTheirTask
  <2> QED
    BY <1>2, <2>1, <2>2, ReviewKept DEF ApproverReviewed
<1> QED
  BY <1>7, <1>8, <1>9, <1>10, <1>11, <1>12 DEF Approver

\* A fire gets past the guard on what the lock has.
LEMMA ReviewFire == ASSUME ReviewInv, NEW f \in Fires, Fire(f) PROVE ReviewInv'
<1>1. TypeInv /\ TypeInv'
  BY TypeFire DEF ReviewInv
<1>2. UNCHANGED <<lock, lockFile, armed, pending, recVars, apVars, reviewed, policy>>
  BY DEF Fire, FireCheck, FireRead, FireRehash, FireCompare, FireLeaves, Others, KeepRec, KeepAp, worldVars,
         gateVars, lockVars
<1>3. LockReviewed' /\ ArmedReviewed' /\ HashesNameTheirTask' /\ ReconcilerReviewed'
      /\ \A a \in Approvers : ApproverReviewed(a)'
  BY <1>2, ReviewKept DEF recVars
<1>4. \A g \in Fires : g # f => fpc'[g] = fpc[g] /\ fh'[g] = fh[g]
  BY <1>1 DEF Fire, FireCheck, FireRead, FireRehash, FireCompare, FireLeaves, FireDone, TypeInv, TypeOK
<1>5. ASSUME NEW g \in Fires, g # f PROVE FireReviewed(g)'
  BY <1>2, <1>4, <1>5 DEF ReviewInv, FireReviewed, Trusted
<1>6. f \in DOMAIN fpc /\ f \in DOMAIN fh
  BY <1>1 DEF TypeInv, TypeOK
<1>7. FireReviewed(f)'
  <2>1. CASE FireCheck(f)
    BY <1>2, <1>6, <2>1 DEF FireCheck, FireReviewed, Trusted
  <2>2. CASE FireRead(f)
    BY <1>6, <2>2 DEF FireRead, FireReviewed, FireDone
  <2>3. CASE FireRehash(f)
    BY <1>6, <2>3 DEF FireRehash, FireReviewed, FireDone
  <2>4. CASE FireCompare(f)
    BY <1>2, <1>6, <2>4 DEF FireCompare, FireReviewed, FireDone, ReviewInv, LockReviewed
  <2>5. CASE FireLeaves(f)
    BY <1>6, <2>5 DEF FireLeaves, FireReviewed, FireDone
  <2> QED
    BY <2>1, <2>2, <2>3, <2>4, <2>5 DEF Fire
<1> QED
  BY <1>1, <1>3, <1>5, <1>7 DEF ReviewInv

LEMMA ReviewTimer == ReviewInv /\ (Timer \/ IssueHash \/ ExpireLink) => ReviewInv'
<1> SUFFICES ASSUME ReviewInv, Timer \/ IssueHash \/ ExpireLink PROVE ReviewInv'
  OBVIOUS
<1>1. TypeInv'
  BY TypeTimer, TypeLinks DEF ReviewInv
<1>2. /\ UNCHANGED <<armed, pending, recVars, apVars, fireVars, policy, reviewed, lock>>
      /\ lockFile' = lockFile \/ lockFile' = FileOf(lock, TRUE)
  BY DEF Timer, EndBootstrap, MarkLock, MarkDb, IssueHash, ExpireLink, KeepRec, KeepAp, KeepFires, worldVars,
         gateVars, lockVars
<1>3. LockReviewed'
  BY <1>2 DEF ReviewInv, LockReviewed, FileOf
<1> QED
  BY <1>1, <1>2, <1>3, ReviewKept DEF ReviewInv, recVars

LEMMA ReviewWorld == ReviewInv /\ World => ReviewInv'
<1> SUFFICES ASSUME ReviewInv, World PROVE ReviewInv'
  OBVIOUS
<1>1. TypeInv'
  BY TypeWorld DEF ReviewInv
<1>2. CASE Restart
  <2>1. /\ lock' = lockFile.hash /\ reviewed' = reviewed
        /\ armed' = NoVersion /\ pending' = {} /\ rpc' = "idle" /\ rh' = NoHash
        /\ apc' = [a \in Approvers |-> "idle"] /\ fpc' = [f \in Fires |-> "idle"]
    BY <1>2 DEF Restart, RecDone
  <2>2. lockFile' \in {lockFile, FileOf(lock', TRUE)}
    BY <1>2 DEF Restart
  <2>3. LockReviewed'
    BY <2>1, <2>2 DEF ReviewInv, LockReviewed, FileOf
  <2>4. ArmedReviewed' /\ HashesNameTheirTask' /\ ReconcilerReviewed'
    BY <2>1 DEF ArmedReviewed, HashesNameTheirTask, ReconcilerReviewed
  <2>5. (\A a \in Approvers : ApproverReviewed(a)') /\ \A f \in Fires : FireReviewed(f)'
    BY <2>1 DEF ApproverReviewed, FireReviewed
  <2> QED
    BY <1>1, <2>3, <2>4, <2>5 DEF ReviewInv
<1>3. CASE ~Restart
  <2>1. /\ UNCHANGED <<armed, pending, recVars, apVars, fireVars, policy, reviewed, lock>>
        /\ lockFile' \in {lockFile, FileOf(lock, lockMark), NoFile}
    BY <1>3 DEF World, EditFiles, SaveForAnother, LoseLock, LoseDb, Others, KeepRec, KeepAp, KeepFires,
                worldVars, gateVars, lockVars
  <2>2. LockReviewed'
    BY <2>1, FileFacts DEF ReviewInv, LockReviewed, FileOf
  <2> QED
    BY <1>1, <2>1, <2>2, ReviewKept DEF ReviewInv, recVars
<1> QED
  BY <1>2, <1>3

LEMMA ReviewStep == ReviewInv /\ [Next]_vars => ReviewInv'
<1>1. ReviewInv /\ UNCHANGED vars => ReviewInv'
  <2> SUFFICES ASSUME ReviewInv, UNCHANGED vars PROVE ReviewInv'
    OBVIOUS
  <2>1. TypeInv'
    BY TypeStep DEF ReviewInv
  <2>2. UNCHANGED <<lock, lockFile, armed, pending, rk, rh, recVars, apVars, fireVars, policy, reviewed>>
    BY DEF vars, lockVars, gateVars, recVars, worldVars
  <2> QED
    BY <2>1, <2>2, ReviewKept DEF ReviewInv
<1> QED
  BY <1>1, ReviewReconciler, ReviewApprover, ReviewFire, ReviewTimer, ReviewWorld DEF Next

\* The lock, its file, the armed triggers and the fire guard let only reviewed
\* content through.
THEOREM GateOnlyReviewed == Spec => []OnlyReviewed
<1>1. ReviewInv => OnlyReviewed
  BY DEF ReviewInv, OnlyReviewed, LockReviewed, ArmedReviewed, ReviewedVersion, FireReviewed
<1> QED
  BY <1>1, ReviewInit, ReviewStep, PTL DEF Spec

-----------------------------------------------------------------------------
(* What is held stays held.                                                *)

\* What StaysHeld says of a step.
HeldStep ==
  \A e \in pending : e \notin pending' =>
    \/ e.hash \in reviewed
    \/ rpc \in {"clear", "clearAuto", "clearGone", "pend"}
    \/ mishaps' # mishaps

\* An approver clears the entry of the hash it approved, which was reviewed.
LEMMA ApproverHolds == ASSUME ReviewInv, NEW a \in Approvers, Approver(a) PROVE HeldStep
<1>1. CASE ApproveClear(a)
  <2>1. ent[a].hash \in reviewed
    BY <1>1 DEF ApproveClear, ReviewInv, ApproverReviewed
  <2> QED
    BY <1>1, <2>1 DEF ApproveClear, HeldStep
<1>2. ASSUME \/ \E h \in Hashes : RedeemLink(a, h)
             \/ ApproveBlind(a) \/ ReadPending(a) \/ ApproveRecord(a) \/ ApproveArm(a)
      PROVE  UNCHANGED pending
  BY <1>2 DEF RedeemLink, ApproveBlind, ReadPending, ApproveRecord, ApproveArm, gateVars
<1> QED
  BY <1>1, <1>2 DEF Approver, HeldStep

\* The reconciler changes the pending set where it admits, pends or forgets.
LEMMA ReconcilerHolds == Reconciler => HeldStep
<1>1. AdmitClear \/ AdmitPend \/ ForgetPending => HeldStep
  BY DEF AdmitClear, AdmitPend, ForgetPending, HeldStep
<1>2. ASSUME \/ TaskChanged \/ AdmitHash \/ AdmitNote \/ AdmitDecide \/ AdmitRecord \/ AdmitArm
             \/ Disarm \/ TaskRemoved \/ ForgetAdmitted \/ ForgetLock
      PROVE  UNCHANGED pending
  BY <1>2 DEF TaskChanged, AdmitHash, AdmitNote, AdmitDecide, AdmitRecord, AdmitArm, Disarm,
              TaskRemoved, ForgetAdmitted, ForgetLock, gateVars
<1> QED
  BY <1>1, <1>2 DEF Reconciler, HeldStep

LEMMA HeldNext == ReviewInv /\ [Next]_vars => HeldStep
<1> SUFFICES ASSUME ReviewInv, [Next]_vars PROVE HeldStep
  OBVIOUS
<1>1. ASSUME UNCHANGED pending PROVE HeldStep
  BY <1>1 DEF HeldStep
<1>2. CASE IssueHash \/ ExpireLink \/ Timer
  BY <1>1, <1>2 DEF IssueHash, ExpireLink, Timer, EndBootstrap, MarkLock, MarkDb, gateVars
<1>3. CASE World
  <2>1. CASE Restart
    <3>1. mishaps \in Nat /\ mishaps' = mishaps + 1
      BY <2>1 DEF Restart, ReviewInv, TypeInv, TypeOK
    <3> QED
      BY <3>1 DEF HeldStep
  <2> QED
    BY <1>1, <1>3, <2>1 DEF World, EditFiles, SaveForAnother, LoseLock, LoseDb, gateVars
<1>4. ASSUME NEW f \in Fires, Fire(f) PROVE HeldStep
  BY <1>1, <1>4 DEF Fire, FireCheck, FireRead, FireRehash, FireCompare, FireLeaves, gateVars
<1>5. CASE UNCHANGED vars
  BY <1>1, <1>5 DEF vars, gateVars
<1> QED
  BY <1>2, <1>3, <1>4, <1>5, ReconcilerHolds, ApproverHolds DEF Next

\* A held version leaves the pending set by an admission, a removal, a restart
\* or the approval of the very hash it is pending at (gate.go:503-504).
THEOREM GateStaysHeld == Spec => StaysHeld
<1>1. ReviewInv /\ [Next]_vars => [HeldStep]_vars
  BY HeldNext
<1>2. [][HeldStep]_vars => StaysHeld
  BY PTL DEF HeldStep, StaysHeld
<1> QED
  BY <1>1, <1>2, ReviewInit, ReviewStep, PTL DEF Spec

-----------------------------------------------------------------------------
(* The bootstrap window stays shut.                                        *)

\* A marker in the file is in memory too; a closed window has a marker left;
\* the window is open only while its timer is armed.
ShutInv ==
  /\ TypeInv
  /\ lockFile.mark => lockMark
  /\ closed => ~bootstrap /\ (lockFile.mark \/ dbMark)
  /\ tpc # "armed" => ~bootstrap

\* Every action but those of the timer, the losses and the restart leaves the
\* window and the markers alone; what it saves carries the marker in memory.
LEMMA ShutOther ==
  ASSUME ShutInv, Reconciler \/ IssueHash \/ ExpireLink \/ SaveForAnother
                  \/ (\E v \in MaybeVersion : EditFiles(v))
                  \/ (\E a \in Approvers : Approver(a)) \/ (\E f \in Fires : Fire(f))
  PROVE  /\ UNCHANGED <<bootstrap, lockMark, dbMark, closed, tpc>>
         /\ lockFile' = lockFile \/ lockFile'.mark = lockMark
<1>1. ASSUME NEW h, NEW ok, RecordHash(h, ok)
      PROVE UNCHANGED lockMark /\ (lockFile' = lockFile \/ lockFile'.mark = lockMark)
  BY <1>1 DEF RecordHash, lockVars, FileOf
<1>2. CASE Reconciler
  BY <1>1, <1>2 DEF Reconciler, TaskChanged, AdmitHash, AdmitNote, AdmitDecide, AdmitClear, AdmitRecord, AdmitArm,
         AdmitPend, Disarm, TaskRemoved, ForgetPending, ForgetAdmitted, ForgetLock, FileOf,
         Others, bootVars, gateVars, lockVars
<1>3. CASE IssueHash \/ ExpireLink \/ SaveForAnother \/ \E v \in MaybeVersion : EditFiles(v)
  BY <1>3 DEF IssueHash, ExpireLink, SaveForAnother, EditFiles, FileOf, Others, bootVars, gateVars, lockVars
<1>4. ASSUME NEW a \in Approvers, Approver(a)
      PROVE  /\ UNCHANGED <<bootstrap, lockMark, dbMark, closed, tpc>>
             /\ lockFile' = lockFile \/ lockFile'.mark = lockMark
  BY <1>1, <1>4 DEF Approver, RedeemLink, ApproveBlind, ReadPending, ApproveRecord, ApproveArm, ApproveClear,
         Others, bootVars, gateVars, lockVars
<1>5. ASSUME NEW f \in Fires, Fire(f)
      PROVE  /\ UNCHANGED <<bootstrap, lockMark, dbMark, closed, tpc>>
             /\ lockFile' = lockFile \/ lockFile'.mark = lockMark
  BY <1>5 DEF Fire, FireCheck, FireRead, FireRehash, FireCompare, FireLeaves, Others, bootVars, gateVars, lockVars
<1> QED
  BY <1>2, <1>3, <1>4, <1>5

LEMMA ShutStep == ShutInv /\ [Next]_vars => ShutInv'
<1> SUFFICES ASSUME ShutInv, [Next]_vars PROVE ShutInv'
  OBVIOUS
<1>1. TypeInv'
  BY TypeStep DEF ShutInv
<1>2. TypeOK
  BY DEF ShutInv, TypeInv
<1>3. ASSUME UNCHANGED <<bootstrap, lockMark, dbMark, closed, tpc>>,
             lockFile' = lockFile \/ lockFile'.mark = lockMark
      PROVE  ShutInv'
  BY <1>1, <1>3 DEF ShutInv
<1>4. CASE EndBootstrap
  BY <1>1, <1>4 DEF EndBootstrap, ShutInv, lockVars
<1>5. CASE MarkLock
  BY <1>1, <1>2, <1>5 DEF MarkLock, ShutInv, gateVars, FileOf
<1>6. CASE MarkDb
  BY <1>1, <1>2, <1>6 DEF MarkDb, ShutInv, gateVars, lockVars
<1>7. CASE LoseLock
  BY <1>1, <1>2, <1>7 DEF LoseLock, ShutInv, gateVars, NoFile
<1>8. CASE LoseDb
  BY <1>1, <1>2, <1>8 DEF LoseDb, ShutInv, gateVars, lockVars
<1>9. CASE Restart
  <2>1. PICK okLock \in BOOLEAN, okDb \in BOOLEAN :
          /\ lockMark' = (lockFile.mark \/ (AdoptsLock /\ okLock))
          /\ lockFile' = IF AdoptsLock /\ okLock THEN FileOf(lock', TRUE) ELSE lockFile
          /\ dbMark' = (dbMark \/ (AdoptsLock /\ okDb))
          /\ closed' = (closed \/ (AdoptsLock /\ okLock /\ okDb))
    BY <1>9 DEF Restart
  <2>2. bootstrap' = ShouldBootstrap(lockFile.exists, lockFile.mark, dbMark)
        /\ tpc' = IF bootstrap' THEN "armed" ELSE "done"
    BY <1>9 DEF Restart
  <2>3. lockFile.mark \in BOOLEAN /\ dbMark \in BOOLEAN
    BY <1>2, FileFacts DEF TypeOK
  <2>4. closed' => ~bootstrap'
    BY <2>1, <2>2 DEF ShutInv, ShouldBootstrap, AdoptsLock
  <2>5. lockFile'.mark => lockMark'
    BY <2>1, <2>3 DEF ShutInv, FileOf
  <2>6. closed' => lockFile'.mark \/ dbMark'
    BY <2>1, <2>3 DEF ShutInv, FileOf
  <2> QED
    BY <1>1, <2>2, <2>4, <2>5, <2>6 DEF ShutInv
<1>10. CASE UNCHANGED vars
  BY <1>3, <1>10 DEF vars, gateVars, lockVars, bootVars
<1> QED
  BY <1>3, <1>4, <1>5, <1>6, <1>7, <1>8, <1>9, <1>10, ShutOther DEF Next, Timer, World

\* A bootstrap window that closed with both markers saved stays shut, over
\* restarts and the loss of either marker.
THEOREM GateWindowStaysShut == Spec => []WindowStaysShut
<1>1. Init => ShutInv
  BY TypeInit DEF Init, ShutInv, NoFile
<1>2. ShutInv => WindowStaysShut
  BY DEF ShutInv, WindowStaysShut
<1> QED
  BY <1>1, <1>2, ShutStep, PTL DEF Spec
=============================================================================
