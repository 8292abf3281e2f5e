------------------------------- MODULE DevClones -------------------------------
(***************************************************************************)
(* Dev mode of one git source (taskset/source.go): clones of its           *)
(* repository, one per session, of which the last one enabled is what the  *)
(* source resolves from; and the deletion of a task, which works in a      *)
(* clone of its own.  A call holds the source's lock for its bookkeeping   *)
(* only: it clones, removes directories and switches the resolver outside. *)
(***************************************************************************)
EXTENDS Naturals, FiniteSets

CONSTANTS Calls, Sessions, Deletes,  \* run ids of dev sessions, and of deletions
          None, Local,               \* a taskset.yaml of the user's own
          MaxCalls                   \* bound: calls

Ids == Sessions \cup Deletes
None0 == 0        \* no entry in clones
Reserved == MaxCalls + 1

VARIABLES
  clones,   \* id -> None0, Reserved, or when it was published (createdAt)
  primary,  \* primaryRunID
  root,     \* devRootPath: the id of the clone it is in, Local or None
  dev,      \* the resolver's dev mode
  dirs,     \* clone directories on disk
  calls,    \* call -> [pc, op, id, drop, last, in, ok]
  begun,    \* calls begun; also the clock of createdAt
  crossed,  \* ids whose reservation was dropped, or made, while a call was at work on them
  overlap,  \* two calls have overlapped
  pushed    \* deletion -> the clone it pushed from

vars == <<clones, primary, root, dev, dirs, calls, begun, crossed, overlap, pushed>>

NoCall == [pc |-> "idle", op |-> "none", id |-> None, drop |-> {}, last |-> FALSE, in |-> None, ok |-> TRUE]
Busy(c) == calls[c].pc # "idle"
Published == {i \in Ids : clones[i] \in 1..MaxCalls}

Init ==
  /\ clones = [i \in Ids |-> None0] /\ primary = None /\ root = None /\ dev = FALSE /\ dirs = {}
  /\ calls = [c \in Calls |-> NoCall] /\ begun = 0 /\ crossed = {} /\ overlap = FALSE
  /\ pushed = [d \in Deletes |-> None]

At(c, pc) == calls[c].pc = pc
Go(c, pc) == calls' = [calls EXCEPT ![c].pc = pc]
Done(c) == calls' = [calls EXCEPT ![c] = NoCall]

-----------------------------------------------------------------------------
(* SetDevMode(TRUE) with a branch *)

Call(c, op, id, pc) ==
  /\ ~Busy(c) /\ begun < MaxCalls /\ begun' = begun + 1
  /\ calls' = [calls EXCEPT ![c] = [NoCall EXCEPT !.op = op, !.id = id, !.pc = pc]]
  /\ overlap' = (overlap \/ \E b \in Calls : Busy(b))

Reserve(c, op, id) ==
  /\ op = (IF id \in Deletes THEN "delete" ELSE "enable")
  /\ Call(c, op, id, "clone")
  /\ clones[id] = None0  \* else ErrDevModeBusy
  /\ clones' = [clones EXCEPT ![id] = Reserved]
  /\ crossed' = IF primary = id \/ \E b \in Calls : id = calls[b].id \/ id \in calls[b].drop
                THEN crossed \cup {id} ELSE crossed \ {id}
  /\ UNCHANGED <<primary, root, dev, dirs, pushed>>

\* enableClone: refuses a directory that is there; a failing checkout leaves it behind.
Clone(c) ==
  LET id == calls[c].id IN
  /\ At(c, "clone")
  /\ \/ id \notin dirs /\ Go(c, "publish") /\ dirs' = dirs \cup {id}
     \/ Go(c, "unreserve") /\ (dirs' = dirs \/ dirs' = dirs \cup {id})
  /\ UNCHANGED <<clones, primary, root, dev, begun, crossed, overlap, pushed>>

Unreserve(c) ==
  LET id == calls[c].id IN
  /\ At(c, "unreserve")
  /\ calls' = [calls EXCEPT ![c].pc = "rmdir", ![c].drop = IF clones[id] = None0 THEN {} ELSE {id}]
  /\ clones' = [clones EXCEPT ![id] = None0]
  /\ UNCHANGED <<primary, root, dev, dirs, begun, crossed, overlap, pushed>>

\* The session is still reserved, or was cancelled by a concurrent disable-all.
Publish(c) ==
  LET id == calls[c].id IN
  /\ At(c, "publish")
  /\ IF clones[id] = None0
     THEN Done(c) /\ UNCHANGED <<clones, primary, root>>
     ELSE /\ clones' = [clones EXCEPT ![id] = begun] /\ primary' = id /\ root' = id
          /\ Go(c, "on")
  /\ UNCHANGED <<dev, dirs, begun, crossed, overlap, pushed>>

SwitchOn(c) ==
  /\ At(c, "on")
  /\ dev' = TRUE
  /\ IF calls[c].op = "delete" THEN Go(c, "locate") ELSE IF calls[c].op = "local" THEN Go(c, "root") ELSE Done(c)
  /\ UNCHANGED <<clones, primary, root, dirs, begun, crossed, overlap, pushed>>

\* SetDevMode(TRUE) with a path: only the resolver and the root.
EnableLocal(c) ==
  /\ Call(c, "local", None, "on")
  /\ UNCHANGED <<clones, primary, root, dev, dirs, crossed, pushed>>

-----------------------------------------------------------------------------
(* SetDevMode(FALSE), of one session or of all *)

\* latestCloneRunIDLocked: a reservation has no time and is never the latest.
Latest(cl) ==
  LET live == {i \in Ids : cl[i] \in 1..MaxCalls} IN
  IF live = {} THEN None ELSE CHOOSE i \in live : \A j \in live : cl[i] >= cl[j]

PrimaryFault(cl, ids) == IF ids = Ids THEN None ELSE primary
Primary(cl, ids) == IF ids = Ids \/ primary \in ids THEN Latest(cl) ELSE primary

Drop(c, ids) ==
  LET cl == [i \in Ids |-> IF i \in ids THEN None0 ELSE clones[i]] IN
  /\ clones' = cl
  /\ primary' = Primary(cl, ids)
  /\ root' = IF ids = Ids \/ primary \in ids THEN primary' ELSE root
  /\ crossed' = crossed \cup {i \in ids : clones[i] = Reserved}
  /\ calls' = [calls EXCEPT ![c].pc = "rmdirs", ![c].last = \A i \in Ids : cl[i] = None0,
                            ![c].drop = {i \in ids : clones[i] # None0}]

Disable(c) ==
  /\ Call(c, "disable", None, "drop") /\ UNCHANGED <<clones, primary, root, dev, dirs, crossed, pushed>>
DropThem(c, ids) ==
  /\ At(c, "drop")
  /\ CASE calls[c].op = "disable" -> ids = Ids \/ \E i \in Sessions : ids = {i}
       [] OTHER -> ids = IF calls[c].ok THEN Ids ELSE {calls[c].id}
  /\ Drop(c, ids)
  /\ UNCHANGED <<dev, dirs, begun, overlap, pushed>>

\* os.RemoveAll of the clones that were dropped, or of a clone that failed.
RemoveDirs(c) ==
  /\ calls[c].pc \in {"rmdir", "rmdirs"}
  /\ dirs' = dirs \ calls[c].drop
  /\ IF calls[c].last THEN Go(c, "off") ELSE Done(c)
  /\ UNCHANGED <<clones, primary, root, dev, begun, crossed, overlap, pushed>>
SwitchOff(c) ==
  /\ At(c, "off") /\ dev' = FALSE /\ Go(c, "root")
  /\ UNCHANGED <<clones, primary, root, dirs, begun, crossed, overlap, pushed>>
SetRoot(c) ==
  /\ At(c, "root")
  /\ root' = (IF calls[c].op = "local" THEN Local ELSE None) /\ Done(c)
  /\ UNCHANGED <<clones, primary, dev, dirs, begun, crossed, overlap, pushed>>

-----------------------------------------------------------------------------
(* deleteGit, in its clone; handleTaskDelete, after it *)

\* RepoPath: the primary, which a session enabled meanwhile may be.  The task's directory
\* has to be there.
Locate(c) ==
  /\ At(c, "locate")
  /\ IF primary \in dirs
     THEN calls' = [calls EXCEPT ![c].in = primary, ![c].pc = "push"]
     ELSE calls' = [calls EXCEPT ![c].pc = "drop", ![c].ok = FALSE]
  /\ UNCHANGED <<clones, primary, root, dev, dirs, begun, crossed, overlap, pushed>>
\* The entry and the directory removed, CommitPush; or one of them fails.
Push(c) ==
  /\ At(c, "push")
  /\ \/ /\ calls[c].in \in dirs
        /\ pushed' = [pushed EXCEPT ![calls[c].id] = calls[c].in] /\ Go(c, "pr")
     \/ calls' = [calls EXCEPT ![c].pc = "drop", ![c].ok = FALSE] /\ UNCHANGED pushed
  /\ UNCHANGED <<clones, primary, root, dev, dirs, begun, crossed, overlap>>
\* buildin/git-pr runs in the clone and ends; every dev session of the source is
\* disabled then.
OpenPR(c) ==
  /\ At(c, "pr") /\ Go(c, "drop")
  /\ UNCHANGED <<clones, primary, root, dev, dirs, begun, crossed, overlap, pushed>>

Next ==
  \E c \in Calls :
    \/ \E id \in Ids, op \in {"enable", "delete"} : Reserve(c, op, id)
    \/ Clone(c) \/ Unreserve(c) \/ Publish(c) \/ SwitchOn(c) \/ EnableLocal(c)
    \/ Disable(c)
    \/ \E ids \in {Ids} \cup {{i} : i \in Ids} : DropThem(c, ids)
    \/ RemoveDirs(c) \/ SwitchOff(c) \/ SetRoot(c)
    \/ Locate(c) \/ Push(c) \/ OpenPR(c)

Spec == Init /\ [][Next]_vars

-----------------------------------------------------------------------------
TypeOK ==
  /\ clones \in [Ids -> 0..Reserved] /\ primary \in Ids \cup {None} /\ root \in Ids \cup {None, Local}
  /\ dirs \subseteq Ids

Quiet == \A c \in Calls : ~Busy(c)

\* What the source resolves from exists: the primary session is published, a published
\* session has its clone, and a reservation is that of a call which is cloning.  Left out
\* are sessions that were cancelled, or begun again, while a call was at work on them.
ClonesAreLive ==
  /\ primary \notin crossed \cup {None} => primary \in Published
  /\ Published \subseteq dirs \cup crossed
  /\ \A i \in Ids : clones[i] = Reserved => \E c \in Calls : calls[c].id = i

\* Nothing is left behind: when no call is in progress every clone on disk is that of a
\* session, but for the orphans of cancelled ones, and those only until the next call for
\* their id ("the orphan will be cleaned on the next retry").
NoCloneIsLeft == Quiet => dirs \subseteq Published \cup crossed

\* Calls one after the other leave a source that is consistent: it is out of dev mode
\* exactly when it has neither a clone nor a local root, and the root is that of the
\* primary unless a local one was set after it.
DevModeFollows ==
  Quiet /\ ~overlap =>
    /\ dev <=> (Published # {} \/ root # None)
    /\ root \in {primary, Local}
\* Without "one after the other" it is not.
DevModeFollowsAlways == Quiet => (dev <=> (Published # {} \/ root # None))

\* A deletion pushes from its own clone, unless calls overlap.
DeletesInItsClone == overlap \/ \A d \in Deletes : pushed[d] \in {None, d}
DeletesInItsCloneAlways == \A d \in Deletes : pushed[d] \in {None, d}
=============================================================================
