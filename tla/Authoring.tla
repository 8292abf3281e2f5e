------------------------------- MODULE Authoring -------------------------------
(***************************************************************************)
(* Creating, editing and deleting tasks of one local source by hand or     *)
(* with an agent: the scaffold (a directory and an entry in the source's   *)
(* taskset), the source's authoring session, and the agent's turns on it.  *)
(* The control socket serializes the turns, the web API takes no lock.     *)
(***************************************************************************)
EXTENDS Naturals, FiniteSets

CONSTANTS Calls, Names, None,
          MaxSessions, MaxCalls   \* bounds: sessions opened, calls

VARIABLES
  dir,       \* name -> its directory: "none", "part" or "full"
  entries,   \* names with an entry for that directory
  sessions,  \* id -> row of author_sessions, None or [task, open, applied, agent]
  locks,     \* sessionEditLocks: key -> the call that holds it
  calls,     \* call -> [pc, kind, name, sess, key, prompt, turn, read, ok]
  begun,     \* calls begun, which also number the turns
  twice,     \* a task was deleted, or deleted and created, by two calls at once
  mixed      \* a turn was fired by session id alone

vars == <<dir, entries, sessions, locks, calls, begun, twice, mixed>>

Ids == 1..MaxSessions
SourceKey == 0
NoCall == [pc |-> "idle", kind |-> "none", name |-> None, sess |-> 0, key |-> SourceKey, prompt |-> FALSE,
           turn |-> 0, read |-> 0, ok |-> FALSE]
Init ==
  /\ dir = [n \in Names |-> "none"] /\ entries = {}
  /\ sessions = [s \in Ids |-> None] /\ locks = [k \in {SourceKey} \cup Ids |-> None]
  /\ calls = [c \in Calls |-> NoCall] /\ begun = 0 /\ twice = FALSE /\ mixed = FALSE

At(c, pc) == calls[c].pc = pc
To(c, pc) == [calls EXCEPT ![c].pc = pc]
Begin(c, call) ==
  /\ At(c, "idle") /\ begun < MaxCalls /\ begun' = begun + 1
  /\ calls' = [calls EXCEPT ![c] = call]
\* A call returns and lets go of its lock.
Return(c) ==
  /\ calls' = [calls EXCEPT ![c] = NoCall]
  /\ locks' = [k \in DOMAIN locks |-> IF locks[k] = c THEN None ELSE locks[k]]
Files == <<dir, entries, twice>>

-----------------------------------------------------------------------------
(* CreateTask; with a prompt it goes on to an edit *)

Mkdir(c, name, prompt) ==
  /\ dir[name] = "none"  \* else 409
  /\ Begin(c, [NoCall EXCEPT !.pc = "files", !.kind = "create", !.name = name, !.prompt = prompt])
  /\ dir' = [dir EXCEPT ![name] = "part"]
  /\ twice' = (twice \/ \E b \in Calls : calls[b].kind = "delete" /\ calls[b].name = name)
  /\ UNCHANGED <<entries, sessions, locks, mixed>>
WriteFiles(c) ==
  /\ At(c, "files")
  /\ \/ dir' = [dir EXCEPT ![calls[c].name] = "full"] /\ calls' = To(c, "entry")
     \/ calls' = To(c, "cleanup") /\ UNCHANGED dir
  /\ UNCHANGED <<entries, sessions, locks, begun, twice, mixed>>
\* AddTaskEntry, under entryWriteMu.
AddEntry(c) ==
  LET name == calls[c].name IN
  /\ At(c, "entry")
  /\ \/ entries' = entries \cup {name}
        /\ calls' = [calls EXCEPT ![c].pc = IF calls[c].prompt THEN "lock" ELSE "return", ![c].key = SourceKey]
     \/ calls' = To(c, "cleanup") /\ UNCHANGED entries  \* the name is bound elsewhere, or the write fails
  /\ UNCHANGED <<dir, sessions, locks, begun, twice, mixed>>
Cleanup(c) ==
  /\ At(c, "cleanup") /\ Return(c)
  /\ dir' = [dir EXCEPT ![calls[c].name] = "none"]
  /\ UNCHANGED <<entries, sessions, begun, twice, mixed>>
Answer(c) ==
  /\ At(c, "return") /\ Return(c)
  /\ UNCHANGED <<dir, entries, sessions, begun, twice, mixed>>

(* deleteLocal: the entry before the directory *)
Delete(c, name) ==
  /\ name \in entries /\ dir[name] # "none"
  /\ Begin(c, [NoCall EXCEPT !.pc = "unlist", !.kind = "delete", !.name = name])
  /\ twice' = (twice \/ \E b \in Calls : calls[b].kind = "delete" /\ calls[b].name = name)
  /\ UNCHANGED <<dir, entries, sessions, locks, mixed>>
Unlist(c) ==
  /\ At(c, "unlist")
  /\ \/ entries' = entries \ {calls[c].name} /\ calls' = To(c, "rmdir")
     \/ calls' = To(c, "return") /\ UNCHANGED entries  \* the taskset is not written
  /\ UNCHANGED <<dir, sessions, locks, begun, twice, mixed>>
Rmdir(c) ==
  /\ At(c, "rmdir")
  /\ dir' = [dir EXCEPT ![calls[c].name] = "none"] /\ calls' = To(c, "return")  \* RemoveAll succeeds
  /\ UNCHANGED <<entries, sessions, locks, begun, twice, mixed>>

-----------------------------------------------------------------------------
(* handleTaskEdit, and EditTask from the web API *)

Open == {s \in Ids : sessions[s] # None /\ sessions[s].open}
Exists(s) == s \in Ids /\ sessions[s] # None

\* lockForTaskEdit: by the source when the call names a task, else by its session id.
Edit(c, web, name, s, prompt) ==
  LET key == IF name # None THEN SourceKey ELSE s IN
  /\ name # None \/ Exists(s)
  /\ s # 0 => Exists(s)
  /\ web => ~prompt
  /\ Begin(c, [NoCall EXCEPT !.pc = IF web THEN "look" ELSE "lock", !.kind = "edit",
                             !.name = name, !.sess = s, !.key = key, !.prompt = prompt])
  /\ UNCHANGED <<Files, sessions, locks, mixed>>
LockFault(c) ==
  /\ At(c, "lock") /\ calls' = To(c, "look")
  /\ UNCHANGED <<Files, sessions, locks, begun, mixed>>
Lock(c) ==
  /\ At(c, "lock") /\ locks[calls[c].key] = None
  /\ locks' = [locks EXCEPT ![calls[c].key] = c] /\ calls' = To(c, "look")
  /\ UNCHANGED <<Files, sessions, begun, mixed>>

\* The session to go on with, as the row was read; a web call and one without a prompt
\* end here.
Resume(c, s) ==
  IF calls[c].prompt
  THEN /\ calls' = [calls EXCEPT ![c].pc = "fire", ![c].sess = s, ![c].read = sessions[s].agent]
       /\ UNCHANGED locks
  ELSE Return(c)

Look(c) ==
  LET s == calls[c].sess  name == calls[c].name IN
  /\ At(c, "look")
  /\ IF s # 0
     THEN IF s \in Open /\ name \in {None, sessions[s].task} THEN Resume(c, s) ELSE Return(c)
     ELSE IF Open = {} THEN calls' = To(c, "insert") /\ UNCHANGED locks
     ELSE \E o \in Open : IF sessions[o].task = name THEN Resume(c, o) ELSE Return(c)
  /\ UNCHANGED <<Files, sessions, begun, mixed>>
\* The index admits one open session per source; the loser looks for the winner.
Insert(c) ==
  /\ At(c, "insert")
  /\ IF Open # {}
     THEN UNCHANGED <<sessions, locks>> /\ calls' = To(c, "winner")
     ELSE \E s \in Ids :
            /\ sessions[s] = None /\ \A i \in 1..s - 1 : sessions[i] # None
            /\ sessions' = [sessions EXCEPT ![s] =
                             [task |-> calls[c].name, open |-> TRUE, applied |-> FALSE, agent |-> 0]]
            /\ IF calls[c].prompt
               THEN calls' = [calls EXCEPT ![c].pc = "fire", ![c].sess = s] /\ UNCHANGED locks
               ELSE Return(c)
  /\ UNCHANGED <<Files, begun, mixed>>
Winner(c) ==
  /\ At(c, "winner")
  /\ IF \E o \in Open : sessions[o].task = calls[c].name
     THEN \E o \in Open : Resume(c, o)
     ELSE Return(c)
  /\ UNCHANGED <<Files, sessions, begun, mixed>>

\* CheckSessionAuthorable: the write tool is not registered, or may not write to the
\* task's directory; or the turn cannot be fired.
Refuse(c) ==
  /\ At(c, "fire") /\ Return(c)
  /\ UNCHANGED <<Files, sessions, begun, mixed>>
Fire(c) ==
  /\ At(c, "fire")
  /\ calls' = [calls EXCEPT ![c].pc = "turn", ![c].turn = begun]
  /\ mixed' = (mixed \/ calls[c].key # SourceKey)
  /\ UNCHANGED <<Files, sessions, locks, begun>>
\* WaitRunSettled: a suspended or failed turn is not recorded.
Settle(c) ==
  /\ At(c, "turn")
  /\ \/ calls' = To(c, "persist") /\ UNCHANGED locks
     \/ Return(c)
  /\ UNCHANGED <<Files, sessions, begun, mixed>>
Persist(c) ==
  /\ At(c, "persist") /\ Return(c)
  /\ \/ sessions' = [sessions EXCEPT ![calls[c].sess].agent = calls[c].turn]
     \/ UNCHANGED sessions  \* the update fails
  /\ UNCHANGED <<Files, begun, mixed>>

-----------------------------------------------------------------------------
(* SaveTask, CancelTask: read, then close; the purge of idle sessions *)
Close(c, s, save) ==
  /\ s \in Open
  /\ Begin(c, [NoCall EXCEPT !.pc = "close", !.kind = "close", !.sess = s, !.ok = save])
  /\ UNCHANGED <<Files, sessions, locks, mixed>>
Closed(c) ==
  LET s == calls[c].sess IN
  /\ At(c, "close") /\ Return(c)
  /\ sessions' = [sessions EXCEPT ![s].open = FALSE, ![s].applied = calls[c].ok]
  /\ UNCHANGED <<Files, begun, mixed>>
PurgeExpired(s) ==
  /\ s \in Open
  /\ sessions' = [sessions EXCEPT ![s].open = FALSE, ![s].applied = FALSE]
  /\ UNCHANGED <<Files, locks, calls, begun, mixed>>

Next ==
  \/ \E c \in Calls :
       \/ \E n \in Names, p \in BOOLEAN : Mkdir(c, n, p)
       \/ WriteFiles(c) \/ AddEntry(c) \/ Cleanup(c) \/ Answer(c)
       \/ \E n \in Names : Delete(c, n)
       \/ Unlist(c) \/ Rmdir(c)
       \/ \E w \in BOOLEAN, n \in entries \cup {None}, s \in Ids \cup {0}, p \in BOOLEAN : Edit(c, w, n, s, p)
       \/ Lock(c) \/ Look(c) \/ Insert(c) \/ Winner(c) \/ Refuse(c) \/ Fire(c) \/ Settle(c) \/ Persist(c)
       \/ \E s \in Ids, save \in BOOLEAN : Close(c, s, save)
       \/ Closed(c)
  \/ \E s \in Ids : PurgeExpired(s)

Spec == Init /\ [][Next]_vars

-----------------------------------------------------------------------------
TypeOK ==
  /\ dir \in [Names -> {"none", "part", "full"}] /\ entries \subseteq Names
  /\ Cardinality(Open) <= 1
  /\ \A k \in DOMAIN locks : locks[k] \in Calls \cup {None}

\* What the taskset lists has all its files, and a directory that no call is at work on is
\* listed: a creation that fails half way, or a deletion, leaves neither alone ("an
\* unregistered task directory is invisible to the resolver").  Left out are two calls
\* that delete, or delete and create, one task at once.
Working(n) == \E c \in Calls : calls[c].kind \in {"create", "delete"} /\ calls[c].name = n
ListedIsThere ==
  \/ twice
  \/ /\ \A n \in entries : dir[n] = "full"
     /\ \A n \in Names : dir[n] # "none" => n \in entries \/ Working(n)

\* A turn goes on from the last one of its session: what it read of the session is still
\* so when it ends ("can't both read the same stale AgentSessionID").  It is so for the
\* calls that name the task.
TurnsGoOnAlways ==
  \A c \in Calls : calls[c].pc \in {"turn", "persist"} =>
                      sessions[calls[c].sess].agent = calls[c].read
TurnsGoOn == mixed \/ TurnsGoOnAlways
=============================================================================
