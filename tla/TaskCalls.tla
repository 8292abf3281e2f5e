------------------------------- MODULE TaskCalls -------------------------------
(***************************************************************************)
(* What running tasks ask of the daemon over their IPC connections: the    *)
(* capability set of a run's token (ipc.Server.Start), the message loop    *)
(* (handleConn), and what the calls do to other runs and to the log:       *)
(* dicode.run_task, runs.replay, mcp.call, log, and dicode.output of       *)
(* secrets.  A run may have several connections, as many as its processes  *)
(* open with its token; each loop has one call at a time.  The tasks can   *)
(* be registered anew while a call is at work.                             *)
(*                                                                         *)
(* Left out: calls that have no effect on a run, the log or the audit      *)
(* events (params, kv.get, get_input, and the verbs granted one by one:    *)
(* secrets, crypto, commits, tests); a run that suspended is one that      *)
(* ended (RunLifecycle).  TaskProcess has a connection's beginning and     *)
(* end, RunInputs the retention verbs, DevClones and WebhookRoutes what    *)
(* set_dev_mode and http.register do.                                      *)
(***************************************************************************)
EXTENDS Naturals, Sequences, FiniteSets

CONSTANTS
  Tasks, Servers, Values,
  Conns,       \* connections a run may have
  Versions,    \* what may be registered for a task: its permissions, and mcp_exposed
  Initial,     \* registries to begin with
  Launch,      \* sets of secrets a run may be launched with
  None, Any,   \* Any is "*"
  RunIds,      \* a sequence, the names of the runs in the order they are fired; its length is a bound
  MaxTriggers, MaxEdits, MaxCalls  \* bounds: runs without a parent, registrations, calls

VARIABLES
  registered,  \* Registry: task -> its permissions, if it is there
  rows,        \* run -> its row: task, parent, status, how it was fired
  runs,        \* run -> its IPC server: spec's grant, caps of its token, the redactor's values;
               \*   secret and raced are history: the run's secrets so far, and those whose
               \*   output another output overlapped
  conn,        \* <<run, connection>> -> the call at work: where it is and what it is; since is
               \*   history: what other connections stored after this one loaded the redactor
  logs,        \* run -> the values its log rows show, with those that were secret by then
  trail,       \* audit events
  edits, calls

vars == <<registered, rows, runs, conn, logs, trail, edits, calls>>

Runs == {RunIds[i] : i \in DOMAIN RunIds}
Loops == Runs \X Conns
NoRow == [task |-> None, parent |-> None, status |-> "none", via |-> None]
NoGrant == [replay |-> FALSE, tasks |-> {}, mcp |-> {}]
NoServer == [grant |-> NoGrant, caps |-> {}, scrub |-> {}, secret |-> {}, raced |-> {}]
Idle == [pc |-> "loop", target |-> None, fired |-> None, value |-> None, loaded |-> {}, since |-> {}]

-----------------------------------------------------------------------------
(* Grants *)

\* The capabilities of the token, and so of each connection.
CapsOf(g) ==
  {"log", "output", "output.secret", "return"}
  \cup (IF g.replay THEN {"replay"} ELSE {})
  \cup (IF g.tasks = {} THEN {} ELSE {"trigger"})
  \cup (IF g.mcp = {} THEN {} ELSE {"mcp"})
taskAllowed(g, t) == g.tasks \cap {t, Any} # {}
mcpAllowed(g, n) == g.mcp \cap {n, Any} # {}

Start(grant, secrets) == [grant |-> grant, caps |-> CapsOf(grant), scrub |-> secrets, secret |-> secrets, raced |-> {}]
\* A run gets its row, and its server is made from the spec the registry has.
Fired(r, t, parent, via, secrets) ==
  /\ \E i \in DOMAIN RunIds : r = RunIds[i] /\ i = Cardinality({q \in Runs : rows[q] # NoRow}) + 1
  /\ registered[t].there
  /\ rows' = [rows EXCEPT ![r] = [task |-> t, parent |-> parent, status |-> "running", via |-> via]]
  /\ runs' = [runs EXCEPT ![r] = Start(registered[t].grant, secrets)]

Init ==
  /\ registered \in Initial
  /\ rows = [r \in Runs |-> NoRow] /\ runs = [r \in Runs |-> NoServer]
  /\ conn = [c \in Loops |-> Idle]
  /\ logs = [r \in Runs |-> {}] /\ trail = {} /\ edits = 0 /\ calls = 0

-----------------------------------------------------------------------------
(* The message loop *)

\* A request is read: the loop c is not in a call, and its run is on.
Call(c) ==
  /\ rows[c[1]].status = "running" /\ conn[c].pc = "loop" /\ calls < MaxCalls
  /\ calls' = calls + 1
Holds(c, cap) == cap \in runs[c[1]].caps
Audit(r, of, target, allowed) ==
  trail' = trail \cup {[actor |-> rows[r].task, run |-> of, target |-> target, allowed |-> allowed]}

\* Tools of another server; audited before the round trip.  An unknown server is not.
McpCall(c) ==
  /\ Call(c)
  /\ \E n \in Servers : Audit(c[1], c[1], n, Holds(c, "mcp") /\ mcpAllowed(runs[c[1]].grant, n))
  /\ UNCHANGED <<registered, rows, runs, conn, logs, edits>>

-----------------------------------------------------------------------------
(* Output and log *)

\* A secret value is output.  It joins what the redactor scrubs in two steps, a Load and a
\* Store, and the loops of other connections go on between them; the log row about it has
\* its key only, and who waits for it (secretOut) is not modelled.
OutputSecret(c) ==
  /\ Call(c) /\ Holds(c, "output.secret")
  /\ \E v \in Values :
       conn' = [conn EXCEPT ![c] = [Idle EXCEPT !.pc = "store", !.value = v, !.loaded = runs[c[1]].scrub]]
  /\ UNCHANGED <<registered, rows, runs, logs, trail, edits>>
WithExtraFault(old, v) == {v}
WithExtra(old, v) == old \cup {v}
StoreRedactor(c) ==
  LET r == c[1]
      v == conn[c].value
  IN /\ conn[c].pc = "store"
     /\ runs' = [runs EXCEPT ![r].scrub = WithExtra(conn[c].loaded, v), ![r].secret = @ \cup {v},
                             ![r].raced = (@ \cup conn[c].since) \ {v}]
     /\ conn' = [d \in Loops |->
          IF d = c THEN Idle
          ELSE IF d[1] = r /\ conn[d].pc = "store" THEN [conn[d] EXCEPT !.since = @ \cup {v}]
          ELSE conn[d]]
  /\ UNCHANGED <<registered, rows, logs, trail, edits, calls>>
\* The message is scrubbed before it is buffered.
Log(c) ==
  /\ Call(c) /\ Holds(c, "log")
  /\ \E v \in Values :
       logs' = [logs EXCEPT ![c[1]] =
         @ \cup {[shows |-> x, secret |-> x \in runs[c[1]].secret \ runs[c[1]].raced] : x \in {v} \ runs[c[1]].scrub}]
  /\ UNCHANGED <<registered, rows, runs, conn, trail, edits>>

-----------------------------------------------------------------------------
(* Runs of other tasks *)

Allowed(c, t, mcp) ==
  /\ Holds(c, "trigger") /\ taskAllowed(runs[c[1]].grant, t)
  /\ mcp => registered[t].there /\ registered[t].exposed
RunTask(c) ==
  /\ Call(c)
  /\ \E t \in Tasks, mcp \in BOOLEAN :
       IF Allowed(c, t, mcp)
         THEN /\ conn' = [conn EXCEPT ![c] = [Idle EXCEPT !.pc = "fire", !.target = t]]
              /\ UNCHANGED trail
         ELSE Audit(c[1], c[1], t, FALSE) /\ UNCHANGED conn
  /\ UNCHANGED <<registered, rows, runs, logs, edits>>
\* FireFromTask.  The fire guard may refuse, or the task is gone by now.
FireFromTask(c) ==
  /\ rows[c[1]].status = "running" /\ conn[c].pc = "fire"
  /\ \/ \E q \in Runs :
          /\ Fired(q, conn[c].target, c[1], "task", {})
          /\ conn' = [conn EXCEPT ![c].pc = "fired", ![c].fired = q]
     \/ conn' = [conn EXCEPT ![c].pc = "fired"] /\ UNCHANGED <<rows, runs>>
  /\ UNCHANGED <<registered, logs, trail, edits, calls>>
\* auditTaskCall; then the loop waits for the fired run and reads no other request.
AuditFired(c) ==
  /\ conn[c].pc = "fired"
  /\ Audit(c[1], IF conn[c].fired = None THEN c[1] ELSE conn[c].fired, conn[c].target, TRUE)
  /\ conn' = [conn EXCEPT ![c] = IF @.fired = None THEN Idle ELSE [@ EXCEPT !.pc = "wait"]]
  /\ UNCHANGED <<registered, rows, runs, logs, edits, calls>>
\* WaitRun is over when the run is, or the caller's context.
WaitRun(c) ==
  /\ conn[c].pc = "wait" /\ "ended" \in {rows[c[1]].status, rows[conn[c].fired].status}
  /\ conn' = [conn EXCEPT ![c] = Idle]
  /\ UNCHANGED <<registered, rows, runs, logs, trail, edits, calls>>

\* A run's own task, or the run it was fired by.
MayRead(r, q) == rows[q].task = rows[r].task \/ rows[r].parent = q
\* Replay fires the same task again, as a child of the run it repeats; the caller does not wait.
Replay(c) ==
  /\ Call(c) /\ Holds(c, "replay")
  /\ \E q, n \in Runs :
       /\ rows[q] # NoRow /\ MayRead(c[1], q)
       /\ Fired(n, rows[q].task, q, "replay", {})
  /\ UNCHANGED <<registered, conn, logs, trail, edits>>

-----------------------------------------------------------------------------
(* Around the calls *)

\* A trigger fires a task, with the secrets its environment was resolved to; a chain has a parent.
Trigger(r) ==
  /\ \E t \in Tasks :
       \/ Cardinality({q \in Runs : rows[q].via = "trigger"}) < MaxTriggers
          /\ \E s \in Launch : Fired(r, t, None, "trigger", s)
       \/ \E q \in Runs : rows[q].status = "ended" /\ rows[q].via # "replay" /\ Fired(r, t, q, "chain", {})
  /\ UNCHANGED <<registered, conn, logs, trail, edits, calls>>
\* The processes are gone, and Stop waits for the loops; a wait ends with the run's context.
End(r) ==
  /\ rows[r].status = "running" /\ \A k \in Conns : conn[<<r, k>>].pc \in {"loop", "wait"}
  /\ rows' = [rows EXCEPT ![r].status = "ended"]
  /\ UNCHANGED <<registered, runs, conn, logs, trail, edits, calls>>
\* The task's file changes, or it goes.
Edit(t) ==
  /\ edits < MaxEdits /\ edits' = edits + 1
  /\ registered' \in {[registered EXCEPT ![t] = x] : x \in Versions \cup {[registered[t] EXCEPT !.there = FALSE]}}
  /\ registered' # registered
  /\ UNCHANGED <<rows, runs, conn, logs, trail, calls>>

Next ==
  \/ \E c \in Loops :
       \/ McpCall(c) \/ OutputSecret(c) \/ StoreRedactor(c) \/ Log(c)
       \/ RunTask(c) \/ FireFromTask(c) \/ AuditFired(c) \/ WaitRun(c) \/ Replay(c)
  \/ \E r \in Runs : Trigger(r) \/ End(r)
  \/ \E t \in Tasks : Edit(t)

Spec == Init /\ [][Next]_vars

-----------------------------------------------------------------------------
TypeOK ==
  /\ registered \in [Tasks -> Versions \cup {[v EXCEPT !.there = FALSE] : v \in Versions}]
  /\ rows \in [Runs -> [task : Tasks \cup {None}, parent : Runs \cup {None},
                        status : {"none", "running", "ended"},
                        via : {None, "task", "replay", "chain", "trigger"}]]
  /\ conn \in [Loops -> [pc : {"loop", "store", "fire", "fired", "wait"}, target : Tasks \cup {None},
                         fired : Runs \cup {None}, value : Values \cup {None},
                         loaded : SUBSET (Values \cup UNION Launch), since : SUBSET Values]]

\* Every run a task fired is in the audit log under its caller's name before the loop that
\* fired it can go on, and the caller was allowed that task.
FiresAreAudited ==
  \A r \in Runs :
    rows[r].via = "task" =>
      LET p == rows[r].parent
      IN /\ taskAllowed(runs[p].grant, rows[r].task)
         /\ \/ \E k \in Conns : conn[<<p, k>>].pc = "fired" /\ conn[<<p, k>>].fired = r
            \/ [actor |-> rows[p].task, run |-> r, target |-> rows[r].task, allowed |-> TRUE] \in trail
\* No log row shows a value that was a secret of the run when the row was written: those the
\* run was launched with never, and those it output never, whatever its other connections
\* log and output, except one whose Store an output that had loaded before it overwrote.
NoSecretLogged == \A r \in Runs : \A x \in logs[r] : ~x.secret
\* A loop waits for a run of its own making only, so no two wait for each other.
WaitsForItsOwn ==
  \A c \in Loops : conn[c].pc = "wait" => rows[conn[c].fired].parent = c[1] /\ rows[conn[c].fired].via = "task"

=============================================================================
