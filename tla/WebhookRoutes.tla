---------------------------- MODULE WebhookRoutes ----------------------------
(***************************************************************************)
(* The routes of the HTTP gateway (ipc/gateway.go) and who holds them:     *)
(* arm and disarm of the approval gate (daemon.newArmDisarm), the engine's *)
(* webhooks map, and the connections of daemon tasks that register a       *)
(* pattern and answer the requests pushed to them (ipc.Server.handleConn,  *)
(* ipcHandler).  What a fired webhook does is WebhookFires.                *)
(***************************************************************************)
EXTENDS Naturals, FiniteSets

CONSTANTS
  Tasks, Paths, Conns, Requests,
  None, Engine,    \* no holder; the engine's WebhookHandler
  MaxCalls,        \* bound: calls of arm and disarm
  MaxRegisters     \* bound: http.register calls

VARIABLES
  hooks,      \* Engine.webhooks: path -> task
  routes,     \* Gateway.routes: path -> handler
  recorded,   \* webhookPaths: task -> path
  calls,      \* task -> the arm or disarm under way; the gate has one per task at a time
  conns,      \* connection -> the state of its handleConn
  reqs,       \* request -> the state of its ipcHandler.ServeHTTP
  contested,  \* paths that had two claimants at once
  begun, registers

vars == <<hooks, routes, recorded, calls, conns, reqs, contested, begun, registers>>
routeVars == <<hooks, routes, recorded, calls, contested, begun>>
connVars == <<conns, reqs, registers>>

NoCall == [pc |-> "idle", path |-> None]
Up == [pc |-> "up", pattern |-> None, next |-> None, at |-> None]
Fresh == [pc |-> "new", conn |-> None, box |-> 0, heard |-> 0, out |-> None]

Init ==
  /\ hooks = [p \in Paths |-> None] /\ routes = [p \in Paths |-> None]
  /\ recorded = [t \in Tasks |-> None] /\ calls = [t \in Tasks |-> NoCall]
  /\ conns = [c \in Conns |-> Up] /\ reqs = [r \in Requests |-> Fresh]
  /\ contested = {} /\ begun = 0 /\ registers = 0

Claimants(p, h, w, k, n) ==
  {t \in Tasks : h[p] = t \/ w[t] = p \/ (k[t].path = p /\ k[t].pc # "idle")}
  \cup {c \in Conns : n[c].pattern = p \/ n[c].next = p}
\* Taken with the primed variables, in every step that adds a claim.
Contest == contested' = contested \cup {p \in Paths : Cardinality(Claimants(p, hooks', recorded', calls', conns')) > 1}

-----------------------------------------------------------------------------
(* arm and disarm. *)

Begin(t, pc, path) ==
  /\ calls[t] = NoCall /\ begun < MaxCalls
  /\ begun' = begun + 1
  /\ calls' = [calls EXCEPT ![t] = [pc |-> pc, path |-> path]]
  /\ UNCHANGED <<hooks, routes, recorded, connVars>>
  /\ Contest
BeginArm(t, path) == Begin(t, "register", path)
BeginDisarm(t) == Begin(t, "forget", recorded[t])

\* Engine.Register, in one step under registerMu (Triggers has its inside): the other
\* paths are given up; then the task claims its path unless another one has it, or it
\* is disabled or deferred, or it is refused and arm returns.
EngineRegister(t) ==
  LET path == calls[t].path
      left == [p \in Paths |-> IF hooks[p] = t /\ p # path THEN None ELSE hooks[p]]
      none == [p \in Paths |-> IF hooks[p] = t THEN None ELSE hooks[p]]
  IN /\ calls[t].pc = "register"
     /\ \/ /\ hooks' = IF path # None /\ left[path] = None THEN [left EXCEPT ![path] = t] ELSE left
           /\ calls' = [calls EXCEPT ![t] = IF path = None THEN NoCall ELSE [@ EXCEPT !.pc = "route"]]
        \/ /\ path # None /\ hooks' = none
           /\ calls' = [calls EXCEPT ![t].pc = "route"]
        \/ hooks' = left /\ calls' = [calls EXCEPT ![t] = NoCall]
     /\ UNCHANGED <<routes, recorded, begun, connVars>>
     /\ Contest

\* registerGatewayWebhook: the route, then the record of it.  A task without a webhook
\* leaves both as they were.
RouteHook(t) ==
  /\ calls[t].pc = "route"
  /\ routes' = [routes EXCEPT ![calls[t].path] = Engine]
  /\ calls' = [calls EXCEPT ![t].pc = "record"]
  /\ UNCHANGED <<hooks, recorded, contested, begun, connVars>>
RecordHook(t) ==
  /\ calls[t].pc = "record"
  /\ recorded' = [recorded EXCEPT ![t] = calls[t].path]
  /\ calls' = [calls EXCEPT ![t] = NoCall]
  /\ UNCHANGED <<hooks, routes, begun, connVars>>
  /\ Contest

\* retryDeferredPipelines: a task that was waiting claims its path.
Land(t) ==
  /\ calls[t].pc = "idle" /\ recorded[t] # None /\ hooks[recorded[t]] = None
  /\ hooks' = [hooks EXCEPT ![recorded[t]] = t]
  /\ UNCHANGED <<routes, recorded, calls, begun, connVars>>
  /\ Contest

ForgetRecord(t) ==
  /\ calls[t].pc = "forget"
  /\ recorded' = [recorded EXCEPT ![t] = None]
  /\ calls' = [calls EXCEPT ![t].pc = IF calls[t].path = None THEN "unregister" ELSE "unroute"]
  /\ UNCHANGED <<hooks, routes, contested, begun, connVars>>
DropRoute(t) ==
  /\ calls[t].pc = "unroute"
  /\ routes' = [routes EXCEPT ![calls[t].path] = None]
  /\ calls' = [calls EXCEPT ![t].pc = "unregister"]
  /\ UNCHANGED <<hooks, recorded, contested, begun, connVars>>
EngineUnregister(t) ==
  /\ calls[t].pc = "unregister"
  /\ hooks' = [p \in Paths |-> IF hooks[p] = t THEN None ELSE hooks[p]]
  /\ calls' = [calls EXCEPT ![t] = NoCall]
  /\ UNCHANGED <<routes, recorded, contested, begun, connVars>>

-----------------------------------------------------------------------------
(* The message loop of a connection. *)

Goes(c, pc) == conns[c].pc = pc /\ UNCHANGED <<hooks, recorded, calls, begun>>

\* http.register: the new pattern, then the old one is given up.
HttpRegister(c, p) ==
  /\ conns[c].pc = "up" /\ registers < MaxRegisters
  /\ UNCHANGED <<hooks, recorded, calls, begun, reqs>>
  /\ registers' = registers + 1
  /\ routes' = [routes EXCEPT ![p] = c]
  /\ conns' = [conns EXCEPT ![c] = [@ EXCEPT !.pc = "leaveOld", !.next = p]]
  /\ Contest
LeaveOld(c) ==
  LET old == conns[c].pattern IN
  /\ Goes(c, "leaveOld")
  /\ routes' = IF old \notin {None, conns[c].next} THEN [routes EXCEPT ![old] = None] ELSE routes
  /\ conns' = [conns EXCEPT ![c] = [@ EXCEPT !.pc = "up", !.pattern = conns[c].next, !.next = None]]
  /\ UNCHANGED <<contested, reqs, registers>>

\* http.respond: complete loads the channel of the request, if it is pending, and
\* then sends to it; the channel holds one answer.  The task may answer twice.
Pending(r) == reqs[r].pc \in {"select", "leave"}
LoadAnswer(c, r) ==
  /\ Goes(c, "up") /\ reqs[r].conn = c /\ reqs[r].heard < 2 /\ reqs[r].pc # "new"
  /\ reqs' = [reqs EXCEPT ![r].heard = @ + 1]
  /\ conns' = IF Pending(r) THEN [conns EXCEPT ![c] = [@ EXCEPT !.pc = "send", !.at = r]] ELSE conns
  /\ UNCHANGED <<routes, contested, registers>>
SendAnswer(c) ==
  /\ Goes(c, "send") /\ reqs[conns[c].at].box = 0
  /\ reqs' = [reqs EXCEPT ![conns[c].at].box = 1]
  /\ conns' = [conns EXCEPT ![c] = [@ EXCEPT !.pc = "up", !.at = None]]
  /\ UNCHANGED <<routes, contested, registers>>

\* The run ends or the socket breaks: writes fail from now on, and the loop reads EOF.
Break(c) ==
  /\ Goes(c, "up")
  /\ conns' = [conns EXCEPT ![c].pc = "closed"]
  /\ UNCHANGED <<routes, contested, reqs, registers>>
\* The deferred Unregister of handleConn.
HandlerReturns(c) ==
  /\ Goes(c, "closed")
  /\ routes' = IF conns[c].pattern # None THEN [routes EXCEPT ![conns[c].pattern] = None] ELSE routes
  /\ conns' = [conns EXCEPT ![c] = [Up EXCEPT !.pc = "gone"]]
  /\ UNCHANGED <<contested, reqs, registers>>

-----------------------------------------------------------------------------
(* A request to a path: Gateway.ServeHTTP, then ipcHandler.ServeHTTP. *)

Answered(r, out) == reqs' = [reqs EXCEPT ![r].pc = "leave", ![r].out = out]
Only(r, pc) == reqs[r].pc = pc /\ UNCHANGED <<routeVars, conns, registers>>

\* The handler of the longest pattern that matches; a path stands for its sub-paths
\* too.  Requests to the engine's handler leave no trace here.
Dispatch(r, p) ==
  /\ Only(r, "new") /\ routes[p] \in Conns
  /\ reqs' = [reqs EXCEPT ![r].pc = "push", ![r].conn = routes[p]]
\* The id is pending before the push, which fails on a connection that broke.
Push(r) ==
  /\ Only(r, "push")
  /\ IF conns[reqs[r].conn].pc \in {"closed", "gone"} THEN Answered(r, "badGateway")
     ELSE reqs' = [reqs EXCEPT ![r].pc = "select"]
TakeAnswer(r) ==
  /\ Only(r, "select") /\ reqs[r].box = 1
  /\ reqs' = [reqs EXCEPT ![r].pc = "leave", ![r].out = "answered", ![r].box = 0]
\* The timer of 60 seconds, or the client left.
GiveUp(r) == Only(r, "select") /\ Answered(r, "timeout")
ForgetRequest(r) == Only(r, "leave") /\ reqs' = [reqs EXCEPT ![r].pc = "done"]

-----------------------------------------------------------------------------
Next ==
  \/ \E t \in Tasks : \/ \E p \in Paths \cup {None} : BeginArm(t, p)
                      \/ BeginDisarm(t) \/ EngineRegister(t) \/ RouteHook(t) \/ RecordHook(t) \/ Land(t)
                      \/ ForgetRecord(t) \/ DropRoute(t) \/ EngineUnregister(t)
  \/ \E c \in Conns : \/ \E p \in Paths : HttpRegister(c, p)
                      \/ \E r \in Requests : LoadAnswer(c, r)
                      \/ LeaveOld(c) \/ SendAnswer(c) \/ Break(c) \/ HandlerReturns(c)
  \/ \E r \in Requests : \/ \E p \in Paths : Dispatch(r, p)
                         \/ Push(r) \/ TakeAnswer(r) \/ GiveUp(r) \/ ForgetRequest(r)

Spec == Init /\ [][Next]_vars

-----------------------------------------------------------------------------
TypeOK ==
  /\ hooks \in [Paths -> Tasks \cup {None}] /\ routes \in [Paths -> Conns \cup {Engine, None}]
  /\ recorded \in [Tasks -> Paths \cup {None}]
  /\ \A c \in Conns : conns[c].pc \in {"up", "leaveOld", "send", "closed", "gone"}
  /\ \A r \in Requests : reqs[r].box \in 0..1

\* The webhook of an armed task and the pattern of a live connection stay reachable
\* while nothing else was armed or registered with the same path.
ClaimIsRouted ==
  \A p \in Paths \ contested :
    /\ hooks[p] # None /\ calls[hooks[p]].pc = "idle" => routes[p] = Engine
    /\ \A c \in Conns : conns[c].pattern = p /\ conns[c].pc \in {"up", "send"} => routes[p] = c

\* No path leads to a connection whose handler returned: the next request would be
\* refused, and the path of a daemon that restarts would be taken, until someone else
\* registers it.
NoDeadRoute == \A p \in Paths : routes[p] \in Conns => conns[routes[p]].pc # "gone"

\* A request is answered by its connection, or given up; and a message loop hangs for
\* good on an answer only if the task answered the request twice.
LoopsGoOn ==
  /\ \A r \in Requests : reqs[r].out = "answered" => reqs[r].heard > 0
  /\ \A c \in Conns : conns[c].pc = "send" /\ reqs[conns[c].at].pc = "done" /\ reqs[conns[c].at].box = 1
       => reqs[conns[c].at].heard = 2
=============================================================================
