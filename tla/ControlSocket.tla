----------------------------- MODULE ControlSocket -----------------------------
(***************************************************************************)
(* How a `dicode` command reaches the daemon of its data directory, and    *)
(* how the daemon comes to be there: the probe, the spawn and the wait of  *)
(* ensureDaemon (and of `dicode daemon --detach`), the start of a daemon   *)
(* up to runServices, its control socket, token file and web port, the     *)
(* handshake, and the readiness barrier that task commands wait behind.    *)
(* Daemons are started by commands and in the foreground, stop, fail and   *)
(* are killed; nothing but the paths and the port keeps two of them apart. *)
(*                                                                         *)
(* A Go listener unlinks its path by name when it is closed.  Left out:    *)
(* onboarding, and what the daemon's parts do (the other modules).         *)
(***************************************************************************)
EXTENDS Naturals, FiniteSets

CONSTANTS
  Daemons,    \* a sequence: daemon processes in the order they start; its length is a bound
  Clients,
  Kinds,      \* what clients are: subsets of {"plain", "task", "detach"}
  PeerCred,   \* the kernel tells the peer's user (Linux): tokens are neither written nor asked for
  None,
  MaxCrashes  \* bound: daemons killed

Procs == {Daemons[i] : i \in DOMAIN Daemons}

VARIABLES
  path,        \* the socket file: whose listener it leads to, dead ones included
  token,       \* the token file: whose token it holds
  port,        \* the daemon that listens on server.port
  dm,          \* daemon -> where it is: pc of run, ctl of ControlServer.Start, ready, failed
  rows,        \* daemon -> the status of a run row it has written, "none" once it ended
  cl,          \* client -> pc, kind, the token it read, the daemon it talks to
  did,         \* history: commands carried out
  overlapped,  \* history: a daemon was started while another was there
  crashes

vars == <<path, token, port, dm, rows, cl, did, overlapped, crashes>>

NoDaemon == [pc |-> "none", ctl |-> "none", ready |-> FALSE, failed |-> FALSE]
Alive(d) == dm[d].pc \notin {"none", "gone"}
Listens(d) == Alive(d) /\ dm[d].ctl = "listens"
Reachable == path # None /\ Listens(path)
Next1 == CHOOSE d \in Procs : \E i \in DOMAIN Daemons :
           d = Daemons[i] /\ i = Cardinality({e \in Procs : dm[e].pc # "none"}) + 1
MoreDaemons == \E d \in Procs : dm[d].pc = "none"

Init ==
  /\ path = None /\ token = None /\ port = None
  /\ dm = [d \in Procs |-> NoDaemon] /\ rows = [d \in Procs |-> "none"]
  /\ cl \in [Clients -> {[pc |-> "probe", kind |-> k, tok |-> None, to |-> None] : k \in Kinds}]
  /\ did = {} /\ overlapped = FALSE /\ crashes = 0

-----------------------------------------------------------------------------
(* The daemon *)

\* A new process: SpawnDetached, or `dicode daemon` in the foreground, which probes nothing.
Launch ==
  /\ MoreDaemons
  /\ dm' = [dm EXCEPT ![Next1].pc = "boot"]
  /\ overlapped' = (overlapped \/ \E d \in Procs : Alive(d))
Foreground == Launch /\ UNCHANGED <<path, token, port, rows, cl, did, crashes>>

Gone(d) == [NoDaemon EXCEPT !.pc = "gone", !.failed = dm[d].failed]

\* setupRegistry: the rows that say running are from a daemon that is no more, it takes it.
\* NewControlServer writes its token; from here on the services run.
Settled == [e \in Procs |-> IF rows[e] = "running" THEN "cancelled" ELSE rows[e]]
SetupRegistry == rows' = Settled
Boot(d) ==
  /\ dm[d].pc = "boot" /\ SetupRegistry
  /\ dm' = [dm EXCEPT ![d].pc = "web", ![d].ctl = "remove"]
  /\ token' = IF PeerCred THEN token ELSE d
  /\ UNCHANGED <<path, port, cl, did, overlapped, crashes>>
\* A step of run fails (configuration, database, a source): it returns.
BootFails(d) ==
  /\ dm[d].pc = "boot" /\ dm' = [dm EXCEPT ![d] = Gone(d)]
  /\ UNCHANGED <<path, token, port, rows, cl, did, overlapped, crashes>>

\* The first error cancels the context of all services.
Cancel(d, failed) == dm' = [dm EXCEPT ![d].pc = "stopping", ![d].failed = failed]
\* The web server listens on its port, or it is taken.
StartWeb(d) ==
  /\ dm[d].pc = "web"
  /\ IF port = None THEN port' = d /\ dm' = [dm EXCEPT ![d].pc = "up"] ELSE Cancel(d, TRUE) /\ UNCHANGED port
  /\ UNCHANGED <<path, token, rows, cl, did, overlapped, crashes>>
\* ControlServer.Start, the context not asked until it listens.
RemoveStale(d) ==
  /\ Alive(d) /\ dm[d].ctl = "remove"
  /\ path' = None /\ dm' = [dm EXCEPT ![d].ctl = "bind"]
  /\ UNCHANGED <<token, port, rows, cl, did, overlapped, crashes>>
Bind(d) ==
  /\ Alive(d) /\ dm[d].ctl = "bind"
  /\ IF path = None
       THEN path' = d /\ dm' = [dm EXCEPT ![d].ctl = "listens"]
       ELSE dm' = [dm EXCEPT ![d].ctl = "done", ![d].pc = "stopping", ![d].failed = TRUE] /\ UNCHANGED path
  /\ UNCHANGED <<token, port, rows, cl, did, overlapped, crashes>>
\* The reconciler's first sync is over: the ready channel is closed.
FirstSync(d) ==
  /\ dm[d].pc \in {"web", "up"} /\ ~dm[d].ready /\ dm' = [dm EXCEPT ![d].ready = TRUE]
  /\ UNCHANGED <<path, token, port, rows, cl, did, overlapped, crashes>>
\* A task is run.
FireRun(d) ==
  /\ dm[d].pc = "up" /\ dm[d].ready /\ rows[d] = "none"
  /\ rows' = [rows EXCEPT ![d] = "running"]
  /\ UNCHANGED <<path, token, port, dm, cl, did, overlapped, crashes>>
FinishRun(d) ==
  /\ Alive(d) /\ rows[d] = "running"
  /\ rows' = [rows EXCEPT ![d] = "none"]
  /\ UNCHANGED <<path, token, port, dm, cl, did, overlapped, crashes>>

Stop(d) ==
  /\ dm[d].pc \in {"web", "up"} /\ Cancel(d, FALSE)
  /\ UNCHANGED <<path, token, port, rows, cl, did, overlapped, crashes>>
\* The context is done: the listener is closed, which unlinks the path, whose ever it is.
Close(d) ==
  /\ dm[d].pc = "stopping" /\ dm[d].ctl = "listens"
  /\ path' = None /\ dm' = [dm EXCEPT ![d].ctl = "closed"]
  /\ UNCHANGED <<token, port, rows, cl, did, overlapped, crashes>>
\* Then both files are removed; the process may be over before.
RemoveFiles(d) ==
  /\ dm[d].pc = "stopping" /\ dm[d].ctl = "closed"
  /\ path' = None /\ token' = None /\ dm' = [dm EXCEPT ![d].ctl = "done"]
  /\ UNCHANGED <<port, rows, cl, did, overlapped, crashes>>
Exit(d) ==
  /\ dm[d].pc = "stopping" /\ dm[d].ctl \in {"closed", "done"}
  /\ dm' = [dm EXCEPT ![d] = Gone(d)]
  /\ port' = IF port = d THEN None ELSE port
  /\ UNCHANGED <<path, token, rows, cl, did, overlapped, crashes>>
\* Killed: nothing is removed.
Crash(d) ==
  /\ Alive(d) /\ crashes < MaxCrashes /\ crashes' = crashes + 1
  /\ dm' = [dm EXCEPT ![d] = Gone(d)]
  /\ port' = IF port = d THEN None ELSE port
  /\ UNCHANGED <<path, token, rows, cl, did, overlapped>>

-----------------------------------------------------------------------------
(* The command *)

At(c, from, to) == cl[c].pc = from /\ cl' = [cl EXCEPT ![c].pc = to]
Same == UNCHANGED <<path, token, port, dm, rows, did, overlapped, crashes>>
\* `--detach` has nothing more to do once a daemon is up.
Found(c) == IF cl[c].kind = "detach" THEN "done" ELSE "dial"

Probe(c) == At(c, "probe", IF Reachable THEN Found(c) ELSE "spawn") /\ Same
\* What is at the path by now is removed, and a daemon spawned.
Spawn(c) ==
  /\ At(c, "spawn", "wait") /\ Launch /\ path' = None
  /\ UNCHANGED <<token, port, rows, did, crashes>>
WaitDaemonUp(c) == Reachable /\ At(c, "wait", Found(c)) /\ Same
StartTimeout(c) == ~Reachable /\ At(c, "wait", "failed") /\ Same

\* Dial: the token first, then the connection.
ReadToken(c) ==
  /\ cl[c].pc = "dial"
  /\ cl' = [cl EXCEPT ![c].tok = token, ![c].pc = IF PeerCred \/ token # None THEN "connect" ELSE "failed"]
  /\ Same
Connect(c) ==
  /\ cl[c].pc = "connect"
  /\ cl' = IF Reachable THEN [cl EXCEPT ![c].to = path, ![c].pc = "shake"] ELSE [cl EXCEPT ![c].pc = "failed"]
  /\ Same
\* handleConn: the peer's user, or the token.
Handshake(c) ==
  /\ At(c, "shake", IF ~(PeerCred \/ cl[c].tok = cl[c].to) THEN "failed"
                    ELSE IF cl[c].kind = "task" THEN "ready" ELSE "send")
  /\ Alive(cl[c].to) /\ Same
\* cli.ready: handleReady waits for the channel, the time asked for, or the end.
WaitReady(c) == cl[c].pc = "ready" /\ dm[cl[c].to].ready /\ At(c, "ready", "send") /\ Same
NotReady(c) == cl[c].pc = "ready" /\ Alive(cl[c].to) /\ At(c, "ready", "failed") /\ Same
\* The request of the command is answered, from the registry as it is.
Dispatch(c) ==
  /\ At(c, "send", "done") /\ Alive(cl[c].to)
  /\ did' = did \cup {[kind |-> cl[c].kind, by |-> cl[c].to, synced |-> dm[cl[c].to].ready]}
  /\ UNCHANGED <<path, token, port, dm, rows, overlapped, crashes>>
\* The daemon is gone, or ends the connection.
Lost(c) ==
  /\ cl[c].pc \in {"shake", "ready", "send"} /\ ~Alive(cl[c].to)
  /\ cl' = [cl EXCEPT ![c].pc = "failed"] /\ Same

Next ==
  \/ Foreground
  \/ \E d \in Procs :
       \/ Boot(d) \/ BootFails(d)
       \/ StartWeb(d) \/ RemoveStale(d) \/ Bind(d) \/ FirstSync(d)
       \/ FireRun(d) \/ FinishRun(d)
       \/ Stop(d) \/ Close(d) \/ RemoveFiles(d) \/ Exit(d) \/ Crash(d)
  \/ \E c \in Clients :
       \/ Probe(c) \/ Spawn(c) \/ WaitDaemonUp(c) \/ StartTimeout(c)
       \/ ReadToken(c) \/ Connect(c) \/ Handshake(c)
       \/ WaitReady(c) \/ NotReady(c) \/ Dispatch(c) \/ Lost(c)

Spec == Init /\ [][Next]_vars

-----------------------------------------------------------------------------
(* Properties *)

TypeOK ==
  /\ {path, token, port} \subseteq Procs \cup {None}
  /\ \A d \in Procs :
       /\ dm[d].pc \in {"none", "boot", "web", "up", "stopping", "gone"}
       /\ dm[d].ctl \in {"none", "remove", "bind", "listens", "closed", "done"}
  /\ rows \in [Procs -> {"none", "running", "cancelled"}]
  /\ \A c \in Clients : cl[c].to \in Procs \cup {None}

\* No task command is answered from a registry that the first sync has not filled
\* (waitDaemonReady, handleReady): it would say of a task that it is not found.
TasksAreThere == \A x \in did : x.kind = "task" => x.synced

\* As long as daemons did not overlap, a daemon that serves is the one that is reached, with
\* its token, whatever stopped or was killed before it, and none ends for want of the path
\* or the port (ensureDaemon, ControlServer.Start).
Serves(d) == dm[d].pc \in {"web", "up"} /\ dm[d].ctl = "listens"
ServingIsReached ==
  ~overlapped =>
    \A d \in Procs : ~dm[d].failed /\ (Serves(d) => path = d /\ (PeerCred \/ token = d))

\* As long as daemons did not overlap, the rows that say running are the running daemon's:
\* those that were left are settled, and none is settled under it (setupRegistry).
RowsAreOfTheLiving ==
  ~overlapped =>
    /\ \A d \in Procs : Alive(d) => rows[d] # "cancelled"
    /\ \A d, e \in Procs : dm[d].pc \in {"web", "up"} /\ dm[e].pc = "gone" => rows[e] # "running"

\* Two daemons never both hold on: the one without the port ends (runServices).
OneStays == \A d, e \in Procs : dm[d].pc = "up" /\ dm[e].pc = "up" => d = e
================================================================================
