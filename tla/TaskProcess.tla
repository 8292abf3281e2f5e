------------------------------ MODULE TaskProcess ------------------------------
(***************************************************************************)
(* One run of a deno or python task: the run's goroutine, the process it   *)
(* starts and the IPC server between them, with its accept loop, its       *)
(* connection and the goroutine that flushes the task's log.  The process  *)
(* posts logs, then a return value or a suspension, and is told that it    *)
(* was taken; it may exit, fail, linger or be killed at any time.          *)
(*                                                                         *)
(* Abstracted: the SDK's other requests; a flush at the size limit is one  *)
(* of the ticks.                                                           *)
(***************************************************************************)
EXTENDS Naturals, Sequences

CONSTANTS MaxLogs  \* bound: log messages of a run

VARIABLES
  pc,         \* of the run's goroutine
  attempt,    \* 1, or 2 after a stale lock file was regenerated
  silent,     \* spec.Silent: no log pipes to wait for
  key,        \* the run's MCP key is valid
  files,      \* "tmp" and "socket", those on disk
  listener, conn,   \* none, queued, accepted, handled (counted in connWG) or closed
  proc,       \* none, run, posted (waits for its answer), told, dead
  exit,       \* none, clean, error, stale, killed
  queue,      \* what the process has sent and the server has not read
  posted,     \* none, return, suspend: what the process was told is taken
  ret, suspend, acking,   \* retCh, s.suspend, the request to be answered
  logs,       \* sent, read, saved: how many; read - saved are in logBuf
  flusher, stopping,
  cancelled,  \* the run's context
  over,       \* the attempt's context
  result      \* [err, value, suspended]

vars == <<pc, attempt, silent, key, files, listener, conn, proc, exit, queue, posted, ret, suspend, acking,
          logs, flusher, stopping, cancelled, over, result>>
procVars == <<proc, exit, posted>>
srvVars == <<listener, conn, queue, ret, suspend, acking, logs, flusher, stopping>>

Init ==
  /\ pc = "mint" /\ attempt = 1 /\ silent \in BOOLEAN /\ key = FALSE /\ files = {}
  /\ listener = FALSE /\ conn = "none" /\ proc = "none" /\ exit = "none" /\ queue = <<>> /\ posted = "none"
  /\ ret = FALSE /\ suspend = FALSE /\ acking = "none"
  /\ logs = [sent |-> 0, read |-> 0, saved |-> 0]
  /\ flusher = FALSE /\ stopping = FALSE /\ cancelled = FALSE /\ over = FALSE
  /\ result = [err |-> FALSE, value |-> FALSE, suspended |-> FALSE]

-----------------------------------------------------------------------------
(* The run *)

Fail == result' = [result EXCEPT !.err = TRUE]
Prepared == UNCHANGED <<attempt, silent, conn, queue, ret, suspend, acking, logs, stopping, procVars, cancelled, over>>

\* ApplyMCPToken; a task that does not want a key gets none.
Mint ==
  /\ pc = "mint"
  /\ \/ pc' = "serve" /\ key' \in BOOLEAN /\ UNCHANGED result
     \/ pc' = "done" /\ Fail /\ UNCHANGED key
  /\ UNCHANGED <<files, listener, flusher>> /\ Prepared
\* srv.Start: the socket, the token, the accept loop and the flusher.
Serve ==
  /\ pc = "serve"
  /\ \/ pc' = "temp" /\ files' = {"socket"} /\ listener' = TRUE /\ flusher' = TRUE /\ UNCHANGED result
     \/ pc' = "revoke" /\ Fail /\ UNCHANGED <<files, listener, flusher>>
  /\ UNCHANGED key /\ Prepared
\* The shim and the runner, or the wrapper.
Temp ==
  /\ pc = "temp"
  /\ \/ pc' = "start" /\ files' = files \cup {"tmp"} /\ UNCHANGED result
     \/ pc' = "unlisten" /\ Fail /\ UNCHANGED files
  /\ UNCHANGED <<key, listener, flusher>> /\ Prepared

Start ==
  /\ pc = "start"
  /\ \/ pc' = "await" /\ proc' = "run" /\ exit' = "none" /\ over' = FALSE
        /\ conn' = "none" /\ result' = [result EXCEPT !.err = FALSE, !.value = FALSE]
     \/ pc' = "classify" /\ Fail /\ UNCHANGED <<proc, exit, over, conn>>
  /\ UNCHANGED <<attempt, silent, key, files, listener, queue, posted, ret, suspend, acking, logs, flusher,
                 stopping, cancelled>>

\* AwaitBridgeCompletion: the return value or the exit, whichever is seen first; a value
\* that raced in just before the exit is drained.
Run(next) ==
  /\ pc' = next
  /\ UNCHANGED <<attempt, silent, key, files, listener, conn, queue, suspend, acking, logs, flusher, stopping,
                 procVars, cancelled>>
Returned ==
  /\ pc = "await" /\ ret /\ ret' = FALSE
  /\ result' = [result EXCEPT !.value = TRUE] /\ Run("grace") /\ UNCHANGED over
ExitedFault ==
  /\ pc = "await" /\ exit # "none"
  /\ result' = [result EXCEPT !.err = exit # "clean"] /\ UNCHANGED ret
  /\ Run("pipes") /\ UNCHANGED over
Exited ==
  /\ pc = "await" /\ exit # "none"
  /\ result' = [result EXCEPT !.value = ret, !.err = exit # "clean"] /\ ret' = FALSE
  /\ Run("pipes") /\ UNCHANGED over
\* It has a grace to exit, then it gets a SIGTERM, which it may ignore.
Grace ==
  /\ pc = "grace" /\ Run("pipes") /\ UNCHANGED <<ret, over, result>>
\* The log pipes are closed when the process is gone; the attempt's context ends then.
Pipes ==
  /\ pc = "pipes" /\ (silent \/ proc = "dead")
  /\ over' = TRUE /\ Run(IF result.err /\ exit = "stale" /\ attempt = 1 THEN "relock" ELSE "classify")
  /\ UNCHANGED <<ret, result>>
Relock ==
  /\ pc = "relock"
  /\ \/ pc' = "start" /\ attempt' = 2
     \/ pc' = "classify" /\ UNCHANGED attempt
  /\ UNCHANGED <<silent, key, files, procVars, srvVars, cancelled, over, result>>
Classify ==
  /\ pc = "classify"
  /\ result' = [result EXCEPT !.suspended = suspend /\ ~result.err]
  /\ Run("unlisten") /\ UNCHANGED <<ret, over>>

\* The deferred calls: the files, srv.Stop in its steps, the key.
Unlisten ==
  /\ pc = "unlisten" /\ pc' = "conns"
  /\ files' = {} /\ listener' = FALSE
  /\ conn' = IF conn = "queued" THEN "closed" ELSE conn
  /\ UNCHANGED <<attempt, silent, key, queue, ret, suspend, acking, logs, flusher, stopping, procVars, cancelled,
                 over, result>>
WaitConns == pc = "conns" /\ conn # "handled" /\ Run("flush") /\ UNCHANGED <<ret, over, result>>
StopFlusher ==
  /\ pc = "flush" /\ stopping' = TRUE
  /\ pc' = "flushed"
  /\ UNCHANGED <<attempt, silent, key, files, listener, conn, queue, ret, suspend, acking, logs, flusher, procVars,
                 cancelled, over, result>>
Flushed == pc = "flushed" /\ ~flusher /\ Run("revoke") /\ UNCHANGED <<ret, over, result>>
\* A failed revocation leaves the key to the sweep of the next start.
Revoke ==
  /\ pc = "revoke" /\ pc' = "done"
  /\ key' \in {FALSE, key}
  /\ UNCHANGED <<attempt, silent, files, procVars, srvVars, cancelled, over, result>>

-----------------------------------------------------------------------------
(* The server *)
Served == UNCHANGED <<pc, attempt, silent, key, files, listener, stopping, cancelled, over, result>>

Accept ==
  /\ conn = "queued" /\ listener /\ conn' = "accepted"
  /\ UNCHANGED <<queue, ret, suspend, acking, logs, flusher, procVars>> /\ Served
\* connWG.Add, under acceptMu, and the handler's goroutine.
Count ==
  /\ conn = "accepted" /\ conn' = "handled"
  /\ UNCHANGED <<queue, ret, suspend, acking, logs, flusher, procVars>> /\ Served
\* A request takes effect before it is answered.
Handle ==
  /\ conn = "handled" /\ acking = "none" /\ queue # <<>>
  /\ queue' = Tail(queue)
  /\ CASE Head(queue) = "log" -> logs' = [logs EXCEPT !.read = @ + 1] /\ UNCHANGED <<ret, suspend, acking>>
       [] Head(queue) = "return" -> ret' = TRUE /\ acking' = "return" /\ UNCHANGED <<logs, suspend>>
       [] OTHER -> suspend' = TRUE /\ acking' = "suspend" /\ UNCHANGED <<logs, ret>>
  /\ UNCHANGED <<conn, flusher, procVars>> /\ Served
Reply ==
  /\ acking # "none" /\ acking' = "none"
  /\ IF proc = "posted" THEN proc' = "told" /\ posted' = acking ELSE UNCHANGED <<proc, posted>>
  /\ UNCHANGED <<conn, queue, ret, suspend, logs, flusher, exit>> /\ Served
Hangup ==
  /\ conn = "handled" /\ acking = "none" /\ queue = <<>> /\ proc = "dead"
  /\ conn' = "closed"
  /\ UNCHANGED <<queue, ret, suspend, acking, logs, flusher, procVars>> /\ Served

\* flushLogs: the ticks, and the last flush when it is stopped or the run is cancelled.
Tick ==
  /\ flusher /\ logs.saved < logs.read
  /\ logs' = [logs EXCEPT !.saved = logs.read]
  /\ UNCHANGED <<conn, queue, ret, suspend, acking, flusher, procVars>> /\ Served
LastFlush ==
  /\ flusher /\ (stopping \/ cancelled) /\ flusher' = FALSE
  /\ logs' = [logs EXCEPT !.saved = logs.read]
  /\ UNCHANGED <<conn, queue, ret, suspend, acking, procVars>> /\ Served

-----------------------------------------------------------------------------
(* The process *)
Process == UNCHANGED <<pc, attempt, silent, key, files, listener, flusher, stopping, ret, suspend, acking, cancelled,
                       over, result>>
Connect ==
  /\ proc = "run" /\ conn = "none" /\ listener /\ conn' = "queued"
  /\ UNCHANGED <<procVars, queue, logs>> /\ Process
Log ==
  /\ proc \in {"run", "told"} /\ conn = "handled" /\ logs.sent < MaxLogs
  /\ logs' = [logs EXCEPT !.sent = @ + 1] /\ queue' = Append(queue, "log")
  /\ UNCHANGED <<procVars, conn>> /\ Process
Post(what) ==
  /\ proc = "run" /\ conn = "handled"
  /\ queue' = Append(queue, what) /\ proc' = "posted"
  /\ UNCHANGED <<exit, posted, conn, logs>> /\ Process
Die(how) ==
  /\ CASE how = "clean" -> proc \in {"run", "told"}
       [] how = "error" -> proc \in {"run", "told"}
       [] how = "stale" -> proc = "run" /\ conn = "none"
       [] OTHER -> proc \in {"run", "posted", "told"}  \* the timeout, the end of a context
  /\ proc' = "dead" /\ exit' = how
  /\ conn' = IF conn = "queued" THEN "closed" ELSE conn
  /\ UNCHANGED <<posted, queue, logs>> /\ Process
Kill ==
  /\ ~cancelled /\ cancelled' = TRUE
  /\ UNCHANGED <<pc, attempt, silent, key, files, procVars, srvVars, over, result>>

Next ==
  \/ Mint \/ Serve \/ Temp \/ Start \/ Returned \/ Exited \/ Grace \/ Pipes \/ Relock \/ Classify
  \/ Unlisten \/ WaitConns \/ StopFlusher \/ Flushed \/ Revoke
  \/ Accept \/ Count \/ Handle \/ Reply \/ Hangup \/ Tick \/ LastFlush
  \/ Connect \/ Log \/ (\E what \in {"return", "suspend"} : Post(what))
  \/ (\E how \in {"clean", "error", "stale", "killed"} : Die(how)) \/ Kill

Spec == Init /\ [][Next]_vars

-----------------------------------------------------------------------------
TypeOK ==
  /\ attempt \in 1..2 /\ files \subseteq {"tmp", "socket"}
  /\ logs.saved <= logs.read /\ logs.read <= logs.sent
  /\ acking # "none" => conn = "handled"

\* What a process was told is taken is the run's outcome, however its exit, the reply and
\* the server's goroutine fall; and no outcome is made up ("a return value that raced in
\* just before exit is drained").
OutcomeIsTheTasks ==
  pc \in {"unlisten", "conns", "flush", "flushed"} /\ exit # "none" =>
    /\ posted = "return" => result.value
    /\ posted = "suspend" /\ exit = "clean" => result.suspended
    /\ result.suspended => ~result.err /\ exit = "clean" /\ ~result.value
    /\ result.err => exit # "clean"

\* A run that is over leaves nothing behind but a key whose revocation failed: no file,
\* no socket, no goroutine, and no process unless a silent one is being killed.
NothingIsLeft ==
  pc = "done" =>
    /\ files = {} /\ ~listener /\ ~flusher
    /\ proc \in {"none", "dead"} \/ silent

\* No log entry that was read is lost ("no log entries are silently lost") by a run that
\* is not cancelled; the flusher of a cancelled one stops before its connection.
LogsAreKeptAlways == pc = "done" => logs.saved = logs.read
LogsAreKept == cancelled \/ LogsAreKeptAlways
=============================================================================
