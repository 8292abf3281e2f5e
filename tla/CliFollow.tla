------------------------------- MODULE CliFollow -------------------------------
(***************************************************************************)
(* `dicode run` and `dicode resume` on a task that suspends for input: the *)
(* follow loop of the command (fetch the form, collect an input from the   *)
(* --field answers and the prompt, submit, wait, again), the one-shot      *)
(* resume, and the requests they make over the control socket, answered    *)
(* one at a time per connection.  Meanwhile others resume and kill the     *)
(* same runs, the sweep expires them and the task becomes a daemon task.   *)
(*                                                                         *)
(* A form is its fields and what it asks of an input; an input is the set  *)
(* of fields that have an answer.  Left out: the values, the logs, and the *)
(* steps inside ResumeRun and WaitRunSettled (RunLifecycle).  The way to a *)
(* daemon is ControlSocket's; here one is there.                           *)
(***************************************************************************)
EXTENDS Naturals, Sequences, FiniteSets

CONSTANTS
  RunIds,      \* a sequence: runs in the order they are fired; its length is a bound
  Clients,
  Forms,       \* records [fields, required, atLeast]; required may name what is no field
  Answers,     \* sets of --field names a command may be given
  None,
  MaxReloads   \* bound: changes of the task's trigger

Runs == {RunIds[i] : i \in DOMAIN RunIds}
NoForm == [fields |-> {}, required |-> {}, atLeast |-> 0]
\* schemavalidate.Validate.
Valid(form, input) == form.required \subseteq input /\ Cardinality(input) >= form.atLeast
missingRequired(form, input) == form.required \ input

VARIABLES
  rows,      \* run -> status, the form it awaits, the run it continues and the input it was given
  daemon,    \* whether the registered task is a daemon task
  cl,        \* command -> pc, its run, the form it fetched, its flags, the answers left, the input
  sent,      \* history: inputs a command submitted with success: what was prefilled, whether asked
  reloads

vars == <<rows, daemon, cl, sent, reloads>>

NoRun == [status |-> "none", form |-> NoForm, of |-> None, input |-> {}]
\* tty: stdin is a terminal; batch: --non-interactive.
Command(pool, tty, batch) ==
  [pc |-> "start", run |-> None, form |-> NoForm, daemon |-> FALSE, tty |-> tty, batch |-> batch,
   pool |-> pool, pre |-> {}, input |-> {}, asked |-> FALSE, result |-> None]

Init ==
  /\ rows = [r \in Runs |-> NoRun] /\ daemon = FALSE /\ sent = {} /\ reloads = 0
  /\ cl \in [Clients -> {Command(a, t, b) : a \in Answers, t \in BOOLEAN, b \in BOOLEAN}]

nonInteractive(c) == cl[c].batch \/ ~cl[c].tty
Step(c, from, new) == cl[c].pc = from /\ cl' = [cl EXCEPT ![c] = new]
End(c, how) == [cl[c] EXCEPT !.pc = "exit", !.result = how]

-----------------------------------------------------------------------------
(* The daemon's side *)

Fresh(r) == \E i \in DOMAIN RunIds :
              r = RunIds[i] /\ i = Cardinality({q \in Runs : rows[q].status # "none"}) + 1
Started(r, of, input) == [rows EXCEPT ![r] = [NoRun EXCEPT !.status = "running", !.of = of, !.input = input]]
\* ResumeRun: the row is claimed and its continuation fired.
ResumeRun(r, q, input) ==
  /\ Fresh(q) /\ rows[r].status = "suspended"
  /\ rows' = [Started(q, r, input) EXCEPT ![r].status = "resumed"]
\* handleResume: the input is judged by the row's form, whatever the command fetched.
Accepts(r, input) == rows[r].status = "suspended" /\ Valid(rows[r].form, input)
handleResume(r, q, input) == Accepts(r, input) /\ ResumeRun(r, q, input)

\* A run's body suspends or ends.
Body(r) ==
  /\ rows[r].status = "running"
  /\ \/ \E f \in Forms : rows' = [rows EXCEPT ![r].status = "suspended", ![r].form = f]
     \/ \E s \in {"success", "failure"} : rows' = [rows EXCEPT ![r].status = s]
  /\ UNCHANGED <<daemon, cl, sent, reloads>>
\* The sweep expires a suspended run; a run is killed from elsewhere.
Cancelled(r) ==
  /\ rows[r].status \in {"running", "suspended"}
  /\ rows' = [rows EXCEPT ![r].status = "cancelled"]
  /\ UNCHANGED <<daemon, cl, sent, reloads>>
\* The web UI resumes it.
OtherResume(r, q) ==
  /\ \E f \in SUBSET rows[r].form.fields : handleResume(r, q, f)
  /\ UNCHANGED <<daemon, cl, sent, reloads>>
Reload ==
  /\ reloads < MaxReloads /\ reloads' = reloads + 1 /\ daemon' = ~daemon
  /\ UNCHANGED <<rows, cl, sent>>

-----------------------------------------------------------------------------
(* The command *)

\* cmdRun: cli.run fires the task and waits for it to settle.
Run(c, r) ==
  /\ Step(c, "start", [cl[c] EXCEPT !.pc = "settle", !.run = r]) /\ Fresh(r)
  /\ rows' = Started(r, None, {}) /\ UNCHANGED <<daemon, sent, reloads>>
Engages(c) == ~nonInteractive(c) \/ cl[c].pool # {}
Settled(c) ==
  /\ cl[c].pc = "settle" /\ rows[cl[c].run].status # "running"
  /\ Step(c, "settle", IF rows[cl[c].run].status = "suspended" /\ Engages(c)
                         THEN [cl[c] EXCEPT !.pc = "get"] ELSE End(c, "shown"))
  /\ UNCHANGED <<rows, daemon, sent, reloads>>
\* cmdResume of some suspended run: the follow loop, or one shot with fields on the line.
Resume(c) ==
  \E r \in Runs :
    /\ rows[r].status # "none" /\ Engages(c)
    /\ Step(c, "start", [cl[c] EXCEPT !.pc = "get", !.run = r])
    /\ UNCHANGED <<rows, daemon, sent, reloads>>
OneShot(c) ==
  \E r \in Runs :
    /\ cl[c].pc = "start" /\ cl[c].pool = {} /\ rows[r].status # "none"
    /\ \/ \E q \in Runs, f \in SUBSET rows[r].form.fields :
            handleResume(r, q, f) /\ cl' = [cl EXCEPT ![c] = [End(c, "one-shot") EXCEPT !.run = r]]
       \/ cl' = [cl EXCEPT ![c] = End(c, "error")] /\ UNCHANGED rows
    /\ UNCHANGED <<daemon, sent, reloads>>

\* ResumeGet: the form, and whether the task is a daemon task.
ResumeGet(c) ==
  LET r == cl[c].run
  IN /\ cl[c].pc = "get"
     /\ Step(c, "get", IF rows[r].status = "suspended"
                         THEN [cl[c] EXCEPT !.pc = "collect", !.form = rows[r].form, !.daemon = daemon]
                         ELSE End(c, "error"))
     /\ UNCHANGED <<rows, daemon, sent, reloads>>

\* collectStepInput: the answers for this form leave the pool, whatever comes of it.
Take(c) == cl[c].pool \ cl[c].form.fields
Submit(c, input, asked) == [cl[c] EXCEPT !.pc = "submit", !.input = input, !.asked = asked,
                                         !.pool = Take(c), !.pre = cl[c].pool \cap cl[c].form.fields]
Collect(c) ==
  LET form == cl[c].form
      pre == cl[c].pool \cap form.fields
      missing == missingRequired(form, pre)
      full == pre # {} /\ pre = form.fields
      Checked(input, asked) == IF Valid(form, input) THEN Submit(c, input, asked) ELSE End(c, "error")
  IN /\ \/ /\ missing = {} /\ (nonInteractive(c) \/ full)
           /\ Step(c, "collect", Checked(pre, FALSE))
        \/ /\ missing # {} /\ nonInteractive(c)
           /\ Step(c, "collect", End(c, "error"))
        \* A form without fields is confirmed; the end of the input is no consent.
        \/ /\ ~nonInteractive(c) /\ form.fields = {}
           /\ \/ Step(c, "collect", Checked({}, TRUE))
              \/ Valid(form, {}) /\ Step(c, "collect", End(c, "shown"))
        \* The other fields are asked for; the same refused input twice gives up.
        \/ /\ ~nonInteractive(c) /\ form.fields # {} /\ ~(missing = {} /\ full)
           /\ \E f \in SUBSET (form.fields \ pre) : Step(c, "collect", Checked(pre \cup f, TRUE))
     /\ UNCHANGED <<rows, daemon, sent, reloads>>

\* Resume: cli.resume; a daemon task's continuation is not waited for.
SubmitInput(c, q) ==
  LET r == cl[c].run
  IN /\ Step(c, "submit", IF cl[c].daemon THEN [End(c, "daemon") EXCEPT !.run = q]
                          ELSE [cl[c] EXCEPT !.pc = "wait", !.run = q])
     /\ handleResume(r, q, cl[c].input)
     /\ sent' = sent \cup {[by |-> c, run |-> r, pre |-> cl[c].pre, asked |-> cl[c].asked]}
     /\ UNCHANGED <<daemon, reloads>>
\* Refused: resumed by another, expired, the input invalid, or the task awaits approval.
SubmitRefused(c) ==
  /\ Step(c, "submit", End(c, "error"))
  /\ UNCHANGED <<rows, daemon, sent, reloads>>

\* cli.run.wait: a daemon task's run is answered at once, as running.
HandleRunWait(c) ==
  /\ Step(c, "wait", IF daemon THEN End(c, "shown") ELSE [cl[c] EXCEPT !.pc = "parked"])
  /\ UNCHANGED <<rows, daemon, sent, reloads>>
Waited(c) ==
  LET s == rows[cl[c].run].status
  IN /\ cl[c].pc = "parked" /\ s # "running"
     /\ Step(c, "parked", IF s = "suspended" THEN [cl[c] EXCEPT !.pc = "get"]
                          ELSE End(c, IF s = "failure" THEN "failure" ELSE "ended"))
     /\ UNCHANGED <<rows, daemon, sent, reloads>>
KilledFault(r) == rows
\* Ctrl-C during the wait: the run is killed over a connection of its own, as the loop that
\* answers this command's is in cli.run.wait.
Killed(r) == IF rows[r].status = "running" THEN [rows EXCEPT ![r].status = "cancelled"] ELSE rows
Interrupt(c) ==
  /\ cl[c].tty /\ cl[c].pc \in {"wait", "parked"}
  /\ cl' = [cl EXCEPT ![c] = End(c, "interrupted")]
  /\ rows' = Killed(cl[c].run) /\ UNCHANGED <<daemon, sent, reloads>>

Next ==
  \/ Reload
  \/ \E r \in Runs : Body(r) \/ Cancelled(r) \/ \E q \in Runs : OtherResume(r, q)
  \/ \E c \in Clients :
       \/ Settled(c) \/ Resume(c) \/ OneShot(c) \/ ResumeGet(c) \/ Collect(c) \/ SubmitRefused(c)
       \/ HandleRunWait(c) \/ Waited(c) \/ Interrupt(c)
       \/ \E r \in Runs : Run(c, r) \/ SubmitInput(c, r)

Spec == Init /\ [][Next]_vars

-----------------------------------------------------------------------------
(* Properties *)

TypeOK ==
  /\ \A r \in Runs :
       rows[r].status \in {"none", "running", "suspended", "resumed", "success", "failure", "cancelled"}
  /\ daemon \in BOOLEAN
  /\ \A c \in Clients :
       cl[c].pc \in {"start", "settle", "get", "collect", "submit", "wait", "parked", "exit"}

Continuations(r) == {q \in Runs : rows[q].of = r}

\* Whoever resumes it, a run has one continuation, made with an input its form accepts
\* (handleResume; the command's own check may be of no use).
ResumedOnce ==
  \A r \in Runs : /\ Cardinality(Continuations(r)) <= 1
                  /\ \A q \in Continuations(r) : rows[r].status = "resumed" /\ Valid(rows[r].form, rows[q].input)

\* An answer given on the command line goes into one step, and a step that was not all
\* answered there was asked about, on a terminal without --non-interactive
\* (prefillPool.take, collectStepInput).
ConsentIsGiven ==
  /\ \A x, y \in sent : x.by = y.by /\ x.pre \cap y.pre # {} => x = y
  /\ \A x \in sent : ~nonInteractive(x.by) => x.asked \/ (x.pre # {} /\ x.pre = rows[x.run].form.fields)

\* A command that follows a run shows the end of a run it resumed to itself, step by step
\* from the first, and one that was interrupted leaves no run of its own running (follow,
\* waitRunInterruptible).
FollowsItsOwn ==
  \A c \in Clients :
    /\ cl[c].pc = "parked" \/ cl[c].result \in {"ended", "failure", "interrupted"} =>
         \E x \in sent : x.by = c /\ x.run = rows[cl[c].run].of
    /\ cl[c].result \in {"ended", "failure", "interrupted"} => rows[cl[c].run].status # "running"
================================================================================
