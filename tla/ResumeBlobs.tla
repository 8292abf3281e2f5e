------------------------------ MODULE ResumeBlobs ------------------------------
(***************************************************************************)
(* The state of suspended runs: what suspendRun writes to the run's row    *)
(* and, when the state is large, to the storage task (ResumeStateStore);   *)
(* ResumeRun, which reads it back and frees it; the deadline sweep; and    *)
(* the retention sweep, a task that lists expired blobs and deletes them   *)
(* one by one over IPC.                                                    *)
(*                                                                         *)
(* A blob is stored under a key made from the run's ID, so `blobs` is a    *)
(* set of runs.  A call of the storage task can fail with an error, or     *)
(* answer ok:false, or work.                                               *)
(***************************************************************************)
EXTENDS Naturals, FiniteSets

CONSTANTS
  Runs, Clients,        \* run IDs and callers of ResumeRun
  None,
  MaxFaults             \* a bound on failed calls and crashes

VARIABLES
  rows,     \* run -> its row, as far as suspension goes
  blobs,    \* runs whose blob the storage task holds
  body,     \* run -> what its goroutine is doing, and its ctx.params value
  calls,    \* client -> its call of ResumeRun
  cleaner,  \* the retention sweep
  granted,  \* whether the task's permissions.env still grants the secret behind its param
  orphans,  \* runs whose blob a fault left behind
  empty,    \* continuations that were started without the state of their run
  faults

vars == <<rows, blobs, body, calls, cleaner, granted, orphans, empty, faults>>

Statuses == {"running", "suspended", "resumed", "ended"}
NoRow == [status |-> "none", inline |-> FALSE, key |-> FALSE, token |-> FALSE, param |-> None, root |-> None]
NoCall == [pc |-> "idle", run |-> None, row |-> NoRow, param |-> None]
Idle == [pc |-> "idle", list |-> {}, run |-> None]
Secret == "s1"
Mask == "[redacted]"

Init ==
  /\ rows = [r \in Runs |-> NoRow] /\ blobs = {}
  /\ body = [r \in Runs |-> [pc |-> "none", param |-> None]]
  /\ calls = [c \in Clients |-> NoCall] /\ cleaner = Idle
  /\ granted = TRUE /\ orphans = {} /\ empty = {} /\ faults = 0

Fault == faults < MaxFaults /\ faults' = faults + 1

-----------------------------------------------------------------------------
(* A run *)

\* StartRunWithID: a child inherits the root of its parent.
Insert(r, parent) ==
  [rows EXCEPT ![r] = [NoRow EXCEPT !.status = "running",
                                    !.root = IF parent = None THEN r ELSE rows[parent].root]]

Fire(r) ==
  /\ rows[r].status = "none"
  /\ rows' = Insert(r, None)
  /\ body' = [body EXCEPT ![r] = [pc |-> "runs", param |-> Secret]]
  /\ UNCHANGED <<blobs, calls, cleaner, granted, orphans, empty, faults>>

\* The body ends without a suspend.
Ends(r) ==
  /\ body[r].pc = "runs"
  /\ rows' = [rows EXCEPT ![r].status = "ended"]
  /\ body' = [body EXCEPT ![r].pc = "none"]
  /\ UNCHANGED <<blobs, calls, cleaner, granted, orphans, empty, faults>>

\* redactSecretBackedParams: a param that equals the secret the task may read is masked.
Carried(v) == IF granted /\ v = Secret THEN Mask ELSE v

\* suspendRun, small state: one UPDATE.
SuspendInline(r) ==
  /\ body[r].pc = "runs"
  /\ rows' = [rows EXCEPT ![r].status = "suspended", ![r].inline = TRUE, ![r].token = TRUE,
                          ![r].param = Carried(body[r].param)]
  /\ body' = [body EXCEPT ![r].pc = "none"]
  /\ UNCHANGED <<blobs, calls, cleaner, granted, orphans, empty, faults>>

\* Large state: the blob first, then the row.
OffloadFault(r) ==
  /\ body[r].pc = "runs"
  /\ \/ blobs' = blobs \cup {r} /\ UNCHANGED faults
     \/ Fault /\ UNCHANGED blobs
  /\ body' = [body EXCEPT ![r] = [pc |-> "stored", param |-> Carried(@.param)]]
  /\ UNCHANGED <<rows, calls, cleaner, granted, orphans, empty>>

\* A put that failed or answered ok:false is cleaned up, and the run fails; the
\* clean-up can fail as well.
Offload(r) ==
  /\ body[r].pc = "runs"
  /\ \/ /\ blobs' = blobs \cup {r}
        /\ body' = [body EXCEPT ![r] = [pc |-> "stored", param |-> Carried(@.param)]]
        /\ UNCHANGED <<orphans, faults>>
     \/ /\ Fault
        /\ \/ UNCHANGED <<blobs, orphans>>
           \/ blobs' = blobs \cup {r} /\ orphans' = orphans \cup {r}
        /\ body' = [body EXCEPT ![r].pc = "fails"]
  /\ UNCHANGED <<rows, calls, cleaner, granted, empty>>

\* SuspendRun; when the UPDATE fails the blob is deleted again.
SuspendRow(r) ==
  /\ body[r].pc = "stored"
  /\ \/ /\ rows' = [rows EXCEPT ![r].status = "suspended", ![r].key = TRUE, ![r].token = TRUE,
                                ![r].param = body[r].param]
        /\ body' = [body EXCEPT ![r].pc = "none"]
        /\ UNCHANGED faults
     \/ /\ Fault
        /\ body' = [body EXCEPT ![r].pc = "unstore"]
        /\ UNCHANGED rows
  /\ UNCHANGED <<blobs, calls, cleaner, granted, orphans, empty>>
Unstore(r) ==
  /\ body[r].pc = "unstore"
  /\ \/ blobs' = blobs \ {r} /\ UNCHANGED <<orphans, faults>>
     \/ Fault /\ orphans' = orphans \cup {r} /\ UNCHANGED blobs
  /\ body' = [body EXCEPT ![r].pc = "fails"]
  /\ UNCHANGED <<rows, calls, cleaner, granted, empty>>
SuspendFails(r) ==
  /\ body[r].pc = "fails"
  /\ rows' = [rows EXCEPT ![r].status = "ended"]
  /\ body' = [body EXCEPT ![r].pc = "none"]
  /\ UNCHANGED <<blobs, calls, cleaner, granted, orphans, empty, faults>>

-----------------------------------------------------------------------------
(* ResumeRun.  Whatever can fail comes before the token is consumed. *)

To(c, pc) == [calls EXCEPT ![c].pc = pc]

\* GetRunByResumeToken and restoreSecretBackedParams: a masked param whose grant is
\* gone ends the call, and the run stays suspended.
Find(c, r) ==
  /\ calls[c].pc = "idle"
  /\ rows[r].token /\ rows[r].status = "suspended"
  /\ rows[r].param = Mask => granted
  /\ calls' = [calls EXCEPT ![c] = [pc |-> IF rows[r].key THEN "fetch" ELSE "mark", run |-> r, row |-> rows[r],
                                    param |-> IF rows[r].param = Mask THEN Secret ELSE rows[r].param]]
  /\ UNCHANGED <<rows, blobs, body, cleaner, granted, orphans, empty, faults>>

\* ResumeStateStore.Fetch: a blob that is gone ends the call.
Fetch(c) ==
  /\ calls[c].pc = "fetch"
  /\ \/ calls[c].run \in blobs /\ calls' = To(c, "mark") /\ UNCHANGED faults
     \/ calls[c].run \notin blobs /\ calls' = [calls EXCEPT ![c] = NoCall] /\ UNCHANGED faults
     \/ Fault /\ calls' = [calls EXCEPT ![c] = NoCall]
  /\ UNCHANGED <<rows, blobs, body, cleaner, granted, orphans, empty>>

\* MarkRunResumed, guarded by the status: one of two resumes wins.
Mark(c) ==
  LET r == calls[c].run IN
  /\ calls[c].pc = "mark"
  /\ IF rows[r].status = "suspended"
     THEN rows' = [rows EXCEPT ![r].status = "resumed"] /\ calls' = To(c, "spawn")
     ELSE calls' = [calls EXCEPT ![c] = NoCall] /\ UNCHANGED rows
  /\ UNCHANGED <<blobs, body, cleaner, granted, orphans, empty, faults>>

\* The continuation is fired, or refused (a shutdown, the fire guard).
Spawn(c) ==
  LET k == calls[c] IN
  /\ k.pc = "spawn"
  /\ \/ \E n \in Runs :
          /\ rows[n].status = "none"
          /\ rows' = Insert(n, k.run)
          /\ body' = [body EXCEPT ![n] = [pc |-> "runs", param |-> k.param]]
          /\ empty' = IF k.row.key \/ k.row.inline THEN empty ELSE empty \cup {n}
          /\ calls' = IF k.row.key THEN To(c, "free") ELSE [calls EXCEPT ![c] = NoCall]
     \/ /\ calls' = [calls EXCEPT ![c] = NoCall]
        /\ UNCHANGED <<rows, body, empty>>
  /\ UNCHANGED <<blobs, cleaner, granted, orphans, faults>>

\* The eager delete, then the columns; what fails is left to the retention sweep.
Free(c) ==
  /\ calls[c].pc = "free"
  /\ \/ blobs' = blobs \ {calls[c].run} /\ calls' = To(c, "clear") /\ UNCHANGED faults
     \/ Fault /\ calls' = [calls EXCEPT ![c] = NoCall] /\ UNCHANGED blobs
  /\ UNCHANGED <<rows, body, cleaner, granted, orphans, empty>>
ClearAfterResume(c) ==
  /\ calls[c].pc = "clear"
  /\ rows' = [rows EXCEPT ![calls[c].run].key = FALSE]
  /\ calls' = [calls EXCEPT ![c] = NoCall]
  /\ UNCHANGED <<blobs, body, cleaner, granted, orphans, empty, faults>>

-----------------------------------------------------------------------------
(* Retention *)

\* The deadline has passed: the row leaves `suspended` and keeps its blob.
Expire(r) ==
  /\ rows[r].status = "suspended"
  /\ rows' = [rows EXCEPT ![r].status = "ended"]
  /\ UNCHANGED <<blobs, body, calls, cleaner, granted, orphans, empty, faults>>

\* CancelSuspendedRun, for a stage of a pipeline: the token goes as well.
CancelSuspended(r) ==
  /\ rows[r].status = "suspended"
  /\ rows' = [rows EXCEPT ![r].status = "ended", ![r].token = FALSE]
  /\ UNCHANGED <<blobs, body, calls, cleaner, granted, orphans, empty, faults>>

\* list_expired_resume_state: of the rows past retention, those that are not suspended.
List ==
  /\ cleaner.pc = "idle"
  /\ \E old \in SUBSET {r \in Runs : rows[r].key /\ rows[r].status # "suspended"} :
       old # {} /\ cleaner' = [pc |-> "pick", list |-> old, run |-> None]
  /\ UNCHANGED <<rows, blobs, body, calls, granted, orphans, empty, faults>>

\* delete_resume_state: GetRun and its checks, the blob, the columns.
Pick ==
  /\ cleaner.pc = "pick"
  /\ IF cleaner.list = {} THEN cleaner' = Idle
     ELSE \E r \in cleaner.list :
            cleaner' = [pc |-> IF rows[r].status = "suspended" THEN "pick"
                               ELSE IF rows[r].key THEN "delete" ELSE "clear",
                        list |-> cleaner.list \ {r}, run |-> r]
  /\ UNCHANGED <<rows, blobs, body, calls, granted, orphans, empty, faults>>
DeleteBlob ==
  /\ cleaner.pc = "delete"
  /\ \/ blobs' = blobs \ {cleaner.run} /\ cleaner' = [cleaner EXCEPT !.pc = "clear"] /\ UNCHANGED faults
     \/ Fault /\ cleaner' = [cleaner EXCEPT !.pc = "pick"] /\ UNCHANGED blobs
  /\ UNCHANGED <<rows, body, calls, granted, orphans, empty>>
ClearColumns ==
  /\ cleaner.pc = "clear"
  /\ rows' = [rows EXCEPT ![cleaner.run].key = FALSE]
  /\ cleaner' = [cleaner EXCEPT !.pc = "pick"]
  /\ UNCHANGED <<blobs, body, calls, granted, orphans, empty, faults>>

-----------------------------------------------------------------------------
\* The task's permissions.env no longer grant the secret.
Revoke == granted /\ granted' = FALSE
          /\ UNCHANGED <<rows, blobs, body, calls, cleaner, orphans, empty, faults>>

\* A crash and the next start: goroutines and calls are gone, setupRegistry cancels
\* the running rows (CleanupStaleRuns) and the suspensions whose deadline lapsed.
Restart ==
  /\ Fault
  /\ \E lapsed \in SUBSET {r \in Runs : rows[r].status = "suspended"} :
       rows' = [r \in Runs |-> IF rows[r].status = "running" \/ r \in lapsed
                               THEN [rows[r] EXCEPT !.status = "ended"] ELSE rows[r]]
  /\ orphans' = orphans \cup {r \in Runs : body[r].pc \in {"stored", "unstore"}}
  /\ body' = [r \in Runs |-> [body[r] EXCEPT !.pc = "none"]]
  /\ calls' = [c \in Clients |-> NoCall] /\ cleaner' = Idle
  /\ UNCHANGED <<blobs, granted, empty>>

Next ==
  \/ \E r \in Runs : \/ Fire(r) \/ Ends(r) \/ SuspendInline(r) \/ Offload(r) \/ SuspendRow(r) \/ Unstore(r)
                     \/ SuspendFails(r) \/ Expire(r) \/ CancelSuspended(r)
  \/ \E c \in Clients : \/ \E r \in Runs : Find(c, r)
                        \/ Fetch(c) \/ Mark(c) \/ Spawn(c) \/ Free(c) \/ ClearAfterResume(c)
  \/ List \/ Pick \/ DeleteBlob \/ ClearColumns \/ Revoke \/ Restart

Spec == Init /\ [][Next]_vars

-----------------------------------------------------------------------------
\* A run that waits for an answer has its state: in its row, or in a blob that no sweep
\* and no other resume takes away, and a continuation is never started without it.
SuspendedKeepsItsState ==
  /\ \A r \in Runs : rows[r].status = "suspended" => rows[r].inline \/ (rows[r].key /\ r \in blobs)
  /\ empty = {}

\* A blob can always be found by a later sweep: a row names it, or the goroutine that
\* wrote it has not come to the row yet.  Left out are blobs a fault left behind (the
\* clean-up of a failed write failed too, or the daemon died before the row).
BlobsAreFound == \A r \in blobs \ orphans : rows[r].key \/ body[r].pc \in {"stored", "unstore"}

\* The placeholder of a masked param never reaches a body, and the runs of one
\* conversation have one root.
ContinuesAsItself ==
  \A r \in Runs : /\ body[r].pc = "runs" => body[r].param # Mask
                  /\ rows[r].root # None => rows[rows[r].root].root = rows[r].root

TypeOK ==
  /\ \A r \in Runs : rows[r].status \in Statuses \cup {"none"} /\ rows[r].root \in Runs \cup {None}
  /\ blobs \subseteq Runs /\ orphans \subseteq Runs /\ empty \subseteq Runs
  /\ cleaner.list \subseteq Runs /\ granted \in BOOLEAN
=============================================================================
