------------------------------- MODULE RunInputs -------------------------------
(***************************************************************************)
(* The persisted inputs of runs: persistRunInput stores what fired a run   *)
(* with the storage task (InputStore) and notes the key on the row;        *)
(* replays and get_input read it back; the retention sweep lists expired   *)
(* rows and deletes them in batches, the blobs first and the columns after *)
(* them, chunk by chunk.  An auto-fix pins an input while it works on it.  *)
(*                                                                         *)
(* The storage task can fail with an error, or answer ok:false, which      *)
(* InputStore takes for success.                                           *)
(***************************************************************************)
EXTENDS Naturals, FiniteSets

CONSTANTS Runs, Batches,  \* run IDs; callers of delete_input and delete_inputs
          MaxFaults       \* a bound on failed calls and crashes

VARIABLES
  rows,      \* run -> [status, key, pinned, parent]
  inputs,    \* runs whose blob the storage task holds
  body,      \* run -> how far its goroutine is
  batch,     \* caller -> its call: the runs to delete, those to clear
  reads,     \* reads in progress: [run, pc] of Replay and get_input
  swallowed, \* runs for which an ok:false was taken for success
  orphans,   \* runs whose blob was written by a call that failed, or whose daemon died
  torn,      \* runs whose blob was deleted by a call that then failed or died
  faults

vars == <<rows, inputs, body, batch, reads, swallowed, orphans, torn, faults>>

NoRow == [status |-> "none", key |-> FALSE, pinned |-> FALSE]
Idle == [pc |-> "idle", runs |-> {}, clear |-> {}]

Init ==
  /\ rows = [r \in Runs |-> NoRow] /\ inputs = {} /\ body = [r \in Runs |-> "none"]
  /\ batch = [b \in Batches |-> Idle] /\ reads = {}
  /\ swallowed = {} /\ orphans = {} /\ torn = {} /\ faults = 0

Fault == faults < MaxFaults /\ faults' = faults + 1
Body(r, pc) == body' = [body EXCEPT ![r] = pc]
Keyed(rs, on) == [r \in Runs |-> IF r \in rs THEN [rows[r] EXCEPT !.key = on] ELSE rows[r]]

-----------------------------------------------------------------------------
(* A run and its input *)

Fire(r) ==
  /\ rows[r].status = "none"
  /\ rows' = [rows EXCEPT ![r].status = "running"]
  /\ Body(r, "persist")
  /\ UNCHANGED <<inputs, batch, reads, swallowed, orphans, torn, faults>>

\* InputStore.Persist: marshal, encrypt, put.  An error ends it without a key.
Persist(r) ==
  /\ body[r] = "persist"
  /\ \/ inputs' = inputs \cup {r} /\ Body(r, "set") /\ UNCHANGED <<swallowed, orphans, faults>>
     \/ Fault /\ swallowed' = swallowed \cup {r} /\ Body(r, "set") /\ UNCHANGED <<inputs, orphans>>
     \/ Fault /\ inputs' = inputs \cup {r} /\ orphans' = orphans \cup {r} /\ Body(r, "runs")
        /\ UNCHANGED swallowed
     \/ Body(r, "runs") /\ UNCHANGED <<inputs, swallowed, orphans, faults>>  \* not registered yet, disabled
  /\ UNCHANGED <<rows, batch, reads, torn>>

\* SetRunInput.
SetKey(r) ==
  /\ body[r] = "set"
  /\ Body(r, "runs")
  /\ \/ rows' = [rows EXCEPT ![r].key = TRUE] /\ UNCHANGED <<orphans, faults>>
     \/ Fault /\ orphans' = orphans \cup {r} /\ UNCHANGED rows
  /\ UNCHANGED <<inputs, batch, reads, swallowed, torn>>

Ends(r) ==
  /\ body[r] = "runs"
  /\ rows' = [rows EXCEPT ![r].status = "ended"]
  /\ Body(r, "none")
  /\ UNCHANGED <<inputs, batch, reads, swallowed, orphans, torn, faults>>

\* Replay and get_input: GetRun, then Fetch, and Replay fires a run of its own.
Read(r) ==
  /\ reads = {} /\ rows[r].key  \* one reader at a time
  /\ reads' = reads \cup {r}
  /\ UNCHANGED <<rows, inputs, body, batch, swallowed, orphans, torn, faults>>
Replay(r) ==
  /\ r \in reads
  /\ reads' = reads \ {r}
  /\ \/ /\ r \in inputs
        /\ \E n \in Runs : /\ rows[n].status = "none"
                           /\ rows' = [rows EXCEPT ![n].status = "running"]
                           /\ Body(n, "persist")
     \/ UNCHANGED <<rows, body>>  \* get_input, a refused fire, an input that is gone
  /\ UNCHANGED <<inputs, batch, swallowed, orphans, torn, faults>>

\* An auto-fix pins the input of a run that failed, and unpins it.
Pin(r) ==
  /\ rows[r].status = "ended"
  /\ rows' = [rows EXCEPT ![r].pinned = ~@]
  /\ UNCHANGED <<inputs, body, batch, reads, swallowed, orphans, torn, faults>>

-----------------------------------------------------------------------------
(* Retention *)

\* list_expired: rows past retention that have a key and no pin.
List(b) ==
  /\ batch[b].pc = "idle"
  /\ \E old \in (SUBSET {r \in Runs : rows[r].key /\ ~rows[r].pinned}) \ {{}} :
       batch' = [batch EXCEPT ![b] = [pc |-> "keys", runs |-> old, clear |-> old]]
  /\ UNCHANGED <<rows, inputs, body, reads, swallowed, orphans, torn, faults>>

\* GetRunInputKeys: only a row that still has a key has a blob to delete.
Keys(b) ==
  /\ batch[b].pc = "keys"
  /\ batch' = [batch EXCEPT ![b].pc = "delete", ![b].runs = {r \in @ : rows[r].key}]
  /\ UNCHANGED <<rows, inputs, body, reads, swallowed, orphans, torn, faults>>

\* A row whose blob could not be deleted keeps its key, so that the next sweep finds it.
DeleteOneFault(b) ==
  LET c == batch[b] IN
  /\ c.pc = "delete"
  /\ \E r \in c.runs :
       /\ batch' = [batch EXCEPT ![b].runs = @ \ {r}]
       /\ (inputs' = inputs \ {r} /\ UNCHANGED faults) \/ (Fault /\ UNCHANGED inputs)
  /\ UNCHANGED <<rows, body, reads, swallowed, orphans, torn>>
DeleteOne(b) ==
  LET c == batch[b] IN
  /\ c.pc = "delete"
  /\ \E r \in c.runs :
       \/ /\ inputs' = inputs \ {r} /\ batch' = [batch EXCEPT ![b].runs = @ \ {r}]
          /\ UNCHANGED <<swallowed, faults>>
       \/ /\ Fault /\ swallowed' = swallowed \cup {r} /\ batch' = [batch EXCEPT ![b].runs = @ \ {r}]
          /\ UNCHANGED inputs
       \/ /\ Fault /\ batch' = [batch EXCEPT ![b].runs = @ \ {r}, ![b].clear = @ \ {r}]
          /\ UNCHANGED <<inputs, swallowed>>
  /\ UNCHANGED <<rows, body, reads, orphans, torn>>
Deleted(b) ==
  /\ batch[b].pc = "delete" /\ batch[b].runs = {}
  /\ batch' = [batch EXCEPT ![b].pc = "clear"]
  /\ UNCHANGED <<rows, inputs, body, reads, swallowed, orphans, torn, faults>>

\* ClearRunInputs, one chunk after the other; a chunk that fails does not stop the rest.
ClearChunk(b) ==
  LET c == batch[b] IN
  /\ c.pc = "clear"
  /\ IF c.clear = {} THEN batch' = [batch EXCEPT ![b] = Idle] /\ UNCHANGED <<rows, torn, faults>>
     ELSE \E r \in c.clear :
            /\ batch' = [batch EXCEPT ![b].clear = @ \ {r}]
            /\ \/ rows' = Keyed({r}, FALSE) /\ UNCHANGED <<torn, faults>>
               \/ Fault /\ torn' = torn \cup {r} /\ UNCHANGED rows
  /\ UNCHANGED <<inputs, body, reads, swallowed, orphans>>

\* A crash and the next start: running rows are cancelled, pins of runs that are over
\* are let go (CleanupStaleRuns, SweepStalePins).
Restart ==
  /\ Fault
  /\ rows' = [r \in Runs |-> IF rows[r].status = "none" THEN rows[r]
                             ELSE [rows[r] EXCEPT !.status = "ended", !.pinned = FALSE]]
  /\ orphans' = orphans \cup {r \in Runs : body[r] = "set"}
  /\ torn' = torn \cup UNION {batch[b].clear \ batch[b].runs : b \in Batches}
  /\ body' = [r \in Runs |-> "none"] /\ batch' = [b \in Batches |-> Idle] /\ reads' = {}
  /\ UNCHANGED <<inputs, swallowed>>

Next ==
  \/ \E r \in Runs : Fire(r) \/ Persist(r) \/ SetKey(r) \/ Ends(r) \/ Read(r) \/ Replay(r) \/ Pin(r)
  \/ \E b \in Batches : List(b) \/ Keys(b) \/ DeleteOne(b) \/ Deleted(b) \/ ClearChunk(b)
  \/ Restart

Spec == Init /\ [][Next]_vars

-----------------------------------------------------------------------------
\* A blob that is stored can be listed by the next sweep, whatever failed before: its
\* row keeps the key until the blob is gone.
InputsAreFound == \A r \in inputs \ (orphans \cup swallowed) : rows[r].key \/ body[r] = "set"

\* A row that names an input has one, except while a batch is between the blob and the
\* column, or after it failed there.
KeysAreBacked ==
  \A r \in Runs \ (torn \cup swallowed) :
    rows[r].key /\ r \notin inputs => \E b \in Batches : r \in batch[b].clear \ batch[b].runs

\* The retention sweep never takes a failed delete for a done one ("Deliberately does
\* NOT clear the row's columns on a failed blob delete"): no input is stored that no row
\* names.  A storage task that answers ok:false breaks it.
NoInputLeaks == \A r \in inputs \ orphans : rows[r].key \/ body[r] = "set"

TypeOK ==
  /\ \A r \in Runs : rows[r].status \in {"none", "running", "ended"} /\ body[r] \in {"none", "persist", "set", "runs"}
  /\ inputs \subseteq Runs /\ reads \subseteq Runs
  /\ \A b \in Batches : batch[b].runs \subseteq Runs /\ batch[b].clear \subseteq Runs
=============================================================================
