---------------------------- MODULE SlotOwnership ----------------------------
(***************************************************************************)
(* What the daemon slots of pkg/trigger promise, with no handles, locks or *)
(* entries: each key is free, or claimed by a start in flight, or held by  *)
(* one run, or parked on one suspended run.  Each run gets a key at most   *)
(* once in its life, and a held key changes hands only by a hand-over.     *)
(* DaemonSlots implements this specification.                              *)
(***************************************************************************)
CONSTANTS Keys, RunIDs

Phases == {"free", "claimed", "held", "parked"}

VARIABLES
  phase,    \* key -> what the key is doing
  holder,   \* key -> the set of the one run that holds it, or {}
  known     \* runs that hold or once held a key

ownVars == <<phase, holder, known>>

OwnInit ==
  /\ phase = [k \in Keys |-> "free"]
  /\ holder = [k \in Keys |-> {}]
  /\ known = {}

\* A start reserves a free key before it has a run.
Reserve(k) ==
  /\ phase[k] = "free"
  /\ phase' = [phase EXCEPT ![k] = "claimed"]
  /\ UNCHANGED <<holder, known>>

\* The start binds its reservation to the run it is about to fire; a
\* continuation takes a key over from the suspended run it continues.
Bind(k, r) ==
  /\ phase[k] # "free"
  /\ r \notin known
  /\ phase' = [phase EXCEPT ![k] = "held"]
  /\ holder' = [holder EXCEPT ![k] = {r}]
  /\ known' = known \cup {r}

\* A suspended body keeps its key.
Suspend(k) ==
  /\ phase[k] \in {"held", "parked"}
  /\ phase' = [phase EXCEPT ![k] = "parked"]
  /\ UNCHANGED <<holder, known>>

\* The holder gives the key back, or an unregistration takes it away.
Free(k) ==
  /\ phase[k] # "free"
  /\ phase' = [phase EXCEPT ![k] = "free"]
  /\ holder' = [holder EXCEPT ![k] = {}]
  /\ UNCHANGED known

OwnNext ==
  \E k \in Keys :
    \/ Reserve(k)
    \/ Suspend(k)
    \/ Free(k)
    \/ \E r \in RunIDs : Bind(k, r)

OwnSpec == OwnInit /\ [][OwnNext]_ownVars
=============================================================================
