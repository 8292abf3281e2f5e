----------------------------- MODULE DaemonSlots -----------------------------
(***************************************************************************)
(* pkg/trigger/daemon_slot.go: the map from a daemon or pipeline key to    *)
(* the entry that represents the one body in flight for it.  Callers work  *)
(* through handles; every operation takes the lock once and re-checks that *)
(* the handle's entry is still the one in the map, so each is one action.  *)
(*                                                                         *)
(* An entry is a pointer: allocated once, by a claim, and never reused.    *)
(* SlotNext lets every caller call every operation at any time, whatever   *)
(* its handle has become; DaemonLifecycle gives the callers' code.         *)
(***************************************************************************)
CONSTANTS
  Keys,      \* slot keys (a daemon task ID or a pipeline ID, each kind apart)
  Entries,   \* slot entries, one per successful claim
  RunIDs,    \* run IDs; the uuid of a fresh run was never bound before
  Callers,   \* goroutines holding a handle
  NoEntry,   \* the nil entry, and the absence of a key from the map
  NoRun      \* the empty run ID

ASSUME SlotAssumption ==
  /\ NoEntry \notin Entries
  /\ NoRun \notin RunIDs

VARIABLES
  m,        \* key -> entry in the map, or NoEntry
  bound,    \* entry -> run it is bound to, or NoRun
  parked,   \* entry -> held by a suspended body
  fate,     \* entry -> "unused" | "mapped" | "released" | "evicted"
  handle,   \* caller -> its daemonSlot handle; entry NoEntry is the zero value
  minted    \* run IDs uuid.New has returned

slotVars == <<m, bound, parked, fate, handle, minted>>

Fates == {"unused", "mapped", "released", "evicted"}
Handles == [key : Keys, entry : Entries \cup {NoEntry}, run : RunIDs \cup {NoRun}]

SlotTypeOK ==
  /\ m \in [Keys -> Entries \cup {NoEntry}]
  /\ bound \in [Entries -> RunIDs \cup {NoRun}]
  /\ parked \in [Entries -> BOOLEAN]
  /\ fate \in [Entries -> Fates]
  /\ handle \in [Callers -> Handles]
  /\ minted \subseteq RunIDs

SlotInit ==
  /\ m = [k \in Keys |-> NoEntry]
  /\ bound = [e \in Entries |-> NoRun]
  /\ parked = [e \in Entries |-> FALSE]
  /\ fate = [e \in Entries |-> "unused"]
  /\ handle \in [Callers -> {h \in Handles : h.entry = NoEntry /\ h.run = NoRun}]
  /\ minted = {}

-----------------------------------------------------------------------------
(* Reads under the lock.                                                   *)

Owned(c) == handle[c].entry # NoEntry /\ m[handle[c].key] = handle[c].entry

BoundTo(k, r) == m[k] # NoEntry /\ r # NoRun /\ bound[m[k]] = r

Evicted(c) == handle[c].entry # NoEntry /\ fate[handle[c].entry] = "evicted"

Current(k) == IF m[k] = NoEntry THEN NoRun ELSE bound[m[k]]

-----------------------------------------------------------------------------
(* Operations.  An operator whose name ends in Fault is a faulty variant of *)
(* the operation that follows it; no action uses it.  It is there to show   *)
(* that a property below fails when the code is wrong in that way.          *)

\* Claims a key that is busy.
ClaimFault(c, k) ==
  /\ \E e \in Entries :
       /\ fate[e] = "unused"
       /\ m' = [m EXCEPT ![k] = e]
       /\ fate' = [fate EXCEPT ![e] = "mapped"]
       /\ handle' = [handle EXCEPT ![c] = [key |-> k, entry |-> e, run |-> NoRun]]
  /\ UNCHANGED <<bound, parked, minted>>

Claim(c, k) ==
  /\ m[k] = NoEntry
  /\ \E e \in Entries :
       /\ fate[e] = "unused"
       /\ m' = [m EXCEPT ![k] = e]
       /\ fate' = [fate EXCEPT ![e] = "mapped"]
       /\ handle' = [handle EXCEPT ![c] = [key |-> k, entry |-> e, run |-> NoRun]]
  /\ UNCHANGED <<bound, parked, minted>>

Holding(c, k, r) ==
  /\ BoundTo(k, r)
  /\ handle' = [handle EXCEPT ![c] = [key |-> k, entry |-> m[k], run |-> r]]
  /\ UNCHANGED <<m, bound, parked, fate, minted>>

\* r is the uuid the caller generated for the run it is about to fire.
Rebind(c, r) ==
  /\ r \in RunIDs \ minted
  /\ minted' = minted \cup {r}
  /\ bound' = [bound EXCEPT ![handle[c].entry] = r]
  /\ parked' = [parked EXCEPT ![handle[c].entry] = FALSE]
  /\ UNCHANGED <<m, fate, handle>>

\* Attaches without re-checking that the entry is still in the map.
AttachFault(c, r) == handle[c].entry # NoEntry /\ Rebind(c, r)

Attach(c, r) == Owned(c) /\ Rebind(c, r)

Adopt(c, r) ==
  /\ handle[c].run # NoRun
  /\ Owned(c)
  /\ bound[handle[c].entry] = handle[c].run
  /\ Rebind(c, r)

\* Parks without re-checking that the entry is still in the map.
ParkFault(c) ==
  /\ handle[c].entry # NoEntry
  /\ bound[handle[c].entry] = handle[c].run
  /\ parked' = [parked EXCEPT ![handle[c].entry] = TRUE]
  /\ UNCHANGED <<m, bound, fate, handle, minted>>

Park(c) ==
  /\ Owned(c)
  /\ bound[handle[c].entry] = handle[c].run
  /\ parked' = [parked EXCEPT ![handle[c].entry] = TRUE]
  /\ UNCHANGED <<m, bound, fate, handle, minted>>

Release(c, r) ==
  /\ Owned(c)
  /\ bound[handle[c].entry] = r
  /\ m' = [m EXCEPT ![handle[c].key] = NoEntry]
  /\ fate' = [fate EXCEPT ![handle[c].entry] = "released"]
  /\ UNCHANGED <<bound, parked, handle, minted>>

\* releaseRun: holding, then release through that handle.  A loss of the entry
\* between the two makes the release fail as if the lookup had failed.
ReleaseRun(k, r) ==
  /\ BoundTo(k, r)
  /\ m' = [m EXCEPT ![k] = NoEntry]
  /\ fate' = [fate EXCEPT ![m[k]] = "released"]
  /\ UNCHANGED <<bound, parked, handle, minted>>

Evict(k) ==
  /\ m[k] # NoEntry
  /\ m' = [m EXCEPT ![k] = NoEntry]
  /\ fate' = [fate EXCEPT ![m[k]] = "evicted"]
  /\ UNCHANGED <<bound, parked, handle, minted>>

\* The handle goes out of the caller's scope.
Discard(c) ==
  /\ handle' = [handle EXCEPT ![c].entry = NoEntry, ![c].run = NoRun]
  /\ UNCHANGED <<m, bound, parked, fate, minted>>

SlotNext ==
  \/ \E k \in Keys :
       \/ Evict(k)
       \/ \E r \in RunIDs : ReleaseRun(k, r)
       \/ \E c \in Callers : Claim(c, k)
       \/ \E c \in Callers, r \in RunIDs : Holding(c, k, r)
  \/ \E c \in Callers :
       \/ Park(c)
       \/ Discard(c)
       \/ \E r \in RunIDs : Attach(c, r) \/ Adopt(c, r)
       \/ \E r \in RunIDs \cup {NoRun} : Release(c, r)

SlotSpec == SlotInit /\ [][SlotNext]_slotVars

-----------------------------------------------------------------------------
(* Properties.                                                             *)

\* An entry is in the map under exactly one key, the key its handles carry,
\* from its claim to its release or eviction.
EntriesMapped ==
  /\ \A k \in Keys : m[k] # NoEntry => fate[m[k]] = "mapped"
  /\ \A e \in Entries : fate[e] = "mapped" => \E k \in Keys : m[k] = e
  /\ \A k1, k2 \in Keys : m[k1] = m[k2] /\ m[k1] # NoEntry => k1 = k2
  /\ \A c \in Callers : handle[c].entry # NoEntry =>
       /\ fate[handle[c].entry] # "unused"
       /\ \A k \in Keys : m[k] = handle[c].entry => k = handle[c].key

\* An unused entry is blank, and a run is bound to at most one entry ever.
RunsBoundOnce ==
  /\ \A e \in Entries : fate[e] = "unused" => bound[e] = NoRun /\ ~parked[e]
  /\ \A e \in Entries : bound[e] # NoRun => bound[e] \in minted
  /\ \A e1, e2 \in Entries : bound[e1] = bound[e2] /\ bound[e1] # NoRun => e1 = e2

\* daemon_slot.go's lock-protected structure is consistent: the map, the
\* entries' fates, the handles and the run bindings agree.
SlotInv == EntriesMapped /\ RunsBoundOnce

\* "a handle outlived by an evict or a newer claim is inert"
\* (daemon_slot.go:28-30): no call, through whatever handle, changes an entry
\* once it has left the map, or puts it back.
InertHandles ==
  [][\A e \in Entries : fate[e] \in {"released", "evicted"} =>
       fate'[e] = fate[e] /\ bound'[e] = bound[e] /\ parked'[e] = parked[e]
     ]_slotVars

\* The refinement mapping to the ownership of keys.
PhaseOf(k) ==
  IF m[k] = NoEntry THEN "free"
  ELSE IF bound[m[k]] = NoRun THEN "claimed"
  ELSE IF parked[m[k]] THEN "parked" ELSE "held"

HolderOf(k) == IF Current(k) = NoRun THEN {} ELSE {Current(k)}

Own == INSTANCE SlotOwnership WITH
         phase <- [k \in Keys |-> PhaseOf(k)],
         holder <- [k \in Keys |-> HolderOf(k)],
         known <- minted

\* Handles and entries implement plain ownership of keys: a claim reserves, a
\* bind or an adoption gives the key to a run that never had one, a release
\* or an eviction frees it.
ImplementsOwnership == Own!OwnSpec
=============================================================================
