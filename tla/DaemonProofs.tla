---------------------------- MODULE DaemonProofs -----------------------------
(***************************************************************************)
(* Proofs about DaemonSlots and DaemonLifecycle, for any number of keys,   *)
(* entries, goroutines, runs and reloads.  First the slots: their type and *)
(* structural invariants, that outlived handles are inert, and that they   *)
(* implement SlotOwnership.  Then the lifecycle: it only ever touches its  *)
(* slot through the slot operations, so what is proved of the slots holds  *)
(* of it.  Last its runs: a suspension is continued once, once the         *)
(* shutdown's wait returned no run goroutine is in flight, a slot passes to*)
(* another run only by a resume, and with one registrar an unregistered    *)
(* daemon holds none and a slot bound to a run that is over is being dealt *)
(* with.                                                                   *)
(***************************************************************************)
EXTENDS DaemonLifecycle, TLAPS

-----------------------------------------------------------------------------
(***************************************************************************)
(* The slots.                                                              *)
(***************************************************************************)

-----------------------------------------------------------------------------
(* The types.                                                              *)

LEMMA SlotTypeInit == SlotInit => SlotTypeOK
  BY SlotAssumption DEF SlotInit, SlotTypeOK, Handles, Fates

LEMMA SlotTypeNext == SlotTypeOK /\ [SlotNext]_slotVars => SlotTypeOK'
<1> SUFFICES ASSUME SlotTypeOK, [SlotNext]_slotVars
             PROVE  SlotTypeOK'
  OBVIOUS
<1> USE SlotAssumption DEF SlotTypeOK, Handles, Fates
<1>1. ASSUME NEW k \in Keys, Evict(k) PROVE SlotTypeOK'
  BY <1>1 DEF Evict
<1>2. ASSUME NEW k \in Keys, NEW r \in RunIDs, ReleaseRun(k, r) PROVE SlotTypeOK'
  BY <1>2 DEF ReleaseRun, BoundTo
<1>3. ASSUME NEW k \in Keys, NEW c \in Callers, Claim(c, k) PROVE SlotTypeOK'
  BY <1>3 DEF Claim
<1>4. ASSUME NEW k \in Keys, NEW c \in Callers, NEW r \in RunIDs, Holding(c, k, r)
      PROVE  SlotTypeOK'
  BY <1>4 DEF Holding, BoundTo
<1>5. ASSUME NEW c \in Callers, Park(c) PROVE SlotTypeOK'
  BY <1>5 DEF Park, Owned
<1>6. ASSUME NEW c \in Callers, Discard(c) PROVE SlotTypeOK'
  BY ZenonT(60), <1>6 DEF Discard
<1>7. ASSUME NEW c \in Callers, NEW r \in RunIDs, Attach(c, r) \/ Adopt(c, r)
      PROVE  SlotTypeOK'
  <2>1. handle[c].entry \in Entries /\ Rebind(c, r)
    BY <1>7 DEF Attach, Adopt, Owned
  <2> QED
    BY <2>1 DEF Rebind
<1>8. ASSUME NEW c \in Callers, NEW r \in RunIDs \cup {NoRun}, Release(c, r)
      PROVE  SlotTypeOK'
  BY <1>8 DEF Release, Owned
<1>9. CASE UNCHANGED slotVars
  BY <1>9 DEF slotVars
<1> QED
  BY <1>1, <1>2, <1>3, <1>4, <1>5, <1>6, <1>7, <1>8, <1>9 DEF SlotNext

\* daemon_slot.go's structures keep their types under every operation.
THEOREM SlotTypeCorrect == SlotSpec => []SlotTypeOK
  BY SlotTypeInit, SlotTypeNext, PTL DEF SlotSpec

-----------------------------------------------------------------------------
(* The structure: SlotInv is inductive together with the types.            *)

SlotIInv == SlotTypeOK /\ SlotInv

LEMMA SlotInvInit == SlotInit => SlotInv
  BY SlotAssumption DEF SlotInit, SlotInv, EntriesMapped, RunsBoundOnce

\* An entry leaves the map, whatever its fate: the three ways of giving a key
\* back share this step.
Freed(k, f) ==
  /\ k \in Keys
  /\ m[k] # NoEntry
  /\ m' = [m EXCEPT ![k] = NoEntry]
  /\ fate' = [fate EXCEPT ![m[k]] = f]
  /\ UNCHANGED <<bound, parked, handle, minted>>

LEMMA FreedKeepsInv ==
  ASSUME SlotIInv, NEW k, NEW f \in {"released", "evicted"}, Freed(k, f)
  PROVE  SlotInv'
<1> USE SlotAssumption DEF SlotIInv, SlotTypeOK, SlotInv, Freed, Handles
<1>1. m[k] \in Entries /\ fate[m[k]] = "mapped"
  BY DEF EntriesMapped
<1>2. EntriesMapped'
  BY <1>1 DEF EntriesMapped
<1>3. RunsBoundOnce'
  BY <1>1 DEF EntriesMapped, RunsBoundOnce
<1> QED
  BY <1>2, <1>3

\* A run is bound, or an entry parked, through a handle on a mapped entry.
LEMMA RebindKeepsInv ==
  ASSUME SlotIInv, NEW c \in Callers, NEW r \in RunIDs, Owned(c), Rebind(c, r)
  PROVE  SlotInv'
<1> USE SlotAssumption DEF SlotIInv, SlotTypeOK, SlotInv, Handles
<1>1. handle[c].entry \in Entries /\ fate[handle[c].entry] = "mapped"
  BY DEF Owned, EntriesMapped
<1>2. EntriesMapped'
  BY DEF EntriesMapped, Rebind
<1>3. RunsBoundOnce'
  BY <1>1 DEF RunsBoundOnce, Rebind
<1> QED
  BY <1>2, <1>3

LEMMA ClaimKeepsInv ==
  ASSUME SlotIInv, NEW c \in Callers, NEW k \in Keys, Claim(c, k)
  PROVE  SlotInv'
<1> USE SlotAssumption DEF SlotIInv, SlotTypeOK, SlotInv, Handles
<1>1. PICK e \in Entries :
        /\ fate[e] = "unused"
        /\ m' = [m EXCEPT ![k] = e]
        /\ fate' = [fate EXCEPT ![e] = "mapped"]
        /\ handle' = [handle EXCEPT ![c] = [key |-> k, entry |-> e, run |-> NoRun]]
  BY DEF Claim
<1>2. m[k] = NoEntry /\ UNCHANGED <<bound, parked, minted>>
  BY DEF Claim
<1>3. \A k2 \in Keys : m[k2] # e
  BY <1>1 DEF EntriesMapped
<1>4. \A d \in Callers : handle[d].entry # e
  BY <1>1 DEF EntriesMapped
<1>5. EntriesMapped'
  <2>1. \A k2 \in Keys : m'[k2] # NoEntry => fate'[m'[k2]] = "mapped"
    BY <1>1 DEF EntriesMapped
  <2>2. \A e2 \in Entries : fate'[e2] = "mapped" => \E k2 \in Keys : m'[k2] = e2
    BY <1>1, <1>2 DEF EntriesMapped
  <2>3. \A k1, k2 \in Keys : m'[k1] = m'[k2] /\ m'[k1] # NoEntry => k1 = k2
    BY <1>1, <1>3 DEF EntriesMapped
  <2>4. ASSUME NEW d \in Callers, handle'[d].entry # NoEntry
        PROVE  /\ fate'[handle'[d].entry] # "unused"
               /\ \A k2 \in Keys : m'[k2] = handle'[d].entry => k2 = handle'[d].key
    <3>1. CASE d = c
      BY <3>1, <1>1, <1>3
    <3>2. CASE d # c
      BY <3>2, <2>4, <1>1, <1>4 DEF EntriesMapped
    <3> QED
      BY <3>1, <3>2
  <2> QED
    BY <2>1, <2>2, <2>3, <2>4 DEF EntriesMapped
<1>6. RunsBoundOnce'
  BY <1>1, <1>2 DEF RunsBoundOnce
<1> QED
  BY <1>5, <1>6

LEMMA SlotInvNext == SlotIInv /\ [SlotNext]_slotVars => SlotInv'
<1> SUFFICES ASSUME SlotIInv, [SlotNext]_slotVars
             PROVE  SlotInv'
  OBVIOUS
<1> USE SlotAssumption
<1>1. ASSUME NEW k \in Keys, Evict(k) PROVE SlotInv'
  <2>1. Freed(k, "evicted")
    BY <1>1 DEF Evict, Freed
  <2> QED
    BY <2>1, FreedKeepsInv
<1>2. ASSUME NEW k \in Keys, NEW r \in RunIDs, ReleaseRun(k, r) PROVE SlotInv'
  <2>1. Freed(k, "released")
    BY <1>2 DEF ReleaseRun, BoundTo, Freed
  <2> QED
    BY <2>1, FreedKeepsInv
<1>3. ASSUME NEW k \in Keys, NEW c \in Callers, Claim(c, k) PROVE SlotInv'
  BY <1>3, ClaimKeepsInv
<1>4. ASSUME NEW k \in Keys, NEW c \in Callers, NEW r \in RunIDs, Holding(c, k, r)
      PROVE  SlotInv'
  BY <1>4 DEF Holding, BoundTo, SlotIInv, SlotTypeOK, SlotInv, Handles, EntriesMapped,
              RunsBoundOnce
<1>5. ASSUME NEW c \in Callers, Park(c) PROVE SlotInv'
  <2>1. handle[c].entry \in Entries /\ fate[handle[c].entry] = "mapped"
    BY <1>5 DEF Park, Owned, SlotIInv, SlotTypeOK, SlotInv, Handles, EntriesMapped
  <2>2. EntriesMapped'
    BY <1>5 DEF Park, SlotIInv, SlotInv, EntriesMapped
  <2>3. RunsBoundOnce'
    BY <1>5, <2>1 DEF Park, SlotIInv, SlotTypeOK, SlotInv, RunsBoundOnce
  <2> QED
    BY <2>2, <2>3 DEF SlotInv
<1>6. ASSUME NEW c \in Callers, Discard(c) PROVE SlotInv'
  BY <1>6 DEF Discard, SlotIInv, SlotTypeOK, SlotInv, Handles, EntriesMapped, RunsBoundOnce
<1>7. ASSUME NEW c \in Callers, NEW r \in RunIDs, Attach(c, r) \/ Adopt(c, r)
      PROVE  SlotInv'
  <2>1. Owned(c) /\ Rebind(c, r)
    BY <1>7 DEF Attach, Adopt
  <2> QED
    BY <2>1, RebindKeepsInv
<1>8. ASSUME NEW c \in Callers, NEW r \in RunIDs \cup {NoRun}, Release(c, r)
      PROVE  SlotInv'
  <2>1. Freed(handle[c].key, "released")
    BY <1>8 DEF Release, Owned, Freed, SlotIInv, SlotTypeOK, Handles
  <2> QED
    BY <2>1, FreedKeepsInv
<1>9. CASE UNCHANGED slotVars
  BY <1>9 DEF slotVars, SlotIInv, SlotInv, EntriesMapped, RunsBoundOnce
<1> QED
  BY <1>1, <1>2, <1>3, <1>4, <1>5, <1>6, <1>7, <1>8, <1>9 DEF SlotNext

\* daemon_slot.go's structures stay consistent: the map holds live entries
\* under their own keys, and no run is ever bound to two entries.
THEOREM SlotConsistent == SlotSpec => []SlotInv
<1>1. SlotInit => SlotIInv
  BY SlotTypeInit, SlotInvInit DEF SlotIInv
<1>2. SlotIInv /\ [SlotNext]_slotVars => SlotIInv'
  BY SlotTypeNext, SlotInvNext DEF SlotIInv
<1>3. SlotIInv => SlotInv
  BY DEF SlotIInv
<1> QED
  BY <1>1, <1>2, <1>3, PTL DEF SlotSpec

-----------------------------------------------------------------------------
(* Outlived handles are inert.                                             *)

\* A step keeps what has left the map as it is.
InertStep ==
  \A e \in Entries : fate[e] \in {"released", "evicted"} =>
    fate'[e] = fate[e] /\ bound'[e] = bound[e] /\ parked'[e] = parked[e]

LEMMA InertNext == SlotIInv /\ [SlotNext]_slotVars => InertStep
<1> SUFFICES ASSUME SlotIInv, [SlotNext]_slotVars
             PROVE  InertStep
  OBVIOUS
<1> USE SlotAssumption DEF SlotIInv, SlotTypeOK, SlotInv, Handles, InertStep
<1>1. \A k \in Keys : m[k] # NoEntry => m[k] \in Entries /\ fate[m[k]] = "mapped"
  BY DEF EntriesMapped
<1>2. \A c \in Callers : Owned(c) =>
        handle[c].entry \in Entries /\ fate[handle[c].entry] = "mapped"
  BY DEF Owned, EntriesMapped
<1>3. ASSUME NEW k \in Keys, Evict(k) PROVE InertStep
  BY <1>1, <1>3 DEF Evict
<1>4. ASSUME NEW k \in Keys, NEW r \in RunIDs, ReleaseRun(k, r) PROVE InertStep
  BY <1>1, <1>4 DEF ReleaseRun, BoundTo
<1>5. ASSUME NEW k \in Keys, NEW c \in Callers, Claim(c, k) PROVE InertStep
  BY <1>5 DEF Claim
<1>6. ASSUME NEW k \in Keys, NEW c \in Callers, NEW r \in RunIDs, Holding(c, k, r)
      PROVE  InertStep
  BY <1>6 DEF Holding
<1>7. ASSUME NEW c \in Callers, Park(c) PROVE InertStep
  BY <1>2, <1>7 DEF Park
<1>8. ASSUME NEW c \in Callers, Discard(c) PROVE InertStep
  BY <1>8 DEF Discard
<1>9. ASSUME NEW c \in Callers, NEW r \in RunIDs, Attach(c, r) \/ Adopt(c, r)
      PROVE  InertStep
  <2>1. Owned(c) /\ Rebind(c, r)
    BY <1>9 DEF Attach, Adopt
  <2> QED
    BY <2>1, <1>2 DEF Rebind
<1>10. ASSUME NEW c \in Callers, NEW r \in RunIDs \cup {NoRun}, Release(c, r)
       PROVE  InertStep
  BY <1>2, <1>10 DEF Release
<1>11. CASE UNCHANGED slotVars
  BY <1>11 DEF slotVars
<1> QED
  BY <1>3, <1>4, <1>5, <1>6, <1>7, <1>8, <1>9, <1>10, <1>11 DEF SlotNext

\* "a handle outlived by an evict or a newer claim is inert"
\* (daemon_slot.go:28-30).
THEOREM OutlivedHandlesInert == SlotSpec => InertHandles
<1>1. SlotInit => SlotIInv
  BY SlotTypeInit, SlotInvInit DEF SlotIInv
<1>2. SlotIInv /\ [SlotNext]_slotVars => SlotIInv'
  BY SlotTypeNext, SlotInvNext DEF SlotIInv
<1>3. SlotIInv /\ [SlotNext]_slotVars =>
        [\A e \in Entries : fate[e] \in {"released", "evicted"} =>
           fate'[e] = fate[e] /\ bound'[e] = bound[e] /\ parked'[e] = parked[e]]_slotVars
  BY InertNext DEF InertStep
<1> QED
  BY <1>1, <1>2, <1>3, PTL DEF SlotSpec, InertHandles

-----------------------------------------------------------------------------
(* DaemonSlots implements SlotOwnership.                                   *)

LEMMA OwnInitially == SlotInit => Own!OwnInit
  BY SlotAssumption DEF SlotInit, Own!OwnInit, PhaseOf, HolderOf, Current

\* Every way of giving a key back frees it.
LEMMA FreedIsFree ==
  ASSUME SlotIInv, NEW k, NEW f \in {"released", "evicted"}, Freed(k, f)
  PROVE  Own!Free(k)
<1> USE SlotAssumption DEF SlotIInv, SlotTypeOK, Freed
<1>1. \A k2 \in Keys : k2 # k => m'[k2] = m[k2]
  OBVIOUS
<1>2. \A k2 \in Keys : k2 # k => PhaseOf(k2)' = PhaseOf(k2) /\ HolderOf(k2)' = HolderOf(k2)
  BY <1>1 DEF PhaseOf, HolderOf, Current
<1>3. PhaseOf(k)' = "free" /\ HolderOf(k)' = {} /\ PhaseOf(k) # "free"
  BY DEF PhaseOf, HolderOf, Current
<1> QED
  BY <1>2, <1>3 DEF Own!Free

\* A run bound through a handle on a mapped entry takes the entry's key.
LEMMA RebindIsBind ==
  ASSUME SlotIInv, NEW c \in Callers, NEW r \in RunIDs, Owned(c), Rebind(c, r)
  PROVE  Own!Bind(handle[c].key, r)
<1> USE SlotAssumption DEF SlotIInv, SlotTypeOK, Handles
<1>1. PICK k \in Keys, e \in Entries :
        k = handle[c].key /\ e = handle[c].entry /\ m[k] = e /\ r # NoRun
  BY DEF Owned
<1>2. \A k2 \in Keys : k2 # k => m[k2] # e
  BY <1>1 DEF SlotInv, EntriesMapped
<1>3. /\ m' = m /\ r \notin minted /\ minted' = minted \cup {r}
      /\ bound' = [bound EXCEPT ![e] = r]
      /\ parked' = [parked EXCEPT ![e] = FALSE]
  BY <1>1 DEF Rebind
<1>4. \A k2 \in Keys : k2 # k => PhaseOf(k2)' = PhaseOf(k2) /\ HolderOf(k2)' = HolderOf(k2)
  BY <1>1, <1>2, <1>3 DEF PhaseOf, HolderOf, Current
<1>5. PhaseOf(k)' = "held" /\ HolderOf(k)' = {r} /\ PhaseOf(k) # "free"
  BY <1>1, <1>3 DEF PhaseOf, HolderOf, Current
<1> QED
  BY <1>1, <1>3, <1>4, <1>5 DEF Own!Bind

LEMMA OwnStep == SlotIInv /\ [SlotNext]_slotVars => [Own!OwnNext]_(Own!ownVars)
<1> SUFFICES ASSUME SlotIInv, [SlotNext]_slotVars
             PROVE  [Own!OwnNext]_(Own!ownVars)
  OBVIOUS
<1> USE SlotAssumption DEF SlotIInv, SlotTypeOK, Handles
<1>1. ASSUME UNCHANGED <<m, bound, parked, minted>> PROVE UNCHANGED Own!ownVars
  BY <1>1 DEF Own!ownVars, PhaseOf, HolderOf, Current
<1>2. ASSUME NEW k \in Keys, Evict(k) PROVE Own!OwnNext
  <2>1. Freed(k, "evicted")
    BY <1>2 DEF Evict, Freed
  <2> QED
    BY <2>1, FreedIsFree DEF Own!OwnNext
<1>3. ASSUME NEW k \in Keys, NEW r \in RunIDs, ReleaseRun(k, r) PROVE Own!OwnNext
  <2>1. Freed(k, "released")
    BY <1>3 DEF ReleaseRun, BoundTo, Freed
  <2> QED
    BY <2>1, FreedIsFree DEF Own!OwnNext
<1>4. ASSUME NEW k \in Keys, NEW c \in Callers, Claim(c, k) PROVE Own!OwnNext
  <2>1. PICK e \in Entries : fate[e] = "unused" /\ m' = [m EXCEPT ![k] = e]
    BY <1>4 DEF Claim
  <2>2. m[k] = NoEntry /\ UNCHANGED <<bound, parked, minted>> /\ bound[e] = NoRun
    BY <1>4, <2>1 DEF Claim, SlotInv, RunsBoundOnce
  <2>3. \A k2 \in Keys : k2 # k =>
          PhaseOf(k2)' = PhaseOf(k2) /\ HolderOf(k2)' = HolderOf(k2)
    BY <2>1, <2>2 DEF PhaseOf, HolderOf, Current
  <2>4. PhaseOf(k) = "free" /\ PhaseOf(k)' = "claimed" /\ HolderOf(k)' = HolderOf(k)
    BY <2>1, <2>2 DEF PhaseOf, HolderOf, Current
  <2>5. Own!Reserve(k)
    BY <2>2, <2>3, <2>4 DEF Own!Reserve
  <2> QED
    BY <2>5 DEF Own!OwnNext
<1>5. ASSUME NEW k \in Keys, NEW c \in Callers, NEW r \in RunIDs, Holding(c, k, r)
      PROVE  UNCHANGED Own!ownVars
  BY <1>1, <1>5 DEF Holding
<1>6. ASSUME NEW c \in Callers, Park(c) PROVE [Own!OwnNext]_(Own!ownVars)
  <2>1. PICK k \in Keys, e \in Entries :
          k = handle[c].key /\ e = handle[c].entry /\ m[k] = e
    BY <1>6 DEF Park, Owned
  <2>2. \A k2 \in Keys : k2 # k => m[k2] # e
    BY <2>1 DEF SlotInv, EntriesMapped
  <2>3. parked' = [parked EXCEPT ![e] = TRUE] /\ UNCHANGED <<m, bound, minted>>
    BY <1>6, <2>1 DEF Park
  <2>4. \A k2 \in Keys : HolderOf(k2)' = HolderOf(k2)
    BY <2>3 DEF HolderOf, Current
  <2>5. \A k2 \in Keys : k2 # k => PhaseOf(k2)' = PhaseOf(k2)
    BY <2>1, <2>2, <2>3 DEF PhaseOf
  <2>6. CASE bound[e] = NoRun
    <3>1. PhaseOf(k)' = PhaseOf(k)
      BY <2>1, <2>3, <2>6 DEF PhaseOf
    <3> QED
      BY <3>1, <2>3, <2>4, <2>5 DEF Own!ownVars
  <2>7. CASE bound[e] # NoRun
    <3>1. PhaseOf(k) \in {"held", "parked"} /\ PhaseOf(k)' = "parked"
      BY <2>1, <2>3, <2>7 DEF PhaseOf
    <3>2. Own!Suspend(k)
      BY <3>1, <2>1, <2>3, <2>4, <2>5 DEF Own!Suspend
    <3> QED
      BY <3>2, <2>1 DEF Own!OwnNext
  <2> QED
    BY <2>6, <2>7
<1>7. ASSUME NEW c \in Callers, Discard(c) PROVE UNCHANGED Own!ownVars
  BY <1>1, <1>7 DEF Discard
<1>8. ASSUME NEW c \in Callers, NEW r \in RunIDs, Attach(c, r) \/ Adopt(c, r)
      PROVE  Own!OwnNext
  <2>1. Owned(c) /\ Rebind(c, r) /\ handle[c].key \in Keys
    BY <1>8 DEF Attach, Adopt
  <2>2. Own!Bind(handle[c].key, r)
    BY <2>1, RebindIsBind
  <2> QED
    BY <2>1, <2>2 DEF Own!OwnNext
<1>9. ASSUME NEW c \in Callers, NEW r \in RunIDs \cup {NoRun}, Release(c, r)
      PROVE  Own!OwnNext
  <2>1. Freed(handle[c].key, "released")
    BY <1>9 DEF Release, Owned, Freed
  <2>2. Own!Free(handle[c].key) /\ handle[c].key \in Keys
    BY <2>1, FreedIsFree
  <2> QED
    BY <2>2 DEF Own!OwnNext
<1>10. CASE UNCHANGED slotVars
  BY <1>1, <1>10 DEF slotVars
<1> QED
  BY <1>2, <1>3, <1>4, <1>5, <1>6, <1>7, <1>8, <1>9, <1>10 DEF SlotNext

\* Handles, entries and locks give exactly the ownership of keys that
\* SlotOwnership states.
THEOREM SlotsImplementOwnership == SlotSpec => ImplementsOwnership
<1>1. SlotInit => SlotIInv
  BY SlotTypeInit, SlotInvInit DEF SlotIInv
<1>2. SlotIInv /\ [SlotNext]_slotVars => SlotIInv'
  BY SlotTypeNext, SlotInvNext DEF SlotIInv
<1> QED
  BY <1>1, <1>2, OwnInitially, OwnStep, PTL
     DEF SlotSpec, ImplementsOwnership, Own!OwnSpec

-----------------------------------------------------------------------------
(***************************************************************************)
(* The lifecycle.                                                          *)
(***************************************************************************)

LEMMA ThreadsAreCallers == Threads = Callers
  BY LifecycleAssumption DEF Threads

-----------------------------------------------------------------------------
(* The lifecycle implements the slots.                                     *)

LEMMA InitIsSlotInit == Init => SlotInit
<1> SUFFICES ASSUME Init PROVE SlotInit
  OBVIOUS
<1> USE SlotAssumption, LifecycleAssumption
<1>1. handle \in [Callers -> {h \in Handles : h.entry = NoEntry /\ h.run = NoRun}]
  BY DEF Init, Handles
<1> QED
  BY <1>1 DEF Init, SlotInit

LEMMA LaunchIsSlotStep ==
  ASSUME NEW t \in Threads, TypeOK, LaunchStep(t) PROVE [SlotNext]_slotVars
<1> USE LifecycleAssumption, ThreadsAreCallers
<1>1. CASE LaunchAttach(t)
  BY <1>1 DEF LaunchAttach, SlotNext, slotVars
<1>2. CASE LaunchFailRelease(t)
  <2>1. fresh[t] \in RunIDs \cup {NoRun}
    BY DEF TypeOK
  <2> QED
    BY <1>2, <2>1 DEF LaunchFailRelease, SlotNext, slotVars
<1>3. CASE Exit(t)
  BY <1>3 DEF Exit, SlotNext
<1>4. ASSUME \/ LaunchNoteSpawn(t) \/ LaunchLost(t) \/ PublishRunning(t) \/ TrackRun(t)
             \/ BeginRun(t) \/ RefuseRun(t) \/ LaunchFailClear(t) \/ PublishFailed(t)
             \/ KillIfEvicted(t)
      PROVE  UNCHANGED slotVars
  BY <1>4 DEF LaunchNoteSpawn, LaunchLost, PublishRunning, TrackRun, BeginRun, RefuseRun,
              LaunchFailClear, PublishFailed, KillIfEvicted, Publish
<1> QED
  BY <1>1, <1>2, <1>3, <1>4 DEF LaunchStep

LEMMA RestartIsSlotStep ==
  ASSUME NEW t \in Threads, RestartStep(t) PROVE [SlotNext]_slotVars
<1> USE LifecycleAssumption, ThreadsAreCallers
<1>1. CASE Reclaim(t)
  BY <1>1 DEF Reclaim, SlotNext, slotVars
<1>2. CASE Abandon(t)
  BY <1>2 DEF Abandon, SlotNext, slotVars
<1>3. ASSUME PublishStopped(t) \/ AccountExit(t) \/ PublishNoRestart(t) \/ Backoff(t) \/ Recheck(t)
      PROVE  UNCHANGED slotVars
  BY <1>3 DEF PublishStopped, AccountExit, PublishNoRestart, Backoff, Recheck, Publish
<1> QED
  BY <1>1, <1>2, <1>3 DEF RestartStep

LEMMA RegistrarIsSlotStep ==
  ASSUME NEW t \in Registrars, RegistrarStep(t) PROVE [SlotNext]_slotVars
<1> USE LifecycleAssumption, ThreadsAreCallers
<1>1. CASE EvictSlot(t)
  BY <1>1 DEF EvictSlot, SlotNext, slotVars
<1>2. CASE StartDaemon(t)
  BY <1>2 DEF StartDaemon, SlotNext, slotVars
<1>3. ASSUME DropSpec(t) \/ ResetCrashLoop(t) \/ KillEvictedRun(t) \/ Enrol(t)
      PROVE  UNCHANGED slotVars
  BY <1>3 DEF DropSpec, ResetCrashLoop, KillEvictedRun, Enrol
<1> QED
  BY <1>1, <1>2, <1>3 DEF RegistrarStep

LEMMA FinishIsSlotStep ==
  ASSUME NEW r \in RunIDs, FinishStep(r) PROVE [SlotNext]_slotVars
<1> USE LifecycleAssumption
<1>1. CASE ReleaseBlind(r) \/ ReleaseFinished(r)
  BY <1>1 DEF ReleaseBlind, ReleaseFinished, SlotNext, slotVars
<1>2. CASE HoldToPark(r)
  BY <1>2 DEF HoldToPark, SlotNext, slotVars
<1>3. CASE ParkSlot(r)
  BY <1>3 DEF ParkSlot, SlotNext, slotVars
<1>4. ASSUME LookupStatus(r) \/ PublishSuspended(r) \/ CheckRegistered(r) \/ ResetCancelled(r)
      PROVE  UNCHANGED slotVars
  BY <1>4 DEF LookupStatus, PublishSuspended, CheckRegistered, ResetCancelled, Publish
<1> QED
  BY <1>1, <1>2, <1>3, <1>4 DEF FinishStep

LEMMA ResumeIsSlotStep ==
  ASSUME NEW u \in Resumers, TypeOK, ResumeStep(u) PROVE [SlotNext]_slotVars
<1> USE LifecycleAssumption, ThreadsAreCallers
<1>1. CASE HoldToAdopt(u)
  <2>1. ASSUME Holding(u, Daemon, subject[u]) PROVE subject[u] \in RunIDs
    BY <2>1 DEF Holding, BoundTo, TypeOK, Threads
  <2> QED
    BY <1>1, <2>1 DEF HoldToAdopt, SlotNext, slotVars
<1>2. CASE AdoptSlot(u)
  BY <1>2 DEF AdoptSlot, SlotNext, slotVars
<1>3. ASSUME ConsumeToken(u) \/ ResumeNoteSpawn(u) PROVE UNCHANGED slotVars
  BY <1>3 DEF ConsumeToken, ResumeNoteSpawn
<1> QED
  BY <1>1, <1>2, <1>3 DEF ResumeStep

LEMMA SweepIsSlotStep ==
  ASSUME NEW s \in Sweepers, TypeOK, SweepStep(s) PROVE [SlotNext]_slotVars
<1> USE LifecycleAssumption
<1>1. CASE SweepRelease(s)
  <2>1. ASSUME ReleaseRun(Daemon, subject[s]) PROVE subject[s] \in RunIDs
    BY <2>1 DEF ReleaseRun, BoundTo, TypeOK, Threads
  <2> QED
    BY <1>1, <2>1 DEF SweepRelease, SlotNext, slotVars
<1>2. ASSUME SweepReadSpec(s) \/ SweepCheckRegistered(s) PROVE UNCHANGED slotVars
  BY <1>2 DEF SweepReadSpec, SweepCheckRegistered
<1> QED
  BY <1>1, <1>2 DEF SweepStep

LEMMA StopIsSlotStep == StopStep => UNCHANGED slotVars
  BY DEF StopStep, BeginShutdown, SnapshotSlots, KillListed, Drain, Drained, GraceElapsed,
         StartStep

LEMMA EnvironmentIsSlotStep == Environment => UNCHANGED slotVars
  BY DEF Environment, CallUnregister, CallRegister, CallResume, SweepRun, FireManual,
         BodyEnds, KillByOperator, ReportSustained, CancelContext, StartStep

LEMMA NextIsSlotStep == TypeOK /\ [Next]_vars => [SlotNext]_slotVars
<1> SUFFICES ASSUME TypeOK, [Next]_vars PROVE [SlotNext]_slotVars
  OBVIOUS
<1>1. ASSUME NEW t \in Threads, ThreadStep(t) PROVE [SlotNext]_slotVars
  BY <1>1, LaunchIsSlotStep, RestartIsSlotStep, RegistrarIsSlotStep, FinishIsSlotStep,
     ResumeIsSlotStep, SweepIsSlotStep DEF ThreadStep
<1>2. CASE UNCHANGED vars
  BY <1>2 DEF vars, slotVars
<1> QED
  BY <1>1, <1>2, StopIsSlotStep, EnvironmentIsSlotStep DEF Next, Step

-----------------------------------------------------------------------------
(* The inductive invariant behind the types and OneBody.  In words: a      *)
(* goroutine that claimed the slot has an entry of its own with no run; a  *)
(* goroutine that is launching a run holds the entry bound to that run,    *)
(* and the run's goroutine has not started; a goroutine that resumes or    *)
(* sweeps a run only ever handles one whose body is over.                  *)

Claiming == {"noteSpawn", "attach", "recheck", "abandon"}
Launching == {"noteRespawn", "publishRunning", "track", "begin"}
Handling == {"consume", "holdToAdopt", "adopt", "sweepSpec", "sweepRelease"}

\* All goroutines of the daemon use its one key.
OneKey == \A t \in Threads : handle[t].key = Daemon

\* Run IDs of launches are fresh and never shared.
FreshRuns ==
  /\ \A t \in Threads : fresh[t] # NoRun => fresh[t] \in minted \ ManualRuns
  /\ \A t1, t2 \in Threads : fresh[t1] = fresh[t2] /\ fresh[t1] # NoRun => t1 = t2
  /\ \A r \in RunIDs \ ManualRuns : r \notin minted => pc[r] = "unborn"

\* A claimed entry has one claimer and no run.
ClaimsAreBlank ==
  /\ \A t \in Threads : pc[t] \in Claiming =>
       handle[t].entry \in Entries /\ bound[handle[t].entry] = NoRun
  /\ \A t1, t2 \in Threads :
       pc[t1] \in Claiming /\ pc[t2] \in Claiming /\ handle[t1].entry = handle[t2].entry
         => t1 = t2

\* A launched run has not begun, and the launcher's entry is bound to it.
LaunchesHold ==
  /\ \A t \in Threads : pc[t] \in Launching =>
       /\ handle[t].entry \in Entries
       /\ bound[handle[t].entry] = fresh[t]
       /\ fate[handle[t].entry] \in {"mapped", "evicted"}
  /\ \A t \in Threads : pc[t] \in Launching \cup {"failRelease"} =>
       fresh[t] \in RunIDs /\ pc[fresh[t]] = "minted"
  /\ \A t \in Threads : pc[t] = "checkEvicted" => fresh[t] \in RunIDs

\* A run that is resumed or swept has ended with a suspension.
HandledRunsEnded ==
  /\ \A r \in RunIDs : pc[r] \in {"unborn", "minted"} => row[r] = "none"
  /\ \A r \in RunIDs : pc[r] = "body" => row[r] = "running"
  /\ \A t \in Threads : pc[t] \in Handling =>
       /\ subject[t] \in RunIDs
       /\ row[subject[t]] \in {"suspended", "resumed", "cancelled"}
  /\ \A t \in Threads : pc[t] = "adopt" => handle[t].run = subject[t]

\* At most a park flag of the slots changes.
Still == UNCHANGED <<m, bound, fate, handle, minted>>

\* A goroutine takes a step of its own that starts no claim, launch or handling.
Moves(t, l) ==
  /\ pc' = [pc EXCEPT ![t] = l]
  /\ pc[t] \notin {"unborn", "minted", "body", "kill", "checkEvicted"}
  /\ pc[t] = "reset" => l = "kill"
  /\ l \notin {"unborn", "minted", "body", "checkEvicted", "adopt"}
  /\ l \in Claiming => pc[t] \in Claiming
  /\ l \in Launching => pc[t] \in Launching
  /\ l = "failRelease" => pc[t] \in Launching
  /\ l \in Handling => pc[t] \in Handling

\* The daemon's slot is given back for a run that is not live nor launched.
GivesBack ==
  /\ Freed(Daemon, "released")
  /\ \A t \in Threads : pc[t] \in Launching => fresh[t] # bound[m[Daemon]]
  /\ \A r \in RunIDs : Live(r) => r # bound[m[Daemon]]

Support == OneKey /\ FreshRuns /\ ClaimsAreBlank /\ LaunchesHold /\ HandledRunsEnded
IInv == TypeOK /\ SlotInv /\ Support /\ OneBody

-----------------------------------------------------------------------------
(* The types.                                                              *)

LEMMA CurrentType == SlotTypeOK => Current(Daemon) \in RunIDs \cup {NoRun}
  BY LifecycleAssumption DEF SlotTypeOK, Current

LEMMA ZeroFails == 0 \in 0..CrashloopThreshold /\ 0 \in 0..MaxReloads
  BY LifecycleAssumption

LEMMA NoteExitType ==
  ASSUME fails \in 0..CrashloopThreshold,
         NEW clean \in BOOLEAN, NEW sustained \in BOOLEAN, NoteExit(clean, sustained)
  PROVE  fails' \in 0..CrashloopThreshold /\ spawned' \in BOOLEAN
<1>1. CrashloopThreshold \in Nat
  BY LifecycleAssumption
<1>2. \/ fails' = 0
      \/ fails' = fails
      \/ fails' = fails + 1 /\ fails < CrashloopThreshold
  BY DEF NoteExit
<1>3. fails' \in 0..CrashloopThreshold
  BY <1>1, <1>2
<1> QED
  BY <1>3 DEF NoteExit

LEMMA TypeInit == Init => TypeOK
<1> SUFFICES ASSUME Init PROVE TypeOK
  OBVIOUS
<1>1. SlotTypeOK
  BY InitIsSlotInit, SlotTypeInit
<1>2. pc \in [Threads -> Labels] /\ subject \in [Threads -> RunIDs \cup {NoRun}]
  BY DEF Init, Labels
<1>3. fails \in 0..CrashloopThreshold /\ reloads \in 0..MaxReloads
  BY ZeroFails DEF Init
<1>4. seen \in [Threads -> Statuses] /\ row \in [RunIDs -> Statuses]
  BY DEF Init, Statuses
<1>5. state \in DaemonStates /\ phase \in StartPhases
  BY DEF Init, DaemonStates, StartPhases
<1> QED
  BY <1>1, <1>2, <1>3, <1>4, <1>5 DEF Init, TypeOK

LEMMA LaunchType ==
  ASSUME NEW t \in Threads, TypeOK, LaunchesHold, LaunchStep(t), SlotTypeOK'
  PROVE  TypeOK'
<1> USE LifecycleAssumption DEF TypeOK, Threads, Goto, Branch, KeepLocals, KeepRows,
    KeepStatus, KeepEngine, crashVars, regVars, shutVars, rowVars
<1>1. CASE LaunchNoteSpawn(t)
  BY <1>1 DEF LaunchNoteSpawn, NoteSpawn, Labels
<1>2. CASE LaunchAttach(t)
  BY <1>2 DEF LaunchAttach, Labels
<1>3. CASE LaunchLost(t)
  BY <1>3 DEF LaunchLost, ClearSpawn, Labels
<1>4. CASE PublishRunning(t)
  BY <1>4 DEF PublishRunning, Publish, Labels, DaemonStates
<1>5. CASE TrackRun(t)
  <2>1. fresh[t] \in RunIDs
    BY <1>5 DEF TrackRun, At, LaunchesHold, Launching
  <2> QED
    BY <1>5, <2>1 DEF TrackRun, Labels
<1>6. CASE BeginRun(t)
  BY <1>6 DEF BeginRun, Labels, Statuses
<1>7. CASE RefuseRun(t)
  BY <1>7 DEF RefuseRun, Labels
<1>8. CASE LaunchFailRelease(t)
  BY <1>8 DEF LaunchFailRelease, Labels
<1>9. CASE LaunchFailClear(t)
  BY <1>9 DEF LaunchFailClear, ClearSpawn, Labels
<1>10. CASE PublishFailed(t)
  BY <1>10 DEF PublishFailed, Publish, Labels, DaemonStates
<1>11. CASE KillIfEvicted(t)
  BY <1>11 DEF KillIfEvicted, Kill, Labels
<1>12. CASE Exit(t)
  BY <1>12 DEF Exit, Labels, Statuses
<1> QED
  BY <1>1, <1>2, <1>3, <1>4, <1>5, <1>6, <1>7, <1>8, <1>9, <1>10, <1>11, <1>12 DEF LaunchStep

LEMMA RestartType ==
  ASSUME NEW t \in Threads, TypeOK, RestartStep(t), SlotTypeOK' PROVE TypeOK'
<1> USE LifecycleAssumption DEF TypeOK, Goto, Branch, KeepLocals, KeepRows, KeepStatus,
    KeepEngine, crashVars, regVars, shutVars, rowVars, Labels
<1>1. CASE PublishStopped(t)
  BY <1>1 DEF PublishStopped, Publish, DaemonStates
<1>2. CASE AccountExit(t)
  <2>1. PICK sustained \in BOOLEAN : NoteExit(seen[t] = "success", sustained)
    BY <1>2 DEF AccountExit
  <2>2. fails' \in 0..CrashloopThreshold /\ spawned' \in BOOLEAN
    BY <2>1, NoteExitType
  <2> QED
    BY <1>2, <2>2 DEF AccountExit
<1>3. CASE PublishNoRestart(t)
  BY <1>3 DEF PublishNoRestart, Publish, DaemonStates
<1>4. CASE Backoff(t) \/ Reclaim(t) \/ Abandon(t)
  BY <1>4 DEF Backoff, Reclaim, Abandon
<1>5. CASE Recheck(t)
  BY <1>5 DEF Recheck
<1> QED
  BY <1>1, <1>2, <1>3, <1>4, <1>5 DEF RestartStep

LEMMA RegistrarType ==
  ASSUME NEW t \in Registrars, TypeOK, RegistrarStep(t), SlotTypeOK' PROVE TypeOK'
<1> USE LifecycleAssumption DEF TypeOK, Threads, Goto, Branch, KeepLocals, KeepRows,
    KeepStatus, KeepEngine, crashVars, regVars, shutVars, rowVars, Labels
<1>1. CASE DropSpec(t) \/ Enrol(t)
  BY <1>1 DEF DropSpec, Enrol
<1>2. CASE EvictSlot(t)
  BY <1>2, CurrentType DEF EvictSlot
<1>3. CASE ResetCrashLoop(t)
  BY <1>3, ZeroFails DEF ResetCrashLoop, ResetTracker
<1>4. CASE KillEvictedRun(t)
  BY <1>4 DEF KillEvictedRun, Kill
<1>5. CASE StartDaemon(t)
  BY <1>5 DEF StartDaemon
<1> QED
  BY <1>1, <1>2, <1>3, <1>4, <1>5 DEF RegistrarStep

LEMMA FinishType ==
  ASSUME NEW r \in RunIDs, TypeOK, FinishStep(r), SlotTypeOK' PROVE TypeOK'
<1> USE LifecycleAssumption DEF TypeOK, Threads, Goto, Branch, KeepLocals, KeepRows,
    KeepStatus, KeepEngine, crashVars, regVars, shutVars, rowVars, Labels
<1>1. CASE LookupStatus(r)
  BY <1>1 DEF LookupStatus
<1>2. CASE ReleaseBlind(r) \/ HoldToPark(r) \/ ParkSlot(r) \/ ReleaseFinished(r)
  BY <1>2 DEF ReleaseBlind, HoldToPark, ParkSlot, ReleaseFinished
<1>3. CASE PublishSuspended(r)
  BY <1>3 DEF PublishSuspended, Publish, DaemonStates
<1>4. CASE CheckRegistered(r)
  BY <1>4 DEF CheckRegistered
<1>5. CASE ResetCancelled(r)
  BY <1>5, ZeroFails DEF ResetCancelled, ResetTracker
<1> QED
  BY <1>1, <1>2, <1>3, <1>4, <1>5 DEF FinishStep

LEMMA ResumeType ==
  ASSUME NEW u \in Resumers, TypeOK, ResumeStep(u), SlotTypeOK' PROVE TypeOK'
<1> USE LifecycleAssumption DEF TypeOK, Threads, Goto, Branch, KeepLocals, KeepRows,
    KeepStatus, KeepEngine, crashVars, regVars, shutVars, rowVars, Labels
<1>1. CASE ConsumeToken(u)
  BY <1>1 DEF ConsumeToken, Statuses
<1>2. CASE HoldToAdopt(u)
  BY <1>2 DEF HoldToAdopt
<1>3. CASE AdoptSlot(u)
  BY <1>3 DEF AdoptSlot
<1>4. CASE ResumeNoteSpawn(u)
  BY <1>4 DEF ResumeNoteSpawn, NoteSpawn
<1> QED
  BY <1>1, <1>2, <1>3, <1>4 DEF ResumeStep

LEMMA SweepType ==
  ASSUME NEW s \in Sweepers, TypeOK, SweepStep(s), SlotTypeOK' PROVE TypeOK'
<1> USE LifecycleAssumption DEF TypeOK, Threads, Goto, Branch, KeepLocals, KeepRows,
    KeepStatus, KeepEngine, crashVars, regVars, shutVars, rowVars, Labels
<1>1. CASE SweepReadSpec(s)
  BY <1>1 DEF SweepReadSpec
<1>2. CASE SweepRelease(s) \/ SweepCheckRegistered(s)
  BY <1>2 DEF SweepRelease, SweepCheckRegistered
<1> QED
  BY <1>1, <1>2 DEF SweepStep

LEMMA StopType == ASSUME TypeOK, StopStep, SlotTypeOK' PROVE TypeOK'
<1> USE LifecycleAssumption DEF TypeOK, threadVars, StartStep, KeepRows, KeepStatus,
    crashVars, regVars, rowVars, StartPhases
<1>1. CASE SnapshotSlots
  BY <1>1, CurrentType DEF SnapshotSlots
<1>2. CASE KillListed
  BY <1>2 DEF KillListed, Kill
<1>3. CASE BeginShutdown \/ Drain \/ Drained \/ GraceElapsed
  BY <1>3 DEF BeginShutdown, Drain, Drained, GraceElapsed
<1> QED
  BY <1>1, <1>2, <1>3 DEF StopStep

LEMMA EnvironmentType == ASSUME TypeOK, Environment, SlotTypeOK' PROVE TypeOK'
<1> USE LifecycleAssumption DEF TypeOK, Threads, threadVars, Goto, At, KeepLocals,
    KeepRows, KeepStatus, KeepEngine, crashVars, regVars, shutVars, rowVars, Labels
<1>1. ASSUME NEW t \in Registrars,
             CallUnregister(t) \/ \E p \in Policies \cup {NoSpec} : CallRegister(t, p)
      PROVE  TypeOK'
  BY <1>1 DEF CallUnregister, CallRegister
<1>2. ASSUME NEW u \in Resumers, NEW r \in RunIDs, NEW p \in Policies, CallResume(u, r, p)
      PROVE  TypeOK'
  BY <1>2 DEF CallResume
<1>3. ASSUME NEW s \in Sweepers, NEW r \in RunIDs, SweepRun(s, r) PROVE TypeOK'
  BY <1>3 DEF SweepRun, Statuses
<1>4. ASSUME NEW r \in ManualRuns, NEW p \in Policies, FireManual(r, p) PROVE TypeOK'
  BY <1>4 DEF FireManual, Statuses
<1>5. ASSUME NEW r \in RunIDs, BodyEnds(r) PROVE TypeOK'
  BY <1>5 DEF BodyEnds, Statuses
<1>6. ASSUME NEW r \in RunIDs, KillByOperator(r) PROVE TypeOK'
  BY <1>6 DEF KillByOperator, Kill
<1>7. CASE ReportSustained
  BY <1>7, ZeroFails DEF ReportSustained, ResetTracker
<1>8. CASE CancelContext
  BY <1>8 DEF CancelContext, StartStep, StartPhases
<1> QED
  BY <1>1, <1>2, <1>3, <1>4, <1>5, <1>6, <1>7, <1>8 DEF Environment

LEMMA TypeNext == TypeOK /\ LaunchesHold /\ [Next]_vars => TypeOK'
<1> SUFFICES ASSUME TypeOK, LaunchesHold, [Next]_vars PROVE TypeOK'
  OBVIOUS
<1>1. SlotTypeOK'
  BY NextIsSlotStep, SlotTypeNext DEF TypeOK
<1>2. ASSUME NEW t \in Threads, ThreadStep(t) PROVE TypeOK'
  BY <1>1, <1>2, LaunchType, RestartType, RegistrarType, FinishType, ResumeType, SweepType
     DEF ThreadStep
<1>3. CASE UNCHANGED vars
  BY <1>1, <1>3 DEF vars, TypeOK, threadVars, rowVars, crashVars, regVars, shutVars
<1> QED
  BY <1>1, <1>2, <1>3, StopType, EnvironmentType DEF Next, Step


-----------------------------------------------------------------------------
(* The support and OneBody are inductive.                                  *)

LEMMA SupportInit == Init => Support /\ OneBody
<1> SUFFICES ASSUME Init PROVE Support /\ OneBody
  OBVIOUS
<1>1. \A t \in Threads : pc[t] \in {"unborn", "idle"} /\ fresh[t] = NoRun /\ handle[t].key = Daemon
  BY LifecycleAssumption, ThreadsAreCallers DEF Init
<1>2. \A r \in RunIDs : pc[r] = "unborn" /\ row[r] = "none" /\ r \in Threads
  BY DEF Init, Threads
<1>3. OneKey /\ FreshRuns /\ ClaimsAreBlank /\ LaunchesHold /\ HandledRunsEnded
  BY <1>1, <1>2 DEF OneKey, FreshRuns, ClaimsAreBlank, LaunchesHold, HandledRunsEnded,
                    Claiming, Launching, Handling
<1>4. OneBody
  BY <1>2 DEF OneBody, Live, At
<1> QED
  BY <1>3, <1>4 DEF Support

\* An evicted handle stays evicted while it is kept.
LEMMA EvictedStays ==
  ASSUME TypeOK, SlotInv, NEW u \in Threads, Evicted(u), handle' = handle,
         Still \/ \E f : Freed(Daemon, f)
  PROVE  Evicted(u)'
<1>1. fate[handle[u].entry] = "evicted" /\ handle[u].entry \in Entries
  BY ThreadsAreCallers DEF Evicted, TypeOK, SlotTypeOK, Handles
<1>2. fate'[handle[u].entry] = "evicted"
  BY <1>1 DEF Still, Freed, TypeOK, SlotTypeOK, SlotInv, EntriesMapped
<1> QED
  BY <1>1, <1>2, SlotAssumption DEF Evicted

LEMMA MoveKeeps ==
  ASSUME IInv, NEW t \in Threads, NEW l, Moves(t, l),
         Still \/ GivesBack,
         UNCHANGED <<fresh, subject, row>>, cancelled \subseteq cancelled'
  PROVE  Support' /\ OneBody'
<1> USE LifecycleAssumption, ThreadsAreCallers
<1>1. /\ pc \in [Threads -> Labels] /\ RunIDs \subseteq Threads
      /\ UNCHANGED <<bound, handle, minted>>
  BY DEF IInv, TypeOK, GivesBack, Freed, Still, Threads
<1>2. OneKey'
  BY <1>1 DEF IInv, Support, OneKey
<1>3. FreshRuns'
  BY <1>1 DEF IInv, Support, FreshRuns, Moves
<1>4. ClaimsAreBlank'
  BY <1>1 DEF IInv, Support, ClaimsAreBlank, Moves
<1>5. LaunchesHold'
  <2>1. ASSUME NEW u \in Threads, pc'[u] \in Launching
        PROVE  /\ handle[u].entry \in Entries
               /\ bound[handle[u].entry] = fresh[u]
               /\ fate'[handle[u].entry] \in {"mapped", "evicted"}
    <3>1. pc[u] \in Launching
      BY <2>1, <1>1 DEF Moves
    <3>2. /\ handle[u].entry \in Entries
          /\ bound[handle[u].entry] = fresh[u]
          /\ fate[handle[u].entry] \in {"mapped", "evicted"}
      BY <3>1 DEF IInv, Support, LaunchesHold
    <3>3. CASE Still
      BY <3>2, <3>3 DEF Still
    <3>4. CASE GivesBack
      <4>1. handle[u].entry # m[Daemon]
        BY <3>1, <3>2, <3>4 DEF GivesBack
      <4> QED
        BY <3>2, <3>4, <4>1 DEF GivesBack, Freed, IInv, TypeOK, SlotTypeOK
    <3> QED
      BY <3>3, <3>4
  <2>2. ASSUME NEW u \in Threads, pc'[u] \in Launching \cup {"failRelease"}
        PROVE  fresh[u] \in RunIDs /\ pc'[fresh[u]] = "minted"
    <3>1. pc[u] \in Launching \cup {"failRelease"}
      BY <2>2, <1>1 DEF Moves
    <3>2. fresh[u] \in RunIDs /\ pc[fresh[u]] = "minted"
      BY <3>1 DEF IInv, Support, LaunchesHold
    <3> QED
      BY <3>2, <1>1 DEF Moves
  <2>3. ASSUME NEW u \in Threads, pc'[u] = "checkEvicted" PROVE fresh[u] \in RunIDs
    BY <2>3, <1>1 DEF Moves, IInv, Support, LaunchesHold
  <2> QED
    BY <1>1, <2>1, <2>2, <2>3 DEF LaunchesHold
<1>6. HandledRunsEnded'
  BY <1>1 DEF IInv, Support, HandledRunsEnded, Moves
<1>7. OneBody'
  <2> SUFFICES ASSUME NEW r \in RunIDs, Live(r)'
               PROVE  BoundTo(Daemon, r)' \/ Condemned(r)'
    BY DEF OneBody
  <2>1. Live(r)
    BY <1>1 DEF Live, At, Moves
  <2>2. CASE BoundTo(Daemon, r)
    <3>1. Still
      BY <2>1, <2>2 DEF GivesBack, BoundTo
    <3> QED
      BY <2>2, <3>1 DEF Still, BoundTo
  <2>3. CASE \E g \in Registrars : pc[g] \in {"reset", "kill"} /\ subject[g] = r
    BY <2>3, <1>1 DEF Moves, Condemned, Threads
  <2>4. CASE \E u \in Threads : At(u, "checkEvicted") /\ fresh[u] = r /\ Evicted(u)
    <3>1. PICK u \in Threads : At(u, "checkEvicted") /\ fresh[u] = r /\ Evicted(u)
      BY <2>4
    <3>2. At(u, "checkEvicted")' /\ fresh'[u] = r
      BY <3>1, <1>1 DEF At, Moves
    <3>3. Evicted(u)'
      BY <3>1, <1>1, EvictedStays DEF IInv, GivesBack
    <3> QED
      BY <3>2, <3>3 DEF Condemned
  <2> QED
    BY <2>1, <2>2, <2>3, <2>4 DEF IInv, OneBody, Condemned
<1> QED
  BY <1>2, <1>3, <1>4, <1>5, <1>6, <1>7 DEF Support

\* The handle of a goroutine that holds the slot by its run.
LEMMA HoldKeeps ==
  ASSUME IInv, NEW t \in Threads, NEW x, NEW l \in {"park", "adopt"},
         Holding(t, Daemon, x), pc' = [pc EXCEPT ![t] = l],
         pc[t] \in {"holdToPark", "holdToAdopt"},
         l = "adopt" => pc[t] = "holdToAdopt" /\ x = subject[t],
         UNCHANGED <<fresh, subject, row, cancelled>>
  PROVE  Support' /\ OneBody'
<1> USE LifecycleAssumption, ThreadsAreCallers
<1>1. /\ pc \in [Threads -> Labels] /\ RunIDs \subseteq Threads
      /\ handle \in [Threads -> Handles]
      /\ handle' = [handle EXCEPT ![t] = [key |-> Daemon, entry |-> m[Daemon], run |-> x]]
      /\ UNCHANGED <<m, bound, fate, minted>>
  BY DEF IInv, TypeOK, SlotTypeOK, Threads, Holding
<1>2. OneKey'
  BY <1>1 DEF IInv, Support, OneKey
<1>3. FreshRuns'
  BY <1>1 DEF IInv, Support, FreshRuns
<1>4. ClaimsAreBlank'
  BY <1>1 DEF IInv, Support, ClaimsAreBlank, Claiming
<1>5. LaunchesHold'
  BY <1>1 DEF IInv, Support, LaunchesHold, Launching
<1>6. HandledRunsEnded'
  BY <1>1 DEF IInv, Support, HandledRunsEnded, Handling
<1>7. OneBody'
  BY <1>1 DEF IInv, OneBody, Live, At, BoundTo, Condemned, Evicted, Threads
<1> QED
  BY <1>2, <1>3, <1>4, <1>5, <1>6, <1>7 DEF Support

\* A claim of the free slot.
LEMMA ClaimKeeps ==
  ASSUME IInv, NEW t \in Threads, NEW l \in {"noteSpawn", "recheck"},
         Claim(t, Daemon), pc' = [pc EXCEPT ![t] = l], pc[t] \in {"start", "reclaim"},
         UNCHANGED <<fresh, subject, row, cancelled>>
  PROVE  Support' /\ OneBody'
<1> USE LifecycleAssumption, SlotAssumption, ThreadsAreCallers
<1>1. PICK e \in Entries :
        /\ fate[e] = "unused"
        /\ m' = [m EXCEPT ![Daemon] = e]
        /\ fate' = [fate EXCEPT ![e] = "mapped"]
        /\ handle' = [handle EXCEPT ![t] = [key |-> Daemon, entry |-> e, run |-> NoRun]]
  BY DEF Claim
<1>2. /\ pc \in [Threads -> Labels] /\ RunIDs \subseteq Threads
      /\ handle \in [Threads -> Handles] /\ fate \in [Entries -> Fates]
      /\ m[Daemon] = NoEntry
      /\ UNCHANGED <<bound, minted>>
  BY DEF IInv, TypeOK, SlotTypeOK, Threads, Claim
<1>3. bound[e] = NoRun /\ \A u \in Threads : handle[u].entry # e
  BY <1>1 DEF IInv, SlotInv, EntriesMapped, RunsBoundOnce
<1>4. OneKey'
  BY <1>1, <1>2 DEF IInv, Support, OneKey
<1>5. FreshRuns'
  BY <1>2 DEF IInv, Support, FreshRuns
<1>6. ClaimsAreBlank'
  BY <1>1, <1>2, <1>3 DEF IInv, Support, ClaimsAreBlank
<1>7. LaunchesHold'
  <2>1. ASSUME NEW u \in Threads, pc'[u] \in Launching
        PROVE  /\ handle'[u].entry \in Entries
               /\ bound[handle'[u].entry] = fresh[u]
               /\ fate'[handle'[u].entry] \in {"mapped", "evicted"}
    <3>1. u # t /\ pc[u] \in Launching
      BY <2>1, <1>2 DEF Launching
    <3> QED
      BY <3>1, <1>1, <1>2, <1>3 DEF IInv, Support, LaunchesHold
  <2> QED
    BY <2>1, <1>2 DEF IInv, Support, LaunchesHold, Launching
<1>8. HandledRunsEnded'
  BY <1>1, <1>2 DEF IInv, Support, HandledRunsEnded, Handling
<1>9. OneBody'
  <2> SUFFICES ASSUME NEW r \in RunIDs, Live(r)'
               PROVE  Condemned(r)'
    BY DEF OneBody
  <2>1. Condemned(r)
    BY <1>2 DEF IInv, OneBody, Live, At, BoundTo
  <2>2. CASE \E g \in Registrars : pc[g] \in {"reset", "kill"} /\ subject[g] = r
    BY <2>2, <1>2 DEF Condemned, Threads
  <2>3. CASE \E u \in Threads : At(u, "checkEvicted") /\ fresh[u] = r /\ Evicted(u)
    BY <2>3, <1>1, <1>2, <1>3 DEF Condemned, At, Evicted, Handles
  <2> QED
    BY <2>1, <2>2, <2>3 DEF Condemned
<1> QED
  BY <1>4, <1>5, <1>6, <1>7, <1>8, <1>9 DEF Support

\* A launcher binds the slot it owns to a fresh run: no one else works with
\* the entry, and the run it was bound to is not running.
LEMMA BindKeeps ==
  ASSUME IInv, NEW t \in Threads, NEW r \in RunIDs \ ManualRuns, NEW l \in Launching,
         Owned(t), Rebind(t, r),
         \A u \in Threads : u # t /\ pc[u] \in Claiming \cup Launching =>
           handle[u].entry # handle[t].entry,
         \A q \in RunIDs : Live(q) => bound[handle[t].entry] # q,
         pc[t] \in {"attach", "adopt"},
         pc' = [pc EXCEPT ![t] = l, ![r] = "minted"],
         fresh' = [fresh EXCEPT ![t] = r],
         UNCHANGED <<subject, row, cancelled>>
  PROVE  Support' /\ OneBody'
<1> USE LifecycleAssumption, SlotAssumption, ThreadsAreCallers
<1>1. /\ pc \in [Threads -> Labels] /\ RunIDs \subseteq Threads
      /\ fresh \in [Threads -> RunIDs \cup {NoRun}]
      /\ bound \in [Entries -> RunIDs \cup {NoRun}]
      /\ minted \subseteq RunIDs
  BY DEF IInv, TypeOK, SlotTypeOK, Threads
<1>2. PICK e \in Entries : e = handle[t].entry /\ fate[e] = "mapped" /\ m[Daemon] = e
  BY DEF IInv, TypeOK, SlotTypeOK, Handles, Owned, SlotInv, EntriesMapped, Support, OneKey
<1>3. /\ UNCHANGED <<m, fate, handle>> /\ minted' = minted \cup {r}
      /\ bound' = [bound EXCEPT ![e] = r] /\ r \notin minted
  BY <1>2 DEF Rebind
<1>4. pc[r] = "unborn" /\ r # t
  BY <1>3 DEF IInv, Support, FreshRuns
<1>5. OneKey'
  BY <1>3 DEF IInv, Support, OneKey
<1>6. FreshRuns'
  BY <1>1, <1>3, <1>4 DEF IInv, Support, FreshRuns
<1>7. ClaimsAreBlank'
  BY <1>1, <1>2, <1>3, <1>4 DEF IInv, Support, ClaimsAreBlank, Claiming, Launching
<1>8. LaunchesHold'
  <2>1. ASSUME NEW u \in Threads, pc'[u] \in Launching
        PROVE  /\ handle'[u].entry \in Entries
               /\ bound'[handle'[u].entry] = fresh'[u]
               /\ fate'[handle'[u].entry] \in {"mapped", "evicted"}
    <3>1. CASE u = t
      BY <3>1, <1>1, <1>2, <1>3
    <3>2. CASE u # t
      <4>1. pc[u] \in Launching
        BY <2>1, <3>2, <1>1, <1>4 DEF Launching
      <4> QED
        BY <4>1, <3>2, <1>1, <1>2, <1>3 DEF IInv, Support, LaunchesHold
    <3> QED
      BY <3>1, <3>2
  <2>2. ASSUME NEW u \in Threads, pc'[u] \in Launching \cup {"failRelease"}
        PROVE  fresh'[u] \in RunIDs /\ pc'[fresh'[u]] = "minted"
    <3>1. CASE u = t
      BY <3>1, <1>1, <1>4
    <3>2. CASE u # t
      <4>1. pc[u] \in Launching \cup {"failRelease"}
        BY <2>2, <3>2, <1>1, <1>4 DEF Launching
      <4>2. fresh[u] \in RunIDs /\ pc[fresh[u]] = "minted"
        BY <4>1 DEF IInv, Support, LaunchesHold
      <4> QED
        BY <4>2, <3>2, <1>1, <1>4 DEF Launching
    <3> QED
      BY <3>1, <3>2
  <2>3. ASSUME NEW u \in Threads, pc'[u] = "checkEvicted" PROVE fresh'[u] \in RunIDs
    BY <2>3, <1>1, <1>4 DEF Launching, IInv, Support, LaunchesHold
  <2> QED
    BY ONLY <2>1, <2>2, <2>3 DEF LaunchesHold
<1>9. HandledRunsEnded'
  BY <1>1, <1>3, <1>4 DEF IInv, Support, HandledRunsEnded, Handling, Launching
<1>10. OneBody'
  <2> SUFFICES ASSUME NEW q \in RunIDs, Live(q)'
               PROVE  BoundTo(Daemon, q)' \/ Condemned(q)'
    BY DEF OneBody
  <2>1. Live(q)
    BY <1>1, <1>4 DEF Live, At, Launching
  <2>2. Condemned(q)
    <3>1. bound[m[Daemon]] # q
      BY <2>1, <1>2
    <3>2. BoundTo(Daemon, q) \/ Condemned(q)
      BY <2>1 DEF IInv, OneBody
    <3> QED
      BY <3>1, <3>2 DEF BoundTo
  <2>3. CASE \E g \in Registrars : pc[g] \in {"reset", "kill"} /\ subject[g] = q
    BY <2>3, <1>1, <1>4 DEF Condemned, Threads
  <2>4. CASE \E u \in Threads : At(u, "checkEvicted") /\ fresh[u] = q /\ Evicted(u)
    BY <2>4, <1>1, <1>3, <1>4 DEF Condemned, At, Evicted
  <2> QED
    BY <2>2, <2>3, <2>4 DEF Condemned
<1> QED
  BY <1>5, <1>6, <1>7, <1>8, <1>9, <1>10 DEF Support

\* beginRun: the launched run's body starts, and its launcher holds the slot
\* for it or is about to see that it lost it.
LEMMA BeginKeeps ==
  ASSUME IInv, NEW t \in Threads, BeginRun(t)
  PROVE  Support' /\ OneBody'
<1> USE LifecycleAssumption, SlotAssumption, ThreadsAreCallers
<1> DEFINE r == fresh[t]
<1>1. /\ pc \in [Threads -> Labels] /\ RunIDs \subseteq Threads
      /\ row \in [RunIDs -> Statuses]
      /\ pc' = [pc EXCEPT ![t] = "checkEvicted", ![r] = "body"]
      /\ row' = [row EXCEPT ![r] = "running"]
      /\ UNCHANGED <<m, bound, fate, handle, minted, fresh, subject, cancelled>>
  BY DEF IInv, TypeOK, Threads, BeginRun, slotVars
<1>2. /\ pc[t] = "begin" /\ r \in RunIDs /\ pc[r] = "minted" /\ r # t
      /\ handle[t].entry \in Entries /\ bound[handle[t].entry] = r
      /\ fate[handle[t].entry] \in {"mapped", "evicted"}
  BY DEF BeginRun, At, IInv, Support, LaunchesHold, Launching
<1>3. OneKey'
  BY <1>1 DEF IInv, Support, OneKey
<1>4. FreshRuns'
  BY <1>1, <1>2 DEF IInv, Support, FreshRuns
<1>5. ClaimsAreBlank'
  BY <1>1, <1>2 DEF IInv, Support, ClaimsAreBlank, Claiming
<1>6. LaunchesHold'
  <2>1. ASSUME NEW u \in Threads, pc'[u] \in Launching \cup {"failRelease"}
        PROVE  /\ u # t /\ pc[u] \in Launching \cup {"failRelease"}
               /\ fresh[u] \in RunIDs /\ pc'[fresh[u]] = "minted"
    <3>1. u # t /\ u # r /\ pc[u] = pc'[u]
      BY <2>1, <1>1, <1>2 DEF Launching
    <3>2. fresh[u] \in RunIDs /\ pc[fresh[u]] = "minted" /\ fresh[u] # r
      BY <2>1, <3>1, <1>2 DEF IInv, Support, LaunchesHold, FreshRuns
    <3> QED
      BY <2>1, <3>1, <3>2, <1>1, <1>2
  <2>2. ASSUME NEW u \in Threads, pc'[u] \in Launching
        PROVE  /\ handle[u].entry \in Entries
               /\ bound[handle[u].entry] = fresh[u]
               /\ fate[handle[u].entry] \in {"mapped", "evicted"}
    <3>1. pc[u] \in Launching
      BY <2>2, <1>1, <1>2 DEF Launching
    <3> QED
      BY <3>1 DEF IInv, Support, LaunchesHold
  <2>3. ASSUME NEW u \in Threads, pc'[u] = "checkEvicted" PROVE fresh[u] \in RunIDs
    BY <2>3, <1>1, <1>2 DEF IInv, Support, LaunchesHold
  <2> QED
    BY <1>1, <2>1, <2>2, <2>3 DEF LaunchesHold
<1>7. HandledRunsEnded'
  <2>1. row[r] = "none"
    BY <1>2 DEF IInv, Support, HandledRunsEnded
  <2> QED
    BY <2>1, <1>1, <1>2 DEF IInv, Support, HandledRunsEnded, Handling
<1>8. OneBody'
  <2> SUFFICES ASSUME NEW q \in RunIDs, Live(q)'
               PROVE  BoundTo(Daemon, q)' \/ Condemned(q)'
    BY DEF OneBody
  <2>1. CASE q = r
    <3>1. CASE fate[handle[t].entry] = "mapped"
      <4>1. m[Daemon] = handle[t].entry
        BY <3>1, <1>2 DEF IInv, SlotInv, EntriesMapped, Support, OneKey
      <4> QED
        BY <4>1, <2>1, <1>1, <1>2 DEF BoundTo
    <3>2. CASE fate[handle[t].entry] = "evicted"
      BY <3>2, <2>1, <1>1, <1>2 DEF Condemned, At, Evicted
    <3> QED
      BY <3>1, <3>2, <1>2
  <2>2. CASE q # r
    <3>1. Live(q)
      BY <2>2, <1>1, <1>2 DEF Live, At
    <3>2. BoundTo(Daemon, q) \/ Condemned(q)
      BY <3>1 DEF IInv, OneBody
    <3> QED
      BY <3>2, <1>1, <1>2 DEF BoundTo, Condemned, At, Evicted, Threads
  <2> QED
    BY <2>1, <2>2
<1> QED
  BY <1>3, <1>4, <1>5, <1>6, <1>7, <1>8 DEF Support

\* A call returns: its handle and its launch are forgotten.
LEMMA ExitKeeps ==
  ASSUME IInv, NEW t \in Threads, Exit(t)
  PROVE  Support' /\ OneBody'
<1> USE LifecycleAssumption, SlotAssumption, ThreadsAreCallers
<1>1. PICK l \in {"idle", "done"} : pc' = [pc EXCEPT ![t] = l]
  BY DEF Exit, Goto
<1>2. /\ pc \in [Threads -> Labels] /\ RunIDs \subseteq Threads
      /\ handle \in [Threads -> Handles] /\ fresh \in [Threads -> RunIDs \cup {NoRun}]
      /\ subject \in [Threads -> RunIDs \cup {NoRun}]
      /\ pc[t] = "exit"
      /\ handle' = [handle EXCEPT ![t].entry = NoEntry, ![t].run = NoRun]
      /\ fresh' = [fresh EXCEPT ![t] = NoRun]
      /\ \A u \in Threads : u # t => subject'[u] = subject[u]
      /\ UNCHANGED <<m, bound, fate, minted, row, cancelled>>
  BY DEF IInv, TypeOK, SlotTypeOK, Threads, Exit, At, Discard, KeepRows, rowVars
<1>3. /\ \A u \in Threads : handle'[u].key = handle[u].key
      /\ \A u \in Threads : u # t => handle'[u] = handle[u]
  BY <1>2 DEF Handles
<1>4. OneKey'
  BY <1>3 DEF IInv, Support, OneKey
<1>5. FreshRuns'
  BY <1>1, <1>2 DEF IInv, Support, FreshRuns
<1>6. ClaimsAreBlank'
  BY <1>1, <1>2, <1>3 DEF IInv, Support, ClaimsAreBlank, Claiming
<1>7. LaunchesHold'
  <2>1. \A u \in Threads : pc'[u] \in Launching \cup {"failRelease", "checkEvicted"} =>
          u # t /\ pc[u] = pc'[u] /\ handle'[u] = handle[u] /\ fresh'[u] = fresh[u]
    BY <1>1, <1>2, <1>3 DEF Launching
  <2>2. \A q \in RunIDs : pc[q] = "minted" => pc'[q] = "minted"
    BY <1>1, <1>2
  <2> QED
    BY <2>1, <2>2, <1>2 DEF IInv, Support, LaunchesHold
<1>8. HandledRunsEnded'
  BY <1>1, <1>2, <1>3 DEF IInv, Support, HandledRunsEnded, Handling
<1>9. OneBody'
  <2> SUFFICES ASSUME NEW q \in RunIDs, Live(q)'
               PROVE  BoundTo(Daemon, q)' \/ Condemned(q)'
    BY DEF OneBody
  <2>1. Live(q)
    BY <1>1, <1>2 DEF Live, At
  <2>2. CASE BoundTo(Daemon, q)
    BY <2>2, <1>2 DEF BoundTo
  <2>3. CASE \E g \in Registrars : pc[g] \in {"reset", "kill"} /\ subject[g] = q
    BY <2>3, <1>1, <1>2 DEF Condemned, Threads
  <2>4. CASE \E u \in Threads : At(u, "checkEvicted") /\ fresh[u] = q /\ Evicted(u)
    BY <2>4, <1>1, <1>2, <1>3 DEF Condemned, At, Evicted
  <2> QED
    BY <2>1, <2>2, <2>3, <2>4 DEF IInv, OneBody, Condemned
<1> QED
  BY <1>4, <1>5, <1>6, <1>7, <1>8, <1>9 DEF Support

\* launchDaemon's last look: an evicted body is killed.
LEMMA KillIfEvictedKeeps ==
  ASSUME IInv, NEW t \in Threads, KillIfEvicted(t)
  PROVE  Support' /\ OneBody'
<1> USE LifecycleAssumption, SlotAssumption, ThreadsAreCallers
<1>1. /\ pc \in [Threads -> Labels] /\ RunIDs \subseteq Threads
      /\ pc[t] = "checkEvicted" /\ pc' = [pc EXCEPT ![t] = "exit"]
      /\ fresh[t] \in RunIDs
      /\ UNCHANGED <<m, bound, fate, handle, minted, fresh, subject, row>>
      /\ cancelled \subseteq cancelled'
      /\ Evicted(t) /\ pc[fresh[t]] = "body" => fresh[t] \in cancelled'
  BY DEF IInv, TypeOK, Threads, KillIfEvicted, At, Goto, KeepLocals, slotVars, rowVars, Kill,
         Support, LaunchesHold
<1>2. OneKey'
  BY <1>1 DEF IInv, Support, OneKey
<1>3. FreshRuns'
  BY <1>1 DEF IInv, Support, FreshRuns
<1>4. ClaimsAreBlank'
  BY <1>1 DEF IInv, Support, ClaimsAreBlank, Claiming
<1>5. LaunchesHold'
  <2>1. \A u \in Threads : pc'[u] \in Launching \cup {"failRelease", "checkEvicted"} =>
          pc[u] = pc'[u]
    BY <1>1 DEF Launching
  <2>2. \A q \in RunIDs : pc[q] = "minted" => pc'[q] = "minted"
    BY <1>1
  <2> QED
    BY <2>1, <2>2, <1>1 DEF IInv, Support, LaunchesHold
<1>6. HandledRunsEnded'
  BY <1>1 DEF IInv, Support, HandledRunsEnded, Handling
<1>7. OneBody'
  <2> SUFFICES ASSUME NEW q \in RunIDs, Live(q)'
               PROVE  BoundTo(Daemon, q)' \/ Condemned(q)'
    BY DEF OneBody
  <2>1. Live(q) /\ pc[q] = "body" /\ q \notin cancelled'
    BY <1>1 DEF Live, At
  <2>2. CASE BoundTo(Daemon, q)
    BY <2>2, <1>1 DEF BoundTo
  <2>3. CASE \E g \in Registrars : pc[g] \in {"reset", "kill"} /\ subject[g] = q
    BY <2>3, <1>1 DEF Condemned, Threads
  <2>4. CASE \E u \in Threads : At(u, "checkEvicted") /\ fresh[u] = q /\ Evicted(u)
    BY <2>1, <2>4, <1>1 DEF Condemned, At, Evicted
  <2> QED
    BY <2>1, <2>2, <2>3, <2>4 DEF IInv, OneBody, Condemned
<1> QED
  BY <1>2, <1>3, <1>4, <1>5, <1>6, <1>7 DEF Support

\* A resume or a sweep takes up a run whose body has ended.
LEMMA HandleKeeps ==
  ASSUME IInv, NEW t \in Threads, NEW r \in RunIDs,
         NEW l \in {"consume", "holdToAdopt", "sweepSpec", "exit"},
         NEW x \in {"suspended", "resumed", "cancelled"},
         pc[t] \in {"idle", "consume"}, pc' = [pc EXCEPT ![t] = l],
         subject' = [subject EXCEPT ![t] = r],
         row[r] \in {"suspended", "resumed", "cancelled"}, row' = [row EXCEPT ![r] = x],
         UNCHANGED <<slotVars, fresh, cancelled>>
  PROVE  Support' /\ OneBody'
<1> USE LifecycleAssumption, SlotAssumption, ThreadsAreCallers
<1>1. /\ pc \in [Threads -> Labels] /\ RunIDs \subseteq Threads
      /\ row \in [RunIDs -> Statuses] /\ subject \in [Threads -> RunIDs \cup {NoRun}]
      /\ UNCHANGED <<m, bound, fate, handle, minted>>
  BY DEF IInv, TypeOK, Threads, slotVars
<1>2. OneKey'
  BY <1>1 DEF IInv, Support, OneKey
<1>3. FreshRuns'
  BY <1>1 DEF IInv, Support, FreshRuns
<1>4. ClaimsAreBlank'
  BY <1>1 DEF IInv, Support, ClaimsAreBlank, Claiming
<1>5. LaunchesHold'
  <2>1. \A u \in Threads : pc'[u] \in Launching \cup {"failRelease", "checkEvicted"} =>
          pc[u] = pc'[u]
    BY <1>1 DEF Launching
  <2>2. \A q \in RunIDs : pc[q] = "minted" => pc'[q] = "minted"
    BY <1>1
  <2> QED
    BY <2>1, <2>2, <1>1 DEF IInv, Support, LaunchesHold
<1>6. HandledRunsEnded'
  BY <1>1 DEF IInv, Support, HandledRunsEnded, Handling
<1>7. OneBody'
  <2> SUFFICES ASSUME NEW q \in RunIDs, Live(q)'
               PROVE  BoundTo(Daemon, q)' \/ Condemned(q)'
    BY DEF OneBody
  <2>1. Live(q)
    BY <1>1 DEF Live, At
  <2>2. CASE BoundTo(Daemon, q)
    BY <2>2, <1>1 DEF BoundTo
  <2>3. CASE \E g \in Registrars : pc[g] \in {"reset", "kill"} /\ subject[g] = q
    BY <2>3, <1>1 DEF Condemned, Threads
  <2>4. CASE \E u \in Threads : At(u, "checkEvicted") /\ fresh[u] = q /\ Evicted(u)
    BY <2>4, <1>1 DEF Condemned, At, Evicted
  <2> QED
    BY <2>1, <2>2, <2>3, <2>4 DEF IInv, OneBody, Condemned
<1> QED
  BY <1>2, <1>3, <1>4, <1>5, <1>6, <1>7 DEF Support

\* Unregister takes the slot: the run it finds there is the one it will kill.
LEMMA EvictKeeps ==
  ASSUME IInv, NEW t \in Registrars, EvictSlot(t)
  PROVE  Support' /\ OneBody'
<1> USE LifecycleAssumption, SlotAssumption, ThreadsAreCallers
<1>1. /\ pc \in [Threads -> Labels] /\ RunIDs \subseteq Threads /\ t \in Threads
      /\ subject \in [Threads -> RunIDs \cup {NoRun}]
      /\ pc[t] = "evict" /\ pc' = [pc EXCEPT ![t] = "reset"]
      /\ subject' = [subject EXCEPT ![t] = Current(Daemon)]
      /\ UNCHANGED <<bound, handle, minted, fresh, row, cancelled>>
      /\ UNCHANGED slotVars \/ Freed(Daemon, "evicted")
  BY DEF IInv, TypeOK, Threads, EvictSlot, At, Goto, Evict, Freed, slotVars, KeepRows, rowVars
<1>2. OneKey'
  BY <1>1 DEF IInv, Support, OneKey
<1>3. FreshRuns'
  BY <1>1 DEF IInv, Support, FreshRuns
<1>4. ClaimsAreBlank'
  BY <1>1 DEF IInv, Support, ClaimsAreBlank, Claiming
<1>5. LaunchesHold'
  <2>1. \A u \in Threads : pc'[u] \in Launching \cup {"failRelease", "checkEvicted"} =>
          pc[u] = pc'[u]
    BY <1>1 DEF Launching
  <2>2. \A q \in RunIDs : pc[q] = "minted" => pc'[q] = "minted"
    BY <1>1
  <2>3. \A e \in Entries : fate[e] \in {"mapped", "evicted"} => fate'[e] \in {"mapped", "evicted"}
    BY <1>1 DEF slotVars, Freed, IInv, TypeOK, SlotTypeOK
  <2> QED
    BY <2>1, <2>2, <2>3, <1>1 DEF IInv, Support, LaunchesHold
<1>6. HandledRunsEnded'
  BY <1>1 DEF IInv, Support, HandledRunsEnded, Handling
<1>7. OneBody'
  <2> SUFFICES ASSUME NEW q \in RunIDs, Live(q)'
               PROVE  Condemned(q)'
    BY DEF OneBody
  <2>1. Live(q)
    BY <1>1 DEF Live, At
  <2>2. CASE BoundTo(Daemon, q)
    BY <2>2, <1>1 DEF BoundTo, Current, Condemned
  <2>3. CASE \E g \in Registrars : pc[g] \in {"reset", "kill"} /\ subject[g] = q
    BY <2>3, <1>1 DEF Condemned, Threads
  <2>4. CASE \E u \in Threads : At(u, "checkEvicted") /\ fresh[u] = q /\ Evicted(u)
    <3>1. PICK u \in Threads : At(u, "checkEvicted") /\ fresh[u] = q /\ Evicted(u)
      BY <2>4
    <3>2. Evicted(u)'
      BY <3>1, <1>1, EvictedStays DEF IInv, Still, slotVars
    <3> QED
      BY <3>1, <3>2, <1>1 DEF Condemned, At
  <2> QED
    BY <2>1, <2>2, <2>3, <2>4 DEF IInv, OneBody, Condemned
<1> QED
  BY <1>2, <1>3, <1>4, <1>5, <1>6, <1>7 DEF Support

\* Unregister kills the run it was committed to kill.
LEMMA KillKeeps ==
  ASSUME IInv, NEW t \in Registrars, KillEvictedRun(t)
  PROVE  Support' /\ OneBody'
<1> USE LifecycleAssumption, SlotAssumption, ThreadsAreCallers
<1>1. PICK l \in {"exit", "enrol"} : pc' = [pc EXCEPT ![t] = l]
  BY DEF KillEvictedRun, Branch, Goto
<1>2. /\ pc \in [Threads -> Labels] /\ RunIDs \subseteq Threads /\ t \in Threads
      /\ pc[t] = "kill"
      /\ UNCHANGED <<m, bound, fate, handle, minted, fresh, subject, row>>
      /\ cancelled \subseteq cancelled'
      /\ subject[t] \in RunIDs /\ pc[subject[t]] = "body" => subject[t] \in cancelled'
  BY DEF IInv, TypeOK, Threads, KillEvictedRun, At, KeepLocals, slotVars, rowVars, Kill
<1>3. OneKey'
  BY <1>2 DEF IInv, Support, OneKey
<1>4. FreshRuns'
  BY <1>1, <1>2 DEF IInv, Support, FreshRuns
<1>5. ClaimsAreBlank'
  BY <1>1, <1>2 DEF IInv, Support, ClaimsAreBlank, Claiming
<1>6. LaunchesHold'
  <2>1. \A u \in Threads : pc'[u] \in Launching \cup {"failRelease", "checkEvicted"} =>
          pc[u] = pc'[u]
    BY <1>1, <1>2 DEF Launching
  <2>2. \A q \in RunIDs : pc[q] = "minted" => pc'[q] = "minted"
    BY <1>1, <1>2
  <2> QED
    BY <2>1, <2>2, <1>2 DEF IInv, Support, LaunchesHold
<1>7. HandledRunsEnded'
  BY <1>1, <1>2 DEF IInv, Support, HandledRunsEnded, Handling
<1>8. OneBody'
  <2> SUFFICES ASSUME NEW q \in RunIDs, Live(q)'
               PROVE  BoundTo(Daemon, q)' \/ Condemned(q)'
    BY DEF OneBody
  <2>1. Live(q) /\ pc[q] = "body" /\ q \notin cancelled'
    BY <1>1, <1>2 DEF Live, At
  <2>2. CASE BoundTo(Daemon, q)
    BY <2>2, <1>2 DEF BoundTo
  <2>3. CASE \E g \in Registrars : pc[g] \in {"reset", "kill"} /\ subject[g] = q
    BY <2>1, <2>3, <1>1, <1>2 DEF Condemned, Threads
  <2>4. CASE \E u \in Threads : At(u, "checkEvicted") /\ fresh[u] = q /\ Evicted(u)
    BY <2>4, <1>1, <1>2 DEF Condemned, At, Evicted
  <2> QED
    BY <2>1, <2>2, <2>3, <2>4 DEF IInv, OneBody, Condemned
<1> QED
  BY <1>3, <1>4, <1>5, <1>6, <1>7, <1>8 DEF Support

\* A body ends, or a manual fire starts one that has no slot.
LEMMA BodyKeeps ==
  ASSUME IInv, NEW r \in RunIDs, NEW x \in Statuses,
         \/ pc[r] = "body" /\ pc' = [pc EXCEPT ![r] = "lookup"]
         \/ /\ pc[r] = "unborn" /\ r \in ManualRuns /\ x = "running"
            /\ pc' = [pc EXCEPT ![r] = "body"],
         row' = [row EXCEPT ![r] = x],
         UNCHANGED <<slotVars, fresh, subject, cancelled>>
  PROVE  Support' /\ OneBody'
<1> USE LifecycleAssumption, SlotAssumption, ThreadsAreCallers
<1>1. /\ pc \in [Threads -> Labels] /\ RunIDs \subseteq Threads
      /\ row \in [RunIDs -> Statuses] /\ subject \in [Threads -> RunIDs \cup {NoRun}]
      /\ UNCHANGED <<m, bound, fate, handle, minted>>
      /\ row[r] \in {"none", "running"}
  BY DEF IInv, TypeOK, Threads, slotVars, Support, HandledRunsEnded
<1>2. OneKey'
  BY <1>1 DEF IInv, Support, OneKey
<1>3. FreshRuns'
  BY <1>1 DEF IInv, Support, FreshRuns
<1>4. ClaimsAreBlank'
  BY <1>1 DEF IInv, Support, ClaimsAreBlank, Claiming
<1>5. LaunchesHold'
  <2>1. \A u \in Threads : pc'[u] \in Launching \cup {"failRelease", "checkEvicted"} =>
          pc[u] = pc'[u]
    BY <1>1 DEF Launching
  <2>2. \A q \in RunIDs : pc[q] = "minted" => pc'[q] = "minted"
    BY <1>1
  <2> QED
    BY <2>1, <2>2, <1>1 DEF IInv, Support, LaunchesHold
<1>6. HandledRunsEnded'
  BY <1>1 DEF IInv, Support, HandledRunsEnded, Handling
<1>7. OneBody'
  <2> SUFFICES ASSUME NEW q \in RunIDs, Live(q)'
               PROVE  BoundTo(Daemon, q)' \/ Condemned(q)'
    BY DEF OneBody
  <2>1. Live(q)
    BY <1>1 DEF Live, At
  <2>2. CASE BoundTo(Daemon, q)
    BY <2>2, <1>1 DEF BoundTo
  <2>3. CASE \E g \in Registrars : pc[g] \in {"reset", "kill"} /\ subject[g] = q
    BY <2>3, <1>1 DEF Condemned, Threads
  <2>4. CASE \E u \in Threads : At(u, "checkEvicted") /\ fresh[u] = q /\ Evicted(u)
    BY <2>4, <1>1 DEF Condemned, At, Evicted
  <2> QED
    BY <2>1, <2>2, <2>3, <2>4 DEF IInv, OneBody, Condemned
<1> QED
  BY <1>2, <1>3, <1>4, <1>5, <1>6, <1>7 DEF Support

-----------------------------------------------------------------------------
(* Every action keeps the support and OneBody.                             *)

\* Only cancellations are added: operators, and Engine.Start's shutdown.
LEMMA CancelKeeps ==
  ASSUME IInv, UNCHANGED <<slotVars, pc, fresh, subject, row>>, cancelled \subseteq cancelled'
  PROVE  Support' /\ OneBody'
<1>1. UNCHANGED <<m, bound, fate, handle, minted>>
  BY DEF slotVars
<1>2. Support'
  BY <1>1 DEF IInv, Support, OneKey, FreshRuns, ClaimsAreBlank, LaunchesHold, HandledRunsEnded
<1>3. OneBody'
  BY <1>1 DEF IInv, OneBody, Live, At, BoundTo, Condemned, Evicted
<1> QED
  BY <1>2, <1>3

\* The entry of a launch that failed, or of a finished or swept run, is given
\* back: no goroutine launches into it and no live run is bound to it.
LEMMA FailReleaseGivesBack ==
  ASSUME IInv, NEW t \in Threads, pc[t] = "failRelease", Release(t, fresh[t])
  PROVE  GivesBack
<1> USE LifecycleAssumption, SlotAssumption, ThreadsAreCallers
<1>1. /\ handle[t].key = Daemon /\ handle[t].entry = m[Daemon] /\ m[Daemon] # NoEntry
      /\ bound[m[Daemon]] = fresh[t] /\ fresh[t] \in RunIDs /\ pc[fresh[t]] = "minted"
  BY DEF IInv, Support, OneKey, LaunchesHold, Release, Owned
<1>2. Freed(Daemon, "released")
  BY <1>1 DEF Freed, Release
<1>3. \A u \in Threads : pc[u] \in Launching => fresh[u] # fresh[t]
  BY <1>1, SlotAssumption DEF IInv, Support, FreshRuns, Launching, TypeOK, SlotTypeOK
<1> QED
  BY <1>1, <1>2, <1>3 DEF GivesBack, Live, At

LEMMA AbandonGivesBack ==
  ASSUME IInv, NEW t \in Threads, Release(t, NoRun)
  PROVE  GivesBack
<1> USE LifecycleAssumption, SlotAssumption, ThreadsAreCallers
<1>1. /\ handle[t].key = Daemon /\ handle[t].entry = m[Daemon] /\ m[Daemon] # NoEntry
      /\ bound[m[Daemon]] = NoRun
  BY DEF IInv, Support, OneKey, Release, Owned
<1>2. Freed(Daemon, "released")
  BY <1>1 DEF Freed, Release
<1>3. \A u \in Threads : pc[u] \in Launching => fresh[u] \in RunIDs
  BY DEF IInv, Support, LaunchesHold
<1> QED
  BY <1>1, <1>2, <1>3 DEF GivesBack

LEMMA RunGivesBack ==
  ASSUME IInv, NEW r \in RunIDs, ReleaseRun(Daemon, r), pc[r] \notin {"minted", "body"}
  PROVE  GivesBack
<1> USE LifecycleAssumption, SlotAssumption, ThreadsAreCallers
<1>1. m[Daemon] # NoEntry /\ bound[m[Daemon]] = r /\ Freed(Daemon, "released")
  BY DEF ReleaseRun, BoundTo, Freed
<1>2. \A u \in Threads : pc[u] \in Launching => pc[fresh[u]] = "minted"
  BY DEF IInv, Support, LaunchesHold
<1> QED
  BY <1>1, <1>2 DEF GivesBack, Live, At

\* A step of t that only moves it, and may give the slot back.
Quietly(t) ==
  /\ \E l \in Labels : Moves(t, l)
  /\ Still \/ GivesBack
  /\ UNCHANGED <<fresh, subject, row>>
  /\ cancelled \subseteq cancelled'

LEMMA QuietlyKeeps == ASSUME IInv, NEW t \in Threads, Quietly(t) PROVE Support' /\ OneBody'
  BY MoveKeeps DEF Quietly

LEMMA AttachKeeps ==
  ASSUME IInv, NEW t \in Threads, LaunchAttach(t) PROVE Support' /\ OneBody'
<1> USE LifecycleAssumption, SlotAssumption, ThreadsAreCallers
<1>1. CASE ~Owned(t) /\ Goto(t, "clearLost") /\ UNCHANGED <<slotVars, fresh>>
  <2>1. Quietly(t)
    BY <1>1 DEF Quietly, LaunchAttach, Moves, Still, At, Goto, KeepRows, rowVars, slotVars,
                Labels, Claiming, Launching, Handling
  <2> QED
    BY <2>1, QuietlyKeeps
<1>2. ASSUME NEW r \in RunIDs \ ManualRuns, Attach(t, r),
             pc' = [pc EXCEPT ![t] = "publishRunning", ![r] = "minted"],
             fresh' = [fresh EXCEPT ![t] = r]
      PROVE  Support' /\ OneBody'
  <2>1. pc[t] = "attach" /\ UNCHANGED <<subject, row, cancelled>> /\ Owned(t) /\ Rebind(t, r)
    BY <1>2 DEF LaunchAttach, At, KeepRows, rowVars, Attach
  <2>2. handle[t].entry \in Entries /\ bound[handle[t].entry] = NoRun
    BY <2>1 DEF IInv, Support, ClaimsAreBlank, Claiming
  <2>3. ASSUME NEW u \in Threads, u # t, pc[u] \in Claiming \cup Launching
        PROVE  handle[u].entry # handle[t].entry
    <3>1. CASE pc[u] \in Claiming
      BY <2>1, <2>3, <3>1 DEF IInv, Support, ClaimsAreBlank, Claiming
    <3>2. CASE pc[u] \in Launching
      BY <2>2, <3>2 DEF IInv, Support, LaunchesHold
    <3> QED
      BY <2>3, <3>1, <3>2
  <2> QED
    BY <1>2, <2>1, <2>2, <2>3, BindKeeps DEF Launching
<1> QED
  BY <1>1, <1>2 DEF LaunchAttach

LEMMA LaunchKeeps ==
  ASSUME IInv, NEW t \in Threads, LaunchStep(t) PROVE Support' /\ OneBody'
<1>1. CASE LaunchFailRelease(t)
  <2>1. Still \/ GivesBack
    BY <1>1, FailReleaseGivesBack DEF LaunchFailRelease, At, Still, slotVars
  <2>2. Quietly(t)
    BY <1>1, <2>1 DEF Quietly, LaunchFailRelease, Moves, At, Goto, KeepLocals, KeepRows,
                      rowVars, Labels, Claiming, Launching, Handling
  <2> QED
    BY <2>2, QuietlyKeeps
<1>2. ASSUME \/ LaunchNoteSpawn(t) \/ LaunchLost(t) \/ PublishRunning(t) \/ TrackRun(t)
             \/ RefuseRun(t) \/ LaunchFailClear(t) \/ PublishFailed(t)
      PROVE  Quietly(t)
  BY <1>2 DEF LaunchNoteSpawn, LaunchLost, PublishRunning, TrackRun, RefuseRun,
     LaunchFailClear, PublishFailed, Publish, Quietly, Moves, Still, At, Goto, Branch,
     KeepLocals, KeepRows, rowVars, slotVars, Labels, Claiming, Launching, Handling
<1> QED
  BY <1>1, <1>2, QuietlyKeeps, AttachKeeps, BeginKeeps, KillIfEvictedKeeps, ExitKeeps
     DEF LaunchStep

LEMMA RestartKeeps ==
  ASSUME IInv, NEW t \in Threads, RestartStep(t) PROVE Support' /\ OneBody'
<1>1. CASE Reclaim(t)
  <2>1. CASE Claim(t, Daemon) /\ Goto(t, "recheck")
    BY <1>1, <2>1, ClaimKeeps DEF Reclaim, At, Goto, KeepLocals, KeepRows, rowVars
  <2>2. CASE Goto(t, "exit") /\ UNCHANGED slotVars
    <3>1. Quietly(t)
      BY <1>1, <2>2 DEF Reclaim, Quietly, Moves, Still, At, Goto, KeepLocals, KeepRows,
         rowVars, slotVars, Labels, Claiming, Launching, Handling
    <3> QED
      BY <3>1, QuietlyKeeps
  <2> QED
    BY <1>1, <2>1, <2>2 DEF Reclaim
<1>2. CASE Abandon(t)
  <2>1. Still \/ GivesBack
    BY <1>2, AbandonGivesBack DEF Abandon, Still, slotVars
  <2>2. Quietly(t)
    BY <1>2, <2>1 DEF Abandon, Quietly, Moves, At, Goto, KeepLocals, KeepRows, rowVars,
       Labels, Claiming, Launching, Handling
  <2> QED
    BY <2>2, QuietlyKeeps
<1>3. ASSUME PublishStopped(t) \/ AccountExit(t) \/ PublishNoRestart(t) \/ Backoff(t) \/ Recheck(t)
      PROVE  Quietly(t)
  BY <1>3 DEF PublishStopped, AccountExit, PublishNoRestart, Backoff, Recheck, Publish,
     Quietly, Moves, Still, At, Goto, Branch, KeepLocals, KeepRows, rowVars, slotVars,
     Labels, Claiming, Launching, Handling
<1> QED
  BY <1>1, <1>2, <1>3, QuietlyKeeps DEF RestartStep

LEMMA RegistrarKeeps ==
  ASSUME IInv, NEW t \in Registrars, RegistrarStep(t) PROVE Support' /\ OneBody'
<1>0. t \in Threads
  BY DEF Threads
<1>1. CASE StartDaemon(t)
  <2>1. CASE Claim(t, Daemon) /\ Goto(t, "noteSpawn")
    BY <1>0, <1>1, <2>1, ClaimKeeps DEF StartDaemon, At, Goto, KeepLocals, KeepRows, rowVars
  <2>2. CASE Goto(t, "exit") /\ UNCHANGED slotVars
    <3>1. Quietly(t)
      BY <1>1, <2>2 DEF StartDaemon, Quietly, Moves, Still, At, Goto, KeepLocals, KeepRows,
         rowVars, slotVars, Labels, Claiming, Launching, Handling
    <3> QED
      BY <1>0, <3>1, QuietlyKeeps
  <2> QED
    BY <1>1, <2>1, <2>2 DEF StartDaemon
<1>2. ASSUME DropSpec(t) \/ ResetCrashLoop(t) \/ Enrol(t) PROVE Quietly(t)
  BY <1>2 DEF DropSpec, ResetCrashLoop, Enrol, Quietly, Moves, Still, At, Goto, KeepLocals,
     KeepRows, rowVars, slotVars, Labels, Claiming, Launching, Handling
<1> QED
  BY <1>0, <1>1, <1>2, QuietlyKeeps, EvictKeeps, KillKeeps DEF RegistrarStep

LEMMA FinishKeeps ==
  ASSUME IInv, NEW r \in RunIDs, FinishStep(r) PROVE Support' /\ OneBody'
<1>0. r \in Threads
  BY DEF Threads
<1>1. ASSUME ReleaseBlind(r) \/ ReleaseFinished(r) PROVE Quietly(r)
  <2>1. Still \/ GivesBack
    BY <1>1, RunGivesBack DEF ReleaseBlind, ReleaseFinished, At, Still, slotVars
  <2> QED
    BY <1>1, <2>1 DEF ReleaseBlind, ReleaseFinished, Quietly, Moves, At, Goto, KeepLocals,
       KeepRows, rowVars, Labels, Claiming, Launching, Handling
<1>2. CASE HoldToPark(r)
  <2>1. CASE Holding(r, Daemon, r) /\ Goto(r, "park")
    BY <1>0, <1>2, <2>1, HoldKeeps DEF HoldToPark, At, Goto, KeepLocals, KeepRows, rowVars
  <2>2. CASE Goto(r, "exit") /\ UNCHANGED slotVars
    <3>1. Quietly(r)
      BY <1>2, <2>2 DEF HoldToPark, Quietly, Moves, Still, At, Goto, KeepLocals, KeepRows,
         rowVars, slotVars, Labels, Claiming, Launching, Handling
    <3> QED
      BY <1>0, <3>1, QuietlyKeeps
  <2> QED
    BY <1>2, <2>1, <2>2 DEF HoldToPark
<1>3. ASSUME ParkSlot(r) PROVE Quietly(r)
  BY <1>3 DEF ParkSlot, Park, Quietly, Moves, Still, At, Goto, KeepLocals, KeepRows, rowVars,
     slotVars, Labels, Claiming, Launching, Handling
<1>4. ASSUME LookupStatus(r) \/ PublishSuspended(r) \/ CheckRegistered(r) \/ ResetCancelled(r)
      PROVE  Quietly(r)
  BY <1>4 DEF LookupStatus, PublishSuspended, CheckRegistered, ResetCancelled, Publish,
     Quietly, Moves, Still, At, Goto, Branch, KeepLocals, KeepRows, rowVars, slotVars,
     Labels, Claiming, Launching, Handling
<1> QED
  BY <1>0, <1>1, <1>2, <1>3, <1>4, QuietlyKeeps DEF FinishStep

LEMMA AdoptKeeps ==
  ASSUME IInv, NEW u \in Resumers, AdoptSlot(u) PROVE Support' /\ OneBody'
<1> USE LifecycleAssumption, SlotAssumption, ThreadsAreCallers
<1>0. u \in Threads
  BY DEF Threads
<1>1. CASE Goto(u, "exit") /\ UNCHANGED <<slotVars, fresh>>
  <2>1. Quietly(u)
    BY <1>1 DEF Quietly, AdoptSlot, Moves, Still, At, Goto, KeepRows, rowVars, slotVars,
                Labels, Claiming, Launching, Handling
  <2> QED
    BY <1>0, <2>1, QuietlyKeeps
<1>2. ASSUME NEW r \in RunIDs \ ManualRuns, Adopt(u, r),
             pc' = [pc EXCEPT ![u] = "noteRespawn", ![r] = "minted"],
             fresh' = [fresh EXCEPT ![u] = r]
      PROVE  Support' /\ OneBody'
  <2>1. pc[u] = "adopt" /\ UNCHANGED <<subject, row, cancelled>> /\ Owned(u) /\ Rebind(u, r)
    BY <1>2 DEF AdoptSlot, At, KeepRows, rowVars, Adopt
  <2>2. /\ bound[handle[u].entry] = subject[u] /\ subject[u] \in RunIDs
        /\ row[subject[u]] \in {"suspended", "resumed", "cancelled"}
    BY <1>0, <1>2, <2>1 DEF Adopt, IInv, Support, HandledRunsEnded, Handling
  <2>3. ASSUME NEW v \in Threads, v # u, pc[v] \in Claiming \cup Launching
        PROVE  handle[v].entry # handle[u].entry
    <3>1. CASE pc[v] \in Claiming
      BY <2>2, <3>1 DEF IInv, Support, ClaimsAreBlank
    <3>2. CASE pc[v] \in Launching
      <4>1. bound[handle[v].entry] = fresh[v] /\ fresh[v] \in RunIDs /\ pc[fresh[v]] = "minted"
        BY <3>2 DEF IInv, Support, LaunchesHold
      <4>2. row[fresh[v]] = "none"
        BY <4>1 DEF IInv, Support, HandledRunsEnded
      <4> QED
        BY <4>1, <4>2, <2>2
    <3> QED
      BY <2>3, <3>1, <3>2
  <2>4. \A q \in RunIDs : Live(q) => bound[handle[u].entry] # q
    BY <2>2 DEF Live, At, IInv, Support, HandledRunsEnded
  <2> QED
    BY <1>0, <1>2, <2>1, <2>3, <2>4, BindKeeps DEF Launching
<1> QED
  BY <1>1, <1>2 DEF AdoptSlot

LEMMA ResumeKeeps ==
  ASSUME IInv, NEW u \in Resumers, ResumeStep(u) PROVE Support' /\ OneBody'
<1>0. u \in Threads
  BY DEF Threads
<1>1. CASE ConsumeToken(u)
  <2>1. /\ pc[u] = "consume" /\ subject[u] \in RunIDs
        /\ row[subject[u]] \in {"suspended", "resumed", "cancelled"}
        /\ row \in [RunIDs -> Statuses] /\ subject \in [Threads -> RunIDs \cup {NoRun}]
        /\ UNCHANGED <<slotVars, fresh, subject, cancelled>>
    BY <1>0, <1>1 DEF ConsumeToken, At, KeepLocals, IInv, Support, HandledRunsEnded,
                      Handling, TypeOK
  <2>2. subject' = [subject EXCEPT ![u] = subject[u]]
    BY <1>0, <2>1
  <2>3. CASE row[subject[u]] = "suspended"
    <3>1. row' = [row EXCEPT ![subject[u]] = "resumed"] /\ pc' = [pc EXCEPT ![u] = "holdToAdopt"]
      BY <1>1, <2>3 DEF ConsumeToken, Goto
    <3> QED
      BY <1>0, <2>1, <2>2, <3>1, HandleKeeps
  <2>4. CASE row[subject[u]] # "suspended"
    <3>1. Quietly(u)
      BY <1>1, <2>1, <2>4 DEF ConsumeToken, Quietly, Moves, Still, Goto, slotVars, Labels,
         Claiming, Launching, Handling
    <3> QED
      BY <1>0, <3>1, QuietlyKeeps
  <2> QED
    BY <2>3, <2>4
<1>2. CASE HoldToAdopt(u)
  <2>1. CASE Holding(u, Daemon, subject[u]) /\ Goto(u, "adopt")
    BY <1>0, <1>2, <2>1, HoldKeeps DEF HoldToAdopt, At, Goto, KeepLocals, KeepRows, rowVars
  <2>2. CASE Goto(u, "exit") /\ UNCHANGED slotVars
    <3>1. Quietly(u)
      BY <1>2, <2>2 DEF HoldToAdopt, Quietly, Moves, Still, At, Goto, KeepLocals, KeepRows,
         rowVars, slotVars, Labels, Claiming, Launching, Handling
    <3> QED
      BY <1>0, <3>1, QuietlyKeeps
  <2> QED
    BY <1>2, <2>1, <2>2 DEF HoldToAdopt
<1>3. ASSUME ResumeNoteSpawn(u) PROVE Quietly(u)
  BY <1>3 DEF ResumeNoteSpawn, Quietly, Moves, Still, At, Goto, KeepLocals, KeepRows, rowVars,
     slotVars, Labels, Claiming, Launching, Handling
<1> QED
  BY <1>0, <1>1, <1>2, <1>3, QuietlyKeeps, AdoptKeeps DEF ResumeStep

LEMMA SweepKeeps ==
  ASSUME IInv, NEW s \in Sweepers, SweepStep(s) PROVE Support' /\ OneBody'
<1>0. s \in Threads
  BY DEF Threads
<1>1. ASSUME SweepRelease(s) PROVE Quietly(s)
  <2>1. pc[s] = "sweepRelease" /\ subject[s] \in RunIDs /\ pc[subject[s]] \notin {"minted", "body"}
    BY <1>0, <1>1 DEF SweepRelease, At, IInv, Support, HandledRunsEnded, Handling
  <2>2. Still \/ GivesBack
    BY <1>1, <2>1, RunGivesBack DEF SweepRelease, Still, slotVars
  <2> QED
    BY <1>1, <2>2 DEF SweepRelease, Quietly, Moves, At, Goto, KeepLocals, KeepRows, rowVars,
       Labels, Claiming, Launching, Handling
<1>2. ASSUME SweepReadSpec(s) \/ SweepCheckRegistered(s) PROVE Quietly(s)
  BY <1>2 DEF SweepReadSpec, SweepCheckRegistered, Quietly, Moves, Still, At, Goto, Branch,
     KeepLocals, KeepRows, rowVars, slotVars, Labels, Claiming, Launching, Handling
<1> QED
  BY <1>0, <1>1, <1>2, QuietlyKeeps DEF SweepStep

LEMMA StopKeeps == ASSUME IInv, StopStep PROVE Support' /\ OneBody'
<1>1. UNCHANGED <<slotVars, pc, fresh, subject, row>> /\ cancelled \subseteq cancelled'
  BY DEF StopStep, BeginShutdown, SnapshotSlots, KillListed, Drain, Drained, GraceElapsed,
         StartStep, threadVars, KeepRows, rowVars, Kill
<1> QED
  BY <1>1, CancelKeeps

LEMMA EnvironmentKeeps == ASSUME IInv, Environment PROVE Support' /\ OneBody'
<1>0. Registrars \cup Resumers \cup Sweepers \subseteq Threads
  BY DEF Threads
<1>1. ASSUME NEW t \in Registrars,
             CallUnregister(t) \/ \E p \in Policies \cup {NoSpec} : CallRegister(t, p)
      PROVE  Quietly(t)
  BY <1>1 DEF CallUnregister, CallRegister, Quietly, Moves, Still, At, Goto, KeepLocals,
     KeepRows, rowVars, slotVars, Labels, Claiming, Launching, Handling
<1>2. ASSUME NEW u \in Resumers, NEW r \in RunIDs, NEW p \in Policies, CallResume(u, r, p)
      PROVE  Support' /\ OneBody'
  <2>1. row' = [row EXCEPT ![r] = "suspended"]
    BY <1>2 DEF CallResume, KeepRows, rowVars, IInv, TypeOK
  <2> QED
    BY <1>0, <1>2, <2>1, HandleKeeps DEF CallResume, At, Goto, KeepRows, rowVars
<1>3. ASSUME NEW s \in Sweepers, NEW r \in RunIDs, SweepRun(s, r) PROVE Support' /\ OneBody'
  BY <1>0, <1>3, HandleKeeps DEF SweepRun, At, Goto
<1>4. ASSUME NEW r \in ManualRuns, NEW p \in Policies, FireManual(r, p)
      PROVE  Support' /\ OneBody'
  <2>1. r \in RunIDs /\ "running" \in Statuses
    BY LifecycleAssumption DEF Statuses
  <2> QED
    BY <1>4, <2>1, BodyKeeps DEF FireManual, At, Goto
<1>5. ASSUME NEW r \in RunIDs, BodyEnds(r) PROVE Support' /\ OneBody'
  <2>1. PICK x \in Statuses : row' = [row EXCEPT ![r] = x]
    BY <1>5 DEF BodyEnds, Statuses
  <2> QED
    BY <1>5, <2>1, BodyKeeps DEF BodyEnds, At, Goto, KeepLocals
<1>6. ASSUME \/ \E r \in RunIDs : KillByOperator(r)
             \/ ReportSustained \/ CancelContext
      PROVE  UNCHANGED <<slotVars, pc, fresh, subject, row>> /\ cancelled \subseteq cancelled'
  BY <1>6 DEF KillByOperator, ReportSustained, CancelContext, StartStep, threadVars,
     KeepRows, rowVars, Kill
<1> QED
  BY <1>0, <1>1, <1>2, <1>3, <1>4, <1>5, <1>6, QuietlyKeeps, CancelKeeps DEF Environment

-----------------------------------------------------------------------------
(* The theorems.                                                           *)

LEMMA IInvInit == Init => IInv
  BY TypeInit, SupportInit, InitIsSlotInit, SlotInvInit DEF IInv

LEMMA IInvNext == IInv /\ [Next]_vars => IInv'
<1> SUFFICES ASSUME IInv, [Next]_vars PROVE IInv'
  OBVIOUS
<1>1. TypeOK'
  BY TypeNext DEF IInv, Support
<1>2. SlotInv'
  BY NextIsSlotStep, SlotInvNext DEF IInv, TypeOK, SlotIInv
<1>3. ASSUME NEW t \in Threads, ThreadStep(t) PROVE Support' /\ OneBody'
  BY <1>3, LaunchKeeps, RestartKeeps, RegistrarKeeps, FinishKeeps, ResumeKeeps, SweepKeeps
     DEF ThreadStep
<1>4. ASSUME UNCHANGED vars PROVE Support' /\ OneBody'
  BY <1>4, CancelKeeps DEF vars, threadVars, rowVars
<1> QED
  BY <1>1, <1>2, <1>3, <1>4, StopKeeps, EnvironmentKeeps DEF IInv, Next, Step

\* The lifecycle keeps its types, whatever the goroutines do.
THEOREM TypeCorrect == Spec => []TypeOK
<1>1. IInv => TypeOK
  BY DEF IInv
<1> QED
  BY <1>1, IInvInit, IInvNext, PTL DEF Spec

\* "the 'at most one body in flight' invariant" (daemon_slot.go:8): across
\* reloads, restarts, resumes, sweeps, kills and shutdown, a live body holds
\* the daemon's slot or is condemned.
THEOREM OneBodyCorrect == Spec => []OneBody
<1>1. IInv => OneBody
  BY DEF IInv
<1> QED
  BY <1>1, IInvInit, IInvNext, PTL DEF Spec

\* Every behaviour of the lifecycle is one of DaemonSlots: its goroutines use
\* handles only in the ways the slots allow.
THEOREM LifecycleImplementsSlots == Spec => SlotSpec
<1>1. IInv => TypeOK
  BY DEF IInv
<1> QED
  BY <1>1, IInvInit, IInvNext, InitIsSlotInit, NextIsSlotStep, PTL DEF Spec, SlotSpec

\* So the daemon's slot is owned by one run at a time, in every behaviour, and
\* "a handle outlived by an evict or a newer claim is inert".
THEOREM LifecycleOwnership == Spec => ImplementsOwnership /\ InertHandles /\ []SlotInv
  BY LifecycleImplementsSlots, SlotsImplementOwnership, OutlivedHandlesInert,
     SlotConsistent, PTL

-----------------------------------------------------------------------------
(***************************************************************************)
(* The runs of the lifecycle, and the end of a slot.                       *)
(***************************************************************************)

ResumerLabels ==
  {"idle", "consume", "holdToAdopt", "adopt", "noteRespawn", "publishRunning", "track", "begin",
   "checkEvicted", "failRelease", "failClear", "publishFailed", "exit"}

\* A resumer that has consumed a token and not begun the continuation.
Consumed == {"holdToAdopt", "adopt", "noteRespawn", "publishRunning", "track", "begin"}

ResumersResume == \A u \in Resumers : pc[u] \in ResumerLabels

\* The token in a resumer's hand is spent, it has no continuation yet, and no
\* other resumer holds it.
TokensInOneHand ==
  /\ \A u \in Resumers : pc[u] \in Consumed =>
       /\ subject[u] \in RunIDs
       /\ row[subject[u]] = "resumed"
       /\ \A q \in RunIDs : parent[q] # subject[u]
  /\ \A u1, u2 \in Resumers :
       pc[u1] \in Consumed /\ pc[u2] \in Consumed /\ subject[u1] = subject[u2] => u1 = u2

NewRunsContinueNothing == \A r \in RunIDs : pc[r] \in {"unborn", "minted"} => parent[r] = NoRun

\* The inductive invariant behind OneContinuation, relative to IInv.
ContInv == ResumersResume /\ TokensInOneHand /\ NewRunsContinueNothing /\ OneContinuation

-----------------------------------------------------------------------------
(* Steps that neither consume a token nor begin a run.                     *)

\* No token is taken in hand, none is taken back, and no run is new again.
Passes ==
  /\ UNCHANGED parent
  /\ \A r \in RunIDs : row[r] = "resumed" => row'[r] = "resumed"
  /\ \A r \in RunIDs : pc'[r] \in {"unborn", "minted"} => pc[r] \in {"unborn", "minted"}
  /\ \A u \in Resumers :
       /\ pc'[u] \in ResumerLabels
       /\ pc'[u] \in Consumed => pc[u] \in Consumed /\ subject'[u] = subject[u]

\* Who the goroutines are.
LEMMA Goroutines ==
  /\ Resumers \subseteq Threads /\ RunIDs \subseteq Threads
  /\ \A u \in Resumers : u \notin RunIDs /\ u \notin Sweepers /\ u \notin Registrars
  BY LifecycleAssumption DEF Threads

LEMMA PassesKeeps == ASSUME TypeOK, ContInv, Passes PROVE ContInv'
<1>1. ResumersResume' /\ NewRunsContinueNothing'
  BY DEF Passes, ContInv, ResumersResume, NewRunsContinueNothing
<1>2. OneContinuation'
  <2>1. parent \in [RunIDs -> RunIDs \cup {NoRun}]
    BY DEF TypeOK
  <2> QED
    BY <2>1 DEF Passes, ContInv, OneContinuation
<1>3. TokensInOneHand'
  BY DEF Passes, ContInv, TokensInOneHand
<1> QED
  BY <1>1, <1>2, <1>3 DEF ContInv

\* One goroutine goes on to a statement that takes no token in hand.
GoesOn(t, l) ==
  /\ pc' = [pc EXCEPT ![t] = l]
  /\ UNCHANGED rowVars
  /\ l \notin {"unborn", "minted"}
  /\ t \in Resumers => l \in ResumerLabels /\ (l \in Consumed => pc[t] \in Consumed)
  /\ \A u \in Resumers : subject'[u] = subject[u] \/ (u = t /\ l \notin Consumed)

LEMMA GoesOnPasses ==
  ASSUME TypeOK, ContInv, NEW t \in Threads, NEW l, GoesOn(t, l) PROVE Passes
<1>1. pc \in [Threads -> Labels]
  BY DEF TypeOK
<1> QED
  BY <1>1, Goroutines DEF GoesOn, Passes, ContInv, ResumersResume, rowVars

LEMMA LaunchPasses ==
  ASSUME TypeOK, FreshRuns, ContInv, NEW t \in Threads, LaunchStep(t), ~BeginRun(t)
  PROVE  Passes
<1>1. t \in Resumers => pc[t] \in ResumerLabels
  BY DEF ContInv, ResumersResume
<1>2. CASE LaunchAttach(t)
  <2>1. t \notin Resumers
    BY <1>1, <1>2 DEF LaunchAttach, At, ResumerLabels
  <2>2. CASE ~Owned(t)
    <3>1. GoesOn(t, "clearLost")
      BY <1>2, <2>1, <2>2 DEF LaunchAttach, Attach, Goto, GoesOn, KeepRows
    <3> QED
      BY <3>1, GoesOnPasses
  <2>3. ASSUME NEW r \in RunIDs, pc[r] = "unborn", UNCHANGED <<rowVars, subject>>,
               pc' = [pc EXCEPT ![t] = "publishRunning", ![r] = "minted"]
        PROVE  Passes
    <3>1. pc \in [Threads -> Labels]
      BY DEF TypeOK
    <3> QED
      BY <2>1, <2>3, <3>1, Goroutines DEF Passes, ContInv, ResumersResume, rowVars
  <2> QED
    BY <1>2, <2>2, <2>3 DEF LaunchAttach, Attach, Rebind, KeepRows, FreshRuns
<1>3. CASE Exit(t)
  <2>1. GoesOn(t, IF t \in RunIDs THEN "done" ELSE "idle")
    BY <1>3, Goroutines DEF Exit, Goto, GoesOn, KeepRows, TypeOK, ResumerLabels, Consumed
  <2> QED
    BY <2>1, GoesOnPasses
<1>4. ASSUME NEW from, NEW to, At(t, from), Goto(t, to), UNCHANGED <<rowVars, subject>>,
             to \notin {"unborn", "minted"},
             t \in Resumers => to \in ResumerLabels /\ (to \in Consumed => from \in Consumed)
      PROVE  Passes
  BY <1>4, GoesOnPasses DEF GoesOn, Goto, At
<1>5. CASE LaunchNoteSpawn(t) \/ LaunchLost(t)
  BY <1>1, <1>4, <1>5 DEF LaunchNoteSpawn, LaunchLost, KeepLocals, KeepRows, ResumerLabels, Consumed, At
<1>6. CASE PublishRunning(t) \/ PublishFailed(t)
  BY <1>1, <1>4, <1>6 DEF PublishRunning, PublishFailed, Publish, KeepLocals, KeepRows, ResumerLabels, Consumed
<1>7. CASE TrackRun(t)
  BY <1>1, <1>4, <1>7 DEF TrackRun, Branch, KeepLocals, KeepRows, ResumerLabels, Consumed
<1>8. CASE RefuseRun(t) \/ LaunchFailRelease(t) \/ LaunchFailClear(t)
  BY <1>1, <1>4, <1>8
     DEF RefuseRun, LaunchFailRelease, LaunchFailClear, KeepLocals, KeepRows, ResumerLabels, Consumed
<1>9. CASE KillIfEvicted(t)
  BY <1>1, <1>4, <1>9 DEF KillIfEvicted, KeepLocals, ResumerLabels, Consumed
<1> QED
  BY <1>2, <1>3, <1>5, <1>6, <1>7, <1>8, <1>9 DEF LaunchStep

\* No resumer is where a restart, a registrar, a finish or a sweep is.
LEMMA OthersPass ==
  ASSUME TypeOK, ContInv, NEW t \in Threads, NEW to,
         t \notin Resumers, Goto(t, to), UNCHANGED rowVars, to \notin {"unborn", "minted"},
         \A u \in Resumers : subject'[u] = subject[u]
  PROVE  Passes
<1>1. GoesOn(t, to)
  BY DEF GoesOn, Goto
<1> QED
  BY <1>1, GoesOnPasses

LEMMA RestartPasses ==
  ASSUME TypeOK, ContInv, NEW t \in Threads, RestartStep(t) PROVE Passes
<1> USE DEF At, Goto, Branch, KeepLocals, KeepRows
<1>1. PICK from \in {"publishStopped", "noteExit", "publishNoRestart", "backoff", "reclaim", "recheck", "abandon"} :
        pc[t] = from
  BY DEF RestartStep, PublishStopped, AccountExit, PublishNoRestart, Publish, Backoff, Reclaim, Recheck, Abandon
<1>2. t \notin Resumers
  BY <1>1 DEF ContInv, ResumersResume, ResumerLabels
<1>3. PICK to \in {"exit", "backoff", "publishNoRestart", "reclaim", "recheck", "abandon", "noteSpawn"} : Goto(t, to)
  BY DEF RestartStep, PublishStopped, AccountExit, PublishNoRestart, Publish, Backoff, Reclaim, Recheck, Abandon
<1>4. UNCHANGED <<rowVars, subject>>
  BY DEF RestartStep, PublishStopped, AccountExit, PublishNoRestart, Publish, Backoff, Reclaim, Recheck, Abandon
<1> QED
  BY <1>2, <1>3, <1>4, OthersPass

LEMMA RegistrarPasses ==
  ASSUME TypeOK, ContInv, NEW t \in Registrars, RegistrarStep(t) PROVE Passes
<1> USE DEF At, Goto, Branch, KeepLocals, KeepRows
<1>1. t \in Threads /\ t \notin Resumers
  BY Goroutines DEF Threads
<1>2. PICK to \in {"evict", "reset", "kill", "exit", "enrol", "start", "noteSpawn"} : Goto(t, to)
  BY DEF RegistrarStep, DropSpec, EvictSlot, ResetCrashLoop, KillEvictedRun, Enrol, StartDaemon
<1>3. UNCHANGED rowVars
  BY DEF RegistrarStep, DropSpec, EvictSlot, ResetCrashLoop, KillEvictedRun, Enrol, StartDaemon
<1>4. \A u \in Resumers : subject'[u] = subject[u]
  BY <1>1, Goroutines
     DEF RegistrarStep, DropSpec, EvictSlot, ResetCrashLoop, KillEvictedRun, Enrol, StartDaemon, TypeOK
<1> QED
  BY <1>1, <1>2, <1>3, <1>4, OthersPass

LEMMA FinishPasses ==
  ASSUME TypeOK, ContInv, NEW r \in RunIDs, FinishStep(r) PROVE Passes
<1> USE DEF At, Goto, Branch, KeepLocals, KeepRows
<1>1. r \in Threads /\ r \notin Resumers
  BY Goroutines
<1>2. PICK to \in {"holdToPark", "release", "releaseBlind", "exit", "park", "publishSuspended", "regCheck",
                   "resetCancelled", "noteExit", "publishStopped"} : Goto(r, to)
  BY DEF FinishStep, LookupStatus, ReleaseBlind, HoldToPark, ParkSlot, PublishSuspended, Publish,
         ReleaseFinished, CheckRegistered, ResetCancelled
<1>3. UNCHANGED <<rowVars, subject>>
  BY DEF FinishStep, LookupStatus, ReleaseBlind, HoldToPark, ParkSlot, PublishSuspended, Publish,
         ReleaseFinished, CheckRegistered, ResetCancelled
<1> QED
  BY <1>1, <1>2, <1>3, OthersPass

LEMMA SweepPasses ==
  ASSUME TypeOK, ContInv, NEW s \in Sweepers, SweepStep(s) PROVE Passes
<1> USE DEF At, Goto, Branch, KeepLocals, KeepRows
<1>1. s \in Threads /\ s \notin Resumers
  BY Goroutines DEF Threads
<1>2. PICK to \in {"exit", "sweepRelease", "sweepReg", "publishStopped", "noteExit"} : Goto(s, to)
  BY DEF SweepStep, SweepReadSpec, SweepRelease, SweepCheckRegistered
<1>3. UNCHANGED <<rowVars, subject>>
  BY DEF SweepStep, SweepReadSpec, SweepRelease, SweepCheckRegistered
<1> QED
  BY <1>1, <1>2, <1>3, OthersPass

-----------------------------------------------------------------------------
(* Resumers, the environment, and the two steps that are not passing.      *)

\* The UPDATE finds the run suspended, so nobody else has its token and no run
\* continues it.
LEMMA ConsumeKeeps ==
  ASSUME IInv, ContInv, NEW u \in Resumers, ConsumeToken(u) PROVE ContInv'
<1>0. TypeOK
  BY DEF IInv
<1>1. u \in Threads /\ pc[u] = "consume" /\ UNCHANGED <<parent, subject>>
  BY Goroutines DEF ConsumeToken, At, KeepLocals
<1>2. CASE row[subject[u]] # "suspended"
  <2>1. GoesOn(u, "exit")
    BY <1>1, <1>2 DEF ConsumeToken, Goto, GoesOn, ResumerLabels, Consumed, rowVars
  <2> QED
    BY <1>0, <1>1, <2>1, GoesOnPasses, PassesKeeps
<1>3. CASE row[subject[u]] = "suspended"
  <2> DEFINE r == subject[u]
  <2>1. /\ pc \in [Threads -> Labels] /\ row \in [RunIDs -> Statuses]
        /\ parent \in [RunIDs -> RunIDs \cup {NoRun}]
    BY <1>0 DEF TypeOK
  <2>2. r \in RunIDs
    BY <1>1 DEF IInv, Support, HandledRunsEnded, Handling
  <2>3. pc' = [pc EXCEPT ![u] = "holdToAdopt"] /\ row' = [row EXCEPT ![r] = "resumed"]
    BY <1>3 DEF ConsumeToken, Goto
  <2>4. \A q \in RunIDs : parent[q] # r
    BY <1>3, <2>2, SlotAssumption DEF ContInv, OneContinuation
  <2>5. \A v \in Resumers : pc[v] \in Consumed => subject[v] # r
    BY <1>3 DEF ContInv, TokensInOneHand
  <2>6. ResumersResume' /\ NewRunsContinueNothing'
    BY <1>1, <2>1, <2>3, Goroutines DEF ContInv, ResumersResume, NewRunsContinueNothing, ResumerLabels
  <2>7. TokensInOneHand'
    BY <1>1, <2>1, <2>2, <2>3, <2>4, <2>5, Goroutines DEF ContInv, TokensInOneHand
  <2>8. OneContinuation'
    BY <1>1, <2>1, <2>2, <2>3 DEF ContInv, OneContinuation
  <2> QED
    BY <2>6, <2>7, <2>8 DEF ContInv
<1> QED
  BY <1>2, <1>3

LEMMA ResumePasses ==
  ASSUME IInv, ContInv, NEW u \in Resumers, ResumeStep(u), ~ConsumeToken(u) PROVE Passes
<1>1. u \in Threads /\ pc \in [Threads -> Labels] /\ TypeOK /\ FreshRuns
  BY Goroutines DEF IInv, Support, TypeOK
<1>2. CASE HoldToAdopt(u) \/ ResumeNoteSpawn(u)
  <2>1. PICK l \in {"adopt", "exit", "publishRunning"} : GoesOn(u, l)
    BY <1>2, <1>1 DEF HoldToAdopt, ResumeNoteSpawn, At, Goto, GoesOn, KeepLocals, KeepRows, ResumerLabels, Consumed
  <2> QED
    BY <1>1, <2>1, GoesOnPasses
<1>3. CASE AdoptSlot(u)
  <2>1. CASE GoesOn(u, "exit")
    BY <1>1, <2>1, GoesOnPasses
  <2>2. ASSUME NEW r \in RunIDs, pc[r] = "unborn", UNCHANGED <<rowVars, subject>>, pc[u] = "adopt",
               pc' = [pc EXCEPT ![u] = "noteRespawn", ![r] = "minted"]
        PROVE  Passes
    BY <1>1, <2>2, Goroutines DEF Passes, ContInv, ResumersResume, ResumerLabels, Consumed, rowVars
  <2> QED
    BY <1>1, <1>3, <2>1, <2>2
       DEF AdoptSlot, At, Adopt, Rebind, Goto, GoesOn, KeepRows, FreshRuns, ResumerLabels, Consumed
<1> QED
  BY <1>2, <1>3 DEF ResumeStep

\* A continuation takes the token its resumer holds; any other run continues
\* nothing.
LEMMA BeginKeepsCont ==
  ASSUME IInv, ContInv, NEW t \in Threads, BeginRun(t) PROVE ContInv'
<1> DEFINE r == fresh[t]
<1>1. /\ pc \in [Threads -> Labels] /\ row \in [RunIDs -> Statuses]
      /\ parent \in [RunIDs -> RunIDs \cup {NoRun}] /\ subject \in [Threads -> RunIDs \cup {NoRun}]
  BY DEF IInv, TypeOK
<1>2. r \in RunIDs /\ pc[r] = "minted" /\ row[r] = "none" /\ parent[r] = NoRun /\ pc[t] = "begin"
  BY DEF BeginRun, At, IInv, Support, LaunchesHold, Launching, HandledRunsEnded, ContInv, NewRunsContinueNothing
<1>3. /\ pc' = [pc EXCEPT ![t] = "checkEvicted", ![r] = "body"]
      /\ row' = [row EXCEPT ![r] = "running"]
      /\ parent' = [parent EXCEPT ![r] = IF t \in Resumers THEN subject[t] ELSE NoRun]
      /\ UNCHANGED subject
  BY DEF BeginRun
<1>4. ResumersResume' /\ NewRunsContinueNothing'
  BY <1>1, <1>2, <1>3, Goroutines DEF ContInv, ResumersResume, NewRunsContinueNothing, ResumerLabels
<1>5. TokensInOneHand'
  BY <1>1, <1>2, <1>3, Goroutines DEF ContInv, TokensInOneHand, Consumed
<1>6. OneContinuation'
  BY <1>1, <1>2, <1>3, Goroutines, SlotAssumption DEF ContInv, TokensInOneHand, OneContinuation, Consumed
<1> QED
  BY <1>4, <1>5, <1>6 DEF ContInv

LEMMA StopPasses == ASSUME TypeOK, ContInv, StopStep PROVE Passes
<1>1. UNCHANGED <<rowVars, pc, subject>>
  BY DEF StopStep, BeginShutdown, SnapshotSlots, KillListed, Drain, Drained, GraceElapsed, StartStep,
         KeepRows, threadVars, rowVars
<1> QED
  BY <1>1 DEF Passes, ContInv, ResumersResume, rowVars

LEMMA EnvironmentPasses == ASSUME IInv, ContInv, Environment PROVE Passes
<1>1. /\ pc \in [Threads -> Labels] /\ row \in [RunIDs -> Statuses] /\ TypeOK
      /\ subject \in [Threads -> RunIDs \cup {NoRun}]
  BY DEF IInv, TypeOK
<1>2. ASSUME NEW t \in Registrars, CallUnregister(t) \/ \E p \in Policies \cup {NoSpec} : CallRegister(t, p)
      PROVE  Passes
  <2>1. t \in Threads /\ GoesOn(t, "drop")
    BY <1>2, Goroutines DEF CallUnregister, CallRegister, Goto, GoesOn, KeepLocals, KeepRows, Threads
  <2> QED
    BY <1>1, <2>1, GoesOnPasses
<1>3. ASSUME NEW u \in Resumers, NEW r \in RunIDs, NEW p \in Policies, CallResume(u, r, p) PROVE Passes
  <2>1. u \in Threads /\ GoesOn(u, "consume")
    BY <1>1, <1>3, Goroutines DEF CallResume, Goto, GoesOn, KeepRows, ResumerLabels, Consumed
  <2> QED
    BY <1>1, <2>1, GoesOnPasses
<1>4. ASSUME NEW s \in Sweepers, NEW r \in RunIDs, SweepRun(s, r) PROVE Passes
  BY <1>1, <1>4, Goroutines DEF SweepRun, Goto, Passes, ContInv, ResumersResume, Threads
<1>5. ASSUME NEW r \in ManualRuns, NEW p \in Policies, FireManual(r, p) PROVE Passes
  <2>1. r \in RunIDs /\ row[r] = "none"
    BY <1>5, LifecycleAssumption DEF FireManual, At, IInv, Support, HandledRunsEnded
  <2> QED
    BY <1>1, <1>5, <2>1, Goroutines DEF FireManual, Goto, Passes, ContInv, ResumersResume
<1>6. ASSUME NEW r \in RunIDs, BodyEnds(r) PROVE Passes
  <2>1. row[r] = "running"
    BY <1>6 DEF BodyEnds, At, IInv, Support, HandledRunsEnded
  <2> QED
    BY <1>1, <1>6, <2>1, Goroutines DEF BodyEnds, Goto, KeepLocals, Passes, ContInv, ResumersResume
<1>7. ASSUME UNCHANGED <<rowVars, pc, subject>> PROVE Passes
  BY <1>7 DEF Passes, ContInv, ResumersResume, rowVars
<1>8. CASE ReportSustained \/ CancelContext \/ \E r \in RunIDs : KillByOperator(r)
  BY <1>7, <1>8 DEF ReportSustained, CancelContext, KillByOperator, StartStep, KeepRows, threadVars, rowVars
<1> QED
  BY <1>2, <1>3, <1>4, <1>5, <1>6, <1>8 DEF Environment

-----------------------------------------------------------------------------
(* The theorem.                                                            *)

LEMMA ContInit == Init => ContInv
  BY Goroutines
     DEF Init, ContInv, ResumersResume, TokensInOneHand, NewRunsContinueNothing, OneContinuation,
         ResumerLabels, Consumed

LEMMA ContNext == IInv /\ ContInv /\ [Next]_vars => ContInv'
<1> SUFFICES ASSUME IInv, ContInv, [Next]_vars PROVE ContInv'
  OBVIOUS
<1>1. TypeOK /\ FreshRuns
  BY DEF IInv, Support
<1>2. ASSUME NEW t \in Threads, ThreadStep(t) PROVE ContInv'
  <2>1. CASE LaunchStep(t)
    BY <1>1, <2>1, BeginKeepsCont, LaunchPasses, PassesKeeps
  <2>2. CASE RestartStep(t)
    BY <1>1, <2>2, RestartPasses, PassesKeeps
  <2>3. CASE t \in Registrars /\ RegistrarStep(t)
    BY <1>1, <2>3, RegistrarPasses, PassesKeeps
  <2>4. CASE t \in RunIDs /\ FinishStep(t)
    BY <1>1, <2>4, FinishPasses, PassesKeeps
  <2>5. CASE t \in Resumers /\ ResumeStep(t)
    BY <1>1, <2>5, ResumePasses, ConsumeKeeps, PassesKeeps
  <2>6. CASE t \in Sweepers /\ SweepStep(t)
    BY <1>1, <2>6, SweepPasses, PassesKeeps
  <2> QED
    BY <1>2, <2>1, <2>2, <2>3, <2>4, <2>5, <2>6 DEF ThreadStep
<1>3. CASE UNCHANGED vars
  <2>1. Passes
    BY <1>3 DEF vars, threadVars, rowVars, Passes, ContInv, ResumersResume
  <2> QED
    BY <1>1, <2>1, PassesKeeps
<1> QED
  BY <1>1, <1>2, <1>3, StopPasses, EnvironmentPasses, PassesKeeps DEF Next, Step

\* The resume token is single-use (resume.go:354-361): a run that has a
\* continuation is resumed, and no two runs continue the same one, however
\* resumes, sweeps, reloads and shutdown fall together.
THEOREM OneContinuationCorrect == Spec => []OneContinuation
<1>1. ContInv => OneContinuation
  BY DEF ContInv
<1> QED
  BY <1>1, IInvInit, IInvNext, ContInit, ContNext, PTL DEF Spec

-----------------------------------------------------------------------------
(* The drain.                                                              *)

\* A run without a goroutine in flight.
Ended == {"unborn", "minted", "done"}

\* The inductive invariant behind DrainedStaysDrained, relative to IInv: the
\* wait group counts every run in flight and every run about to begin.
DrainInv ==
  /\ \A r \in RunIDs : pc[r] \notin Ended => r \in wg
  /\ \A t \in Threads : pc[t] = "begin" => fresh[t] \in wg
  /\ phase = "drained" => wg = {}

\* A goroutine in flight goes on to a statement other than the two that the
\* wait group has to know of.
Plain(t) ==
  /\ pc[t] \notin Ended
  /\ \E l \in Labels \ (Ended \cup {"begin"}) : Goto(t, l)
  /\ UNCHANGED <<wg, phase>>
  /\ \A u \in Threads : u # t => fresh'[u] = fresh[u]

LEMMA PlainKeeps == ASSUME TypeOK, DrainInv, NEW t \in Threads, Plain(t) PROVE DrainInv'
<1>1. pc \in [Threads -> Labels]
  BY DEF TypeOK
<1>2. PICK l \in Labels \ (Ended \cup {"begin"}) : pc' = [pc EXCEPT ![t] = l]
  BY DEF Plain, Goto
<1> QED
  BY <1>1, <1>2, Goroutines DEF Plain, DrainInv

LEMMA LaunchPlain ==
  ASSUME TypeOK, NEW t \in Threads, LaunchStep(t),
         ~LaunchAttach(t), ~TrackRun(t), ~BeginRun(t), ~RefuseRun(t), ~Exit(t)
  PROVE  Plain(t)
  BY DEF LaunchStep, LaunchNoteSpawn, LaunchLost, PublishRunning, Publish, LaunchFailRelease, LaunchFailClear,
         PublishFailed, KillIfEvicted, At, KeepLocals, KeepEngine, shutVars, Plain, Ended, Labels

LEMMA RestartPlain == ASSUME NEW t \in Threads, RestartStep(t) PROVE Plain(t)
  BY DEF RestartStep, PublishStopped, AccountExit, PublishNoRestart, Publish, Backoff, Reclaim, Recheck, Abandon,
         Branch, At, KeepLocals, KeepEngine, shutVars, Plain, Ended, Labels

LEMMA RegistrarPlain == ASSUME NEW t \in Threads, RegistrarStep(t) PROVE Plain(t)
  BY DEF RegistrarStep, DropSpec, EvictSlot, ResetCrashLoop, KillEvictedRun, Enrol, StartDaemon,
         Branch, At, KeepLocals, KeepEngine, shutVars, Plain, Ended, Labels

LEMMA FinishPlain == ASSUME NEW r \in RunIDs, FinishStep(r) PROVE Plain(r)
  BY DEF FinishStep, LookupStatus, ReleaseBlind, HoldToPark, ParkSlot, PublishSuspended, Publish, ReleaseFinished,
         CheckRegistered, ResetCancelled, Branch, Goto, At, KeepLocals, KeepEngine, shutVars, Plain, Ended, Labels

LEMMA ResumePlain == ASSUME NEW u \in Resumers, ResumeStep(u), ~AdoptSlot(u) PROVE Plain(u)
  BY DEF ResumeStep, ConsumeToken, HoldToAdopt, ResumeNoteSpawn, At, KeepLocals, KeepEngine, shutVars, Plain,
         Ended, Labels

LEMMA SweepPlain == ASSUME NEW s \in Sweepers, SweepStep(s) PROVE Plain(s)
  BY DEF SweepStep, SweepReadSpec, SweepRelease, SweepCheckRegistered, Branch, At, KeepLocals, KeepEngine,
         shutVars, Plain, Ended, Labels

\* A new run is minted by a goroutine in flight.
LEMMA MintKeeps ==
  ASSUME TypeOK, DrainInv, NEW t \in Threads, LaunchAttach(t) \/ (t \in Resumers /\ AdoptSlot(t))
  PROVE  DrainInv'
<1>1. pc \in [Threads -> Labels] /\ pc[t] \notin Ended /\ UNCHANGED <<wg, phase>>
  BY DEF TypeOK, LaunchAttach, AdoptSlot, At, Ended, KeepEngine, shutVars
<1>2. CASE Plain(t)
  BY <1>2, PlainKeeps
<1>3. ASSUME NEW r \in RunIDs, NEW l \in {"publishRunning", "noteRespawn"},
             pc' = [pc EXCEPT ![t] = l, ![r] = "minted"], fresh' = [fresh EXCEPT ![t] = r]
      PROVE  DrainInv'
  <2>1. fresh \in [Threads -> RunIDs \cup {NoRun}]
    BY DEF TypeOK
  <2> QED
    BY <1>1, <1>3, <2>1, Goroutines DEF DrainInv, Ended
<1>4. CASE Goto(t, "clearLost") \/ Goto(t, "exit")
  BY <1>1, <1>2, <1>4 DEF LaunchAttach, AdoptSlot, Plain, Goto, Labels, Ended
<1> QED
  BY <1>3, <1>4 DEF LaunchAttach, AdoptSlot

\* trackRun counts a run before the latch and refuses it after; a refused run
\* is uncounted by the one goroutine that launches it.
LEMMA CountedKeeps ==
  ASSUME IInv, DrainInv, NEW t \in Threads, TrackRun(t) \/ BeginRun(t) \/ RefuseRun(t) \/ Exit(t)
  PROVE  DrainInv'
<1>1. pc \in [Threads -> Labels] /\ fresh \in [Threads -> RunIDs \cup {NoRun}] /\ LaunchesHold /\ FreshRuns
  BY DEF IInv, Support, TypeOK
<1>2. CASE TrackRun(t)
  <2>1. phase = "drained" => Latched
    BY DEF Latched
  <2> QED
    BY <1>1, <1>2, <2>1, Goroutines
       DEF TrackRun, Branch, Goto, At, KeepLocals, DrainInv, Ended
<1>3. CASE BeginRun(t)
  <2>1. fresh[t] \in RunIDs /\ pc[t] = "begin" /\ fresh[t] \in wg
    BY <1>1, <1>3 DEF BeginRun, At, LaunchesHold, Launching, DrainInv
  <2> QED
    BY <1>1, <1>3, <2>1, Goroutines DEF BeginRun, KeepEngine, shutVars, DrainInv, Ended
<1>4. CASE RefuseRun(t)
  <2>1. pc[t] = "begin" /\ fresh[t] \in RunIDs /\ pc[fresh[t]] = "minted"
    BY <1>1, <1>4 DEF RefuseRun, At, LaunchesHold, Launching
  <2>2. \A u \in Threads : fresh[u] = fresh[t] => u = t
    BY <1>1, <2>1, SlotAssumption DEF FreshRuns
  <2> QED
    BY <1>1, <1>4, <2>1, <2>2, Goroutines DEF RefuseRun, Goto, KeepLocals, DrainInv, Ended
<1>5. CASE Exit(t)
  <2>1. pc[t] = "exit" /\ pc' = [pc EXCEPT ![t] = IF t \in RunIDs THEN "done" ELSE "idle"]
    BY <1>5 DEF Exit, At, Goto
  <2>2. \A u \in Threads : pc[u] = "begin" => fresh[u] # t
    BY <1>1, <2>1 DEF LaunchesHold, Launching
  <2> QED
    BY <1>1, <1>5, <2>1, <2>2, Goroutines DEF Exit, DrainInv, Ended
<1> QED
  BY <1>2, <1>3, <1>4, <1>5

\* Start waits for the counter to be zero.
LEMMA StopDrains == ASSUME DrainInv, StopStep PROVE DrainInv'
<1>1. UNCHANGED <<pc, fresh, wg>> /\ (phase' = "drained" => wg = {})
  BY DEF StopStep, BeginShutdown, SnapshotSlots, KillListed, Drain, Drained, GraceElapsed, StartStep, threadVars,
         DrainInv
<1> QED
  BY <1>1 DEF DrainInv

LEMMA EnvironmentDrains == ASSUME IInv, DrainInv, Environment PROVE DrainInv'
<1>1. TypeOK /\ pc \in [Threads -> Labels]
  BY DEF IInv, TypeOK
<1>2. ASSUME NEW t \in Registrars, CallUnregister(t) \/ \E p \in Policies \cup {NoSpec} : CallRegister(t, p)
      PROVE  DrainInv'
  <2>1. t \in Threads /\ Plain(t)
    BY <1>2 DEF CallUnregister, CallRegister, At, KeepLocals, shutVars, Plain, Threads, Ended, Labels
  <2> QED
    BY <1>1, <2>1, PlainKeeps
<1>3. ASSUME NEW u \in Resumers, NEW r \in RunIDs, NEW p \in Policies, CallResume(u, r, p) PROVE DrainInv'
  <2>1. u \in Threads /\ Plain(u)
    BY <1>3 DEF CallResume, At, KeepEngine, shutVars, Plain, Threads, Ended, Labels
  <2> QED
    BY <1>1, <2>1, PlainKeeps
<1>4. ASSUME NEW s \in Sweepers, NEW r \in RunIDs, SweepRun(s, r) PROVE DrainInv'
  <2>1. s \in Threads /\ Plain(s)
    BY <1>4 DEF SweepRun, At, KeepEngine, shutVars, Plain, Threads, Ended, Labels
  <2> QED
    BY <1>1, <2>1, PlainKeeps
<1>5. ASSUME NEW r \in ManualRuns, NEW p \in Policies, FireManual(r, p) PROVE DrainInv'
  <2>1. phase = "drained" => Latched
    BY DEF Latched
  <2> QED
    BY <1>1, <1>5, <2>1, Goroutines DEF FireManual, Goto, DrainInv, Ended
<1>6. ASSUME NEW r \in RunIDs, BodyEnds(r) PROVE DrainInv'
  <2>1. r \in Threads /\ Plain(r)
    BY <1>6, Goroutines DEF BodyEnds, At, KeepLocals, KeepEngine, shutVars, Plain, Ended, Labels
  <2> QED
    BY <1>1, <2>1, PlainKeeps
<1>7. CASE ReportSustained \/ CancelContext \/ \E r \in RunIDs : KillByOperator(r)
  BY <1>7 DEF ReportSustained, CancelContext, KillByOperator, StartStep, KeepEngine, threadVars, shutVars, DrainInv
<1> QED
  BY <1>2, <1>3, <1>4, <1>5, <1>6, <1>7 DEF Environment

LEMMA DrainNext == IInv /\ DrainInv /\ [Next]_vars => DrainInv'
<1> SUFFICES ASSUME IInv, DrainInv, [Next]_vars PROVE DrainInv'
  OBVIOUS
<1>1. TypeOK /\ \A u \in Resumers \cup Sweepers \cup RunIDs : u \in Threads
  BY DEF IInv, Threads
<1>2. ASSUME NEW t \in Threads, ThreadStep(t) PROVE DrainInv'
  <2>1. CASE LaunchStep(t)
    BY <1>1, <2>1, LaunchPlain, PlainKeeps, MintKeeps, CountedKeeps
  <2>2. CASE RestartStep(t)
    BY <1>1, <2>2, RestartPlain, PlainKeeps
  <2>3. CASE t \in Registrars /\ RegistrarStep(t)
    BY <1>1, <2>3, RegistrarPlain, PlainKeeps
  <2>4. CASE t \in RunIDs /\ FinishStep(t)
    BY <1>1, <2>4, FinishPlain, PlainKeeps
  <2>5. CASE t \in Resumers /\ ResumeStep(t)
    BY <1>1, <2>5, ResumePlain, PlainKeeps, MintKeeps
  <2>6. CASE t \in Sweepers /\ SweepStep(t)
    BY <1>1, <2>6, SweepPlain, PlainKeeps
  <2> QED
    BY <1>2, <2>1, <2>2, <2>3, <2>4, <2>5, <2>6 DEF ThreadStep
<1>3. CASE UNCHANGED vars
  BY <1>3 DEF vars, threadVars, shutVars, DrainInv
<1> QED
  BY <1>2, <1>3, StopDrains, EnvironmentDrains DEF Next, Step

\* "no Add can race the drain's Wait" (engine.go:473-476): once Start's wait
\* returned with the counter at zero, no run goroutine is or gets in flight.
THEOREM DrainedCorrect == Spec => []DrainedStaysDrained
<1>1. Init => DrainInv
  BY Goroutines DEF Init, DrainInv, Ended
<1>2. DrainInv => DrainedStaysDrained
  BY DEF DrainInv, DrainedStaysDrained, Ended
<1> QED
  BY <1>1, <1>2, IInvInit, IInvNext, DrainNext, PTL DEF Spec

-----------------------------------------------------------------------------
(* The inductive invariant, relative to IInv and ContInv.                  *)

\* One goroutine registers and unregisters, as the reconciler's loop does.
OneRegistrar == \A a, b \in Registrars : a = b

\* A registration starts the daemon while its spec is registered.
StartsRegistered ==
  \A t \in Registrars :
    /\ pc[t] = "enrol" => plan[t] # NoSpec
    /\ pc[t] = "start" => spec # NoSpec

\* Between the end of an unregistration and the next registration no run has the
\* slot, and no launch that is under way can give it to one.
Unregistered == spec = NoSpec /\ \A t \in Registrars : pc[t] # "evict"
NothingHeld ==
  Unregistered =>
    /\ Current(Daemon) = NoRun
    /\ \A t \in Threads : pc[t] \in {"noteSpawn", "attach"} => ~Owned(t)

\* A resumer that is about to adopt has the entry of the run it resumes.
AdoptersHold ==
  \A u \in Resumers : pc[u] = "adopt" =>
    handle[u].entry \in Entries /\ bound[handle[u].entry] = subject[u]

\* The goroutines that deal with the slot of a run that is over.
Over == {"success", "failure", "cancelled", "resumed"}
Worked(r) ==
  \/ pc[r] \in {"lookup", "release"}
  \/ \E s \in Sweepers : pc[s] \in {"sweepSpec", "sweepRelease"} /\ subject[s] = r
  \/ \E u \in Resumers : pc[u] \in {"holdToAdopt", "adopt"} /\ subject[u] = r
  \/ \E t \in Registrars : pc[t] \in {"drop", "evict"}
EndsAreWorked ==
  "db" \notin Events =>
    \A r \in RunIDs : BoundTo(Daemon, r) /\ row[r] \in Over => Worked(r)

RegInv == StartsRegistered /\ NothingHeld
HandInv == RegInv /\ AdoptersHold /\ EndsAreWorked

-----------------------------------------------------------------------------
(* A slot passes to another run only by a resume.                          *)

\* "adopting the slot parked on the suspended run" (daemon.go:86-88): a slot bound
\* to a run passes to another run only when the first one's token has been consumed
\* (adopt, attach), however resumes, sweeps, reloads and shutdown fall together.
THEOREM HandedOver == Spec => HandedOverOnResume
<1>1. IInv /\ ContInv /\ [Next]_vars =>
        [\A e \in Entries : bound[e] # NoRun /\ bound'[e] # bound[e] =>
           row[bound[e]] = "resumed" /\ parked'[e] = FALSE]_vars
  <2> SUFFICES ASSUME IInv, ContInv, Next, NEW e \in Entries, bound[e] # NoRun, bound'[e] # bound[e]
               PROVE  row[bound[e]] = "resumed" /\ parked'[e] = FALSE
    OBVIOUS
  <2>1. PICK t \in Threads, r \in RunIDs :
          \/ LaunchAttach(t) /\ Attach(t, r)
          \/ t \in Resumers /\ AdoptSlot(t) /\ Adopt(t, r)
    <3>1. bound' # bound
      OBVIOUS
    <3>2. ASSUME NEW t \in Threads, ThreadStep(t)
          PROVE  \E r \in RunIDs : \/ LaunchAttach(t) /\ Attach(t, r)
                                   \/ t \in Resumers /\ AdoptSlot(t) /\ Adopt(t, r)
      <4>1. LaunchAttach(t) \/ (t \in Resumers /\ AdoptSlot(t))
        BY <3>1, <3>2
           DEF ThreadStep, LaunchStep, LaunchNoteSpawn, LaunchLost, PublishRunning, TrackRun, BeginRun,
               RefuseRun, LaunchFailRelease, LaunchFailClear, PublishFailed, KillIfEvicted, Exit,
               RestartStep, PublishStopped, AccountExit, PublishNoRestart, Backoff, Reclaim, Recheck,
               Abandon, RegistrarStep, DropSpec, EvictSlot, ResetCrashLoop, KillEvictedRun, Enrol,
               StartDaemon, FinishStep, LookupStatus, ReleaseBlind, HoldToPark, ParkSlot,
               PublishSuspended, ReleaseFinished, CheckRegistered, ResetCancelled, ResumeStep,
               ConsumeToken, HoldToAdopt, ResumeNoteSpawn, SweepStep, SweepReadSpec, SweepRelease,
               SweepCheckRegistered, Publish, Claim, Holding, Release, ReleaseRun, Evict, Discard,
               Park, slotVars
      <4> QED
        BY <3>1, <4>1 DEF LaunchAttach, AdoptSlot, slotVars
    <3>3. ~StopStep /\ ~Environment
      BY <3>1
         DEF StopStep, BeginShutdown, SnapshotSlots, KillListed, Drain, Drained, GraceElapsed,
             StartStep, Environment, CallUnregister, CallRegister, CallResume, SweepRun, FireManual,
             BodyEnds, KillByOperator, ReportSustained, CancelContext, slotVars
    <3> QED
      BY <3>2, <3>3 DEF Next, Step
  <2>2. /\ bound' = [bound EXCEPT ![handle[t].entry] = r]
        /\ parked' = [parked EXCEPT ![handle[t].entry] = FALSE]
    BY <2>1 DEF Attach, Adopt, Rebind
  <2>3. e = handle[t].entry /\ parked'[e] = FALSE
    BY <2>2 DEF IInv, TypeOK, SlotTypeOK
  <2>4. CASE LaunchAttach(t)
    BY <2>3, <2>4 DEF LaunchAttach, At, IInv, Support, ClaimsAreBlank, Claiming
  <2>5. CASE t \in Resumers /\ AdoptSlot(t) /\ Adopt(t, r)
    <3>1. pc[t] = "adopt"
      BY <2>5 DEF AdoptSlot, At
    <3>2. handle[t].run = subject[t] /\ bound[e] = subject[t]
      BY <2>3, <2>5, <3>1 DEF Adopt, IInv, Support, HandledRunsEnded
    <3>3. row[subject[t]] = "resumed"
      BY <2>5, <3>1 DEF ContInv, TokensInOneHand, Consumed
    <3> QED
      BY <2>3, <3>2, <3>3
  <2> QED
    BY <2>1, <2>4, <2>5
<1>2. Spec => [](IInv /\ ContInv)
  BY IInvInit, IInvNext, ContInit, ContNext, PTL DEF Spec
<1> QED
  BY <1>1, <1>2, PTL DEF Spec, HandedOverOnResume

-----------------------------------------------------------------------------
(* Steps that go on without the slot.                                      *)

\* Where a goroutine deals with the slot of a run that is over, or is about to.
Working == {"lookup", "release", "sweepSpec", "sweepRelease", "holdToAdopt", "adopt", "drop", "evict"}

\* One goroutine goes on, and at most frees the slot.
Aside(t, l) ==
  /\ pc' = [pc EXCEPT ![t] = l]
  /\ pc[t] \notin Working
  /\ l \notin {"enrol", "start", "adopt", "noteSpawn"}
  /\ l = "attach" => pc[t] = "noteSpawn" /\ handle'[t] = handle[t]
  /\ UNCHANGED <<spec, row, bound>>
  /\ m' = m \/ m'[Daemon] = NoEntry
  /\ \A u \in Threads : u # t =>
       handle'[u] = handle[u] /\ subject'[u] = subject[u] /\ plan'[u] = plan[u]

\* The facts of IInv that are needed about a step.
Base ==
  /\ pc \in [Threads -> Labels] /\ m \in [Keys -> Entries \cup {NoEntry}] /\ Daemon \in Keys
  /\ bound \in [Entries -> RunIDs \cup {NoRun}] /\ row \in [RunIDs -> Statuses]
  /\ plan \in [Threads -> Policies \cup {NoSpec}]
  /\ subject \in [Threads -> RunIDs \cup {NoRun}] /\ handle \in [Threads -> Handles]
  /\ \A t \in Threads : handle[t].key = Daemon

LEMMA BaseHolds == ASSUME IInv PROVE Base
  BY ThreadsAreCallers, LifecycleAssumption DEF IInv, TypeOK, SlotTypeOK, Support, OneKey, Base

LEMMA WhoIsWho ==
  /\ Resumers \subseteq Threads /\ RunIDs \subseteq Threads /\ Sweepers \subseteq Threads
  /\ Registrars \subseteq Threads
  /\ \A t \in Registrars : t \notin Resumers /\ t \notin Sweepers /\ t \notin RunIDs
  /\ \A u \in Resumers : u \notin Sweepers /\ u \notin RunIDs
  /\ \A s \in Sweepers : s \notin RunIDs
  BY LifecycleAssumption DEF Threads

LEMMA AsideKeeps ==
  ASSUME Base, Base', HandInv, NEW t \in Threads, NEW l, Aside(t, l)
  PROVE  HandInv'
<1>1. StartsRegistered'
  BY WhoIsWho DEF Base, Aside, HandInv, RegInv, StartsRegistered
<1>2. AdoptersHold'
  BY WhoIsWho DEF Base, Aside, HandInv, AdoptersHold
<1>3. CASE m' = m
  <2>1. NothingHeld'
    BY <1>3, WhoIsWho
       DEF Base, Aside, Working, HandInv, RegInv, NothingHeld, Unregistered, Current, Owned
  <2>2. ASSUME NEW r \in RunIDs, Worked(r) PROVE Worked(r)'
    <3>1. CASE pc[r] \in {"lookup", "release"}
      BY <3>1, WhoIsWho DEF Base, Aside, Working, Worked
    <3>2. ASSUME NEW s \in Sweepers, pc[s] \in {"sweepSpec", "sweepRelease"}, subject[s] = r PROVE Worked(r)'
      BY <3>2, WhoIsWho DEF Base, Aside, Working, Worked
    <3>3. ASSUME NEW u \in Resumers, pc[u] \in {"holdToAdopt", "adopt"}, subject[u] = r PROVE Worked(r)'
      BY <3>3, WhoIsWho DEF Base, Aside, Working, Worked
    <3>4. ASSUME NEW g \in Registrars, pc[g] \in {"drop", "evict"} PROVE Worked(r)'
      BY <3>4, WhoIsWho DEF Base, Aside, Working, Worked
    <3> QED
      BY <2>2, <3>1, <3>2, <3>3, <3>4 DEF Worked
  <2>3. EndsAreWorked'
    BY <1>3, <2>2 DEF Aside, HandInv, EndsAreWorked, BoundTo
  <2> QED
    BY <1>1, <1>2, <2>1, <2>3 DEF HandInv, RegInv
<1>4. CASE m'[Daemon] = NoEntry
  <2>1. NothingHeld' /\ EndsAreWorked'
    BY <1>4 DEF Base, NothingHeld, EndsAreWorked, Current, Owned, BoundTo
  <2> QED
    BY <1>1, <1>2, <2>1 DEF HandInv, RegInv
<1> QED
  BY <1>3, <1>4 DEF Aside

\* Most statements of a launch, a restart, a registration, an end and a resume are
\* such steps, and so are the calls.
LEMMA LaunchAside ==
  ASSUME Base, NEW t \in Threads, LaunchStep(t), ~BeginRun(t),
         ~\E r \in RunIDs : LaunchAttach(t) /\ Attach(t, r)
  PROVE  \E l : Aside(t, l)
<1> USE DEF At, Goto, Branch, KeepLocals, KeepRows, KeepEngine, rowVars, Working, slotVars
<1>1. CASE LaunchNoteSpawn(t)
  <2>1. Aside(t, "attach")
    BY <1>1 DEF LaunchNoteSpawn, Aside
  <2> QED
    BY <2>1
<1>2. CASE LaunchAttach(t) \/ LaunchLost(t)
  <2>1. Aside(t, "clearLost") \/ Aside(t, "exit")
    BY <1>2 DEF LaunchAttach, LaunchLost, Aside
  <2> QED
    BY <2>1
<1>3. CASE PublishRunning(t) \/ PublishFailed(t)
  <2>1. Aside(t, "track") \/ Aside(t, "exit")
    BY <1>3 DEF PublishRunning, PublishFailed, Publish, Aside
  <2> QED
    BY <2>1
<1>4. CASE TrackRun(t) \/ RefuseRun(t)
  <2>1. Aside(t, "failRelease") \/ Aside(t, "begin")
    BY <1>4 DEF TrackRun, RefuseRun, Aside
  <2> QED
    BY <2>1
<1>5. CASE LaunchFailRelease(t)
  <2>1. m' = m \/ m'[Daemon] = NoEntry
    BY <1>5 DEF LaunchFailRelease, Release, Base
  <2>2. bound' = bound /\ handle' = handle
    BY <1>5 DEF LaunchFailRelease, Release
  <2>3. Aside(t, "failClear")
    BY <1>5, <2>1, <2>2 DEF LaunchFailRelease, Aside
  <2> QED
    BY <2>3
<1>6. CASE LaunchFailClear(t)
  <2>1. Aside(t, "publishFailed")
    BY <1>6 DEF LaunchFailClear, Aside
  <2> QED
    BY <2>1
<1>7. CASE KillIfEvicted(t)
  <2>1. Aside(t, "exit")
    BY <1>7 DEF KillIfEvicted, Aside
  <2> QED
    BY <2>1
<1>8. CASE Exit(t)
  <2> DEFINE l == IF t \in RunIDs THEN "done" ELSE "idle"
  <2>1. \A u \in Threads : u # t => handle'[u] = handle[u] /\ subject'[u] = subject[u] /\ plan'[u] = plan[u]
    BY <1>8 DEF Exit, Discard, Base
  <2>2. Aside(t, l)
    BY <1>8, <2>1 DEF Exit, Discard, Aside
  <2> QED
    BY <2>2
<1> QED
  BY <1>1, <1>2, <1>3, <1>4, <1>5, <1>6, <1>7, <1>8 DEF LaunchStep

LEMMA RestartAside ==
  ASSUME Base, NEW t \in Threads, RestartStep(t), ~Recheck(t), ~(Reclaim(t) /\ Claim(t, Daemon))
  PROVE  \E l : Aside(t, l)
<1> USE DEF At, Goto, Branch, KeepLocals, KeepRows, KeepEngine, rowVars, Working, slotVars
<1>1. CASE PublishStopped(t) \/ PublishNoRestart(t)
  <2>1. Aside(t, "exit")
    BY <1>1 DEF PublishStopped, PublishNoRestart, Publish, Aside
  <2> QED
    BY <2>1
<1>2. CASE AccountExit(t)
  <2>1. Aside(t, "backoff") \/ Aside(t, "publishNoRestart")
    BY <1>2 DEF AccountExit, Aside
  <2> QED
    BY <2>1
<1>3. CASE Backoff(t) \/ Reclaim(t)
  <2>1. Aside(t, "exit") \/ Aside(t, "reclaim")
    BY <1>3 DEF Backoff, Reclaim, Aside
  <2> QED
    BY <2>1
<1>4. CASE Abandon(t)
  <2>1. m' = m \/ m'[Daemon] = NoEntry
    BY <1>4 DEF Abandon, Release, Base
  <2>2. bound' = bound /\ handle' = handle
    BY <1>4 DEF Abandon, Release
  <2>3. Aside(t, "exit")
    BY <1>4, <2>1, <2>2 DEF Abandon, Aside
  <2> QED
    BY <2>3
<1> QED
  BY <1>1, <1>2, <1>3, <1>4 DEF RestartStep

LEMMA FinishAside ==
  ASSUME Base, NEW r \in RunIDs, FinishStep(r), ~LookupStatus(r), ~ReleaseFinished(r)
  PROVE  \E l : Aside(r, l)
<1> USE DEF At, Goto, Branch, KeepLocals, KeepRows, KeepEngine, rowVars, Working, slotVars
<1>1. CASE ReleaseBlind(r)
  <2>1. m' = m \/ m'[Daemon] = NoEntry
    BY <1>1 DEF ReleaseBlind, ReleaseRun, Base
  <2>2. bound' = bound /\ handle' = handle
    BY <1>1 DEF ReleaseBlind, ReleaseRun
  <2>3. Aside(r, "exit")
    BY <1>1, <2>1, <2>2 DEF ReleaseBlind, Aside
  <2> QED
    BY <2>3
<1>2. CASE HoldToPark(r)
  <2>1. /\ UNCHANGED <<m, bound>>
        /\ \A u \in Threads : u # r => handle'[u] = handle[u]
    BY <1>2 DEF HoldToPark, Holding, Base
  <2>2. Aside(r, "park") \/ Aside(r, "exit")
    BY <1>2, <2>1 DEF HoldToPark, Aside
  <2> QED
    BY <2>2
<1>3. CASE ParkSlot(r)
  <2>1. UNCHANGED <<m, bound, handle>>
    BY <1>3 DEF ParkSlot, Park
  <2>2. Aside(r, "publishSuspended") \/ Aside(r, "exit")
    BY <1>3, <2>1 DEF ParkSlot, Aside
  <2> QED
    BY <2>2
<1>4. CASE PublishSuspended(r)
  <2>1. Aside(r, "exit")
    BY <1>4 DEF PublishSuspended, Publish, Aside
  <2> QED
    BY <2>1
<1>5. CASE CheckRegistered(r)
  <2>1. Aside(r, "exit") \/ Aside(r, "resetCancelled") \/ Aside(r, "noteExit")
    BY <1>5 DEF CheckRegistered, Aside
  <2> QED
    BY <2>1
<1>6. CASE ResetCancelled(r)
  <2>1. Aside(r, "publishStopped")
    BY <1>6 DEF ResetCancelled, Aside
  <2> QED
    BY <2>1
<1> QED
  BY <1>1, <1>2, <1>3, <1>4, <1>5, <1>6 DEF FinishStep

LEMMA OthersAside ==
  ASSUME Base, NEW t \in Threads,
         \/ ResetCrashLoop(t)
         \/ KillEvictedRun(t) /\ plan[t] = NoSpec
         \/ StartDaemon(t) /\ ~Claim(t, Daemon)
         \/ ResumeNoteSpawn(t) \/ SweepCheckRegistered(t)
         \/ CallUnregister(t) \/ \E p \in Policies \cup {NoSpec} : CallRegister(t, p)
         \/ \E r \in RunIDs, p \in Policies : CallResume(t, r, p)
  PROVE  \E l : Aside(t, l)
<1> USE DEF At, Goto, Branch, KeepLocals, KeepRows, KeepEngine, rowVars, regVars, Working, slotVars
<1>1. CASE ResetCrashLoop(t)
  <2>1. Aside(t, "kill")
    BY <1>1 DEF ResetCrashLoop, Aside
  <2> QED
    BY <2>1
<1>2. CASE (KillEvictedRun(t) /\ plan[t] = NoSpec) \/ (StartDaemon(t) /\ ~Claim(t, Daemon))
  <2>1. Aside(t, "exit")
    BY <1>2 DEF KillEvictedRun, StartDaemon, Aside
  <2> QED
    BY <2>1
<1>3. CASE ResumeNoteSpawn(t) \/ SweepCheckRegistered(t)
  <2>1. Aside(t, "publishRunning") \/ Aside(t, "publishStopped") \/ Aside(t, "noteExit")
    BY <1>3 DEF ResumeNoteSpawn, SweepCheckRegistered, Aside
  <2> QED
    BY <2>1
<1>4. CASE CallUnregister(t) \/ \E p \in Policies \cup {NoSpec} : CallRegister(t, p)
  <2>1. Aside(t, "drop")
    BY <1>4 DEF CallUnregister, CallRegister, Aside, Base
  <2> QED
    BY <2>1
<1>5. CASE \E r \in RunIDs, p \in Policies : CallResume(t, r, p)
  <2>1. Aside(t, "consume")
    BY <1>5 DEF CallResume, Aside, Base
  <2> QED
    BY <2>1
<1> QED
  BY <1>1, <1>2, <1>3, <1>4, <1>5

-----------------------------------------------------------------------------
(* Steps that deal with the slot.                                          *)

WorkedBy(t, r) ==
  \/ t = r /\ pc[t] \in {"lookup", "release"}
  \/ t \in Sweepers /\ pc[t] \in {"sweepSpec", "sweepRelease"} /\ subject[t] = r
  \/ t \in Resumers /\ pc[t] \in {"holdToAdopt", "adopt"} /\ subject[t] = r
  \/ t \in Registrars /\ pc[t] \in {"drop", "evict"}

LEMMA WorkedBySome == \A r \in RunIDs : Worked(r) <=> \E t \in Threads : WorkedBy(t, r)
  BY WhoIsWho DEF Worked, WorkedBy

\* What is worked on by another goroutine stays so.
LEMMA OthersWork ==
  ASSUME NEW t \in Threads, NEW r \in RunIDs, Worked(r), ~WorkedBy(t, r),
         \A u \in Threads : u # t /\ pc[u] \in Working => pc'[u] = pc[u] /\ subject'[u] = subject[u]
  PROVE  Worked(r)'
<1>1. PICK u \in Threads : WorkedBy(u, r)
  BY WorkedBySome
<1>2. u # t /\ pc[u] \in Working
  BY <1>1 DEF WorkedBy, Working
<1>3. WorkedBy(u, r)'
  BY <1>1, <1>2 DEF WorkedBy
<1> QED
  BY <1>3, WhoIsWho DEF Worked, WorkedBy

\* A step of one goroutine that leaves the slot alone.
Local(t, l) ==
  /\ pc' = [pc EXCEPT ![t] = l]
  /\ UNCHANGED <<m, bound>>
  /\ \A u \in Threads : u # t =>
       handle'[u] = handle[u] /\ subject'[u] = subject[u] /\ plan'[u] = plan[u]

LEMMA LocalKeepsAdopters ==
  ASSUME Base, AdoptersHold, NEW t \in Threads, NEW l, Local(t, l), l # "adopt"
  PROVE  AdoptersHold'
  BY WhoIsWho DEF Base, Local, AdoptersHold

LEMMA LocalKeepsHeld ==
  ASSUME Base, NothingHeld, NEW t \in Threads, NEW l, Local(t, l),
         pc[t] # "evict", l \notin {"noteSpawn", "attach"}, spec' = spec
  PROVE  NothingHeld'
  BY WhoIsWho DEF Base, Local, NothingHeld, Unregistered, Current, Owned

LEMMA LocalKeepsStarts ==
  ASSUME Base, StartsRegistered, NEW t \in Threads, NEW l, Local(t, l),
         l \notin {"enrol", "start"}, spec' = spec
  PROVE  StartsRegistered'
  BY WhoIsWho DEF Base, Local, StartsRegistered

\* The ends that are worked on, over a step that may change the status of one run.
LEMMA LocalKeepsEnds ==
  ASSUME Base, EndsAreWorked, NEW t \in Threads, NEW l, Local(t, l),
         \A r \in RunIDs : row'[r] = row[r] \/ row'[r] \notin Over \/ Worked(r)',
         "db" \notin Events =>
           \A r \in RunIDs : WorkedBy(t, r) /\ BoundTo(Daemon, r) => Worked(r)'
  PROVE  EndsAreWorked'
<1> SUFFICES ASSUME "db" \notin Events, NEW r \in RunIDs, BoundTo(Daemon, r)', row'[r] \in Over
             PROVE  Worked(r)'
  BY DEF EndsAreWorked
<1>1. BoundTo(Daemon, r)
  BY DEF Local, BoundTo
<1>2. CASE row'[r] = row[r]
  <2>1. Worked(r)
    BY <1>1, <1>2 DEF EndsAreWorked
  <2>2. CASE ~WorkedBy(t, r)
    BY <2>1, <2>2, OthersWork DEF Local, Base
  <2> QED
    BY <1>1, <2>2
<1> QED
  BY <1>2

\* A registration and an unregistration.
LEMMA RegistrarHands ==
  ASSUME Base, Base', HandInv, OneRegistrar, SlotInv, NEW t \in Registrars, RegistrarStep(t)
  PROVE  HandInv'
<1> USE DEF At, Goto, Branch, KeepLocals, KeepRows, KeepEngine, rowVars, slotVars, HandInv, RegInv
<1>0. t \in Threads
  BY WhoIsWho
<1>1. CASE DropSpec(t)
  <2>1. Local(t, "evict") /\ row' = row /\ spec' = NoSpec /\ pc[t] = "drop"
    BY <1>1 DEF DropSpec, Local
  <2>2. pc'[t] = "evict" /\ \A u \in Registrars : u = t
    BY <1>0, <2>1 DEF Base, Local, OneRegistrar
  <2>3. StartsRegistered' /\ NothingHeld'
    BY <2>2 DEF StartsRegistered, NothingHeld, Unregistered
  <2>4. EndsAreWorked'
    BY <2>2 DEF EndsAreWorked, Worked
  <2> QED
    BY <1>0, <2>1, <2>3, <2>4, LocalKeepsAdopters
<1>2. CASE EvictSlot(t)
  <2>1. m'[Daemon] = NoEntry
    BY <1>2 DEF EvictSlot, Evict, Base
  <2>2. /\ pc' = [pc EXCEPT ![t] = "reset"] /\ spec' = spec /\ UNCHANGED <<bound, handle, plan>>
        /\ \A u \in Threads : u # t => subject'[u] = subject[u]
    BY <1>2 DEF EvictSlot, Evict, Base
  <2>3. StartsRegistered' /\ AdoptersHold'
    BY <1>0, <2>2, WhoIsWho DEF Base, StartsRegistered, AdoptersHold
  <2>4. NothingHeld' /\ EndsAreWorked'
    BY <2>1 DEF Base, NothingHeld, EndsAreWorked, Current, Owned, BoundTo
  <2> QED
    BY <2>3, <2>4
<1>3. CASE KillEvictedRun(t) /\ plan[t] # NoSpec
  <2>1. Local(t, "enrol") /\ row' = row /\ spec' = spec /\ pc[t] = "kill" /\ plan' = plan
    BY <1>3 DEF KillEvictedRun, Local
  <2>2. StartsRegistered'
    BY <1>0, <1>3, <2>1 DEF Base, Local, StartsRegistered
  <2>3. EndsAreWorked'
    BY <1>0, <2>1, LocalKeepsEnds, WhoIsWho DEF WorkedBy
  <2> QED
    BY <1>0, <2>1, <2>2, <2>3, LocalKeepsAdopters, LocalKeepsHeld
<1>4. CASE Enrol(t)
  <2>1. Local(t, "start") /\ row' = row /\ spec' = plan[t] /\ pc[t] = "enrol" /\ plan' = plan
    BY <1>4 DEF Enrol, Local
  <2>2. spec' # NoSpec
    BY <2>1 DEF StartsRegistered
  <2>3. StartsRegistered' /\ NothingHeld'
    BY <1>0, <2>1, <2>2 DEF Base, Local, StartsRegistered, NothingHeld, Unregistered
  <2>4. EndsAreWorked'
    BY <1>0, <2>1, LocalKeepsEnds, WhoIsWho DEF WorkedBy
  <2> QED
    BY <1>0, <2>1, <2>3, <2>4, LocalKeepsAdopters
<1>5. CASE StartDaemon(t) /\ Claim(t, Daemon)
  <2>1. PICK e \in Entries : /\ fate[e] = "unused" /\ m' = [m EXCEPT ![Daemon] = e]
                             /\ \A u \in Threads : u # t => handle'[u] = handle[u]
    BY <1>5 DEF Claim, Base
  <2>2. /\ pc' = [pc EXCEPT ![t] = "noteSpawn"] /\ pc[t] = "start"
        /\ UNCHANGED <<spec, row, bound, plan, subject>>
    BY <1>5 DEF StartDaemon, Claim, Base
  <2>3. spec' # NoSpec
    BY <2>2 DEF StartsRegistered
  <2>4. StartsRegistered' /\ NothingHeld' /\ AdoptersHold'
    BY <1>0, <2>1, <2>2, <2>3, WhoIsWho
       DEF Base, StartsRegistered, NothingHeld, Unregistered, AdoptersHold
  <2>5. EndsAreWorked'
    BY <2>1, <2>2 DEF Base, EndsAreWorked, BoundTo, SlotInv, RunsBoundOnce
  <2> QED
    BY <2>4, <2>5
<1> QED
  BY <1>0, <1>1, <1>2, <1>3, <1>4, <1>5, OthersAside, AsideKeeps DEF RegistrarStep

\* A run that is launched has not ended.
LEMMA AttachHands ==
  ASSUME IInv, Base, Base', HandInv, NEW t \in Threads, NEW r \in RunIDs, LaunchAttach(t), Attach(t, r)
  PROVE  HandInv'
<1> USE DEF HandInv, RegInv
<1>1. /\ pc[t] = "attach" /\ handle[t].entry \in Entries /\ bound[handle[t].entry] = NoRun /\ Owned(t)
      /\ r \notin minted /\ pc' = [pc EXCEPT ![t] = "publishRunning", ![r] = "minted"]
  <2>1. pc[t] = "attach" /\ Owned(t) /\ minted' # minted /\ r \notin minted
    BY DEF LaunchAttach, At, Attach, Rebind
  <2>2. PICK q \in RunIDs \ ManualRuns :
          Attach(t, q) /\ pc' = [pc EXCEPT ![t] = "publishRunning", ![q] = "minted"]
    BY <2>1 DEF LaunchAttach, slotVars
  <2>3. minted' = minted \cup {r} /\ minted' = minted \cup {q} /\ q \notin minted
    BY <2>2 DEF Attach, Rebind
  <2>4. q = r
    BY <2>1, <2>3
  <2> QED
    BY <2>1, <2>2, <2>4 DEF IInv, Support, ClaimsAreBlank, Claiming
<1>2. /\ bound' = [bound EXCEPT ![handle[t].entry] = r] /\ UNCHANGED <<m, handle, row, spec, plan, subject>>
  BY DEF Attach, Rebind, LaunchAttach, KeepRows, KeepEngine, rowVars
<1>3. r \notin ManualRuns /\ pc[r] = "unborn" /\ row[r] = "none"
  <2>1. r \notin ManualRuns
    <3>1. PICK q \in RunIDs \ ManualRuns : Attach(t, q)
      BY <1>1 DEF LaunchAttach
    <3>2. minted' = minted \cup {q} /\ q \notin minted /\ minted' = minted \cup {r}
      BY <3>1 DEF Attach, Rebind
    <3> QED
      BY <1>1, <3>2
  <2> QED
    BY <1>1, <2>1 DEF IInv, Support, FreshRuns, HandledRunsEnded
<1>4. StartsRegistered'
  BY <1>1, <1>2, <1>3, WhoIsWho DEF Base, StartsRegistered
<1>5. NothingHeld'
  <2>1. ~Unregistered
    BY <1>1 DEF NothingHeld
  <2> QED
    BY <1>1, <1>2, <1>3, <2>1, WhoIsWho DEF Base, NothingHeld, Unregistered
<1>6. AdoptersHold'
  <2>1. \A u \in Resumers : pc'[u] = "adopt" => pc[u] = "adopt"
    BY <1>1, <1>3, WhoIsWho DEF Base
  <2>2. \A u \in Resumers : pc[u] = "adopt" => subject[u] \in RunIDs
    BY WhoIsWho DEF IInv, Support, HandledRunsEnded, Handling
  <2> SUFFICES ASSUME NEW u \in Resumers, pc'[u] = "adopt"
               PROVE  handle'[u].entry \in Entries /\ bound'[handle'[u].entry] = subject'[u]
    BY DEF AdoptersHold
  <2>3. /\ handle[u].entry \in Entries /\ bound[handle[u].entry] = subject[u] /\ subject[u] \in RunIDs
    BY <2>1, <2>2 DEF AdoptersHold
  <2>4. handle[u].entry # handle[t].entry
    BY <1>1, <2>3, SlotAssumption
  <2> QED
    BY <1>1, <1>2, <2>3, <2>4 DEF Base
<1>7. EndsAreWorked'
  <2> SUFFICES ASSUME "db" \notin Events, NEW q \in RunIDs, BoundTo(Daemon, q)', row'[q] \in Over
               PROVE  Worked(q)'
    BY DEF EndsAreWorked
  <2>1. q # r
    BY <1>2, <1>3 DEF Over
  <2>2. BoundTo(Daemon, q)
    BY <1>1, <1>2, <2>1 DEF BoundTo, Base
  <2>3. Worked(q)
    BY <1>2, <2>2 DEF EndsAreWorked
  <2> QED
    BY <1>1, <1>2, <1>3, <2>3, OthersWork, WhoIsWho DEF Base, WorkedBy, Working
<1> QED
  BY <1>4, <1>5, <1>6, <1>7

\* The token is in no other resumer's hand, so no other one has its entry, and the
\* entry of the resumer's run is the one it holds.
LEMMA AdoptHands ==
  ASSUME IInv, ContInv, Base, Base', HandInv, NEW t \in Resumers, AdoptSlot(t)
  PROVE  HandInv'
<1> USE DEF HandInv, RegInv
<1>1. /\ pc[t] = "adopt" /\ t \in Threads /\ handle[t].entry \in Entries
      /\ bound[handle[t].entry] = subject[t] /\ handle[t].run = subject[t]
      /\ subject[t] \in RunIDs /\ row' = row /\ UNCHANGED <<spec, plan, subject>>
  BY WhoIsWho
     DEF AdoptSlot, At, AdoptersHold, IInv, Support, HandledRunsEnded, Handling, KeepRows, KeepEngine, rowVars
<1>2. \A u \in Resumers : u # t /\ pc[u] = "adopt" => subject[u] # subject[t]
  BY <1>1 DEF ContInv, TokensInOneHand, Consumed
<1>3. CASE UNCHANGED slotVars /\ ~Owned(t) /\ pc' = [pc EXCEPT ![t] = "exit"]
  <2>1. Local(t, "exit")
    BY <1>1, <1>3 DEF Local, slotVars
  <2>2. ~BoundTo(Daemon, subject[t])
    BY <1>1, <1>3, SlotAssumption DEF BoundTo, Owned, Base, IInv, SlotInv, RunsBoundOnce, TypeOK, SlotTypeOK
  <2>3. EndsAreWorked'
    BY <1>1, <2>1, <2>2, LocalKeepsEnds, WhoIsWho DEF WorkedBy
  <2> QED
    BY <1>1, <2>1, <2>3, LocalKeepsAdopters, LocalKeepsHeld, LocalKeepsStarts
<1>4. ASSUME NEW r \in RunIDs \ ManualRuns, Adopt(t, r),
             pc' = [pc EXCEPT ![t] = "noteRespawn", ![r] = "minted"]
      PROVE  HandInv'
  <2>1. /\ r \notin minted /\ Owned(t) /\ UNCHANGED <<m, handle>>
        /\ bound' = [bound EXCEPT ![handle[t].entry] = r]
    BY <1>4 DEF Adopt, Rebind
  <2>2. pc[r] = "unborn" /\ row[r] = "none"
    BY <2>1 DEF IInv, Support, FreshRuns, HandledRunsEnded
  <2>3. StartsRegistered'
    BY <1>1, <1>4, <2>2, WhoIsWho DEF Base, StartsRegistered
  <2>4. NothingHeld'
    <3>1. ~Unregistered
      BY <1>1, <2>1, SlotAssumption DEF NothingHeld, Current, Owned, Base
    <3> QED
      BY <1>1, <1>4, <2>2, <3>1, WhoIsWho DEF Base, NothingHeld, Unregistered
  <2>5. AdoptersHold'
    <3>1. \A u \in Resumers : pc'[u] = "adopt" => u # t /\ pc[u] = "adopt"
      BY <1>1, <1>4, <2>2, WhoIsWho DEF Base
    <3> QED
      BY <1>1, <1>2, <2>1, <3>1 DEF Base, AdoptersHold
  <2>6. EndsAreWorked'
    <3> SUFFICES ASSUME "db" \notin Events, NEW q \in RunIDs, BoundTo(Daemon, q)', row'[q] \in Over
                 PROVE  Worked(q)'
      BY DEF EndsAreWorked
    <3>1. m[Daemon] = handle[t].entry
      BY <1>1, <2>1 DEF Owned, Base
    <3> QED
      BY <1>1, <2>1, <2>2, <3>1 DEF BoundTo, Base, Over
  <2> QED
    BY <2>3, <2>4, <2>5, <2>6
<1> QED
  BY <1>1, <1>3, <1>4 DEF AdoptSlot, Goto

\* A run that begins is not over.
LEMMA BeginHands ==
  ASSUME IInv, Base, Base', HandInv, NEW t \in Threads, BeginRun(t)
  PROVE  HandInv'
<1> USE DEF HandInv, RegInv
<1> DEFINE r == fresh[t]
<1>1. /\ r \in RunIDs /\ pc[r] = "minted" /\ pc[t] = "begin"
  BY DEF BeginRun, At, IInv, Support, LaunchesHold, Launching
<1>2. /\ pc' = [pc EXCEPT ![t] = "checkEvicted", ![r] = "body"]
      /\ row' = [row EXCEPT ![r] = "running"] /\ plan' = [plan EXCEPT ![r] = plan[t]]
      /\ UNCHANGED <<m, bound, handle, subject, spec>>
  BY DEF BeginRun, slotVars, KeepEngine
<1> HIDE DEF r
<1>3. StartsRegistered' /\ AdoptersHold' /\ NothingHeld'
  BY <1>1, <1>2, WhoIsWho
     DEF Base, StartsRegistered, AdoptersHold, NothingHeld, Unregistered, Current, Owned
<1>4. EndsAreWorked'
  <2> SUFFICES ASSUME "db" \notin Events, NEW q \in RunIDs, BoundTo(Daemon, q)', row'[q] \in Over
               PROVE  Worked(q)'
    BY DEF EndsAreWorked
  <2>1. q # r /\ Worked(q)
    BY <1>1, <1>2 DEF EndsAreWorked, BoundTo, Base, Over
  <2> QED
    BY <1>1, <1>2, <2>1, OthersWork, WhoIsWho DEF Base, WorkedBy, Working
<1> QED
  BY <1>3, <1>4

\* A restart claims a slot without a run, and goes on only while a spec is registered.
LEMMA RestartHands ==
  ASSUME IInv, Base, Base', HandInv, NEW t \in Threads,
         (Reclaim(t) /\ Claim(t, Daemon)) \/ Recheck(t)
  PROVE  HandInv'
<1> USE DEF HandInv, RegInv, At, Goto, Branch, KeepLocals, KeepRows, KeepEngine, rowVars
<1>1. CASE Reclaim(t) /\ Claim(t, Daemon)
  <2>1. PICK e \in Entries : /\ fate[e] = "unused" /\ m' = [m EXCEPT ![Daemon] = e]
                             /\ \A u \in Threads : u # t => handle'[u] = handle[u]
    BY <1>1 DEF Claim, Base
  <2>2. /\ pc' = [pc EXCEPT ![t] = "recheck"] /\ pc[t] = "reclaim" /\ m[Daemon] = NoEntry
        /\ UNCHANGED <<spec, row, bound, plan, subject>>
    BY <1>1 DEF Reclaim, Claim, Base
  <2>3. bound[e] = NoRun /\ \A u \in Threads : handle[u].entry # e
    BY <2>1, ThreadsAreCallers, SlotAssumption
       DEF IInv, SlotInv, RunsBoundOnce, EntriesMapped, TypeOK, SlotTypeOK, Handles
  <2>4. StartsRegistered' /\ AdoptersHold'
    BY <2>1, <2>2, WhoIsWho DEF Base, StartsRegistered, AdoptersHold
  <2>5. NothingHeld'
    BY <2>1, <2>2, <2>3, WhoIsWho DEF Base, NothingHeld, Unregistered, Current, Owned
  <2>6. EndsAreWorked'
    BY <2>1, <2>2, <2>3 DEF Base, EndsAreWorked, BoundTo
  <2> QED
    BY <2>4, <2>5, <2>6
<1>2. CASE Recheck(t)
  <2> DEFINE l == IF spec = NoSpec THEN "abandon" ELSE "noteSpawn"
  <2>1. Local(t, l) /\ row' = row /\ spec' = spec /\ pc[t] = "recheck"
    BY <1>2 DEF Recheck, Local, slotVars, Base
  <2>2. NothingHeld'
    BY <2>1, WhoIsWho DEF Base, Local, NothingHeld, Unregistered, Current, Owned
  <2>3. EndsAreWorked'
    BY <2>1, LocalKeepsEnds, WhoIsWho DEF WorkedBy
  <2> QED
    BY <2>1, <2>2, <2>3, LocalKeepsAdopters, LocalKeepsStarts
<1> QED
  BY <1>1, <1>2

\* A run that ended is worked on by its goroutine until it gave the slot back or
\* found that it has none.
LEMMA FinishHands ==
  ASSUME Base, Base', HandInv, NEW r \in RunIDs, LookupStatus(r) \/ ReleaseFinished(r)
  PROVE  HandInv'
<1> USE DEF HandInv, RegInv, At, Goto, Branch, KeepLocals, KeepRows, KeepEngine, rowVars, slotVars
<1>0. r \in Threads /\ r \notin Resumers /\ r \notin Sweepers /\ r \notin Registrars
  BY WhoIsWho
<1>1. CASE LookupStatus(r)
  <2>1. PICK l \in {"holdToPark", "release", "releaseBlind"} :
          /\ Local(r, l) /\ row' = row /\ spec' = spec /\ pc[r] = "lookup"
          /\ l = "holdToPark" => row[r] = "suspended"
          /\ l = "releaseBlind" => "db" \in Events
    BY <1>1 DEF LookupStatus, Local
  <2>2. ASSUME NEW q \in RunIDs, WorkedBy(r, q), l = "release" PROVE Worked(q)'
    BY <1>0, <2>1, <2>2 DEF WorkedBy, Worked, Local, Base
  <2>3. EndsAreWorked'
    <3>1. CASE l = "release"
      BY <1>0, <2>1, <2>2, <3>1, LocalKeepsEnds
    <3>2. CASE l = "releaseBlind"
      BY <2>1, <3>2 DEF EndsAreWorked
    <3>3. CASE l = "holdToPark"
      <4> SUFFICES ASSUME "db" \notin Events, NEW q \in RunIDs, BoundTo(Daemon, q)', row'[q] \in Over
                   PROVE  Worked(q)'
        BY DEF EndsAreWorked
      <4>1. q # r /\ Worked(q)
        BY <2>1, <3>3 DEF EndsAreWorked, Local, BoundTo, Over
      <4> QED
        BY <1>0, <2>1, <4>1, OthersWork DEF Local, Base, WorkedBy
    <3> QED
      BY <3>1, <3>2, <3>3
  <2> QED
    BY <1>0, <2>1, <2>3, LocalKeepsAdopters, LocalKeepsHeld, LocalKeepsStarts
<1>2. CASE ReleaseFinished(r) /\ m'[Daemon] = NoEntry
  <2>1. PICK l \in {"regCheck", "exit"} :
          pc' = [pc EXCEPT ![r] = l] /\ UNCHANGED <<bound, handle, spec, plan, subject>>
    BY <1>2 DEF ReleaseFinished, ReleaseRun
  <2>2. StartsRegistered' /\ AdoptersHold'
    BY <1>0, <2>1 DEF Base, StartsRegistered, AdoptersHold
  <2>3. NothingHeld' /\ EndsAreWorked'
    BY <1>2 DEF Base, NothingHeld, EndsAreWorked, Current, Owned, BoundTo
  <2> QED
    BY <2>2, <2>3
<1>3. CASE ReleaseFinished(r) /\ ~BoundTo(Daemon, r) /\ m' = m
  <2>1. Local(r, "exit") /\ row' = row /\ spec' = spec /\ pc[r] = "release"
    BY <1>3 DEF ReleaseFinished, ReleaseRun, Local
  <2>2. EndsAreWorked'
    BY <1>0, <1>3, <2>1, LocalKeepsEnds DEF WorkedBy
  <2> QED
    BY <1>0, <2>1, <2>2, LocalKeepsAdopters, LocalKeepsHeld, LocalKeepsStarts
<1> QED
  BY <1>1, <1>2, <1>3 DEF ReleaseFinished, ReleaseRun, Base

\* A resumer works on the slot from the consumed token on.
LEMMA ResumeHands ==
  ASSUME IInv, Base, Base', HandInv, NEW u \in Resumers, ConsumeToken(u) \/ HoldToAdopt(u)
  PROVE  HandInv'
<1> USE DEF HandInv, RegInv, At, Goto, KeepLocals, KeepRows, KeepEngine, rowVars, slotVars
<1>0. u \in Threads /\ u \notin Registrars /\ u \notin Sweepers /\ u \notin RunIDs
  BY WhoIsWho
<1>1. CASE ConsumeToken(u)
  <2>1. PICK l \in {"holdToAdopt", "exit"} :
          /\ Local(u, l) /\ spec' = spec /\ pc[u] = "consume" /\ subject' = subject
          /\ l = "exit" => row' = row
          /\ l = "holdToAdopt" => row' = [row EXCEPT ![subject[u]] = "resumed"]
    BY <1>1 DEF ConsumeToken, Local
  <2>2. l = "holdToAdopt" => Worked(subject[u])'
    BY <1>0, <2>1 DEF Worked, Local, Base
  <2>3. \A r \in RunIDs : row'[r] = row[r] \/ row'[r] \notin Over \/ Worked(r)'
    BY <2>1, <2>2 DEF Base
  <2>4. EndsAreWorked'
    BY <1>0, <2>1, <2>3, LocalKeepsEnds DEF WorkedBy
  <2> QED
    BY <1>0, <2>1, <2>4, LocalKeepsAdopters, LocalKeepsHeld, LocalKeepsStarts
<1>2. CASE HoldToAdopt(u) /\ Holding(u, Daemon, subject[u]) /\ pc' = [pc EXCEPT ![u] = "adopt"]
  <2>1. /\ Local(u, "adopt") /\ spec' = spec /\ row' = row /\ pc[u] = "holdToAdopt" /\ subject' = subject
        /\ handle' = [handle EXCEPT ![u] = [key |-> Daemon, entry |-> m[Daemon], run |-> subject[u]]]
        /\ m[Daemon] # NoEntry /\ bound[m[Daemon]] = subject[u]
    BY <1>0, <1>2 DEF HoldToAdopt, Holding, BoundTo, Local, Base
  <2>2. AdoptersHold'
    BY <1>0, <2>1 DEF Base, Local, AdoptersHold
  <2>3. ASSUME NEW r \in RunIDs, WorkedBy(u, r) PROVE Worked(r)'
    BY <1>0, <2>1, <2>3 DEF WorkedBy, Worked, Local, Base
  <2>4. EndsAreWorked'
    BY <1>0, <2>1, <2>3, LocalKeepsEnds
  <2> QED
    BY <1>0, <2>1, <2>2, <2>4, LocalKeepsHeld, LocalKeepsStarts
<1>3. CASE HoldToAdopt(u) /\ ~BoundTo(Daemon, subject[u]) /\ pc' = [pc EXCEPT ![u] = "exit"] /\ UNCHANGED slotVars
  <2>1. Local(u, "exit") /\ spec' = spec /\ row' = row /\ pc[u] = "holdToAdopt"
    BY <1>3 DEF HoldToAdopt, Local
  <2>2. EndsAreWorked'
    BY <1>0, <1>3, <2>1, LocalKeepsEnds DEF WorkedBy
  <2> QED
    BY <1>0, <2>1, <2>2, LocalKeepsAdopters, LocalKeepsHeld, LocalKeepsStarts
<1> QED
  BY <1>1, <1>2, <1>3 DEF HoldToAdopt

\* A sweep that finds no spec leaves the slot to the unregistration.
LEMMA SweepHands ==
  ASSUME Base, Base', HandInv, NEW s \in Sweepers,
         SweepReadSpec(s) \/ SweepRelease(s) \/ \E r \in RunIDs : SweepRun(s, r)
  PROVE  HandInv'
<1> USE DEF HandInv, RegInv, At, Goto, Branch, KeepLocals, KeepRows, KeepEngine, rowVars, slotVars
<1>0. s \in Threads /\ s \notin Registrars /\ s \notin Resumers /\ s \notin RunIDs
  BY WhoIsWho
<1>1. ASSUME NEW r \in RunIDs, SweepRun(s, r) PROVE HandInv'
  <2>1. /\ Local(s, "sweepSpec") /\ spec' = spec /\ pc[s] = "idle"
        /\ row' = [row EXCEPT ![r] = "cancelled"] /\ subject'[s] = r
    BY <1>0, <1>1 DEF SweepRun, Local, Base
  <2>2. Worked(r)'
    BY <1>0, <2>1 DEF Worked, Local, Base
  <2>3. \A q \in RunIDs : row'[q] = row[q] \/ row'[q] \notin Over \/ Worked(q)'
    BY <2>1, <2>2 DEF Base
  <2>4. EndsAreWorked'
    BY <1>0, <2>1, <2>3, LocalKeepsEnds DEF WorkedBy
  <2> QED
    BY <1>0, <2>1, <2>4, LocalKeepsAdopters, LocalKeepsHeld, LocalKeepsStarts
<1>2. CASE SweepReadSpec(s)
  <2>1. PICK l \in {"sweepRelease", "exit"} :
          /\ Local(s, l) /\ spec' = spec /\ row' = row /\ pc[s] = "sweepSpec" /\ subject' = subject
          /\ l = "exit" => spec = NoSpec \/ "db" \in Events
    BY <1>2 DEF SweepReadSpec, Local, Base
  <2>2. ASSUME "db" \notin Events, NEW r \in RunIDs, WorkedBy(s, r), BoundTo(Daemon, r) PROVE Worked(r)'
    <3>1. CASE l = "sweepRelease"
      BY <1>0, <2>1, <2>2, <3>1 DEF WorkedBy, Worked, Local, Base
    <3>2. CASE spec = NoSpec
      <4>1. PICK t \in Registrars : pc[t] = "evict"
        BY <2>2, <3>2 DEF NothingHeld, Unregistered, BoundTo, Current
      <4>2. pc'[t] = "evict"
        BY <1>0, <2>1, <4>1, WhoIsWho DEF Local, Base
      <4> QED
        BY <4>2 DEF Worked
    <3> QED
      BY <2>1, <2>2, <3>1, <3>2
  <2>3. EndsAreWorked'
    BY <1>0, <2>1, <2>2, LocalKeepsEnds
  <2> QED
    BY <1>0, <2>1, <2>3, LocalKeepsAdopters, LocalKeepsHeld, LocalKeepsStarts
<1>3. CASE SweepRelease(s) /\ m'[Daemon] = NoEntry
  <2>1. PICK l \in {"sweepReg", "exit"} :
          pc' = [pc EXCEPT ![s] = l] /\ UNCHANGED <<bound, handle, spec, plan, subject>>
    BY <1>3 DEF SweepRelease, ReleaseRun
  <2>2. StartsRegistered' /\ AdoptersHold'
    BY <1>0, <2>1 DEF Base, StartsRegistered, AdoptersHold
  <2>3. NothingHeld' /\ EndsAreWorked'
    BY <1>3 DEF Base, NothingHeld, EndsAreWorked, Current, Owned, BoundTo
  <2> QED
    BY <2>2, <2>3
<1>4. CASE SweepRelease(s) /\ ~BoundTo(Daemon, subject[s]) /\ m' = m
  <2>1. Local(s, "exit") /\ row' = row /\ spec' = spec /\ pc[s] = "sweepRelease"
    BY <1>4 DEF SweepRelease, ReleaseRun, Local
  <2>2. EndsAreWorked'
    BY <1>0, <1>4, <2>1, LocalKeepsEnds DEF WorkedBy
  <2> QED
    BY <1>0, <2>1, <2>2, LocalKeepsAdopters, LocalKeepsHeld, LocalKeepsStarts
<1> QED
  BY <1>1, <1>2, <1>3, <1>4 DEF SweepRelease, ReleaseRun, Base

\* Bodies end and are fired by hand.
LEMMA BodyHands ==
  ASSUME IInv, Base, Base', HandInv, NEW r \in RunIDs,
         BodyEnds(r) \/ \E p \in Policies : FireManual(r, p)
  PROVE  HandInv'
<1> USE DEF HandInv, RegInv, At, Goto, KeepLocals, KeepRows, KeepEngine, rowVars, slotVars
<1>0. r \in Threads /\ r \notin Registrars /\ r \notin Sweepers /\ r \notin Resumers
  BY WhoIsWho
<1>1. PICK l \in {"lookup", "body"} :
        /\ Local(r, l) /\ spec' = spec /\ pc[r] \in {"body", "unborn"}
        /\ l = "body" => row'[r] = "running"
        /\ \A q \in RunIDs : q # r => row'[q] = row[q]
  <2>1. CASE BodyEnds(r)
    BY <2>1 DEF BodyEnds, Local, Base
  <2>2. CASE \E p \in Policies : FireManual(r, p)
    BY <2>2 DEF FireManual, Local, Base
  <2> QED
    BY <2>1, <2>2
<1>2. row'[r] \notin Over \/ Worked(r)'
  BY <1>0, <1>1 DEF Worked, Over, Local, Base
<1>3. EndsAreWorked'
  BY <1>0, <1>1, <1>2, LocalKeepsEnds DEF WorkedBy
<1> QED
  BY <1>0, <1>1, <1>3, LocalKeepsAdopters, LocalKeepsHeld, LocalKeepsStarts

LEMMA StillHands ==
  ASSUME HandInv, UNCHANGED <<pc, row, subject, plan, spec, m, bound, handle>>
  PROVE  HandInv'
  BY DEF HandInv, RegInv, StartsRegistered, NothingHeld, Unregistered, Current, Owned, AdoptersHold,
         EndsAreWorked, Worked, BoundTo

-----------------------------------------------------------------------------
(* The theorems.                                                           *)

LEMMA HandInit == Init => HandInv
<1> SUFFICES ASSUME Init PROVE HandInv
  OBVIOUS
<1>1. m[Daemon] = NoEntry /\ \A t \in Threads : pc[t] \in {"idle", "unborn"}
  BY LifecycleAssumption DEF Init
<1> QED
  BY <1>1, WhoIsWho
     DEF HandInv, RegInv, StartsRegistered, NothingHeld, Current, AdoptersHold, EndsAreWorked, BoundTo

LEMMA HandNext == OneRegistrar /\ IInv /\ IInv' /\ ContInv /\ HandInv /\ [Next]_vars => HandInv'
<1> SUFFICES ASSUME OneRegistrar, IInv, IInv', ContInv, HandInv, [Next]_vars PROVE HandInv'
  OBVIOUS
<1>1. Base /\ SlotInv
  BY BaseHolds DEF IInv
<1>2. Base'
  BY BaseHolds, PTL
<1>3. ASSUME NEW t \in Threads, NEW l, Aside(t, l) PROVE HandInv'
  BY <1>1, <1>2, <1>3, AsideKeeps
<1>4. ASSUME NEW t \in Threads, ThreadStep(t) PROVE HandInv'
  <2>1. CASE LaunchStep(t)
    BY <1>1, <1>2, <1>3, <2>1, LaunchAside, BeginHands, AttachHands
  <2>2. CASE RestartStep(t)
    BY <1>1, <1>2, <1>3, <2>2, RestartAside, RestartHands
  <2>3. CASE t \in Registrars /\ RegistrarStep(t)
    BY <1>1, <1>2, <2>3, RegistrarHands
  <2>4. CASE t \in RunIDs /\ FinishStep(t)
    BY <1>1, <1>2, <1>3, <2>4, FinishAside, FinishHands
  <2>5. CASE t \in Resumers /\ ResumeStep(t)
    BY <1>1, <1>2, <1>3, <2>5, OthersAside, ResumeHands, AdoptHands DEF ResumeStep
  <2>6. CASE t \in Sweepers /\ SweepStep(t)
    BY <1>1, <1>2, <1>3, <2>6, OthersAside, SweepHands DEF SweepStep
  <2> QED
    BY <1>4, <2>1, <2>2, <2>3, <2>4, <2>5, <2>6 DEF ThreadStep
<1>5. CASE StopStep
  BY <1>5, StillHands
     DEF StopStep, BeginShutdown, SnapshotSlots, KillListed, Drain, Drained, GraceElapsed, StartStep,
         KeepRows, threadVars, rowVars, slotVars
<1>6. CASE Environment
  <2>1. CASE ReportSustained \/ CancelContext \/ \E r \in RunIDs : KillByOperator(r)
    BY <2>1, StillHands
       DEF ReportSustained, CancelContext, KillByOperator, StartStep, KeepRows, KeepEngine, threadVars,
           rowVars, slotVars
  <2>2. ASSUME NEW t \in Registrars,
               CallUnregister(t) \/ \E p \in Policies \cup {NoSpec} : CallRegister(t, p)
        PROVE  HandInv'
    BY <1>1, <1>3, <2>2, OthersAside, WhoIsWho
  <2>3. ASSUME NEW u \in Resumers, \E r \in RunIDs, p \in Policies : CallResume(u, r, p) PROVE HandInv'
    BY <1>1, <1>3, <2>3, OthersAside, WhoIsWho
  <2>4. CASE \E s \in Sweepers, r \in RunIDs : SweepRun(s, r)
    BY <1>1, <1>2, <2>4, SweepHands
  <2>5. CASE \E r \in RunIDs : BodyEnds(r)
    BY <1>1, <1>2, <2>5, BodyHands
  <2>6. CASE \E r \in ManualRuns, p \in Policies : FireManual(r, p)
    BY <1>1, <1>2, <2>6, BodyHands, LifecycleAssumption
  <2> QED
    BY <1>6, <2>1, <2>2, <2>3, <2>4, <2>5, <2>6 DEF Environment
<1>7. CASE UNCHANGED vars
  BY <1>7, StillHands DEF vars, threadVars, rowVars, slotVars
<1> QED
  BY <1>4, <1>5, <1>6, <1>7 DEF Next, Step

LEMMA HandInvariant == OneRegistrar /\ Spec => [](IInv /\ HandInv)
<1>1. OneRegistrar => (Spec => [](IInv /\ HandInv))
  <2> SUFFICES ASSUME OneRegistrar PROVE Spec => [](IInv /\ HandInv)
    OBVIOUS
  <2>1. IInv /\ IInv' /\ ContInv /\ HandInv /\ [Next]_vars => HandInv'
    BY HandNext
  <2> QED
    BY <2>1, IInvInit, IInvNext, ContInit, ContNext, HandInit, PTL DEF Spec
<1> QED
  BY <1>1

\* "it must not resurrect the daemon" (daemon.go:301-302): where one goroutine
\* registers and unregisters, no body of an unregistered daemon stays, whatever
\* restart, resume, sweep or launch was under way (Unregister, restartDaemonAfterExit).
THEOREM GoneForGood == OneRegistrar /\ Spec => []GoneWhenUnregistered
<1>1. IInv /\ HandInv => GoneWhenUnregistered
  <2> SUFFICES ASSUME IInv, HandInv, spec = NoSpec, \A t \in Registrars : At(t, "idle"),
                      NEW r \in RunIDs, Live(r)
               PROVE  Condemned(r)
    BY DEF GoneWhenUnregistered
  <2>1. Current(Daemon) = NoRun
    BY DEF HandInv, RegInv, NothingHeld, Unregistered, At
  <2>2. ~BoundTo(Daemon, r)
    BY <2>1 DEF Current, BoundTo
  <2> QED
    BY <2>2 DEF IInv, OneBody
<1> QED
  BY <1>1, HandInvariant, PTL

\* "slot stays pinned to a now-cancelled run ... wedging the daemon"
\* (daemon.go:323-325): where one goroutine registers and the database answers, a
\* slot bound to a run that is over is in the hands of a goroutine that frees it or
\* takes it over (onDaemonRunFinished, onDaemonSuspensionSwept, resumeDaemonBody).
THEOREM NoSlotIsPinned == OneRegistrar /\ Spec => [](("db" \notin Events) => NoPinnedSlot)
<1>1. IInv /\ HandInv => (("db" \notin Events) => NoPinnedSlot)
  BY DEF HandInv, EndsAreWorked, NoPinnedSlot, Worked, Over
<1> QED
  BY <1>1, HandInvariant, PTL
=============================================================================
