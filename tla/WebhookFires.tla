----------------------------- MODULE WebhookFires -----------------------------
(***************************************************************************)
(* One webhook from the request to the run: the auth guard                 *)
(* (webui/auth.go), Engine.WebhookHandler (trigger/webhook.go) with the    *)
(* signature, the replay cache (trigger/replay_cache.go), the slots of     *)
(* max_concurrent_tasks and the drain slot.  Requests overlap with each    *)
(* other, with reloads of the task, with the end of a record's time in the *)
(* cache, and with restarts.                                               *)
(*                                                                         *)
(* A request is [ts, body, signed, get, asset, session, relayed, wait], a  *)
(* task [mode, secret, needTs, protect, pipe].  The digest of a request is *)
(* <<ts, body>>: the secret stays the same.                                *)
(***************************************************************************)
EXTENDS Integers, Sequences, FiniteSets, FiniteSetsExt

CONSTANTS
  Ids, Shapes, Versions,   \* handler goroutines, requests, versions of the task
  InitialVersions,         \* those it may have to begin with
  TTL, Tolerance,          \* of the replay cache and of a timestamp
  MaxEntries, Slots,       \* of the cache; max_concurrent_tasks
  MaxNow, MaxRequests, MaxReloads, MaxRestarts,  \* bounds
  None

VARIABLES
  now, task, entries, order,  \* the clock, the registered version, the replay cache
  sem,        \* slots taken
  reqs,       \* handler goroutine -> the state of its request
  admitted,   \* [digest, at, n] of each request that the replay cache let through
  forgotten,  \* digests whose record was dropped to make room, or with a restart
  begun, reloads, restarts

vars == <<now, task, entries, order, sem, reqs, admitted, forgotten, begun, reloads, restarts>>
cacheVars == <<entries, order, forgotten, admitted>>
worldVars == <<now, task, begun, reloads, restarts>>

Digests == {<<s.ts, s.body>> : s \in Shapes}
Idle == [pc |-> "idle", shape |-> None, guard |-> None, spec |-> None, session |-> FALSE]

Init ==
  /\ now = 0 /\ task \in InitialVersions
  /\ entries = [d \in Digests |-> None] /\ order = <<>> /\ sem = 0
  /\ reqs = [q \in Ids |-> Idle] /\ admitted = {} /\ forgotten = {}
  /\ begun = 0 /\ reloads = 0 /\ restarts = 0

To(q, pc) == reqs' = [reqs EXCEPT ![q].pc = pc]
Answered(q) == reqs' = [reqs EXCEPT ![q] = Idle]
At(q, pc) == reqs[q].pc = pc /\ UNCHANGED worldVars
Digest(q) == <<reqs[q].shape.ts, reqs[q].shape.body>>

-----------------------------------------------------------------------------
(* The guard. *)

CanHMAC(v, s) == v.mode = "any" /\ v.secret /\ ~s.get /\ ~s.asset
AuthOutcome(v, s) ==
  CASE v.mode = "off" -> "pass"
    [] v.mode # "off" /\ ~s.relayed /\ s.session -> IF v.mode = "any" THEN "session" ELSE "pass"
    [] OTHER -> IF CanHMAC(v, s) THEN "hmac" ELSE "deny"

\* ResolveWebhookAuth reads the registered version.  A session on `any` marks the request.
Guard(q, s) ==
  LET outcome == AuthOutcome(task, s) IN
  /\ reqs[q] = Idle /\ begun < MaxRequests
  /\ begun' = begun + 1
  /\ reqs' = IF outcome = "deny" THEN reqs
             ELSE [reqs EXCEPT ![q] = [pc |-> "handle", shape |-> s, guard |-> task, spec |-> None,
                                       session |-> outcome = "session"]]
  /\ UNCHANGED <<now, task, cacheVars, sem, reloads, restarts>>

-----------------------------------------------------------------------------
(* The handler reads it again.  An asset is served by a task and unknown to a pipeline. *)

Handle(q) ==
  /\ At(q, "handle")
  /\ IF reqs[q].shape.asset THEN Answered(q)
     ELSE reqs' = [reqs EXCEPT ![q].spec = task, ![q].pc = "verify"]
  /\ UNCHANGED <<cacheVars, sem>>

\* verifyWebhookSignatureSecret
Genuine(v, s) ==
  /\ ~s.get
  /\ IF s.ts = None THEN ~v.needTs ELSE now - s.ts \in -Tolerance..Tolerance
  /\ s.signed
Verify(q) ==
  LET v == reqs[q].spec  s == reqs[q].shape IN
  /\ At(q, "verify")
  /\ IF reqs[q].session \/ ~v.secret THEN To(q, "fire")
     ELSE IF ~Genuine(v, s) THEN Answered(q)
     ELSE To(q, IF v.protect THEN "seen" ELSE "fire")
  /\ UNCHANGED <<cacheVars, sem>>

-----------------------------------------------------------------------------
(* replayCache.seen, under its lock. *)

Expired(n) == n.at < now - TTL
Held(e) == {d \in Digests : e[d] # None}
Front(k, o) == {o[i].digest : i \in 1..k}
\* Both evictions drop from the front of the order, with the record a digest has by now: at an
\* age of exactly TTL a digest is admitted while its old entry stays in the order, and takes
\* the new record along when it expires.
Without(k, o, e) ==
  [o |-> SubSeq(o, k + 1, Len(o)), e |-> [d \in Digests |-> IF d \in Front(k, o) THEN None ELSE e[d]]]
\* evictExpired
DropExpired(o, e) == Without(Min({k \in 0..Len(o) : k = Len(o) \/ ~Expired(o[k + 1])}), o, e)
\* The loop over the oldest while the cache is full.
HasRoom(c) == Cardinality(Held(c.e)) < MaxEntries \/ c.o = <<>>
MakeRoom(c) == Without(Min({k \in 0..Len(c.o) : HasRoom(Without(k, c.o, c.e))}), c.o, c.e)

SeenFault(q) ==
  LET d == Digest(q)
      kept == DropExpired(order, entries)
      room == MakeRoom(kept)
  IN /\ At(q, "seen")
     /\ IF kept.e[d] # None /\ now - kept.e[d] < TTL
        THEN Answered(q) /\ entries' = kept.e /\ order' = kept.o /\ UNCHANGED <<forgotten, admitted>>
        ELSE /\ To(q, "fire")
             /\ entries' = room.e
             /\ order' = Append(room.o, [digest |-> d, at |-> now])
             /\ forgotten' = forgotten \cup Front(Len(kept.o) - Len(room.o), kept.o)
             /\ admitted' = admitted \cup {[digest |-> d, at |-> now, n |-> Cardinality(admitted)]}
     /\ UNCHANGED sem
Seen(q) ==
  LET d == Digest(q)
      kept == DropExpired(order, entries)
      room == MakeRoom(kept)
  IN /\ At(q, "seen")
     /\ IF kept.e[d] # None /\ now - kept.e[d] < TTL
        THEN Answered(q) /\ entries' = kept.e /\ order' = kept.o /\ UNCHANGED <<forgotten, admitted>>
        ELSE /\ To(q, "fire")
             /\ entries' = [room.e EXCEPT ![d] = now]
             /\ order' = Append(room.o, [digest |-> d, at |-> now])
             /\ forgotten' = forgotten \cup Front(Len(kept.o) - Len(room.o), kept.o)
             /\ admitted' = admitted \cup {[digest |-> d, at |-> now, n |-> Cardinality(admitted)]}
     /\ UNCHANGED sem

-----------------------------------------------------------------------------
(* The fire. *)

\* A pipeline and ?wait=false fire in the background, or fail to start.
FireAsync(q) ==
  /\ At(q, "fire") /\ (reqs[q].spec.pipe \/ ~reqs[q].shape.wait)
  /\ Answered(q) /\ UNCHANGED <<cacheVars, sem>>
\* A waiting request takes a slot or is told to retry later.
TakeSlot(q) ==
  /\ At(q, "fire") /\ ~reqs[q].spec.pipe /\ reqs[q].shape.wait
  /\ IF sem < Slots THEN sem' = sem + 1 /\ To(q, "drain") ELSE Answered(q) /\ UNCHANGED sem
  /\ UNCHANGED cacheVars
\* DrainSlot is refused once shutdown has latched.
FireSync(q) ==
  /\ At(q, "drain")
  /\ \/ To(q, "run") /\ UNCHANGED sem
     \/ sem' = sem - 1 /\ Answered(q)
  /\ UNCHANGED cacheVars
RunEnds(q) == At(q, "run") /\ sem' = sem - 1 /\ Answered(q) /\ UNCHANGED cacheVars

-----------------------------------------------------------------------------
\* No time of the order of TTL passes between the check of a timestamp and the cache.
Tick ==
  /\ now < MaxNow /\ now' = now + 1
  /\ \A q \in Ids : reqs[q].pc # "seen"
  /\ UNCHANGED <<task, cacheVars, sem, reqs, begun, reloads, restarts>>
Reload(v) ==
  /\ v # task /\ reloads < MaxReloads
  /\ task' = v /\ reloads' = reloads + 1
  /\ UNCHANGED <<now, cacheVars, sem, reqs, begun, restarts>>
\* The cache is in memory only; requests under way are cut off.
Restart ==
  /\ restarts < MaxRestarts /\ restarts' = restarts + 1
  /\ entries' = [d \in Digests |-> None] /\ order' = <<>> /\ forgotten' = forgotten \cup Front(Len(order), order)
  /\ sem' = 0 /\ reqs' = [q \in Ids |-> Idle]
  /\ UNCHANGED <<now, task, admitted, begun, reloads>>

Next ==
  \/ \E q \in Ids : \/ \E s \in Shapes : Guard(q, s)
                    \/ Handle(q) \/ Verify(q) \/ Seen(q) \/ FireAsync(q) \/ TakeSlot(q) \/ FireSync(q) \/ RunEnds(q)
  \/ \E v \in Versions : Reload(v)
  \/ Tick \/ Restart

Spec == Init /\ [][Next]_vars

-----------------------------------------------------------------------------
TypeOK ==
  /\ now \in 0..MaxNow /\ task \in Versions /\ sem \in 0..Slots
  /\ Cardinality(Held(entries)) <= MaxEntries
  /\ \A q \in Ids : reqs[q].pc \in {"idle", "handle", "verify", "seen", "fire", "drain", "run"}

\* A request whose record was not dropped to make room, nor by a restart, is not let through
\* twice within the time of the cache, unless a copy came at an age of exactly TTL before; even
\* then no three copies come within that time.  One with a timestamp is never let through
\* twice: the tolerance is over first.
Renewed(g) ==
  \E a, b \in admitted : a.digest = g.digest /\ b.digest = g.digest /\ b.at - a.at = TTL /\ b.n <= g.n
OncePerWindow ==
  LET kept == {f \in admitted : f.digest \notin forgotten} IN
  \A f, g \in kept : f.digest = g.digest /\ f.n < g.n =>
    /\ f.digest[1] = None
    /\ g.at - f.at > TTL \/ Renewed(g)
    /\ \A h \in kept : h.digest = f.digest /\ g.n < h.n => h.at - f.at > TTL

\* While the task did not change under it, a request to a guarded webhook that fired came
\* with a session, not through the relay, or under `any` with a signature; and a
\* secret was checked unless a session stood for it.
FiredByRight ==
  \A q \in Ids :
    LET v == reqs[q].guard  s == reqs[q].shape IN
    reqs[q].pc \in {"fire", "drain", "run"} /\ reqs[q].spec = v =>
      /\ v.mode # "off" => (s.session /\ ~s.relayed) \/ (v.mode = "any" /\ v.secret /\ s.signed)
      /\ v.secret => s.signed \/ (v.mode = "any" /\ s.session /\ ~s.relayed)

\* Every slot that is taken is of a request that still holds it.
SlotsReturn == sem = Cardinality({q \in Ids : reqs[q].pc \in {"drain", "run"}})
=============================================================================
