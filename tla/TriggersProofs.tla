------------------------- MODULE TriggersProofs -------------------------
(***************************************************************************)
(* Proofs about Triggers: what is armed when no registration is under way, *)
(* whatever the order of registrations, retries and removals, and that a   *)
(* reload keeps what the new content claims again.  Then, what the tasks   *)
(* themselves fire: that a fire by a run is audited, that a loop waits for *)
(* the run it fired, and that no log shows a secret of the run, whatever   *)
(* its connections do, but one whose output overlapped with another        *)
(* (TaskCalls).  And what a run is given: that a deno or python run starts *)
(* with every variable it declares, or not at all, and waits on no         *)
(* provider that was never fired (EnvResolve).                             *)
(* Then, what an operator is shown: that an approval arms what was on the  *)
(* screen it was given from (ApprovalReview).                              *)
(* And how tasks are written: that a listed task is whole, and an agent's  *)
(* turn is its session's own (Authoring).                                  *)
(***************************************************************************)
EXTENDS Integers, Sequences, FiniteSets, Triggers, FiniteSetTheorems, WellFoundedInduction, TLAPS

\* The calls of tasks
CONSTANTS Servers, Values, Conns, CallVersions, Initial, Launch, Any, RunIds, MaxTriggers,
  MaxCallEdits, MaxConnCalls
VARIABLES registered, callRows, callServers, callConn, callLogs, trail, callEdits, callsMade
L == INSTANCE TaskCalls WITH
       Versions <- CallVersions, MaxEdits <- MaxCallEdits, MaxCalls <- MaxConnCalls,
       rows <- callRows, runs <- callServers, conn <- callConn, logs <- callLogs,
       edits <- callEdits, calls <- callsMade

\* The environment of a run
CONSTANTS Runs, Keys, Providers, Specs, Stores, CacheTTL, MaxVersion, MaxContent, MaxNow, MaxPrereqs,
  MaxEnvEdits
VARIABLES secretStore, provider, secretCache, flight, envRun, prereqs, envEdits, envNow
E == INSTANCE EnvResolve WITH
       TTL <- CacheTTL, MaxEdits <- MaxEnvEdits, store <- secretStore, cache <- secretCache,
       run <- envRun, edits <- envEdits, now <- envNow

\* The review of a pending task
CONSTANTS Viewers, Links, Files, FileSets, SpecOf, Overs, Literals, MaxPushes, MaxAdmits,
  MaxViews
VARIABLES trees, over, rec, inRegistry, held, reviewLock, statuses, links, view, grants,
  reviewed, pushes, asked
G == INSTANCE ApprovalReview WITH
       Tokens <- Links, Contents <- FileSets, MaxChanges <- MaxPushes, registered <- inRegistry,
       pending <- held, lock <- reviewLock, tokens <- links, armed <- reviewed, edits <- pushes

\* Authoring
CONSTANTS AutCalls, Names, MaxSessions, MaxAutCalls
VARIABLES taskDir, listed, authorRows, authorLocks, autCalls, autBegun, twice, mixed
A == INSTANCE Authoring WITH
       Calls <- AutCalls, MaxCalls <- MaxAutCalls, dir <- taskDir, entries <- listed,
       sessions <- authorRows, locks <- authorLocks, calls <- autCalls, begun <- autBegun

-----------------------------------------------------------------------------
(* What is in each variable *)

CallSet == [pc : PCs, id : IDs \cup {None}, v : Contents \cup {None}, kept : BOOLEAN, had : BOOLEAN,
            more : SUBSET Pipes, again : BOOLEAN]
BootSet == [pc : {"known", "prune", "query", "fire", "list", "loop", "up"}, seen : SUBSET IDs,
            list : [IDs -> Contents \cup {None}]]

Typed ==
  /\ disk \in [IDs -> Contents \cup {None}] /\ registry \in [IDs -> Contents \cup {None}]
  /\ todo \subseteq IDs
  /\ entries \subseteq Entries
  /\ armed \in [IDs -> Entries \cup {None}]
  /\ \A id \in IDs : armed[id] # None => armed[id].id = id
  /\ rows \in [IDs -> RowSet \cup {None}]
  /\ hooks \in [Hooks -> IDs \cup {None}]
  /\ deferred \in [IDs -> Contents \cup {None}]
  /\ mu \in Actors \cup {None}
  /\ call \in [Actors -> CallSet]
  /\ boot \in BootSet
  /\ ticks \subseteq [id : IDs, expr : Crons, pc : {"fire", "advance"}]
  /\ missed \subseteq IDs /\ caught \subseteq IDs /\ raced \subseteq IDs
  /\ spent \in [changes : Nat, ticks : Nat, starts : Nat]

-----------------------------------------------------------------------------
(* The calls under way *)

RegPCs == {"lock", "remove", "delete", "check", "add", "record", "insert", "claim"}
HoldPCs == (RegPCs \ {"lock"}) \cup {"retry"}
UnregPCs == {"forget", "uremove", "udelete"}

\* A call for `id` that the reconciler has begun and that waits for registerMu.
Pending(id) == call["rec"].id = id /\ call["rec"].pc \in {"lock", "forget"}

\* The shape of a call: who makes it, what it is for and who holds registerMu.
Shape(a) ==
  LET c == call[a] IN
  /\ c.pc = "idle" => c = NoCall
  /\ mu = a <=> c.pc \in HoldPCs
  /\ c.pc \in RegPCs => c.id \in IDs /\ c.v \in Contents /\ (~c.again => c.more = {})
  /\ c.pc = "lock" => ~c.again
  /\ c.pc \in UnregPCs => a = "rec" /\ c.id \in IDs /\ registry[c.id] = None /\ c.more = {} /\ ~c.again
  /\ c.again => c.id \in Pipes
  /\ a = "boot" /\ ~c.again /\ c.pc \in RegPCs => c.id \in Tasks
  /\ c.pc \in {"add", "record", "insert", "claim"} => c.v.enabled /\ c.v.ok /\ deferred[c.id] = None
  /\ c.pc \in {"add", "record", "insert"} => c.v.cron # None
Shaped == \A a \in Actors : Shape(a)

\* The content that a call arms is the registered one, unless the reconciler waits with
\* a newer one.
Current ==
  /\ call["rec"].pc \in RegPCs =>
       call["rec"].v = registry[call["rec"].id] \/ (call["rec"].again /\ call["rec"].id \in raced)
  /\ call["boot"].pc \in RegPCs =>
       \/ call["boot"].v = registry[call["boot"].id] \/ call["boot"].id \in raced
       \/ call["boot"].again /\ Pending(call["boot"].id)
  /\ \A id \in IDs : boot.list[id] # None =>
       boot.pc = "loop" /\ id \in Tasks /\ (boot.list[id] = registry[id] \/ id \in raced)

\* Unregister takes down what nobody arms.
Alone ==
  call["rec"].pc \in {"uremove", "udelete"} =>
    deferred[call["rec"].id] = None /\ (call["rec"].id \in raced \/ call["boot"].id # call["rec"].id)

-----------------------------------------------------------------------------
(* What a call has done so far *)

Made(a) == [id |-> call[a].id, expr |-> call[a].v.cron, n |-> IF call[a].kept THEN 1 ELSE 0]

Progress(a) ==
  LET c == call[a] IN
  c.id \notin raced =>
    /\ c.pc \in {"delete", "check"} => (c.kept <=> armed[c.id] # None)
    /\ c.pc \in {"delete", "check", "insert", "claim"} /\ armed[c.id] # None => armed[c.id].expr = KeepCron(c.v)
    /\ c.pc \in {"add", "record"} => armed[c.id] = None
    /\ c.pc = "record" => Made(a) \in entries
    /\ c.pc \in {"insert", "claim"} /\ c.v.cron # None => armed[c.id] # None
    /\ c.pc \in RegPCs \ {"lock", "remove"} => \A h \in Hooks : hooks[h] = c.id => h = KeepHook(c.id, c.v)
Progressing == \A a \in Actors : Progress(a)

\* What fires is what is recorded, or about to be.
Recorded ==
  \A id \in IDs \ raced :
    /\ armed[id] # None => armed[id] \in entries
    /\ \A e \in entries :
         e.id = id => e = armed[id] \/ \E a \in Actors : call[a].pc = "record" /\ call[a].id = id /\ e = Made(a)

-----------------------------------------------------------------------------
(* Pipelines that wait *)

Retrying(p) ==
  \/ call["rec"].id = StageOf[p] /\ call["rec"].pc \in RegPCs
  \/ p \in call["rec"].more
  \/ call["rec"].id = p /\ call["rec"].again /\ call["rec"].pc \in {"remove", "delete", "check"}

Waiting ==
  /\ \A t \in Tasks : deferred[t] = None
  /\ \A a \in Actors : call[a].again /\ call[a].pc \in {"remove", "delete", "check"} =>
       deferred[call[a].id] = call[a].v
  /\ \A p \in Pipes : deferred[p] # None =>
       /\ Asks(StageOf[p]) => Retrying(p)
       /\ \/ deferred[p] = registry[p] \/ p \in raced
          \/ call["rec"].id = p /\ ~call["rec"].again
             /\ call["rec"].pc \in {"lock", "remove", "delete", "check", "forget"}
       /\ p \notin raced =>
            /\ armed[p] # None => armed[p].expr = KeepCron(deferred[p])
            /\ \A h \in Hooks : hooks[h] = p => h = KeepHook(p, deferred[p])

-----------------------------------------------------------------------------
(* What is armed for an ID that no call is at *)

Early(id) == call["rec"].id = id /\ call["rec"].pc \in {"lock", "remove", "forget", "uremove"}
Busy(id) ==
  \E a \in Actors : call[a].id = id /\ call[a].pc \in {"lock", "remove", "delete", "check", "add", "record"}

Settled ==
  \A id \in IDs \ raced :
    /\ Asks(id) /\ registry[id].cron # None /\ armed[id] = None => deferred[id] # None \/ Busy(id)
    /\ ~Early(id) =>
         /\ armed[id] # None => registry[id] # None /\ armed[id].expr = KeepCron(registry[id])
         /\ \A h \in Hooks : hooks[h] = id => registry[id] # None /\ KeepHook(id, registry[id]) = h

IInv ==
  /\ Typed /\ Shaped /\ Current /\ Alone /\ Progressing /\ Recorded /\ Waiting /\ Settled
  /\ RowOfItsSchedule

USE DEF Actors, RegPCs, HoldPCs, UnregPCs, NoCall, regVars, armVars, bootVars

-----------------------------------------------------------------------------
(* Steps of a call *)

\* What a step of the call of `a` seldom changes.
Same(a) ==
  /\ call'[a].id = call[a].id /\ call'[a].v = call[a].v
  /\ call'[a].more = call[a].more /\ call'[a].again = call[a].again

LEMMA CallPuts ==
  ASSUME NEW f \in [Actors -> CallSet], NEW a \in Actors, NEW c \in CallSet
  PROVE  /\ [f EXCEPT ![a] = c] \in [Actors -> CallSet] /\ [f EXCEPT ![a] = c][a] = c
         /\ \A b \in Actors : b # a => [f EXCEPT ![a] = c][b] = f[b]
OBVIOUS

LEMMA CallGoes ==
  ASSUME Typed, NEW a \in Actors, NEW pc \in PCs
  PROVE  /\ To(a, pc) \in [Actors -> CallSet] /\ To(a, pc)[a] = [call[a] EXCEPT !.pc = pc]
         /\ To(a, pc)[a].pc = pc /\ To(a, pc)[a].id = call[a].id /\ To(a, pc)[a].v = call[a].v
         /\ To(a, pc)[a].kept = call[a].kept /\ To(a, pc)[a].more = call[a].more
         /\ To(a, pc)[a].again = call[a].again
         /\ \A b \in Actors : b # a => To(a, pc)[b] = call[b]
BY DEF Typed, To, CallSet

LEMMA CallEnds ==
  ASSUME Typed, NEW a \in Actors
  PROVE  /\ Over(a) \in [Actors -> CallSet] /\ \A b \in Actors : b # a => Over(a)[b] = call[b]
         /\ call[a].more = {} => Over(a)[a] = NoCall
         /\ call[a].more # {} => Over(a)[a] = [call[a] EXCEPT !.pc = "retry"]
<1>1. NoCall \in CallSet
  BY DEF CallSet, PCs
<1>2. [call EXCEPT ![a].pc = "retry"] = To(a, "retry") /\ "retry" \in PCs
  BY DEF To, PCs
<1> QED
  BY <1>1, <1>2, CallGoes DEF Typed, Over

\* The shape of a call that a step does not touch.
LEMMA ShapeKept ==
  ASSUME NEW b \in Actors, Shape(b), call'[b] = call[b], mu' = b <=> mu = b,
         call[b].pc \in UnregPCs => registry'[call[b].id] = registry[call[b].id],
         mu = b => deferred' = deferred
  PROVE  Shape(b)'
<1>1. call[b].pc \in {"add", "record", "insert", "claim"} => mu = b
  BY DEF Shape
<1>2. call[b].pc \in {"add", "record", "insert", "claim"} => deferred'[call[b].id] = deferred[call[b].id]
  BY <1>1
<1> QED
  BY <1>2 DEF Shape

\* Steps that leave registrations alone.
LEMMA Frame ==
  ASSUME IInv, UNCHANGED <<registry, entries, armed, hooks, deferred, mu, call, raced>>
  PROVE  Shaped' /\ Alone' /\ Progressing' /\ Recorded' /\ Waiting' /\ Settled'
<1>1. Shaped'
  BY ShapeKept DEF IInv, Shaped
<1>2. Alone'
  BY DEF IInv, Alone
<1>3. Progressing' /\ Recorded'
  BY DEF IInv, Progressing, Progress, Recorded, Made
<1>4. Waiting' /\ Settled'
  BY DEF IInv, Waiting, Retrying, Settled, Busy, Early, Asks
<1> QED
  BY <1>1, <1>2, <1>3, <1>4

LEMMA TakenDown ==
  ASSUME WellFormed, Typed, NEW id \in IDs, NEW cron, NEW hook, TakeDown(id, cron, hook)
  PROVE  /\ armed' \in [IDs -> Entries \cup {None}] /\ entries' \subseteq entries
         /\ \A x \in IDs : x # id => armed'[x] = armed[x]
         /\ \/ armed'[id] = armed[id] /\ entries' = entries /\ (armed[id] # None => armed[id].expr = cron)
            \/ armed'[id] = None /\ armed[id] # None /\ armed[id].expr # cron /\ entries' = entries \ {armed[id]}
         /\ hooks' \in [Hooks -> IDs \cup {None}]
         /\ \A h \in Hooks : hooks'[h] = id => hooks[h] = id /\ h = hook
         /\ \A h \in Hooks, x \in IDs : x # id => (hooks'[h] = x <=> hooks[h] = x)
<1>1. armed' \in [IDs -> Entries \cup {None}] /\ entries' \subseteq entries
  BY DEF Typed, TakeDown
<1>2. \A x \in IDs : x # id => armed'[x] = armed[x]
  BY DEF Typed, TakeDown
<1>3. \/ armed'[id] = armed[id] /\ entries' = entries /\ (armed[id] # None => armed[id].expr = cron)
      \/ armed'[id] = None /\ armed[id] # None /\ armed[id].expr # cron /\ entries' = entries \ {armed[id]}
  BY DEF Typed, TakeDown
<1>4. hooks' \in [Hooks -> IDs \cup {None}]
  BY DEF Typed, TakeDown
<1>5. /\ \A h \in Hooks : hooks'[h] = id => hooks[h] = id /\ h = hook
      /\ \A h \in Hooks, x \in IDs : x # id => (hooks'[h] = x <=> hooks[h] = x)
  BY DEF Typed, TakeDown, WellFormed
<1> QED
  BY <1>1, <1>2, <1>3, <1>4, <1>5

LEMMA LockStep ==
  ASSUME WellFormed, IInv, NEW a \in Actors, Lock(a)
  PROVE  IInv'
<1>c. /\ call' \in [Actors -> CallSet]
      /\ \A b \in Actors : b # a => call'[b] = call[b]
      /\ call'[a].pc = "remove" /\ Same(a) /\ call'[a].kept = call[a].kept
  <2>1. call' \in [Actors -> CallSet]
    BY DEF IInv, Typed, Shaped, Shape, CallSet, PCs, IDs, To, IsPipe, Lock, Same
  <2>2. \A b \in Actors : b # a => call'[b] = call[b]
    BY DEF IInv, Typed, Shaped, Shape, CallSet, PCs, IDs, To, IsPipe, Lock, Same
  <2>3. call'[a].pc = "remove" /\ Same(a) /\ call'[a].kept = call[a].kept
    BY DEF IInv, Typed, Shaped, Shape, CallSet, PCs, IDs, To, IsPipe, Lock, Same
  <2> QED
    BY <2>1, <2>2, <2>3
<1>1. Typed'
  BY <1>c DEF WellFormed, IInv, Typed, To, IsPipe, Lock
<1>2. Shaped'
  <2>1. Shape(a)'
    BY <1>c DEF WellFormed, IInv, Typed, Shaped, Shape, To, IsPipe, Lock, Same, IDs
  <2>2. ASSUME NEW b \in Actors, b # a PROVE Shape(b)'
    BY <1>c, <2>2, ShapeKept DEF WellFormed, IInv, Shaped, Lock
  <2> QED
    BY <2>1, <2>2 DEF Shaped
<1>3. Current'
  BY <1>c DEF WellFormed, IInv, Typed, Current, Shaped, Shape, Waiting, Pending, To, IsPipe, Lock, Same
<1>4. Alone'
  BY <1>c DEF WellFormed, IInv, Typed, Alone, Shaped, Shape, Current, Pending, Waiting, To, IsPipe, Lock, Same
<1>5. Progressing'
  <2>1. Progress(a)'
    BY <1>c DEF WellFormed, IInv, Typed, Progressing, Shaped, Shape, Alone, Progress, Made, KeepCron, To, IsPipe, Lock, Same
  <2>2. ASSUME NEW b \in Actors, b # a PROVE Progress(b)'
    BY <1>c, <2>2 DEF WellFormed, IInv, Typed, Progressing, Shaped, Shape, Alone, Progress, Made, KeepCron, To, IsPipe, Lock, Same
  <2> QED
    BY <2>1, <2>2 DEF Progressing
<1>6. Recorded'
  BY <1>c DEF WellFormed, IInv, Typed, Recorded, Shaped, Shape, Alone, Progressing, Progress, Made, To, IsPipe, Lock, Same
<1>7. Waiting'
  BY <1>c DEF WellFormed, IInv, Typed, Waiting, Shaped, Shape, Current, Alone, Pending, Progressing, Progress, Retrying, Asks, IsPipe, KeepCron, IDs, To, Lock, Same
<1>8. Settled'
  BY <1>c DEF WellFormed, IInv, Typed, Settled, Shaped, Shape, Progressing, Progress, Current, Alone, Pending, Waiting, Busy, Early, Asks, IsPipe, KeepCron, To, Lock, Same
<1>9. RowOfItsSchedule'
  BY DEF IInv, Typed, RowOfItsSchedule, To, IsPipe, Lock
<1> QED
  BY <1>1, <1>2, <1>3, <1>4, <1>5, <1>6, <1>7, <1>8, <1>9 DEF IInv

LEMMA RemoveStep ==
  ASSUME WellFormed, IInv, NEW a \in Actors, Remove(a)
  PROVE  IInv'
<1>c. /\ call' \in [Actors -> CallSet]
      /\ \A b \in Actors : b # a => call'[b] = call[b]
      /\ call'[a].pc = "delete" /\ Same(a)
      /\ call'[a].kept <=> armed[call[a].id] # None /\ ~Had(call[a].id, KeepCron(call[a].v))
  <2> DEFINE c == call[a]
             n == [c EXCEPT !.pc = "delete", !.had = Had(c.id, KeepCron(c.v)),
                            !.kept = armed[c.id] # None /\ ~Had(c.id, KeepCron(c.v))]
  <2>1. c \in CallSet
    BY DEF IInv, Typed
  <2>2. n \in CallSet /\ n.pc = "delete" /\ n.id = c.id /\ n.v = c.v /\ n.more = c.more /\ n.again = c.again
        /\ (n.kept <=> armed[c.id] # None /\ ~Had(c.id, KeepCron(c.v)))
    BY <2>1 DEF CallSet, PCs, Had
  <2>3. call' = [call EXCEPT ![a] = n]
    BY <2>1 DEF Remove, IInv, Typed
  <2>4. call' \in [Actors -> CallSet] /\ call'[a] = n /\ \A b \in Actors : b # a => call'[b] = call[b]
    BY <2>2, <2>3, CallPuts DEF IInv, Typed
  <2> QED
    BY <2>2, <2>4 DEF Same
<1>t. /\ call[a].pc = "remove" /\ call[a].id \in IDs /\ call[a].v \in Contents \cup {None}
      /\ armed' \in [IDs -> Entries \cup {None}] /\ entries' \subseteq entries
      /\ \A x \in IDs : x # call[a].id => armed'[x] = armed[x]
      /\ \/ armed'[call[a].id] = armed[call[a].id] /\ entries' = entries
            /\ (armed[call[a].id] # None => armed[call[a].id].expr = KeepCron(call[a].v))
         \/ armed'[call[a].id] = None /\ armed[call[a].id] # None
            /\ armed[call[a].id].expr # KeepCron(call[a].v) /\ entries' = entries \ {armed[call[a].id]}
      /\ hooks' \in [Hooks -> IDs \cup {None}]
      /\ \A h \in Hooks : hooks'[h] = call[a].id => hooks[h] = call[a].id /\ h = KeepHook(call[a].id, call[a].v)
      /\ \A h \in Hooks, x \in IDs : x # call[a].id => (hooks'[h] = x <=> hooks[h] = x)
      /\ UNCHANGED <<regVars, rows, deferred, mu, bootVars, ticks, raced, spent>>
  BY TakenDown DEF IInv, Typed, Shaped, Shape, Remove, CallSet
<1>k. call'[a].kept <=> armed'[call[a].id] # None
  BY <1>c, <1>t DEF Had
<1>1. Typed'
  BY <1>c, <1>t, <1>k DEF WellFormed, IInv, Typed, KeepCron, IsPipe
<1>2. Shaped'
  <2>1. Shape(a)'
    BY <1>c, <1>t DEF IInv, Shaped, Shape, Same
  <2>2. ASSUME NEW b \in Actors, b # a PROVE Shape(b)'
    BY <1>c, <1>t, <2>2, ShapeKept DEF IInv, Shaped
  <2> QED
    BY <2>1, <2>2 DEF Shaped
<1>3. Current'
  BY <1>c, <1>t, <1>k DEF WellFormed, IInv, Typed, Current, Shaped, Shape, Waiting, Pending, KeepCron, IsPipe, Same
<1>4. Alone'
  BY <1>c, <1>t, <1>k DEF WellFormed, IInv, Typed, Alone, Shaped, Shape, Current, Pending, Waiting, KeepCron, IsPipe, Same
<1>5. Progressing'
  <2>1. Progress(a)'
    BY <1>c, <1>t, <1>k DEF WellFormed, IInv, Typed, Progressing, Shaped, Shape, Alone, Progress, Made, KeepCron, IsPipe, Same
  <2>2. ASSUME NEW b \in Actors, b # a PROVE Progress(b)'
    BY <1>c, <1>t, <1>k, <2>2 DEF WellFormed, IInv, Typed, Progressing, Shaped, Shape, Alone, Progress, Made, KeepCron, IsPipe, Same
  <2> QED
    BY <2>1, <2>2 DEF Progressing
<1>6. Recorded'
  BY <1>c, <1>t, <1>k DEF WellFormed, IInv, Typed, Recorded, Shaped, Shape, Alone, Progressing, Progress, Made, KeepCron, IsPipe, Same
<1>7. Waiting'
  BY <1>c, <1>t, <1>k DEF WellFormed, IInv, Typed, Waiting, Shaped, Shape, Current, Alone, Pending, Progressing, Progress, Retrying, Asks, IsPipe, KeepCron, IDs, Same
<1>8. Settled'
  BY <1>c, <1>t, <1>k DEF WellFormed, IInv, Typed, Settled, Shaped, Shape, Progressing, Progress, Current, Alone, Pending, Waiting, Busy, Early, Asks, IsPipe, KeepCron, Same
<1>9. RowOfItsSchedule'
  BY <1>c, <1>t, <1>k DEF IInv, Typed, RowOfItsSchedule, KeepCron, IsPipe
<1> QED
  BY <1>1, <1>2, <1>3, <1>4, <1>5, <1>6, <1>7, <1>8, <1>9 DEF IInv

LEMMA DeleteRowStep ==
  ASSUME WellFormed, IInv, NEW a \in Actors, DeleteRow(a)
  PROVE  IInv'
<1>c. /\ call' \in [Actors -> CallSet]
      /\ \A b \in Actors : b # a => call'[b] = call[b]
      /\ call'[a].pc = "check" /\ Same(a) /\ call'[a].kept = call[a].kept
  <2>1. call' \in [Actors -> CallSet]
    BY DEF IInv, Typed, Shaped, Shape, CallSet, PCs, IDs, To, DeleteRow, Same
  <2>2. \A b \in Actors : b # a => call'[b] = call[b]
    BY DEF IInv, Typed, Shaped, Shape, CallSet, PCs, IDs, To, DeleteRow, Same
  <2>3. call'[a].pc = "check" /\ Same(a) /\ call'[a].kept = call[a].kept
    BY DEF IInv, Typed, Shaped, Shape, CallSet, PCs, IDs, To, DeleteRow, Same
  <2> QED
    BY <2>1, <2>2, <2>3
<1>1. Typed'
  BY <1>c DEF WellFormed, IInv, Typed, To, DeleteRow
<1>2. Shaped'
  <2>1. Shape(a)'
    BY <1>c DEF WellFormed, IInv, Typed, Shaped, Shape, To, DeleteRow, Same, IDs
  <2>2. ASSUME NEW b \in Actors, b # a PROVE Shape(b)'
    BY <1>c, <2>2, ShapeKept DEF WellFormed, IInv, Shaped, DeleteRow
  <2> QED
    BY <2>1, <2>2 DEF Shaped
<1>3. Current'
  BY <1>c DEF WellFormed, IInv, Typed, Current, Shaped, Shape, Waiting, Pending, To, DeleteRow, Same
<1>4. Alone'
  BY <1>c DEF WellFormed, IInv, Typed, Alone, Shaped, Shape, Current, Pending, Waiting, To, DeleteRow, Same
<1>5. Progressing'
  <2>1. Progress(a)'
    BY <1>c DEF WellFormed, IInv, Typed, Progressing, Shaped, Shape, Alone, Progress, Made, KeepCron, To, DeleteRow, Same
  <2>2. ASSUME NEW b \in Actors, b # a PROVE Progress(b)'
    BY <1>c, <2>2 DEF WellFormed, IInv, Typed, Progressing, Shaped, Shape, Alone, Progress, Made, KeepCron, To, DeleteRow, Same
  <2> QED
    BY <2>1, <2>2 DEF Progressing
<1>6. Recorded'
  BY <1>c DEF WellFormed, IInv, Typed, Recorded, Shaped, Shape, Alone, Progressing, Progress, Made, To, DeleteRow, Same
<1>7. Waiting'
  BY <1>c DEF WellFormed, IInv, Typed, Waiting, Shaped, Shape, Current, Alone, Pending, Progressing, Progress, Retrying, Asks, IsPipe, KeepCron, IDs, To, DeleteRow, Same
<1>8. Settled'
  BY <1>c DEF WellFormed, IInv, Typed, Settled, Shaped, Shape, Progressing, Progress, Current, Alone, Pending, Waiting, Busy, Early, Asks, IsPipe, KeepCron, To, DeleteRow, Same
<1>9. RowOfItsSchedule'
  BY DEF IInv, Typed, RowOfItsSchedule, To, DeleteRow
<1> QED
  BY <1>1, <1>2, <1>3, <1>4, <1>5, <1>6, <1>7, <1>8, <1>9 DEF IInv

LEMMA CheckStep ==
  ASSUME WellFormed, IInv, NEW a \in Actors, Check(a)
  PROVE  IInv'
<1>c. /\ call' \in [Actors -> CallSet]
      /\ \A b \in Actors : b # a => call'[b] = call[b]
      /\ \/ call'[a].pc \in {"add", "claim"} /\ Same(a) /\ call'[a].kept = call[a].kept
         \/ call'[a] = NoCall /\ call[a].more = {}
         \/ call'[a].pc = "retry" /\ Same(a) /\ call[a].more # {}
  <2> DEFINE c == call[a]
             Goes(pc) == call'[a].pc = pc /\ Same(a) /\ call'[a].kept = c.kept
  <2>1. ASSUME call' = Over(a)
        PROVE  /\ call' \in [Actors -> CallSet] /\ \A b \in Actors : b # a => call'[b] = call[b]
               /\ \/ call'[a] = NoCall /\ c.more = {}
                  \/ call'[a].pc = "retry" /\ Same(a) /\ c.more # {}
    BY <2>1, CallEnds DEF IInv, Typed, CallSet, Same
  <2>2. ASSUME NEW pc \in {"add", "claim"}, call' = To(a, pc)
        PROVE  call' \in [Actors -> CallSet] /\ (\A b \in Actors : b # a => call'[b] = call[b]) /\ Goes(pc)
    <3>1. pc \in PCs
      BY DEF PCs
    <3>2. Typed
      BY DEF IInv
    <3>3. /\ To(a, pc) \in [Actors -> CallSet] /\ \A b \in Actors : b # a => To(a, pc)[b] = call[b]
          /\ To(a, pc)[a].pc = pc /\ To(a, pc)[a].id = c.id /\ To(a, pc)[a].v = c.v
          /\ To(a, pc)[a].kept = c.kept /\ To(a, pc)[a].more = c.more /\ To(a, pc)[a].again = c.again
      BY <3>1, <3>2, CallGoes
    <3> QED
      BY <2>2, <3>3 DEF Same
  <2>3. call' = Over(a) \/ \E pc \in {"add", "claim"} : call' = To(a, pc)
    BY DEF Check
  <2> QED
    BY <2>1, <2>2, <2>3
<1>b. /\ call[a].pc = "check" /\ call[a].id \in IDs /\ call[a].v \in Contents /\ mu = a
      /\ \/ /\ ~call[a].v.enabled \/ (~call[a].v.ok /\ call[a].again)
            /\ deferred' = [deferred EXCEPT ![call[a].id] = None] /\ raced' = raced
            /\ call'[a].pc \in {"idle", "retry"}
         \/ /\ call[a].v.enabled /\ IsPipe(call[a].id) /\ registry[StageOf[call[a].id]] = None
            /\ deferred' = [deferred EXCEPT ![call[a].id] = call[a].v] /\ raced' = raced
            /\ call'[a].pc \in {"idle", "retry"}
         \/ /\ call[a].v.enabled /\ ~call[a].v.ok /\ ~call[a].again /\ deferred' = deferred
            /\ raced' = IF deferred[call[a].id] # None THEN raced \cup {call[a].id} ELSE raced
            /\ call'[a].pc \in {"idle", "retry"}
         \/ /\ call[a].v.enabled /\ call[a].v.ok
            /\ deferred' = [deferred EXCEPT ![call[a].id] = None] /\ raced' = raced
            /\ call'[a].pc = IF call[a].v.cron # None /\ ~call[a].kept THEN "add" ELSE "claim"
      /\ mu' = IF call'[a].pc = "idle" THEN None ELSE a
      /\ UNCHANGED <<regVars, entries, armed, rows, hooks, bootVars, ticks, spent>>
  <2>1. call[a].pc = "check" /\ call[a].id \in IDs /\ call[a].v \in Contents /\ mu = a
    BY DEF IInv, Shaped, Shape, Check
  <2>2. call' = Over(a) => call'[a].pc \in {"idle", "retry"} /\ Unlocks(a) = IF call'[a].pc = "idle" THEN None ELSE a
    BY <2>1, CallEnds DEF IInv, Typed, CallSet, Unlocks
  <2>3. To(a, "add")[a].pc = "add" /\ To(a, "claim")[a].pc = "claim"
    BY CallGoes DEF IInv, PCs
  <2>4. /\ To(a, IF call[a].v.cron # None /\ ~call[a].kept THEN "add" ELSE "claim")
             = IF call[a].v.cron # None /\ ~call[a].kept THEN To(a, "add") ELSE To(a, "claim")
    OBVIOUS
  <2>5. UNCHANGED <<regVars, entries, armed, rows, hooks, bootVars, ticks, spent>>
    BY DEF Check
  <2>6. \/ /\ ~call[a].v.enabled \/ (~call[a].v.ok /\ call[a].again)
           /\ deferred' = [deferred EXCEPT ![call[a].id] = None] /\ raced' = raced
           /\ call' = Over(a) /\ mu' = Unlocks(a)
        \/ /\ call[a].v.enabled /\ IsPipe(call[a].id) /\ registry[StageOf[call[a].id]] = None
           /\ deferred' = [deferred EXCEPT ![call[a].id] = call[a].v] /\ raced' = raced
           /\ call' = Over(a) /\ mu' = Unlocks(a)
        \/ /\ call[a].v.enabled /\ ~call[a].v.ok /\ ~call[a].again /\ deferred' = deferred
           /\ raced' = IF deferred[call[a].id] # None THEN raced \cup {call[a].id} ELSE raced
           /\ call' = Over(a) /\ mu' = Unlocks(a)
        \/ /\ call[a].v.enabled /\ call[a].v.ok
           /\ deferred' = [deferred EXCEPT ![call[a].id] = None] /\ raced' = raced
           /\ call' = To(a, IF call[a].v.cron # None /\ ~call[a].kept THEN "add" ELSE "claim") /\ mu' = mu
    BY DEF Check
  <2> QED
    BY <2>1, <2>2, <2>3, <2>4, <2>5, <2>6
<1>1. Typed'
  <2>1. deferred' \in [IDs -> Contents \cup {None}] /\ mu' \in Actors \cup {None} /\ raced' \subseteq IDs
    BY <1>b DEF IInv, Typed
  <2> QED
    BY <1>b, <1>c, <2>1 DEF IInv, Typed
<1>2. Shaped'
  <2>1. Shape(a)'
    <3>1. CASE call'[a].pc = "idle"
      BY <1>b, <1>c, <3>1 DEF WellFormed, Shape
    <3>2. CASE call'[a].pc = "retry"
      BY <1>b, <1>c, <3>2 DEF IInv, Shaped, Shape, Same
    <3>3. CASE call'[a].pc \in {"add", "claim"}
      <4>1. Same(a) /\ mu' = a /\ deferred'[call[a].id] = None /\ call[a].v.enabled /\ call[a].v.ok /\ registry' = registry
            /\ (call'[a].pc = "add" => call[a].v.cron # None)
        BY <1>b, <1>c, <3>3 DEF IInv, Typed
      <4> QED
        BY <1>b, <3>3, <4>1 DEF IInv, Shaped, Shape, Same
    <3> QED
      BY <1>b, <3>1, <3>2, <3>3
  <2>2. ASSUME NEW b \in Actors, b # a PROVE Shape(b)'
    <3>1. call'[b] = call[b] /\ mu' # b /\ mu # b /\ registry' = registry
      BY <1>b, <1>c, <2>2 DEF WellFormed
    <3> QED
      BY <3>1, <2>2 DEF IInv, Shaped, Shape
  <2> QED
    BY <2>1, <2>2 DEF Shaped
<1>3. Current'
  BY <1>b, <1>c DEF WellFormed, IInv, Typed, Shaped, Shape, Current, Pending, Same
<1>4. Alone'
  <2>1. CASE a = "rec"
    BY <1>b, <1>c, <2>1 DEF WellFormed, Alone
  <2>2. CASE a = "boot"
    <3> DEFINE r == call["rec"]
               id == call["boot"].id
    <3>1. r' = r /\ registry' = registry /\ call["boot"].pc = "check" /\ raced \subseteq raced'
          /\ (call'["boot"].id = id \/ call'["boot"].id = None)
      BY <1>b, <1>c, <2>2 DEF Same
    <3>2. SUFFICES ASSUME r.pc \in {"uremove", "udelete"}
                   PROVE  deferred'[r.id] = None /\ (r.id \in raced' \/ call'["boot"].id # r.id)
      BY <3>1 DEF Alone
    <3>3. r.id \in IDs /\ deferred[r.id] = None /\ (r.id \in raced \/ id # r.id)
      BY <3>2 DEF IInv, Alone, Shaped, Shape
    <3>4. r.id # None
      BY <3>3 DEF WellFormed
    <3>5. ASSUME id = r.id
          PROVE  ~IsPipe(id)
      <4>1. ~call["boot"].again
        BY <3>1, <3>3, <3>5, <1>b, <2>2 DEF WellFormed, IInv, Waiting
      <4> QED
        BY <4>1, <3>1 DEF WellFormed, IInv, Shaped, Shape, IsPipe, IDs
    <3>6. deferred'[r.id] = None
      BY <1>b, <2>2, <3>3, <3>5 DEF IInv, Typed
    <3> QED
      BY <3>1, <3>3, <3>4, <3>6
  <2> QED
    BY <2>1, <2>2
<1>5. Progressing'
  <2>1. Progress(a)'
    BY <1>b, <1>c DEF WellFormed, IInv, Typed, Shaped, Shape, Progressing, Progress, KeepCron, Entries, Crons, Same
  <2>2. ASSUME NEW b \in Actors, b # a PROVE Progress(b)'
    BY <1>b, <1>c, <2>2 DEF IInv, Shaped, Shape, Progressing, Progress, Made
  <2> QED
    BY <2>1, <2>2 DEF Progressing
<1>6. Recorded'
  BY <1>b, <1>c DEF IInv, Typed, Recorded, Made
<1>7. Waiting'
  <2> DEFINE id == call[a].id
             Own(p) == call["rec"].id = p /\ ~call["rec"].again
                       /\ call["rec"].pc \in {"lock", "remove", "delete", "check", "forget"}
  <2>1. \A t \in Tasks : deferred'[t] = None
    BY <1>b DEF WellFormed, IInv, Typed, Waiting, IsPipe, IDs
  <2>2. ASSUME NEW b \in Actors, call'[b].again, call'[b].pc \in {"remove", "delete", "check"}
        PROVE  deferred'[call'[b].id] = call'[b].v
    BY <1>b, <1>c, <2>2 DEF IInv, Typed, Shaped, Shape, Waiting
  <2>3. ASSUME NEW p \in Pipes, deferred'[p] # None
        PROVE  Asks(StageOf[p])' => Retrying(p)'
    BY <1>b, <1>c, <2>3 DEF WellFormed, IInv, Typed, Shaped, Shape, Current, Waiting, Retrying, Asks, IsPipe, Same, IDs
  <2>4. ASSUME NEW p \in Pipes, deferred'[p] # None
        PROVE  deferred'[p] = registry'[p] \/ p \in raced' \/ Own(p)'
    BY <1>b, <1>c, <2>4 DEF IInv, Typed, Shaped, Shape, Current, Pending, Waiting, IDs
  <2>5. ASSUME NEW p \in Pipes, deferred'[p] # None, p \notin raced'
        PROVE  /\ armed'[p] # None => armed'[p].expr = KeepCron(deferred'[p])
               /\ \A h \in Hooks : hooks'[h] = p => h = KeepHook(p, deferred'[p])
    BY <1>b, <2>5 DEF IInv, Typed, Progressing, Progress, Waiting, IDs
  <2> QED
    BY <2>1, <2>2, <2>3, <2>4, <2>5 DEF Waiting
<1>8. Settled'
  <2>1. ASSUME NEW id \in IDs \ raced', Asks(id)', registry'[id].cron # None, armed'[id] = None
        PROVE  deferred'[id] # None \/ Busy(id)'
    BY <1>b, <1>c, <2>1 DEF WellFormed, IInv, Typed, Shaped, Shape, Current, Pending, Progressing, Progress, Settled, Busy, Asks, Same
  <2>2. ASSUME NEW id \in IDs \ raced', ~Early(id)'
        PROVE  /\ armed'[id] # None => registry'[id] # None /\ armed'[id].expr = KeepCron(registry'[id])
               /\ \A h \in Hooks : hooks'[h] = id => registry'[id] # None /\ KeepHook(id, registry'[id]) = h
    BY <1>b, <1>c, <2>2 DEF IInv, Settled, Early
  <2> QED
    BY <2>1, <2>2 DEF Settled
<1>9. RowOfItsSchedule'
  BY DEF IInv, Typed, RowOfItsSchedule, To, IsPipe, Over, Unlocks, Check
<1> QED
  BY <1>1, <1>2, <1>3, <1>4, <1>5, <1>6, <1>7, <1>8, <1>9 DEF IInv

LEMMA AddStep ==
  ASSUME WellFormed, IInv, NEW a \in Actors, Add(a)
  PROVE  IInv'
<1>c. /\ call' \in [Actors -> CallSet]
      /\ \A b \in Actors : b # a => call'[b] = call[b]
      /\ call'[a].pc = "record" /\ Same(a)
  <2>1. call' \in [Actors -> CallSet]
    BY DEF IInv, Typed, Shaped, Shape, CallSet, PCs, IDs, Add, Same
  <2>2. \A b \in Actors : b # a => call'[b] = call[b]
    BY DEF IInv, Typed, Shaped, Shape, CallSet, PCs, IDs, Add, Same
  <2>3. call'[a].pc = "record" /\ Same(a)
    BY DEF IInv, Typed, Shaped, Shape, CallSet, PCs, IDs, Add, Same
  <2> QED
    BY <2>1, <2>2, <2>3
<1>t. \E e \in Entries :
        /\ call[a].pc = "add" /\ call[a].id \in IDs /\ e.id = call[a].id /\ e = Made(a)' /\ entries' = entries \cup {e}
        /\ UNCHANGED <<regVars, armed, rows, hooks, deferred, mu, bootVars, ticks, raced, spent>>
  <2>1. PICK n \in {0, 1} :
          LET e == [id |-> call[a].id, expr |-> call[a].v.cron, n |-> n] IN
          entries' = entries \cup {e} /\ call' = [call EXCEPT ![a].pc = "record", ![a].kept = n = 1]
    BY DEF Add
  <2>2. call'[a].kept <=> n = 1
    BY <2>1 DEF IInv, Typed, CallSet
  <2>3. call[a].pc = "add" /\ call[a].id \in IDs /\ call[a].v.cron \in Crons
    BY DEF IInv, Shaped, Shape, Crons, Add
  <2> QED
    BY <1>c, <2>1, <2>2, <2>3 DEF Made, Same, Entries, Add
<1>1. Typed'
  <2>1. entries' \subseteq Entries
    BY <1>c, <1>t DEF WellFormed, IInv, Typed, Entries, Crons, Hooks, Contents, Shaped, Shape
  <2> QED
    BY <1>c, <1>t, <2>1 DEF IInv, Typed
<1>2. Shaped'
  <2>1. Shape(a)'
    BY <1>c, <1>t DEF WellFormed, IInv, Typed, Shaped, Shape, Same, IDs
  <2>2. ASSUME NEW b \in Actors, b # a PROVE Shape(b)'
    BY <1>c, <1>t, <2>2, ShapeKept DEF WellFormed, IInv, Shaped
  <2> QED
    BY <2>1, <2>2 DEF Shaped
<1>3. Current'
  BY <1>c, <1>t DEF WellFormed, IInv, Typed, Current, Shaped, Shape, Waiting, Pending, Same
<1>4. Alone'
  BY <1>c, <1>t DEF WellFormed, IInv, Typed, Alone, Shaped, Shape, Current, Pending, Waiting, Same
<1>5. Progressing'
  <2>1. Progress(a)'
    BY <1>c, <1>t DEF WellFormed, IInv, Typed, Progressing, Shaped, Shape, Alone, Progress, Made, KeepCron, Same
  <2>2. ASSUME NEW b \in Actors, b # a PROVE Progress(b)'
    BY <1>c, <1>t, <2>2 DEF WellFormed, IInv, Typed, Progressing, Shaped, Shape, Alone, Progress, Made, KeepCron, Same
  <2> QED
    BY <2>1, <2>2 DEF Progressing
<1>6. Recorded'
  BY <1>c, <1>t DEF WellFormed, IInv, Typed, Recorded, Shaped, Shape, Alone, Progressing, Progress, Made, Same
<1>7. Waiting'
  BY <1>c, <1>t DEF WellFormed, IInv, Typed, Waiting, Shaped, Shape, Current, Alone, Pending, Progressing, Progress, Retrying, Asks, IsPipe, KeepCron, IDs, Same
<1>8. Settled'
  BY <1>c, <1>t DEF WellFormed, IInv, Typed, Settled, Shaped, Shape, Progressing, Progress, Current, Alone, Pending, Waiting, Busy, Early, Asks, IsPipe, KeepCron, Same
<1>9. RowOfItsSchedule'
  BY <1>c, <1>t DEF IInv, Typed, RowOfItsSchedule
<1> QED
  BY <1>1, <1>2, <1>3, <1>4, <1>5, <1>6, <1>7, <1>8, <1>9 DEF IInv

LEMMA RecordStep ==
  ASSUME WellFormed, IInv, NEW a \in Actors, Record(a)
  PROVE  IInv'
<1>c. /\ call' \in [Actors -> CallSet]
      /\ \A b \in Actors : b # a => call'[b] = call[b]
      /\ call'[a].pc = "insert" /\ Same(a) /\ call'[a].kept = call[a].kept
  <2>1. call' \in [Actors -> CallSet]
    BY DEF IInv, Typed, Shaped, Shape, CallSet, PCs, IDs, To, Record, Same
  <2>2. \A b \in Actors : b # a => call'[b] = call[b]
    BY DEF IInv, Typed, Shaped, Shape, CallSet, PCs, IDs, To, Record, Same
  <2>3. call'[a].pc = "insert" /\ Same(a) /\ call'[a].kept = call[a].kept
    BY DEF IInv, Typed, Shaped, Shape, CallSet, PCs, IDs, To, Record, Same
  <2> QED
    BY <2>1, <2>2, <2>3
<1>1. Typed'
  <2>1. armed' \in [IDs -> Entries \cup {None}] /\ \A id \in IDs : armed'[id] # None => armed'[id].id = id
    BY <1>c DEF WellFormed, IInv, Typed, Entries, Crons, Hooks, Contents, Shaped, Shape, To, Record
  <2> QED
    BY <1>c, <2>1 DEF IInv, Typed, To, Record
<1>2. Shaped'
  <2>1. Shape(a)'
    BY <1>c DEF WellFormed, IInv, Typed, Shaped, Shape, To, Record, Same, IDs
  <2>2. ASSUME NEW b \in Actors, b # a PROVE Shape(b)'
    BY <1>c, <2>2, ShapeKept DEF WellFormed, IInv, Shaped, Record
  <2> QED
    BY <2>1, <2>2 DEF Shaped
<1>3. Current'
  BY <1>c DEF WellFormed, IInv, Typed, Current, Shaped, Shape, Waiting, Pending, To, Record, Same
<1>4. Alone'
  BY <1>c DEF WellFormed, IInv, Typed, Alone, Shaped, Shape, Current, Pending, Waiting, To, Record, Same
<1>5. Progressing'
  <2>1. Progress(a)'
    BY <1>c DEF WellFormed, IInv, Typed, Progressing, Shaped, Shape, Alone, Progress, Made, KeepCron, To, Record, Same
  <2>2. ASSUME NEW b \in Actors, b # a PROVE Progress(b)'
    BY <1>c, <2>2 DEF WellFormed, IInv, Typed, Progressing, Shaped, Shape, Alone, Progress, Made, KeepCron, To, Record, Same
  <2> QED
    BY <2>1, <2>2 DEF Progressing
<1>6. Recorded'
  BY <1>c DEF WellFormed, IInv, Typed, Recorded, Shaped, Shape, Alone, Progressing, Progress, Made, To, Record, Same
<1>7. Waiting'
  BY <1>c DEF WellFormed, IInv, Typed, Waiting, Shaped, Shape, Current, Alone, Pending, Progressing, Progress, Retrying, Asks, IsPipe, KeepCron, IDs, To, Record, Same
<1>8. Settled'
  <2> DEFINE id == call[a].id
  <2>1. /\ id \in IDs /\ call[a].v.enabled /\ call[a].pc = "record" /\ armed'[id] # None /\ armed'[id].expr = KeepCron(call[a].v)
        /\ \A x \in IDs : x # id => armed'[x] = armed[x]
        /\ UNCHANGED <<registry, hooks, deferred, raced>> /\ call'[a].id = id /\ call'[a].pc = "insert"
    BY <1>c DEF WellFormed, IInv, Typed, Shaped, Shape, KeepCron, Entries, Crons, Same, Record
  <2>2. ASSUME NEW x \in IDs \ raced, x # id
        PROVE  Busy(x)' = Busy(x) /\ Early(x)' = Early(x) /\ Asks(x)' = Asks(x)
    BY <1>c, <2>1, <2>2 DEF Busy, Early, Asks
  <2>3. id \notin raced /\ ~Early(id)' => call[a].v = registry[id] /\ registry[id] # None /\ ~Early(id)
    BY <1>c, <2>1 DEF WellFormed, IInv, Shaped, Shape, Current, Pending, Early
  <2> QED
    BY <2>1, <2>2, <2>3 DEF IInv, Settled
<1>9. RowOfItsSchedule'
  BY DEF IInv, Typed, RowOfItsSchedule, To, Record
<1> QED
  BY <1>1, <1>2, <1>3, <1>4, <1>5, <1>6, <1>7, <1>8, <1>9 DEF IInv

LEMMA InsertStep ==
  ASSUME WellFormed, IInv, NEW a \in Actors, Insert(a)
  PROVE  IInv'
<1>c. /\ call' \in [Actors -> CallSet]
      /\ \A b \in Actors : b # a => call'[b] = call[b]
      /\ call'[a].pc = "claim" /\ Same(a) /\ call'[a].kept = call[a].kept
  <2>1. call' \in [Actors -> CallSet]
    BY DEF IInv, Typed, Shaped, Shape, CallSet, PCs, IDs, To, Row, Insert, Same
  <2>2. \A b \in Actors : b # a => call'[b] = call[b]
    BY DEF IInv, Typed, Shaped, Shape, CallSet, PCs, IDs, To, Row, Insert, Same
  <2>3. call'[a].pc = "claim" /\ Same(a) /\ call'[a].kept = call[a].kept
    BY DEF IInv, Typed, Shaped, Shape, CallSet, PCs, IDs, To, Row, Insert, Same
  <2> QED
    BY <2>1, <2>2, <2>3
<1>1. Typed'
  <2>1. rows' \in [IDs -> RowSet \cup {None}]
    BY <1>c DEF WellFormed, IInv, Typed, RowSet, Crons, Hooks, Contents, Shaped, Shape, To, Row, Insert
  <2> QED
    BY <1>c, <2>1 DEF IInv, Typed, To, Row, Insert
<1>2. Shaped'
  <2>1. Shape(a)'
    BY <1>c DEF WellFormed, IInv, Typed, Shaped, Shape, To, Row, Insert, Same, IDs
  <2>2. ASSUME NEW b \in Actors, b # a PROVE Shape(b)'
    BY <1>c, <2>2, ShapeKept DEF WellFormed, IInv, Shaped, Insert
  <2> QED
    BY <2>1, <2>2 DEF Shaped
<1>3. Current'
  BY <1>c DEF WellFormed, IInv, Typed, Current, Shaped, Shape, Waiting, Pending, To, Row, Insert, Same
<1>4. Alone'
  BY <1>c DEF WellFormed, IInv, Typed, Alone, Shaped, Shape, Current, Pending, Waiting, To, Row, Insert, Same
<1>5. Progressing'
  <2>1. Progress(a)'
    BY <1>c DEF WellFormed, IInv, Typed, Progressing, Shaped, Shape, Alone, Progress, Made, KeepCron, To, Row, Insert, Same
  <2>2. ASSUME NEW b \in Actors, b # a PROVE Progress(b)'
    BY <1>c, <2>2 DEF WellFormed, IInv, Typed, Progressing, Shaped, Shape, Alone, Progress, Made, KeepCron, To, Row, Insert, Same
  <2> QED
    BY <2>1, <2>2 DEF Progressing
<1>6. Recorded'
  BY <1>c DEF WellFormed, IInv, Typed, Recorded, Shaped, Shape, Alone, Progressing, Progress, Made, To, Row, Insert, Same
<1>7. Waiting'
  BY <1>c DEF WellFormed, IInv, Typed, Waiting, Shaped, Shape, Current, Alone, Pending, Progressing, Progress, Retrying, Asks, IsPipe, KeepCron, IDs, To, Row, Insert, Same
<1>8. Settled'
  BY <1>c DEF WellFormed, IInv, Typed, Settled, Shaped, Shape, Progressing, Progress, Current, Alone, Pending, Waiting, Busy, Early, Asks, IsPipe, KeepCron, To, Row, Insert, Same
<1>9. RowOfItsSchedule'
  BY DEF IInv, Typed, RowOfItsSchedule, To, Row, Insert
<1> QED
  BY <1>1, <1>2, <1>3, <1>4, <1>5, <1>6, <1>7, <1>8, <1>9 DEF IInv

LEMMA ClaimPathStep ==
  ASSUME WellFormed, IInv, NEW a \in Actors, ClaimPath(a)
  PROVE  IInv'
<1>c. /\ call' \in [Actors -> CallSet]
      /\ \A b \in Actors : b # a => call'[b] = call[b]
      /\ \/ call'[a] = NoCall /\ mu' = None
         \/ /\ call'[a].pc = "retry" /\ call'[a].id = call[a].id /\ call'[a].again = call[a].again /\ mu' = mu
            /\ call'[a].more = IF IsPipe(call[a].id) THEN call[a].more ELSE {p \in Pipes : deferred[p] # None}
  <2> DEFINE c == call[a]
             waiting == IF IsPipe(c.id) THEN c.more ELSE {p \in Pipes : deferred[p] # None}
  <2>1. call \in [Actors -> CallSet] /\ waiting \in SUBSET Pipes /\ NoCall \in CallSet
        /\ [c EXCEPT !.pc = "retry", !.more = waiting] \in CallSet
    <3>1. call \in [Actors -> CallSet] /\ c \in CallSet /\ NoCall \in CallSet
      BY DEF IInv, Typed, CallSet, PCs
    <3>2. waiting \in SUBSET Pipes
      BY <3>1 DEF CallSet
    <3>3. \A w \in SUBSET Pipes : [c EXCEPT !.pc = "retry", !.more = w] \in CallSet
      BY <3>1 DEF CallSet, PCs
    <3> QED
      BY <3>1, <3>2, <3>3
  <2>2. \/ call' = [call EXCEPT ![a] = NoCall] /\ mu' = None
        \/ call' = [call EXCEPT ![a].pc = "retry", ![a].more = waiting] /\ mu' = mu
    BY DEF ClaimPath
  <2>3. [call EXCEPT ![a].pc = "retry", ![a].more = waiting]
          = [call EXCEPT ![a] = [c EXCEPT !.pc = "retry", !.more = waiting]]
    BY <2>1
  <2>4. CASE call' = [call EXCEPT ![a] = NoCall] /\ mu' = None
    BY <2>1, <2>4, CallPuts
  <2>5. CASE call' = [call EXCEPT ![a] = [c EXCEPT !.pc = "retry", !.more = waiting]] /\ mu' = mu
    <3>1. call' \in [Actors -> CallSet] /\ call'[a] = [c EXCEPT !.pc = "retry", !.more = waiting]
          /\ \A b \in Actors : b # a => call'[b] = call[b]
      BY <2>1, <2>5, CallPuts
    <3>2. c \in CallSet
      BY <2>1
    <3> QED
      BY <2>5, <3>1, <3>2 DEF CallSet
  <2> QED
    BY <2>2, <2>3, <2>4, <2>5
<1>1. Typed'
  <2>1. hooks' \in [Hooks -> IDs \cup {None}]
    BY <1>c DEF WellFormed, IInv, Typed, Crons, Hooks, Contents, Shaped, Shape, IsPipe, ClaimPath
  <2>2. mu' \in Actors \cup {None}
    BY <1>c DEF WellFormed, IInv, Typed, Crons, Hooks, Contents, Shaped, Shape, IsPipe, ClaimPath
  <2> QED
    BY <1>c, <2>1, <2>2 DEF IInv, Typed, IsPipe, ClaimPath
<1>2. Shaped'
  <2>1. Shape(a)'
    BY <1>c DEF WellFormed, IInv, Typed, Shaped, Shape, IsPipe, ClaimPath, IDs
  <2>2. ASSUME NEW b \in Actors, b # a PROVE Shape(b)'
    <3>1. mu = a
      BY DEF IInv, Shaped, Shape, ClaimPath
    <3>2. call'[b] = call[b] /\ mu' # b /\ mu # b /\ registry' = registry /\ deferred' = deferred
      BY <1>c, <2>2, <3>1 DEF WellFormed, ClaimPath
    <3>3. Shape(b)
      BY DEF IInv, Shaped
    <3> QED
      BY <3>2, <3>3, ShapeKept
  <2> QED
    BY <2>1, <2>2 DEF Shaped
<1>3. Current'
  BY <1>c DEF WellFormed, IInv, Typed, Current, Shaped, Shape, Waiting, Pending, IsPipe, ClaimPath
<1>4. Alone'
  BY <1>c DEF WellFormed, IInv, Typed, Alone, Shaped, Shape, Current, Pending, Waiting, IsPipe, ClaimPath
<1>5. Progressing'
  <2>1. Progress(a)'
    BY <1>c DEF WellFormed, IInv, Typed, Progressing, Shaped, Shape, Alone, Progress, Made, KeepCron, IsPipe, ClaimPath
  <2>2. ASSUME NEW b \in Actors, b # a PROVE Progress(b)'
    BY <1>c, <2>2 DEF WellFormed, IInv, Typed, Progressing, Shaped, Shape, Alone, Progress, Made, KeepCron, IsPipe, ClaimPath
  <2> QED
    BY <2>1, <2>2 DEF Progressing
<1>6. Recorded'
  BY <1>c DEF WellFormed, IInv, Typed, Recorded, Shaped, Shape, Alone, Progressing, Progress, Made, IsPipe, ClaimPath
<1>7. Waiting'
  BY <1>c DEF WellFormed, IInv, Typed, Waiting, Shaped, Shape, Current, Alone, Pending, Progressing, Progress, Retrying, Asks, IsPipe, KeepCron, IDs, ClaimPath
<1>8. Settled'
  BY <1>c DEF WellFormed, IInv, Typed, Settled, Shaped, Shape, Progressing, Progress, Current, Alone, Pending, Waiting, Busy, Early, Asks, IsPipe, KeepCron, ClaimPath
<1>9. RowOfItsSchedule'
  BY DEF IInv, Typed, RowOfItsSchedule, IsPipe, ClaimPath
<1> QED
  BY <1>1, <1>2, <1>3, <1>4, <1>5, <1>6, <1>7, <1>8, <1>9 DEF IInv

LEMMA RetryStep ==
  ASSUME WellFormed, IInv, NEW a \in Actors, Retry(a)
  PROVE  IInv'
<1>c. /\ call' \in [Actors -> CallSet]
      /\ \A b \in Actors : b # a => call'[b] = call[b]
      /\ \/ \E p \in call[a].more :
               /\ deferred[p] # None /\ mu' = mu
               /\ call'[a].pc = "remove" /\ call'[a].id = p /\ call'[a].v = deferred[p] /\ call'[a].again
               /\ call'[a].more = call[a].more \ {p}
         \/ call'[a] = NoCall /\ mu' = None /\ \A p \in call[a].more : deferred[p] = None
         \/ \E p \in call[a].more :
               /\ deferred[p] = None /\ mu' = mu
               /\ call'[a].pc = "retry" /\ call'[a].id = call[a].id /\ call'[a].again = call[a].again
               /\ call'[a].more = call[a].more \ {p}
  <2>1. call \in [Actors -> CallSet] /\ NoCall \in CallSet
    BY DEF IInv, Typed, CallSet, PCs
  <2>2. PICK p \in call[a].more :
          IF deferred[p] # None
          THEN /\ call' = [call EXCEPT ![a] = [NoCall EXCEPT !.pc = "remove", !.id = p, !.v = deferred[p],
                                                            !.more = call[a].more \ {p}, !.again = TRUE]]
               /\ mu' = mu
          ELSE IF call[a].more = {p} THEN call' = [call EXCEPT ![a] = NoCall] /\ mu' = None
          ELSE call' = [call EXCEPT ![a].more = @ \ {p}] /\ mu' = mu
    BY DEF Retry
  <2>3. p \in Pipes /\ p \in IDs /\ call[a].more \subseteq Pipes /\ deferred[p] \in Contents \cup {None}
    BY <2>1 DEF IInv, Typed, CallSet, IDs
  <2>4. CASE deferred[p] # None
    <3> DEFINE n == [NoCall EXCEPT !.pc = "remove", !.id = p, !.v = deferred[p],
                                   !.more = call[a].more \ {p}, !.again = TRUE]
    <3>1. n \in CallSet
      BY <2>3 DEF CallSet, PCs
    <3>2. call' \in [Actors -> CallSet] /\ call'[a] = n /\ \A b \in Actors : b # a => call'[b] = call[b]
      BY <2>1, <2>2, <2>4, <3>1, CallPuts
    <3> QED
      BY <2>2, <2>4, <3>2
  <2>5. CASE deferred[p] = None /\ call[a].more = {p}
    <3>1. call' = [call EXCEPT ![a] = NoCall] /\ mu' = None
      BY <2>2, <2>5
    <3>2. \A q \in call[a].more : deferred[q] = None
      BY <2>5
    <3> QED
      BY <2>1, <3>1, <3>2, CallPuts
  <2>6. CASE deferred[p] = None /\ call[a].more # {p}
    <3> DEFINE n == [call[a] EXCEPT !.more = call[a].more \ {p}]
    <3>1. n \in CallSet /\ call[a] \in CallSet
      BY <2>1, <2>3 DEF CallSet
    <3>2. call' = [call EXCEPT ![a] = n] /\ mu' = mu
      BY <2>1, <2>2, <2>6
    <3>3. call' \in [Actors -> CallSet] /\ call'[a] = n /\ \A b \in Actors : b # a => call'[b] = call[b]
      BY <2>1, <3>1, <3>2, CallPuts
    <3>4. n.pc = call[a].pc /\ n.id = call[a].id /\ n.again = call[a].again /\ n.more = call[a].more \ {p}
      BY <3>1 DEF CallSet
    <3> QED
      BY <2>6, <3>2, <3>3, <3>4 DEF Retry
  <2> QED
    BY <2>4, <2>5, <2>6
<1>1. Typed'
  BY <1>c DEF WellFormed, IInv, Typed, Retry
<1>2. Shaped'
  <2>1. Shape(a)'
    BY <1>c DEF WellFormed, IInv, Typed, Shaped, Shape, CallSet, Retry, IDs
  <2>2. ASSUME NEW b \in Actors, b # a PROVE Shape(b)'
    BY <1>c, <2>2, ShapeKept DEF WellFormed, IInv, Shaped, Shape, Retry
  <2> QED
    BY <2>1, <2>2 DEF Shaped
<1>3. Current'
  <2>1. call[a].pc = "retry" /\ mu = a /\ registry' = registry /\ raced' = raced /\ boot' = boot /\ call[a].more \subseteq Pipes
    BY DEF IInv, Typed, CallSet, Shaped, Shape, Retry
  <2>2. ASSUME NEW p \in Pipes, deferred[p] # None
        PROVE  \/ deferred[p] = registry[p] \/ p \in raced
               \/ a = "boot" /\ Pending(p)
    BY <2>1, <2>2 DEF WellFormed, IInv, Shaped, Shape, Waiting, Pending
  <2>3. ASSUME NEW id \in IDs PROVE a = "boot" => Pending(id)' = Pending(id)
    BY <1>c DEF Pending
  <2>4. a = "rec" => \A id \in IDs : ~Pending(id)
    BY <2>1 DEF Pending
  <2>5. a = "rec" => call["boot"].pc \notin RegPCs \/ (call["boot"].pc = "lock" /\ ~call["boot"].again)
    BY <2>1 DEF WellFormed, IInv, Shaped, Shape
  <2> QED
    BY <1>c, <2>1, <2>2, <2>3, <2>4, <2>5 DEF IInv, Current, IDs
<1>4. Alone'
  BY <1>c DEF WellFormed, IInv, Typed, Alone, Shaped, Shape, Current, Pending, Waiting, Retry
<1>5. Progressing'
  <2>1. Progress(a)'
    BY <1>c DEF WellFormed, IInv, Typed, Progressing, Shaped, Shape, Alone, Progress, Made, KeepCron, Retry
  <2>2. ASSUME NEW b \in Actors, b # a PROVE Progress(b)'
    BY <1>c, <2>2 DEF WellFormed, IInv, Typed, Progressing, Shaped, Shape, Alone, Progress, Made, KeepCron, Retry
  <2> QED
    BY <2>1, <2>2 DEF Progressing
<1>6. Recorded'
  BY <1>c DEF WellFormed, IInv, Typed, Recorded, Shaped, Shape, Alone, Progressing, Progress, Made, Retry
<1>7. Waiting'
  BY <1>c DEF WellFormed, IInv, Typed, Waiting, Shaped, Shape, Current, Alone, Pending, Progressing, Progress, Retrying, Asks, IsPipe, KeepCron, IDs, Retry
<1>8. Settled'
  BY <1>c DEF WellFormed, IInv, Typed, Settled, Shaped, Shape, Progressing, Progress, Current, Alone, Pending, Waiting, Busy, Early, Asks, IsPipe, KeepCron, Retry
<1>9. RowOfItsSchedule'
  BY DEF IInv, Typed, RowOfItsSchedule, Retry
<1> QED
  BY <1>1, <1>2, <1>3, <1>4, <1>5, <1>6, <1>7, <1>8, <1>9 DEF IInv

LEMMA ForgetStep ==
  ASSUME WellFormed, IInv, NEW a \in Actors, Forget(a)
  PROVE  IInv'
<1>c. /\ call' \in [Actors -> CallSet]
      /\ \A b \in Actors : b # a => call'[b] = call[b]
      /\ call'[a].pc = "uremove" /\ Same(a) /\ call'[a].kept = call[a].kept
  <2>1. call' \in [Actors -> CallSet]
    BY DEF IInv, Typed, Shaped, Shape, CallSet, PCs, IDs, To, Forget, Same
  <2>2. \A b \in Actors : b # a => call'[b] = call[b]
    BY DEF IInv, Typed, Shaped, Shape, CallSet, PCs, IDs, To, Forget, Same
  <2>3. call'[a].pc = "uremove" /\ Same(a) /\ call'[a].kept = call[a].kept
    BY DEF IInv, Typed, Shaped, Shape, CallSet, PCs, IDs, To, Forget, Same
  <2> QED
    BY <2>1, <2>2, <2>3
<1>1. Typed'
  BY <1>c DEF WellFormed, IInv, Typed, To, Forget
<1>2. Shaped'
  <2>1. Shape(a)'
    BY <1>c DEF WellFormed, IInv, Typed, Shaped, Shape, To, Forget, Same, IDs
  <2>2. ASSUME NEW b \in Actors, b # a PROVE Shape(b)'
    BY <1>c, <2>2, ShapeKept DEF WellFormed, IInv, Shaped, Forget
  <2> QED
    BY <2>1, <2>2 DEF Shaped
<1>3. Current'
  BY <1>c DEF WellFormed, IInv, Typed, Current, Shaped, Shape, Waiting, Pending, To, Forget, Same
<1>4. Alone'
  <2>1. a = "rec" /\ mu = None /\ call[a].id \in IDs /\ registry[call[a].id] = None /\ deferred'[call[a].id] = None
        /\ call'["rec"].id = call["rec"].id /\ call'["boot"] = call["boot"] /\ raced' = raced
    BY <1>c DEF IInv, Typed, Shaped, Shape, Forget, Same
  <2>2. call["boot"].pc \in {"idle", "lock"}
    BY <2>1 DEF WellFormed, IInv, Typed, CallSet, PCs, Shaped, Shape
  <2>3. CASE call["boot"].pc = "idle"
    BY <2>1, <2>3 DEF WellFormed, IInv, Shaped, Shape, Alone
  <2>4. CASE call["boot"].pc = "lock"
    BY <2>1, <2>4 DEF WellFormed, IInv, Shaped, Shape, Current, Alone
  <2> QED
    BY <2>2, <2>3, <2>4
<1>5. Progressing'
  <2>1. Progress(a)'
    BY <1>c DEF WellFormed, IInv, Typed, Progressing, Shaped, Shape, Alone, Progress, Made, KeepCron, To, Forget, Same
  <2>2. ASSUME NEW b \in Actors, b # a PROVE Progress(b)'
    BY <1>c, <2>2 DEF WellFormed, IInv, Typed, Progressing, Shaped, Shape, Alone, Progress, Made, KeepCron, To, Forget, Same
  <2> QED
    BY <2>1, <2>2 DEF Progressing
<1>6. Recorded'
  BY <1>c DEF WellFormed, IInv, Typed, Recorded, Shaped, Shape, Alone, Progressing, Progress, Made, To, Forget, Same
<1>7. Waiting'
  BY <1>c DEF WellFormed, IInv, Typed, Waiting, Shaped, Shape, Current, Alone, Pending, Progressing, Progress, Retrying, Asks, IsPipe, KeepCron, IDs, To, Forget, Same
<1>8. Settled'
  BY <1>c DEF WellFormed, IInv, Typed, Settled, Shaped, Shape, Progressing, Progress, Current, Alone, Pending, Waiting, Busy, Early, Asks, IsPipe, KeepCron, To, Forget, Same
<1>9. RowOfItsSchedule'
  BY DEF IInv, Typed, RowOfItsSchedule, To, Forget
<1> QED
  BY <1>1, <1>2, <1>3, <1>4, <1>5, <1>6, <1>7, <1>8, <1>9 DEF IInv

LEMMA RemoveAllStep ==
  ASSUME WellFormed, IInv, NEW a \in Actors, RemoveAll(a)
  PROVE  IInv'
<1>c. /\ call' \in [Actors -> CallSet]
      /\ \A b \in Actors : b # a => call'[b] = call[b]
      /\ call'[a].pc = "udelete" /\ Same(a)
  <2>1. call' \in [Actors -> CallSet]
    BY DEF IInv, Typed, Shaped, Shape, CallSet, PCs, IDs, TakeDown, Had, KeepCron, IsPipe, RemoveAll, Same
  <2>2. \A b \in Actors : b # a => call'[b] = call[b]
    BY DEF IInv, Typed, Shaped, Shape, CallSet, PCs, IDs, TakeDown, Had, KeepCron, IsPipe, RemoveAll, Same
  <2>3. call'[a].pc = "udelete" /\ Same(a)
    BY DEF IInv, Typed, Shaped, Shape, CallSet, PCs, IDs, TakeDown, Had, KeepCron, IsPipe, RemoveAll, Same
  <2> QED
    BY <2>1, <2>2, <2>3
<1>t. /\ call[a].pc = "uremove" /\ call[a].id \in IDs /\ call[a].v \in Contents \cup {None}
      /\ armed' \in [IDs -> Entries \cup {None}] /\ entries' \subseteq entries
      /\ \A x \in IDs : x # call[a].id => armed'[x] = armed[x]
      /\ \/ armed'[call[a].id] = armed[call[a].id] /\ entries' = entries
            /\ (armed[call[a].id] # None => armed[call[a].id].expr = None)
         \/ armed'[call[a].id] = None /\ armed[call[a].id] # None
            /\ armed[call[a].id].expr # None /\ entries' = entries \ {armed[call[a].id]}
      /\ hooks' \in [Hooks -> IDs \cup {None}]
      /\ \A h \in Hooks : hooks'[h] = call[a].id => hooks[h] = call[a].id /\ h = None
      /\ \A h \in Hooks, x \in IDs : x # call[a].id => (hooks'[h] = x <=> hooks[h] = x)
      /\ UNCHANGED <<regVars, rows, deferred, mu, bootVars, ticks, raced, spent>>
  BY TakenDown DEF IInv, Typed, Shaped, Shape, RemoveAll, CallSet
<1>1. Typed'
  BY <1>c, <1>t DEF WellFormed, IInv, Typed, KeepCron, IsPipe
<1>2. Shaped'
  <2>1. Shape(a)'
    BY <1>c, <1>t DEF WellFormed, IInv, Typed, Shaped, Shape, KeepCron, IsPipe, Same, IDs
  <2>2. ASSUME NEW b \in Actors, b # a PROVE Shape(b)'
    BY <1>c, <1>t, <2>2, ShapeKept DEF WellFormed, IInv, Shaped
  <2> QED
    BY <2>1, <2>2 DEF Shaped
<1>3. Current'
  BY <1>c, <1>t DEF WellFormed, IInv, Typed, Current, Shaped, Shape, Waiting, Pending, KeepCron, IsPipe, Same
<1>4. Alone'
  BY <1>c, <1>t DEF WellFormed, IInv, Typed, Alone, Shaped, Shape, Current, Pending, Waiting, KeepCron, IsPipe, Same
<1>5. Progressing'
  <2>1. Progress(a)'
    BY <1>c, <1>t DEF WellFormed, IInv, Typed, Progressing, Shaped, Shape, Alone, Progress, Made, KeepCron, IsPipe, Same
  <2>2. ASSUME NEW b \in Actors, b # a PROVE Progress(b)'
    BY <1>c, <1>t, <2>2 DEF WellFormed, IInv, Typed, Progressing, Shaped, Shape, Alone, Progress, Made, KeepCron, IsPipe, Same
  <2> QED
    BY <2>1, <2>2 DEF Progressing
<1>6. Recorded'
  BY <1>c, <1>t DEF WellFormed, IInv, Typed, Recorded, Shaped, Shape, Alone, Progressing, Progress, Made, KeepCron, IsPipe, Same
<1>7. Waiting'
  BY <1>c, <1>t DEF WellFormed, IInv, Typed, Waiting, Shaped, Shape, Current, Alone, Pending, Progressing, Progress, Retrying, Asks, IsPipe, KeepCron, IDs, Same
<1>8. Settled'
  <2>1. a = "rec" /\ registry[call[a].id] = None
    BY <1>t DEF IInv, Shaped, Shape
  <2>3. armed'[call[a].id] = None
    BY <1>t DEF WellFormed, IInv, Typed, Entries, Crons
  <2>4. \A h \in Hooks : hooks'[h] # call[a].id
    BY <1>t DEF Hooks
  <2>2. ASSUME NEW id \in IDs \ raced', id # call[a].id
        PROVE  /\ armed'[id] = armed[id] /\ registry'[id] = registry[id] /\ deferred'[id] = deferred[id]
               /\ \A h \in Hooks : hooks'[h] = id <=> hooks[h] = id
               /\ Busy(id)' = Busy(id) /\ Early(id)' = Early(id) /\ Asks(id)' = Asks(id)
    BY <1>c, <1>t, <2>2 DEF Busy, Early, Asks, Same
  <2> QED
    BY <1>t, <2>1, <2>2, <2>3, <2>4 DEF IInv, Settled, Asks
<1>9. RowOfItsSchedule'
  BY <1>c, <1>t DEF IInv, Typed, RowOfItsSchedule, KeepCron, IsPipe
<1> QED
  BY <1>1, <1>2, <1>3, <1>4, <1>5, <1>6, <1>7, <1>8, <1>9 DEF IInv

LEMMA DeleteRowAndReturnStep ==
  ASSUME WellFormed, IInv, NEW a \in Actors, DeleteRowAndReturn(a)
  PROVE  IInv'
<1>c. /\ call' \in [Actors -> CallSet]
      /\ \A b \in Actors : b # a => call'[b] = call[b]
      /\ call'[a] = NoCall
  <2>1. call' \in [Actors -> CallSet]
    BY DEF IInv, Typed, Shaped, Shape, CallSet, PCs, IDs, DeleteRowAndReturn
  <2>2. \A b \in Actors : b # a => call'[b] = call[b]
    BY DEF IInv, Typed, Shaped, Shape, CallSet, PCs, IDs, DeleteRowAndReturn
  <2>3. call'[a] = NoCall
    BY DEF IInv, Typed, Shaped, Shape, CallSet, PCs, IDs, DeleteRowAndReturn
  <2> QED
    BY <2>1, <2>2, <2>3
<1>1. Typed'
  BY <1>c DEF WellFormed, IInv, Typed, DeleteRowAndReturn
<1>2. Shaped'
  <2>1. Shape(a)'
    BY <1>c DEF WellFormed, IInv, Typed, Shaped, Shape, DeleteRowAndReturn, IDs
  <2>2. ASSUME NEW b \in Actors, b # a PROVE Shape(b)'
    BY <1>c, <2>2, ShapeKept DEF WellFormed, IInv, Shaped, DeleteRowAndReturn
  <2> QED
    BY <2>1, <2>2 DEF Shaped
<1>3. Current'
  BY <1>c DEF WellFormed, IInv, Typed, Current, Shaped, Shape, Waiting, Pending, DeleteRowAndReturn
<1>4. Alone'
  BY <1>c DEF WellFormed, IInv, Typed, Alone, Shaped, Shape, Current, Pending, Waiting, DeleteRowAndReturn
<1>5. Progressing'
  <2>1. Progress(a)'
    BY <1>c DEF WellFormed, IInv, Typed, Progressing, Shaped, Shape, Alone, Progress, Made, KeepCron, DeleteRowAndReturn
  <2>2. ASSUME NEW b \in Actors, b # a PROVE Progress(b)'
    BY <1>c, <2>2 DEF WellFormed, IInv, Typed, Progressing, Shaped, Shape, Alone, Progress, Made, KeepCron, DeleteRowAndReturn
  <2> QED
    BY <2>1, <2>2 DEF Progressing
<1>6. Recorded'
  BY <1>c DEF WellFormed, IInv, Typed, Recorded, Shaped, Shape, Alone, Progressing, Progress, Made, DeleteRowAndReturn
<1>7. Waiting'
  BY <1>c DEF WellFormed, IInv, Typed, Waiting, Shaped, Shape, Current, Alone, Pending, Progressing, Progress, Retrying, Asks, IsPipe, KeepCron, IDs, DeleteRowAndReturn
<1>8. Settled'
  BY <1>c DEF WellFormed, IInv, Typed, Settled, Shaped, Shape, Progressing, Progress, Current, Alone, Pending, Waiting, Busy, Early, Asks, IsPipe, KeepCron, DeleteRowAndReturn
<1>9. RowOfItsSchedule'
  BY DEF IInv, Typed, RowOfItsSchedule, DeleteRowAndReturn
<1> QED
  BY <1>1, <1>2, <1>3, <1>4, <1>5, <1>6, <1>7, <1>8, <1>9 DEF IInv

LEMMA EditStep ==
  ASSUME WellFormed, IInv, NEW id \in IDs, Edit(id)
  PROVE  IInv'
<1>1. Typed'
  <2>1. disk' \in [IDs -> Contents \cup {None}]
    BY DEF WellFormed, IInv, Typed, Crons, Hooks, Contents, Shaped, Shape, Edit
  <2>2. spent' \in [changes : Nat, ticks : Nat, starts : Nat]
    BY DEF WellFormed, IInv, Typed, Crons, Hooks, Contents, Shaped, Shape, Edit
  <2> QED
    BY <2>1, <2>2 DEF IInv, Typed, Edit
<1>2. Shaped' /\ Alone' /\ Progressing' /\ Recorded' /\ Waiting' /\ Settled'
  BY Frame DEF Edit
<1>3. Current'
  BY DEF WellFormed, IInv, Typed, Current, Shaped, Shape, Waiting, Pending, Edit
<1>9. RowOfItsSchedule'
  BY DEF IInv, Typed, RowOfItsSchedule, Edit
<1> QED
  BY <1>1, <1>2, <1>3, <1>9 DEF IInv

LEMMA HandleStep ==
  ASSUME WellFormed, IInv, NEW id \in IDs, Handle(id)
  PROVE  IInv'
<1>c. /\ call' \in [Actors -> CallSet]
      /\ \A b \in Actors : b # "rec" => call'[b] = call[b]
      /\ call'["rec"].pc = IF disk[id] = None THEN "forget" ELSE "lock"
      /\ call'["rec"].id = id /\ call'["rec"].v = disk[id] /\ call'["rec"].more = {} /\ ~call'["rec"].again
  <2> DEFINE n == [NoCall EXCEPT !.pc = IF disk[id] = None THEN "forget" ELSE "lock", !.id = id, !.v = disk[id]]
  <2>1. disk[id] \in Contents \cup {None}
    BY DEF IInv, Typed
  <2>2. n \in CallSet
    BY <2>1 DEF CallSet, PCs
  <2>3. call' = [call EXCEPT !["rec"] = n]
    BY DEF Handle
  <2>4. call' \in [Actors -> CallSet] /\ call'["rec"] = n /\ \A b \in Actors : b # "rec" => call'[b] = call[b]
    BY <2>2, <2>3, CallPuts DEF IInv, Typed
  <2> QED
    BY <2>4
<1>1. Typed'
  BY <1>c DEF WellFormed, IInv, Typed, Handle
<1>2. Shaped'
  <2>1. Shape("rec")'
    BY <1>c DEF WellFormed, IInv, Typed, Shaped, Shape, Handle, IDs
  <2>2. ASSUME NEW b \in Actors, b # "rec" PROVE Shape(b)'
    <3>1. Shape(b)
      BY DEF IInv, Shaped
    <3>2. call'[b] = call[b] /\ mu' = mu /\ deferred' = deferred
      BY <1>c, <2>2 DEF Handle
    <3>3. call[b].pc \notin UnregPCs
      BY <2>2, <3>1 DEF Shape
    <3> QED
      BY <3>1, <3>2, <3>3, ShapeKept
  <2> QED
    BY <2>1, <2>2 DEF Shaped
<1>3. Current'
  BY <1>c DEF WellFormed, IInv, Typed, Current, Shaped, Shape, Waiting, Pending, Handle
<1>4. Alone'
  BY <1>c DEF WellFormed, IInv, Typed, Alone, Shaped, Shape, Current, Pending, Waiting, Handle
<1>5. Progressing'
  <2>1. Progress("rec")'
    BY <1>c DEF WellFormed, IInv, Typed, Progressing, Shaped, Shape, Alone, Progress, Made, KeepCron, Handle
  <2>2. ASSUME NEW b \in Actors, b # "rec" PROVE Progress(b)'
    BY <1>c, <2>2 DEF WellFormed, IInv, Typed, Progressing, Shaped, Shape, Alone, Progress, Made, KeepCron, Handle
  <2> QED
    BY <2>1, <2>2 DEF Progressing
<1>6. Recorded'
  BY <1>c DEF WellFormed, IInv, Typed, Recorded, Shaped, Shape, Alone, Progressing, Progress, Made, Handle
<1>7. Waiting'
  BY <1>c DEF WellFormed, IInv, Typed, Waiting, Shaped, Shape, Current, Alone, Pending, Progressing, Progress, Retrying, Asks, IsPipe, KeepCron, IDs, Handle
<1>8. Settled'
  BY <1>c DEF WellFormed, IInv, Typed, Settled, Shaped, Shape, Progressing, Progress, Current, Alone, Pending, Waiting, Busy, Early, Asks, IsPipe, KeepCron, Handle
<1>9. RowOfItsSchedule'
  BY DEF IInv, Typed, RowOfItsSchedule, Handle
<1> QED
  BY <1>1, <1>2, <1>3, <1>4, <1>5, <1>6, <1>7, <1>8, <1>9 DEF IInv

LEMMA TickStep ==
  ASSUME WellFormed, IInv, NEW e \in entries, Tick(e)
  PROVE  IInv'
<1>1. Typed'
  <2>1. rows' \in [IDs -> RowSet \cup {None}]
    BY DEF WellFormed, IInv, Typed, RowSet, Crons, Hooks, Contents, Shaped, Shape, RowSet, Entries, Tick
  <2>2. ticks' \subseteq [id : IDs, expr : Crons, pc : {"fire", "advance"}]
    BY DEF WellFormed, IInv, Typed, Crons, Hooks, Contents, Shaped, Shape, RowSet, Entries, Tick
  <2>3. spent' \in [changes : Nat, ticks : Nat, starts : Nat]
    BY DEF WellFormed, IInv, Typed, Crons, Hooks, Contents, Shaped, Shape, RowSet, Entries, Tick
  <2> QED
    BY <2>1, <2>2, <2>3 DEF IInv, Typed, RowSet, Entries, Tick
<1>2. Shaped' /\ Alone' /\ Progressing' /\ Recorded' /\ Waiting' /\ Settled'
  BY Frame DEF Tick
<1>3. Current'
  BY DEF WellFormed, IInv, Typed, Current, Shaped, Shape, Waiting, Pending, RowSet, Entries, Tick
<1>9. RowOfItsSchedule'
  BY DEF IInv, Typed, RowOfItsSchedule, RowSet, Entries, Tick
<1> QED
  BY <1>1, <1>2, <1>3, <1>9 DEF IInv

LEMMA TickFireStep ==
  ASSUME WellFormed, IInv, NEW t \in ticks, TickFire(t)
  PROVE  IInv'
<1>1. Typed'
  <2>1. ticks' \subseteq [id : IDs, expr : Crons, pc : {"fire", "advance"}]
    BY DEF WellFormed, IInv, Typed, Crons, Hooks, Contents, Shaped, Shape, RowSet, TickFire
  <2> QED
    BY <2>1 DEF IInv, Typed, RowSet, TickFire
<1>2. Shaped' /\ Alone' /\ Progressing' /\ Recorded' /\ Waiting' /\ Settled'
  BY Frame DEF TickFire
<1>3. Current'
  BY DEF WellFormed, IInv, Typed, Current, Shaped, Shape, Waiting, Pending, RowSet, TickFire
<1>9. RowOfItsSchedule'
  BY DEF IInv, Typed, RowOfItsSchedule, RowSet, TickFire
<1> QED
  BY <1>1, <1>2, <1>3, <1>9 DEF IInv

LEMMA TickAdvanceStep ==
  ASSUME WellFormed, IInv, NEW t \in ticks, TickAdvance(t)
  PROVE  IInv'
<1>1. Typed'
  <2>1. rows' \in [IDs -> RowSet \cup {None}]
    BY DEF WellFormed, IInv, Typed, RowSet, Crons, Hooks, Contents, Shaped, Shape, RowSet, TickAdvance
  <2>2. ticks' \subseteq [id : IDs, expr : Crons, pc : {"fire", "advance"}]
    BY DEF WellFormed, IInv, Typed, Crons, Hooks, Contents, Shaped, Shape, RowSet, TickAdvance
  <2> QED
    BY <2>1, <2>2 DEF IInv, Typed, RowSet, TickAdvance
<1>2. Shaped' /\ Alone' /\ Progressing' /\ Recorded' /\ Waiting' /\ Settled'
  BY Frame DEF TickAdvance
<1>3. Current'
  BY DEF WellFormed, IInv, Typed, Current, Shaped, Shape, Waiting, Pending, RowSet, TickAdvance
<1>9. RowOfItsSchedule'
  BY DEF IInv, Typed, RowOfItsSchedule, RowSet, TickAdvance
<1> QED
  BY <1>1, <1>2, <1>3, <1>9 DEF IInv

LEMMA CatchupKnownStep ==
  ASSUME WellFormed, IInv, CatchupKnown
  PROVE  IInv'
<1>1. Typed'
  <2>1. boot' \in BootSet
    BY DEF WellFormed, IInv, Typed, BootSet, Crons, Hooks, Contents, Shaped, Shape, Boot, CatchupKnown
  <2> QED
    BY <2>1 DEF IInv, Typed, Boot, CatchupKnown
<1>2. Shaped' /\ Alone' /\ Progressing' /\ Recorded' /\ Waiting' /\ Settled'
  BY Frame DEF CatchupKnown
<1>3. Current'
  BY DEF WellFormed, IInv, Typed, Current, Shaped, Shape, Waiting, Pending, Boot, CatchupKnown
<1>9. RowOfItsSchedule'
  BY DEF IInv, Typed, RowOfItsSchedule, Boot, CatchupKnown
<1> QED
  BY <1>1, <1>2, <1>3, <1>9 DEF IInv

LEMMA CatchupPruneStep ==
  ASSUME WellFormed, IInv, CatchupPrune
  PROVE  IInv'
<1>1. Typed'
  <2>1. boot' \in BootSet
    BY DEF WellFormed, IInv, Typed, BootSet, Crons, Hooks, Contents, Shaped, Shape, Boot, CatchupPrune
  <2>2. rows' \in [IDs -> RowSet \cup {None}]
    BY DEF WellFormed, IInv, Typed, RowSet, Crons, Hooks, Contents, Shaped, Shape, Boot, CatchupPrune
  <2> QED
    BY <2>1, <2>2 DEF IInv, Typed, Boot, CatchupPrune
<1>2. Shaped' /\ Alone' /\ Progressing' /\ Recorded' /\ Waiting' /\ Settled'
  BY Frame DEF CatchupPrune
<1>3. Current'
  BY DEF WellFormed, IInv, Typed, Current, Shaped, Shape, Waiting, Pending, Boot, CatchupPrune
<1>9. RowOfItsSchedule'
  BY DEF IInv, Typed, RowOfItsSchedule, Boot, CatchupPrune
<1> QED
  BY <1>1, <1>2, <1>3, <1>9 DEF IInv

LEMMA CatchupQueryStep ==
  ASSUME WellFormed, IInv, CatchupQuery
  PROVE  IInv'
<1>1. Typed'
  <2>1. boot' \in BootSet
    BY DEF WellFormed, IInv, Typed, BootSet, Crons, Hooks, Contents, Shaped, Shape, Boot, CatchupQuery
  <2> QED
    BY <2>1 DEF IInv, Typed, Boot, CatchupQuery
<1>2. Shaped' /\ Alone' /\ Progressing' /\ Recorded' /\ Waiting' /\ Settled'
  BY Frame DEF CatchupQuery
<1>3. Current'
  BY DEF WellFormed, IInv, Typed, Current, Shaped, Shape, Waiting, Pending, Boot, CatchupQuery
<1>9. RowOfItsSchedule'
  BY DEF IInv, Typed, RowOfItsSchedule, Boot, CatchupQuery
<1> QED
  BY <1>1, <1>2, <1>3, <1>9 DEF IInv

LEMMA CatchupFireStep ==
  ASSUME WellFormed, IInv, CatchupFire
  PROVE  IInv'
<1>1. Typed'
  <2>1. boot' \in BootSet
    BY DEF WellFormed, IInv, Typed, BootSet, Crons, Hooks, Contents, Shaped, Shape, Boot, Fireable, CatchupFire
  <2>2. caught' \subseteq IDs
    BY DEF WellFormed, IInv, Typed, BootSet, Crons, Hooks, Contents, Shaped, Shape, Boot, Fireable, CatchupFire
  <2> QED
    BY <2>1, <2>2 DEF IInv, Typed, Boot, Fireable, CatchupFire
<1>2. Shaped' /\ Alone' /\ Progressing' /\ Recorded' /\ Waiting' /\ Settled'
  BY Frame DEF CatchupFire
<1>3. Current'
  <2>1. boot'.list = boot.list /\ boot.pc = "fire"
    BY DEF IInv, Typed, BootSet, Boot, CatchupFire
  <2> QED
    BY <2>1 DEF IInv, Current, Pending, CatchupFire
<1>9. RowOfItsSchedule'
  BY DEF IInv, Typed, RowOfItsSchedule, Boot, Fireable, CatchupFire
<1> QED
  BY <1>1, <1>2, <1>3, <1>9 DEF IInv

LEMMA ListTasksStep ==
  ASSUME WellFormed, IInv, ListTasks
  PROVE  IInv'
<1>1. Typed'
  <2>1. boot' \in BootSet
    BY DEF WellFormed, IInv, Typed, BootSet, Crons, Hooks, Contents, Shaped, Shape, Boot, ListTasks
  <2> QED
    BY <2>1 DEF IInv, Typed, Boot, ListTasks
<1>2. Shaped' /\ Alone' /\ Progressing' /\ Recorded' /\ Waiting' /\ Settled'
  BY Frame DEF ListTasks
<1>3. Current'
  BY DEF WellFormed, IInv, Typed, Current, Shaped, Shape, Waiting, Pending, Boot, ListTasks
<1>9. RowOfItsSchedule'
  BY DEF IInv, Typed, RowOfItsSchedule, Boot, ListTasks
<1> QED
  BY <1>1, <1>2, <1>3, <1>9 DEF IInv

LEMMA RegisterAgainStep ==
  ASSUME WellFormed, IInv, RegisterAgain
  PROVE  IInv'
<1>c. /\ call' \in [Actors -> CallSet]
      /\ \A b \in Actors : b # "boot" => call'[b] = call[b]
      /\ \E id \in Tasks :
           /\ boot.list[id] \in Contents /\ boot'.list = [boot.list EXCEPT ![id] = None] /\ boot'.pc = boot.pc
           /\ call'["boot"].pc = "lock" /\ call'["boot"].id = id /\ call'["boot"].v = boot.list[id]
           /\ call'["boot"].more = {} /\ ~call'["boot"].again
  <2>1. PICK id \in Tasks :
          /\ boot.list[id] # None
          /\ boot' = [boot EXCEPT !.list[id] = None]
          /\ call' = [call EXCEPT !["boot"] = [NoCall EXCEPT !.pc = "lock", !.id = id, !.v = boot.list[id]]]
    BY DEF RegisterAgain
  <2> DEFINE n == [NoCall EXCEPT !.pc = "lock", !.id = id, !.v = boot.list[id]]
  <2>2. boot.list \in [IDs -> Contents \cup {None}] /\ id \in IDs
    BY DEF IInv, Typed, BootSet, IDs
  <2>3. n \in CallSet
    BY <2>2 DEF CallSet, PCs
  <2>4. call' \in [Actors -> CallSet] /\ call'["boot"] = n /\ \A b \in Actors : b # "boot" => call'[b] = call[b]
    BY <2>1, <2>3, CallPuts DEF IInv, Typed
  <2>5. boot'.list = [boot.list EXCEPT ![id] = None] /\ boot'.pc = boot.pc
    BY <2>1 DEF IInv, Typed, BootSet
  <2> QED
    BY <2>1, <2>2, <2>4, <2>5
<1>1. Typed'
  <2>1. boot' \in BootSet
    BY <1>c DEF WellFormed, IInv, Typed, BootSet, Crons, Hooks, Contents, Shaped, Shape, Boot, RegisterAgain
  <2> QED
    BY <1>c, <2>1 DEF IInv, Typed, Boot, RegisterAgain
<1>2. Shaped'
  <2>1. Shape("boot")'
    <3>1. call["boot"].pc = "idle" /\ mu' = mu /\ call'["boot"].pc = "lock"
      BY <1>c DEF RegisterAgain
    <3> QED
      BY <1>c, <3>1 DEF IInv, Shaped, Shape, IDs
  <2>2. Shape("rec")'
    BY <1>c, ShapeKept DEF IInv, Shaped, RegisterAgain
  <2> QED
    BY <2>1, <2>2 DEF Shaped
<1>3. Current'
  <2>1. PICK id \in Tasks :
          /\ boot.list[id] \in Contents /\ boot'.list = [boot.list EXCEPT ![id] = None] /\ boot'.pc = boot.pc
          /\ call'["boot"].pc = "lock" /\ call'["boot"].id = id /\ call'["boot"].v = boot.list[id]
    BY <1>c
  <2>2. id \in IDs /\ boot.list[id] # None /\ boot.list \in [IDs -> Contents \cup {None}]
        /\ registry' = registry /\ raced' = raced /\ call'["rec"] = call["rec"]
    BY <1>c, <2>1 DEF WellFormed, IInv, Typed, BootSet, IDs, RegisterAgain
  <2>3. boot.list[id] = registry[id] \/ id \in raced
    BY <2>2 DEF IInv, Current
  <2> QED
    BY <2>1, <2>2, <2>3 DEF IInv, Current
<1>4. Alone'
  BY <1>c DEF WellFormed, IInv, Typed, Alone, Shaped, Shape, Current, Pending, Waiting, Boot, RegisterAgain
<1>5. Progressing'
  <2>1. Progress("boot")'
    BY <1>c DEF WellFormed, IInv, Typed, Progressing, Shaped, Shape, Alone, Progress, Made, KeepCron, Boot, RegisterAgain
  <2>2. ASSUME NEW b \in Actors, b # "boot" PROVE Progress(b)'
    BY <1>c, <2>2 DEF WellFormed, IInv, Typed, Progressing, Shaped, Shape, Alone, Progress, Made, KeepCron, Boot, RegisterAgain
  <2> QED
    BY <2>1, <2>2 DEF Progressing
<1>6. Recorded'
  BY <1>c DEF WellFormed, IInv, Typed, Recorded, Shaped, Shape, Alone, Progressing, Progress, Made, Boot, RegisterAgain
<1>7. Waiting'
  BY <1>c DEF WellFormed, IInv, Typed, Waiting, Shaped, Shape, Current, Alone, Pending, Progressing, Progress, Retrying, Asks, IsPipe, KeepCron, IDs, Boot, RegisterAgain
<1>8. Settled'
  BY <1>c DEF WellFormed, IInv, Typed, Settled, Shaped, Shape, Progressing, Progress, Current, Alone, Pending, Waiting, Busy, Early, Asks, IsPipe, KeepCron, Boot, RegisterAgain
<1>9. RowOfItsSchedule'
  BY DEF IInv, Typed, RowOfItsSchedule, Boot, RegisterAgain
<1> QED
  BY <1>1, <1>2, <1>3, <1>4, <1>5, <1>6, <1>7, <1>8, <1>9 DEF IInv

LEMMA StartCronStep ==
  ASSUME WellFormed, IInv, StartCron
  PROVE  IInv'
<1>1. Typed'
  <2>1. boot' \in BootSet
    BY DEF WellFormed, IInv, Typed, BootSet, Crons, Hooks, Contents, Shaped, Shape, Boot, StartCron
  <2> QED
    BY <2>1 DEF IInv, Typed, Boot, StartCron
<1>2. Shaped' /\ Alone' /\ Progressing' /\ Recorded' /\ Waiting' /\ Settled'
  BY Frame DEF StartCron
<1>3. Current'
  BY DEF WellFormed, IInv, Typed, Current, Shaped, Shape, Waiting, Pending, Boot, StartCron
<1>9. RowOfItsSchedule'
  BY DEF IInv, Typed, RowOfItsSchedule, Boot, StartCron
<1> QED
  BY <1>1, <1>2, <1>3, <1>9 DEF IInv

LEMMA RestartStep ==
  ASSUME WellFormed, IInv, Restart
  PROVE  IInv'
<1>1. Typed'
  <2>1. PICK d \in [IDs -> {"future", "due", "old"}] :
          /\ rows' = [id \in IDs |-> IF rows[id] = None THEN None ELSE [rows[id] EXCEPT !.due = d[id]]]
          /\ missed' = {id \in IDs : d[id] = "due"}
    BY DEF Restart
  <2>2. rows' \in [IDs -> RowSet \cup {None}]
    <3>1. ASSUME NEW id \in IDs, rows[id] # None PROVE [rows[id] EXCEPT !.due = d[id]] \in RowSet
      BY <3>1 DEF IInv, Typed, RowSet
    <3> QED
      BY <2>1, <3>1
  <2>3. spent' \in [changes : Nat, ticks : Nat, starts : Nat]
    <3>1. spent' = [spent EXCEPT !.changes = @ + 1, !.starts = @ + 1]
      BY DEF Restart
    <3>2. spent.changes + 1 \in Nat /\ spent.ticks \in Nat /\ spent.starts + 1 \in Nat
      BY DEF IInv, Typed
    <3>3. spent' = [changes |-> spent.changes + 1, ticks |-> spent.ticks, starts |-> spent.starts + 1]
      BY <3>1 DEF IInv, Typed
    <3> QED
      BY <3>2, <3>3
  <2>4. boot' \in BootSet
    BY DEF Restart, Fresh, BootSet
  <2>5. call' \in [Actors -> CallSet]
    BY DEF Restart, Fresh, CallSet, PCs
  <2>6. /\ armed' \in [IDs -> Entries \cup {None}] /\ \A id \in IDs : armed'[id] # None => armed'[id].id = id
        /\ hooks' \in [Hooks -> IDs \cup {None}] /\ deferred' \in [IDs -> Contents \cup {None}]
        /\ registry' \in [IDs -> Contents \cup {None}] /\ mu' \in Actors \cup {None}
    BY DEF Restart, Fresh
  <2>7. disk' \in [IDs -> Contents \cup {None}] /\ todo' \subseteq IDs /\ entries' \subseteq Entries
        /\ ticks' \subseteq [id : IDs, expr : Crons, pc : {"fire", "advance"}]
        /\ missed' \subseteq IDs /\ caught' \subseteq IDs /\ raced' \subseteq IDs
    BY <2>1 DEF IInv, Typed, Restart, Fresh
  <2> QED
    BY <2>2, <2>3, <2>4, <2>5, <2>6, <2>7 DEF Typed
<1>2. Shaped'
  BY DEF WellFormed, IInv, Typed, Shaped, Shape, Fresh, Restart
<1>3. Current'
  BY DEF WellFormed, IInv, Typed, Current, Shaped, Shape, Waiting, Pending, Fresh, Restart
<1>4. Alone'
  BY DEF WellFormed, IInv, Typed, Alone, Shaped, Shape, Current, Pending, Waiting, Fresh, Restart
<1>5. Progressing'
  BY DEF WellFormed, IInv, Typed, Progressing, Shaped, Shape, Alone, Progress, Made, KeepCron, Fresh, Restart
<1>6. Recorded'
  BY DEF WellFormed, IInv, Typed, Recorded, Shaped, Shape, Alone, Progressing, Progress, Made, Fresh, Restart
<1>7. Waiting'
  BY DEF WellFormed, IInv, Typed, Waiting, Shaped, Shape, Current, Alone, Pending, Progressing, Progress, Retrying, Asks, IsPipe, KeepCron, IDs, Fresh, Restart
<1>8. Settled'
  BY DEF WellFormed, IInv, Typed, Settled, Shaped, Shape, Progressing, Progress, Current, Alone, Pending, Waiting, Busy, Early, Asks, IsPipe, KeepCron, Fresh, Restart
<1>9. RowOfItsSchedule'
  BY DEF IInv, Typed, RowOfItsSchedule, Fresh, Restart
<1> QED
  BY <1>1, <1>2, <1>3, <1>4, <1>5, <1>6, <1>7, <1>8, <1>9 DEF IInv

-----------------------------------------------------------------------------
(* The invariant *)

LEMMA InitIInv ==
  ASSUME WellFormed, Init
  PROVE  IInv
<1>1. Typed
  <2>1. disk \in [IDs -> Contents \cup {None}] /\ registry \in [IDs -> Contents \cup {None}]
        /\ todo \subseteq IDs /\ rows \in [IDs -> RowSet \cup {None}]
        /\ entries \subseteq Entries /\ armed \in [IDs -> Entries \cup {None}]
        /\ \A id \in IDs : armed[id] # None => armed[id].id = id
    BY DEF Init
  <2>2. hooks \in [Hooks -> IDs \cup {None}] /\ deferred \in [IDs -> Contents \cup {None}] /\ mu \in Actors \cup {None}
    BY DEF Init
  <2>3. call \in [Actors -> CallSet]
    BY DEF Init, CallSet, PCs
  <2>4. boot \in BootSet
    BY DEF Init, BootSet
  <2>5. ticks \subseteq [id : IDs, expr : Crons, pc : {"fire", "advance"}]
        /\ missed \subseteq IDs /\ caught \subseteq IDs /\ raced \subseteq IDs
        /\ spent \in [changes : Nat, ticks : Nat, starts : Nat]
    BY DEF Init
  <2> QED
    BY <2>1, <2>2, <2>3, <2>4, <2>5 DEF Typed
<1>2. Shaped /\ Current /\ Alone
  BY DEF WellFormed, Init, Shaped, Shape, Current, Alone
<1>3. Progressing /\ Recorded
  BY DEF WellFormed, Init, Progressing, Progress, Recorded
<1>4. Waiting /\ Settled
  BY DEF WellFormed, Init, Waiting, Settled, Asks, IDs
<1>5. RowOfItsSchedule
  BY DEF Init, RowOfItsSchedule
<1> QED
  BY <1>1, <1>2, <1>3, <1>4, <1>5 DEF IInv

LEMMA Stutter ==
  ASSUME IInv, UNCHANGED vars
  PROVE  IInv'
<1>1. Typed' /\ RowOfItsSchedule'
  BY DEF IInv, Typed, RowOfItsSchedule, vars
<1>2. Current'
  BY DEF IInv, Current, Pending, vars
<1> QED
  BY <1>1, <1>2, Frame DEF IInv, vars

LEMMA NextIInv ==
  ASSUME WellFormed, IInv, [Next]_vars
  PROVE  IInv'
<1>1. ASSUME NEW id \in IDs, Edit(id) \/ Handle(id) PROVE IInv'
  BY <1>1, EditStep, HandleStep
<1>2. ASSUME NEW a \in Actors, RegisterStep(a) PROVE IInv'
  BY <1>2, LockStep, RemoveStep, DeleteRowStep, CheckStep, AddStep, RecordStep, InsertStep, ClaimPathStep,
     RetryStep, ForgetStep, RemoveAllStep, DeleteRowAndReturnStep DEF RegisterStep
<1>3. ASSUME NEW e \in entries, Tick(e) PROVE IInv'
  BY <1>3, TickStep
<1>4. ASSUME NEW t \in ticks, TickFire(t) \/ TickAdvance(t) PROVE IInv'
  BY <1>4, TickFireStep, TickAdvanceStep
<1>5. ASSUME BootStep PROVE IInv'
  BY <1>5, CatchupKnownStep, CatchupPruneStep, CatchupQueryStep, CatchupFireStep, ListTasksStep, RegisterAgainStep,
     StartCronStep DEF BootStep
<1>6. ASSUME Restart PROVE IInv'
  BY <1>6, RestartStep
<1>7. ASSUME UNCHANGED vars PROVE IInv'
  BY <1>7, Stutter
<1> QED
  BY <1>1, <1>2, <1>3, <1>4, <1>5, <1>6, <1>7 DEF Next

\* Every reachable state is in order: calls arm the content that is registered, one at a
\* time under registerMu, and what they leave is recorded (Register, Unregister, Start).
THEOREM TriggersInvariant ==
  ASSUME WellFormed
  PROVE  Spec => [](TypeOK /\ IInv)
<1>1. Init => IInv
  BY InitIInv
<1>2. IInv /\ [Next]_vars => IInv'
  BY NextIInv
<1>3. IInv => TypeOK
  BY DEF IInv, Typed, TypeOK, CallSet, BootSet, RowSet
<1> QED
  BY <1>1, <1>2, <1>3, PTL DEF Spec

-----------------------------------------------------------------------------
(* What is armed is what is registered *)

\* When Register and Unregister have returned, each task is armed with its schedule, what
\* is armed fires once and is what the registered content claims, no pipeline waits for a
\* stage that is there, and a row of cron_jobs is of its schedule.
THEOREM ArmedRight ==
  ASSUME WellFormed
  PROVE  Spec => [](ArmedAsRegistered /\ RowOfItsSchedule)
<1>1. ASSUME IInv, Quiet PROVE ArmedAsRegistered
  <2>1. call["rec"] = NoCall /\ call["boot"] = NoCall
    BY <1>1 DEF IInv, Shaped, Shape, Quiet
  <2>2. ASSUME NEW id \in IDs \ raced, deferred[id] # None PROVE registry[id] # None /\ ~Asks(StageOf[id])
    BY <1>1, <2>1, <2>2 DEF WellFormed, IInv, Typed, Waiting, Retrying, IDs
  <2>3. ASSUME NEW id \in IDs \ raced PROVE {e \in entries : e.id = id} = {armed[id]} \ {None}
    <3>1. armed[id] # None => armed[id] \in entries /\ armed[id].id = id
      BY <1>1 DEF IInv, Typed, Recorded
    <3>2. \A e \in entries : e.id = id => e = armed[id]
      BY <1>1, <2>1 DEF IInv, Recorded
    <3>3. None \notin entries
      BY <1>1 DEF WellFormed, IInv, Typed
    <3> QED
      BY <3>1, <3>2, <3>3
  <2>4. ASSUME NEW id \in IDs \ raced
        PROVE  /\ armed[id] # None => registry[id] # None /\ armed[id].expr = KeepCron(registry[id])
               /\ \A h \in Hooks : hooks[h] = id => registry[id] # None /\ KeepHook(id, registry[id]) = h
    BY <1>1, <2>1 DEF WellFormed, IInv, Settled, Early
  <2>5. ASSUME NEW id \in IDs \ raced, Wanted(id) # None PROVE armed[id] # None
    <3>1. Asks(id) /\ registry[id].cron # None /\ (IsPipe(id) => Asks(StageOf[id]))
      BY <2>5 DEF Wanted
    <3>2. ~Busy(id)
      BY <2>1 DEF Busy
    <3>3. deferred[id] = None
      BY <1>1, <2>2, <3>1 DEF WellFormed, IInv, Waiting, IsPipe, IDs
    <3> QED
      BY <1>1, <3>1, <3>2, <3>3 DEF IInv, Settled
  <2> QED
    BY <2>2, <2>3, <2>4, <2>5 DEF ArmedAsRegistered
<1>2. IInv => ArmedAsRegistered /\ RowOfItsSchedule
  BY <1>1 DEF ArmedAsRegistered, IInv
<1> QED
  BY <1>2, TriggersInvariant, PTL

LEMMA KeepsInTakeDown ==
  ASSUME WellFormed, IInv, NEW a \in Actors, call[a].id \in IDs, NEW cron, NEW hook, TakeDown(call[a].id, cron, hook),
         raced' = raced,
         \/ registry[call[a].id] = None
         \/ call[a].id \in raced
         \/ /\ armed[call[a].id] # None /\ armed[call[a].id].expr = KeepCron(registry[call[a].id])
                 => armed[call[a].id].expr = cron
            /\ \A h \in Hooks : hooks[h] = call[a].id /\ KeepHook(call[a].id, registry[call[a].id]) = h => h = hook
  PROVE  ReloadKeeps
<1> DEFINE id == call[a].id
<1>1. Typed
  BY DEF IInv
<1>2. /\ \A x \in IDs : x # id => armed'[x] = armed[x]
      /\ \/ entries' = entries
         \/ armed[id] # None /\ armed[id].expr # cron /\ entries' = entries \ {armed[id]}
      /\ \A h \in Hooks, x \in IDs : x # id => (hooks'[h] = x <=> hooks[h] = x)
  BY <1>1, TakenDown
<1>3. \A h \in Hooks : hooks[h] = id /\ h = hook => hooks'[h] = id
  BY DEF TakeDown
<1>4. ASSUME NEW x \in IDs \ raced', registry[x] # None
      PROVE  /\ \A h \in Hooks : hooks[h] = x /\ KeepHook(x, registry[x]) = h => hooks'[h] = x
             /\ armed[x] # None /\ armed[x].expr = KeepCron(registry[x]) => armed[x] \in entries'
  <2>1. armed[x] # None => armed[x] \in entries /\ armed[x].id = x
    BY <1>1, <1>4 DEF IInv, Recorded, Typed
  <2>2. armed[id] # None => armed[id].id = id
    BY <1>1 DEF Typed
  <2>3. CASE x # id
    BY <1>2, <2>1, <2>2, <2>3
  <2>4. CASE x = id
    BY <1>2, <1>3, <1>4, <2>1, <2>4
  <2> QED
    BY <2>3, <2>4
<1> QED
  BY <1>4 DEF ReloadKeeps

\* A reload that keeps path and schedule leaves no moment without them: Register tells
\* unregisterTriggersKeeping what it claims again, and a retry of a pipeline that waited
\* takes nothing down.
THEOREM ReloadIsSeamless ==
  ASSUME WellFormed
  PROVE  Spec => [][ReloadKeeps]_vars
<1>1. ASSUME IInv, NEW a \in Actors, Remove(a) PROVE ReloadKeeps
  <2> DEFINE id == call[a].id
  <2>1. /\ id \in IDs /\ call[a].pc = "remove" /\ mu = a /\ raced' = raced
        /\ TakeDown(id, KeepCron(call[a].v), KeepHook(id, call[a].v))
    BY <1>1 DEF IInv, Shaped, Shape, Remove
  <2>2. call[a].again /\ id \notin raced => id \in Pipes /\ deferred[id] = call[a].v /\ deferred[id] # None
    BY <1>1, <2>1 DEF WellFormed, IInv, Shaped, Shape, Waiting
  <2>3. ~call[a].again => call[a].v = registry[id] \/ id \in raced
    <3>1. CASE a = "rec"
      BY <1>1, <2>1, <3>1 DEF IInv, Current
    <3>2. CASE a = "boot"
      BY <1>1, <2>1, <3>2 DEF IInv, Current, Shaped, Shape, Pending, Waiting
    <3> QED
      BY <3>1, <3>2
  <2>4. \/ id \in raced
        \/ /\ armed[id] # None /\ armed[id].expr = KeepCron(registry[id]) => armed[id].expr = KeepCron(call[a].v)
           /\ \A h \in Hooks : hooks[h] = id /\ KeepHook(id, registry[id]) = h => h = KeepHook(id, call[a].v)
    BY <1>1, <2>2, <2>3 DEF IInv, Waiting
  <2> QED
    BY <1>1, <2>1, <2>4, KeepsInTakeDown
<1>2. ASSUME IInv, NEW a \in Actors, RemoveAll(a) PROVE ReloadKeeps
  <2>1. call[a].id \in IDs /\ registry[call[a].id] = None /\ raced' = raced /\ TakeDown(call[a].id, None, None)
    BY <1>2 DEF IInv, Shaped, Shape, RemoveAll
  <2> QED
    BY <1>2, <2>1, KeepsInTakeDown
<1>3. ASSUME IInv, entries \subseteq entries', \A h \in Hooks : hooks[h] # None => hooks'[h] = hooks[h], raced \subseteq raced'
      PROVE  ReloadKeeps
  BY <1>3 DEF WellFormed, IInv, Recorded, ReloadKeeps
<1>4. ASSUME Restart, IInv PROVE ReloadKeeps
  <2>1. spent'.starts = spent.starts + 1 /\ spent.starts \in Nat
    BY <1>4 DEF IInv, Typed, Restart
  <2> QED
    BY <2>1 DEF ReloadKeeps
<1>5. ASSUME IInv, [Next]_vars PROVE ReloadKeeps
  <2>1. ASSUME NEW id \in IDs, Edit(id) \/ Handle(id) PROVE ReloadKeeps
    BY <1>3, <1>5, <2>1 DEF Edit, Handle
  <2>2. ASSUME NEW a \in Actors, RegisterStep(a), ~Remove(a), ~RemoveAll(a) PROVE ReloadKeeps
    <3>1. entries \subseteq entries' /\ raced \subseteq raced' /\ \A h \in Hooks : hooks[h] # None => hooks'[h] = hooks[h]
      BY <1>5, <2>2 DEF IInv, Typed, RegisterStep, Lock, DeleteRow, Check, Add, Record, Insert, ClaimPath, Retry, Forget,
         DeleteRowAndReturn
    <3> QED
      BY <1>3, <1>5, <3>1
  <2>3. ASSUME NEW e \in entries, Tick(e) PROVE ReloadKeeps
    BY <1>3, <1>5, <2>3 DEF Tick
  <2>4. ASSUME NEW t \in ticks, TickFire(t) \/ TickAdvance(t) PROVE ReloadKeeps
    BY <1>3, <1>5, <2>4 DEF TickFire, TickAdvance
  <2>5. ASSUME BootStep PROVE ReloadKeeps
    BY <1>3, <1>5, <2>5 DEF BootStep, CatchupKnown, CatchupPrune, CatchupQuery, CatchupFire, ListTasks, RegisterAgain,
       StartCron
  <2>6. ASSUME UNCHANGED vars PROVE ReloadKeeps
    BY <1>3, <1>5, <2>6 DEF vars
  <2> QED
    BY <1>1, <1>2, <1>4, <1>5, <2>1, <2>2, <2>3, <2>4, <2>5, <2>6 DEF Next
<1>6. IInv /\ [Next]_vars => ReloadKeeps
  BY <1>5
<1>7. IInv /\ [Next]_vars => [ReloadKeeps]_vars
  BY <1>6
<1> QED
  BY <1>7, TriggersInvariant, PTL DEF Spec

-----------------------------------------------------------------------------
(***************************************************************************)
(* The calls a run makes over its connection: TaskCalls.                   *)
(***************************************************************************)

\* The names of the runs differ, and what is registered for a task has a grant.
CallConstants ==
  /\ None \notin Tasks \cup L!Runs \cup {"task", "replay"}
  /\ RunIds \in Seq(L!Runs) /\ \A i, j \in 1..Len(RunIds) : RunIds[i] = RunIds[j] => i = j
  /\ CallVersions \subseteq [grant : {v.grant : v \in CallVersions}, exposed : BOOLEAN, there : BOOLEAN]
  /\ Initial \subseteq [Tasks -> CallVersions]

CallSpecs == CallVersions \cup {[v EXCEPT !.there = FALSE] : v \in CallVersions}
CallGrants == {v.grant : v \in CallVersions} \cup {L!NoGrant}
CallSecrets == SUBSET (Values \cup UNION Launch)
CallCaps == {"log", "output", "output.secret", "return", "replay", "trigger", "mcp"}
CallRows ==
  [task : Tasks \cup {None}, parent : L!Runs \cup {None}, status : {"none", "running", "ended"},
   via : {None, "task", "replay", "chain", "trigger"}]
CallServers ==
  [grant : CallGrants, caps : SUBSET CallCaps, scrub : CallSecrets, secret : CallSecrets, raced : SUBSET Values]
CallConns ==
  [pc : {"loop", "store", "fire", "fired", "wait"}, target : Tasks \cup {None}, fired : L!Runs \cup {None},
   value : Values \cup {None}, loaded : CallSecrets, since : SUBSET Values]
CallTyped ==
  /\ CallConstants
  /\ registered \in [Tasks -> CallSpecs]
  /\ callRows \in [L!Runs -> CallRows] /\ callServers \in [L!Runs -> CallServers] /\ callConn \in [L!Loops -> CallConns]
  /\ callLogs \in [L!Runs -> SUBSET [shows : Values, secret : BOOLEAN]]

\* The runs so far are the first names; what is not fired has no row and asks for nothing.
CallFirst(k) == {RunIds[i] : i \in 1..k}
CallOrder ==
  /\ \E k \in 0..Len(RunIds) : {q \in L!Runs : callRows[q] # L!NoRow} = CallFirst(k)
  /\ \A r \in L!Runs : callRows[r].status = "none" => callRows[r] = L!NoRow /\ \A k \in Conns : callConn[<<r, k>>].pc = "loop"
CallOn(r) == callRows[r].status # "none"
CallNamed == \A r \in L!Runs : CallOn(r) => callRows[r].task \in Tasks

\* The token of a run has the capabilities of its grant, its redactor every secret but those
\* whose output was overlapped.  What a Store at work will write, and what was stored since it
\* loaded, are all there are of these.
CallTokens ==
  \A r \in L!Runs :
    /\ callServers[r].caps \subseteq L!CapsOf(callServers[r].grant)
    /\ callServers[r].secret \ callServers[r].raced \subseteq callServers[r].scrub
CallStores ==
  \A c \in L!Loops :
    callConn[c].pc = "store" =>
      /\ callConn[c].value \in Values
      /\ callServers[c[1]].secret \ callServers[c[1]].raced \subseteq callConn[c].loaded \cup callConn[c].since

\* A call at work is for a task the caller was allowed; what it fired is its child.
CallTarget(c) ==
  LET x == callConn[c] IN
  /\ x.pc \in {"fire", "fired"} => x.target \in Tasks /\ L!taskAllowed(callServers[c[1]].grant, x.target)
  /\ x.pc \in {"fired", "wait"} /\ x.fired # None =>
       callRows[x.fired].parent = c[1] /\ callRows[x.fired].via = "task" /\ callRows[x.fired].task = x.target
  /\ x.pc = "wait" => x.fired # None
  /\ x.pc \in {"loop", "store", "fire"} => x.fired = None
CallTargets == \A c \in L!Loops : CallTarget(c)

\* The parent of a run that a call fired is a run that was on.
CallParents ==
  \A r \in L!Runs : callRows[r].via = "task" => callRows[r].parent \in L!Runs /\ CallOn(callRows[r].parent)

\* L!FiresAreAudited, of one run: the loop that fired it is at it, or the trail has it.
CallAtIt(r) == \E k \in Conns : callConn[<<callRows[r].parent, k>>].pc = "fired" /\ callConn[<<callRows[r].parent, k>>].fired = r
CallEntry(r) ==
  [actor |-> callRows[callRows[r].parent].task, run |-> r, target |-> callRows[r].task, allowed |-> TRUE]
CallAudited ==
  \A r \in L!Runs :
    callRows[r].via = "task" =>
      L!taskAllowed(callServers[callRows[r].parent].grant, callRows[r].task) /\ (CallAtIt(r) \/ CallEntry(r) \in trail)

CallInv ==
  /\ CallTyped /\ CallOrder /\ CallNamed /\ CallTokens /\ CallStores /\ CallTargets /\ CallParents
  /\ CallAudited /\ L!NoSecretLogged

LEMMA CallLoops ==
  /\ \A c \in L!Loops : c[1] \in L!Runs /\ c[2] \in Conns /\ c = <<c[1], c[2]>>
  /\ \A r \in L!Runs, k \in Conns : <<r, k>> \in L!Loops /\ <<r, k>>[1] = r
  BY DEF L!Loops

LEMMA CallCardinality == \A S : L!Cardinality(S) = Cardinality(S)
  BY DEF L!Cardinality, Cardinality

LEMMA CallInit == CallConstants /\ L!Init => CallInv
<1> SUFFICES ASSUME CallConstants, L!Init PROVE CallInv
  OBVIOUS
<1>1. L!NoRow \in CallRows /\ L!NoServer \in CallServers /\ L!Idle \in CallConns
  BY DEF CallRows, CallServers, CallConns, L!NoRow, L!NoServer, L!Idle, CallGrants, CallSecrets
<1>2. CallTyped
  BY <1>1 DEF L!Init, CallTyped, CallConstants, CallSpecs
<1>3. CallOrder
  <2>1. {q \in L!Runs : callRows[q] # L!NoRow} = CallFirst(0)
    BY DEF L!Init, CallFirst
  <2>2. Len(RunIds) \in Nat
    BY DEF CallConstants
  <2> QED
    BY <2>1, <2>2, CallLoops DEF CallOrder, L!Init, L!Idle
<1>4. CallTokens /\ CallStores /\ CallTargets /\ CallParents /\ CallNamed
  BY CallLoops DEF CallConstants, CallNamed, CallOn, L!Init, L!NoServer, L!Idle, L!NoRow, CallTokens,
    CallStores, CallTarget, CallTargets, CallParents
<1>5. CallAudited /\ L!NoSecretLogged
  BY DEF CallConstants, L!Init, L!NoRow, CallAudited, L!NoSecretLogged
<1> QED
  BY <1>2, <1>3, <1>4, <1>5 DEF CallInv

\* The next name is of a run that was not fired.
LEMMA CallNext0 ==
  ASSUME CallTyped, NEW k \in 0..Len(RunIds), {q \in L!Runs : callRows[q] # L!NoRow} = CallFirst(k),
         NEW i \in DOMAIN RunIds, i = Cardinality({q \in L!Runs : callRows[q] # L!NoRow}) + 1
  PROVE  i = k + 1 /\ k + 1 \in 0..Len(RunIds) /\ callRows[RunIds[i]] = L!NoRow /\ CallFirst(k + 1) = CallFirst(k) \cup {RunIds[i]}
<1>1. RunIds \in Seq(L!Runs) /\ Len(RunIds) \in Nat /\ DOMAIN RunIds = 1..Len(RunIds)
      /\ \A a, b \in 1..Len(RunIds) : RunIds[a] = RunIds[b] => a = b
  BY DEF CallTyped, CallConstants
<1>2. Cardinality(CallFirst(k)) = k
  <2> DEFINE f == [j \in 1..k |-> RunIds[j]]
  <2>a. \A a \in 1..k : a \in 1..Len(RunIds)
    BY <1>1
  <2>b. f \in [1..k -> CallFirst(k)] /\ \A y \in CallFirst(k) : \E a \in 1..k : f[a] = y
    BY DEF CallFirst
  <2>c. \A a, b \in 1..k : f[a] = f[b] => a = b
    BY <1>1, <2>a
  <2> HIDE DEF f
  <2>1. f \in Bijection(1..k, CallFirst(k))
    BY <2>b, <2>c DEF Bijection, Injection, Surjection, IsInjective
  <2>2. IsFiniteSet(1..k) /\ Cardinality(1..k) = k
    BY <1>1, FS_Interval
  <2>3. ExistsBijection(1..k, CallFirst(k))
    BY <2>1 DEF ExistsBijection
  <2> QED
    BY <2>2, <2>3, FS_Bijection
<1>3. i = k + 1 /\ i \in 1..Len(RunIds)
  BY <1>1, <1>2
<1>4. RunIds[i] \in L!Runs /\ RunIds[i] \notin CallFirst(k)
  BY <1>1, <1>3 DEF CallFirst
<1>5. CallFirst(k + 1) = CallFirst(k) \cup {RunIds[k + 1]}
  <2>1. 1..(k + 1) = (1..k) \cup {k + 1}
    BY <1>1
  <2> QED
    BY <2>1 DEF CallFirst
<1>6. callRows[RunIds[i]] = L!NoRow
  <2>1. RunIds[i] \notin {q \in L!Runs : callRows[q] # L!NoRow}
    BY <1>4
  <2> QED
    BY <1>4, <2>1
<1>7. k + 1 \in 0..Len(RunIds)
  BY <1>1, <1>3
<1> QED
  BY <1>3, <1>5, <1>6, <1>7

LEMMA CallFired ==
  ASSUME CallInv, NEW n \in L!Runs, NEW t \in Tasks, NEW parent \in L!Runs \cup {None},
         NEW via \in {"task", "replay", "chain", "trigger"}, NEW secrets \in CallSecrets,
         L!Fired(n, t, parent, via, secrets)
  PROVE  /\ n \in L!Runs /\ callRows[n] = L!NoRow /\ callRows[n].status = "none" /\ (\A k \in Conns : callConn[<<n, k>>].pc = "loop")
         /\ callRows' \in [L!Runs -> CallRows] /\ callServers' \in [L!Runs -> CallServers]
         /\ callRows'[n].task = t /\ callRows'[n].parent = parent /\ callRows'[n].status = "running" /\ callRows'[n].via = via
         /\ callServers'[n].caps = L!CapsOf(callServers'[n].grant) /\ callServers'[n].secret = callServers'[n].scrub /\ callServers'[n].raced = {}
         /\ \A r \in L!Runs \ {n} : callRows'[r] = callRows[r] /\ callServers'[r] = callServers[r]
         /\ \E k \in 0..Len(RunIds) : {q \in L!Runs : callRows'[q] # L!NoRow} = CallFirst(k)
<1> DEFINE row == [task |-> t, parent |-> parent, status |-> "running", via |-> via]
           server == L!Start(registered[t].grant, secrets)
<1>1. PICK i \in DOMAIN RunIds : n = RunIds[i] /\ i = Cardinality({q \in L!Runs : callRows[q] # L!NoRow}) + 1
  BY CallCardinality DEF L!Fired
<1>2. PICK k \in 0..Len(RunIds) : {q \in L!Runs : callRows[q] # L!NoRow} = CallFirst(k)
  BY DEF CallInv, CallOrder
<1>3. /\ k + 1 \in 0..Len(RunIds) /\ callRows[n] = L!NoRow /\ CallFirst(k + 1) = CallFirst(k) \cup {n}
  BY <1>1, <1>2, CallNext0 DEF CallInv
<1>4. n \in L!Runs
  BY <1>1 DEF L!Runs
<1>5. row \in CallRows /\ row # L!NoRow /\ row.task = t /\ row.parent = parent /\ row.status = "running" /\ row.via = via
  BY DEF CallRows, L!NoRow
<1>6. server \in CallServers /\ server.caps = L!CapsOf(server.grant) /\ server.secret = server.scrub /\ server.raced = {}
  <2>1. registered[t].grant \in CallGrants
    BY DEF CallInv, CallTyped, CallConstants, CallSpecs, CallGrants
  <2>2. \A g : L!CapsOf(g) \subseteq CallCaps
    BY DEF L!CapsOf, CallCaps
  <2> QED
    BY <2>1, <2>2 DEF L!Start, CallServers
<1>7. callRows' = [callRows EXCEPT ![n] = row] /\ callServers' = [callServers EXCEPT ![n] = server]
  BY DEF L!Fired
<1> HIDE DEF row, server
<1>8. callRows \in [L!Runs -> CallRows] /\ callServers \in [L!Runs -> CallServers]
  BY DEF CallInv, CallTyped
<1>9. {q \in L!Runs : callRows'[q] # L!NoRow} = CallFirst(k) \cup {n}
  BY <1>2, <1>4, <1>5, <1>7, <1>8
<1>10. callRows[n].status = "none" /\ \A c \in Conns : callConn[<<n, c>>].pc = "loop"
  BY <1>3, <1>4 DEF L!NoRow, CallInv, CallOrder
<1> QED
  BY <1>3, <1>4, <1>5, <1>6, <1>7, <1>8, <1>9, <1>10

LEMMA CallBorn ==
  ASSUME CallInv, NEW n \in L!Runs, NEW t \in Tasks, NEW parent \in L!Runs \cup {None},
         NEW via \in {"task", "replay", "chain", "trigger"}, NEW secrets \in CallSecrets,
         L!Fired(n, t, parent, via, secrets),
         via = "task" => parent \in L!Runs /\ CallOn(parent)
  PROVE  /\ CallTokens' /\ CallParents' /\ CallNamed'
         /\ \A r \in L!Runs : CallOn(r) => CallOn(r)' /\ r # n
<1>1. /\ n \in L!Runs /\ callRows[n].status = "none"
      /\ callRows'[n].task = t /\ callRows'[n].parent = parent /\ callRows'[n].status = "running" /\ callRows'[n].via = via
      /\ callServers'[n].caps = L!CapsOf(callServers'[n].grant) /\ callServers'[n].secret = callServers'[n].scrub
      /\ \A r \in L!Runs \ {n} : callRows'[r] = callRows[r] /\ callServers'[r] = callServers[r]
  BY CallFired
<1>2. \A r \in L!Runs : CallOn(r) => CallOn(r)' /\ r # n
  BY <1>1 DEF CallOn
<1>3. CallTokens'
  BY <1>1 DEF CallInv, CallTokens
<1>4. CallParents'
  BY <1>1, <1>2 DEF CallInv, CallParents
<1>5. CallNamed'
  BY <1>1 DEF CallInv, CallNamed, CallOn
<1> QED
  BY <1>2, <1>3, <1>4, <1>5

\* What the loops of the other runs are at stays right when a run is fired.
LEMMA CallElse ==
  ASSUME CallInv, NEW n \in L!Runs, callRows[n].status = "none",
         \A y \in L!Runs \ {n} : callRows'[y] = callRows[y] /\ callServers'[y] = callServers[y]
  PROVE  /\ \A c \in L!Loops : c[1] # n /\ callConn'[c] = callConn[c] => CallTarget(c)'
         /\ \A y \in L!Runs : callRows[y].via = "task" => CallEntry(y)' = CallEntry(y) /\ callRows'[y] = callRows[y]
<1> USE DEF CallInv
<1>1. ASSUME NEW c \in L!Loops, c[1] # n, callConn'[c] = callConn[c] PROVE CallTarget(c)'
  <2>1. callConn[c].fired # n \/ callConn[c].fired = None \/ callConn[c].pc \notin {"fired", "wait"}
    BY CallLoops DEF CallTyped, CallConstants, CallTargets, CallTarget, CallOrder, L!NoRow
  <2>2. callConn[c].fired \in L!Runs \cup {None} /\ c[1] \in L!Runs
    BY CallLoops DEF CallTyped, CallConns
  <2> QED
    BY <1>1, <2>1, <2>2 DEF CallTargets, CallTarget
<1>2. ASSUME NEW y \in L!Runs, callRows[y].via = "task"
      PROVE  CallEntry(y)' = CallEntry(y) /\ callRows'[y] = callRows[y]
  <2>1. y # n
    BY <1>2 DEF CallOrder, L!NoRow, CallTyped, CallConstants
  <2>2. callRows[y].parent \in L!Runs /\ callRows[y].parent # n
    BY <1>2 DEF CallParents, CallOn
  <2> QED
    BY <2>1, <2>2 DEF CallEntry
<1> QED
  BY <1>1, <1>2

\* A step that keeps what was fired and by whom, the trail, and the loops that are at it.
LEMMA CallAuditedStays ==
  ASSUME CallInv, trail \subseteq trail',
         \A y \in L!Runs : /\ callRows'[y].via = callRows[y].via /\ callRows'[y].parent = callRows[y].parent
                           /\ callRows'[y].task = callRows[y].task /\ callServers'[y].grant = callServers[y].grant,
         \A d \in L!Loops : callConn[d].pc = "fired" => callConn'[d].pc = "fired" /\ callConn'[d].fired = callConn[d].fired
  PROVE  CallAudited'
<1> USE DEF CallInv
<1> SUFFICES ASSUME NEW y \in L!Runs, callRows[y].via = "task"
             PROVE  /\ L!taskAllowed(callServers'[callRows[y].parent].grant, callRows[y].task)
                    /\ CallAtIt(y)' \/ CallEntry(y)' \in trail'
  BY DEF CallAudited
<1>1. callRows[y].parent \in L!Runs /\ CallEntry(y)' = CallEntry(y)
  BY DEF CallParents, CallEntry
<1>2. CallAtIt(y) => CallAtIt(y)'
  BY <1>1, CallLoops DEF CallAtIt
<1> QED
  BY <1>1, <1>2 DEF CallAudited

\* A run that is fired and that no connection waits for.
LEMMA CallAdds ==
  ASSUME CallInv, NEW n \in L!Runs, NEW t \in Tasks, NEW parent \in L!Runs \cup {None},
         NEW via \in {"replay", "chain", "trigger"}, NEW secrets \in CallSecrets,
         L!Fired(n, t, parent, via, secrets), UNCHANGED <<registered, callConn, callLogs, trail>>
  PROVE  CallInv'
<1> USE DEF CallInv
<1>1. /\ (\A k \in Conns : callConn[<<n, k>>].pc = "loop") /\ callRows[n].status = "none"
      /\ callRows' \in [L!Runs -> CallRows] /\ callServers' \in [L!Runs -> CallServers]
      /\ callRows'[n].status = "running" /\ callRows'[n].via = via
      /\ \A y \in L!Runs \ {n} : callRows'[y] = callRows[y] /\ callServers'[y] = callServers[y]
      /\ \E k \in 0..Len(RunIds) : {q \in L!Runs : callRows'[q] # L!NoRow} = CallFirst(k)
  BY CallFired
<1>2. /\ CallTokens' /\ CallParents' /\ CallNamed' /\ \A y \in L!Runs : CallOn(y) => CallOn(y)' /\ y # n
  BY CallBorn
<1>3. CallTyped'
  BY <1>1 DEF CallTyped
<1>4. CallOrder'
  BY <1>1 DEF CallOrder
<1>a. /\ \A c \in L!Loops : c[1] # n /\ callConn'[c] = callConn[c] => CallTarget(c)'
      /\ \A y \in L!Runs : callRows[y].via = "task" => CallEntry(y)' = CallEntry(y) /\ callRows'[y] = callRows[y]
  BY <1>1, CallElse
<1>b. \A c \in L!Loops : c[1] = n => callConn[c].pc = "loop"
  BY <1>1, CallLoops
<1>5. CallTargets'
  <2> SUFFICES ASSUME NEW c \in L!Loops PROVE CallTarget(c)'
    BY DEF CallTargets
  <2>1. CASE c[1] = n
    BY <1>b, <2>1 DEF CallTargets, CallTarget
  <2>2. CASE c[1] # n
    BY <1>a, <2>2
  <2> QED
    BY <2>1, <2>2
<1>6. CallStores'
  BY <1>1, <1>b, CallLoops DEF CallStores
<1>7. CallAudited'
  <2> SUFFICES ASSUME NEW y \in L!Runs, callRows'[y].via = "task"
               PROVE  /\ L!taskAllowed(callServers'[callRows'[y].parent].grant, callRows'[y].task)
                      /\ CallAtIt(y)' \/ CallEntry(y)' \in trail'
    BY DEF CallAudited
  <2>1. y # n /\ callRows'[y] = callRows[y] /\ callRows[y].via = "task"
    BY <1>1
  <2>2. callRows[y].parent \in L!Runs /\ callRows[y].parent # n
    BY <1>1, <2>1 DEF CallParents, CallOn
  <2>3. CallEntry(y)' = CallEntry(y) /\ (CallAtIt(y) => CallAtIt(y)')
    BY <1>a, <2>1 DEF CallAtIt
  <2> QED
    BY <1>1, <2>1, <2>2, <2>3 DEF CallAudited
<1>8. L!NoSecretLogged'
  BY DEF L!NoSecretLogged
<1> QED
  BY <1>2, <1>3, <1>4, <1>5, <1>6, <1>7, <1>8

LEMMA CallMcpCall == ASSUME NEW c \in L!Loops, CallInv, L!McpCall(c) PROVE CallInv'
<1> USE DEF CallInv
<1>a. UNCHANGED <<registered, callRows, callServers, callConn, callLogs>> /\ trail \subseteq trail'
  BY DEF L!McpCall, L!Audit
<1>1. CallTyped'
  BY <1>a DEF CallTyped
<1>2. CallOrder'
  BY <1>a DEF CallOrder
<1>3. CallNamed'
  BY <1>a DEF CallNamed, CallOn
<1>4. CallTokens'
  BY CallLoops, <1>a DEF CallTokens
<1>5. CallStores'
  BY CallLoops, <1>a DEF CallStores
<1>6. CallTargets'
  BY <1>a DEF CallTargets, CallTarget
<1>7. CallParents'
  BY <1>a DEF CallParents, CallOn
<1>8. CallAudited'
  BY <1>a DEF CallAudited, CallAtIt, CallEntry, CallParents
<1>9. L!NoSecretLogged'
  BY <1>a DEF L!NoSecretLogged
<1> QED
  BY <1>1, <1>2, <1>3, <1>4, <1>5, <1>6, <1>7, <1>8, <1>9

LEMMA CallOutputSecret == ASSUME NEW c \in L!Loops, CallInv, L!OutputSecret(c) PROVE CallInv'
<1> USE DEF CallInv
<1>a. UNCHANGED <<registered, callRows, callServers, callLogs, trail>> /\ callConn[c].pc = "loop" /\ callRows[c[1]].status = "running"
  BY DEF L!OutputSecret, L!Call
<1>b. PICK v \in Values : callConn' = [callConn EXCEPT ![c] = [L!Idle EXCEPT !.pc = "store", !.value = v, !.loaded = callServers[c[1]].scrub]]
  BY DEF L!OutputSecret
<1> DEFINE x == [L!Idle EXCEPT !.pc = "store", !.value = v, !.loaded = callServers[c[1]].scrub]
<1>c. /\ x \in CallConns /\ x.pc = "store" /\ x.value \in Values /\ x.loaded = callServers[c[1]].scrub /\ x.fired = None
  BY CallLoops DEF L!Idle, CallConns, CallTyped, CallServers
<1> HIDE DEF x
<1>d. callConn'[c] = x /\ callConn' \in [L!Loops -> CallConns] /\ \A d \in L!Loops \ {c} : callConn'[d] = callConn[d]
  BY <1>b, <1>c DEF CallTyped, x
<1>1. CallTyped'
  BY CallLoops, <1>a, <1>c, <1>d DEF CallTyped
<1>2. CallOrder'
  BY CallLoops, <1>a, <1>c, <1>d DEF CallOrder
<1>3. CallNamed'
  BY CallLoops, <1>a, <1>c, <1>d DEF CallNamed, CallOn
<1>4. CallTokens'
  BY CallLoops, <1>a, <1>c, <1>d DEF CallTokens
<1>5. CallStores'
  BY CallLoops, <1>a, <1>c, <1>d DEF CallStores, CallTokens
<1>6. CallTargets'
  BY CallLoops, <1>a, <1>c, <1>d DEF CallTargets, CallTarget
<1>7. CallParents'
  BY CallLoops, <1>a, <1>c, <1>d DEF CallParents, CallOn
<1>8. CallAudited'
  BY CallLoops, <1>a, <1>c, <1>d DEF CallAudited, CallAtIt, CallEntry, CallParents
<1>9. L!NoSecretLogged'
  BY CallLoops, <1>a, <1>c, <1>d DEF L!NoSecretLogged
<1> QED
  BY <1>1, <1>2, <1>3, <1>4, <1>5, <1>6, <1>7, <1>8, <1>9

LEMMA CallStoreRedactor == ASSUME NEW c \in L!Loops, CallInv, L!StoreRedactor(c) PROVE CallInv'
<1> USE DEF CallInv
<1> DEFINE v == callConn[c].value
           r == c[1]
           s == [callServers[r] EXCEPT !.scrub = L!WithExtra(callConn[c].loaded, v), !.secret = @ \cup {v},
                                       !.raced = (@ \cup callConn[c].since) \ {v}]
<1>a. UNCHANGED <<registered, callRows, callLogs, trail>> /\ callConn[c].pc = "store" /\ r \in L!Runs /\ v \in Values
  BY CallLoops DEF L!StoreRedactor, CallStores
<1>b. /\ s \in CallServers /\ s.grant = callServers[r].grant /\ s.caps = callServers[r].caps
      /\ s.scrub = callConn[c].loaded \cup {v} /\ s.secret = callServers[r].secret \cup {v}
      /\ s.raced = (callServers[r].raced \cup callConn[c].since) \ {v}
  <2>1. callServers[r] \in CallServers /\ callConn[c] \in CallConns
    BY <1>a DEF CallTyped
  <2>2. callConn[c].loaded \cup {v} \in CallSecrets /\ callServers[r].secret \cup {v} \in CallSecrets
    BY <1>a, <2>1 DEF CallServers, CallConns, CallSecrets
  <2>3. (callServers[r].raced \cup callConn[c].since) \ {v} \in SUBSET Values
    BY <2>1 DEF CallServers, CallConns
  <2> QED
    BY <2>1, <2>2, <2>3 DEF CallServers, L!WithExtra
<1>c. callServers' = [callServers EXCEPT ![r] = s]
  BY <1>a DEF L!StoreRedactor, CallTyped, CallServers
<1> HIDE DEF s
<1>d. callServers'[r] = s /\ callServers' \in [L!Runs -> CallServers] /\ \A y \in L!Runs \ {r} : callServers'[y] = callServers[y]
  BY <1>a, <1>b, <1>c DEF CallTyped
<1>e. \A d \in L!Loops : callConn'[d] =
        IF d = c THEN L!Idle
        ELSE IF d[1] = r /\ callConn[d].pc = "store" THEN [callConn[d] EXCEPT !.since = @ \cup {v}]
        ELSE callConn[d]
  BY DEF L!StoreRedactor
<1>f. \A d \in L!Loops \ {c} :
        /\ callConn'[d].pc = callConn[d].pc /\ callConn'[d].target = callConn[d].target /\ callConn'[d].fired = callConn[d].fired
        /\ callConn'[d].value = callConn[d].value /\ callConn'[d].loaded = callConn[d].loaded
        /\ callConn[d].since \subseteq callConn'[d].since
        /\ d[1] = r /\ callConn[d].pc = "store" => v \in callConn'[d].since
  BY <1>e DEF CallTyped, CallConns
<1>g. callConn' \in [L!Loops -> CallConns] /\ callConn'[c] = L!Idle
  <2>1. L!Idle \in CallConns
    BY DEF L!Idle, CallConns, CallSecrets
  <2>2. \A d \in L!Loops : [callConn[d] EXCEPT !.since = @ \cup {v}] \in CallConns
    BY <1>a DEF CallTyped, CallConns
  <2>3. \A d \in L!Loops : callConn'[d] \in CallConns
    BY <1>e, <2>1, <2>2 DEF CallTyped
  <2>4. callConn' = [d \in L!Loops |-> callConn'[d]]
    BY DEF L!StoreRedactor
  <2> QED
    BY <1>e, <2>3, <2>4
<1> HIDE DEF v, r
<1>1. CallTyped'
  BY CallLoops, <1>a, <1>b, <1>d, <1>f, <1>g DEF CallTyped, r
<1>2. CallOrder'
  BY CallLoops, <1>a, <1>b, <1>d, <1>f, <1>g DEF CallOrder, L!Idle, r
<1>3. CallNamed'
  BY CallLoops, <1>a, <1>b, <1>d, <1>f, <1>g DEF CallNamed, CallOn, r
<1>4. CallTokens'
  BY CallLoops, <1>a, <1>b, <1>d, <1>f, <1>g DEF CallTokens, CallStores, r
<1>5. CallStores'
  BY CallLoops, <1>a, <1>b, <1>d, <1>f, <1>g DEF CallStores, L!Idle, r
<1>6. CallTargets'
  BY CallLoops, <1>a, <1>b, <1>d, <1>f, <1>g DEF CallTargets, CallTarget, L!Idle, r
<1>7. CallParents'
  BY CallLoops, <1>a, <1>b, <1>d, <1>f, <1>g DEF CallParents, CallOn, r
<1>8. CallAudited'
  BY <1>a, <1>b, <1>d, <1>f, CallAuditedStays
<1>9. L!NoSecretLogged'
  BY CallLoops, <1>a, <1>b, <1>d, <1>f, <1>g DEF L!NoSecretLogged, r
<1> QED
  BY <1>1, <1>2, <1>3, <1>4, <1>5, <1>6, <1>7, <1>8, <1>9

LEMMA CallLog == ASSUME NEW c \in L!Loops, CallInv, L!Log(c) PROVE CallInv'
<1> USE DEF CallInv
<1> DEFINE r == c[1]
           row(x) == [shows |-> x, secret |-> x \in callServers[r].secret \ callServers[r].raced]
<1>a. UNCHANGED <<registered, callRows, callServers, callConn, trail>> /\ r \in L!Runs
  BY CallLoops DEF L!Log
<1>b. PICK v \in Values : callLogs' = [callLogs EXCEPT ![r] = @ \cup {row(x) : x \in {v} \ callServers[r].scrub}]
  BY DEF L!Log
<1>c. \A x \in {v} \ callServers[r].scrub : row(x) \in [shows : Values, secret : BOOLEAN] /\ ~row(x).secret
  <2> SUFFICES ASSUME NEW x \in {v} \ callServers[r].scrub
               PROVE  row(x) \in [shows : Values, secret : BOOLEAN] /\ ~row(x).secret
    OBVIOUS
  <2>1. x \in Values /\ (x \in callServers[r].secret \ callServers[r].raced) = FALSE
    BY <1>a DEF CallTokens
  <2>2. row(x) = [shows |-> x, secret |-> FALSE]
    BY <2>1, Zenon
  <2> QED
    BY <2>1, <2>2
<1>d. callLogs' = [callLogs EXCEPT ![r] = callLogs[r] \cup {row(x) : x \in {v} \ callServers[r].scrub}]
  BY <1>b
<1> HIDE DEF row
<1>e. /\ {row(x) : x \in {v} \ callServers[r].scrub} \subseteq [shows : Values, secret : BOOLEAN]
      /\ \A y \in {row(x) : x \in {v} \ callServers[r].scrub} : ~y.secret
  BY <1>c
<1> HIDE DEF r
<1>1. CallTyped'
  BY <1>a, <1>d, <1>e DEF CallTyped
<1>2. CallOrder'
  BY <1>a, <1>d, <1>e DEF CallOrder
<1>3. CallNamed'
  BY <1>a, <1>d, <1>e DEF CallNamed, CallOn
<1>4. CallTokens'
  BY CallLoops, <1>a, <1>d, <1>e DEF CallTokens
<1>5. CallStores'
  BY CallLoops, <1>a, <1>d, <1>e DEF CallStores
<1>6. CallTargets'
  BY <1>a, <1>d, <1>e DEF CallTargets, CallTarget
<1>7. CallParents'
  BY <1>a, <1>d, <1>e DEF CallParents, CallOn
<1>8. CallAudited'
  BY <1>a, <1>d, <1>e DEF CallAudited, CallAtIt, CallEntry, CallParents
<1>9. L!NoSecretLogged'
  BY <1>a, <1>d, <1>e DEF L!NoSecretLogged, CallTyped
<1> QED
  BY <1>1, <1>2, <1>3, <1>4, <1>5, <1>6, <1>7, <1>8, <1>9

LEMMA CallRunTask == ASSUME NEW c \in L!Loops, CallInv, L!RunTask(c) PROVE CallInv'
<1> USE DEF CallInv
<1>a. /\ callConn[c].pc = "loop" /\ callRows[c[1]].status = "running"
      /\ UNCHANGED <<registered, callRows, callServers, callLogs>>
  BY DEF L!RunTask, L!Call
<1>b. PICK t \in Tasks :
        \/ /\ L!taskAllowed(callServers[c[1]].grant, t) /\ UNCHANGED trail
           /\ callConn' = [callConn EXCEPT ![c] = [L!Idle EXCEPT !.pc = "fire", !.target = t]]
        \/ callConn' = callConn /\ trail \subseteq trail'
  BY DEF L!RunTask, L!Allowed, L!Audit
<1>x. \A t1 \in Tasks : [L!Idle EXCEPT !.pc = "fire", !.target = t1] \in CallConns
  BY DEF L!Idle, CallConns, CallSecrets
<1>c. trail \subseteq trail' /\ callConn' \in [L!Loops -> CallConns] /\ (\A y \in L!Loops \ {c} : callConn'[y] = callConn[y])
  BY <1>b, <1>x DEF CallTyped
<1>d. /\ callConn[c].pc = "loop" /\ callConn[c].fired = None
      /\ \/ callConn'[c] = callConn[c]
         \/ callConn'[c].pc = "fire" /\ callConn'[c].target = t /\ callConn'[c].fired = None
            /\ L!taskAllowed(callServers[c[1]].grant, t)
  BY <1>a, <1>b DEF CallTyped, CallTargets, CallTarget, L!Idle
<1>1. CallTyped'
  BY CallLoops, <1>a, <1>c, <1>d DEF CallTyped
<1>2. CallOrder'
  BY CallLoops, <1>a, <1>c, <1>d DEF CallOrder
<1>3. CallNamed'
  BY CallLoops, <1>a, <1>c, <1>d DEF CallNamed, CallOn
<1>4. CallTokens'
  BY CallLoops, <1>a, <1>c, <1>d DEF CallTokens
<1>5. CallStores'
  BY CallLoops, <1>a, <1>c, <1>d DEF CallStores
<1>6. CallTargets'
  BY CallLoops, <1>a, <1>c, <1>d DEF CallTargets, CallTarget
<1>7. CallParents'
  BY CallLoops, <1>a, <1>c, <1>d DEF CallParents, CallOn
<1>8. CallAudited'
  BY <1>a, <1>c, <1>d, CallAuditedStays
<1>9. L!NoSecretLogged'
  BY CallLoops, <1>a, <1>c, <1>d DEF L!NoSecretLogged
<1> QED
  BY <1>1, <1>2, <1>3, <1>4, <1>5, <1>6, <1>7, <1>8, <1>9

LEMMA CallFireFromTask == ASSUME NEW c \in L!Loops, CallInv, L!FireFromTask(c) PROVE CallInv'
<1> USE DEF CallInv
<1> DEFINE t == callConn[c].target
           r == c[1]
<1>1. /\ callRows[r].status = "running" /\ callConn[c].pc = "fire" /\ r \in L!Runs
      /\ UNCHANGED <<registered, callLogs, trail>>
  BY CallLoops DEF L!FireFromTask
<1>2. t \in Tasks /\ L!taskAllowed(callServers[r].grant, t) /\ callConn[c].fired = None
  BY <1>1 DEF CallTargets, CallTarget
<1>3. CASE callConn' = [callConn EXCEPT ![c].pc = "fired"] /\ UNCHANGED <<callRows, callServers>>
  <2>0. /\ callConn' \in [L!Loops -> CallConns] /\ callConn'[c].pc = "fired" /\ callConn'[c].fired = None /\ callConn'[c].target = t
        /\ \A d \in L!Loops \ {c} : callConn'[d] = callConn[d]
    BY <1>2, <1>3 DEF CallTyped, CallConns
  <2>1. CallTyped' /\ CallOrder' /\ CallTargets' /\ CallStores'
    BY <1>1, <1>2, <1>3, <2>0, CallLoops DEF CallTyped, CallOrder, CallTargets, CallTarget, CallStores
  <2>2. CallTokens' /\ CallParents' /\ L!NoSecretLogged' /\ CallNamed'
    BY <1>1, <1>3 DEF CallNamed, CallTokens, CallOn, CallParents, L!NoSecretLogged
  <2>3. CallAudited'
    BY <1>1, <1>3, <2>0, CallAuditedStays
  <2> QED
    BY <2>1, <2>2, <2>3
<1>4. ASSUME NEW x \in L!Runs, L!Fired(x, t, r, "task", {}),
             callConn' = [callConn EXCEPT ![c].pc = "fired", ![c].fired = x]
      PROVE  CallInv'
  <2>1. {} \in CallSecrets /\ CallOn(r)
    BY <1>1 DEF CallSecrets, CallOn
  <2>2. /\ (\A k \in Conns : callConn[<<x, k>>].pc = "loop") /\ callRows[x].status = "none" /\ x # r
        /\ callRows' \in [L!Runs -> CallRows] /\ callServers' \in [L!Runs -> CallServers]
        /\ callRows'[x].task = t /\ callRows'[x].parent = r /\ callRows'[x].status = "running" /\ callRows'[x].via = "task"
        /\ \A y \in L!Runs \ {x} : callRows'[y] = callRows[y] /\ callServers'[y] = callServers[y]
        /\ \E k \in 0..Len(RunIds) : {q \in L!Runs : callRows'[q] # L!NoRow} = CallFirst(k)
    BY <1>1, <1>2, <1>4, <2>1, CallFired
  <2>3. /\ CallTokens' /\ CallParents' /\ CallNamed' /\ \A y \in L!Runs : CallOn(y) => CallOn(y)' /\ y # x
    BY <1>1, <1>2, <1>4, <2>1, CallBorn
  <2>4. /\ callConn' \in [L!Loops -> CallConns] /\ callConn'[c].pc = "fired" /\ callConn'[c].fired = x /\ callConn'[c].target = t
        /\ \A d \in L!Loops \ {c} : callConn'[d] = callConn[d]
    BY <1>4 DEF CallTyped, CallConns
  <2>a. /\ \A d \in L!Loops : d[1] # x /\ callConn'[d] = callConn[d] => CallTarget(d)'
        /\ \A y \in L!Runs : callRows[y].via = "task" => CallEntry(y)' = CallEntry(y) /\ callRows'[y] = callRows[y]
    BY <2>2, CallElse
  <2>5. CallTyped'
    BY <1>1, <2>2, <2>4 DEF CallTyped
  <2>6. CallOrder'
    BY <1>1, <2>2, <2>4, CallLoops DEF CallOrder
  <2>7. CallTargets'
    <3> SUFFICES ASSUME NEW d \in L!Loops PROVE CallTarget(d)'
      BY DEF CallTargets
    <3>1. CASE d = c
      BY <1>1, <1>2, <2>2, <2>4, <3>1 DEF CallTarget
    <3>2. CASE d[1] = x
      <4>1. d # c /\ callConn'[d] = callConn[d] /\ callConn[d].pc = "loop"
        BY <2>2, <2>4, <3>2, CallLoops
      <4> QED
        BY <4>1 DEF CallTargets, CallTarget
    <3>3. CASE d # c /\ d[1] # x
      BY <2>4, <2>a, <3>3
    <3> QED
      BY <3>1, <3>2, <3>3
  <2>8. CallStores'
    BY <2>2, <2>4, CallLoops DEF CallStores
  <2>9. CallAudited'
    <3> SUFFICES ASSUME NEW y \in L!Runs, callRows'[y].via = "task"
                 PROVE  /\ L!taskAllowed(callServers'[callRows'[y].parent].grant, callRows'[y].task)
                        /\ CallAtIt(y)' \/ CallEntry(y)' \in trail'
      BY DEF CallAudited
    <3>1. CASE y = x
      <4>1. PICK k \in Conns : c = <<r, k>>
        BY CallLoops
      <4>2. CallAtIt(x)'
        BY <2>2, <2>4, <4>1 DEF CallAtIt
      <4> QED
        BY <1>1, <1>2, <2>2, <3>1, <4>2
    <3>2. CASE y # x
      <4> DEFINE p == callRows[y].parent
      <4>1. callRows'[y] = callRows[y] /\ callRows[y].via = "task"
        BY <2>2, <3>2
      <4>2. p \in L!Runs /\ CallOn(p)
        BY <4>1 DEF CallParents
      <4>3. p # x /\ callServers'[p] = callServers[p]
        BY <2>2, <4>2 DEF CallOn
      <4>4. CallEntry(y)' = CallEntry(y)
        BY <2>a, <4>1
      <4>5. ASSUME CallAtIt(y) PROVE CallAtIt(y)'
        <5>1. PICK k \in Conns : callConn[<<p, k>>].pc = "fired" /\ callConn[<<p, k>>].fired = y
          BY <4>5 DEF CallAtIt
        <5>2. callConn'[<<p, k>>] = callConn[<<p, k>>]
          BY <1>1, <2>4, <4>2, <5>1, CallLoops
        <5> QED
          BY <4>1, <5>1, <5>2 DEF CallAtIt
      <4> QED
        BY <1>1, <4>1, <4>3, <4>4, <4>5 DEF CallAudited
    <3> QED
      BY <3>1, <3>2
  <2>10. L!NoSecretLogged'
    BY <1>1 DEF L!NoSecretLogged
  <2> QED
    BY <2>3, <2>5, <2>6, <2>7, <2>8, <2>9, <2>10
<1> QED
  BY <1>3, <1>4 DEF L!FireFromTask

LEMMA CallAuditFired == ASSUME NEW c \in L!Loops, CallInv, L!AuditFired(c) PROVE CallInv'
<1> USE DEF CallInv
<1> DEFINE r == c[1]
           t == callConn[c].target
           e == [actor |-> callRows[r].task, run |-> IF callConn[c].fired = None THEN r ELSE callConn[c].fired, target |-> t, allowed |-> TRUE]
<1>a. /\ callConn[c].pc = "fired" /\ UNCHANGED <<registered, callRows, callServers, callLogs>> /\ r \in L!Runs
      /\ trail' = trail \cup {e}
      /\ callConn' = [callConn EXCEPT ![c] = IF @.fired = None THEN L!Idle ELSE [@ EXCEPT !.pc = "wait"]]
  BY CallLoops DEF L!AuditFired, L!Audit
<1>b. CallOn(r) /\ t \in Tasks /\ L!taskAllowed(callServers[r].grant, t)
  BY <1>a, CallLoops DEF CallOrder, CallOn, CallTargets, CallTarget
<1>x. L!Idle \in CallConns /\ L!Idle.pc = "loop" /\ L!Idle.fired = None
  BY DEF L!Idle, CallConns, CallSecrets
<1>c. /\ callConn' \in [L!Loops -> CallConns] /\ \A y \in L!Loops \ {c} : callConn'[y] = callConn[y]
      /\ IF callConn[c].fired = None THEN callConn'[c] = L!Idle
         ELSE callConn'[c].pc = "wait" /\ callConn'[c].fired = callConn[c].fired /\ callConn'[c].target = t
  BY <1>a, <1>x DEF CallTyped, CallConns
<1>e. callConn[c].fired # None => /\ callRows[callConn[c].fired].task = t /\ callRows[callConn[c].fired].parent = r
                                   /\ e = CallEntry(callConn[c].fired)
  BY <1>a, <1>b DEF CallTargets, CallTarget, CallEntry
<1> HIDE DEF r, t, e
<1>1. CallTyped'
  BY CallLoops, <1>a, <1>b, <1>c, <1>e, <1>x DEF CallTyped, r
<1>2. CallOrder'
  BY CallLoops, <1>a, <1>b, <1>c, <1>e, <1>x DEF CallOrder, r
<1>3. CallNamed'
  BY CallLoops, <1>a, <1>b, <1>c, <1>e, <1>x DEF CallNamed, CallOn, r
<1>4. CallTokens'
  BY CallLoops, <1>a, <1>b, <1>c, <1>e, <1>x DEF CallTokens, r
<1>5. CallStores'
  BY CallLoops, <1>a, <1>b, <1>c, <1>e, <1>x DEF CallStores, r
<1>6. CallTargets'
  BY CallLoops, <1>a, <1>b, <1>c, <1>e, <1>x DEF CallTargets, CallTarget, r
<1>7. CallParents'
  BY CallLoops, <1>a, <1>b, <1>c, <1>e, <1>x DEF CallParents, CallOn, r
<1>8. CallAudited'
  <2> SUFFICES ASSUME NEW y \in L!Runs, callRows[y].via = "task" PROVE CallAtIt(y)' \/ CallEntry(y)' \in trail'
    BY <1>a DEF CallAudited
  <2> DEFINE p == callRows[y].parent
  <2>1. p \in L!Runs /\ (CallAtIt(y) \/ CallEntry(y) \in trail) /\ CallEntry(y)' = CallEntry(y) /\ y # None
    BY <1>a DEF CallAudited, CallParents, CallEntry, CallTyped, CallConstants
  <2>2. CASE callConn[c].fired = y
    BY <1>a, <1>e, <2>1, <2>2
  <2>3. CASE CallEntry(y) \in trail
    BY <1>a, <2>1, <2>3
  <2>4. CASE CallAtIt(y) /\ callConn[c].fired # y
    <3>1. PICK k \in Conns : callConn[<<p, k>>].pc = "fired" /\ callConn[<<p, k>>].fired = y
      BY <2>4 DEF CallAtIt
    <3>2. callConn'[<<p, k>>] = callConn[<<p, k>>]
      BY <1>c, <2>1, <2>4, <3>1, CallLoops
    <3> QED
      BY <1>a, <3>1, <3>2 DEF CallAtIt
  <2> QED
    BY <2>1, <2>2, <2>3, <2>4
<1>9. L!NoSecretLogged'
  BY CallLoops, <1>a, <1>b, <1>c, <1>e, <1>x DEF L!NoSecretLogged, r
<1> QED
  BY <1>1, <1>2, <1>3, <1>4, <1>5, <1>6, <1>7, <1>8, <1>9

LEMMA CallWaitRun == ASSUME NEW c \in L!Loops, CallInv, L!WaitRun(c) PROVE CallInv'
<1> USE DEF CallInv
<1>a. UNCHANGED <<registered, callRows, callServers, callLogs, trail>> /\ callConn[c].pc = "wait" /\ callConn' = [callConn EXCEPT ![c] = L!Idle]
  BY DEF L!WaitRun
<1>x. L!Idle \in CallConns /\ L!Idle.pc = "loop" /\ L!Idle.fired = None
  BY DEF L!Idle, CallConns, CallSecrets
<1>c. callConn'[c] = L!Idle /\ callConn' \in [L!Loops -> CallConns] /\ (\A y \in L!Loops \ {c} : callConn'[y] = callConn[y])
  BY <1>a, <1>x DEF CallTyped
<1>1. CallTyped'
  BY CallLoops, <1>a, <1>c, <1>x DEF CallTyped
<1>2. CallOrder'
  BY CallLoops, <1>a, <1>c, <1>x DEF CallOrder
<1>3. CallNamed'
  BY CallLoops, <1>a, <1>c, <1>x DEF CallNamed, CallOn
<1>4. CallTokens'
  BY CallLoops, <1>a, <1>c, <1>x DEF CallTokens
<1>5. CallStores'
  BY CallLoops, <1>a, <1>c, <1>x DEF CallStores
<1>6. CallTargets'
  BY CallLoops, <1>a, <1>c, <1>x DEF CallTargets, CallTarget
<1>7. CallParents'
  BY CallLoops, <1>a, <1>c, <1>x DEF CallParents, CallOn
<1>8. CallAudited'
  BY CallLoops, <1>a, <1>c, <1>x DEF CallAudited, CallAtIt, CallEntry, CallParents
<1>9. L!NoSecretLogged'
  BY CallLoops, <1>a, <1>c, <1>x DEF L!NoSecretLogged
<1> QED
  BY <1>1, <1>2, <1>3, <1>4, <1>5, <1>6, <1>7, <1>8, <1>9

LEMMA CallReplay == ASSUME NEW c \in L!Loops, CallInv, L!Replay(c) PROVE CallInv'
<1>1. callRows[c[1]].status = "running" /\ UNCHANGED <<registered, callConn, callLogs, trail>>
  BY DEF L!Replay, L!Call
<1>2. PICK x \in L!Runs, n \in L!Runs : callRows[x] # L!NoRow /\ L!Fired(n, callRows[x].task, x, "replay", {})
  BY DEF L!Replay
<1>3. callRows[x].task \in Tasks /\ {} \in CallSecrets
  BY <1>2 DEF CallInv, CallOrder, CallOn, CallNamed, CallSecrets
<1> QED
  BY <1>1, <1>2, <1>3, CallAdds

LEMMA CallTrigger == ASSUME NEW r \in L!Runs, CallInv, L!Trigger(r) PROVE CallInv'
<1>1. UNCHANGED <<registered, callConn, callLogs, trail>>
  BY DEF L!Trigger
<1>2. PICK t \in Tasks :
        \/ \E s \in Launch : L!Fired(r, t, None, "trigger", s)
        \/ \E x \in L!Runs : L!Fired(r, t, x, "chain", {})
  BY DEF L!Trigger
<1>3. \A s \in Launch : s \in CallSecrets
  BY DEF CallSecrets
<1>4. {} \in CallSecrets
  BY DEF CallSecrets
<1>5. CASE \E s \in Launch : L!Fired(r, t, None, "trigger", s)
  BY <1>1, <1>3, <1>5, CallAdds
<1>6. CASE \E x \in L!Runs : L!Fired(r, t, x, "chain", {})
  BY <1>1, <1>4, <1>6, CallAdds
<1> QED
  BY <1>2, <1>5, <1>6

LEMMA CallEnd == ASSUME NEW r \in L!Runs, CallInv, L!End(r) PROVE CallInv'
<1> USE DEF CallInv
<1>1. CallTyped'
  <2>1. \A x \in CallRows : [x EXCEPT !.status = "ended"] \in CallRows
    BY DEF CallRows
  <2> QED
    BY <2>1 DEF CallTyped, L!End
<1>2. CallOrder'
  <2>1. callRows' \in [L!Runs -> CallRows] /\ callRows'[r].status = "ended" /\ callRows[r] # L!NoRow /\ callRows'[r] # L!NoRow
        /\ \A y \in L!Runs \ {r} : callRows'[y] = callRows[y]
    BY DEF L!End, L!NoRow, CallTyped, CallRows
  <2>2. {q \in L!Runs : callRows'[q] # L!NoRow} = {q \in L!Runs : callRows[q] # L!NoRow}
    BY <2>1
  <2> QED
    BY <2>1, <2>2 DEF CallOrder, L!End
<1>3. CallNamed'
  BY CallLoops DEF CallNamed, CallOn, CallTyped, CallRows, CallServers, CallConns, L!End, L!Call
<1>4. CallTokens'
  BY CallLoops DEF CallTokens, CallTyped, CallRows, CallServers, CallConns, L!End, L!Call
<1>5. CallStores'
  BY CallLoops DEF CallStores, CallTyped, CallRows, CallServers, CallConns, L!End, L!Call
<1>6. CallTargets'
  BY CallLoops DEF CallTargets, CallTarget, CallTyped, CallRows, CallServers, CallConns, L!End, L!Call
<1>7. CallParents'
  BY CallLoops DEF CallParents, CallOn, CallTyped, CallRows, CallServers, CallConns, L!End, L!Call
<1>8. CallAudited'
  <2>1. \A y \in L!Runs : /\ callRows'[y].via = callRows[y].via /\ callRows'[y].parent = callRows[y].parent
                            /\ callRows'[y].task = callRows[y].task
    BY DEF L!End, CallTyped, CallRows
  <2> QED
    BY <2>1, CallAuditedStays DEF L!End
<1>9. L!NoSecretLogged'
  BY CallLoops DEF L!NoSecretLogged, CallTokens, CallTyped, CallRows, CallServers, CallConns, L!End, L!Call
<1> QED
  BY <1>1, <1>2, <1>3, <1>4, <1>5, <1>6, <1>7, <1>8, <1>9

LEMMA CallEdit == ASSUME NEW t \in Tasks, CallInv, L!Edit(t) PROVE CallInv'
<1> USE DEF CallInv
<1>1. CallTyped'
  <2>1. \A x \in CallSpecs : [x EXCEPT !.there = FALSE] \in CallSpecs
    <3>1. \A x \in CallVersions : [x EXCEPT !.there = FALSE] \in CallSpecs
      BY DEF CallSpecs
    <3>2. \A x \in CallVersions : [[x EXCEPT !.there = FALSE] EXCEPT !.there = FALSE] = [x EXCEPT !.there = FALSE]
      BY DEF CallTyped, CallConstants
    <3> QED
      BY <3>1, <3>2 DEF CallSpecs
  <2>2. registered[t] \in CallSpecs /\ CallVersions \subseteq CallSpecs
    BY DEF CallTyped, CallSpecs
  <2>3. registered' \in [Tasks -> CallSpecs]
    BY <2>1, <2>2 DEF CallTyped, L!Edit
  <2> QED
    BY <2>3 DEF CallTyped, L!Edit
<1>2. CallOrder'
  BY CallLoops DEF CallOrder, CallTyped, CallRows, CallServers, CallConns, L!Edit, L!Call
<1>3. CallNamed'
  BY CallLoops DEF CallNamed, CallOn, CallTyped, CallRows, CallServers, CallConns, L!Edit, L!Call
<1>4. CallTokens'
  BY CallLoops DEF CallTokens, CallTyped, CallRows, CallServers, CallConns, L!Edit, L!Call
<1>5. CallStores'
  BY CallLoops DEF CallStores, CallTyped, CallRows, CallServers, CallConns, L!Edit, L!Call
<1>6. CallTargets'
  BY CallLoops DEF CallTargets, CallTarget, CallTyped, CallRows, CallServers, CallConns, L!Edit, L!Call
<1>7. CallParents'
  BY CallLoops DEF CallParents, CallOn, CallTyped, CallRows, CallServers, CallConns, L!Edit, L!Call
<1>8. CallAudited'
  BY CallLoops DEF CallAudited, CallAtIt, CallEntry, CallParents, CallOn, CallOrder, CallTargets, CallTarget,
    CallTyped, CallRows, CallServers, CallConns, L!Edit, L!Call
<1>9. L!NoSecretLogged'
  BY CallLoops DEF L!NoSecretLogged, CallTokens, CallTyped, CallRows, CallServers, CallConns, L!Edit, L!Call
<1> QED
  BY <1>1, <1>2, <1>3, <1>4, <1>5, <1>6, <1>7, <1>8, <1>9

LEMMA CallNext == CallInv /\ [L!Next]_(L!vars) => CallInv'
<1> SUFFICES ASSUME CallInv, [L!Next]_(L!vars) PROVE CallInv'
  OBVIOUS
<1>1. CASE UNCHANGED L!vars
  <2>1. UNCHANGED <<registered, callRows, callServers, callConn, callLogs, trail, callEdits, callsMade>>
    BY <1>1 DEF L!vars
  <2>2. CallTyped'
    BY <2>1 DEF CallInv, CallTyped, CallRows, CallServers, CallConns
  <2>3. CallOrder'
    BY <2>1 DEF CallInv, CallOrder, CallTyped, CallRows, CallServers, CallConns
  <2>4. CallNamed'
    BY <2>1 DEF CallInv, CallNamed, CallOn, CallTyped, CallRows, CallServers, CallConns
  <2>5. CallTokens'
    BY <2>1 DEF CallInv, CallTokens, CallTyped, CallRows, CallServers, CallConns
  <2>6. CallStores'
    BY <2>1 DEF CallInv, CallStores, CallTyped, CallRows, CallServers, CallConns
  <2>7. CallTargets'
    BY <2>1 DEF CallInv, CallTargets, CallTarget, CallTyped, CallRows, CallServers, CallConns
  <2>8. CallParents'
    BY <2>1 DEF CallInv, CallParents, CallOn, CallTyped, CallRows, CallServers, CallConns
  <2>9. CallAudited'
    BY <2>1 DEF CallInv, CallAudited, CallAtIt, CallEntry, CallParents, CallOn, CallOrder, CallTargets,
      CallTarget, CallTyped, CallRows, CallServers, CallConns
  <2>10. L!NoSecretLogged'
    BY <2>1 DEF CallInv, L!NoSecretLogged, CallTokens, CallTyped, CallRows, CallServers, CallConns
  <2> QED
    BY <2>2, <2>3, <2>4, <2>5, <2>6, <2>7, <2>8, <2>9, <2>10 DEF CallInv
<1>2. ASSUME NEW c \in L!Loops,
             L!McpCall(c) \/ L!OutputSecret(c) \/ L!StoreRedactor(c) \/ L!Log(c) \/ L!RunTask(c) \/ L!FireFromTask(c) \/ L!AuditFired(c) \/ L!WaitRun(c) \/ L!Replay(c)
      PROVE  CallInv'
  BY <1>2, CallMcpCall, CallOutputSecret, CallStoreRedactor, CallLog, CallRunTask, CallFireFromTask,
    CallAuditFired, CallWaitRun, CallReplay
<1>3. ASSUME NEW r \in L!Runs, L!Trigger(r) \/ L!End(r) PROVE CallInv'
  BY <1>3, CallTrigger, CallEnd
<1>4. ASSUME NEW t \in Tasks, L!Edit(t) PROVE CallInv'
  BY <1>4, CallEdit
<1> QED
  BY <1>1, <1>2, <1>3, <1>4 DEF L!Next

LEMMA CallMeans ==
  CallInv => L!TypeOK /\ L!FiresAreAudited /\ L!NoSecretLogged /\ L!WaitsForItsOwn
<1>1. CallInv => L!TypeOK
  BY DEF CallInv, CallTyped, CallSpecs, CallRows, CallConns, CallSecrets, L!TypeOK
<1>2. CallInv => L!FiresAreAudited
  BY DEF CallInv, CallAudited, CallAtIt, CallEntry, L!FiresAreAudited
<1>3. CallInv => L!WaitsForItsOwn
  BY DEF CallInv, CallTargets, CallTarget, L!WaitsForItsOwn
<1> QED
  BY <1>1, <1>2, <1>3 DEF CallInv

\* What handleConn promises, whatever the connections of a run do between a Load and a Store:
\* a fire by a run is one its grant allows and is audited, no log row shows a secret, except one
\* whose output another overlapped, and a loop waits for its own child.
THEOREM CallsStayGranted ==
  CallConstants => (L!Spec => [](L!TypeOK /\ L!FiresAreAudited /\ L!NoSecretLogged /\ L!WaitsForItsOwn))
  BY CallInit, CallNext, CallMeans, PTL DEF L!Spec


-----------------------------------------------------------------------------
(***************************************************************************)
(* What a run finds in its environment: EnvResolve.                        *)
(***************************************************************************)

\* A task declares finitely many variables, each once.
EnvDeclared == [kind : {"value", "secret", "task"}, key : Keys, provider : Providers, optional : BOOLEAN,
                default : BOOLEAN, ifMissing : BOOLEAN]
EnvConstants ==
  /\ None \notin Runs /\ MaxVersion \in Nat \ {0} /\ MaxContent \in Nat /\ MaxNow \in Nat /\ CacheTTL \in Nat
  /\ Specs \subseteq Seq(EnvDeclared) /\ Stores \subseteq [Keys -> 0..MaxVersion]
  /\ \A s \in Specs : \A j, k \in DOMAIN s : s[j].key = s[k].key => j = k

EnvValues == [name : Keys, src : {"value", "secret", "default", "empty"}, ver : Nat, hash : Nat, moved : BOOLEAN]
EnvSlots == [ver : Nat, hash : Nat, moved : BOOLEAN, exp : Nat]
EnvAsks == [of : Providers \cup {None}, hash : Nat, at : Nat, cached : SUBSET EnvValues, by : Nat, moved : BOOLEAN]
EnvRuns ==
  [pc : {"none", "secrets", "lookup", "provider", "fetch", "missing", "await", "recheck", "started", "failed"},
   spec : Specs \cup {<<>>}, box : BOOLEAN, inline : BOOLEAN, i : Nat \ {0}, env : SUBSET EnvValues,
   pre : BOOLEAN, todo : SUBSET Providers, ask : EnvAsks, fired : SUBSET (Providers \X BOOLEAN),
   waited : SUBSET Keys]
EnvTyped ==
  /\ EnvConstants
  /\ secretStore \in [Keys -> 0..MaxVersion] /\ provider \in [Providers -> Nat]
  /\ secretCache \in [E!Slots -> EnvSlots] /\ envNow \in 0..MaxNow
  /\ envRun \in [Runs -> EnvRuns]
  /\ flight \in [Keys -> [leader : Runs \cup {None}, waiters : SUBSET Runs, outcome : {"none", "runs"}]]

\* What is said of one run is said of its record.
EnvEntries(x) == {x.spec[j] : j \in DOMAIN x.spec}
EnvOf(x, p) == {e \in EnvEntries(x) : e.kind = "task" /\ e.provider = p}
EnvAsked(x, e) == e.kind = "task" /\ e.provider \in x.todo
EnvGiven(vals, e) == \E v \in vals : v.name = e.key /\ (E!Required(e) => v.src = "secret")

\* Where a run may be: the runtime resolves after the prerequisites, and only if the preflight did not.
EnvMissing == {"missing", "await", "recheck"}
EnvPlaced(x) ==
  /\ x.pre => x.pc \in EnvMissing \cup {"started", "failed"} /\ ~x.inline
  /\ x.pc \in EnvMissing => ~x.inline
  /\ x.pc \in {"await", "recheck"} => x.i \in DOMAIN x.spec
  /\ x.pre \/ (x.pc = "started" /\ ~x.box) => x.todo = {}
\* A value looked up by a hash is of the content of that hash.
EnvRight(v) == v.hash # 0 /\ ~v.moved => v.ver = v.hash
\* One value a variable, each right, none of a provider that was not asked.
EnvValued(x) ==
  /\ \A v, w \in x.env : v.name = w.name => v = w
  /\ \A v \in x.env : EnvRight(v) /\ (v.src = "secret" => v.ver >= 1)
  /\ \A e \in EnvEntries(x) : EnvAsked(x, e) => \A v \in x.env : v.name # e.key
\* What no provider has to be asked for is there.
EnvCovered(x) ==
  x.pc \in {"lookup", "provider", "fetch"} \/ x.pre \/ (x.pc = "started" /\ ~x.box) =>
    \A e \in EnvEntries(x) : EnvAsked(x, e) \/ EnvGiven(x.env, e)
\* Values for what provider p gives.
EnvFrom(x, p, vals) ==
  /\ \A v \in vals : \E e \in EnvOf(x, p) : v.name = e.key
  /\ \A v, w \in vals : v.name = w.name => v = w
  /\ \A v \in vals : EnvRight(v) /\ (v.src = "secret" => v.ver >= 1)
\* The providers fired so far, by the resolver that is at work; the one under way is to do.
EnvFired(x) ==
  /\ \A f \in x.fired : f[2] = x.inline
  /\ x.pc \in {"none", "secrets"} \/ (x.pc \in EnvMissing /\ ~x.pre) => x.fired = {}
  /\ x.pc = "lookup" => \A f \in x.fired : f[1] \notin x.todo
  /\ x.pc \in {"provider", "fetch"} =>
       /\ x.ask.of \in x.todo /\ <<x.ask.of, x.inline>> \in x.fired
       /\ EnvFrom(x, x.ask.of, x.ask.cached) /\ \A v \in x.ask.cached : v.src = "secret"
       /\ \A f \in x.fired : f[1] \in x.todo => f[1] = x.ask.of
  /\ x.pc = "fetch" => x.ask.by >= 1 /\ (~x.ask.moved => x.ask.by = x.ask.hash)
EnvOK(x) == x \in EnvRuns /\ EnvPlaced(x) /\ EnvValued(x) /\ EnvCovered(x) /\ EnvFired(x)
EnvAllRuns == \A r \in Runs : EnvOK(envRun[r])
\* A run about to fire a provider sees every edit of it; what is cached is of the content of its hash.
EnvLooked(x) == x.pc = "provider" /\ ~x.ask.moved => provider[x.ask.of] = x.ask.hash
EnvCached(c) == c.ver # 0 /\ ~c.moved => c.ver = c.hash
EnvKept == (\A r \in Runs : EnvLooked(envRun[r])) /\ \A s \in E!Slots : EnvCached(secretCache[s])

\* Who waits for a prerequisite is in its flight, which is under way while it has a leader.
EnvFlights ==
  /\ \A k \in Keys, r \in Runs :
       r \in flight[k].waiters <=> envRun[r].pc = "await" /\ envRun[r].spec[envRun[r].i].key = k
  /\ \A k \in Keys :
       IF flight[k].leader = None THEN flight[k].waiters = {}
       ELSE flight[k].outcome = "runs" /\ flight[k].leader \in flight[k].waiters

EnvInv == EnvTyped /\ EnvAllRuns /\ EnvKept /\ EnvFlights

LEMMA EnvKeys ==
  ASSUME EnvConstants, NEW x \in EnvRuns
  PROVE  /\ EnvEntries(x) \subseteq EnvDeclared
         /\ \A e, f \in EnvEntries(x) : e.key = f.key => e = f
<1>1. CASE x.spec = <<>>
  BY <1>1 DEF EnvEntries
<1>2. CASE x.spec \in Specs
  <2>1. x.spec \in Seq(EnvDeclared) /\ \A j, k \in DOMAIN x.spec : x.spec[j].key = x.spec[k].key => j = k
    BY <1>2 DEF EnvConstants
  <2>2. \A j \in DOMAIN x.spec : x.spec[j] \in EnvDeclared
    BY <2>1
  <2> QED
    BY <2>1, <2>2, Zenon DEF EnvEntries
<1> QED
  BY <1>1, <1>2 DEF EnvRuns

\* A step of one run that leaves the flights alone.
LEMMA EnvStep ==
  ASSUME EnvInv, NEW r \in Runs, NEW x, EnvOK(x), EnvLooked(x), envRun' = [envRun EXCEPT ![r] = x],
         x.pc # "await", envRun[r].pc # "await", UNCHANGED flight,
         UNCHANGED <<secretStore, provider, envNow>>,
         secretCache' \in [E!Slots -> EnvSlots], \A s \in E!Slots : EnvCached(secretCache'[s])
  PROVE  EnvInv'
<1> USE DEF EnvInv
<1>1. EnvTyped'
  BY DEF EnvTyped, EnvOK, EnvConstants, EnvDeclared
<1>2. envRun'[r] = x /\ \A q \in Runs : q # r => envRun'[q] = envRun[q]
  BY DEF EnvTyped
<1>3. EnvAllRuns'
  <2> SUFFICES ASSUME NEW q \in Runs PROVE EnvOK(envRun'[q])
    BY DEF EnvAllRuns
  <2> QED
    BY <1>2 DEF EnvAllRuns
<1>4. EnvFlights'
  BY <1>2 DEF EnvFlights, EnvTyped
<1>5. EnvKept'
  BY <1>2 DEF EnvKept, EnvLooked
<1> QED
  BY <1>1, <1>3, <1>4, <1>5

LEMMA EnvInit == EnvConstants /\ E!Init => EnvInv
<1> SUFFICES ASSUME EnvConstants, E!Init PROVE EnvInv
  OBVIOUS
<1>1. E!Idle \in EnvRuns /\ EnvEntries(E!Idle) = {}
  BY DEF EnvRuns, E!Idle, EnvEntries, EnvAsks, E!NoAsk
<1>2. EnvOK(E!Idle)
  BY <1>1 DEF EnvOK, EnvPlaced, EnvValued, EnvCovered, EnvFired, EnvMissing, E!Idle
<1>3. EnvTyped
  BY <1>1 DEF E!Init, EnvTyped, EnvConstants, E!NoValue, E!NoFlight, E!Slots, EnvSlots
<1>5. EnvKept
  BY DEF E!Init, EnvKept, EnvLooked, EnvCached, E!NoValue, E!Idle
<1>4. EnvAllRuns /\ EnvFlights
  BY <1>2 DEF E!Init, EnvAllRuns, EnvFlights, E!NoFlight, E!Idle
<1> QED
  BY <1>3, <1>4, <1>5 DEF EnvInv

\* A provider that was asked is done with.
EnvWith(x, p, vals) ==
  [x EXCEPT !.pc = "lookup", !.env = @ \cup vals, !.todo = @ \ {p}, !.ask = E!NoAsk]
LEMMA EnvAdd ==
  ASSUME EnvConstants, NEW x, EnvOK(x), NEW p \in x.todo, x.pc \in {"lookup", "fetch", "provider"},
         x.pc # "lookup" => p = x.ask.of,
         NEW vals \in SUBSET EnvValues, EnvFrom(x, p, vals),
         \A e \in EnvOf(x, p) : EnvGiven(vals, e)
  PROVE  EnvOK(EnvWith(x, p, vals))
<1> DEFINE y == EnvWith(x, p, vals)
<1>1. x \in EnvRuns
  BY DEF EnvOK
<1>2. /\ y \in EnvRuns /\ y.pc = "lookup" /\ y.spec = x.spec /\ y.box = x.box /\ y.inline = x.inline /\ y.i = x.i
      /\ y.env = x.env \cup vals
      /\ y.pre = x.pre /\ y.todo = x.todo \ {p} /\ y.fired = x.fired
  BY <1>1 DEF EnvRuns, EnvWith, EnvAsks, E!NoAsk
<1>3. EnvEntries(y) = EnvEntries(x)
  BY <1>2 DEF EnvEntries
<1>4. \A e, f \in EnvEntries(x) : e.key = f.key => e = f
  BY <1>1, EnvKeys
<1> HIDE DEF y
<1>5. EnvPlaced(y)
  BY <1>2 DEF EnvPlaced, EnvOK, EnvMissing
<1>6. EnvValued(y)
  <2>1. \A v \in vals : \E e \in EnvEntries(x) : EnvAsked(x, e) /\ e.provider = p /\ v.name = e.key
    BY DEF EnvFrom, EnvOf, EnvAsked
  <2>2. \A v \in vals, w \in x.env : v.name # w.name
    BY <2>1 DEF EnvOK, EnvValued
  <2>3. ASSUME NEW v \in y.env, NEW w \in y.env, v.name = w.name PROVE v = w
    BY <2>2, <2>3, <1>2 DEF EnvOK, EnvValued, EnvFrom
  <2>4. ASSUME NEW v \in y.env PROVE EnvRight(v) /\ (v.src = "secret" => v.ver >= 1)
    BY <2>4, <1>2 DEF EnvOK, EnvValued, EnvFrom
  <2>5. ASSUME NEW e \in EnvEntries(y), EnvAsked(y, e), NEW v \in y.env PROVE v.name # e.key
    <3>1. e \in EnvEntries(x) /\ EnvAsked(x, e) /\ e.provider # p
      BY <2>5, <1>2, <1>3 DEF EnvAsked
    <3>2. CASE v \in x.env
      BY <3>1, <3>2 DEF EnvOK, EnvValued
    <3>3. CASE v \in vals
      BY <3>1, <3>3, <2>1, <1>4
    <3> QED
      BY <3>2, <3>3, <1>2
  <2> QED
    BY <2>3, <2>4, <2>5 DEF EnvValued
<1>7. EnvCovered(y)
  <2> SUFFICES ASSUME NEW e \in EnvEntries(x), ~EnvAsked(y, e) PROVE EnvGiven(y.env, e)
    BY <1>3 DEF EnvCovered
  <2>1. CASE EnvAsked(x, e)
    BY <2>1, <1>2 DEF EnvAsked, EnvOf, EnvGiven
  <2>2. CASE EnvGiven(x.env, e)
    BY <2>2, <1>2 DEF EnvGiven
  <2> QED
    BY <2>1, <2>2 DEF EnvOK, EnvCovered
<1>8. EnvFired(y)
  BY <1>2 DEF EnvFired, EnvOK, EnvMissing
<1> QED
  BY <1>2, <1>5, <1>6, <1>7, <1>8 DEF EnvOK, y


LEMMA EnvSame ==
  ASSUME NEW r \in Runs
  PROVE  E!Entries(r) = EnvEntries(envRun[r]) /\ \A p : E!EntriesOf(r, p) = EnvOf(envRun[r], p)
  BY DEF E!Entries, E!EntriesOf, EnvEntries, EnvOf

LEMMA EnvFail ==
  ASSUME NEW x, EnvOK(x)
  PROVE  EnvOK([x EXCEPT !.pc = "failed"])
  BY DEF EnvOK, EnvRuns, EnvPlaced, EnvMissing, EnvValued, EnvCovered, EnvFired, EnvEntries, EnvAsked

-----------------------------------------------------------------------------
(* The steps of the resolver *)

LEMMA EnvBegin == ASSUME EnvInv, NEW r \in Runs, E!Begin(r) PROVE EnvInv'
<1>1. PICK s \in Specs, box \in BOOLEAN :
        envRun' = [envRun EXCEPT ![r] = [E!Idle EXCEPT !.pc = "secrets", !.spec = s, !.box = box]]
  BY DEF E!Begin, E!To
<1> DEFINE x == [E!Idle EXCEPT !.pc = "secrets", !.spec = s, !.box = box]
<1>2. /\ x \in EnvRuns /\ x.pc = "secrets" /\ x.env = {} /\ x.fired = {} /\ x.todo = {} /\ ~x.pre /\ ~x.inline
  <2>1. E!Idle \in EnvRuns /\ E!Idle.env = {} /\ E!Idle.fired = {} /\ E!Idle.todo = {} /\ ~E!Idle.pre /\ ~E!Idle.inline
    BY DEF E!Idle, EnvRuns, EnvAsks, E!NoAsk
  <2> QED
    BY <2>1 DEF EnvRuns
<1> HIDE DEF x
<1>3. EnvOK(x)
  BY <1>2 DEF EnvOK, EnvPlaced, EnvMissing, EnvValued, EnvCovered, EnvFired, EnvAsked
<1>4. envRun' = [envRun EXCEPT ![r] = x]
  BY <1>1 DEF x
<1> QED
  BY <1>2, <1>3, <1>4, EnvStep DEF E!Begin, EnvInv, EnvTyped, EnvKept, EnvLooked

LEMMA EnvUntyped ==
  ASSUME EnvInv, NEW r \in Runs, envRun[r].pc = "secrets"
  PROVE  EnvOK(E!Untyped(r)) /\ E!Untyped(r).pc \notin {"await", "provider"}
<1> DEFINE x == envRun[r]
<1>1. EnvOK(x) /\ x \in EnvRuns
  BY DEF EnvInv, EnvAllRuns, EnvOK
<1>2. CASE x.inline
  <2>1. E!Untyped(r) = [x EXCEPT !.pc = "failed"]
    BY <1>2 DEF E!Untyped, E!Fail
  <2>2. [x EXCEPT !.pc = "failed"].pc = "failed"
    BY <1>1 DEF EnvRuns
  <2> QED
    BY <2>1, <2>2, <1>1, EnvFail
<1>3. CASE ~x.inline
  <2>1. E!Untyped(r) = [x EXCEPT !.pc = "missing"]
    BY <1>3 DEF E!Untyped
  <2>2. EnvOK([x EXCEPT !.pc = "missing"])
    BY <1>1, <1>3 DEF EnvOK, EnvRuns, EnvPlaced, EnvMissing, EnvValued, EnvCovered, EnvFired, EnvEntries,
      EnvAsked
  <2>3. [x EXCEPT !.pc = "missing"].pc = "missing"
    BY <1>1 DEF EnvRuns
  <2> QED
    BY <2>1, <2>2, <2>3
<1> QED
  BY <1>2, <1>3

LEMMA EnvFound ==
  ASSUME EnvInv, NEW e \in EnvDeclared
  PROVE  /\ E!Found(e) \subseteq EnvValues
         /\ \A v \in E!Found(e) : v.name = e.key /\ EnvRight(v) /\ (v.src = "secret" => v.ver >= 1)
         /\ \A v, w \in E!Found(e) : v = w
         /\ E!Found(e) # {} /\ e.kind # "task" => EnvGiven(E!Found(e), e)
<1>1. secretStore[e.key] \in Nat /\ e.key \in Keys
  BY DEF EnvInv, EnvTyped, EnvConstants, EnvDeclared
<1>2. CASE e.kind = "value"
  <2>1. E!Found(e) = {E!Named(e, "value", 0)}
    BY <1>2 DEF E!Found
  <2> QED
    BY <1>1, <1>2, <2>1 DEF E!Named, EnvValues, EnvRight, EnvGiven, E!Required
<1>3. CASE e.kind # "value" /\ secretStore[e.key] # 0
  <2>1. E!Found(e) = {E!Named(e, "secret", secretStore[e.key])}
    BY <1>3 DEF E!Found
  <2> QED
    BY <1>1, <1>3, <2>1 DEF E!Named, EnvValues, EnvRight, EnvGiven, E!Required
<1>4. CASE e.kind # "value" /\ secretStore[e.key] = 0
  <2>1. \/ E!Found(e) = {E!Named(e, "default", 0)} /\ e.default
        \/ E!Found(e) = {E!Named(e, "empty", 0)} /\ e.optional
        \/ E!Found(e) = {}
    BY <1>4 DEF E!Found
  <2>2. E!Named(e, "default", 0) \in EnvValues /\ E!Named(e, "empty", 0) \in EnvValues
    BY <1>1 DEF E!Named, EnvValues
  <2>3. /\ EnvRight(E!Named(e, "default", 0)) /\ E!Named(e, "default", 0).name = e.key
        /\ E!Named(e, "default", 0).src = "default"
        /\ EnvRight(E!Named(e, "empty", 0)) /\ E!Named(e, "empty", 0).name = e.key
        /\ E!Named(e, "empty", 0).src = "empty"
    BY DEF E!Named, EnvRight
  <2>4. CASE E!Found(e) = {E!Named(e, "default", 0)} /\ e.default
    BY <2>2, <2>3, <2>4 DEF EnvGiven, E!Required
  <2>5. CASE E!Found(e) = {E!Named(e, "empty", 0)} /\ e.optional
    BY <2>2, <2>3, <2>5 DEF EnvGiven, E!Required
  <2>6. CASE E!Found(e) = {}
    BY <2>6
  <2> QED
    BY <2>1, <2>4, <2>5, <2>6
<1> QED
  BY <1>2, <1>3, <1>4

LEMMA EnvResolveSecrets == ASSUME EnvInv, NEW r \in Runs, E!ResolveSecrets(r) PROVE EnvInv'
<1> DEFINE x == envRun[r]
           vals == UNION {E!Found(e) : e \in E!Plain(r)}
           ps == {e.provider : e \in {d \in EnvEntries(x) : d.kind = "task"}}
           y == [x EXCEPT !.pc = "lookup", !.env = vals, !.todo = ps]
<1>1. EnvOK(x) /\ x \in EnvRuns /\ x.pc = "secrets" /\ EnvConstants
  BY DEF EnvInv, EnvAllRuns, EnvOK, EnvTyped, E!ResolveSecrets
<1>2. E!Plain(r) = {e \in EnvEntries(x) : e.kind # "task"}
  BY EnvSame DEF E!Plain
<1>3. EnvEntries(x) \subseteq EnvDeclared /\ \A e, f \in EnvEntries(x) : e.key = f.key => e = f
  BY <1>1, EnvKeys
<1>4. CASE envRun' = [envRun EXCEPT ![r] = E!Untyped(r)]
  BY <1>1, <1>4, EnvUntyped, EnvStep DEF E!ResolveSecrets, EnvInv, EnvTyped, EnvKept, EnvLooked
<1>5. CASE envRun' = [envRun EXCEPT ![r] = y] /\ \A e \in E!Plain(r) : E!Found(e) # {}
  <2>1. /\ vals \subseteq EnvValues
        /\ \A v \in vals : \E e \in E!Plain(r) : v \in E!Found(e) /\ v.name = e.key /\ EnvRight(v) /\ (v.src = "secret" => v.ver >= 1)
    BY <1>2, <1>3, EnvFound
  <2>2. /\ y \in EnvRuns /\ y.pc = "lookup" /\ y.spec = x.spec /\ y.inline = x.inline /\ y.fired = x.fired
        /\ y.env = vals /\ y.pre = x.pre
        /\ y.todo = {e.provider : e \in {d \in EnvEntries(x) : d.kind = "task"}}
    <3>1. vals \subseteq EnvValues
      BY <2>1
    <3>2. ps \subseteq Providers
      BY <1>3 DEF EnvDeclared
    <3> HIDE DEF ps, vals
    <3>3. /\ y \in EnvRuns /\ y.pc = "lookup" /\ y.spec = x.spec /\ y.inline = x.inline /\ y.fired = x.fired
          /\ y.env = vals /\ y.pre = x.pre /\ y.todo = ps
      BY <1>1, <3>1, <3>2 DEF EnvRuns
    <3> QED
      BY <3>3 DEF ps
  <2>3. EnvEntries(y) = EnvEntries(x)
    BY <2>2 DEF EnvEntries
  <2>4. \A e \in E!Plain(r) : EnvGiven(vals, e)
    <3> SUFFICES ASSUME NEW e \in E!Plain(r) PROVE EnvGiven(vals, e)
      OBVIOUS
    <3>1. EnvGiven(E!Found(e), e)
      BY <1>2, <1>3, <1>5, EnvFound
    <3> QED
      BY <3>1 DEF EnvGiven
  <2> HIDE DEF y, vals
  <2>5. EnvPlaced(y)
    BY <1>1, <2>2 DEF EnvOK, EnvPlaced, EnvMissing
  <2>6. EnvValued(y)
    <3>1. ASSUME NEW v \in vals, NEW w \in vals, v.name = w.name PROVE v = w
      <4>1. PICK e \in E!Plain(r) : v \in E!Found(e) /\ v.name = e.key
        BY <2>1
      <4>2. PICK f \in E!Plain(r) : w \in E!Found(f) /\ w.name = f.key
        BY <2>1
      <4>3. e = f /\ e \in EnvDeclared
        BY <3>1, <4>1, <4>2, <1>2, <1>3
      <4> QED
        BY <4>1, <4>2, <4>3, EnvFound
    <3>2. ASSUME NEW e \in EnvEntries(y), EnvAsked(y, e), NEW v \in vals PROVE v.name # e.key
      <4>1. PICK f \in E!Plain(r) : v.name = f.key
        BY <2>1
      <4> QED
        BY <3>2, <4>1, <1>2, <1>3, <2>3 DEF EnvAsked
    <3> QED
      BY <2>1, <2>2, <3>1, <3>2 DEF EnvValued
  <2>7. EnvCovered(y)
    BY <1>2, <2>2, <2>3, <2>4 DEF EnvCovered, EnvAsked
  <2>8. EnvFired(y)
    BY <1>1, <2>2 DEF EnvOK, EnvFired, EnvMissing
  <2>9. EnvOK(y)
    BY <2>2, <2>5, <2>6, <2>7, <2>8 DEF EnvOK
  <2> QED
    BY <1>1, <1>5, <2>2, <2>9, EnvStep DEF E!ResolveSecrets, EnvInv, EnvTyped, EnvKept, EnvLooked
<1> QED
  BY <1>4, <1>5, EnvSame DEF E!ResolveSecrets, E!To

\* What was cached of a provider, what it gave now, and nothing for what is optional.
EnvGot(r, p, got) == {E!Provided(e, envRun[r].ask.by, envRun[r].ask.hash, envRun[r].ask.moved) : e \in got}
LEMMA EnvTaken ==
  ASSUME EnvInv, NEW r \in Runs, NEW p \in envRun[r].todo, envRun[r].pc \in {"lookup", "fetch", "provider"},
         envRun[r].pc # "lookup" => p = envRun[r].ask.of,
         NEW had \in SUBSET EnvValues, EnvFrom(envRun[r], p, had), \A v \in had : v.src = "secret",
         NEW got \in SUBSET E!Left(r, p, had), got # {} => envRun[r].pc = "fetch",
         \A e \in E!Left(r, p, had) \ got : e.optional
  PROVE  LET y == E!Taken(r, p, had \cup EnvGot(r, p, got) \cup E!Blank(E!Left(r, p, had) \ got))
         IN EnvOK(y) /\ y.pc = "lookup"
<1> DEFINE x == envRun[r]
           a == x.ask
           lacks == E!Left(r, p, had)
           blank == E!Blank(lacks \ got)
           given == EnvGot(r, p, got)
           vals == had \cup given \cup blank
<1>1. EnvOK(x) /\ x \in EnvRuns /\ EnvConstants /\ a \in EnvAsks
  BY DEF EnvInv, EnvAllRuns, EnvOK, EnvTyped, EnvRuns
<1>2. EnvEntries(x) \subseteq EnvDeclared /\ (\A e, f \in EnvEntries(x) : e.key = f.key => e = f)
      /\ EnvOf(x, p) \subseteq EnvEntries(x)
  BY <1>1, EnvKeys DEF EnvOf
<1>3. lacks = {e \in EnvOf(x, p) : e.key \notin {v.name : v \in had}}
  BY EnvSame DEF E!Left
<1>4. \A v \in blank : \E e \in lacks \ got : v = [name |-> e.key, src |-> "empty", ver |-> 0, hash |-> 0, moved |-> FALSE]
  BY DEF E!Blank, E!Named
<1>5. \A e \in lacks \ got : [name |-> e.key, src |-> "empty", ver |-> 0, hash |-> 0, moved |-> FALSE] \in blank
  BY DEF E!Blank, E!Named
<1>6. \A v \in given : \E e \in got : v = [name |-> e.key, src |-> "secret", ver |-> a.by, hash |-> a.hash, moved |-> a.moved]
  BY DEF EnvGot, E!Provided
<1>7. \A e \in got : [name |-> e.key, src |-> "secret", ver |-> a.by, hash |-> a.hash, moved |-> a.moved] \in given
  BY DEF EnvGot, E!Provided
<1>8. got # {} => a.by >= 1 /\ (~a.moved => a.by = a.hash)
  BY <1>1 DEF EnvOK, EnvFired
<1> HIDE DEF blank, given, lacks
<1>9. vals \in SUBSET EnvValues
  <2>1. \A e \in lacks : e.key \in Keys
    BY <1>2, <1>3 DEF EnvDeclared
  <2> QED
    <3>1. got \subseteq lacks /\ a.by \in Nat /\ a.hash \in Nat /\ a.moved \in BOOLEAN
      BY <1>1 DEF EnvAsks, lacks
    <3>2. given \subseteq EnvValues
      BY <1>6, <2>1, <3>1 DEF EnvValues
    <3>3. ASSUME NEW v \in blank PROVE v \in EnvValues
      <4>1. PICK e \in lacks \ got : v = [name |-> e.key, src |-> "empty", ver |-> 0, hash |-> 0, moved |-> FALSE]
        BY <1>4
      <4> QED
        BY <2>1, <4>1 DEF EnvValues
    <3> QED
      BY <3>2, <3>3
<1>10. EnvFrom(x, p, vals)
  <2>1. \A v \in given : v.src = "secret" /\ v.ver >= 1 /\ EnvRight(v) /\ \E e \in got : v.name = e.key
    BY <1>6, <1>8 DEF EnvRight
  <2>2. \A v \in blank : v.src = "empty" /\ EnvRight(v) /\ \E e \in lacks \ got : v.name = e.key
    BY <1>4 DEF EnvRight
  <2>3. \A e \in lacks, f \in lacks : e.key = f.key => e = f
    BY <1>2, <1>3
  <2>a. got \subseteq lacks
    BY DEF lacks
  <2>4. ASSUME NEW v \in given \cup blank PROVE \E e \in lacks : v.name = e.key
    BY <2>1, <2>2, <2>a
  <2>5. ASSUME NEW v \in given, NEW w \in given, v.name = w.name PROVE v = w
    BY <2>5, <1>6, <2>3, <2>a
  <2>6. ASSUME NEW v \in blank, NEW w \in blank, v.name = w.name PROVE v = w
    <3>1. PICK e \in lacks \ got : v = [name |-> e.key, src |-> "empty", ver |-> 0, hash |-> 0, moved |-> FALSE]
      BY <1>4
    <3>2. PICK f \in lacks \ got : w = [name |-> f.key, src |-> "empty", ver |-> 0, hash |-> 0, moved |-> FALSE]
      BY <1>4
    <3> QED
      BY <2>6, <3>1, <3>2
  <2>7. ASSUME NEW v \in given, NEW w \in blank PROVE v.name # w.name
    BY <2>1, <2>2, <2>3, <2>a
  <2>8. ASSUME NEW v \in given \cup blank, NEW w \in had PROVE v.name # w.name
    BY <1>3, <2>4
  <2> QED
    BY <1>3, <2>1, <2>2, <2>4, <2>5, <2>6, <2>7, <2>8 DEF EnvFrom
<1>11. ASSUME NEW e \in EnvOf(x, p) PROVE EnvGiven(vals, e)
  <2>1. CASE e \in got
    <3>1. [name |-> e.key, src |-> "secret", ver |-> a.by, hash |-> a.hash, moved |-> a.moved] \in vals
      BY <2>1, <1>7
    <3> QED
      BY <3>1 DEF EnvGiven
  <2>2. CASE e \in lacks \ got
    <3>1. [name |-> e.key, src |-> "empty", ver |-> 0, hash |-> 0, moved |-> FALSE] \in vals /\ ~E!Required(e)
      BY <2>2, <1>5 DEF E!Required, lacks
    <3> QED
      BY <3>1 DEF EnvGiven
  <2>3. CASE e \notin lacks
    BY <2>3, <1>3 DEF EnvGiven
  <2> QED
    BY <2>1, <2>2, <2>3
<1> HIDE DEF vals
<1>12. EnvOK(EnvWith(x, p, vals))
  BY <1>1, <1>9, <1>10, <1>11, EnvAdd
<1>13. E!Taken(r, p, vals) = EnvWith(x, p, vals) /\ EnvWith(x, p, vals).pc = "lookup"
  BY <1>1 DEF E!Taken, EnvWith, EnvRuns
<1> QED
  BY <1>12, <1>13 DEF vals, lacks, given, blank

LEMMA EnvDegrade ==
  ASSUME EnvInv, NEW r \in Runs, NEW p \in envRun[r].todo, envRun[r].pc \in {"lookup", "fetch", "provider"},
         envRun[r].pc # "lookup" => p = envRun[r].ask.of,
         NEW had \in SUBSET EnvValues, EnvFrom(envRun[r], p, had), \A v \in had : v.src = "secret"
  PROVE  EnvOK(E!Degrade(r, p, had)) /\ E!Degrade(r, p, had).pc \notin {"await", "provider"}
<1> DEFINE x == envRun[r]
           lacks == E!Left(r, p, had)
<1>1. EnvOK(x) /\ x \in EnvRuns /\ EnvConstants
  BY DEF EnvInv, EnvAllRuns, EnvOK, EnvTyped
<1>2. lacks = {e \in EnvOf(x, p) : e.key \notin {v.name : v \in had}}
  BY EnvSame DEF E!Left
<1>3. CASE \A e \in lacks : e.optional
  <2> DEFINE vals == had \cup EnvGot(r, p, {}) \cup E!Blank(lacks \ {})
  <2>1. vals = had \cup E!Blank(lacks)
    <3>1. EnvGot(r, p, {}) = {} /\ lacks \ {} = lacks
      BY DEF EnvGot
    <3> QED
      BY <3>1
  <2>2. E!Degrade(r, p, had) = E!Taken(r, p, vals)
    BY <1>3, <2>1 DEF E!Degrade
  <2>3. {} \in SUBSET E!Left(r, p, had) /\ \A e \in E!Left(r, p, had) \ {} : e.optional
    BY <1>3
  <2>4. EnvOK(E!Taken(r, p, vals)) /\ E!Taken(r, p, vals).pc = "lookup"
    BY <2>3, EnvTaken
  <2> QED
    BY <2>2, <2>4
<1>4. CASE ~ \A e \in lacks : e.optional
  <2>1. E!Degrade(r, p, had) = [x EXCEPT !.pc = "failed"]
    BY <1>4 DEF E!Degrade, E!Fail
  <2>2. [x EXCEPT !.pc = "failed"].pc = "failed"
    BY <1>1 DEF EnvRuns
  <2> QED
    BY <1>1, <2>1, <2>2, EnvFail
<1> QED
  BY <1>3, <1>4

LEMMA EnvResolveProvider == ASSUME EnvInv, NEW r \in Runs, E!ResolveProvider(r) PROVE EnvInv'
<1> DEFINE x == envRun[r]
           Hits(p, some) == {E!Provided(e, secretCache[<<p, e.key>>].ver, provider[p], secretCache[<<p, e.key>>].moved) : e \in some}
           Ask(p, some) == [E!NoAsk EXCEPT !.of = p, !.hash = provider[p], !.at = envNow, !.cached = Hits(p, some)]
<1>1. EnvOK(x) /\ x \in EnvRuns /\ x.pc = "lookup" /\ EnvConstants
  BY DEF EnvInv, EnvAllRuns, EnvOK, EnvTyped, E!ResolveProvider
<1>2. PICK p \in x.todo :
        \/ envRun' = [envRun EXCEPT ![r] = E!Degrade(r, p, {})] /\ UNCHANGED secretCache
        \/ /\ provider[p] # 0 /\ secretCache' \in {E!Busted(p), secretCache}
           /\ \E some \in SUBSET {e \in EnvOf(x, p) : E!Hit(p, e.key, provider[p])} :
                envRun' = [envRun EXCEPT ![r] =
                  IF some = EnvOf(x, p) THEN E!Taken(r, p, Hits(p, some))
                  ELSE [x EXCEPT !.pc = "provider", !.fired = @ \cup {<<p, x.inline>>}, !.ask = Ask(p, some)]]
  <2>1. PICK p \in x.todo :
          LET h == provider[p]
              stale == E!Stale(p, {e.key : e \in EnvOf(x, p)}, h)
              found == {e \in EnvOf(x, p) : E!Hit(p, e.key, h)}
          IN IF h = 0 THEN envRun' = [envRun EXCEPT ![r] = E!Degrade(r, p, {})] /\ UNCHANGED secretCache
             ELSE /\ secretCache' = IF stale THEN E!Busted(p) ELSE secretCache
                  /\ \E some \in SUBSET found :
                       /\ some = found \/ stale
                       /\ envRun' = [envRun EXCEPT ![r] =
                            IF some = EnvOf(x, p) THEN E!Taken(r, p, Hits(p, some))
                            ELSE [x EXCEPT !.pc = "provider", !.fired = @ \cup {<<p, x.inline>>}, !.ask = Ask(p, some)]]
    <3>1. PICK p \in x.todo :
            LET h == provider[p]
                stale == E!Stale(p, {e.key : e \in E!EntriesOf(r, p)}, h)
                found == {e \in E!EntriesOf(r, p) : E!Hit(p, e.key, h)}
            IN IF h = 0 THEN E!To(r, E!Degrade(r, p, {})) /\ UNCHANGED secretCache
               ELSE /\ secretCache' = IF stale THEN E!Busted(p) ELSE secretCache
                    /\ \E some \in SUBSET found :
                         LET hits == Hits(p, some)
                         IN /\ some = found \/ stale
                            /\ E!To(r, IF some = E!EntriesOf(r, p) THEN E!Taken(r, p, hits)
                                      ELSE [x EXCEPT !.pc = "provider", !.fired = @ \cup {<<p, x.inline>>}, !.ask = Ask(p, some)])
      BY DEF E!ResolveProvider
    <3>2. E!EntriesOf(r, p) = EnvOf(x, p)
      BY EnvSame
    <3> HIDE DEF Hits, Ask
    <3> QED
      BY <3>1, <3>2 DEF E!To
  <2> HIDE DEF Hits, Ask
  <2>2. CASE provider[p] = 0
    BY <2>1, <2>2
  <2>3. CASE provider[p] # 0
    BY <2>1, <2>3
  <2> QED
    BY <2>2, <2>3
<1>3. p \in Providers /\ provider[p] \in Nat /\ envNow \in Nat
  BY <1>1 DEF EnvRuns, EnvInv, EnvTyped, EnvConstants
<1>4. EnvEntries(x) \subseteq EnvDeclared /\ (\A e, f \in EnvEntries(x) : e.key = f.key => e = f)
      /\ EnvOf(x, p) \subseteq EnvEntries(x)
  BY <1>1, EnvKeys DEF EnvOf
<1>5. \A e \in EnvOf(x, p) : e.key \in Keys /\ secretCache[<<p, e.key>>] \in EnvSlots /\ EnvCached(secretCache[<<p, e.key>>])
  BY <1>3, <1>4 DEF EnvDeclared, EnvInv, EnvTyped, EnvKept, E!Slots
<1>6. secretCache' \in [E!Slots -> EnvSlots] /\ \A s \in E!Slots : EnvCached(secretCache'[s])
  <2>1. E!NoValue \in EnvSlots /\ EnvCached(E!NoValue)
    BY DEF E!NoValue, EnvSlots, EnvCached
  <2>2. secretCache \in [E!Slots -> EnvSlots] /\ \A s \in E!Slots : EnvCached(secretCache[s])
    BY DEF EnvInv, EnvTyped, EnvKept
  <2> QED
    BY <1>2, <2>1, <2>2 DEF E!Busted
<1>7. UNCHANGED flight /\ UNCHANGED <<secretStore, provider, envNow>>
  BY DEF E!ResolveProvider
<1>8. CASE envRun' = [envRun EXCEPT ![r] = E!Degrade(r, p, {})]
  <2>1. EnvFrom(x, p, {}) /\ {} \in SUBSET EnvValues
    BY DEF EnvFrom
  <2>2. EnvOK(E!Degrade(r, p, {})) /\ E!Degrade(r, p, {}).pc \notin {"await", "provider"}
    BY <1>1, <2>1, EnvDegrade
  <2> QED
    BY <1>1, <1>6, <1>7, <1>8, <2>2, EnvStep DEF EnvLooked
<1>9. ASSUME NEW some \in SUBSET {e \in EnvOf(x, p) : E!Hit(p, e.key, provider[p])}, provider[p] # 0,
             envRun' = [envRun EXCEPT ![r] =
               IF some = EnvOf(x, p) THEN E!Taken(r, p, Hits(p, some))
               ELSE [x EXCEPT !.pc = "provider", !.fired = @ \cup {<<p, x.inline>>}, !.ask = Ask(p, some)]]
      PROVE  EnvInv'
  <2> DEFINE hits == Hits(p, some)
             Of(e) == [name |-> e.key, src |-> "secret", ver |-> secretCache[<<p, e.key>>].ver, hash |-> provider[p],
                       moved |-> secretCache[<<p, e.key>>].moved]
  <2>1. \A e \in some : Of(e) \in EnvValues /\ Of(e).ver >= 1 /\ EnvRight(Of(e)) /\ e \in EnvOf(x, p)
    BY <1>3, <1>5 DEF E!Hit, EnvValues, EnvRight, EnvCached, EnvSlots
  <2>2. (\A v \in hits : \E e \in some : v = Of(e)) /\ \A e \in some : Of(e) \in hits
    BY DEF E!Provided
  <2>a. \A e \in some : Of(e).name = e.key /\ Of(e).src = "secret"
    OBVIOUS
  <2> HIDE DEF Of, Hits
  <2>3. hits \in SUBSET EnvValues /\ EnvFrom(x, p, hits) /\ \A v \in hits : v.src = "secret"
    <3>1. \A v \in hits : v \in EnvValues /\ v.ver >= 1 /\ v.src = "secret" /\ EnvRight(v) /\ \E e \in EnvOf(x, p) : v.name = e.key
      BY <2>1, <2>2, <2>a
    <3>2. ASSUME NEW v \in hits, NEW w \in hits, v.name = w.name PROVE v = w
      BY <3>2, <1>4, <2>1, <2>2, <2>a
    <3> QED
      BY <3>1, <3>2 DEF EnvFrom
  <2>4. CASE some = EnvOf(x, p)
    <3>1. \A e \in EnvOf(x, p) : EnvGiven(hits, e)
      BY <2>2, <2>a, <2>4 DEF EnvGiven
    <3>2. EnvOK(EnvWith(x, p, hits))
      BY <1>1, <2>3, <3>1, EnvAdd
    <3>3. E!Taken(r, p, hits) = EnvWith(x, p, hits) /\ EnvWith(x, p, hits).pc = "lookup"
      BY <1>1 DEF E!Taken, EnvWith, EnvRuns
    <3>4. envRun' = [envRun EXCEPT ![r] = EnvWith(x, p, hits)]
      BY <1>9, <2>4, <3>3, Zenon
    <3> QED
      BY <1>1, <1>6, <1>7, <3>2, <3>3, <3>4, EnvStep DEF EnvLooked
  <2>5. CASE some # EnvOf(x, p)
    <3> DEFINE a == Ask(p, some)
               y == [x EXCEPT !.pc = "provider", !.fired = @ \cup {<<p, x.inline>>}, !.ask = a]
    <3>1. a \in EnvAsks /\ a.of = p /\ a.cached = hits /\ a.hash = provider[p] /\ ~a.moved
      BY <1>3, <2>3 DEF E!NoAsk, EnvAsks
    <3> HIDE DEF Ask
    <3>2. /\ y \in EnvRuns /\ y.pc = "provider" /\ y.spec = x.spec /\ y.inline = x.inline /\ y.env = x.env
          /\ y.pre = x.pre /\ y.todo = x.todo /\ y.ask = a /\ y.fired = x.fired \cup {<<p, x.inline>>}
      <4>1. <<p, x.inline>> \in Providers \X BOOLEAN
        BY <1>1, <1>3 DEF EnvRuns
      <4> QED
        BY <1>1, <1>3, <3>1, <4>1 DEF EnvRuns
    <3> HIDE DEF y, a
    <3>3. EnvEntries(y) = EnvEntries(x) /\ EnvOf(y, p) = EnvOf(x, p)
      BY <3>2 DEF EnvEntries, EnvOf
    <3>4. EnvPlaced(y) /\ EnvValued(y) /\ EnvCovered(y)
      BY <1>1, <3>2, <3>3 DEF EnvOK, EnvPlaced, EnvMissing, EnvValued, EnvCovered, EnvAsked
    <3>5. EnvFrom(y, p, hits)
      BY <2>3, <3>3 DEF EnvFrom
    <3>6. \A f \in y.fired : f[1] \in y.todo => f[1] = p
      BY <1>1, <3>2 DEF EnvOK, EnvFired
    <3>7. EnvFired(y)
      BY <1>1, <2>3, <3>1, <3>2, <3>5, <3>6 DEF EnvOK, EnvFired, EnvMissing
    <3>8. EnvOK(y) /\ EnvLooked(y)
      BY <3>1, <3>2, <3>4, <3>7 DEF EnvOK, EnvLooked
    <3>9. envRun' = [envRun EXCEPT ![r] = y]
      BY <1>9, <2>5 DEF y, a
    <3> QED
      BY <1>1, <1>6, <1>7, <3>2, <3>8, <3>9, EnvStep
  <2> QED
    BY <2>4, <2>5
<1> QED
  BY <1>2, <1>8, <1>9

LEMMA EnvAsking ==
  ASSUME EnvInv, NEW r \in Runs, envRun[r].pc \in {"provider", "fetch"}
  PROVE  LET x == envRun[r]
         IN /\ EnvOK(x) /\ x \in EnvRuns /\ EnvConstants /\ x.ask \in EnvAsks /\ x.ask.of \in x.todo /\ x.ask.of \in Providers
            /\ EnvFrom(x, x.ask.of, x.ask.cached) /\ (\A v \in x.ask.cached : v.src = "secret")
            /\ x.ask.cached \in SUBSET EnvValues
            /\ secretCache \in [E!Slots -> EnvSlots] /\ \A s \in E!Slots : EnvCached(secretCache[s])
<1>1. EnvOK(envRun[r]) /\ envRun[r] \in EnvRuns /\ EnvConstants
  BY DEF EnvInv, EnvAllRuns, EnvOK, EnvTyped
<1>2. envRun[r].ask \in EnvAsks /\ envRun[r].ask.of \in envRun[r].todo /\ envRun[r].todo \subseteq Providers
  BY <1>1 DEF EnvRuns, EnvOK, EnvFired
<1> QED
  BY <1>1, <1>2 DEF EnvOK, EnvFired, EnvAsks, EnvInv, EnvTyped, EnvKept

LEMMA EnvProviderStarts == ASSUME EnvInv, NEW r \in Runs, E!ProviderStarts(r) PROVE EnvInv'
<1> DEFINE x == envRun[r]
           p == x.ask.of
           y == [x EXCEPT !.pc = "fetch", !.ask.by = provider[p]]
<1>0. x.pc = "provider"
  BY DEF E!ProviderStarts
<1>1. /\ EnvOK(x) /\ x \in EnvRuns /\ x.ask \in EnvAsks /\ p \in x.todo /\ p \in Providers
      /\ EnvFrom(x, p, x.ask.cached) /\ (\A v \in x.ask.cached : v.src = "secret") /\ x.ask.cached \in SUBSET EnvValues
      /\ secretCache \in [E!Slots -> EnvSlots] /\ \A s \in E!Slots : EnvCached(secretCache[s])
  BY <1>0, EnvAsking
<1>2. UNCHANGED <<secretStore, provider, secretCache, flight, envNow>>
  BY DEF E!ProviderStarts
<1>3. CASE provider[p] = 0
  <2>1. envRun' = [envRun EXCEPT ![r] = E!Degrade(r, p, x.ask.cached)]
    BY <1>3 DEF E!ProviderStarts, E!To
  <2>2. EnvOK(E!Degrade(r, p, x.ask.cached)) /\ E!Degrade(r, p, x.ask.cached).pc \notin {"await", "provider"}
    BY <1>0, <1>1, EnvDegrade
  <2> QED
    BY <1>0, <1>1, <1>2, <2>1, <2>2, EnvStep DEF EnvLooked
<1>4. CASE provider[p] # 0
  <2>1. provider[p] \in Nat /\ (~x.ask.moved => provider[p] = x.ask.hash)
    BY <1>0, <1>1 DEF EnvInv, EnvTyped, EnvKept, EnvLooked
  <2>2. /\ y \in EnvRuns /\ y.pc = "fetch" /\ y.spec = x.spec /\ y.box = x.box /\ y.inline = x.inline /\ y.i = x.i
        /\ y.env = x.env /\ y.pre = x.pre /\ y.todo = x.todo /\ y.fired = x.fired /\ y.ask.of = p
        /\ y.ask.cached = x.ask.cached /\ y.ask.moved = x.ask.moved /\ y.ask.by = provider[p] /\ y.ask.hash = x.ask.hash
    <3>1. [x.ask EXCEPT !.by = provider[p]] \in EnvAsks
      BY <1>1, <2>1 DEF EnvAsks
    <3> QED
      BY <1>1, <3>1 DEF EnvRuns, EnvAsks
  <2>3. envRun' = [envRun EXCEPT ![r] = y]
    BY <1>4 DEF E!ProviderStarts, E!To
  <2> HIDE DEF y
  <2>4. EnvEntries(y) = EnvEntries(x) /\ EnvOf(y, p) = EnvOf(x, p)
    BY <2>2 DEF EnvEntries, EnvOf
  <2>5. EnvPlaced(y) /\ EnvValued(y) /\ EnvCovered(y)
    BY <1>0, <1>1, <2>2, <2>4 DEF EnvOK, EnvPlaced, EnvMissing, EnvValued, EnvCovered, EnvAsked
  <2>6. EnvFrom(y, p, x.ask.cached)
    BY <1>1, <2>4 DEF EnvFrom
  <2>7. EnvFired(y)
    BY <1>0, <1>1, <1>4, <2>1, <2>2, <2>6 DEF EnvOK, EnvFired, EnvMissing
  <2> QED
    BY <1>0, <1>1, <1>2, <2>2, <2>3, <2>5, <2>7, EnvStep DEF EnvOK, EnvLooked
<1> QED
  BY <1>3, <1>4

LEMMA EnvProviderEnds == ASSUME EnvInv, NEW r \in Runs, E!ProviderEnds(r) PROVE EnvInv'
<1> DEFINE x == envRun[r]
           a == x.ask
           p == a.of
           miss == E!Left(r, p, a.cached)
           new == [ver |-> a.by, hash |-> a.hash, moved |-> a.moved, exp |-> a.at + CacheTTL]
<1>0. x.pc = "fetch"
  BY DEF E!ProviderEnds
<1>1. /\ EnvOK(x) /\ x \in EnvRuns /\ EnvConstants /\ a \in EnvAsks /\ p \in x.todo /\ p \in Providers
      /\ EnvFrom(x, p, a.cached) /\ (\A v \in a.cached : v.src = "secret") /\ a.cached \in SUBSET EnvValues
      /\ secretCache \in [E!Slots -> EnvSlots] /\ \A s \in E!Slots : EnvCached(secretCache[s])
  BY <1>0, EnvAsking
<1>2. UNCHANGED <<secretStore, provider, flight, envNow>>
  BY DEF E!ProviderEnds
<1>3. CASE envRun' = [envRun EXCEPT ![r] = E!Degrade(r, p, a.cached)] /\ UNCHANGED secretCache
  <2>1. EnvOK(E!Degrade(r, p, a.cached)) /\ E!Degrade(r, p, a.cached).pc \notin {"await", "provider"}
    BY <1>0, <1>1, EnvDegrade
  <2> QED
    BY <1>0, <1>1, <1>2, <1>3, <2>1, EnvStep DEF EnvLooked
<1>4. ASSUME NEW got \in SUBSET miss,
             secretCache' = [s \in E!Slots |-> IF s[1] = p /\ s[2] \in {e.key : e \in got} THEN new ELSE secretCache[s]],
             envRun' = [envRun EXCEPT ![r] =
               IF \A e \in miss \ got : e.optional
                 THEN E!Taken(r, p, a.cached \cup E!Blank(miss \ got)
                                     \cup {E!Provided(e, a.by, a.hash, a.moved) : e \in got})
                 ELSE E!Fail(r)]
      PROVE  EnvInv'
  <2>1. new \in EnvSlots /\ EnvCached(new)
    BY <1>0, <1>1 DEF EnvSlots, EnvAsks, EnvCached, EnvOK, EnvFired, EnvConstants
  <2>2. secretCache' \in [E!Slots -> EnvSlots] /\ \A s \in E!Slots : EnvCached(secretCache'[s])
    BY <1>1, <1>4, <2>1
  <2>3. CASE \A e \in miss \ got : e.optional
    <3> DEFINE y == E!Taken(r, p, a.cached \cup EnvGot(r, p, got) \cup E!Blank(miss \ got))
    <3>1. EnvOK(y) /\ y.pc = "lookup"
      BY <1>0, <1>1, <2>3, EnvTaken
    <3>2. a.cached \cup E!Blank(miss \ got) \cup {E!Provided(e, a.by, a.hash, a.moved) : e \in got}
            = a.cached \cup EnvGot(r, p, got) \cup E!Blank(miss \ got)
      BY DEF EnvGot
    <3>3. envRun' = [envRun EXCEPT ![r] = y]
      BY <1>4, <2>3, <3>2, Zenon
    <3> HIDE DEF y
    <3> QED
      BY <1>0, <1>2, <2>2, <3>1, <3>3, EnvStep DEF EnvLooked
  <2>4. CASE ~ \A e \in miss \ got : e.optional
    <3>1. envRun' = [envRun EXCEPT ![r] = [x EXCEPT !.pc = "failed"]]
      BY <1>4, <2>4 DEF E!Fail
    <3>2. EnvOK([x EXCEPT !.pc = "failed"]) /\ [x EXCEPT !.pc = "failed"].pc = "failed"
      BY <1>1, EnvFail DEF EnvRuns
    <3> QED
      BY <1>0, <1>2, <2>2, <3>1, <3>2, EnvStep DEF EnvLooked
  <2> QED
    BY <2>3, <2>4
<1> QED
  BY <1>3, <1>4, Zenon DEF E!ProviderEnds, E!To

LEMMA EnvResolved == ASSUME EnvInv, NEW r \in Runs, E!Resolved(r) PROVE EnvInv'
<1> DEFINE x == envRun[r]
           y == IF x.inline THEN [x EXCEPT !.pc = "started"] ELSE [x EXCEPT !.pc = "missing", !.pre = TRUE]
<1>1. EnvOK(x) /\ x \in EnvRuns /\ x.pc = "lookup" /\ x.todo = {}
  BY DEF EnvInv, EnvAllRuns, EnvOK, E!Resolved
<1>2. /\ y \in EnvRuns /\ y.spec = x.spec /\ y.inline = x.inline /\ y.env = x.env
      /\ y.todo = {} /\ y.fired = x.fired
      /\ IF x.inline THEN y.pc = "started" /\ y.pre = x.pre ELSE y.pc = "missing" /\ y.pre
  BY <1>1 DEF EnvRuns
<1>3. envRun' = [envRun EXCEPT ![r] = y]
  BY DEF E!Resolved, E!To
<1> HIDE DEF y
<1>4. EnvEntries(y) = EnvEntries(x)
  BY <1>2 DEF EnvEntries
<1>5. EnvPlaced(y) /\ EnvValued(y) /\ EnvCovered(y) /\ EnvFired(y)
  BY <1>1, <1>2, <1>4 DEF EnvOK, EnvPlaced, EnvMissing, EnvValued, EnvCovered, EnvFired, EnvAsked
<1> QED
  BY <1>1, <1>2, <1>3, <1>5, EnvStep DEF EnvOK, E!Resolved, EnvInv, EnvTyped, EnvKept, EnvLooked

-----------------------------------------------------------------------------
(* The steps of the prerequisites *)

\* A run at another place, with nothing else of it changed but its entry.
LEMMA EnvMove ==
  ASSUME NEW x, EnvOK(x), x.pc \in {"missing", "recheck"}, NEW y \in EnvRuns, y.pc \in EnvMissing,
         y.pc # "missing" => y.i \in DOMAIN x.spec, y.spec = x.spec, y.box = x.box, y.inline = x.inline,
         y.env = x.env, y.pre = x.pre, y.todo = x.todo, y.ask = x.ask, y.fired = x.fired
  PROVE  EnvOK(y)
<1>1. EnvEntries(y) = EnvEntries(x)
  BY DEF EnvEntries
<1>2. EnvPlaced(y) /\ EnvValued(y) /\ EnvCovered(y) /\ EnvFired(y)
  BY <1>1 DEF EnvOK, EnvPlaced, EnvMissing, EnvValued, EnvCovered, EnvFired, EnvAsked
<1> QED
  BY <1>2 DEF EnvOK

LEMMA EnvSkip == ASSUME EnvInv, NEW r \in Runs, E!Skip(r) PROVE EnvInv'
<1> DEFINE x == envRun[r]
           y == [x EXCEPT !.pc = "missing", !.i = x.i + 1, !.waited = x.waited]
<1>1. EnvOK(x) /\ x \in EnvRuns /\ x.pc = "missing" /\ x.i \in Nat \ {0} /\ x.waited \in SUBSET Keys
  BY DEF EnvInv, EnvAllRuns, EnvOK, EnvRuns, E!Skip
<1>2. EnvOK(y) /\ y.pc = "missing"
  <2>1. /\ y \in EnvRuns /\ y.pc = "missing" /\ y.spec = x.spec /\ y.box = x.box /\ y.inline = x.inline
        /\ y.env = x.env /\ y.pre = x.pre /\ y.todo = x.todo /\ y.ask = x.ask
        /\ y.fired = x.fired
    <3>1. x.i + 1 \in Nat \ {0}
      BY <1>1
    <3> QED
      BY <1>1, <3>1 DEF EnvRuns
  <2> QED
    BY <1>1, <2>1, EnvMove DEF EnvMissing
<1>3. [x EXCEPT !.i = @ + 1] = y
  BY <1>1 DEF EnvRuns
<1>4. envRun' = [envRun EXCEPT ![r] = y]
  BY <1>3 DEF E!Skip, E!To
<1> QED
  BY <1>1, <1>2, <1>4, EnvStep DEF E!Skip, EnvInv, EnvTyped, EnvKept, EnvLooked

LEMMA EnvRecheck == ASSUME EnvInv, NEW r \in Runs, E!Recheck(r) PROVE EnvInv'
<1> DEFINE x == envRun[r]
           y == [x EXCEPT !.pc = "missing", !.i = x.i + 1, !.waited = x.waited]
<1>1. EnvOK(x) /\ x \in EnvRuns /\ x.pc = "recheck" /\ x.i \in Nat \ {0} /\ x.waited \in SUBSET Keys
  BY DEF EnvInv, EnvAllRuns, EnvOK, EnvRuns, E!Recheck
<1>2. EnvOK(y) /\ y.pc = "missing"
  <2>1. /\ y \in EnvRuns /\ y.pc = "missing" /\ y.spec = x.spec /\ y.box = x.box /\ y.inline = x.inline
        /\ y.env = x.env /\ y.pre = x.pre /\ y.todo = x.todo /\ y.ask = x.ask
        /\ y.fired = x.fired
    <3>1. x.i + 1 \in Nat \ {0}
      BY <1>1
    <3> QED
      BY <1>1, <3>1 DEF EnvRuns
  <2> QED
    BY <1>1, <2>1, EnvMove DEF EnvMissing
<1>3. [x EXCEPT !.pc = "missing", !.i = @ + 1] = y
  BY <1>1 DEF EnvRuns
<1>4. \/ envRun' = [envRun EXCEPT ![r] = y]
      \/ envRun' = [envRun EXCEPT ![r] = [x EXCEPT !.pc = "failed"]]
  BY <1>3 DEF E!Recheck, E!To, E!Fail
<1>5. EnvOK([x EXCEPT !.pc = "failed"]) /\ [x EXCEPT !.pc = "failed"].pc = "failed"
  BY <1>1, EnvFail DEF EnvRuns
<1> QED
  BY <1>1, <1>2, <1>4, <1>5, EnvStep DEF E!Recheck, EnvInv, EnvTyped, EnvKept, EnvLooked

LEMMA EnvJoinFails == ASSUME EnvInv, NEW r \in Runs, E!JoinFails(r) PROVE EnvInv'
<1> DEFINE x == envRun[r]
<1>1. EnvOK(x) /\ x \in EnvRuns /\ x.pc = "missing"
  BY DEF EnvInv, EnvAllRuns, EnvOK, E!JoinFails
<1>2. EnvOK([x EXCEPT !.pc = "failed"]) /\ [x EXCEPT !.pc = "failed"].pc = "failed"
  BY <1>1, EnvFail DEF EnvRuns
<1>3. envRun' = [envRun EXCEPT ![r] = [x EXCEPT !.pc = "failed"]]
  BY DEF E!JoinFails, E!To, E!Fail
<1> QED
  BY <1>1, <1>2, <1>3, EnvStep DEF E!JoinFails, EnvInv, EnvTyped, EnvKept, EnvLooked

LEMMA EnvExecute == ASSUME EnvInv, NEW r \in Runs, E!Execute(r) PROVE EnvInv'
<1> DEFINE x == envRun[r]
           y == IF x.pre \/ x.box THEN [x EXCEPT !.pc = "started"] ELSE [x EXCEPT !.pc = "secrets", !.inline = TRUE]
<1>1. EnvOK(x) /\ x \in EnvRuns /\ x.pc = "missing"
  BY DEF EnvInv, EnvAllRuns, EnvOK, E!Execute
<1>2. /\ y \in EnvRuns /\ y.spec = x.spec /\ y.env = x.env /\ y.box = x.box
      /\ y.todo = x.todo /\ y.fired = x.fired /\ y.pre = x.pre
      /\ IF x.pre \/ x.box THEN y.pc = "started" /\ y.inline = x.inline ELSE y.pc = "secrets" /\ y.inline
  BY <1>1 DEF EnvRuns
<1>3. envRun' = [envRun EXCEPT ![r] = y]
  BY DEF E!Execute, E!To
<1> HIDE DEF y
<1>4. EnvEntries(y) = EnvEntries(x)
  BY <1>2 DEF EnvEntries
<1>5. EnvPlaced(y) /\ EnvValued(y) /\ EnvCovered(y) /\ EnvFired(y)
  BY <1>1, <1>2, <1>4 DEF EnvOK, EnvPlaced, EnvMissing, EnvValued, EnvCovered, EnvFired, EnvAsked
<1> QED
  BY <1>1, <1>2, <1>3, <1>5, EnvStep DEF EnvOK, E!Execute, EnvInv, EnvTyped, EnvKept, EnvLooked

LEMMA EnvJoin == ASSUME EnvInv, NEW r \in Runs, E!Join(r) PROVE EnvInv'
<1> DEFINE x == envRun[r]
           k == x.spec[x.i].key
           y == [x EXCEPT !.pc = "await", !.i = x.i, !.waited = x.waited \cup {k}]
<1>1. EnvOK(x) /\ x \in EnvRuns /\ x.pc = "missing" /\ x.i \in Nat \ {0} /\ x.waited \in SUBSET Keys /\ EnvConstants
  BY DEF EnvInv, EnvAllRuns, EnvOK, EnvRuns, EnvTyped, E!Join
<1>2. x.i \in DOMAIN x.spec /\ k \in Keys
  <2>1. x.spec = <<>> \/ x.spec \in Seq(EnvDeclared)
    BY <1>1 DEF EnvRuns, EnvConstants
  <2>2. x.i \in 1..Len(x.spec)
    <3>1. Len(x.spec) \in Nat /\ x.i <= Len(x.spec)
      <4>1. Len(x.spec) \in Nat
        BY <2>1
      <4>2. x.i <= Len(x.spec)
        BY DEF E!Join
      <4> QED
        BY <4>1, <4>2
    <3> QED
      BY <1>1, <3>1
  <2>3. x.spec[x.i] \in EnvDeclared
    BY <2>1, <2>2
  <2> QED
    BY <2>1, <2>2, <2>3 DEF EnvDeclared
<1>3. EnvOK(y) /\ y.pc = "await"
  <2>1. x.waited \cup {k} \in SUBSET Keys
    BY <1>1, <1>2
  <2>2. /\ y \in EnvRuns /\ y.pc = "await" /\ y.i = x.i /\ y.spec = x.spec /\ y.box = x.box
        /\ y.inline = x.inline /\ y.env = x.env /\ y.pre = x.pre /\ y.todo = x.todo
        /\ y.ask = x.ask /\ y.fired = x.fired
    BY <1>1, <2>1 DEF EnvRuns
  <2> QED
    BY <1>1, <1>2, <2>2, EnvMove DEF EnvMissing
<1>4. y.spec = x.spec /\ y.i = x.i /\ [x EXCEPT !.pc = "await", !.waited = @ \cup {k}] = y
  BY <1>1 DEF EnvRuns
<1>5. envRun' = [envRun EXCEPT ![r] = y]
  BY <1>4 DEF E!Join, E!To
<1>6. \/ /\ flight[k].leader = None
         /\ flight' = [flight EXCEPT ![k] = [leader |-> r, waiters |-> {r}, outcome |-> "runs"]]
      \/ flight[k].leader # None /\ flight' = [flight EXCEPT ![k].waiters = @ \cup {r}]
  BY DEF E!Join
<1> HIDE DEF y
<1>7. envRun'[r] = y /\ \A q \in Runs : q # r => envRun'[q] = envRun[q]
  BY <1>5 DEF EnvInv, EnvTyped
<1>8. EnvTyped'
  <2> DEFINE FlightSet == [leader : Runs \cup {None}, waiters : SUBSET Runs, outcome : {"none", "runs"}]
  <2>1. flight \in [Keys -> FlightSet] /\ flight[k] \in FlightSet
    BY <1>2 DEF EnvInv, EnvTyped
  <2>2. [leader |-> r, waiters |-> {r}, outcome |-> "runs"] \in FlightSet
    OBVIOUS
  <2>3. [flight[k] EXCEPT !.waiters = @ \cup {r}] \in FlightSet
    BY <2>1
  <2> HIDE DEF FlightSet
  <2>4. flight' \in [Keys -> FlightSet]
    BY <1>6, <2>1, <2>2, <2>3
  <2> QED
    BY <1>2, <1>3, <1>5, <2>4 DEF FlightSet, EnvInv, EnvTyped, EnvOK, EnvConstants, EnvDeclared, E!Join
<1>9. EnvAllRuns'
  <2> SUFFICES ASSUME NEW q \in Runs PROVE EnvOK(envRun'[q])
    BY DEF EnvAllRuns
  <2> QED
    BY <1>3, <1>7 DEF EnvInv, EnvAllRuns
<1>10. EnvFlights'
  <2>1. /\ flight'[k].waiters = flight[k].waiters \cup {r} /\ flight'[k].leader # None
        /\ flight'[k].leader \in flight'[k].waiters /\ flight'[k].outcome = "runs"
        /\ \A l \in Keys : l # k => flight'[l] = flight[l]
    <3>1. /\ flight[k] \in [leader : Runs \cup {None}, waiters : SUBSET Runs, outcome : {"none", "runs"}]
          /\ DOMAIN flight = Keys /\ r # None
          /\ IF flight[k].leader = None THEN flight[k].waiters = {}
             ELSE flight[k].outcome = "runs" /\ flight[k].leader \in flight[k].waiters
      BY <1>1, <1>2 DEF EnvInv, EnvTyped, EnvFlights, EnvConstants
    <3>2. CASE flight[k].leader = None
      <4>1. flight' = [flight EXCEPT ![k] = [leader |-> r, waiters |-> {r}, outcome |-> "runs"]]
        BY <1>6, <3>2
      <4>2. flight'[k] = [leader |-> r, waiters |-> {r}, outcome |-> "runs"] /\ \A l \in Keys : l # k => flight'[l] = flight[l]
        BY <1>2, <3>1, <4>1
      <4>3. flight'[k].leader = r /\ flight'[k].waiters = {r} /\ flight'[k].outcome = "runs"
        BY <4>2
      <4> QED
        BY <3>1, <3>2, <4>2, <4>3
    <3>3. CASE flight[k].leader # None
      <4>1. flight'[k] = [flight[k] EXCEPT !.waiters = @ \cup {r}] /\ \A l \in Keys : l # k => flight'[l] = flight[l]
        BY <1>2, <1>6, <3>1, <3>3
      <4>2. /\ flight'[k].waiters = flight[k].waiters \cup {r} /\ flight'[k].leader = flight[k].leader
            /\ flight'[k].outcome = flight[k].outcome
        BY <4>1, <3>1
      <4> QED
        BY <4>1, <4>2, <3>1, <3>3
    <3> QED
      BY <3>2, <3>3
  <2>2. ASSUME NEW l \in Keys, NEW q \in Runs
        PROVE  q \in flight'[l].waiters <=> envRun'[q].pc = "await" /\ envRun'[q].spec[envRun'[q].i].key = l
    <3>1. CASE q = r
      <4>1. envRun'[q].pc = "await" /\ envRun'[q].spec[envRun'[q].i].key = k
        BY <3>1, <1>3, <1>4, <1>7
      <4>2. \A m \in Keys : q \notin flight[m].waiters
        BY <3>1, <1>1 DEF EnvInv, EnvFlights
      <4> QED
        BY <3>1, <4>1, <4>2, <2>1
    <3>2. CASE q # r
      BY <3>2, <2>1, <1>7 DEF EnvInv, EnvFlights
    <3> QED
      BY <3>1, <3>2
  <2>3. ASSUME NEW l \in Keys
        PROVE  IF flight'[l].leader = None THEN flight'[l].waiters = {}
               ELSE flight'[l].outcome = "runs" /\ flight'[l].leader \in flight'[l].waiters
    <3>1. CASE l = k
      BY <2>1, <3>1
    <3>2. CASE l # k
      BY <2>1, <3>2 DEF EnvInv, EnvFlights
    <3> QED
      BY <3>1, <3>2
  <2> QED
    BY <2>2, <2>3 DEF EnvFlights
<1>11. EnvKept'
  BY <1>3, <1>7 DEF EnvInv, EnvKept, EnvLooked, E!Join
<1> QED
  BY <1>8, <1>9, <1>10, <1>11 DEF EnvInv

LEMMA EnvPrereqEnds == ASSUME EnvInv, NEW k \in Keys, E!PrereqEnds(k) PROVE EnvInv'
<1>1. PICK good \in BOOLEAN :
        envRun' = [r \in Runs |->
          IF r \in flight[k].waiters
            THEN IF good THEN [envRun[r] EXCEPT !.pc = "recheck"] ELSE E!Fail(r)
            ELSE envRun[r]]
  BY DEF E!PrereqEnds
<1>2. ASSUME NEW r \in Runs, r \in flight[k].waiters
      PROVE  EnvOK(envRun'[r]) /\ envRun'[r].pc \notin {"await", "provider"}
  <2> DEFINE x == envRun[r]
  <2>1. EnvOK(x) /\ x \in EnvRuns /\ x.pc = "await"
    BY <1>2 DEF EnvInv, EnvAllRuns, EnvOK, EnvFlights
  <2>2. CASE good
    <3> DEFINE y == [x EXCEPT !.pc = "recheck"]
    <3>1. /\ y \in EnvRuns /\ y.pc = "recheck" /\ y.i = x.i /\ y.spec = x.spec /\ y.box = x.box /\ y.inline = x.inline
          /\ y.env = x.env /\ y.pre = x.pre /\ y.todo = x.todo /\ y.fired = x.fired
      BY <2>1 DEF EnvRuns
    <3>2. envRun'[r] = y
      BY <1>1, <1>2, <2>2
    <3> HIDE DEF y
    <3>3. EnvEntries(y) = EnvEntries(x)
      BY <3>1 DEF EnvEntries
    <3>4. EnvPlaced(y) /\ EnvValued(y) /\ EnvCovered(y) /\ EnvFired(y)
      BY <2>1, <3>1, <3>3 DEF EnvOK, EnvPlaced, EnvMissing, EnvValued, EnvCovered, EnvFired, EnvAsked
    <3> QED
      BY <3>1, <3>2, <3>4 DEF EnvOK
  <2>3. CASE ~good
    <3>1. envRun'[r] = [x EXCEPT !.pc = "failed"]
      BY <1>1, <1>2, <2>3 DEF E!Fail
    <3>2. [x EXCEPT !.pc = "failed"].pc = "failed"
      BY <2>1 DEF EnvRuns
    <3> QED
      BY <2>1, <3>1, <3>2, EnvFail
  <2> QED
    BY <2>2, <2>3
<1>3. \A r \in Runs : r \notin flight[k].waiters => envRun'[r] = envRun[r]
  BY <1>1
<1>4. EnvAllRuns'
  <2> SUFFICES ASSUME NEW q \in Runs PROVE EnvOK(envRun'[q])
    BY DEF EnvAllRuns
  <2> QED
    BY <1>2, <1>3 DEF EnvInv, EnvAllRuns
<1>5. flight' = [flight EXCEPT ![k] = E!NoFlight]
  BY DEF E!PrereqEnds
<1>6. EnvTyped'
  <2>1. envRun' \in [Runs -> EnvRuns]
    BY <1>1, <1>4 DEF EnvAllRuns, EnvOK
  <2>2. E!NoFlight \in [leader : Runs \cup {None}, waiters : SUBSET Runs, outcome : {"none", "runs"}]
    BY DEF E!NoFlight
  <2> QED
    <3>1. flight' \in [Keys -> [leader : Runs \cup {None}, waiters : SUBSET Runs, outcome : {"none", "runs"}]]
      BY <1>5, <2>2 DEF EnvInv, EnvTyped
    <3> QED
      BY <2>1, <3>1 DEF EnvInv, EnvTyped, EnvConstants, EnvDeclared, E!PrereqEnds
<1>7. EnvFlights'
  <2>1. flight'[k] = E!NoFlight /\ \A l \in Keys : l # k => flight'[l] = flight[l]
    BY <1>5 DEF EnvInv, EnvTyped
  <2>2. ASSUME NEW l \in Keys, NEW q \in Runs
        PROVE  q \in flight'[l].waiters <=> envRun'[q].pc = "await" /\ envRun'[q].spec[envRun'[q].i].key = l
    <3>1. CASE q \in flight[k].waiters
      BY <3>1, <1>2, <2>1 DEF EnvInv, EnvFlights, E!NoFlight
    <3>2. CASE q \notin flight[k].waiters
      BY <3>2, <1>3, <2>1 DEF EnvInv, EnvFlights, E!NoFlight
    <3> QED
      BY <3>1, <3>2
  <2>3. ASSUME NEW l \in Keys
        PROVE  IF flight'[l].leader = None THEN flight'[l].waiters = {}
               ELSE flight'[l].outcome = "runs" /\ flight'[l].leader \in flight'[l].waiters
    BY <2>1 DEF EnvInv, EnvFlights, E!NoFlight
  <2> QED
    BY <2>2, <2>3 DEF EnvFlights
<1>8. EnvKept'
  BY <1>2, <1>3 DEF EnvInv, EnvKept, EnvLooked, E!PrereqEnds
<1> QED
  BY <1>4, <1>6, <1>7, <1>8 DEF EnvInv

\* The steps of others change no run and no flight,
LEMMA EnvOthers ==
  ASSUME EnvInv, E!Tick \/ \E k \in Keys : E!PrereqStores(k) \/ E!DeleteSecret(k)
  PROVE  EnvInv'
<1>1. UNCHANGED <<envRun, flight, secretCache, provider>>
  BY DEF E!Tick, E!PrereqStores, E!DeleteSecret
<1>2. secretStore' \in [Keys -> 0..MaxVersion] /\ envNow' \in 0..MaxNow
  <2>1. /\ secretStore \in [Keys -> 0..MaxVersion] /\ envNow \in 0..MaxNow /\ MaxVersion \in Nat /\ MaxNow \in Nat
    BY DEF EnvInv, EnvTyped, EnvConstants
  <2>2. CASE E!Tick
    BY <2>1, <2>2 DEF E!Tick
  <2>3. ASSUME NEW k \in Keys, E!PrereqStores(k) PROVE <1>2
    <3>1. secretStore[k] + 1 \in 0..MaxVersion
      BY <2>1, <2>3 DEF E!PrereqStores
    <3> QED
      BY <2>1, <2>3, <3>1 DEF E!PrereqStores
  <2>4. ASSUME NEW k \in Keys, E!DeleteSecret(k) PROVE <1>2
    BY <2>1, <2>4 DEF E!DeleteSecret
  <2> QED
    BY <2>2, <2>3, <2>4
<1>3. EnvTyped'
  BY <1>1, <1>2 DEF EnvInv, EnvTyped, EnvConstants, EnvDeclared
<1>4. EnvAllRuns' /\ EnvFlights' /\ EnvKept'
  BY <1>1 DEF EnvInv, EnvAllRuns, EnvFlights, EnvKept, EnvLooked
<1> QED
  BY <1>3, <1>4 DEF EnvInv

\* except that a run that is about to fire a provider is told of its edit.
LEMMA EnvEditProvider == ASSUME EnvInv, NEW p \in Providers, E!EditProvider(p) PROVE EnvInv'
<1>1. /\ UNCHANGED <<secretStore, flight, secretCache, envNow>> /\ \E v \in 0..MaxContent : provider' = [provider EXCEPT ![p] = v]
      /\ envRun' = [r \in Runs |->
           IF envRun[r].pc = "provider" /\ envRun[r].ask.of = p THEN [envRun[r] EXCEPT !.ask.moved = TRUE] ELSE envRun[r]]
  BY DEF E!EditProvider
<1>2. ASSUME NEW r \in Runs
      PROVE  /\ EnvOK(envRun'[r]) /\ envRun'[r].pc = envRun[r].pc /\ envRun'[r].spec = envRun[r].spec
             /\ envRun'[r].i = envRun[r].i
             /\ envRun'[r] # envRun[r] => envRun'[r].ask.moved
             /\ envRun[r].pc = "provider" /\ envRun[r].ask.of = p => envRun'[r].ask.moved
  <2> DEFINE x == envRun[r]
             y == [x EXCEPT !.ask.moved = TRUE]
  <2>1. EnvOK(x) /\ x \in EnvRuns
    BY DEF EnvInv, EnvAllRuns, EnvOK
  <2>2. CASE ~(x.pc = "provider" /\ x.ask.of = p)
    BY <1>1, <2>1, <2>2
  <2>3. CASE x.pc = "provider" /\ x.ask.of = p
    <3>1. /\ y \in EnvRuns /\ y.pc = x.pc /\ y.spec = x.spec /\ y.box = x.box /\ y.inline = x.inline /\ y.i = x.i
          /\ y.env = x.env /\ y.pre = x.pre /\ y.todo = x.todo /\ y.fired = x.fired /\ y.ask.of = x.ask.of
          /\ y.ask.cached = x.ask.cached /\ y.ask.moved
      BY <2>1 DEF EnvRuns, EnvAsks
    <3>2. envRun'[r] = y
      BY <1>1, <2>3
    <3> HIDE DEF y
    <3>3. EnvEntries(y) = EnvEntries(x) /\ EnvOf(y, p) = EnvOf(x, p)
      BY <3>1 DEF EnvEntries, EnvOf
    <3>4. EnvPlaced(y) /\ EnvValued(y) /\ EnvCovered(y)
      BY <2>1, <3>1, <3>3 DEF EnvOK, EnvPlaced, EnvMissing, EnvValued, EnvCovered, EnvAsked
    <3>5. EnvFired(y)
      BY <2>1, <2>3, <3>1, <3>3 DEF EnvOK, EnvFired, EnvFrom, EnvMissing
    <3> QED
      BY <3>1, <3>2, <3>4, <3>5 DEF EnvOK
  <2> QED
    BY <2>2, <2>3
<1>3. provider' \in [Providers -> Nat] /\ \A q \in Providers \ {p} : provider'[q] = provider[q]
  BY <1>1 DEF EnvInv, EnvTyped, EnvConstants
<1>4. EnvTyped'
  <2>1. envRun' \in [Runs -> EnvRuns]
    BY <1>1, <1>2 DEF EnvOK
  <2> QED
    BY <1>1, <1>3, <2>1 DEF EnvInv, EnvTyped, EnvConstants, EnvDeclared
<1>5. EnvAllRuns'
  BY <1>2 DEF EnvAllRuns
<1>6. EnvFlights'
  BY <1>1, <1>2 DEF EnvInv, EnvFlights
<1>7. EnvKept'
  <2>1. ASSUME NEW r \in Runs, envRun'[r].pc = "provider", ~envRun'[r].ask.moved
        PROVE  provider'[envRun'[r].ask.of] = envRun'[r].ask.hash
    <3>1. envRun'[r] = envRun[r] /\ envRun[r].ask.of # p
      BY <1>2, <2>1
    <3>2. envRun[r].ask.of \in Providers
      BY <2>1, <3>1 DEF EnvInv, EnvAllRuns, EnvOK, EnvFired, EnvRuns
    <3> QED
      BY <1>3, <2>1, <3>1, <3>2 DEF EnvInv, EnvKept, EnvLooked
  <2>2. \A s \in E!Slots : EnvCached(secretCache'[s])
    BY <1>1 DEF EnvInv, EnvKept
  <2> QED
    BY <2>1, <2>2 DEF EnvKept, EnvLooked
<1> QED
  BY <1>4, <1>5, <1>6, <1>7 DEF EnvInv

LEMMA EnvNext == EnvInv /\ [E!Next]_(E!vars) => EnvInv'
<1> SUFFICES ASSUME EnvInv, [E!Next]_(E!vars) PROVE EnvInv'
  OBVIOUS
<1>1. CASE UNCHANGED E!vars
  <2>1. UNCHANGED <<secretStore, provider, secretCache, flight, envRun, envNow>>
    BY <1>1 DEF E!vars
  <2> QED
    BY <2>1 DEF EnvInv, EnvTyped, EnvConstants, EnvDeclared, EnvAllRuns, EnvFlights, EnvKept, EnvLooked
<1>2. ASSUME NEW k \in Keys, E!PrereqEnds(k) PROVE EnvInv'
  BY <1>2, EnvPrereqEnds
<1>3. ASSUME NEW r \in Runs,
             \/ E!Begin(r) \/ E!ResolveSecrets(r) \/ E!ResolveProvider(r) \/ E!ProviderStarts(r)
             \/ E!ProviderEnds(r) \/ E!Resolved(r)
             \/ E!Skip(r) \/ E!Join(r) \/ E!JoinFails(r) \/ E!Recheck(r) \/ E!Execute(r)
      PROVE  EnvInv'
  BY <1>3, EnvBegin, EnvResolveSecrets, EnvResolveProvider, EnvProviderStarts, EnvProviderEnds, EnvResolved,
    EnvSkip, EnvJoin,
     EnvJoinFails, EnvRecheck, EnvExecute
<1> QED
  BY <1>1, <1>2, <1>3, EnvOthers, EnvEditProvider DEF E!Next

\* What the invariant says in the words of EnvResolve.
LEMMA EnvMeans ==
  EnvInv => E!TypeOK /\ E!StartsWhole /\ E!ValuesAreCurrent /\ E!ProvidersFireOnce /\ E!WaitsEnd
<1> SUFFICES ASSUME EnvInv
             PROVE  E!TypeOK /\ E!StartsWhole /\ E!ValuesAreCurrent /\ E!ProvidersFireOnce /\ E!WaitsEnd
  OBVIOUS
<1>1. \A r \in Runs : EnvOK(envRun[r]) /\ envRun[r] \in EnvRuns
  BY DEF EnvInv, EnvAllRuns, EnvOK
<1>2. E!TypeOK
  BY <1>1 DEF EnvInv, EnvTyped, EnvRuns, E!TypeOK
<1>3. ASSUME NEW r \in Runs, envRun[r].pc = "started", ~envRun[r].box, NEW e \in E!Entries(r)
      PROVE  EnvGiven(envRun[r].env, e)
  BY <1>1, <1>3, EnvSame DEF EnvOK, EnvCovered, EnvPlaced, EnvAsked
<1>4. E!StartsWhole
  BY <1>3 DEF E!StartsWhole, E!Whole, EnvGiven
<1>5. E!ValuesAreCurrent
  BY <1>1 DEF E!ValuesAreCurrent, EnvOK, EnvValued, EnvRight
<1>6. E!ProvidersFireOnce
  <2> SUFFICES ASSUME NEW r \in Runs, NEW x \in envRun[r].fired, NEW y \in envRun[r].fired, x[1] = y[1] PROVE x = y
    BY DEF E!ProvidersFireOnce
  <2>1. x \in Providers \X BOOLEAN /\ y \in Providers \X BOOLEAN /\ x[2] = y[2]
    BY <1>1 DEF EnvOK, EnvFired, EnvRuns
  <2> QED
    BY <2>1
<1>7. E!WaitsEnd
  <2>1. ASSUME NEW r \in Runs, envRun[r].pc = "await"
        PROVE  /\ r \in flight[envRun[r].spec[envRun[r].i].key].waiters
               /\ flight[envRun[r].spec[envRun[r].i].key].outcome = "runs"
    <3>1. envRun[r].spec[envRun[r].i] \in EnvEntries(envRun[r])
      BY <1>1, <2>1 DEF EnvOK, EnvPlaced, EnvEntries
    <3>2. envRun[r].spec[envRun[r].i].key \in Keys
      BY <3>1, <1>1, EnvKeys DEF EnvDeclared, EnvInv, EnvTyped
    <3> QED
      BY <2>1, <3>2 DEF EnvInv, EnvFlights
  <2>2. \A k \in Keys : flight[k].leader # None => flight[k].leader \in flight[k].waiters
    BY DEF EnvInv, EnvFlights
  <2>3. ASSUME NEW r \in Runs, NEW k \in Keys, envRun[r].pc = "started", ~envRun[r].box,
               NEW e \in E!Entries(r), e.key = k, E!Required(e)
        PROVE  \E v \in envRun[r].env : v.name = k /\ v.src = "secret" /\ v.ver >= 1
    BY <1>1, <1>3, <2>3 DEF EnvGiven, EnvOK, EnvValued
  <2> QED
    BY <2>1, <2>2, <2>3 DEF E!WaitsEnd
<1> QED
  BY <1>2, <1>4, <1>5, <1>6, <1>7

\* What preflightEnv and the runtimes promise: a deno or python run starts with what its task declares,
\* one value a variable, and of the content of a provider that it looked up, unless that was edited
\* before it was fired; a provider fires once for it, and a wait for a prerequisite ends with it.
THEOREM RunsStartWhole ==
  EnvConstants =>
    (E!Spec => [](E!TypeOK /\ E!StartsWhole /\ E!ValuesAreCurrent /\ E!ProvidersFireOnce /\ E!WaitsEnd))
  BY EnvInit, EnvNext, EnvMeans, PTL DEF E!Spec


-----------------------------------------------------------------------------
(***************************************************************************)
(* What an operator sees before approving: ApprovalReview.                 *)
(***************************************************************************)

\* A specification has the fields task.Spec has, and no identifier in it is also an inline value.
RevSpecs == {SpecOf[<<c["yaml"], o>>] : c \in FileSets, o \in Overs}
RevHashes == {G!ContentHash(s, c) : s \in RevSpecs, c \in FileSets}
RevEnvOK(e) ==
  /\ e = [name |-> e.name, value |-> e.value, secret |-> e.secret, ref |-> e.ref, default |-> e.default,
          optional |-> e.optional]
  /\ {e.name, e.secret} \cap Literals = {}
  /\ e.ref # None => \A i \in DOMAIN e.ref : e.ref[i] \notin Literals
RevTriggerOK(t) ==
  /\ t = [kind |-> t.kind, at |-> t.at, auth |-> t.auth, restart |-> t.restart, params |-> t.params, key |-> t.key]
  /\ t.at \notin Literals /\ DOMAIN t.params \cap Literals = {}
RevConstants ==
  /\ None \notin Links \cup RevHashes \cup {"redacted", "page", "link"} /\ MaxAdmits \in Nat
  /\ {"secret", "literal", "host"} \cap Literals = {}
  /\ \A s \in RevSpecs :
       /\ {s.name, s.image, s.net, s.timeout} \cap Literals = {} /\ DOMAIN s.boxEnv \cap Literals = {}
       /\ (\A e \in s.env : RevEnvOK(e)) /\ (\A p \in s.params : p.name \notin Literals)
       /\ RevTriggerOK(s.trigger)

RevEntries == [spec : RevSpecs, hash : RevHashes, from : Nat, to : Nat, gen : Nat]
RevMarks == SUBSET (Files \X {"new", "changed"})
RevViews ==
  [pc : {"idle", "read", "files", "marks", "shown", "approve", "record", "arm", "clear"},
   how : {None, "page", "link"}, spec : RevSpecs \cup {None}, hash : RevHashes \cup {None}, from : Nat, to : Nat,
   gen : Nat, names : SUBSET Files, marks : RevMarks, token : Links \cup {None}, ent : RevEntries \cup {None}]
RevTyped ==
  /\ RevConstants
  /\ trees \in Seq(FileSets) /\ Len(trees) >= 1 /\ over \in Overs
  /\ rec \in [pc : {"idle", "hash", "decide", "commit", "pend"}, spec : RevSpecs \cup {None},
              hash : RevHashes \cup {None}, commit : Nat, gen : 0..MaxAdmits]
  /\ inRegistry \in RevSpecs \cup {None} /\ held \in RevEntries \cup {None}
  /\ reviewLock \in [hash : RevHashes \cup {None}, commit : Nat] /\ reviewLock.commit <= Len(trees)
  /\ statuses \in [1..MaxAdmits -> RevMarks \cup {None}]
  /\ links \in [Links -> [hash : RevHashes \cup {None}, used : BOOLEAN]]
  /\ view \in [Viewers -> RevViews]

\* A hash covers what an override may set of its specification.
RevMatched(s, h) == s \in RevSpecs /\ \E c \in FileSets : h = G!ContentHash(s, c)
RevHeld ==
  /\ held # None => held \in RevEntries /\ RevMatched(held.spec, held.hash) /\ held.to <= Len(trees) /\ held.gen # 0
  /\ rec.pc # "idle" => rec.spec \in RevSpecs /\ rec.gen # 0
  /\ rec.pc \in {"decide", "commit", "pend"} => RevMatched(rec.spec, rec.hash)
  /\ rec.pc = "pend" => rec.commit <= Len(trees)

\* What a viewer has read; an approval goes on with what was shown, or with nothing.
RevTrue(a, b, m) == /\ trees[b][m[1]] \notin {0, trees[a][m[1]]}
                    /\ trees[a][m[1]] = 0 <=> m[2] = "new"
RevActs == {"approve", "record", "arm", "clear"}
RevRead(x) ==
  /\ x.pc # "idle" => x.how # None
  /\ x.pc = "read" => x.from = 0 /\ x.gen = 0 /\ (x.how = "page" => x.spec \in RevSpecs /\ x.hash = None)
  /\ x.pc \in {"files", "marks", "shown"} =>
       RevMatched(x.spec, x.hash) \/ (x.hash = None /\ x.how = "page" /\ x.from = 0 /\ x.spec \in RevSpecs)
  /\ x.pc \in RevActs => RevMatched(x.spec, x.hash)
  /\ x.pc \in {"record", "arm", "clear"} =>
       x.ent \in RevEntries /\ RevMatched(x.ent.spec, x.ent.hash) /\ x.ent.hash = x.hash /\ x.ent.to <= Len(trees)
RevLinked(x) ==
  /\ x.token # None => x.how = "link"
  /\ x.how = "link" =>
       /\ x.token \in Links /\ links[x.token].hash = x.hash /\ x.hash # None
       /\ x.pc \in RevActs => links[x.token].used
RevMarked(x) ==
  /\ x.pc \in {"read", "files", "marks"} => x.marks = {}
  /\ x.pc = "marks" => x.from # 0 /\ x.to # 0
  /\ x.from # 0 => x.gen # 0
  /\ \A m \in x.marks : x.from # 0 /\ x.to # 0 /\ RevTrue(x.from, x.to, m)
RevSeen == \A v \in Viewers : RevRead(view[v]) /\ RevLinked(view[v]) /\ RevMarked(view[v])

\* The ranges in use, each of one generation; what was computed for a generation is true of its range.
RevSpans ==
  {<<h.gen, h.from, h.to>> : h \in {e \in {held} : e # None}}
  \cup {<<view[v].gen, view[v].from, view[v].to>> : v \in {w \in Viewers : view[w].gen # 0}}
RevOld(g) == g \in 1..rec.gen /\ (rec.pc # "idle" => g < rec.gen)
RevRanges ==
  /\ \A a, b \in RevSpans : a[1] = b[1] => a = b
  /\ \A a \in RevSpans : RevOld(a[1]) /\ a[2] \in 0..Len(trees) /\ a[3] \in 0..Len(trees)
  /\ \A g \in 1..MaxAdmits : statuses[g] # None =>
       /\ RevOld(g)
       /\ \A a \in RevSpans : a[1] = g => \A m \in statuses[g] : a[2] # 0 /\ a[3] # 0 /\ RevTrue(a[2], a[3], m)

\* What was armed can do what was shown, and a link approved what it was made for.
RevGrants ==
  \A g \in grants :
    /\ g.recorded = g.hash /\ RevMatched(g.shown, g.hash) /\ RevMatched(g.spec, g.hash)
    /\ g.token # None =>
         g.token \in Links /\ g.recorded = links[g.token].hash /\ g.recorded # None /\ links[g.token].used

RevInv == RevTyped /\ RevHeld /\ RevSeen /\ RevRanges /\ RevGrants


-----------------------------------------------------------------------------
(* Equal hashes: what is shown of the one can be said of the other. *)

RevBlank(e) == [e EXCEPT !.value = G!Redacted(@), !.default = G!Redacted(@)]
LEMMA RevDecl ==
  ASSUME RevConstants, NEW e, RevEnvOK(e)
  PROVE  G!EnvDecl(RevBlank(e)) = G!EnvDecl(e)
<1>1. RevBlank(e) = [name |-> e.name, value |-> G!Redacted(e.value), secret |-> e.secret, ref |-> e.ref,
                     default |-> G!Redacted(e.default), optional |-> e.optional]
  <2>1. ASSUME NEW a, NEW b, NEW c, NEW d, NEW f, NEW g, NEW x, NEW y, NEW z,
               z = [name |-> a, value |-> b, secret |-> c, ref |-> d, default |-> f, optional |-> g]
        PROVE  [z EXCEPT !.value = x, !.default = y]
               = [name |-> a, value |-> x, secret |-> c, ref |-> d, default |-> y, optional |-> g]
    <3>1. [z EXCEPT !.value = x] = [name |-> a, value |-> x, secret |-> c, ref |-> d, default |-> f, optional |-> g]
      BY <2>1
    <3>2. ASSUME NEW w, w = [name |-> a, value |-> x, secret |-> c, ref |-> d, default |-> f, optional |-> g]
          PROVE  [w EXCEPT !.default = y]
                 = [name |-> a, value |-> x, secret |-> c, ref |-> d, default |-> y, optional |-> g]
      BY <3>2
    <3>3. [z EXCEPT !.value = x, !.default = y] = [[z EXCEPT !.value = x] EXCEPT !.default = y]
      OBVIOUS
    <3> QED
      BY <3>1, <3>2, <3>3, Zenon
  <2>2. RevBlank(e) = [e EXCEPT !.value = G!Redacted(e.value), !.default = G!Redacted(e.default)]
    BY DEF RevBlank
  <2> QED
    BY <2>1, <2>2, Zenon DEF RevEnvOK
<1>2. /\ RevBlank(e).name = e.name /\ RevBlank(e).secret = e.secret /\ RevBlank(e).ref = e.ref
      /\ RevBlank(e).optional = e.optional /\ RevBlank(e).value = G!Redacted(e.value)
      /\ RevBlank(e).default = G!Redacted(e.default)
  BY <1>1
<1>3. \A x : G!Redacted(x) # None <=> x # None
  BY DEF G!Redacted, RevConstants
<1> QED
  BY <1>2, <1>3 DEF G!EnvDecl

LEMMA RevReach ==
  ASSUME RevConstants, NEW s \in RevSpecs, NEW t \in RevSpecs, G!Resolved(s) = G!Resolved(t)
  PROVE  G!Reach(s) = G!Reach(t)
<1>1. \A u \in RevSpecs :
        /\ G!Resolved(u).net = u.net /\ G!Resolved(u).timeout = u.timeout /\ G!Resolved(u).params = u.params
        /\ G!Resolved(u).env = {RevBlank(e) : e \in u.env}
        /\ G!Resolved(u).trigger = [u.trigger EXCEPT !.key = None]
  BY DEF G!Resolved, RevBlank
<1>2. /\ s.net = t.net /\ s.timeout = t.timeout /\ s.params = t.params
      /\ {RevBlank(e) : e \in s.env} = {RevBlank(e) : e \in t.env}
      /\ [s.trigger EXCEPT !.key = None] = [t.trigger EXCEPT !.key = None]
  BY <1>1, Zenon
<1>3. \A u \in RevSpecs : (\A e \in u.env : RevEnvOK(e)) /\ RevTriggerOK(u.trigger)
  BY DEF RevConstants
<1>4. {G!EnvDecl(e) : e \in s.env} = {G!EnvDecl(e) : e \in t.env}
  <2>1. ASSUME NEW u \in RevSpecs, NEW w \in RevSpecs, NEW e \in u.env,
               {RevBlank(d) : d \in u.env} = {RevBlank(d) : d \in w.env}
        PROVE  \E d \in w.env : G!EnvDecl(d) = G!EnvDecl(e)
    <3>1. PICK d \in w.env : RevBlank(d) = RevBlank(e)
      BY <2>1
    <3>2. G!EnvDecl(RevBlank(d)) = G!EnvDecl(d) /\ G!EnvDecl(RevBlank(e)) = G!EnvDecl(e)
      BY <1>3, <2>1, RevDecl
    <3> QED
      BY <3>1, <3>2, Zenon
  <2>2. ASSUME NEW e \in s.env PROVE \E d \in t.env : G!EnvDecl(d) = G!EnvDecl(e)
    <3>1. {RevBlank(d) : d \in s.env} = {RevBlank(d) : d \in t.env}
      BY <1>2, Zenon
    <3> QED
      BY <2>1, <3>1, Zenon
  <2>3. ASSUME NEW e \in t.env PROVE \E d \in s.env : G!EnvDecl(d) = G!EnvDecl(e)
    <3>1. {RevBlank(d) : d \in t.env} = {RevBlank(d) : d \in s.env}
      BY <1>2, Zenon
    <3> QED
      BY <2>1, <3>1, Zenon
  <2> QED
    BY <2>2, <2>3
<1>5. /\ s.trigger.kind = t.trigger.kind /\ s.trigger.at = t.trigger.at /\ s.trigger.auth = t.trigger.auth
      /\ s.trigger.restart = t.trigger.restart /\ s.trigger.params = t.trigger.params
  <2>1. \A u \in {s.trigger, t.trigger} :
          [u EXCEPT !.key = None] = [kind |-> u.kind, at |-> u.at, auth |-> u.auth, restart |-> u.restart,
                                     params |-> u.params, key |-> None]
    <3>1. ASSUME NEW u, NEW k, NEW a, NEW h, NEW r, NEW p, NEW y,
                 u = [kind |-> k, at |-> a, auth |-> h, restart |-> r, params |-> p, key |-> y]
          PROVE  [u EXCEPT !.key = None] = [kind |-> k, at |-> a, auth |-> h, restart |-> r, params |-> p, key |-> None]
      BY <3>1
    <3>2. RevTriggerOK(s.trigger) /\ RevTriggerOK(t.trigger)
      BY <1>3
    <3>3. ASSUME NEW u \in {s.trigger, t.trigger}
          PROVE  u = [kind |-> u.kind, at |-> u.at, auth |-> u.auth, restart |-> u.restart, params |-> u.params,
                      key |-> u.key]
      BY <3>2, Zenon DEF RevTriggerOK
    <3> TAKE u \in {s.trigger, t.trigger}
    <3>4. u = [kind |-> u.kind, at |-> u.at, auth |-> u.auth, restart |-> u.restart, params |-> u.params, key |-> u.key]
      BY <3>3, Zenon
    <3> QED
      BY <3>1, <3>4
  <2>2. \A u \in {s.trigger, t.trigger} :
          LET w == [u EXCEPT !.key = None]
          IN w.kind = u.kind /\ w.at = u.at /\ w.auth = u.auth /\ w.restart = u.restart /\ w.params = u.params
    BY <2>1
  <2> QED
    BY <1>2, <2>2
<1>6. \A u \in RevSpecs :
        G!Reach(u) = [net |-> u.net, timeout |-> u.timeout, env |-> {G!EnvDecl(e) : e \in u.env},
                      params |-> {G!ParamDecl(p) : p \in u.params},
                      trigger |-> [kind |-> u.trigger.kind, at |-> u.trigger.at, auth |-> u.trigger.auth,
                                   restart |-> u.trigger.restart, params |-> DOMAIN u.trigger.params, signed |-> FALSE]]
  <2>1. ASSUME NEW u \in RevSpecs
        PROVE  G!Reach(u) = [net |-> G!Rendered(u).net, timeout |-> G!Rendered(u).timeout, env |-> G!Rendered(u).env,
                             params |-> G!Rendered(u).params, trigger |-> [G!Rendered(u).trigger EXCEPT !.signed = FALSE]]
    BY DEF G!Reach
  <2>2. ASSUME NEW u \in RevSpecs
        PROVE  /\ G!Rendered(u).net = u.net /\ G!Rendered(u).timeout = u.timeout
               /\ G!Rendered(u).env = {G!EnvDecl(e) : e \in u.env}
               /\ G!Rendered(u).params = {G!ParamDecl(p) : p \in u.params}
               /\ G!Rendered(u).trigger = G!TriggerDecl(u.trigger)
    BY DEF G!Rendered
  <2>3. ASSUME NEW t0
        PROVE  [G!TriggerDecl(t0) EXCEPT !.signed = FALSE]
               = [kind |-> t0.kind, at |-> t0.at, auth |-> t0.auth, restart |-> t0.restart,
                  params |-> DOMAIN t0.params, signed |-> FALSE]
    <3>1. ASSUME NEW a, NEW b, NEW c, NEW d, NEW f, NEW g, NEW z,
                 z = [kind |-> a, at |-> b, auth |-> c, restart |-> d, params |-> f, signed |-> g]
          PROVE  \A y : [z EXCEPT !.signed = y]
                         = [kind |-> a, at |-> b, auth |-> c, restart |-> d, params |-> f, signed |-> y]
      BY <3>1
    <3>2. PICK g : G!TriggerDecl(t0) = [kind |-> t0.kind, at |-> t0.at, auth |-> t0.auth, restart |-> t0.restart,
                               params |-> DOMAIN t0.params, signed |-> g]
      BY DEF G!TriggerDecl
    <3>3. PICK y : y = FALSE
      OBVIOUS
    <3>4. [G!TriggerDecl(t0) EXCEPT !.signed = y]
          = [kind |-> t0.kind, at |-> t0.at, auth |-> t0.auth, restart |-> t0.restart,
             params |-> DOMAIN t0.params, signed |-> y]
      BY <3>1, <3>2
    <3> QED
      BY <3>3, <3>4
  <2>4. \A u \in RevSpecs :
          [G!Rendered(u).trigger EXCEPT !.signed = FALSE]
          = [kind |-> u.trigger.kind, at |-> u.trigger.at, auth |-> u.trigger.auth, restart |-> u.trigger.restart,
             params |-> DOMAIN u.trigger.params, signed |-> FALSE]
    BY <2>2, <2>3, Zenon
  <2> QED
    BY <2>1, <2>2, <2>4, Zenon
<1> QED
  BY <1>2, <1>4, <1>5, <1>6, Zenon

LEMMA RevSameHash ==
  ASSUME RevConstants, NEW s, NEW t, NEW h, RevMatched(s, h), RevMatched(t, h)
  PROVE  G!Reach(s) = G!Reach(t)
<1>1. G!Resolved(s) = G!Resolved(t)
  BY DEF RevMatched, G!ContentHash
<1> QED
  BY <1>1, RevReach DEF RevMatched

\* Names only: the atoms of a screen are identifiers.
LEMMA RevNoLiteral ==
  ASSUME RevConstants, NEW s \in RevSpecs
  PROVE  G!Atoms(s) \cap Literals = {}
<1>1. /\ {s.name, s.image, s.net, s.timeout, s.trigger.at} \cap Literals = {}
      /\ DOMAIN s.boxEnv \cap Literals = {} /\ DOMAIN s.trigger.params \cap Literals = {}
      /\ \A p \in s.params : p.name \notin Literals
  BY DEF RevConstants, RevTriggerOK
<1>2. ASSUME NEW e \in s.env
      PROVE  ({G!EnvDecl(e).name} \cup {G!EnvDecl(e).from[i] : i \in DOMAIN G!EnvDecl(e).from}) \cap Literals = {}
  <2>1. {e.name, e.secret} \cap Literals = {} /\ (e.ref # None => \A i \in DOMAIN e.ref : e.ref[i] \notin Literals)
    BY DEF RevConstants, RevEnvOK
  <2>2. {"secret", "literal", "host"} \cap Literals = {}
    BY DEF RevConstants
  <2> DEFINE f == G!EnvDecl(e).from
  <2>3. G!EnvDecl(e).name = e.name
    BY DEF G!EnvDecl
  <2>4. f = IF e.secret # None THEN <<"secret", e.secret>>
            ELSE IF e.ref # None THEN e.ref
            ELSE IF e.value # None THEN <<"literal">> ELSE <<"host", e.name>>
    BY DEF G!EnvDecl
  <2> HIDE DEF f
  <2>5. \A i \in DOMAIN f : f[i] \notin Literals
    <3>1. CASE f = e.ref /\ e.ref # None
      BY <3>1, <2>1
    <3>2. CASE f = <<"secret", e.secret>>
      BY <3>2, <2>1, <2>2
    <3>3. CASE f = <<"literal">>
      BY <3>3, <2>2
    <3>4. CASE f = <<"host", e.name>>
      BY <3>4, <2>1, <2>2
    <3> QED
      BY <2>4, <3>1, <3>2, <3>3, <3>4
  <2> QED
    BY <2>1, <2>3, <2>5 DEF f
<1>3. G!Atoms(s) =
        {s.name, s.image, s.net, s.timeout, s.trigger.at} \cup DOMAIN s.boxEnv \cup DOMAIN s.trigger.params
        \cup (UNION {{d.name} \cup {d.from[i] : i \in DOMAIN d.from} : d \in {G!EnvDecl(e) : e \in s.env}})
        \cup {d.name : d \in {G!ParamDecl(p) : p \in s.params}}
  BY DEF G!Atoms, G!Rendered, G!TriggerDecl
<1>4. \A p : G!ParamDecl(p).name = p.name
  BY DEF G!ParamDecl
<1> DEFINE X == {s.name, s.image, s.net, s.timeout, s.trigger.at} \cup DOMAIN s.boxEnv \cup DOMAIN s.trigger.params
           Y == UNION {{d.name} \cup {d.from[i] : i \in DOMAIN d.from} : d \in {G!EnvDecl(e) : e \in s.env}}
           Z == {d.name : d \in {G!ParamDecl(p) : p \in s.params}}
<1>5. ASSUME NEW x \in Y PROVE x \notin Literals
  <2>1. PICK e \in s.env : x \in {G!EnvDecl(e).name} \cup {G!EnvDecl(e).from[i] : i \in DOMAIN G!EnvDecl(e).from}
    <3>1. PICK d \in {G!EnvDecl(e) : e \in s.env} : x \in {d.name} \cup {d.from[i] : i \in DOMAIN d.from}
      BY <1>5
    <3>2. PICK e \in s.env : d = G!EnvDecl(e)
      BY <3>1
    <3> QED
      BY <3>1, <3>2, Zenon
  <2> QED
    BY <1>2, <2>1
<1>6. ASSUME NEW x \in Z PROVE x \notin Literals
  BY <1>1, <1>4, <1>6
<1>7. \A x \in X : x \notin Literals
  BY <1>1
<1>8. ASSUME NEW x \in G!Atoms(s) PROVE x \in X \/ x \in Y \/ x \in Z
  BY <1>3, <1>8
<1> HIDE DEF X, Y, Z
<1> QED
  BY <1>5, <1>6, <1>7, <1>8

-----------------------------------------------------------------------------
(* The steps *)

RevGrant(g) ==
  /\ g.recorded = g.hash /\ RevMatched(g.shown, g.hash) /\ RevMatched(g.spec, g.hash)
  /\ g.token # None =>
       g.token \in Links /\ g.recorded = links[g.token].hash /\ g.recorded # None /\ links[g.token].used
RevStatus(g) ==
  statuses[g] # None =>
    /\ RevOld(g)
    /\ \A a \in RevSpans : a[1] = g => \A m \in statuses[g] : a[2] # 0 /\ a[3] # 0 /\ RevTrue(a[2], a[3], m)

LEMMA RevRigid ==
  /\ (RevConstants)' <=> RevConstants
  /\ RevSpecs' = RevSpecs /\ RevHashes' = RevHashes /\ RevEntries' = RevEntries /\ RevViews' = RevViews
  /\ RevMarks' = RevMarks
  /\ \A s, h : RevMatched(s, h)' <=> RevMatched(s, h)
<1>1. RevSpecs' = RevSpecs /\ RevHashes' = RevHashes
  BY DEF RevSpecs, RevHashes, G!ContentHash, G!Resolved, G!Redacted
<1> QED
  BY <1>1 DEF RevConstants, RevEntries, RevViews, RevMarks, RevEnvOK, RevTriggerOK, RevMatched, G!ContentHash,
    G!Resolved, G!Redacted

\* A screen moves on: what has to be said of it, and of what its step changed besides.
LEMMA RevSet ==
  ASSUME RevInv, NEW v \in Viewers, NEW y \in RevViews, view' = [view EXCEPT ![v] = y],
         UNCHANGED <<trees, over, rec, inRegistry>>, held' = held \/ held' = None,
         reviewLock' \in [hash : RevHashes \cup {None}, commit : Nat], reviewLock'.commit <= Len(trees),
         links' \in [Links -> [hash : RevHashes \cup {None}, used : BOOLEAN]],
         \A t \in Links : links'[t].hash = links[t].hash /\ (links[t].used => links'[t].used),
         statuses' \in [1..MaxAdmits -> RevMarks \cup {None}],
         \A g \in 1..MaxAdmits :
           statuses'[g] = statuses[g]
           \/ /\ RevOld(g)
              /\ \A a \in RevSpans : a[1] = g => \A m \in statuses'[g] : a[2] # 0 /\ a[3] # 0 /\ RevTrue(a[2], a[3], m),
         RevRead(y), RevLinked(y)', RevMarked(y), y.gen # 0 => <<y.gen, y.from, y.to>> \in RevSpans,
         \A g \in grants' : g \in grants \/ RevGrant(g)'
  PROVE  RevInv'
<1> USE DEF RevInv
<1>1. /\ trees' = trees /\ over' = over /\ rec' = rec /\ inRegistry' = inRegistry
      /\ \A w \in Viewers : view'[w] = IF w = v THEN y ELSE view[w]
      /\ \A w \in Viewers : view[w] \in RevViews
  BY DEF RevTyped
<1>2. RevTyped'
  BY <1>1, RevRigid DEF RevTyped
<1>3. RevHeld'
  BY <1>1, RevRigid DEF RevHeld
<1>4. RevSeen'
  <2>1. ASSUME NEW z \in RevViews PROVE (RevRead(z) => RevRead(z)') /\ (RevMarked(z) => RevMarked(z)')
    BY <1>1, RevRigid DEF RevRead, RevMarked, RevTrue
  <2>2. ASSUME NEW z \in RevViews, RevLinked(z) PROVE RevLinked(z)'
    BY <2>2 DEF RevLinked
  <2> QED
    BY <1>1, <2>1, <2>2 DEF RevSeen
<1>5. RevSpans' \subseteq RevSpans
  <2>1. ASSUME NEW a \in RevSpans' PROVE a \in RevSpans
    <3>1. CASE held' # None /\ a = <<held'.gen, held'.from, held'.to>>
      BY <3>1 DEF RevSpans
    <3>2. CASE \E w \in Viewers : view'[w].gen # 0 /\ a = <<view'[w].gen, view'[w].from, view'[w].to>>
      <4>1. PICK w \in Viewers : view'[w].gen # 0 /\ a = <<view'[w].gen, view'[w].from, view'[w].to>>
        BY <3>2
      <4>2. CASE w = v
        BY <4>1, <4>2, <1>1
      <4>3. CASE w # v
        BY <4>1, <4>3, <1>1 DEF RevSpans
      <4> QED
        BY <4>2, <4>3
    <3> QED
      BY <2>1, <3>1, <3>2 DEF RevSpans
  <2> QED
    BY <2>1
<1>6. RevRanges'
  <2>1. \A a, b \in RevSpans' : a[1] = b[1] => a = b
    BY <1>5 DEF RevRanges
  <2>2. \A g : RevOld(g) => RevOld(g)'
    BY <1>1 DEF RevOld
  <2>3. \A a \in RevSpans' : RevOld(a[1])' /\ a[2] \in 0..Len(trees') /\ a[3] \in 0..Len(trees')
    BY <1>1, <1>5, <2>2 DEF RevRanges
  <2>4. ASSUME NEW g \in 1..MaxAdmits, statuses'[g] # None
        PROVE  /\ RevOld(g)'
               /\ \A a \in RevSpans' : a[1] = g => \A m \in statuses'[g] : a[2] # 0 /\ a[3] # 0 /\ RevTrue(a[2], a[3], m)'
    <3>1. \A a, b, m : RevTrue(a, b, m)' <=> RevTrue(a, b, m)
      BY <1>1 DEF RevTrue
    <3>2. /\ RevOld(g)
          /\ \A a \in RevSpans : a[1] = g => \A m \in statuses'[g] : a[2] # 0 /\ a[3] # 0 /\ RevTrue(a[2], a[3], m)
      BY <2>4 DEF RevRanges
    <3> QED
      BY <1>5, <2>2, <3>1, <3>2
  <2> QED
    BY <2>1, <2>3, <2>4 DEF RevRanges
<1>7. RevGrants'
  <2>1. ASSUME NEW g \in grants' PROVE RevGrant(g)'
    <3>1. CASE g \in grants
      BY <3>1, RevRigid DEF RevGrants, RevGrant
    <3> QED
      BY <2>1, <3>1
  <2> QED
    BY <2>1 DEF RevGrants, RevGrant
<1> QED
  BY <1>2, <1>3, <1>4, <1>6, <1>7

\* The moves of a screen that change nothing else.
LEMMA RevMove ==
  ASSUME RevInv, NEW v \in Viewers, NEW y \in RevViews, view' = [view EXCEPT ![v] = y],
         UNCHANGED <<trees, over, rec, inRegistry, held, reviewLock, statuses, links, grants>>,
         RevRead(y), RevLinked(y), RevMarked(y), y.gen # 0 => <<y.gen, y.from, y.to>> \in RevSpans
  PROVE  RevInv'
<1>1. /\ reviewLock' \in [hash : RevHashes \cup {None}, commit : Nat] /\ reviewLock'.commit <= Len(trees)
      /\ links' \in [Links -> [hash : RevHashes \cup {None}, used : BOOLEAN]]
      /\ statuses' \in [1..MaxAdmits -> RevMarks \cup {None}]
  BY DEF RevInv, RevTyped
<1>2. RevLinked(y)'
  BY DEF RevLinked
<1> QED
  BY <1>1, <1>2, RevSet

\* What is known of a screen, and of the one at rest.
LEMMA RevScreen ==
  ASSUME RevInv, NEW v \in Viewers
  PROVE  /\ view[v] \in RevViews /\ RevRead(view[v]) /\ RevLinked(view[v]) /\ RevMarked(view[v])
         /\ view[v].gen # 0 => <<view[v].gen, view[v].from, view[v].to>> \in RevSpans
<1>1. view[v].gen # 0 => <<view[v].gen, view[v].from, view[v].to>> \in RevSpans
  BY DEF RevSpans
<1> QED
  BY <1>1 DEF RevInv, RevTyped, RevSeen
LEMMA RevIdle ==
  ASSUME RevConstants
  PROVE  G!Idle \in RevViews /\ RevRead(G!Idle) /\ RevLinked(G!Idle) /\ RevMarked(G!Idle) /\ G!Idle.gen = 0
         /\ G!Idle.from = 0 /\ G!Idle.to = 0 /\ G!Idle.marks = {} /\ G!Idle.token = None
<1>1. G!Idle \in RevViews
  BY DEF G!Idle, RevViews, RevMarks
<1>2. /\ G!Idle.pc = "idle" /\ G!Idle.how = None /\ G!Idle.gen = 0 /\ G!Idle.from = 0 /\ G!Idle.to = 0
      /\ G!Idle.marks = {} /\ G!Idle.token = None /\ G!Idle.hash = None
  BY DEF G!Idle
<1>3. None # "link"
  BY DEF RevConstants
<1> QED
  BY <1>1, <1>2, <1>3 DEF RevRead, RevLinked, RevMarked, RevActs

LEMMA RevOpen == ASSUME RevInv, NEW v \in Viewers, G!Open(v) PROVE RevInv'
<1>1. PICK y : y = [G!Idle EXCEPT !.pc = "read", !.how = "page", !.spec = inRegistry]
  OBVIOUS
<1>2. /\ view' = [view EXCEPT ![v] = y] /\ inRegistry # None
      /\ UNCHANGED <<trees, over, rec, inRegistry, held, reviewLock, statuses, links, grants>>
  BY <1>1 DEF G!Open, G!See
<1>3. RevConstants /\ inRegistry \in RevSpecs
  BY <1>2 DEF RevInv, RevTyped
<1>4. /\ y \in RevViews
      /\ y.pc = "read" /\ y.how = "page" /\ y.spec = inRegistry /\ y.from = 0 /\ y.gen = 0 /\ y.marks = {} /\ y.token = None /\ y.hash = None
  BY <1>1, <1>3 DEF G!Idle, RevViews, RevMarks
<1>5. RevRead(y) /\ RevLinked(y) /\ RevMarked(y)
  BY <1>3, <1>4 DEF RevRead, RevLinked, RevMarked, RevActs, RevConstants
<1> QED
  BY <1>2, <1>4, <1>5, RevMove

LEMMA RevOpenLink == ASSUME RevInv, NEW v \in Viewers, G!OpenLink(v) PROVE RevInv'
<1>1. PICK t \in Links : /\ G!Live(t)
                         /\ view' = [view EXCEPT ![v] = [G!Idle EXCEPT !.pc = "read", !.how = "link", !.token = t,
                                                                       !.hash = links[t].hash]]
  BY DEF G!OpenLink, G!See
<1>2. PICK y : y = [G!Idle EXCEPT !.pc = "read", !.how = "link", !.token = t, !.hash = links[t].hash]
  OBVIOUS
<1>3. /\ view' = [view EXCEPT ![v] = y]
      /\ UNCHANGED <<trees, over, rec, inRegistry, held, reviewLock, statuses, links, grants>>
  BY <1>1, <1>2 DEF G!OpenLink
<1>4. RevConstants /\ links[t].hash \in RevHashes
  BY <1>1 DEF RevInv, RevTyped, G!Live
<1>5. /\ y \in RevViews
      /\ y.pc = "read" /\ y.how = "link" /\ y.hash = links[t].hash /\ y.from = 0 /\ y.gen = 0 /\ y.marks = {} /\ y.token = t
  BY <1>2, <1>4 DEF G!Idle, RevViews, RevMarks
<1>6. RevRead(y) /\ RevLinked(y) /\ RevMarked(y)
  BY <1>1, <1>4, <1>5 DEF RevRead, RevLinked, RevMarked, RevActs, RevConstants, G!Live
<1> QED
  BY <1>3, <1>5, <1>6, RevMove

LEMMA RevReadIt == ASSUME RevInv, NEW v \in Viewers, G!Read(v) PROVE RevInv'
<1> DEFINE x == view[v]
<1>1. /\ RevConstants /\ x \in RevViews /\ RevRead(x) /\ RevLinked(x) /\ RevMarked(x) /\ x.pc = "read"
      /\ UNCHANGED <<trees, over, rec, inRegistry, held, reviewLock, statuses, links, grants>>
  BY RevScreen DEF G!Read, RevInv, RevTyped
<1>2. CASE held # None /\ (x.how = "link" => held.hash = x.hash)
  <2>1. PICK y : y = [x EXCEPT !.pc = IF x.how = "link" THEN "shown" ELSE "files", !.spec = held.spec,
                               !.hash = held.hash, !.from = held.from, !.to = held.to, !.gen = held.gen]
    OBVIOUS
  <2>2. view' = [view EXCEPT ![v] = y]
    BY <1>2, <2>1 DEF G!Read, G!See
  <2>3. held \in RevEntries /\ RevMatched(held.spec, held.hash) /\ held.gen # 0 /\ <<held.gen, held.from, held.to>> \in RevSpans
    BY <1>2 DEF RevInv, RevHeld, RevSpans
  <2>4. /\ y \in RevViews
        /\ y.pc = (IF x.how = "link" THEN "shown" ELSE "files") /\ y.spec = held.spec /\ y.hash = held.hash
        /\ y.from = held.from /\ y.to = held.to /\ y.gen = held.gen /\ y.marks = x.marks /\ y.how = x.how
        /\ y.token = x.token
    BY <1>1, <2>1, <2>3 DEF RevViews, RevEntries
  <2>5. RevRead(y)
    BY <1>1, <2>3, <2>4 DEF RevRead, RevActs
  <2>6. RevLinked(y)
    BY <1>1, <1>2, <2>4 DEF RevLinked, RevActs
  <2>7. RevMarked(y)
    BY <1>1, <2>3, <2>4 DEF RevMarked
  <2> QED
    BY <1>1, <2>2, <2>3, <2>4, <2>5, <2>6, <2>7, RevMove
<1>3. CASE view' = [view EXCEPT ![v] = G!Idle]
  BY <1>1, <1>3, RevIdle, RevMove
<1>4. CASE held = None /\ x.how = "page" /\ view' = [view EXCEPT ![v] = [x EXCEPT !.pc = "files"]]
  <2>1. PICK y : y = [x EXCEPT !.pc = "files"]
    OBVIOUS
  <2>2. /\ y \in RevViews /\ y.pc = "files" /\ y.spec = x.spec /\ y.hash = x.hash /\ y.from = x.from /\ y.to = x.to
        /\ y.gen = x.gen /\ y.marks = x.marks /\ y.how = x.how /\ y.token = x.token
    BY <1>1, <2>1 DEF RevViews
  <2>3. y.hash = None
    BY <1>1, <1>4, <2>2 DEF RevRead
  <2> QED
    BY <1>1, <1>4, <2>1, <2>2, <2>3, RevMove DEF RevRead, RevLinked, RevMarked, RevActs
<1> QED
  BY <1>2, <1>3, <1>4 DEF G!Read, G!See

LEMMA RevList == ASSUME RevInv, NEW v \in Viewers, G!List(v) PROVE RevInv'
<1> DEFINE x == view[v]
           new == [x EXCEPT !.pc = IF x.from = 0 \/ x.to = 0 THEN "shown" ELSE "marks",
                            !.names = {f \in Files : G!Disk[f] # 0}]
<1>1. /\ RevConstants /\ x \in RevViews /\ RevRead(x) /\ RevLinked(x) /\ RevMarked(x) /\ x.pc = "files"
      /\ x.gen # 0 => <<x.gen, x.from, x.to>> \in RevSpans
      /\ UNCHANGED <<trees, over, rec, inRegistry, held, reviewLock, statuses, links, grants>>
      /\ view' = [view EXCEPT ![v] = new]
  BY RevScreen DEF G!List, G!See, RevInv, RevTyped
<1>2. PICK y : y = new
  OBVIOUS
<1>3. /\ y \in RevViews /\ y.pc = (IF x.from = 0 \/ x.to = 0 THEN "shown" ELSE "marks") /\ y.spec = x.spec
      /\ y.hash = x.hash /\ y.from = x.from /\ y.to = x.to /\ y.gen = x.gen /\ y.marks = x.marks /\ y.how = x.how
      /\ y.token = x.token
  BY <1>1, <1>2 DEF RevViews
<1>4. RevRead(y) /\ RevLinked(y) /\ RevMarked(y)
  BY <1>1, <1>3 DEF RevRead, RevLinked, RevMarked, RevActs
<1> QED
  BY <1>1, <1>2, <1>3, <1>4, RevMove

\* What is computed is true of its range.
LEMMA RevMoved ==
  ASSUME NEW a, NEW b, NEW names \in SUBSET Files
  PROVE  G!Moved(a, b, names) \in RevMarks /\ \A m \in G!Moved(a, b, names) : RevTrue(a, b, m)
<1>1. ASSUME NEW m \in G!Moved(a, b, names)
      PROVE  m \in Files \X {"new", "changed"} /\ RevTrue(a, b, m)
  <2>1. CASE \E f \in names : m = <<f, "new">> /\ trees[b][f] # 0 /\ trees[a][f] = 0
    BY <2>1 DEF RevTrue
  <2>2. CASE \E f \in names : m = <<f, "changed">> /\ trees[b][f] # 0 /\ trees[a][f] \notin {0, trees[b][f]}
    BY <2>2 DEF RevTrue
  <2> QED
    BY <1>1, <2>1, <2>2 DEF G!Moved
<1> QED
  BY <1>1 DEF RevMarks

LEMMA RevMark == ASSUME RevInv, NEW v \in Viewers, G!Mark(v) PROVE RevInv'
<1> DEFINE x == view[v]
<1>1. /\ RevConstants /\ x \in RevViews /\ RevRead(x) /\ RevLinked(x) /\ RevMarked(x) /\ x.pc = "marks"
      /\ x.from # 0 /\ x.to # 0 /\ x.gen # 0 /\ <<x.gen, x.from, x.to>> \in RevSpans
      /\ UNCHANGED <<trees, over, rec, inRegistry, held, reviewLock, links, grants>>
  BY RevScreen DEF G!Mark, RevInv, RevTyped, RevMarked
<1>2. PICK found \in IF statuses[x.gen] # None THEN {statuses[x.gen]}
                     ELSE {G!Moved(x.from, x.to, x.names), {}} :
        /\ statuses' = [statuses EXCEPT ![x.gen] = found]
        /\ view' = [view EXCEPT ![v] = [x EXCEPT !.pc = "shown", !.marks = {m \in found : m[1] \in x.names}]]
  BY DEF G!Mark, G!See
<1>3. /\ statuses \in [1..MaxAdmits -> RevMarks \cup {None}] /\ MaxAdmits \in Nat
      /\ rec.gen \in 0..MaxAdmits /\ x.gen \in 1..rec.gen /\ RevOld(x.gen)
      /\ \A a, b \in RevSpans : a[1] = b[1] => a = b
      /\ reviewLock \in [hash : RevHashes \cup {None}, commit : Nat] /\ reviewLock.commit <= Len(trees)
      /\ links \in [Links -> [hash : RevHashes \cup {None}, used : BOOLEAN]]
  <2>1. RevOld(<<x.gen, x.from, x.to>>[1])
    BY <1>1 DEF RevInv, RevRanges
  <2>2. RevOld(x.gen)
    BY <2>1
  <2> QED
    BY <2>2 DEF RevInv, RevTyped, RevConstants, RevRanges, RevOld
<1>4. x.gen \in 1..MaxAdmits
  BY <1>3
<1>5. /\ found \in RevMarks /\ \A m \in found : RevTrue(x.from, x.to, m)
      /\ \A a \in RevSpans : a[1] = x.gen => a = <<x.gen, x.from, x.to>>
  <2>1. \A a \in RevSpans : a[1] = x.gen => a = <<x.gen, x.from, x.to>>
    BY <1>1, <1>3
  <2>2. CASE statuses[x.gen] # None
    <3>1. found = statuses[x.gen] /\ found \in RevMarks
      BY <1>2, <1>3, <1>4, <2>2
    <3>2. \A a \in RevSpans : a[1] = x.gen => \A m \in statuses[x.gen] : RevTrue(a[2], a[3], m)
      BY <1>4, <2>2 DEF RevInv, RevRanges
    <3> QED
      BY <1>1, <2>1, <3>1, <3>2
  <2>3. CASE statuses[x.gen] = None
    <3>1. found = G!Moved(x.from, x.to, x.names) \/ found = {}
      BY <1>2, <2>3
    <3>2. x.names \in SUBSET Files
      BY <1>1 DEF RevViews
    <3> QED
      BY <2>1, <3>1, <3>2, RevMoved DEF RevMarks
  <2> QED
    BY <2>2, <2>3
<1>6. PICK y : y = [x EXCEPT !.pc = "shown", !.marks = {m \in found : m[1] \in x.names}]
  OBVIOUS
<1>7. /\ y \in RevViews /\ y.pc = "shown" /\ y.spec = x.spec /\ y.hash = x.hash /\ y.from = x.from /\ y.to = x.to
      /\ y.gen = x.gen /\ y.marks \subseteq found /\ y.how = x.how /\ y.token = x.token
  <2>1. {m \in found : m[1] \in x.names} \in RevMarks
    BY <1>5 DEF RevMarks
  <2> QED
    BY <1>1, <1>6, <2>1 DEF RevViews
<1>8. RevRead(y) /\ RevLinked(y)' /\ RevMarked(y)
  BY <1>1, <1>5, <1>7 DEF RevRead, RevLinked, RevMarked, RevActs
<1>9. /\ statuses' \in [1..MaxAdmits -> RevMarks \cup {None}]
      /\ \A g \in 1..MaxAdmits : statuses'[g] = IF g = x.gen THEN found ELSE statuses[g]
  BY <1>2, <1>3, <1>4, <1>5
<1>10. \A g \in 1..MaxAdmits :
         statuses'[g] = statuses[g]
         \/ /\ RevOld(g)
            /\ \A a \in RevSpans : a[1] = g => \A m \in statuses'[g] : a[2] # 0 /\ a[3] # 0 /\ RevTrue(a[2], a[3], m)
  <2>1. ASSUME NEW a \in RevSpans, a[1] = x.gen PROVE a[2] = x.from /\ a[3] = x.to
    BY <1>5, <2>1
  <2> QED
    BY <1>1, <1>3, <1>5, <1>9, <2>1
<1>11. view' = [view EXCEPT ![v] = y]
  BY <1>2, <1>6
<1> HIDE DEF x
<1> QED
  BY <1>1, <1>3, <1>7, <1>8, <1>9, <1>10, <1>11, RevSet

LEMMA RevClick == ASSUME RevInv, NEW v \in Viewers, G!Click(v) PROVE RevInv'
<1> DEFINE x == view[v]
<1>1. /\ RevConstants /\ x \in RevViews /\ RevRead(x) /\ RevLinked(x) /\ RevMarked(x) /\ x.pc = "shown"
      /\ x.gen # 0 => <<x.gen, x.from, x.to>> \in RevSpans
      /\ UNCHANGED <<trees, over, rec, inRegistry, held, reviewLock, statuses, links, grants>>
  BY RevScreen DEF G!Click, RevInv, RevTyped
<1>2. CASE view' = [view EXCEPT ![v] = G!Idle]
  BY <1>1, <1>2, RevIdle, RevMove
<1>3. CASE x.how = "page" /\ x.hash # None /\ view' = [view EXCEPT ![v] = [x EXCEPT !.pc = "approve"]]
  <2>1. PICK y : y = [x EXCEPT !.pc = "approve"]
    OBVIOUS
  <2>2. /\ y \in RevViews /\ y.pc = "approve" /\ y.spec = x.spec /\ y.hash = x.hash /\ y.from = x.from /\ y.to = x.to
        /\ y.gen = x.gen /\ y.marks = x.marks /\ y.how = x.how /\ y.token = x.token
    BY <1>1, <2>1 DEF RevViews
  <2>3. y.how # "link"
    BY <1>3, <2>2
  <2> QED
    BY <1>1, <1>3, <2>1, <2>2, <2>3, RevMove DEF RevRead, RevLinked, RevMarked, RevActs
<1> QED
  BY <1>2, <1>3 DEF G!Click, G!See

LEMMA RevRedeem == ASSUME RevInv, NEW v \in Viewers, G!Redeem(v) PROVE RevInv'
<1> DEFINE x == view[v]
<1>1. /\ RevConstants /\ x \in RevViews /\ RevRead(x) /\ RevLinked(x) /\ RevMarked(x) /\ x.pc = "shown" /\ x.how = "link"
      /\ x.gen # 0 => <<x.gen, x.from, x.to>> \in RevSpans
      /\ UNCHANGED <<trees, over, rec, inRegistry, held, reviewLock, statuses, grants>>
      /\ links' = [links EXCEPT ![x.token].used = TRUE]
      /\ view' = [view EXCEPT ![v] = IF G!Live(x.token) THEN [x EXCEPT !.pc = "approve"] ELSE G!Idle]
  BY RevScreen DEF G!Redeem, G!See, RevInv, RevTyped
<1>2. x.token \in Links /\ links[x.token].hash = x.hash /\ x.hash # None
  BY <1>1 DEF RevLinked
<1>3. /\ reviewLock' \in [hash : RevHashes \cup {None}, commit : Nat] /\ reviewLock'.commit <= Len(trees)
      /\ statuses' \in [1..MaxAdmits -> RevMarks \cup {None}]
      /\ links \in [Links -> [hash : RevHashes \cup {None}, used : BOOLEAN]]
  BY <1>1 DEF RevInv, RevTyped
<1>4. /\ links' \in [Links -> [hash : RevHashes \cup {None}, used : BOOLEAN]]
      /\ \A t \in Links : links'[t].hash = links[t].hash /\ (links[t].used => links'[t].used)
      /\ links'[x.token].used
  BY <1>1, <1>2, <1>3
<1>5. PICK y : y = IF G!Live(x.token) THEN [x EXCEPT !.pc = "approve"] ELSE G!Idle
  OBVIOUS
<1>6. y \in RevViews /\ RevRead(y) /\ RevLinked(y)' /\ RevMarked(y) /\ (y.gen # 0 => <<y.gen, y.from, y.to>> \in RevSpans)
  <2>1. CASE ~G!Live(x.token)
    <3>1. y = G!Idle
      BY <1>5, <2>1
    <3>2. G!Idle.token = None /\ G!Idle.how = None /\ None # "link"
      BY <1>1 DEF G!Idle, RevConstants
    <3> QED
      BY <1>1, <3>1, <3>2, RevIdle DEF RevLinked
  <2>2. CASE G!Live(x.token)
    <3>1. /\ y \in RevViews /\ y.pc = "approve" /\ y.spec = x.spec /\ y.hash = x.hash /\ y.from = x.from /\ y.to = x.to
          /\ y.gen = x.gen /\ y.marks = x.marks /\ y.how = x.how /\ y.token = x.token
      BY <1>1, <1>5, <2>2 DEF RevViews
    <3>2. RevRead(y)
      BY <1>1, <1>2, <3>1 DEF RevRead, RevActs
    <3>3. RevLinked(y)'
      BY <1>1, <1>2, <1>4, <3>1 DEF RevLinked
    <3> QED
      BY <1>1, <3>1, <3>2, <3>3 DEF RevMarked
  <2> QED
    BY <2>1, <2>2
<1>7. view' = [view EXCEPT ![v] = y]
  BY <1>1, <1>5
<1> HIDE DEF x
<1> QED
  BY <1>1, <1>3, <1>4, <1>6, <1>7, RevSet

LEMMA RevCheck == ASSUME RevInv, NEW v \in Viewers, G!Check(v) PROVE RevInv'
<1> DEFINE x == view[v]
<1>1. /\ RevConstants /\ x \in RevViews /\ RevRead(x) /\ RevLinked(x) /\ RevMarked(x) /\ x.pc = "approve"
      /\ x.gen # 0 => <<x.gen, x.from, x.to>> \in RevSpans
      /\ UNCHANGED <<trees, over, rec, inRegistry, held, reviewLock, statuses, links, grants>>
      /\ view' = [view EXCEPT ![v] = IF G!Matches(v) THEN [x EXCEPT !.pc = "record", !.ent = held] ELSE G!Idle]
  BY RevScreen DEF G!Check, G!See, RevInv, RevTyped
<1>2. CASE ~G!Matches(v)
  BY <1>1, <1>2, RevIdle, RevMove
<1>3. CASE G!Matches(v)
  <2>1. PICK y : y = [x EXCEPT !.pc = "record", !.ent = held]
    OBVIOUS
  <2>2. held \in RevEntries /\ RevMatched(held.spec, held.hash) /\ held.to <= Len(trees) /\ held.hash = x.hash
    BY <1>3 DEF RevInv, RevHeld, G!Matches
  <2>3. /\ y \in RevViews /\ y.pc = "record" /\ y.spec = x.spec /\ y.hash = x.hash /\ y.from = x.from /\ y.to = x.to
        /\ y.gen = x.gen /\ y.marks = x.marks /\ y.how = x.how /\ y.token = x.token /\ y.ent = held
    BY <1>1, <2>1, <2>2 DEF RevViews
  <2>4. RevRead(y) /\ RevLinked(y) /\ RevMarked(y)
    BY <1>1, <2>2, <2>3 DEF RevRead, RevLinked, RevMarked, RevActs
  <2> QED
    BY <1>1, <1>3, <2>1, <2>3, <2>4, RevMove
<1> QED
  BY <1>2, <1>3

LEMMA RevRecord == ASSUME RevInv, NEW v \in Viewers, G!Record(v) PROVE RevInv'
<1> DEFINE x == view[v]
<1>1. /\ RevConstants /\ x \in RevViews /\ RevRead(x) /\ RevLinked(x) /\ RevMarked(x) /\ x.pc = "record"
      /\ x.gen # 0 => <<x.gen, x.from, x.to>> \in RevSpans
      /\ UNCHANGED <<trees, over, rec, inRegistry, held, statuses, links, grants>>
      /\ reviewLock' = IF reviewLock.hash = x.ent.hash THEN reviewLock ELSE [hash |-> x.ent.hash, commit |-> x.ent.to]
      /\ view' = [view EXCEPT ![v] = [x EXCEPT !.pc = "arm"]]
  BY RevScreen DEF G!Record, G!See, RevInv, RevTyped
<1>2. x.ent \in RevEntries /\ x.ent.to <= Len(trees) /\ x.ent.hash \in RevHashes /\ x.ent.to \in Nat
  BY <1>1 DEF RevRead, RevEntries
<1>3. /\ reviewLock' \in [hash : RevHashes \cup {None}, commit : Nat] /\ reviewLock'.commit <= Len(trees)
      /\ statuses' \in [1..MaxAdmits -> RevMarks \cup {None}]
      /\ links' \in [Links -> [hash : RevHashes \cup {None}, used : BOOLEAN]]
  BY <1>1, <1>2 DEF RevInv, RevTyped
<1>4. PICK y : y = [x EXCEPT !.pc = "arm"]
  OBVIOUS
<1>5. /\ y \in RevViews /\ y.pc = "arm" /\ y.spec = x.spec /\ y.hash = x.hash /\ y.from = x.from /\ y.to = x.to
      /\ y.gen = x.gen /\ y.marks = x.marks /\ y.how = x.how /\ y.token = x.token /\ y.ent = x.ent
  BY <1>1, <1>4 DEF RevViews
<1>6. RevRead(y) /\ RevLinked(y)' /\ RevMarked(y)
  BY <1>1, <1>5 DEF RevRead, RevLinked, RevMarked, RevActs
<1>7. view' = [view EXCEPT ![v] = y] /\ (y.gen # 0 => <<y.gen, y.from, y.to>> \in RevSpans)
  BY <1>1, <1>4, <1>5
<1> HIDE DEF x
<1> QED
  BY <1>1, <1>3, <1>5, <1>6, <1>7, RevSet

LEMMA RevArm == ASSUME RevInv, NEW v \in Viewers, G!Arm(v) PROVE RevInv'
<1> DEFINE x == view[v]
           grant == [shown |-> x.spec, hash |-> x.hash, spec |-> x.ent.spec, recorded |-> x.ent.hash,
                     token |-> x.token]
<1>1. /\ RevConstants /\ x \in RevViews /\ RevRead(x) /\ RevLinked(x) /\ RevMarked(x) /\ x.pc = "arm"
      /\ x.gen # 0 => <<x.gen, x.from, x.to>> \in RevSpans
      /\ UNCHANGED <<trees, over, rec, inRegistry, held, reviewLock, statuses, links>>
      /\ grants' = grants \cup {grant}
      /\ view' = [view EXCEPT ![v] = [x EXCEPT !.pc = "clear"]]
  BY RevScreen DEF G!Arm, G!See, RevInv, RevTyped
<1>2. /\ reviewLock' \in [hash : RevHashes \cup {None}, commit : Nat] /\ reviewLock'.commit <= Len(trees)
      /\ statuses' \in [1..MaxAdmits -> RevMarks \cup {None}]
      /\ links' \in [Links -> [hash : RevHashes \cup {None}, used : BOOLEAN]]
  BY <1>1 DEF RevInv, RevTyped
<1>3. PICK y : y = [x EXCEPT !.pc = "clear"]
  OBVIOUS
<1>4. /\ y \in RevViews /\ y.pc = "clear" /\ y.spec = x.spec /\ y.hash = x.hash /\ y.from = x.from /\ y.to = x.to
      /\ y.gen = x.gen /\ y.marks = x.marks /\ y.how = x.how /\ y.token = x.token /\ y.ent = x.ent
  BY <1>1, <1>3 DEF RevViews
<1>5. RevRead(y) /\ RevLinked(y)' /\ RevMarked(y)
  BY <1>1, <1>4 DEF RevRead, RevLinked, RevMarked, RevActs
<1>6. PICK c : c = grant
  OBVIOUS
<1>9. RevGrant(c)'
  <2>1. RevMatched(x.spec, x.hash) /\ RevMatched(x.ent.spec, x.ent.hash) /\ x.ent.hash = x.hash
    BY <1>1 DEF RevRead, RevActs
  <2>2. x.token # None => x.token \in Links /\ links[x.token].hash = x.hash /\ x.hash # None /\ links[x.token].used
    BY <1>1 DEF RevLinked, RevActs
  <2>3. c.shown = x.spec /\ c.hash = x.hash /\ c.spec = x.ent.spec /\ c.recorded = x.ent.hash /\ c.token = x.token
    BY <1>6
  <2>4. RevGrant(c)
    BY <2>1, <2>2, <2>3 DEF RevGrant
  <2> QED
    BY <1>1, <2>4, RevRigid DEF RevGrant
<1>7. view' = [view EXCEPT ![v] = y] /\ (y.gen # 0 => <<y.gen, y.from, y.to>> \in RevSpans)
  BY <1>1, <1>3, <1>4
<1>8. \A g \in grants' : g \in grants \/ RevGrant(g)'
  BY <1>1, <1>6, <1>9
<1> HIDE DEF x, grant
<1> QED
  BY <1>1, <1>2, <1>4, <1>5, <1>7, <1>8, RevSet

LEMMA RevClear == ASSUME RevInv, NEW v \in Viewers, G!Clear(v) PROVE RevInv'
<1>1. /\ RevConstants
      /\ UNCHANGED <<trees, over, rec, inRegistry, reviewLock, statuses, links, grants>>
      /\ held' = held \/ held' = None
      /\ view' = [view EXCEPT ![v] = G!Idle]
  BY DEF G!Clear, G!See, RevInv, RevTyped
<1>2. /\ reviewLock' \in [hash : RevHashes \cup {None}, commit : Nat] /\ reviewLock'.commit <= Len(trees)
      /\ statuses' \in [1..MaxAdmits -> RevMarks \cup {None}]
      /\ links' \in [Links -> [hash : RevHashes \cup {None}, used : BOOLEAN]]
  BY <1>1 DEF RevInv, RevTyped
<1>3. PICK y : y = G!Idle
  OBVIOUS
<1>4. y \in RevViews /\ RevRead(y) /\ RevLinked(y) /\ RevMarked(y) /\ y.gen = 0
  BY <1>1, <1>3, RevIdle
<1>5. RevLinked(y)'
  BY <1>1, <1>4 DEF RevLinked
<1>6. view' = [view EXCEPT ![v] = y]
  BY <1>1, <1>3
<1> QED
  BY <1>1, <1>2, <1>4, <1>5, <1>6, RevSet

\* The reconciler moves on: a new range is of a generation nothing is of.
LEMMA RevStay ==
  ASSUME RevInv, NEW n, UNCHANGED <<trees, view, statuses, reviewLock, links, grants>>, over' \in Overs,
         inRegistry' \in RevSpecs \cup {None}, held' \in RevEntries \cup {None},
         rec' \in [pc : {"idle", "hash", "decide", "commit", "pend"}, spec : RevSpecs \cup {None},
                   hash : RevHashes \cup {None}, commit : Nat, gen : 0..MaxAdmits],
         RevHeld', \A g : RevOld(g) => RevOld(g)',
         held' # None => held' = held \/ (/\ held'.gen = n /\ ~RevOld(n) /\ RevOld(n)'
                                          /\ held'.from \in 0..Len(trees) /\ held'.to \in 0..Len(trees))
  PROVE  RevInv'
<1> USE DEF RevInv
<1>1. /\ trees' = trees /\ view' = view /\ statuses' = statuses /\ reviewLock' = reviewLock /\ links' = links
      /\ grants' = grants
  OBVIOUS
<1>2. RevTyped'
  BY <1>1, RevRigid DEF RevTyped
<1>3. RevSeen'
  BY <1>1, RevRigid DEF RevSeen, RevRead, RevLinked, RevMarked, RevTrue
<1>4. ASSUME NEW a \in RevSpans', a \notin RevSpans
      PROVE  a = <<n, held'.from, held'.to>> /\ held' # None /\ held' # held /\ a[1] = n
  BY <1>1, <1>4 DEF RevSpans
<1>5. \A a, b \in RevSpans' : a[1] = b[1] => a = b
  <2>1. ASSUME NEW a \in RevSpans', NEW b \in RevSpans', a[1] = b[1], a \notin RevSpans PROVE a = b
    <3>1. a = <<n, held'.from, held'.to>> /\ ~RevOld(n) /\ a[1] = n
      BY <1>4, <2>1
    <3>2. ~RevOld(b[1])
      BY <2>1, <3>1
    <3>3. b \notin RevSpans
      BY <3>2 DEF RevRanges
    <3> QED
      BY <1>4, <3>1, <3>3
  <2>2. ASSUME NEW a \in RevSpans', NEW b \in RevSpans', a[1] = b[1] PROVE a = b
    <3>1. CASE a \in RevSpans /\ b \in RevSpans
      BY <2>2, <3>1 DEF RevRanges
    <3>2. CASE a \notin RevSpans
      BY <2>1, <2>2, <3>2
    <3>3. CASE b \notin RevSpans
      BY <2>1, <2>2, <3>3
    <3> QED
      BY <3>1, <3>2, <3>3
  <2> QED
    BY <2>2
<1>6. ASSUME NEW a \in RevSpans' PROVE RevOld(a[1])' /\ a[2] \in 0..Len(trees) /\ a[3] \in 0..Len(trees)
  <2>1. CASE a \in RevSpans
    BY <2>1 DEF RevRanges
  <2>2. CASE a \notin RevSpans
    <3>1. /\ a = <<n, held'.from, held'.to>> /\ held'.from \in 0..Len(trees) /\ held'.to \in 0..Len(trees)
          /\ a[1] = n /\ RevOld(n)'
      BY <1>4, <2>2
    <3>2. RevOld(a[1])'
      BY <3>1
    <3> QED
      BY <3>1, <3>2
  <2> QED
    BY <2>1, <2>2
<1>7. ASSUME NEW g \in 1..MaxAdmits, statuses[g] # None
      PROVE  /\ RevOld(g)'
             /\ \A a \in RevSpans' : a[1] = g => \A m \in statuses[g] : a[2] # 0 /\ a[3] # 0 /\ RevTrue(a[2], a[3], m)
  <2>1. /\ RevOld(g) /\ RevOld(g)'
        /\ \A a \in RevSpans : a[1] = g => \A m \in statuses[g] : a[2] # 0 /\ a[3] # 0 /\ RevTrue(a[2], a[3], m)
    BY <1>7 DEF RevRanges
  <2>2. ASSUME NEW a \in RevSpans', a[1] = g PROVE a \in RevSpans
    <3>1. SUFFICES ASSUME a \notin RevSpans PROVE FALSE
      OBVIOUS
    <3>2. a[1] = n /\ ~RevOld(n)
      BY <1>4, <3>1
    <3> QED
      BY <2>1, <2>2, <3>2
  <2> QED
    BY <2>1, <2>2
<1>8. RevRanges'
  BY <1>1, <1>5, <1>6, <1>7 DEF RevRanges, RevTrue
<1>9. RevGrants'
  BY <1>1, RevRigid DEF RevGrants
<1> QED
  BY <1>2, <1>3, <1>8, <1>9

LEMMA RevDisk == ASSUME RevInv
  PROVE  /\ G!Disk \in FileSets /\ SpecOf[<<G!Disk["yaml"], over>>] \in RevSpecs
         /\ \A s \in RevSpecs : G!ContentHash(s, G!Disk) \in RevHashes /\ RevMatched(s, G!ContentHash(s, G!Disk))
<1>1. G!Disk \in FileSets /\ over \in Overs
  BY DEF RevInv, RevTyped, G!Disk
<1>2. SpecOf[<<G!Disk["yaml"], over>>] \in RevSpecs
  BY <1>1 DEF RevSpecs
<1>3. \A s \in RevSpecs : G!ContentHash(s, G!Disk) \in RevHashes
  BY <1>1 DEF RevHashes
<1>4. \A s \in RevSpecs : RevMatched(s, G!ContentHash(s, G!Disk))
  BY <1>1 DEF RevMatched
<1> QED
  BY <1>1, <1>2, <1>3, <1>4

LEMMA RevOverride == ASSUME RevInv, G!Override PROVE RevInv'
<1>1. /\ UNCHANGED <<trees, view, statuses, reviewLock, links, grants, rec, inRegistry, held>> /\ over' \in Overs
  BY DEF G!Override
<1>2. RevHeld' /\ \A g : RevOld(g) => RevOld(g)'
  BY <1>1, RevRigid DEF RevInv, RevHeld, RevOld
<1> QED
  BY <1>1, <1>2, RevStay DEF RevInv, RevTyped

LEMMA RevLoad == ASSUME RevInv, G!Load PROVE RevInv'
<1>1. PICK s : s = SpecOf[<<G!Disk["yaml"], over>>]
  OBVIOUS
<1>2. s \in RevSpecs
  BY <1>1, RevDisk
<1>3. /\ UNCHANGED <<trees, view, statuses, reviewLock, links, grants, over, held>> /\ inRegistry' = s
      /\ rec.pc = "idle" /\ rec.gen < MaxAdmits /\ rec' = [rec EXCEPT !.pc = "hash", !.spec = s, !.gen = rec.gen + 1]
  BY <1>1 DEF G!Load
<1>4. /\ rec' \in [pc : {"idle", "hash", "decide", "commit", "pend"}, spec : RevSpecs \cup {None},
                   hash : RevHashes \cup {None}, commit : Nat, gen : 0..MaxAdmits]
      /\ rec'.pc = "hash" /\ rec'.spec = s /\ rec'.gen = rec.gen + 1 /\ rec.gen \in Nat
  <2>1. /\ MaxAdmits \in Nat
        /\ rec \in [pc : {"idle", "hash", "decide", "commit", "pend"}, spec : RevSpecs \cup {None},
                   hash : RevHashes \cup {None}, commit : Nat, gen : 0..MaxAdmits]
    BY DEF RevInv, RevTyped, RevConstants
  <2>2. rec.gen \in Nat /\ rec.gen + 1 \in 0..MaxAdmits
    BY <1>3, <2>1
  <2>3. PICK n : n = rec.gen + 1
    OBVIOUS
  <2>4. rec' = [rec EXCEPT !.pc = "hash", !.spec = s, !.gen = n] /\ n \in 0..MaxAdmits
    BY <1>3, <2>2, <2>3
  <2> QED
    BY <1>2, <1>3, <2>1, <2>2, <2>3, <2>4
<1>5. RevHeld'
  BY <1>2, <1>3, <1>4, RevRigid DEF RevInv, RevHeld
<1>6. \A g : RevOld(g) => RevOld(g)'
  BY <1>3, <1>4 DEF RevOld
<1> QED
  BY <1>2, <1>3, <1>4, <1>5, <1>6, RevStay DEF RevInv, RevTyped

LEMMA RevHash == ASSUME RevInv, G!Hash PROVE RevInv'
<1>1. PICK h : h = G!ContentHash(rec.spec, G!Disk)
  OBVIOUS
<1>2. /\ UNCHANGED <<trees, view, statuses, reviewLock, links, grants, over, held, inRegistry>>
      /\ rec.pc = "hash" /\ rec' = [rec EXCEPT !.pc = "decide", !.hash = h]
  BY <1>1 DEF G!Hash
<1>3. rec.spec \in RevSpecs
  BY <1>2 DEF RevInv, RevHeld
<1>4. h \in RevHashes /\ RevMatched(rec.spec, h)
  BY <1>1, <1>3, RevDisk
<1>5. /\ rec' \in [pc : {"idle", "hash", "decide", "commit", "pend"}, spec : RevSpecs \cup {None},
                   hash : RevHashes \cup {None}, commit : Nat, gen : 0..MaxAdmits]
      /\ rec'.pc = "decide" /\ rec'.spec = rec.spec /\ rec'.gen = rec.gen /\ rec'.hash = h
  BY <1>2, <1>4 DEF RevInv, RevTyped
<1>6. RevHeld'
  BY <1>2, <1>3, <1>4, <1>5, RevRigid DEF RevInv, RevHeld
<1>7. \A g : RevOld(g) => RevOld(g)'
  BY <1>2, <1>5 DEF RevOld
<1> QED
  BY <1>2, <1>5, <1>6, <1>7, RevStay DEF RevInv, RevTyped

LEMMA RevDecide == ASSUME RevInv, G!Decide PROVE RevInv'
<1>1. /\ UNCHANGED <<trees, view, statuses, reviewLock, links, grants, over, inRegistry>> /\ rec.pc = "decide"
      /\ \/ held' = None /\ rec' = [rec EXCEPT !.pc = "idle"]
         \/ held' = held /\ rec' = [rec EXCEPT !.pc = "commit"]
  BY DEF G!Decide
<1>2. /\ rec' \in [pc : {"idle", "hash", "decide", "commit", "pend"}, spec : RevSpecs \cup {None},
                   hash : RevHashes \cup {None}, commit : Nat, gen : 0..MaxAdmits]
      /\ rec'.pc \in {"idle", "commit"} /\ rec'.spec = rec.spec /\ rec'.gen = rec.gen /\ rec'.hash = rec.hash
  BY <1>1 DEF RevInv, RevTyped
<1>3. RevHeld'
  BY <1>1, <1>2, RevRigid DEF RevInv, RevHeld
<1>4. \A g : RevOld(g) => RevOld(g)'
  BY <1>1, <1>2 DEF RevOld
<1> QED
  BY <1>1, <1>2, <1>3, <1>4, RevStay DEF RevInv, RevTyped

LEMMA RevCommitOf == ASSUME RevInv, G!CommitOf PROVE RevInv'
<1>1. /\ UNCHANGED <<trees, view, statuses, reviewLock, links, grants, over, inRegistry, held>> /\ rec.pc = "commit"
      /\ rec' = [rec EXCEPT !.pc = "pend", !.commit = Len(trees)] /\ Len(trees) \in Nat
  BY DEF G!CommitOf, RevInv, RevTyped
<1>2. /\ rec' \in [pc : {"idle", "hash", "decide", "commit", "pend"}, spec : RevSpecs \cup {None},
                   hash : RevHashes \cup {None}, commit : Nat, gen : 0..MaxAdmits]
      /\ rec'.pc = "pend" /\ rec'.spec = rec.spec /\ rec'.gen = rec.gen /\ rec'.hash = rec.hash
      /\ rec'.commit = Len(trees)
  BY <1>1 DEF RevInv, RevTyped
<1>3. RevHeld'
  BY <1>1, <1>2, RevRigid DEF RevInv, RevHeld
<1>4. \A g : RevOld(g) => RevOld(g)'
  BY <1>1, <1>2 DEF RevOld
<1> QED
  BY <1>1, <1>2, <1>3, <1>4, RevStay DEF RevInv, RevTyped

LEMMA RevPend == ASSUME RevInv, G!Pend PROVE RevInv'
<1>1. /\ UNCHANGED <<trees, view, statuses, reviewLock, links, grants, over, inRegistry>> /\ rec.pc = "pend"
      /\ rec' = [rec EXCEPT !.pc = "idle"] /\ held' = G!Entry
  BY DEF G!Pend
<1>2. /\ rec.spec \in RevSpecs /\ RevMatched(rec.spec, rec.hash) /\ rec.commit <= Len(trees) /\ rec.gen # 0
      /\ rec.commit \in Nat /\ rec.gen \in 1..MaxAdmits /\ reviewLock.commit \in Nat /\ reviewLock.commit <= Len(trees)
      /\ rec.hash \in RevHashes /\ Len(trees) \in Nat /\ MaxAdmits \in Nat
  BY <1>1 DEF RevInv, RevHeld, RevTyped, RevMatched, RevHashes, RevConstants
<1>3. /\ held' \in RevEntries
      /\ held'.spec = rec.spec /\ held'.hash = rec.hash /\ held'.from = reviewLock.commit /\ held'.to = rec.commit
      /\ held'.gen = rec.gen
  BY <1>1, <1>2 DEF G!Entry, RevEntries
<1>4. /\ rec' \in [pc : {"idle", "hash", "decide", "commit", "pend"}, spec : RevSpecs \cup {None},
                   hash : RevHashes \cup {None}, commit : Nat, gen : 0..MaxAdmits]
      /\ rec'.pc = "idle" /\ rec'.gen = rec.gen
  BY <1>1 DEF RevInv, RevTyped
<1>5. RevHeld'
  BY <1>1, <1>2, <1>3, <1>4, RevRigid DEF RevInv, RevHeld
<1>6. \A g : RevOld(g) => RevOld(g)'
  BY <1>1, <1>4 DEF RevOld
<1>i. PICK n : n = rec.gen
  OBVIOUS
<1>7. held'.gen = n /\ ~RevOld(n) /\ RevOld(n)'
  BY <1>1, <1>2, <1>3, <1>4, <1>i DEF RevOld
<1>8. held'.from \in 0..Len(trees) /\ held'.to \in 0..Len(trees)
  BY <1>2, <1>3
<1> QED
  BY <1>1, <1>3, <1>4, <1>5, <1>6, <1>7, <1>8, RevStay DEF RevInv, RevTyped

LEMMA RevPush == ASSUME RevInv, G!Push PROVE RevInv'
<1> USE DEF RevInv
<1>1. PICK c \in FileSets : trees' = Append(trees, c)
  BY DEF G!Push
<1>2. /\ UNCHANGED <<over, rec, inRegistry, held, reviewLock, statuses, links, view, grants>> /\ trees \in Seq(FileSets)
      /\ Len(trees) \in Nat
  BY DEF G!Push, RevTyped
<1>3. /\ trees' \in Seq(FileSets) /\ Len(trees') = Len(trees) + 1
      /\ \A i \in 1..Len(trees) : trees'[i] = trees[i]
  BY <1>1, <1>2
<1>4. RevTyped'
  BY <1>2, <1>3, RevRigid DEF RevTyped
<1>5. RevHeld'
  <2>1. held # None => held.to \in Nat
    BY DEF RevHeld, RevEntries
  <2>2. rec.commit \in Nat
    BY DEF RevTyped
  <2> QED
    BY <1>2, <1>3, <2>1, <2>2, RevRigid DEF RevHeld
<1>6. \A a, b \in 1..Len(trees) : \A m : RevTrue(a, b, m)' <=> RevTrue(a, b, m)
  BY <1>3 DEF RevTrue
<1>7. RevSpans' = RevSpans /\ \A g : RevOld(g)' <=> RevOld(g)
  BY <1>2 DEF RevSpans, RevOld
<1>8. RevSeen'
  <2>1. ASSUME NEW v \in Viewers PROVE RevRead(view[v])' /\ RevLinked(view[v])' /\ RevMarked(view[v])'
    <3>1. /\ view[v] \in RevViews /\ RevRead(view[v]) /\ RevLinked(view[v]) /\ RevMarked(view[v])
          /\ view[v].gen # 0 => <<view[v].gen, view[v].from, view[v].to>> \in RevSpans
      BY RevScreen
    <3>2. PICK x : x = view[v]
      OBVIOUS
    <3>3. x.ent \in RevEntries => x.ent.to \in Nat
      BY DEF RevEntries
    <3>4. RevRead(x)'
      BY <1>2, <1>3, <3>1, <3>2, <3>3, RevRigid DEF RevRead
    <3>5. RevLinked(x)'
      BY <1>2, <3>1, <3>2 DEF RevLinked
    <3>6. ASSUME x.gen # 0 PROVE x.from \in 0..Len(trees) /\ x.to \in 0..Len(trees)
      <4>1. PICK a : a = <<x.gen, x.from, x.to>>
        OBVIOUS
      <4>2. a \in RevSpans /\ a[2] = x.from /\ a[3] = x.to
        BY <3>1, <3>2, <3>6, <4>1
      <4> QED
        BY <4>2 DEF RevRanges
    <3>7. RevMarked(x)'
      BY <1>6, <3>1, <3>2, <3>6 DEF RevMarked
    <3> QED
      BY <1>2, <3>2, <3>4, <3>5, <3>7
  <2> QED
    BY <1>2, <2>1 DEF RevSeen
<1>9. RevRanges'
  <2>1. \A a \in RevSpans' : RevOld(a[1])' /\ a[2] \in 0..Len(trees') /\ a[3] \in 0..Len(trees')
    BY <1>2, <1>3, <1>7 DEF RevRanges
  <2>2. ASSUME NEW g \in 1..MaxAdmits, statuses[g] # None
        PROVE  /\ RevOld(g)'
               /\ \A a \in RevSpans' : a[1] = g => \A m \in statuses[g] : a[2] # 0 /\ a[3] # 0 /\ RevTrue(a[2], a[3], m)'
    <3>1. /\ RevOld(g)
          /\ \A a \in RevSpans : a[1] = g => \A m \in statuses[g] : a[2] # 0 /\ a[3] # 0 /\ RevTrue(a[2], a[3], m)
          /\ \A a \in RevSpans : a[2] \in 0..Len(trees) /\ a[3] \in 0..Len(trees)
      BY <2>2 DEF RevRanges
    <3> QED
      BY <1>2, <1>6, <1>7, <3>1
  <2> QED
    BY <1>2, <1>7, <2>1, <2>2 DEF RevRanges
<1>10. RevGrants'
  BY <1>2, RevRigid DEF RevGrants
<1> QED
  BY <1>4, <1>5, <1>8, <1>9, <1>10

LEMMA RevMint == ASSUME RevInv, NEW t \in Links, G!Mint(t) PROVE RevInv'
<1> USE DEF RevInv
<1>1. /\ UNCHANGED <<trees, over, rec, inRegistry, held, reviewLock, statuses, view, grants>> /\ held # None
      /\ links[t].hash = None /\ links' = [links EXCEPT ![t].hash = held.hash]
  BY DEF G!Mint
<1>2. /\ links \in [Links -> [hash : RevHashes \cup {None}, used : BOOLEAN]] /\ held.hash \in RevHashes
  BY <1>1 DEF RevTyped, RevHeld, RevEntries
<1>3. /\ links' \in [Links -> [hash : RevHashes \cup {None}, used : BOOLEAN]]
      /\ \A u \in Links : u # t => links'[u] = links[u]
  BY <1>1, <1>2
<1>4. RevTyped'
  BY <1>1, <1>3, RevRigid DEF RevTyped
<1>5. RevHeld'
  BY <1>1, RevRigid DEF RevHeld
<1>6. RevSeen'
  <2>1. ASSUME NEW v \in Viewers PROVE RevRead(view[v])' /\ RevLinked(view[v])' /\ RevMarked(view[v])'
    <3>1. PICK x : x = view[v]
      OBVIOUS
    <3>2. RevRead(x) /\ RevLinked(x) /\ RevMarked(x)
      BY <3>1, RevScreen
    <3>3. RevRead(x)'
      BY <1>1, <3>2, RevRigid DEF RevRead
    <3>4. RevLinked(x)'
      BY <1>1, <1>3, <3>2 DEF RevLinked
    <3>5. RevMarked(x)'
      BY <1>1, <3>2 DEF RevMarked, RevTrue
    <3> QED
      BY <1>1, <3>1, <3>3, <3>4, <3>5
  <2> QED
    BY <1>1, <2>1 DEF RevSeen
<1>7. RevRanges'
  BY <1>1 DEF RevRanges, RevSpans, RevOld, RevTrue
<1>8. RevGrants'
  <2>1. ASSUME NEW g \in grants PROVE RevGrant(g)'
    <3>1. RevGrant(g)
      BY DEF RevGrants, RevGrant
    <3> QED
      BY <1>1, <1>3, <3>1, RevRigid DEF RevGrant
  <2> QED
    BY <1>1, <2>1 DEF RevGrants, RevGrant
<1> QED
  BY <1>4, <1>5, <1>6, <1>7, <1>8

LEMMA RevInit == RevConstants /\ G!Init => RevInv
<1> SUFFICES ASSUME RevConstants, G!Init PROVE RevInv
  OBVIOUS
<1>1. PICK c \in FileSets : trees = <<c>>
  BY DEF G!Init
<1>2. /\ trees \in Seq(FileSets) /\ Len(trees) = 1 /\ G!Disk = c /\ over \in Overs
  BY <1>1 DEF G!Init, G!Disk
<1>3. /\ rec = G!Rest /\ inRegistry = None /\ held = None /\ grants = {}
      /\ statuses = [g \in 1..MaxAdmits |-> None] /\ links = [t \in Links |-> [hash |-> None, used |-> FALSE]]
      /\ view = [v \in Viewers |-> G!Idle] /\ MaxAdmits \in Nat
  BY DEF G!Init, RevConstants
<1>4. /\ rec \in [pc : {"idle", "hash", "decide", "commit", "pend"}, spec : RevSpecs \cup {None},
                  hash : RevHashes \cup {None}, commit : Nat, gen : 0..MaxAdmits]
      /\ rec.pc = "idle" /\ rec.gen = 0
  BY <1>3 DEF G!Rest
<1>5. reviewLock \in [hash : RevHashes \cup {None}, commit : Nat] /\ reviewLock.commit <= Len(trees)
  <2>1. SpecOf[<<c["yaml"], over>>] \in RevSpecs
    BY <1>2 DEF RevSpecs
  <2>2. PICK h : h = G!ContentHash(SpecOf[<<c["yaml"], over>>], c)
    OBVIOUS
  <2>3. h \in RevHashes
    BY <2>1, <2>2 DEF RevHashes
  <2>4. reviewLock = [hash |-> None, commit |-> 0] \/ reviewLock = [hash |-> h, commit |-> 1]
    BY <1>2, <2>2 DEF G!Init
  <2> QED
    BY <1>2, <2>3, <2>4
<1>6. \A v \in Viewers : view[v] = G!Idle
  BY <1>3
<1>7. RevTyped
  BY <1>2, <1>3, <1>4, <1>5, RevIdle DEF RevTyped
<1>8. RevHeld
  BY <1>3, <1>4 DEF RevHeld
<1>9. RevSeen
  BY <1>6, RevIdle DEF RevSeen
<1>10. RevSpans = {}
  BY <1>3, <1>6, RevIdle DEF RevSpans
<1>11. RevRanges
  BY <1>3, <1>10 DEF RevRanges
<1>12. RevGrants
  BY <1>3 DEF RevGrants
<1> QED
  BY <1>7, <1>8, <1>9, <1>11, <1>12 DEF RevInv

LEMMA RevNext == RevInv /\ [G!Next]_(G!vars) => RevInv'
<1> SUFFICES ASSUME RevInv, [G!Next]_(G!vars) PROVE RevInv'
  OBVIOUS
<1>1. CASE UNCHANGED G!vars
  <2>1. /\ UNCHANGED <<trees, over, rec, inRegistry, held, reviewLock, statuses, links, view, grants>>
    BY <1>1 DEF G!vars
  <2> QED
    BY <2>1, RevRigid
    DEF RevInv, RevTyped, RevHeld, RevSeen, RevRead, RevLinked, RevMarked, RevTrue, RevRanges, RevSpans, RevOld, RevGrants
<1>2. CASE G!Push \/ G!Override \/ G!Load \/ G!Hash \/ G!Decide \/ G!CommitOf \/ G!Pend
  BY <1>2, RevPush, RevOverride, RevLoad, RevHash, RevDecide, RevCommitOf, RevPend
<1>3. CASE \E t \in Links : G!Mint(t)
  BY <1>3, RevMint
<1>4. ASSUME NEW v \in Viewers,
             G!Open(v) \/ G!OpenLink(v) \/ G!Read(v) \/ G!List(v) \/ G!Mark(v) \/ G!Click(v) \/ G!Redeem(v)
             \/ G!Check(v) \/ G!Record(v) \/ G!Arm(v) \/ G!Clear(v)
      PROVE  RevInv'
  BY <1>4, RevOpen, RevOpenLink, RevReadIt, RevList, RevMark, RevClick, RevRedeem, RevCheck, RevRecord,
    RevArm, RevClear
<1> QED
  BY <1>1, <1>2, <1>3, <1>4 DEF G!Next

-----------------------------------------------------------------------------
(* What the invariant says *)

LEMMA RevMeans ==
  RevInv => G!TypeOK /\ G!ArmedAsShown /\ G!MarksAreTrue /\ G!NoLiteralShown /\ G!LinkIsExact
<1> SUFFICES ASSUME RevInv
             PROVE  G!TypeOK /\ G!ArmedAsShown /\ G!MarksAreTrue /\ G!NoLiteralShown /\ G!LinkIsExact
  OBVIOUS
<1>1. RevConstants
  BY DEF RevInv, RevTyped
<1>2. G!TypeOK
  BY DEF RevInv, RevTyped, RevViews, G!TypeOK
<1>3. G!ArmedAsShown
  <2>1. ASSUME NEW g \in grants PROVE g.recorded = g.hash /\ G!Reach(g.spec) = G!Reach(g.shown)
    <3>1. g.recorded = g.hash /\ RevMatched(g.shown, g.hash) /\ RevMatched(g.spec, g.hash)
      BY DEF RevInv, RevGrants
    <3> QED
      BY <1>1, <3>1, RevSameHash
  <2> QED
    BY <2>1 DEF G!ArmedAsShown
<1>4. ASSUME NEW x \in G!Screens
      PROVE  /\ RevRead(x) /\ RevMarked(x) /\ x.pc = "shown"
  BY RevScreen DEF G!Screens
<1>5. G!MarksAreTrue
  BY <1>4 DEF G!MarksAreTrue, RevMarked, RevTrue
<1>6. G!NoLiteralShown
  <2>1. ASSUME NEW x \in G!Screens PROVE x.spec \in RevSpecs
    BY <1>4 DEF RevRead, RevMatched
  <2> QED
    BY <1>1, <2>1, RevNoLiteral DEF G!NoLiteralShown
<1>7. G!LinkIsExact
  BY DEF G!LinkIsExact, RevInv, RevGrants
<1> QED
  BY <1>2, <1>3, <1>5, <1>6, <1>7

\* Gate.StateFor and ApproveIfHash: what an approval arms may reach what the screen it was given
\* from showed, a mark is true of the range beside it, nothing written inline is shown, and a
\* link approves what it was minted for, for any operators, files, specifications and bounds.
THEOREM ReviewsAreExact ==
  RevConstants =>
    (G!Spec => [](G!TypeOK /\ G!ArmedAsShown /\ G!MarksAreTrue /\ G!NoLiteralShown /\ G!LinkIsExact))
<1> SUFFICES ASSUME RevConstants
             PROVE  G!Spec => [](G!TypeOK /\ G!ArmedAsShown /\ G!MarksAreTrue /\ G!NoLiteralShown /\ G!LinkIsExact)
  OBVIOUS
<1>1. G!Init => RevInv
  BY RevInit
<1> QED
  BY <1>1, RevNext, RevMeans, PTL DEF G!Spec


-----------------------------------------------------------------------------
(***************************************************************************)
(* Creating, editing and deleting tasks: Authoring.                        *)
(***************************************************************************)

AutRows == [task : Names \cup {None}, open : BOOLEAN, applied : BOOLEAN, agent : 0..MaxAutCalls]

\* None is no name, no call and no session.
AutConstants ==
  /\ None \notin Names \cup AutCalls \cup AutRows
  /\ MaxSessions \in Nat /\ MaxAutCalls \in Nat

AutSteps ==
  {"idle", "files", "entry", "cleanup", "return", "lock", "unlist", "rmdir", "look", "insert", "winner", "fire", "turn",
   "persist", "close"}
AutRecord ==
  [pc : AutSteps,
   kind : {"none", "create", "delete", "edit", "close"}, name : Names \cup {None}, sess : 0..MaxSessions,
   key : 0..MaxSessions, prompt : BOOLEAN, turn : 0..MaxAutCalls, read : 0..MaxAutCalls, ok : BOOLEAN]
AutTyped ==
  /\ AutConstants
  /\ taskDir \in [Names -> {"none", "part", "full"}] /\ listed \subseteq Names
  /\ authorRows \in [A!Ids -> AutRows \cup {None}]
  /\ authorLocks \in [0..MaxSessions -> AutCalls \cup {None}]
  /\ autCalls \in [AutCalls -> AutRecord] /\ autBegun \in 0..MaxAutCalls

\* What a call that is k may be: the steps of its kind, and what they have to go on.
AutMaking(k) == k.kind = "create" /\ k.pc \in {"files", "entry", "cleanup"}
AutTurning(k) == k.pc \in {"fire", "turn", "persist"}
AutShape(k) ==
  /\ k.pc \in {"files", "entry", "cleanup"} => k.kind = "create" /\ k.name \in Names
  /\ k.pc \in {"unlist", "rmdir"} => k.kind = "delete" /\ k.name \in Names
  /\ k.pc = "idle" => k.kind = "none"
  /\ AutTurning(k) => k.prompt /\ k.sess \in A!Ids
  /\ ~AutTurning(k) => k.read = 0
  /\ k.pc = "close" => k.sess \in A!Ids
AutShapes == \A c \in AutCalls : AutShape(autCalls[c])

\* One call at work on a task at a time: where it is tells what the task still lacks.
AutAt(k) ==
  /\ AutMaking(k) => k.name \notin listed /\ taskDir[k.name] # "none"
  /\ k.pc = "entry" => taskDir[k.name] = "full"
  /\ k.pc = "unlist" => k.name \in listed
  /\ k.pc = "rmdir" => k.name \notin listed
AutListed ==
  twice \/
    /\ \A n \in listed : taskDir[n] = "full"
    /\ \A n \in Names : taskDir[n] # "none" =>
         n \in listed \/ \E c \in AutCalls : autCalls[c].name = n /\ (AutMaking(autCalls[c]) \/ autCalls[c].pc = "rmdir")
    /\ \A c \in AutCalls : AutAt(autCalls[c])
    /\ \A b, c \in AutCalls :
         autCalls[b].name = autCalls[c].name /\ (AutMaking(autCalls[b]) \/ autCalls[b].kind = "delete") =>
           b = c \/ ~(AutMaking(autCalls[c]) \/ autCalls[c].kind = "delete")

\* A source has one session that is open; a call with a prompt holds its lock from there on.
AutOpen == \A s, t \in A!Open : s = t
AutLocks ==
  \A c \in AutCalls :
    LET k == autCalls[c] IN
    /\ k.prompt /\ (k.pc \in {"look", "insert", "winner"} \/ AutTurning(k)) => authorLocks[k.key] = c
    /\ AutTurning(k) \/ k.pc = "close" => authorRows[k.sess] # None
AutTurns ==
  mixed \/ \A c \in AutCalls :
             LET k == autCalls[c] IN
             /\ k.pc \in {"turn", "persist"} => k.key = 0
             /\ AutTurning(k) /\ k.key = 0 => authorRows[k.sess].agent = k.read

AutInv == AutTyped /\ AutShapes /\ AutListed /\ AutOpen /\ AutLocks /\ AutTurns

LEMMA AutNoCall ==
  ASSUME MaxSessions \in Nat, MaxAutCalls \in Nat
  PROVE  /\ A!NoCall \in AutRecord /\ A!NoCall.pc = "idle" /\ A!NoCall.kind = "none" /\ A!NoCall.read = 0 /\ ~A!NoCall.prompt
         /\ A!NoCall.key = 0
  BY DEF A!NoCall, A!SourceKey, AutRecord, AutSteps

LEMMA AutInit == AutConstants /\ A!Init => AutInv
<1> SUFFICES ASSUME AutConstants, A!Init PROVE AutInv
  OBVIOUS
<1>1. /\ A!NoCall \in AutRecord /\ A!NoCall.pc = "idle" /\ A!NoCall.kind = "none" /\ A!NoCall.read = 0
  BY AutNoCall DEF AutConstants
<1>2. /\ taskDir = [n \in Names |-> "none"] /\ listed = {} /\ authorRows = [s \in A!Ids |-> None]
      /\ authorLocks = [k \in 0..MaxSessions |-> None]
      /\ autCalls = [c \in AutCalls |-> A!NoCall] /\ autBegun = 0 /\ twice = FALSE /\ mixed = FALSE
  <2>1. {0} \cup A!Ids = 0..MaxSessions
    BY DEF A!Ids, AutConstants
  <2> QED
    BY <2>1 DEF A!Init, A!SourceKey
<1>3. AutTyped
  <2>1. 0 \in 0..MaxAutCalls
    BY DEF AutConstants
  <2>2. /\ taskDir \in [Names -> {"none", "part", "full"}] /\ autCalls \in [AutCalls -> AutRecord]
        /\ authorRows \in [A!Ids -> AutRows \cup {None}] /\ authorLocks \in [0..MaxSessions -> AutCalls \cup {None}]
    BY <1>1, <1>2
  <2> QED
    BY <1>2, <2>1, <2>2 DEF AutTyped
<1>4. AutShapes /\ AutListed
  BY <1>1, <1>2 DEF AutShapes, AutShape, AutTurning, AutMaking, AutListed, AutAt
<1>5. AutOpen
  BY <1>2 DEF AutOpen, A!Open
<1>6. AutLocks /\ AutTurns
  BY <1>1, <1>2 DEF AutLocks, AutTurns, AutTurning
<1> QED
  BY <1>3, <1>4, <1>5, <1>6 DEF AutInv

\* A call lets go of its locks.
AutFrees(c) ==
  /\ authorLocks' \in [0..MaxSessions -> AutCalls \cup {None}]
  /\ \A i \in 0..MaxSessions : authorLocks[i] # c => authorLocks'[i] = authorLocks[i]

\* A call begins, goes on to a step, or returns.
LEMMA AutBegin ==
  ASSUME AutTyped, NEW c \in AutCalls, NEW k \in AutRecord, A!Begin(c, k)
  PROVE  /\ autCalls' \in [AutCalls -> AutRecord] /\ \A e \in AutCalls : e # c => autCalls'[e] = autCalls[e]
         /\ autCalls'[c] = k /\ autCalls[c].pc = "idle" /\ autBegun' \in 0..MaxAutCalls
  BY DEF AutTyped, AutConstants, A!Begin, A!At

LEMMA AutTo ==
  ASSUME AutTyped, NEW c \in AutCalls, NEW pc \in AutSteps, autCalls' = A!To(c, pc)
  PROVE  /\ autCalls' \in [AutCalls -> AutRecord] /\ \A e \in AutCalls : e # c => autCalls'[e] = autCalls[e]
         /\ autCalls'[c].pc = pc /\ autCalls'[c].kind = autCalls[c].kind /\ autCalls'[c].name = autCalls[c].name
         /\ autCalls'[c].sess = autCalls[c].sess /\ autCalls'[c].key = autCalls[c].key
         /\ autCalls'[c].prompt = autCalls[c].prompt /\ autCalls'[c].read = autCalls[c].read
<1> DEFINE new == [autCalls[c] EXCEPT !.pc = pc]
<1>1. autCalls \in [AutCalls -> AutRecord] /\ autCalls' = [autCalls EXCEPT ![c] = new]
  BY DEF AutTyped, A!To
<1>2. /\ new \in AutRecord /\ new.pc = pc /\ new.kind = autCalls[c].kind /\ new.name = autCalls[c].name
      /\ new.sess = autCalls[c].sess /\ new.key = autCalls[c].key /\ new.prompt = autCalls[c].prompt
      /\ new.read = autCalls[c].read
  BY <1>1 DEF AutRecord
<1> HIDE DEF new
<1> QED
  BY <1>1, <1>2

LEMMA AutReturn ==
  ASSUME AutTyped, NEW c \in AutCalls, A!Return(c)
  PROVE  /\ autCalls' \in [AutCalls -> AutRecord] /\ \A e \in AutCalls : e # c => autCalls'[e] = autCalls[e]
         /\ autCalls'[c].pc = "idle" /\ autCalls'[c].kind = "none" /\ autCalls'[c].read = 0 /\ ~autCalls'[c].prompt
         /\ AutFrees(c)
<1>1. MaxSessions \in Nat /\ MaxAutCalls \in Nat /\ DOMAIN authorLocks = 0..MaxSessions /\ autCalls \in [AutCalls -> AutRecord]
  BY DEF AutTyped, AutConstants
<1> QED
  BY <1>1, AutNoCall DEF A!Return, AutTyped, AutFrees

LEMMA AutResume ==
  ASSUME AutTyped, NEW c \in AutCalls, NEW s \in A!Open, A!Resume(c, s)
  PROVE  /\ autCalls' \in [AutCalls -> AutRecord] /\ \A e \in AutCalls : e # c => autCalls'[e] = autCalls[e]
         /\ \/ /\ autCalls'[c].pc = "fire" /\ autCalls'[c].prompt /\ autCalls'[c].prompt = autCalls[c].prompt
               /\ autCalls'[c].kind = autCalls[c].kind /\ autCalls'[c].name = autCalls[c].name
               /\ autCalls'[c].key = autCalls[c].key /\ autCalls'[c].sess = s
               /\ autCalls'[c].read = authorRows[s].agent /\ UNCHANGED authorLocks
            \/ A!Return(c)
<1>1. CASE A!Return(c)
  BY <1>1, AutReturn
<1>2. CASE /\ autCalls[c].prompt /\ UNCHANGED authorLocks
           /\ autCalls' = [autCalls EXCEPT ![c].pc = "fire", ![c].sess = s, ![c].read = authorRows[s].agent]
  <2>1. s \in 0..MaxSessions /\ authorRows[s].agent \in 0..MaxAutCalls /\ autCalls \in [AutCalls -> AutRecord]
    BY DEF A!Open, A!Ids, AutTyped, AutRows, AutConstants
  <2> DEFINE new == [autCalls[c] EXCEPT !.pc = "fire", !.sess = s, !.read = authorRows[s].agent]
  <2>2. /\ new \in AutRecord /\ new.pc = "fire" /\ new.sess = s /\ new.read = authorRows[s].agent
        /\ new.prompt = autCalls[c].prompt /\ new.kind = autCalls[c].kind /\ new.name = autCalls[c].name
        /\ new.key = autCalls[c].key
    BY <2>1 DEF AutRecord, AutSteps
  <2>3. autCalls' = [autCalls EXCEPT ![c] = new]
    BY <1>2
  <2> HIDE DEF new
  <2>4. /\ autCalls' \in [AutCalls -> AutRecord] /\ autCalls'[c] = new
        /\ \A e \in AutCalls : e # c => autCalls'[e] = autCalls[e]
    BY <2>1, <2>2, <2>3
  <2>5. new.prompt /\ UNCHANGED authorLocks
    BY <1>2, <2>2
  <2> QED
    BY <2>2, <2>4, <2>5
<1> QED
  BY <1>1, <1>2 DEF A!Resume

LEMMA AutMkdir == ASSUME NEW c \in AutCalls, NEW name \in Names, NEW prompt \in BOOLEAN, AutInv, A!Mkdir(c, name, prompt) PROVE AutInv'
<1> USE DEF AutInv
<1> DEFINE k == autCalls'[c]
<1>0. /\ autCalls \in [AutCalls -> AutRecord] /\ autCalls[c] \in AutRecord /\ AutShape(autCalls[c])
      /\ 0 \in 0..MaxAutCalls /\ autBegun \in 0..MaxAutCalls /\ 0 \in 0..MaxSessions /\ A!Ids \subseteq 0..MaxSessions
      /\ DOMAIN authorLocks = 0..MaxSessions /\ MaxSessions \in Nat /\ MaxAutCalls \in Nat /\ None \notin AutCalls
      /\ \A e \in AutCalls : autCalls[e].key \in 0..MaxSessions
  BY DEF AutTyped, AutShapes, AutConstants, A!Ids, AutRecord
<1>1. /\ autCalls' \in [AutCalls -> AutRecord] /\ \A e \in AutCalls : e # c => autCalls'[e] = autCalls[e]
      /\ autCalls[c].pc = "idle" /\ k.read = 0
      /\ taskDir[name] = "none" /\ k.pc = "files" /\ k.kind = "create" /\ k.name = name
      /\ taskDir' = [taskDir EXCEPT ![name] = "part"] /\ autBegun' \in 0..MaxAutCalls
      /\ twice' = (twice \/ \E b \in AutCalls : autCalls[b].kind = "delete" /\ autCalls[b].name = name)
      /\ UNCHANGED <<listed, authorRows, authorLocks, mixed>>
  <2> DEFINE new == [A!NoCall EXCEPT !.pc = "files", !.kind = "create", !.name = name, !.prompt = prompt]
  <2>1. new \in AutRecord /\ new.pc = "files" /\ new.kind = "create" /\ new.name = name /\ new.read = 0
    BY <1>0, AutNoCall DEF AutRecord, AutSteps, A!NoCall, A!SourceKey, AutTyped
  <2>2. A!Begin(c, new)
    BY DEF A!Mkdir, A!SourceKey
  <2> HIDE DEF new
  <2> QED
    BY <2>1, <2>2, AutBegin DEF A!Mkdir, A!Files, A!Exists
<1>2. AutTyped'
  BY <1>0, <1>1 DEF AutTyped, AutFrees, AutSteps, AutRecord, AutShapes, AutShape, AutTurning, AutConstants
<1>3. AutShapes'
  BY <1>0, <1>1 DEF AutShapes, AutShape, AutTurning, A!Open
<1>4. AutListed'
  <2> SUFFICES ASSUME ~twice' PROVE AutListed'
    BY DEF AutListed
  <2>1. /\ ~twice /\ \A n \in listed : taskDir[n] = "full"
        /\ \A n \in Names : taskDir[n] # "none" =>
             n \in listed \/ \E e \in AutCalls : autCalls[e].name = n /\ (AutMaking(autCalls[e]) \/ autCalls[e].pc = "rmdir")
        /\ \A e \in AutCalls : AutAt(autCalls[e]) /\ AutShape(autCalls[e])
        /\ \A b, e \in AutCalls :
             autCalls[b].name = autCalls[e].name /\ (AutMaking(autCalls[b]) \/ autCalls[b].kind = "delete") =>
               b = e \/ ~(AutMaking(autCalls[e]) \/ autCalls[e].kind = "delete")
        /\ taskDir \in [Names -> {"none", "part", "full"}] /\ listed \subseteq Names
        /\ \A e \in AutCalls : AutMaking(autCalls[e]) \/ autCalls[e].kind = "delete" => autCalls[e].name \in Names \cup {None}
    BY <1>0, <1>1 DEF AutListed, AutShapes, AutTyped, AutRecord
  <2>2. \A n \in listed' : taskDir'[n] = "full"
    BY <1>0, <1>1, <2>1 DEF AutAt, AutMaking, AutShape
  <2>3. \A n \in Names : taskDir'[n] # "none" =>
          n \in listed' \/ \E e \in AutCalls : autCalls'[e].name = n /\ (AutMaking(autCalls'[e]) \/ autCalls'[e].pc = "rmdir")
    BY <1>0, <1>1, <2>1 DEF AutAt, AutMaking, AutShape
  <2>4. ASSUME NEW e \in AutCalls PROVE AutAt(autCalls[e])'
    <3>1. CASE e = c
      BY <1>0, <1>1, <2>1, <3>1 DEF AutAt, AutMaking, AutShape
    <3>2. CASE e # c
      BY <1>0, <1>1, <2>1, <3>2 DEF AutAt, AutMaking, AutShape
    <3> QED
      BY <3>1, <3>2
  <2>5. \A b, e \in AutCalls :
          autCalls'[b].name = autCalls'[e].name /\ (AutMaking(autCalls'[b]) \/ autCalls'[b].kind = "delete") =>
            b = e \/ ~(AutMaking(autCalls'[e]) \/ autCalls'[e].kind = "delete")
    <3>1. \A e \in AutCalls : e # c /\ autCalls[e].name = name => ~(AutMaking(autCalls[e]) \/ autCalls[e].kind = "delete")
      <4>1. \A e \in AutCalls : e # c /\ autCalls[e].name = name => autCalls[e].kind # "delete"
        BY <1>1
      <4>2. \A e \in AutCalls : AutAt(autCalls[e])
        BY <2>1
      <4>3. name \in listed \/ taskDir[name] = "none"
        BY <1>1
      <4> QED
        BY <4>1, <4>2, <4>3 DEF AutAt
    <3>2. k.name = name /\ \A e \in AutCalls : e # c => autCalls'[e] = autCalls[e]
      BY <1>1
    <3> QED
      BY <2>1, <3>1, <3>2
  <2> QED
    BY <2>2, <2>3, <2>4, <2>5 DEF AutListed
<1>5. AutOpen'
  BY <1>0, <1>1 DEF AutOpen, A!Open
<1>6. AutLocks'
  <2> SUFFICES ASSUME NEW e \in AutCalls
               PROVE  LET m == autCalls'[e] IN
                      /\ m.prompt /\ (m.pc \in {"look", "insert", "winner"} \/ AutTurning(m)) => authorLocks'[m.key] = e
                      /\ AutTurning(m) \/ m.pc = "close" => authorRows'[m.sess] # None
    BY DEF AutLocks
  <2>1. CASE e = c
    BY <1>0, <1>1, <2>1 DEF AutLocks, AutTurning, AutShape, A!Open, AutTyped, AutConstants
  <2>2. CASE e # c
    <3>1. autCalls'[e] = autCalls[e] /\ AutShape(autCalls[e]) /\ autCalls[e].key \in 0..MaxSessions
      BY <1>0, <1>1, <2>2 DEF AutShapes
    <3>2. authorLocks[autCalls[e].key] = e => authorLocks'[autCalls[e].key] = e
      BY <1>0, <1>1, <2>2, <3>1 DEF AutFrees, AutTyped
    <3>3. autCalls[e].sess \in A!Ids /\ authorRows[autCalls[e].sess] # None => authorRows'[autCalls[e].sess] # None
      BY <1>0, <1>1 DEF AutTyped, AutConstants
    <3> QED
      BY <3>1, <3>2, <3>3 DEF AutLocks, AutShape
  <2> QED
    BY <2>1, <2>2
<1>7. AutTurns'
  BY <1>0, <1>1 DEF AutTurns, AutLocks, AutShapes, AutShape, AutTurning
<1> QED
  BY <1>2, <1>3, <1>4, <1>5, <1>6, <1>7

LEMMA AutWriteFiles == ASSUME NEW c \in AutCalls, AutInv, A!WriteFiles(c) PROVE AutInv'
<1> USE DEF AutInv
<1> DEFINE k == autCalls'[c]
<1>0. /\ autCalls \in [AutCalls -> AutRecord] /\ autCalls[c] \in AutRecord /\ AutShape(autCalls[c])
      /\ 0 \in 0..MaxAutCalls /\ autBegun \in 0..MaxAutCalls /\ 0 \in 0..MaxSessions /\ A!Ids \subseteq 0..MaxSessions
      /\ DOMAIN authorLocks = 0..MaxSessions /\ MaxSessions \in Nat /\ MaxAutCalls \in Nat /\ None \notin AutCalls
      /\ \A e \in AutCalls : autCalls[e].key \in 0..MaxSessions
  BY DEF AutTyped, AutShapes, AutConstants, A!Ids, AutRecord
<1>1. /\ autCalls' \in [AutCalls -> AutRecord] /\ \A e \in AutCalls : e # c => autCalls'[e] = autCalls[e]
      /\ autCalls[c].pc = "files"
      /\ k.kind = autCalls[c].kind /\ k.name = autCalls[c].name /\ k.sess = autCalls[c].sess /\ k.key = autCalls[c].key /\ k.prompt = autCalls[c].prompt /\ k.read = autCalls[c].read
      /\ \/ k.pc = "entry" /\ taskDir' = [taskDir EXCEPT ![autCalls[c].name] = "full"]
         \/ k.pc = "cleanup" /\ UNCHANGED taskDir
      /\ UNCHANGED <<listed, authorRows, authorLocks, autBegun, twice, mixed>>
  BY <1>0, AutTo, AutReturn DEF AutSteps, A!At, A!Files, A!WriteFiles
<1>2. AutTyped'
  BY <1>0, <1>1 DEF AutTyped, AutFrees, AutSteps, AutRecord, AutShapes, AutShape, AutTurning, AutConstants
<1>3. AutShapes'
  BY <1>0, <1>1 DEF AutShapes, AutShape, AutTurning, A!Open
<1>4. AutListed'
  <2> SUFFICES ASSUME ~twice' PROVE AutListed'
    BY DEF AutListed
  <2>1. /\ ~twice /\ \A n \in listed : taskDir[n] = "full"
        /\ \A n \in Names : taskDir[n] # "none" =>
             n \in listed \/ \E e \in AutCalls : autCalls[e].name = n /\ (AutMaking(autCalls[e]) \/ autCalls[e].pc = "rmdir")
        /\ \A e \in AutCalls : AutAt(autCalls[e]) /\ AutShape(autCalls[e])
        /\ \A b, e \in AutCalls :
             autCalls[b].name = autCalls[e].name /\ (AutMaking(autCalls[b]) \/ autCalls[b].kind = "delete") =>
               b = e \/ ~(AutMaking(autCalls[e]) \/ autCalls[e].kind = "delete")
        /\ taskDir \in [Names -> {"none", "part", "full"}] /\ listed \subseteq Names
        /\ \A e \in AutCalls : AutMaking(autCalls[e]) \/ autCalls[e].kind = "delete" => autCalls[e].name \in Names \cup {None}
    BY <1>0, <1>1 DEF AutListed, AutShapes, AutTyped, AutRecord
  <2>2. \A n \in listed' : taskDir'[n] = "full"
    BY <1>0, <1>1, <2>1 DEF AutAt, AutMaking, AutShape
  <2>3. \A n \in Names : taskDir'[n] # "none" =>
          n \in listed' \/ \E e \in AutCalls : autCalls'[e].name = n /\ (AutMaking(autCalls'[e]) \/ autCalls'[e].pc = "rmdir")
    BY <1>0, <1>1, <2>1 DEF AutAt, AutMaking, AutShape
  <2>4. ASSUME NEW e \in AutCalls PROVE AutAt(autCalls[e])'
    <3>1. CASE e = c
      BY <1>0, <1>1, <2>1, <3>1 DEF AutAt, AutMaking, AutShape
    <3>2. CASE e # c
      BY <1>0, <1>1, <2>1, <3>2 DEF AutAt, AutMaking, AutShape
    <3> QED
      BY <3>1, <3>2
  <2>5. \A b, e \in AutCalls :
          autCalls'[b].name = autCalls'[e].name /\ (AutMaking(autCalls'[b]) \/ autCalls'[b].kind = "delete") =>
            b = e \/ ~(AutMaking(autCalls'[e]) \/ autCalls'[e].kind = "delete")
    BY <1>0, <1>1, <2>1 DEF AutAt, AutMaking, AutShape
  <2> QED
    BY <2>2, <2>3, <2>4, <2>5 DEF AutListed
<1>5. AutOpen'
  BY <1>0, <1>1 DEF AutOpen, A!Open
<1>6. AutLocks'
  <2> SUFFICES ASSUME NEW e \in AutCalls
               PROVE  LET m == autCalls'[e] IN
                      /\ m.prompt /\ (m.pc \in {"look", "insert", "winner"} \/ AutTurning(m)) => authorLocks'[m.key] = e
                      /\ AutTurning(m) \/ m.pc = "close" => authorRows'[m.sess] # None
    BY DEF AutLocks
  <2>1. CASE e = c
    BY <1>0, <1>1, <2>1 DEF AutLocks, AutTurning, AutShape, A!Open, AutTyped, AutConstants
  <2>2. CASE e # c
    <3>1. autCalls'[e] = autCalls[e] /\ AutShape(autCalls[e]) /\ autCalls[e].key \in 0..MaxSessions
      BY <1>0, <1>1, <2>2 DEF AutShapes
    <3>2. authorLocks[autCalls[e].key] = e => authorLocks'[autCalls[e].key] = e
      BY <1>0, <1>1, <2>2, <3>1 DEF AutFrees, AutTyped
    <3>3. autCalls[e].sess \in A!Ids /\ authorRows[autCalls[e].sess] # None => authorRows'[autCalls[e].sess] # None
      BY <1>0, <1>1 DEF AutTyped, AutConstants
    <3> QED
      BY <3>1, <3>2, <3>3 DEF AutLocks, AutShape
  <2> QED
    BY <2>1, <2>2
<1>7. AutTurns'
  BY <1>0, <1>1 DEF AutTurns, AutLocks, AutShapes, AutShape, AutTurning
<1> QED
  BY <1>2, <1>3, <1>4, <1>5, <1>6, <1>7

LEMMA AutAddEntry == ASSUME NEW c \in AutCalls, AutInv, A!AddEntry(c) PROVE AutInv'
<1> USE DEF AutInv
<1> DEFINE k == autCalls'[c]
<1>0. /\ autCalls \in [AutCalls -> AutRecord] /\ autCalls[c] \in AutRecord /\ AutShape(autCalls[c])
      /\ 0 \in 0..MaxAutCalls /\ autBegun \in 0..MaxAutCalls /\ 0 \in 0..MaxSessions /\ A!Ids \subseteq 0..MaxSessions
      /\ DOMAIN authorLocks = 0..MaxSessions /\ MaxSessions \in Nat /\ MaxAutCalls \in Nat /\ None \notin AutCalls
      /\ \A e \in AutCalls : autCalls[e].key \in 0..MaxSessions
  BY DEF AutTyped, AutShapes, AutConstants, A!Ids, AutRecord
<1>1. /\ autCalls' \in [AutCalls -> AutRecord] /\ \A e \in AutCalls : e # c => autCalls'[e] = autCalls[e]
      /\ autCalls[c].pc = "entry"
      /\ k.kind = autCalls[c].kind /\ k.name = autCalls[c].name /\ k.sess = autCalls[c].sess /\ k.prompt = autCalls[c].prompt /\ k.read = autCalls[c].read
      /\ \/ k.pc \in {"lock", "return"} /\ listed' = listed \cup {autCalls[c].name}
         \/ k.pc = "cleanup" /\ UNCHANGED listed
      /\ UNCHANGED <<taskDir, authorRows, authorLocks, autBegun, twice, mixed>>
  <2>1. CASE autCalls' = A!To(c, "cleanup") /\ UNCHANGED listed
    BY <1>0, <2>1, AutTo DEF AutSteps, A!AddEntry, A!At
  <2> DEFINE new == [autCalls[c] EXCEPT !.pc = IF autCalls[c].prompt THEN "lock" ELSE "return", !.key = 0]
  <2>2. CASE autCalls' = [autCalls EXCEPT ![c] = new] /\ listed' = listed \cup {autCalls[c].name}
    <3>1. /\ new \in AutRecord /\ new.pc \in {"lock", "return"} /\ new.kind = autCalls[c].kind /\ new.name = autCalls[c].name
          /\ new.sess = autCalls[c].sess /\ new.prompt = autCalls[c].prompt /\ new.read = autCalls[c].read
      BY <1>0 DEF AutRecord, AutSteps
    <3> HIDE DEF new
    <3> QED
      BY <1>0, <2>2, <3>1 DEF A!AddEntry, A!At
  <2> QED
    BY <2>1, <2>2 DEF A!AddEntry, A!SourceKey
<1>2. AutTyped'
  BY <1>0, <1>1 DEF AutTyped, AutFrees, AutSteps, AutRecord, AutShapes, AutShape, AutTurning, AutConstants
<1>3. AutShapes'
  BY <1>0, <1>1 DEF AutShapes, AutShape, AutTurning, A!Open
<1>4. AutListed'
  <2> SUFFICES ASSUME ~twice' PROVE AutListed'
    BY DEF AutListed
  <2>1. /\ ~twice /\ \A n \in listed : taskDir[n] = "full"
        /\ \A n \in Names : taskDir[n] # "none" =>
             n \in listed \/ \E e \in AutCalls : autCalls[e].name = n /\ (AutMaking(autCalls[e]) \/ autCalls[e].pc = "rmdir")
        /\ \A e \in AutCalls : AutAt(autCalls[e]) /\ AutShape(autCalls[e])
        /\ \A b, e \in AutCalls :
             autCalls[b].name = autCalls[e].name /\ (AutMaking(autCalls[b]) \/ autCalls[b].kind = "delete") =>
               b = e \/ ~(AutMaking(autCalls[e]) \/ autCalls[e].kind = "delete")
        /\ taskDir \in [Names -> {"none", "part", "full"}] /\ listed \subseteq Names
        /\ \A e \in AutCalls : AutMaking(autCalls[e]) \/ autCalls[e].kind = "delete" => autCalls[e].name \in Names \cup {None}
    BY <1>0, <1>1 DEF AutListed, AutShapes, AutTyped, AutRecord
  <2>2. \A n \in listed' : taskDir'[n] = "full"
    BY <1>0, <1>1, <2>1 DEF AutAt, AutMaking, AutShape
  <2>3. \A n \in Names : taskDir'[n] # "none" =>
          n \in listed' \/ \E e \in AutCalls : autCalls'[e].name = n /\ (AutMaking(autCalls'[e]) \/ autCalls'[e].pc = "rmdir")
    BY <1>0, <1>1, <2>1 DEF AutAt, AutMaking, AutShape
  <2>4. ASSUME NEW e \in AutCalls PROVE AutAt(autCalls[e])'
    <3>1. CASE e = c
      BY <1>0, <1>1, <2>1, <3>1 DEF AutAt, AutMaking, AutShape
    <3>2. CASE e # c
      BY <1>0, <1>1, <2>1, <3>2 DEF AutAt, AutMaking, AutShape
    <3> QED
      BY <3>1, <3>2
  <2>5. \A b, e \in AutCalls :
          autCalls'[b].name = autCalls'[e].name /\ (AutMaking(autCalls'[b]) \/ autCalls'[b].kind = "delete") =>
            b = e \/ ~(AutMaking(autCalls'[e]) \/ autCalls'[e].kind = "delete")
    BY <1>0, <1>1, <2>1 DEF AutAt, AutMaking, AutShape
  <2> QED
    BY <2>2, <2>3, <2>4, <2>5 DEF AutListed
<1>5. AutOpen'
  BY <1>0, <1>1 DEF AutOpen, A!Open
<1>6. AutLocks'
  <2> SUFFICES ASSUME NEW e \in AutCalls
               PROVE  LET m == autCalls'[e] IN
                      /\ m.prompt /\ (m.pc \in {"look", "insert", "winner"} \/ AutTurning(m)) => authorLocks'[m.key] = e
                      /\ AutTurning(m) \/ m.pc = "close" => authorRows'[m.sess] # None
    BY DEF AutLocks
  <2>1. CASE e = c
    BY <1>0, <1>1, <2>1 DEF AutLocks, AutTurning, AutShape, A!Open, AutTyped, AutConstants
  <2>2. CASE e # c
    <3>1. autCalls'[e] = autCalls[e] /\ AutShape(autCalls[e]) /\ autCalls[e].key \in 0..MaxSessions
      BY <1>0, <1>1, <2>2 DEF AutShapes
    <3>2. authorLocks[autCalls[e].key] = e => authorLocks'[autCalls[e].key] = e
      BY <1>0, <1>1, <2>2, <3>1 DEF AutFrees, AutTyped
    <3>3. autCalls[e].sess \in A!Ids /\ authorRows[autCalls[e].sess] # None => authorRows'[autCalls[e].sess] # None
      BY <1>0, <1>1 DEF AutTyped, AutConstants
    <3> QED
      BY <3>1, <3>2, <3>3 DEF AutLocks, AutShape
  <2> QED
    BY <2>1, <2>2
<1>7. AutTurns'
  BY <1>0, <1>1 DEF AutTurns, AutLocks, AutShapes, AutShape, AutTurning
<1> QED
  BY <1>2, <1>3, <1>4, <1>5, <1>6, <1>7

LEMMA AutCleanup == ASSUME NEW c \in AutCalls, AutInv, A!Cleanup(c) PROVE AutInv'
<1> USE DEF AutInv
<1> DEFINE k == autCalls'[c]
<1>0. /\ autCalls \in [AutCalls -> AutRecord] /\ autCalls[c] \in AutRecord /\ AutShape(autCalls[c])
      /\ 0 \in 0..MaxAutCalls /\ autBegun \in 0..MaxAutCalls /\ 0 \in 0..MaxSessions /\ A!Ids \subseteq 0..MaxSessions
      /\ DOMAIN authorLocks = 0..MaxSessions /\ MaxSessions \in Nat /\ MaxAutCalls \in Nat /\ None \notin AutCalls
      /\ \A e \in AutCalls : autCalls[e].key \in 0..MaxSessions
  BY DEF AutTyped, AutShapes, AutConstants, A!Ids, AutRecord
<1>1. /\ autCalls' \in [AutCalls -> AutRecord] /\ \A e \in AutCalls : e # c => autCalls'[e] = autCalls[e]
      /\ autCalls[c].pc = "cleanup"
      /\ k.pc = "idle" /\ k.kind = "none" /\ k.read = 0 /\ ~k.prompt
      /\ AutFrees(c)
      /\ taskDir' = [taskDir EXCEPT ![autCalls[c].name] = "none"]
      /\ UNCHANGED <<listed, authorRows, autBegun, twice, mixed>>
  BY <1>0, AutTo, AutReturn DEF AutSteps, A!At, A!Files, A!Cleanup
<1>2. AutTyped'
  BY <1>0, <1>1 DEF AutTyped, AutFrees, AutSteps, AutRecord, AutShapes, AutShape, AutTurning, AutConstants
<1>3. AutShapes'
  BY <1>0, <1>1 DEF AutShapes, AutShape, AutTurning, A!Open
<1>4. AutListed'
  <2> SUFFICES ASSUME ~twice' PROVE AutListed'
    BY DEF AutListed
  <2>1. /\ ~twice /\ \A n \in listed : taskDir[n] = "full"
        /\ \A n \in Names : taskDir[n] # "none" =>
             n \in listed \/ \E e \in AutCalls : autCalls[e].name = n /\ (AutMaking(autCalls[e]) \/ autCalls[e].pc = "rmdir")
        /\ \A e \in AutCalls : AutAt(autCalls[e]) /\ AutShape(autCalls[e])
        /\ \A b, e \in AutCalls :
             autCalls[b].name = autCalls[e].name /\ (AutMaking(autCalls[b]) \/ autCalls[b].kind = "delete") =>
               b = e \/ ~(AutMaking(autCalls[e]) \/ autCalls[e].kind = "delete")
        /\ taskDir \in [Names -> {"none", "part", "full"}] /\ listed \subseteq Names
        /\ \A e \in AutCalls : AutMaking(autCalls[e]) \/ autCalls[e].kind = "delete" => autCalls[e].name \in Names \cup {None}
    BY <1>0, <1>1 DEF AutListed, AutShapes, AutTyped, AutRecord
  <2>2. \A n \in listed' : taskDir'[n] = "full"
    BY <1>0, <1>1, <2>1 DEF AutAt, AutMaking, AutShape
  <2>3. \A n \in Names : taskDir'[n] # "none" =>
          n \in listed' \/ \E e \in AutCalls : autCalls'[e].name = n /\ (AutMaking(autCalls'[e]) \/ autCalls'[e].pc = "rmdir")
    BY <1>0, <1>1, <2>1 DEF AutAt, AutMaking, AutShape
  <2>4. ASSUME NEW e \in AutCalls PROVE AutAt(autCalls[e])'
    <3>1. CASE e = c
      BY <1>0, <1>1, <2>1, <3>1 DEF AutAt, AutMaking, AutShape
    <3>2. CASE e # c
      BY <1>0, <1>1, <2>1, <3>2 DEF AutAt, AutMaking, AutShape
    <3> QED
      BY <3>1, <3>2
  <2>5. \A b, e \in AutCalls :
          autCalls'[b].name = autCalls'[e].name /\ (AutMaking(autCalls'[b]) \/ autCalls'[b].kind = "delete") =>
            b = e \/ ~(AutMaking(autCalls'[e]) \/ autCalls'[e].kind = "delete")
    BY <1>0, <1>1, <2>1 DEF AutAt, AutMaking, AutShape
  <2> QED
    BY <2>2, <2>3, <2>4, <2>5 DEF AutListed
<1>5. AutOpen'
  BY <1>0, <1>1 DEF AutOpen, A!Open
<1>6. AutLocks'
  <2> SUFFICES ASSUME NEW e \in AutCalls
               PROVE  LET m == autCalls'[e] IN
                      /\ m.prompt /\ (m.pc \in {"look", "insert", "winner"} \/ AutTurning(m)) => authorLocks'[m.key] = e
                      /\ AutTurning(m) \/ m.pc = "close" => authorRows'[m.sess] # None
    BY DEF AutLocks
  <2>1. CASE e = c
    BY <1>0, <1>1, <2>1 DEF AutLocks, AutTurning, AutShape, A!Open, AutTyped, AutConstants
  <2>2. CASE e # c
    <3>1. autCalls'[e] = autCalls[e] /\ AutShape(autCalls[e]) /\ autCalls[e].key \in 0..MaxSessions
      BY <1>0, <1>1, <2>2 DEF AutShapes
    <3>2. authorLocks[autCalls[e].key] = e => authorLocks'[autCalls[e].key] = e
      BY <1>0, <1>1, <2>2, <3>1 DEF AutFrees, AutTyped
    <3>3. autCalls[e].sess \in A!Ids /\ authorRows[autCalls[e].sess] # None => authorRows'[autCalls[e].sess] # None
      BY <1>0, <1>1 DEF AutTyped, AutConstants
    <3> QED
      BY <3>1, <3>2, <3>3 DEF AutLocks, AutShape
  <2> QED
    BY <2>1, <2>2
<1>7. AutTurns'
  BY <1>0, <1>1 DEF AutTurns, AutLocks, AutShapes, AutShape, AutTurning
<1> QED
  BY <1>2, <1>3, <1>4, <1>5, <1>6, <1>7

LEMMA AutAnswer == ASSUME NEW c \in AutCalls, AutInv, A!Answer(c) PROVE AutInv'
<1> USE DEF AutInv
<1> DEFINE k == autCalls'[c]
<1>0. /\ autCalls \in [AutCalls -> AutRecord] /\ autCalls[c] \in AutRecord /\ AutShape(autCalls[c])
      /\ 0 \in 0..MaxAutCalls /\ autBegun \in 0..MaxAutCalls /\ 0 \in 0..MaxSessions /\ A!Ids \subseteq 0..MaxSessions
      /\ DOMAIN authorLocks = 0..MaxSessions /\ MaxSessions \in Nat /\ MaxAutCalls \in Nat /\ None \notin AutCalls
      /\ \A e \in AutCalls : autCalls[e].key \in 0..MaxSessions
  BY DEF AutTyped, AutShapes, AutConstants, A!Ids, AutRecord
<1>1. /\ autCalls' \in [AutCalls -> AutRecord] /\ \A e \in AutCalls : e # c => autCalls'[e] = autCalls[e]
      /\ autCalls[c].pc = "return"
      /\ k.pc = "idle" /\ k.kind = "none" /\ k.read = 0 /\ ~k.prompt
      /\ AutFrees(c)
      /\ UNCHANGED <<taskDir, listed, authorRows, autBegun, twice, mixed>>
  BY <1>0, AutTo, AutReturn DEF AutSteps, A!At, A!Files, A!Answer
<1>2. AutTyped'
  BY <1>0, <1>1 DEF AutTyped, AutFrees, AutSteps, AutRecord, AutShapes, AutShape, AutTurning, AutConstants
<1>3. AutShapes'
  BY <1>0, <1>1 DEF AutShapes, AutShape, AutTurning, A!Open
<1>4. AutListed'
  BY <1>0, <1>1 DEF AutListed, AutAt, AutMaking, AutShapes, AutShape, AutTurning
<1>5. AutOpen'
  BY <1>0, <1>1 DEF AutOpen, A!Open
<1>6. AutLocks'
  <2> SUFFICES ASSUME NEW e \in AutCalls
               PROVE  LET m == autCalls'[e] IN
                      /\ m.prompt /\ (m.pc \in {"look", "insert", "winner"} \/ AutTurning(m)) => authorLocks'[m.key] = e
                      /\ AutTurning(m) \/ m.pc = "close" => authorRows'[m.sess] # None
    BY DEF AutLocks
  <2>1. CASE e = c
    BY <1>0, <1>1, <2>1 DEF AutLocks, AutTurning, AutShape, A!Open, AutTyped, AutConstants
  <2>2. CASE e # c
    <3>1. autCalls'[e] = autCalls[e] /\ AutShape(autCalls[e]) /\ autCalls[e].key \in 0..MaxSessions
      BY <1>0, <1>1, <2>2 DEF AutShapes
    <3>2. authorLocks[autCalls[e].key] = e => authorLocks'[autCalls[e].key] = e
      BY <1>0, <1>1, <2>2, <3>1 DEF AutFrees, AutTyped
    <3>3. autCalls[e].sess \in A!Ids /\ authorRows[autCalls[e].sess] # None => authorRows'[autCalls[e].sess] # None
      BY <1>0, <1>1 DEF AutTyped, AutConstants
    <3> QED
      BY <3>1, <3>2, <3>3 DEF AutLocks, AutShape
  <2> QED
    BY <2>1, <2>2
<1>7. AutTurns'
  BY <1>0, <1>1 DEF AutTurns, AutLocks, AutShapes, AutShape, AutTurning
<1> QED
  BY <1>2, <1>3, <1>4, <1>5, <1>6, <1>7

LEMMA AutDelete == ASSUME NEW c \in AutCalls, NEW name \in Names, AutInv, A!Delete(c, name) PROVE AutInv'
<1> USE DEF AutInv
<1> DEFINE k == autCalls'[c]
<1>0. /\ autCalls \in [AutCalls -> AutRecord] /\ autCalls[c] \in AutRecord /\ AutShape(autCalls[c])
      /\ 0 \in 0..MaxAutCalls /\ autBegun \in 0..MaxAutCalls /\ 0 \in 0..MaxSessions /\ A!Ids \subseteq 0..MaxSessions
      /\ DOMAIN authorLocks = 0..MaxSessions /\ MaxSessions \in Nat /\ MaxAutCalls \in Nat /\ None \notin AutCalls
      /\ \A e \in AutCalls : autCalls[e].key \in 0..MaxSessions
  BY DEF AutTyped, AutShapes, AutConstants, A!Ids, AutRecord
<1>1. /\ autCalls' \in [AutCalls -> AutRecord] /\ \A e \in AutCalls : e # c => autCalls'[e] = autCalls[e]
      /\ autCalls[c].pc = "idle" /\ k.read = 0
      /\ name \in listed /\ k.pc = "unlist" /\ k.kind = "delete" /\ k.name = name
      /\ autBegun' \in 0..MaxAutCalls
      /\ twice' = (twice \/ \E b \in AutCalls : autCalls[b].kind = "delete" /\ autCalls[b].name = name)
      /\ UNCHANGED <<taskDir, listed, authorRows, authorLocks, mixed>>
  <2> DEFINE new == [A!NoCall EXCEPT !.pc = "unlist", !.kind = "delete", !.name = name]
  <2>1. new \in AutRecord /\ new.pc = "unlist" /\ new.kind = "delete" /\ new.name = name /\ new.read = 0
    BY <1>0, AutNoCall DEF AutRecord, AutSteps, A!NoCall, A!SourceKey, AutTyped
  <2>2. A!Begin(c, new)
    BY DEF A!Delete, A!SourceKey
  <2> HIDE DEF new
  <2> QED
    BY <2>1, <2>2, AutBegin DEF A!Delete, A!Files, A!Exists
<1>2. AutTyped'
  BY <1>0, <1>1 DEF AutTyped, AutFrees, AutSteps, AutRecord, AutShapes, AutShape, AutTurning, AutConstants
<1>3. AutShapes'
  BY <1>0, <1>1 DEF AutShapes, AutShape, AutTurning, A!Open
<1>4. AutListed'
  <2> SUFFICES ASSUME ~twice' PROVE AutListed'
    BY DEF AutListed
  <2>1. /\ ~twice /\ \A n \in listed : taskDir[n] = "full"
        /\ \A n \in Names : taskDir[n] # "none" =>
             n \in listed \/ \E e \in AutCalls : autCalls[e].name = n /\ (AutMaking(autCalls[e]) \/ autCalls[e].pc = "rmdir")
        /\ \A e \in AutCalls : AutAt(autCalls[e]) /\ AutShape(autCalls[e])
        /\ \A b, e \in AutCalls :
             autCalls[b].name = autCalls[e].name /\ (AutMaking(autCalls[b]) \/ autCalls[b].kind = "delete") =>
               b = e \/ ~(AutMaking(autCalls[e]) \/ autCalls[e].kind = "delete")
        /\ taskDir \in [Names -> {"none", "part", "full"}] /\ listed \subseteq Names
        /\ \A e \in AutCalls : AutMaking(autCalls[e]) \/ autCalls[e].kind = "delete" => autCalls[e].name \in Names \cup {None}
    BY <1>0, <1>1 DEF AutListed, AutShapes, AutTyped, AutRecord
  <2>2. \A n \in listed' : taskDir'[n] = "full"
    BY <1>0, <1>1, <2>1 DEF AutAt, AutMaking, AutShape
  <2>3. \A n \in Names : taskDir'[n] # "none" =>
          n \in listed' \/ \E e \in AutCalls : autCalls'[e].name = n /\ (AutMaking(autCalls'[e]) \/ autCalls'[e].pc = "rmdir")
    BY <1>0, <1>1, <2>1 DEF AutAt, AutMaking, AutShape
  <2>4. ASSUME NEW e \in AutCalls PROVE AutAt(autCalls[e])'
    <3>1. CASE e = c
      BY <1>0, <1>1, <2>1, <3>1 DEF AutAt, AutMaking, AutShape
    <3>2. CASE e # c
      BY <1>0, <1>1, <2>1, <3>2 DEF AutAt, AutMaking, AutShape
    <3> QED
      BY <3>1, <3>2
  <2>5. \A b, e \in AutCalls :
          autCalls'[b].name = autCalls'[e].name /\ (AutMaking(autCalls'[b]) \/ autCalls'[b].kind = "delete") =>
            b = e \/ ~(AutMaking(autCalls'[e]) \/ autCalls'[e].kind = "delete")
    <3>1. \A e \in AutCalls : e # c /\ autCalls[e].name = name => ~(AutMaking(autCalls[e]) \/ autCalls[e].kind = "delete")
      <4>1. \A e \in AutCalls : e # c /\ autCalls[e].name = name => autCalls[e].kind # "delete"
        BY <1>1
      <4>2. \A e \in AutCalls : AutAt(autCalls[e])
        BY <2>1
      <4>3. name \in listed \/ taskDir[name] = "none"
        BY <1>1
      <4> QED
        BY <4>1, <4>2, <4>3 DEF AutAt
    <3>2. k.name = name /\ \A e \in AutCalls : e # c => autCalls'[e] = autCalls[e]
      BY <1>1
    <3> QED
      BY <2>1, <3>1, <3>2
  <2> QED
    BY <2>2, <2>3, <2>4, <2>5 DEF AutListed
<1>5. AutOpen'
  BY <1>0, <1>1 DEF AutOpen, A!Open
<1>6. AutLocks'
  <2> SUFFICES ASSUME NEW e \in AutCalls
               PROVE  LET m == autCalls'[e] IN
                      /\ m.prompt /\ (m.pc \in {"look", "insert", "winner"} \/ AutTurning(m)) => authorLocks'[m.key] = e
                      /\ AutTurning(m) \/ m.pc = "close" => authorRows'[m.sess] # None
    BY DEF AutLocks
  <2>1. CASE e = c
    BY <1>0, <1>1, <2>1 DEF AutLocks, AutTurning, AutShape, A!Open, AutTyped, AutConstants
  <2>2. CASE e # c
    <3>1. autCalls'[e] = autCalls[e] /\ AutShape(autCalls[e]) /\ autCalls[e].key \in 0..MaxSessions
      BY <1>0, <1>1, <2>2 DEF AutShapes
    <3>2. authorLocks[autCalls[e].key] = e => authorLocks'[autCalls[e].key] = e
      BY <1>0, <1>1, <2>2, <3>1 DEF AutFrees, AutTyped
    <3>3. autCalls[e].sess \in A!Ids /\ authorRows[autCalls[e].sess] # None => authorRows'[autCalls[e].sess] # None
      BY <1>0, <1>1 DEF AutTyped, AutConstants
    <3> QED
      BY <3>1, <3>2, <3>3 DEF AutLocks, AutShape
  <2> QED
    BY <2>1, <2>2
<1>7. AutTurns'
  BY <1>0, <1>1 DEF AutTurns, AutLocks, AutShapes, AutShape, AutTurning
<1> QED
  BY <1>2, <1>3, <1>4, <1>5, <1>6, <1>7

LEMMA AutUnlist == ASSUME NEW c \in AutCalls, AutInv, A!Unlist(c) PROVE AutInv'
<1> USE DEF AutInv
<1> DEFINE k == autCalls'[c]
<1>0. /\ autCalls \in [AutCalls -> AutRecord] /\ autCalls[c] \in AutRecord /\ AutShape(autCalls[c])
      /\ 0 \in 0..MaxAutCalls /\ autBegun \in 0..MaxAutCalls /\ 0 \in 0..MaxSessions /\ A!Ids \subseteq 0..MaxSessions
      /\ DOMAIN authorLocks = 0..MaxSessions /\ MaxSessions \in Nat /\ MaxAutCalls \in Nat /\ None \notin AutCalls
      /\ \A e \in AutCalls : autCalls[e].key \in 0..MaxSessions
  BY DEF AutTyped, AutShapes, AutConstants, A!Ids, AutRecord
<1>1. /\ autCalls' \in [AutCalls -> AutRecord] /\ \A e \in AutCalls : e # c => autCalls'[e] = autCalls[e]
      /\ autCalls[c].pc = "unlist"
      /\ k.kind = autCalls[c].kind /\ k.name = autCalls[c].name /\ k.sess = autCalls[c].sess /\ k.key = autCalls[c].key /\ k.prompt = autCalls[c].prompt /\ k.read = autCalls[c].read
      /\ \/ k.pc = "rmdir" /\ listed' = listed \ {autCalls[c].name}
         \/ k.pc = "return" /\ UNCHANGED listed
      /\ UNCHANGED <<taskDir, authorRows, authorLocks, autBegun, twice, mixed>>
  BY <1>0, AutTo, AutReturn DEF AutSteps, A!At, A!Files, A!Unlist
<1>2. AutTyped'
  BY <1>0, <1>1 DEF AutTyped, AutFrees, AutSteps, AutRecord, AutShapes, AutShape, AutTurning, AutConstants
<1>3. AutShapes'
  BY <1>0, <1>1 DEF AutShapes, AutShape, AutTurning, A!Open
<1>4. AutListed'
  <2> SUFFICES ASSUME ~twice' PROVE AutListed'
    BY DEF AutListed
  <2>1. /\ ~twice /\ \A n \in listed : taskDir[n] = "full"
        /\ \A n \in Names : taskDir[n] # "none" =>
             n \in listed \/ \E e \in AutCalls : autCalls[e].name = n /\ (AutMaking(autCalls[e]) \/ autCalls[e].pc = "rmdir")
        /\ \A e \in AutCalls : AutAt(autCalls[e]) /\ AutShape(autCalls[e])
        /\ \A b, e \in AutCalls :
             autCalls[b].name = autCalls[e].name /\ (AutMaking(autCalls[b]) \/ autCalls[b].kind = "delete") =>
               b = e \/ ~(AutMaking(autCalls[e]) \/ autCalls[e].kind = "delete")
        /\ taskDir \in [Names -> {"none", "part", "full"}] /\ listed \subseteq Names
        /\ \A e \in AutCalls : AutMaking(autCalls[e]) \/ autCalls[e].kind = "delete" => autCalls[e].name \in Names \cup {None}
    BY <1>0, <1>1 DEF AutListed, AutShapes, AutTyped, AutRecord
  <2>2. \A n \in listed' : taskDir'[n] = "full"
    BY <1>0, <1>1, <2>1 DEF AutAt, AutMaking, AutShape
  <2>3. \A n \in Names : taskDir'[n] # "none" =>
          n \in listed' \/ \E e \in AutCalls : autCalls'[e].name = n /\ (AutMaking(autCalls'[e]) \/ autCalls'[e].pc = "rmdir")
    BY <1>0, <1>1, <2>1 DEF AutAt, AutMaking, AutShape
  <2>4. ASSUME NEW e \in AutCalls PROVE AutAt(autCalls[e])'
    <3>1. CASE e = c
      BY <1>0, <1>1, <2>1, <3>1 DEF AutAt, AutMaking, AutShape
    <3>2. CASE e # c
      BY <1>0, <1>1, <2>1, <3>2 DEF AutAt, AutMaking, AutShape
    <3> QED
      BY <3>1, <3>2
  <2>5. \A b, e \in AutCalls :
          autCalls'[b].name = autCalls'[e].name /\ (AutMaking(autCalls'[b]) \/ autCalls'[b].kind = "delete") =>
            b = e \/ ~(AutMaking(autCalls'[e]) \/ autCalls'[e].kind = "delete")
    BY <1>0, <1>1, <2>1 DEF AutAt, AutMaking, AutShape
  <2> QED
    BY <2>2, <2>3, <2>4, <2>5 DEF AutListed
<1>5. AutOpen'
  BY <1>0, <1>1 DEF AutOpen, A!Open
<1>6. AutLocks'
  <2> SUFFICES ASSUME NEW e \in AutCalls
               PROVE  LET m == autCalls'[e] IN
                      /\ m.prompt /\ (m.pc \in {"look", "insert", "winner"} \/ AutTurning(m)) => authorLocks'[m.key] = e
                      /\ AutTurning(m) \/ m.pc = "close" => authorRows'[m.sess] # None
    BY DEF AutLocks
  <2>1. CASE e = c
    BY <1>0, <1>1, <2>1 DEF AutLocks, AutTurning, AutShape, A!Open, AutTyped, AutConstants
  <2>2. CASE e # c
    <3>1. autCalls'[e] = autCalls[e] /\ AutShape(autCalls[e]) /\ autCalls[e].key \in 0..MaxSessions
      BY <1>0, <1>1, <2>2 DEF AutShapes
    <3>2. authorLocks[autCalls[e].key] = e => authorLocks'[autCalls[e].key] = e
      BY <1>0, <1>1, <2>2, <3>1 DEF AutFrees, AutTyped
    <3>3. autCalls[e].sess \in A!Ids /\ authorRows[autCalls[e].sess] # None => authorRows'[autCalls[e].sess] # None
      BY <1>0, <1>1 DEF AutTyped, AutConstants
    <3> QED
      BY <3>1, <3>2, <3>3 DEF AutLocks, AutShape
  <2> QED
    BY <2>1, <2>2
<1>7. AutTurns'
  BY <1>0, <1>1 DEF AutTurns, AutLocks, AutShapes, AutShape, AutTurning
<1> QED
  BY <1>2, <1>3, <1>4, <1>5, <1>6, <1>7

LEMMA AutRmdir == ASSUME NEW c \in AutCalls, AutInv, A!Rmdir(c) PROVE AutInv'
<1> USE DEF AutInv
<1> DEFINE k == autCalls'[c]
<1>0. /\ autCalls \in [AutCalls -> AutRecord] /\ autCalls[c] \in AutRecord /\ AutShape(autCalls[c])
      /\ 0 \in 0..MaxAutCalls /\ autBegun \in 0..MaxAutCalls /\ 0 \in 0..MaxSessions /\ A!Ids \subseteq 0..MaxSessions
      /\ DOMAIN authorLocks = 0..MaxSessions /\ MaxSessions \in Nat /\ MaxAutCalls \in Nat /\ None \notin AutCalls
      /\ \A e \in AutCalls : autCalls[e].key \in 0..MaxSessions
  BY DEF AutTyped, AutShapes, AutConstants, A!Ids, AutRecord
<1>1. /\ autCalls' \in [AutCalls -> AutRecord] /\ \A e \in AutCalls : e # c => autCalls'[e] = autCalls[e]
      /\ autCalls[c].pc = "rmdir" /\ k.pc = "return"
      /\ k.kind = autCalls[c].kind /\ k.name = autCalls[c].name /\ k.sess = autCalls[c].sess /\ k.key = autCalls[c].key /\ k.prompt = autCalls[c].prompt /\ k.read = autCalls[c].read
      /\ taskDir' = [taskDir EXCEPT ![autCalls[c].name] = "none"]
      /\ UNCHANGED <<listed, authorRows, authorLocks, autBegun, twice, mixed>>
  BY <1>0, AutTo, AutReturn DEF AutSteps, A!At, A!Files, A!Rmdir
<1>2. AutTyped'
  BY <1>0, <1>1 DEF AutTyped, AutFrees, AutSteps, AutRecord, AutShapes, AutShape, AutTurning, AutConstants
<1>3. AutShapes'
  BY <1>0, <1>1 DEF AutShapes, AutShape, AutTurning, A!Open
<1>4. AutListed'
  <2> SUFFICES ASSUME ~twice' PROVE AutListed'
    BY DEF AutListed
  <2>1. /\ ~twice /\ \A n \in listed : taskDir[n] = "full"
        /\ \A n \in Names : taskDir[n] # "none" =>
             n \in listed \/ \E e \in AutCalls : autCalls[e].name = n /\ (AutMaking(autCalls[e]) \/ autCalls[e].pc = "rmdir")
        /\ \A e \in AutCalls : AutAt(autCalls[e]) /\ AutShape(autCalls[e])
        /\ \A b, e \in AutCalls :
             autCalls[b].name = autCalls[e].name /\ (AutMaking(autCalls[b]) \/ autCalls[b].kind = "delete") =>
               b = e \/ ~(AutMaking(autCalls[e]) \/ autCalls[e].kind = "delete")
        /\ taskDir \in [Names -> {"none", "part", "full"}] /\ listed \subseteq Names
        /\ \A e \in AutCalls : AutMaking(autCalls[e]) \/ autCalls[e].kind = "delete" => autCalls[e].name \in Names \cup {None}
    BY <1>0, <1>1 DEF AutListed, AutShapes, AutTyped, AutRecord
  <2>2. \A n \in listed' : taskDir'[n] = "full"
    BY <1>0, <1>1, <2>1 DEF AutAt, AutMaking, AutShape
  <2>3. \A n \in Names : taskDir'[n] # "none" =>
          n \in listed' \/ \E e \in AutCalls : autCalls'[e].name = n /\ (AutMaking(autCalls'[e]) \/ autCalls'[e].pc = "rmdir")
    BY <1>0, <1>1, <2>1 DEF AutAt, AutMaking, AutShape
  <2>4. ASSUME NEW e \in AutCalls PROVE AutAt(autCalls[e])'
    <3>1. CASE e = c
      BY <1>0, <1>1, <2>1, <3>1 DEF AutAt, AutMaking, AutShape
    <3>2. CASE e # c
      BY <1>0, <1>1, <2>1, <3>2 DEF AutAt, AutMaking, AutShape
    <3> QED
      BY <3>1, <3>2
  <2>5. \A b, e \in AutCalls :
          autCalls'[b].name = autCalls'[e].name /\ (AutMaking(autCalls'[b]) \/ autCalls'[b].kind = "delete") =>
            b = e \/ ~(AutMaking(autCalls'[e]) \/ autCalls'[e].kind = "delete")
    BY <1>0, <1>1, <2>1 DEF AutAt, AutMaking, AutShape
  <2> QED
    BY <2>2, <2>3, <2>4, <2>5 DEF AutListed
<1>5. AutOpen'
  BY <1>0, <1>1 DEF AutOpen, A!Open
<1>6. AutLocks'
  <2> SUFFICES ASSUME NEW e \in AutCalls
               PROVE  LET m == autCalls'[e] IN
                      /\ m.prompt /\ (m.pc \in {"look", "insert", "winner"} \/ AutTurning(m)) => authorLocks'[m.key] = e
                      /\ AutTurning(m) \/ m.pc = "close" => authorRows'[m.sess] # None
    BY DEF AutLocks
  <2>1. CASE e = c
    BY <1>0, <1>1, <2>1 DEF AutLocks, AutTurning, AutShape, A!Open, AutTyped, AutConstants
  <2>2. CASE e # c
    <3>1. autCalls'[e] = autCalls[e] /\ AutShape(autCalls[e]) /\ autCalls[e].key \in 0..MaxSessions
      BY <1>0, <1>1, <2>2 DEF AutShapes
    <3>2. authorLocks[autCalls[e].key] = e => authorLocks'[autCalls[e].key] = e
      BY <1>0, <1>1, <2>2, <3>1 DEF AutFrees, AutTyped
    <3>3. autCalls[e].sess \in A!Ids /\ authorRows[autCalls[e].sess] # None => authorRows'[autCalls[e].sess] # None
      BY <1>0, <1>1 DEF AutTyped, AutConstants
    <3> QED
      BY <3>1, <3>2, <3>3 DEF AutLocks, AutShape
  <2> QED
    BY <2>1, <2>2
<1>7. AutTurns'
  BY <1>0, <1>1 DEF AutTurns, AutLocks, AutShapes, AutShape, AutTurning
<1> QED
  BY <1>2, <1>3, <1>4, <1>5, <1>6, <1>7

LEMMA AutEdit == ASSUME NEW c \in AutCalls, NEW w \in BOOLEAN, NEW name \in listed \cup {None}, NEW s \in A!Ids \cup {0}, NEW prompt \in BOOLEAN, AutInv, A!Edit(c, w, name, s, prompt) PROVE AutInv'
<1> USE DEF AutInv
<1> DEFINE k == autCalls'[c]
<1>0. /\ autCalls \in [AutCalls -> AutRecord] /\ autCalls[c] \in AutRecord /\ AutShape(autCalls[c])
      /\ 0 \in 0..MaxAutCalls /\ autBegun \in 0..MaxAutCalls /\ 0 \in 0..MaxSessions /\ A!Ids \subseteq 0..MaxSessions
      /\ DOMAIN authorLocks = 0..MaxSessions /\ MaxSessions \in Nat /\ MaxAutCalls \in Nat /\ None \notin AutCalls
      /\ \A e \in AutCalls : autCalls[e].key \in 0..MaxSessions
  BY DEF AutTyped, AutShapes, AutConstants, A!Ids, AutRecord
<1>1. /\ autCalls' \in [AutCalls -> AutRecord] /\ \A e \in AutCalls : e # c => autCalls'[e] = autCalls[e]
      /\ autCalls[c].pc = "idle" /\ k.read = 0
      /\ k.pc = (IF w THEN "look" ELSE "lock") /\ k.kind = "edit" /\ (w => ~k.prompt) /\ k.prompt \in BOOLEAN
      /\ autBegun' \in 0..MaxAutCalls
      /\ UNCHANGED <<taskDir, listed, authorRows, authorLocks, twice, mixed>>
  <2> DEFINE key == IF name # None THEN 0 ELSE s
             step == IF w THEN "look" ELSE "lock"
             new == [A!NoCall EXCEPT !.pc = step, !.kind = "edit", !.name = name, !.sess = s, !.key = key, !.prompt = prompt]
  <2>1. key \in 0..MaxSessions /\ step \in AutSteps /\ s \in 0..MaxSessions /\ name \in Names \cup {None}
    BY <1>0 DEF AutTyped, AutSteps
  <2>2. A!Begin(c, new) /\ (w => ~prompt) /\ UNCHANGED <<taskDir, listed, authorRows, authorLocks, twice, mixed>>
    BY DEF A!Edit, A!SourceKey, A!Files
  <2>3. step = (IF w THEN "look" ELSE "lock")
    OBVIOUS
  <2> HIDE DEF key, step
  <2>4. new \in AutRecord /\ new.pc = step /\ new.kind = "edit" /\ new.prompt = prompt /\ new.read = 0
    BY <1>0, <2>1, AutNoCall DEF AutRecord, A!NoCall, A!SourceKey
  <2> HIDE DEF new
  <2> QED
    BY <2>2, <2>3, <2>4, AutBegin
<1>2. AutTyped'
  BY <1>0, <1>1 DEF AutTyped, AutFrees, AutSteps, AutRecord, AutShapes, AutShape, AutTurning, AutConstants
<1>3. AutShapes'
  BY <1>0, <1>1 DEF AutShapes, AutShape, AutTurning, A!Open
<1>4. AutListed'
  BY <1>0, <1>1 DEF AutListed, AutAt, AutMaking, AutShapes, AutShape, AutTurning
<1>5. AutOpen'
  BY <1>0, <1>1 DEF AutOpen, A!Open
<1>6. AutLocks'
  <2> SUFFICES ASSUME NEW e \in AutCalls
               PROVE  LET m == autCalls'[e] IN
                      /\ m.prompt /\ (m.pc \in {"look", "insert", "winner"} \/ AutTurning(m)) => authorLocks'[m.key] = e
                      /\ AutTurning(m) \/ m.pc = "close" => authorRows'[m.sess] # None
    BY DEF AutLocks
  <2>1. CASE e = c
    BY <1>0, <1>1, <2>1 DEF AutLocks, AutTurning, AutShape, A!Open, AutTyped, AutConstants
  <2>2. CASE e # c
    <3>1. autCalls'[e] = autCalls[e] /\ AutShape(autCalls[e]) /\ autCalls[e].key \in 0..MaxSessions
      BY <1>0, <1>1, <2>2 DEF AutShapes
    <3>2. authorLocks[autCalls[e].key] = e => authorLocks'[autCalls[e].key] = e
      BY <1>0, <1>1, <2>2, <3>1 DEF AutFrees, AutTyped
    <3>3. autCalls[e].sess \in A!Ids /\ authorRows[autCalls[e].sess] # None => authorRows'[autCalls[e].sess] # None
      BY <1>0, <1>1 DEF AutTyped, AutConstants
    <3> QED
      BY <3>1, <3>2, <3>3 DEF AutLocks, AutShape
  <2> QED
    BY <2>1, <2>2
<1>7. AutTurns'
  BY <1>0, <1>1 DEF AutTurns, AutLocks, AutShapes, AutShape, AutTurning
<1> QED
  BY <1>2, <1>3, <1>4, <1>5, <1>6, <1>7

LEMMA AutLock == ASSUME NEW c \in AutCalls, AutInv, A!Lock(c) PROVE AutInv'
<1> USE DEF AutInv
<1> DEFINE k == autCalls'[c]
<1>0. /\ autCalls \in [AutCalls -> AutRecord] /\ autCalls[c] \in AutRecord /\ AutShape(autCalls[c])
      /\ 0 \in 0..MaxAutCalls /\ autBegun \in 0..MaxAutCalls /\ 0 \in 0..MaxSessions /\ A!Ids \subseteq 0..MaxSessions
      /\ DOMAIN authorLocks = 0..MaxSessions /\ MaxSessions \in Nat /\ MaxAutCalls \in Nat /\ None \notin AutCalls
      /\ \A e \in AutCalls : autCalls[e].key \in 0..MaxSessions
  BY DEF AutTyped, AutShapes, AutConstants, A!Ids, AutRecord
<1>1. /\ autCalls' \in [AutCalls -> AutRecord] /\ \A e \in AutCalls : e # c => autCalls'[e] = autCalls[e]
      /\ autCalls[c].pc = "lock" /\ k.pc = "look" /\ authorLocks[autCalls[c].key] = None /\ autCalls[c].key \in 0..MaxSessions
      /\ k.kind = autCalls[c].kind /\ k.name = autCalls[c].name /\ k.sess = autCalls[c].sess /\ k.key = autCalls[c].key /\ k.prompt = autCalls[c].prompt /\ k.read = autCalls[c].read
      /\ authorLocks' = [authorLocks EXCEPT ![autCalls[c].key] = c]
      /\ UNCHANGED <<taskDir, listed, authorRows, autBegun, twice, mixed>>
  BY <1>0, AutTo, AutReturn DEF AutSteps, A!At, A!Files, A!Lock
<1>2. AutTyped'
  BY <1>0, <1>1 DEF AutTyped, AutFrees, AutSteps, AutRecord, AutShapes, AutShape, AutTurning, AutConstants
<1>3. AutShapes'
  BY <1>0, <1>1 DEF AutShapes, AutShape, AutTurning, A!Open
<1>4. AutListed'
  BY <1>0, <1>1 DEF AutListed, AutAt, AutMaking, AutShapes, AutShape, AutTurning
<1>5. AutOpen'
  BY <1>0, <1>1 DEF AutOpen, A!Open
<1>6. AutLocks'
  <2> SUFFICES ASSUME NEW e \in AutCalls
               PROVE  LET m == autCalls'[e] IN
                      /\ m.prompt /\ (m.pc \in {"look", "insert", "winner"} \/ AutTurning(m)) => authorLocks'[m.key] = e
                      /\ AutTurning(m) \/ m.pc = "close" => authorRows'[m.sess] # None
    BY DEF AutLocks
  <2>1. CASE e = c
    BY <1>0, <1>1, <2>1 DEF AutLocks, AutTurning, AutShape, A!Open, AutTyped, AutConstants
  <2>2. CASE e # c
    <3>1. autCalls'[e] = autCalls[e] /\ AutShape(autCalls[e]) /\ autCalls[e].key \in 0..MaxSessions
      BY <1>0, <1>1, <2>2 DEF AutShapes
    <3>2. authorLocks[autCalls[e].key] = e => authorLocks'[autCalls[e].key] = e
      BY <1>0, <1>1, <2>2, <3>1 DEF AutFrees, AutTyped
    <3>3. autCalls[e].sess \in A!Ids /\ authorRows[autCalls[e].sess] # None => authorRows'[autCalls[e].sess] # None
      BY <1>0, <1>1 DEF AutTyped, AutConstants
    <3> QED
      BY <3>1, <3>2, <3>3 DEF AutLocks, AutShape
  <2> QED
    BY <2>1, <2>2
<1>7. AutTurns'
  BY <1>0, <1>1 DEF AutTurns, AutLocks, AutShapes, AutShape, AutTurning
<1> QED
  BY <1>2, <1>3, <1>4, <1>5, <1>6, <1>7

LEMMA AutLook == ASSUME NEW c \in AutCalls, AutInv, A!Look(c) PROVE AutInv'
<1> USE DEF AutInv
<1> DEFINE k == autCalls'[c]
<1>0. /\ autCalls \in [AutCalls -> AutRecord] /\ autCalls[c] \in AutRecord /\ AutShape(autCalls[c])
      /\ 0 \in 0..MaxAutCalls /\ autBegun \in 0..MaxAutCalls /\ 0 \in 0..MaxSessions /\ A!Ids \subseteq 0..MaxSessions
      /\ DOMAIN authorLocks = 0..MaxSessions /\ MaxSessions \in Nat /\ MaxAutCalls \in Nat /\ None \notin AutCalls
      /\ \A e \in AutCalls : autCalls[e].key \in 0..MaxSessions
  BY DEF AutTyped, AutShapes, AutConstants, A!Ids, AutRecord
<1>1. /\ autCalls' \in [AutCalls -> AutRecord] /\ \A e \in AutCalls : e # c => autCalls'[e] = autCalls[e]
      /\ autCalls[c].pc = "look"
      /\ \/ k.pc = "fire" /\ k.prompt /\ k.prompt = autCalls[c].prompt /\ k.kind = autCalls[c].kind /\ k.name = autCalls[c].name
            /\ k.key = autCalls[c].key /\ k.sess \in A!Open /\ k.read = authorRows[k.sess].agent /\ UNCHANGED authorLocks
         \/ k.pc = "idle" /\ k.kind = "none" /\ k.read = 0 /\ ~k.prompt
            /\ AutFrees(c)
         \/ k.pc = "insert" /\ UNCHANGED authorLocks
            /\ k.kind = autCalls[c].kind /\ k.name = autCalls[c].name /\ k.sess = autCalls[c].sess /\ k.key = autCalls[c].key
            /\ k.prompt = autCalls[c].prompt /\ k.read = autCalls[c].read
      /\ UNCHANGED <<taskDir, listed, authorRows, autBegun, twice, mixed>>
  <2>1. CASE autCalls[c].sess # 0
    BY <1>0, <2>1, AutResume, AutReturn DEF A!Look, A!At, A!Open, A!Files
  <2>2. CASE autCalls[c].sess = 0 /\ A!Open = {}
    BY <1>0, <2>2, AutTo DEF A!Look, A!At, A!Files, AutSteps
  <2>3. CASE autCalls[c].sess = 0 /\ A!Open # {}
    <3>1. PICK o \in A!Open : IF authorRows[o].task = autCalls[c].name THEN A!Resume(c, o) ELSE A!Return(c)
      BY <2>3 DEF A!Look
    <3> QED
      BY <1>0, <2>3, <3>1, AutResume, AutReturn DEF A!Look, A!At, A!Files
  <2> QED
    BY <2>1, <2>2, <2>3
<1>2. AutTyped'
  BY <1>0, <1>1 DEF AutTyped, AutFrees, AutSteps, AutRecord, AutShapes, AutShape, AutTurning, AutConstants
<1>3. AutShapes'
  BY <1>0, <1>1 DEF AutShapes, AutShape, AutTurning, A!Open
<1>4. AutListed'
  BY <1>0, <1>1 DEF AutListed, AutAt, AutMaking, AutShapes, AutShape, AutTurning
<1>5. AutOpen'
  BY <1>0, <1>1 DEF AutOpen, A!Open
<1>6. AutLocks'
  <2> SUFFICES ASSUME NEW e \in AutCalls
               PROVE  LET m == autCalls'[e] IN
                      /\ m.prompt /\ (m.pc \in {"look", "insert", "winner"} \/ AutTurning(m)) => authorLocks'[m.key] = e
                      /\ AutTurning(m) \/ m.pc = "close" => authorRows'[m.sess] # None
    BY DEF AutLocks
  <2>1. CASE e = c
    BY <1>0, <1>1, <2>1 DEF AutLocks, AutTurning, AutShape, A!Open, AutTyped, AutConstants
  <2>2. CASE e # c
    <3>1. autCalls'[e] = autCalls[e] /\ AutShape(autCalls[e]) /\ autCalls[e].key \in 0..MaxSessions
      BY <1>0, <1>1, <2>2 DEF AutShapes
    <3>2. authorLocks[autCalls[e].key] = e => authorLocks'[autCalls[e].key] = e
      BY <1>0, <1>1, <2>2, <3>1 DEF AutFrees, AutTyped
    <3>3. autCalls[e].sess \in A!Ids /\ authorRows[autCalls[e].sess] # None => authorRows'[autCalls[e].sess] # None
      BY <1>0, <1>1 DEF AutTyped, AutConstants
    <3> QED
      BY <3>1, <3>2, <3>3 DEF AutLocks, AutShape
  <2> QED
    BY <2>1, <2>2
<1>7. AutTurns'
  BY <1>0, <1>1 DEF AutTurns, AutLocks, AutShapes, AutShape, AutTurning
<1> QED
  BY <1>2, <1>3, <1>4, <1>5, <1>6, <1>7

LEMMA AutWinner == ASSUME NEW c \in AutCalls, AutInv, A!Winner(c) PROVE AutInv'
<1> USE DEF AutInv
<1> DEFINE k == autCalls'[c]
<1>0. /\ autCalls \in [AutCalls -> AutRecord] /\ autCalls[c] \in AutRecord /\ AutShape(autCalls[c])
      /\ 0 \in 0..MaxAutCalls /\ autBegun \in 0..MaxAutCalls /\ 0 \in 0..MaxSessions /\ A!Ids \subseteq 0..MaxSessions
      /\ DOMAIN authorLocks = 0..MaxSessions /\ MaxSessions \in Nat /\ MaxAutCalls \in Nat /\ None \notin AutCalls
      /\ \A e \in AutCalls : autCalls[e].key \in 0..MaxSessions
  BY DEF AutTyped, AutShapes, AutConstants, A!Ids, AutRecord
<1>1. /\ autCalls' \in [AutCalls -> AutRecord] /\ \A e \in AutCalls : e # c => autCalls'[e] = autCalls[e]
      /\ autCalls[c].pc = "winner"
      /\ \/ k.pc = "fire" /\ k.prompt /\ k.prompt = autCalls[c].prompt /\ k.kind = autCalls[c].kind /\ k.name = autCalls[c].name
            /\ k.key = autCalls[c].key /\ k.sess \in A!Open /\ k.read = authorRows[k.sess].agent /\ UNCHANGED authorLocks
         \/ k.pc = "idle" /\ k.kind = "none" /\ k.read = 0 /\ ~k.prompt
            /\ AutFrees(c)
      /\ UNCHANGED <<taskDir, listed, authorRows, autBegun, twice, mixed>>
  <2>1. CASE \E o \in A!Open : A!Resume(c, o)
    <3>1. PICK o \in A!Open : A!Resume(c, o)
      BY <2>1
    <3> QED
      BY <1>0, <3>1, AutResume, AutReturn DEF A!Winner, A!At, A!Files
  <2>2. CASE A!Return(c)
    BY <1>0, <2>2, AutReturn DEF A!Winner, A!At, A!Files
  <2> QED
    BY <2>1, <2>2 DEF A!Winner
<1>2. AutTyped'
  BY <1>0, <1>1 DEF AutTyped, AutFrees, AutSteps, AutRecord, AutShapes, AutShape, AutTurning, AutConstants
<1>3. AutShapes'
  BY <1>0, <1>1 DEF AutShapes, AutShape, AutTurning, A!Open
<1>4. AutListed'
  BY <1>0, <1>1 DEF AutListed, AutAt, AutMaking, AutShapes, AutShape, AutTurning
<1>5. AutOpen'
  BY <1>0, <1>1 DEF AutOpen, A!Open
<1>6. AutLocks'
  <2> SUFFICES ASSUME NEW e \in AutCalls
               PROVE  LET m == autCalls'[e] IN
                      /\ m.prompt /\ (m.pc \in {"look", "insert", "winner"} \/ AutTurning(m)) => authorLocks'[m.key] = e
                      /\ AutTurning(m) \/ m.pc = "close" => authorRows'[m.sess] # None
    BY DEF AutLocks
  <2>1. CASE e = c
    BY <1>0, <1>1, <2>1 DEF AutLocks, AutTurning, AutShape, A!Open, AutTyped, AutConstants
  <2>2. CASE e # c
    <3>1. autCalls'[e] = autCalls[e] /\ AutShape(autCalls[e]) /\ autCalls[e].key \in 0..MaxSessions
      BY <1>0, <1>1, <2>2 DEF AutShapes
    <3>2. authorLocks[autCalls[e].key] = e => authorLocks'[autCalls[e].key] = e
      BY <1>0, <1>1, <2>2, <3>1 DEF AutFrees, AutTyped
    <3>3. autCalls[e].sess \in A!Ids /\ authorRows[autCalls[e].sess] # None => authorRows'[autCalls[e].sess] # None
      BY <1>0, <1>1 DEF AutTyped, AutConstants
    <3> QED
      BY <3>1, <3>2, <3>3 DEF AutLocks, AutShape
  <2> QED
    BY <2>1, <2>2
<1>7. AutTurns'
  BY <1>0, <1>1 DEF AutTurns, AutLocks, AutShapes, AutShape, AutTurning
<1> QED
  BY <1>2, <1>3, <1>4, <1>5, <1>6, <1>7

LEMMA AutInsert == ASSUME NEW c \in AutCalls, AutInv, A!Insert(c) PROVE AutInv'
<1> USE DEF AutInv
<1> DEFINE k == autCalls'[c]
<1>0. /\ autCalls \in [AutCalls -> AutRecord] /\ autCalls[c] \in AutRecord /\ AutShape(autCalls[c])
      /\ 0 \in 0..MaxAutCalls /\ autBegun \in 0..MaxAutCalls /\ 0 \in 0..MaxSessions /\ A!Ids \subseteq 0..MaxSessions
      /\ DOMAIN authorLocks = 0..MaxSessions /\ MaxSessions \in Nat /\ MaxAutCalls \in Nat /\ None \notin AutCalls
      /\ \A e \in AutCalls : autCalls[e].key \in 0..MaxSessions
  BY DEF AutTyped, AutShapes, AutConstants, A!Ids, AutRecord
<1>1. /\ autCalls' \in [AutCalls -> AutRecord] /\ \A e \in AutCalls : e # c => autCalls'[e] = autCalls[e]
      /\ autCalls[c].pc = "insert"
      /\ \/ A!Open # {} /\ UNCHANGED <<authorRows, authorLocks>> /\ k.pc = "winner"
            /\ k.kind = autCalls[c].kind /\ k.name = autCalls[c].name /\ k.sess = autCalls[c].sess /\ k.key = autCalls[c].key
            /\ k.prompt = autCalls[c].prompt /\ k.read = autCalls[c].read
         \/ /\ A!Open = {}
            /\ \E s \in A!Ids, row \in AutRows :
                 /\ authorRows[s] = None /\ row.open /\ row.agent = 0 /\ authorRows' = [authorRows EXCEPT ![s] = row]
                 /\ \/ /\ k.pc = "fire" /\ k.prompt /\ k.sess = s /\ k.key = autCalls[c].key /\ k.kind = autCalls[c].kind
                       /\ k.name = autCalls[c].name /\ k.prompt = autCalls[c].prompt /\ k.read = 0 /\ UNCHANGED authorLocks
                    \/ k.pc = "idle" /\ k.kind = "none" /\ k.read = 0 /\ ~k.prompt
                       /\ AutFrees(c)
      /\ UNCHANGED <<taskDir, listed, autBegun, twice, mixed>>
  <2>1. CASE A!Open # {}
    BY <1>0, <2>1, AutTo DEF A!Insert, A!At, A!Files, AutSteps
  <2>2. CASE A!Open = {}
    <3>1. PICK s \in A!Ids :
            /\ authorRows[s] = None
            /\ authorRows' = [authorRows EXCEPT ![s] = [task |-> autCalls[c].name, open |-> TRUE, applied |-> FALSE, agent |-> 0]]
            /\ IF autCalls[c].prompt
               THEN autCalls' = [autCalls EXCEPT ![c].pc = "fire", ![c].sess = s] /\ UNCHANGED authorLocks
               ELSE A!Return(c)
      BY <2>2 DEF A!Insert
    <3> DEFINE row == [task |-> autCalls[c].name, open |-> TRUE, applied |-> FALSE, agent |-> 0]
               new == [autCalls[c] EXCEPT !.pc = "fire", !.sess = s]
    <3>2. row \in AutRows /\ row.open /\ row.agent = 0 /\ authorRows' = [authorRows EXCEPT ![s] = row]
      BY <1>0, <3>1 DEF AutRows, AutRecord
    <3>3. autCalls[c].pc = "insert" /\ autCalls[c].read = 0 /\ UNCHANGED <<taskDir, listed, twice, autBegun, mixed>>
      BY <1>0 DEF A!Insert, A!At, A!Files, AutShape, AutTurning
    <3>4. CASE A!Return(c) /\ ~autCalls[c].prompt
      BY <2>2, <3>1, <3>2, <3>3, <3>4, AutReturn
    <3>5. CASE autCalls[c].prompt
      <4>1. /\ new \in AutRecord /\ new.pc = "fire" /\ new.sess = s /\ new.read = 0
            /\ new.prompt = autCalls[c].prompt /\ new.kind = autCalls[c].kind /\ new.name = autCalls[c].name
            /\ new.key = autCalls[c].key
        BY <1>0, <3>3 DEF AutRecord, AutSteps
      <4>2. autCalls' = [autCalls EXCEPT ![c] = new] /\ UNCHANGED authorLocks
        BY <3>1, <3>5
      <4> HIDE DEF new, row
      <4> QED
        BY <1>0, <2>2, <3>1, <3>2, <3>3, <3>5, <4>1, <4>2
    <3> QED
      BY <3>1, <3>4, <3>5
  <2> QED
    BY <2>1, <2>2
<1>2. AutTyped'
  BY <1>0, <1>1 DEF AutTyped, AutFrees, AutSteps, AutRecord, AutShapes, AutShape, AutTurning, AutConstants
<1>3. AutShapes'
  BY <1>0, <1>1 DEF AutShapes, AutShape, AutTurning, A!Open
<1>4. AutListed'
  BY <1>0, <1>1 DEF AutListed, AutAt, AutMaking, AutShapes, AutShape, AutTurning
<1>5. AutOpen'
  <2>1. CASE UNCHANGED authorRows
    BY <2>1 DEF AutOpen, A!Open
  <2>2. ASSUME NEW s \in A!Ids, NEW row \in AutRows, A!Open = {}, authorRows' = [authorRows EXCEPT ![s] = row] PROVE AutOpen'
    <3>1. \A t \in A!Ids : t # s => authorRows'[t] = authorRows[t]
      BY <2>2 DEF AutTyped
    <3>2. (A!Open)' \subseteq {s}
      BY <2>2, <3>1 DEF A!Open
    <3> QED
      BY <3>2 DEF AutOpen
  <2> QED
    BY <1>1, <2>1, <2>2
<1>6. AutLocks'
  <2> SUFFICES ASSUME NEW e \in AutCalls
               PROVE  LET m == autCalls'[e] IN
                      /\ m.prompt /\ (m.pc \in {"look", "insert", "winner"} \/ AutTurning(m)) => authorLocks'[m.key] = e
                      /\ AutTurning(m) \/ m.pc = "close" => authorRows'[m.sess] # None
    BY DEF AutLocks
  <2>1. CASE e = c
    BY <1>0, <1>1, <2>1 DEF AutLocks, AutTurning, AutShape, A!Open, AutTyped, AutConstants
  <2>2. CASE e # c
    <3>1. autCalls'[e] = autCalls[e] /\ AutShape(autCalls[e]) /\ autCalls[e].key \in 0..MaxSessions
      BY <1>0, <1>1, <2>2 DEF AutShapes
    <3>2. authorLocks[autCalls[e].key] = e => authorLocks'[autCalls[e].key] = e
      BY <1>0, <1>1, <2>2, <3>1 DEF AutFrees, AutTyped
    <3>3. autCalls[e].sess \in A!Ids /\ authorRows[autCalls[e].sess] # None => authorRows'[autCalls[e].sess] # None
      BY <1>0, <1>1 DEF AutTyped, AutConstants
    <3> QED
      BY <3>1, <3>2, <3>3 DEF AutLocks, AutShape
  <2> QED
    BY <2>1, <2>2
<1>7. AutTurns'
  <2>1. CASE A!Open # {} /\ UNCHANGED authorRows /\ k.pc = "winner"
    BY <1>1, <2>1 DEF AutTurns, AutTurning
  <2>2. ASSUME NEW s \in A!Ids, NEW row \in AutRows, authorRows[s] = None, row.agent = 0,
               authorRows' = [authorRows EXCEPT ![s] = row],
               k.pc # "turn" /\ k.pc # "persist" /\ (k.pc = "fire" => k.sess = s /\ k.read = 0)
        PROVE  AutTurns'
    <3> SUFFICES ASSUME ~mixed, NEW e \in AutCalls
                 PROVE  /\ autCalls'[e].pc \in {"turn", "persist"} => autCalls'[e].key = 0
                        /\ AutTurning(autCalls'[e]) /\ autCalls'[e].key = 0 =>
                             authorRows'[autCalls'[e].sess].agent = autCalls'[e].read
      BY <1>1 DEF AutTurns
    <3>1. CASE e = c
      BY <2>2, <3>1 DEF AutTurning, AutTyped
    <3>2. CASE e # c
      <4>1. AutTurning(autCalls[e]) => autCalls[e].sess \in A!Ids /\ autCalls[e].sess # s
        BY <2>2 DEF AutShapes, AutShape, AutLocks
      <4> QED
        BY <1>1, <2>2, <3>2, <4>1 DEF AutTurns, AutTurning, AutTyped
    <3> QED
      BY <3>1, <3>2
  <2>3. \/ A!Open # {} /\ UNCHANGED authorRows /\ k.pc = "winner"
        \/ \E s \in A!Ids, row \in AutRows :
             /\ authorRows[s] = None /\ row.agent = 0 /\ authorRows' = [authorRows EXCEPT ![s] = row]
             /\ k.pc # "turn" /\ k.pc # "persist" /\ (k.pc = "fire" => k.sess = s /\ k.read = 0)
    BY <1>1
  <2> QED
    BY <2>1, <2>2, <2>3
<1> QED
  BY <1>2, <1>3, <1>4, <1>5, <1>6, <1>7

LEMMA AutRefuse == ASSUME NEW c \in AutCalls, AutInv, A!Refuse(c) PROVE AutInv'
<1> USE DEF AutInv
<1> DEFINE k == autCalls'[c]
<1>0. /\ autCalls \in [AutCalls -> AutRecord] /\ autCalls[c] \in AutRecord /\ AutShape(autCalls[c])
      /\ 0 \in 0..MaxAutCalls /\ autBegun \in 0..MaxAutCalls /\ 0 \in 0..MaxSessions /\ A!Ids \subseteq 0..MaxSessions
      /\ DOMAIN authorLocks = 0..MaxSessions /\ MaxSessions \in Nat /\ MaxAutCalls \in Nat /\ None \notin AutCalls
      /\ \A e \in AutCalls : autCalls[e].key \in 0..MaxSessions
  BY DEF AutTyped, AutShapes, AutConstants, A!Ids, AutRecord
<1>1. /\ autCalls' \in [AutCalls -> AutRecord] /\ \A e \in AutCalls : e # c => autCalls'[e] = autCalls[e]
      /\ autCalls[c].pc = "fire"
      /\ k.pc = "idle" /\ k.kind = "none" /\ k.read = 0 /\ ~k.prompt
      /\ AutFrees(c)
      /\ UNCHANGED <<taskDir, listed, authorRows, autBegun, twice, mixed>>
  BY <1>0, AutTo, AutReturn DEF AutSteps, A!At, A!Files, A!Refuse
<1>2. AutTyped'
  BY <1>0, <1>1 DEF AutTyped, AutFrees, AutSteps, AutRecord, AutShapes, AutShape, AutTurning, AutConstants
<1>3. AutShapes'
  BY <1>0, <1>1 DEF AutShapes, AutShape, AutTurning, A!Open
<1>4. AutListed'
  BY <1>0, <1>1 DEF AutListed, AutAt, AutMaking, AutShapes, AutShape, AutTurning
<1>5. AutOpen'
  BY <1>0, <1>1 DEF AutOpen, A!Open
<1>6. AutLocks'
  <2> SUFFICES ASSUME NEW e \in AutCalls
               PROVE  LET m == autCalls'[e] IN
                      /\ m.prompt /\ (m.pc \in {"look", "insert", "winner"} \/ AutTurning(m)) => authorLocks'[m.key] = e
                      /\ AutTurning(m) \/ m.pc = "close" => authorRows'[m.sess] # None
    BY DEF AutLocks
  <2>1. CASE e = c
    BY <1>0, <1>1, <2>1 DEF AutLocks, AutTurning, AutShape, A!Open, AutTyped, AutConstants
  <2>2. CASE e # c
    <3>1. autCalls'[e] = autCalls[e] /\ AutShape(autCalls[e]) /\ autCalls[e].key \in 0..MaxSessions
      BY <1>0, <1>1, <2>2 DEF AutShapes
    <3>2. authorLocks[autCalls[e].key] = e => authorLocks'[autCalls[e].key] = e
      BY <1>0, <1>1, <2>2, <3>1 DEF AutFrees, AutTyped
    <3>3. autCalls[e].sess \in A!Ids /\ authorRows[autCalls[e].sess] # None => authorRows'[autCalls[e].sess] # None
      BY <1>0, <1>1 DEF AutTyped, AutConstants
    <3> QED
      BY <3>1, <3>2, <3>3 DEF AutLocks, AutShape
  <2> QED
    BY <2>1, <2>2
<1>7. AutTurns'
  BY <1>0, <1>1 DEF AutTurns, AutLocks, AutShapes, AutShape, AutTurning
<1> QED
  BY <1>2, <1>3, <1>4, <1>5, <1>6, <1>7

LEMMA AutFire == ASSUME NEW c \in AutCalls, AutInv, A!Fire(c) PROVE AutInv'
<1> USE DEF AutInv
<1> DEFINE k == autCalls'[c]
<1>0. /\ autCalls \in [AutCalls -> AutRecord] /\ autCalls[c] \in AutRecord /\ AutShape(autCalls[c])
      /\ 0 \in 0..MaxAutCalls /\ autBegun \in 0..MaxAutCalls /\ 0 \in 0..MaxSessions /\ A!Ids \subseteq 0..MaxSessions
      /\ DOMAIN authorLocks = 0..MaxSessions /\ MaxSessions \in Nat /\ MaxAutCalls \in Nat /\ None \notin AutCalls
      /\ \A e \in AutCalls : autCalls[e].key \in 0..MaxSessions
  BY DEF AutTyped, AutShapes, AutConstants, A!Ids, AutRecord
<1>1. /\ autCalls' \in [AutCalls -> AutRecord] /\ \A e \in AutCalls : e # c => autCalls'[e] = autCalls[e]
      /\ autCalls[c].pc = "fire" /\ k.pc = "turn"
      /\ k.kind = autCalls[c].kind /\ k.name = autCalls[c].name /\ k.sess = autCalls[c].sess /\ k.key = autCalls[c].key /\ k.prompt = autCalls[c].prompt /\ k.read = autCalls[c].read
      /\ mixed' = (mixed \/ autCalls[c].key # 0)
      /\ UNCHANGED <<taskDir, listed, authorRows, authorLocks, autBegun, twice>>
  <2> DEFINE new == [autCalls[c] EXCEPT !.pc = "turn", !.turn = autBegun]
  <2>1. /\ new \in AutRecord /\ new.pc = "turn" /\ new.kind = autCalls[c].kind /\ new.name = autCalls[c].name
        /\ new.sess = autCalls[c].sess /\ new.key = autCalls[c].key /\ new.prompt = autCalls[c].prompt
        /\ new.read = autCalls[c].read
    BY <1>0 DEF AutRecord, AutSteps
  <2>2. /\ autCalls' = [autCalls EXCEPT ![c] = new] /\ autCalls[c].pc = "fire"
        /\ mixed' = (mixed \/ autCalls[c].key # 0)
        /\ UNCHANGED <<taskDir, listed, authorRows, authorLocks, autBegun, twice>>
    BY DEF A!Fire, A!At, A!Files, A!SourceKey
  <2> HIDE DEF new
  <2> QED
    BY <1>0, <2>1, <2>2
<1>2. AutTyped'
  BY <1>0, <1>1 DEF AutTyped, AutFrees, AutSteps, AutRecord, AutShapes, AutShape, AutTurning, AutConstants
<1>3. AutShapes'
  BY <1>0, <1>1 DEF AutShapes, AutShape, AutTurning, A!Open
<1>4. AutListed'
  BY <1>0, <1>1 DEF AutListed, AutAt, AutMaking, AutShapes, AutShape, AutTurning
<1>5. AutOpen'
  BY <1>0, <1>1 DEF AutOpen, A!Open
<1>6. AutLocks'
  <2> SUFFICES ASSUME NEW e \in AutCalls
               PROVE  LET m == autCalls'[e] IN
                      /\ m.prompt /\ (m.pc \in {"look", "insert", "winner"} \/ AutTurning(m)) => authorLocks'[m.key] = e
                      /\ AutTurning(m) \/ m.pc = "close" => authorRows'[m.sess] # None
    BY DEF AutLocks
  <2>1. CASE e = c
    BY <1>0, <1>1, <2>1 DEF AutLocks, AutTurning, AutShape, A!Open, AutTyped, AutConstants
  <2>2. CASE e # c
    <3>1. autCalls'[e] = autCalls[e] /\ AutShape(autCalls[e]) /\ autCalls[e].key \in 0..MaxSessions
      BY <1>0, <1>1, <2>2 DEF AutShapes
    <3>2. authorLocks[autCalls[e].key] = e => authorLocks'[autCalls[e].key] = e
      BY <1>0, <1>1, <2>2, <3>1 DEF AutFrees, AutTyped
    <3>3. autCalls[e].sess \in A!Ids /\ authorRows[autCalls[e].sess] # None => authorRows'[autCalls[e].sess] # None
      BY <1>0, <1>1 DEF AutTyped, AutConstants
    <3> QED
      BY <3>1, <3>2, <3>3 DEF AutLocks, AutShape
  <2> QED
    BY <2>1, <2>2
<1>7. AutTurns'
  <2> SUFFICES ASSUME ~mixed', NEW e \in AutCalls
               PROVE  /\ autCalls'[e].pc \in {"turn", "persist"} => autCalls'[e].key = 0
                      /\ AutTurning(autCalls'[e]) /\ autCalls'[e].key = 0 =>
                           authorRows'[autCalls'[e].sess].agent = autCalls'[e].read
    BY DEF AutTurns
  <2>1. ~mixed /\ autCalls[c].key = 0
    BY <1>1
  <2>2. CASE e = c
    BY <1>1, <2>1, <2>2 DEF AutTurns, AutTurning
  <2>3. CASE e # c
    BY <1>1, <2>1, <2>3 DEF AutTurns, AutTurning
  <2> QED
    BY <2>2, <2>3
<1> QED
  BY <1>2, <1>3, <1>4, <1>5, <1>6, <1>7

LEMMA AutSettle == ASSUME NEW c \in AutCalls, AutInv, A!Settle(c) PROVE AutInv'
<1> USE DEF AutInv
<1> DEFINE k == autCalls'[c]
<1>0. /\ autCalls \in [AutCalls -> AutRecord] /\ autCalls[c] \in AutRecord /\ AutShape(autCalls[c])
      /\ 0 \in 0..MaxAutCalls /\ autBegun \in 0..MaxAutCalls /\ 0 \in 0..MaxSessions /\ A!Ids \subseteq 0..MaxSessions
      /\ DOMAIN authorLocks = 0..MaxSessions /\ MaxSessions \in Nat /\ MaxAutCalls \in Nat /\ None \notin AutCalls
      /\ \A e \in AutCalls : autCalls[e].key \in 0..MaxSessions
  BY DEF AutTyped, AutShapes, AutConstants, A!Ids, AutRecord
<1>1. /\ autCalls' \in [AutCalls -> AutRecord] /\ \A e \in AutCalls : e # c => autCalls'[e] = autCalls[e]
      /\ autCalls[c].pc = "turn"
      /\ \/ k.pc = "persist" /\ UNCHANGED authorLocks
            /\ k.kind = autCalls[c].kind /\ k.name = autCalls[c].name /\ k.sess = autCalls[c].sess /\ k.key = autCalls[c].key
            /\ k.prompt = autCalls[c].prompt /\ k.read = autCalls[c].read
         \/ k.pc = "idle" /\ k.kind = "none" /\ k.read = 0 /\ ~k.prompt
            /\ AutFrees(c)
      /\ UNCHANGED <<taskDir, listed, authorRows, autBegun, twice, mixed>>
  <2>1. CASE autCalls' = A!To(c, "persist") /\ UNCHANGED authorLocks
    BY <1>0, <2>1, AutTo, AutReturn DEF AutSteps, A!At, A!Files, A!Settle
  <2>2. CASE A!Return(c)
    BY <1>0, <2>2, AutTo, AutReturn DEF AutSteps, A!At, A!Files, A!Settle
  <2> QED
    BY <2>1, <2>2 DEF A!Settle
<1>2. AutTyped'
  BY <1>0, <1>1 DEF AutTyped, AutFrees, AutSteps, AutRecord, AutShapes, AutShape, AutTurning, AutConstants
<1>3. AutShapes'
  BY <1>0, <1>1 DEF AutShapes, AutShape, AutTurning, A!Open
<1>4. AutListed'
  BY <1>0, <1>1 DEF AutListed, AutAt, AutMaking, AutShapes, AutShape, AutTurning
<1>5. AutOpen'
  BY <1>0, <1>1 DEF AutOpen, A!Open
<1>6. AutLocks'
  <2> SUFFICES ASSUME NEW e \in AutCalls
               PROVE  LET m == autCalls'[e] IN
                      /\ m.prompt /\ (m.pc \in {"look", "insert", "winner"} \/ AutTurning(m)) => authorLocks'[m.key] = e
                      /\ AutTurning(m) \/ m.pc = "close" => authorRows'[m.sess] # None
    BY DEF AutLocks
  <2>1. CASE e = c
    BY <1>0, <1>1, <2>1 DEF AutLocks, AutTurning, AutShape, A!Open, AutTyped, AutConstants
  <2>2. CASE e # c
    <3>1. autCalls'[e] = autCalls[e] /\ AutShape(autCalls[e]) /\ autCalls[e].key \in 0..MaxSessions
      BY <1>0, <1>1, <2>2 DEF AutShapes
    <3>2. authorLocks[autCalls[e].key] = e => authorLocks'[autCalls[e].key] = e
      BY <1>0, <1>1, <2>2, <3>1 DEF AutFrees, AutTyped
    <3>3. autCalls[e].sess \in A!Ids /\ authorRows[autCalls[e].sess] # None => authorRows'[autCalls[e].sess] # None
      BY <1>0, <1>1 DEF AutTyped, AutConstants
    <3> QED
      BY <3>1, <3>2, <3>3 DEF AutLocks, AutShape
  <2> QED
    BY <2>1, <2>2
<1>7. AutTurns'
  BY <1>0, <1>1 DEF AutTurns, AutLocks, AutShapes, AutShape, AutTurning
<1> QED
  BY <1>2, <1>3, <1>4, <1>5, <1>6, <1>7

LEMMA AutPersist == ASSUME NEW c \in AutCalls, AutInv, A!Persist(c) PROVE AutInv'
<1> USE DEF AutInv
<1> DEFINE k == autCalls'[c]
<1>0. /\ autCalls \in [AutCalls -> AutRecord] /\ autCalls[c] \in AutRecord /\ AutShape(autCalls[c])
      /\ 0 \in 0..MaxAutCalls /\ autBegun \in 0..MaxAutCalls /\ 0 \in 0..MaxSessions /\ A!Ids \subseteq 0..MaxSessions
      /\ DOMAIN authorLocks = 0..MaxSessions /\ MaxSessions \in Nat /\ MaxAutCalls \in Nat /\ None \notin AutCalls
      /\ \A e \in AutCalls : autCalls[e].key \in 0..MaxSessions
  BY DEF AutTyped, AutShapes, AutConstants, A!Ids, AutRecord
<1>1. /\ autCalls' \in [AutCalls -> AutRecord] /\ \A e \in AutCalls : e # c => autCalls'[e] = autCalls[e]
      /\ autCalls[c].pc = "persist"
      /\ k.pc = "idle" /\ k.kind = "none" /\ k.read = 0 /\ ~k.prompt
      /\ AutFrees(c)
      /\ \/ authorRows' = [authorRows EXCEPT ![autCalls[c].sess].agent = autCalls[c].turn]
         \/ UNCHANGED authorRows
      /\ UNCHANGED <<taskDir, listed, autBegun, twice, mixed>>
  BY <1>0, AutTo, AutReturn DEF AutSteps, A!At, A!Files, A!Persist
<1>a. /\ authorRows' \in [A!Ids -> AutRows \cup {None}] /\ autCalls[c].sess \in A!Ids /\ autCalls[c].prompt
      /\ \A s \in A!Ids : /\ (authorRows'[s] = None) <=> (authorRows[s] = None)
                          /\ s # autCalls[c].sess => authorRows'[s] = authorRows[s]
                          /\ authorRows[s] # None => authorRows'[s].open = authorRows[s].open
  <2> DEFINE s0 == autCalls[c].sess
             row == [authorRows[s0] EXCEPT !.agent = autCalls[c].turn]
  <2>1. s0 \in A!Ids /\ authorRows[s0] # None /\ autCalls[c].turn \in 0..MaxAutCalls /\ autCalls[c].prompt
    BY <1>0, <1>1 DEF AutLocks, AutShape, AutTurning, AutRecord
  <2>2. authorRows \in [A!Ids -> AutRows \cup {None}] /\ None \notin AutRows
    BY DEF AutTyped, AutConstants
  <2>3. row \in AutRows /\ row.open = authorRows[s0].open
    BY <2>1, <2>2 DEF AutRows
  <2>4. authorRows' = authorRows \/ authorRows' = [authorRows EXCEPT ![s0] = row]
    BY <1>1
  <2> HIDE DEF row
  <2> QED
    BY <2>1, <2>2, <2>3, <2>4
<1>2. AutTyped'
  BY <1>0, <1>1, <1>a DEF AutTyped, AutFrees, AutSteps, AutRecord, AutShapes, AutShape, AutTurning, AutConstants
<1>3. AutShapes'
  BY <1>0, <1>1, <1>a DEF AutShapes, AutShape, AutTurning, A!Open
<1>4. AutListed'
  <2> SUFFICES ASSUME ~twice' PROVE AutListed'
    BY DEF AutListed
  <2>1. /\ ~twice /\ \A n \in listed : taskDir[n] = "full"
        /\ \A n \in Names : taskDir[n] # "none" =>
             n \in listed \/ \E e \in AutCalls : autCalls[e].name = n /\ (AutMaking(autCalls[e]) \/ autCalls[e].pc = "rmdir")
        /\ \A e \in AutCalls : AutAt(autCalls[e]) /\ AutShape(autCalls[e])
        /\ \A b, e \in AutCalls :
             autCalls[b].name = autCalls[e].name /\ (AutMaking(autCalls[b]) \/ autCalls[b].kind = "delete") =>
               b = e \/ ~(AutMaking(autCalls[e]) \/ autCalls[e].kind = "delete")
        /\ taskDir \in [Names -> {"none", "part", "full"}] /\ listed \subseteq Names
        /\ \A e \in AutCalls : AutMaking(autCalls[e]) \/ autCalls[e].kind = "delete" => autCalls[e].name \in Names \cup {None}
    BY <1>0, <1>1 DEF AutListed, AutShapes, AutTyped, AutRecord
  <2>2. \A n \in listed' : taskDir'[n] = "full"
    BY <1>0, <1>1, <2>1 DEF AutAt, AutMaking, AutShape
  <2>3. \A n \in Names : taskDir'[n] # "none" =>
          n \in listed' \/ \E e \in AutCalls : autCalls'[e].name = n /\ (AutMaking(autCalls'[e]) \/ autCalls'[e].pc = "rmdir")
    BY <1>0, <1>1, <2>1 DEF AutAt, AutMaking, AutShape
  <2>4. ASSUME NEW e \in AutCalls PROVE AutAt(autCalls[e])'
    <3>1. CASE e = c
      BY <1>0, <1>1, <2>1, <3>1 DEF AutAt, AutMaking, AutShape
    <3>2. CASE e # c
      BY <1>0, <1>1, <2>1, <3>2 DEF AutAt, AutMaking, AutShape
    <3> QED
      BY <3>1, <3>2
  <2>5. \A b, e \in AutCalls :
          autCalls'[b].name = autCalls'[e].name /\ (AutMaking(autCalls'[b]) \/ autCalls'[b].kind = "delete") =>
            b = e \/ ~(AutMaking(autCalls'[e]) \/ autCalls'[e].kind = "delete")
    BY <1>0, <1>1, <2>1 DEF AutAt, AutMaking, AutShape
  <2> QED
    BY <2>2, <2>3, <2>4, <2>5 DEF AutListed
<1>5. AutOpen'
  BY <1>0, <1>1, <1>a DEF AutOpen, A!Open
<1>6. AutLocks'
  <2> SUFFICES ASSUME NEW e \in AutCalls
               PROVE  LET m == autCalls'[e] IN
                      /\ m.prompt /\ (m.pc \in {"look", "insert", "winner"} \/ AutTurning(m)) => authorLocks'[m.key] = e
                      /\ AutTurning(m) \/ m.pc = "close" => authorRows'[m.sess] # None
    BY DEF AutLocks
  <2>1. CASE e = c
    BY <1>0, <1>1, <1>a, <2>1 DEF AutLocks, AutTurning, AutShape, A!Open, AutTyped, AutConstants
  <2>2. CASE e # c
    <3>1. autCalls'[e] = autCalls[e] /\ AutShape(autCalls[e]) /\ autCalls[e].key \in 0..MaxSessions
      BY <1>0, <1>1, <1>a, <2>2 DEF AutShapes
    <3>2. authorLocks[autCalls[e].key] = e => authorLocks'[autCalls[e].key] = e
      BY <1>0, <1>1, <1>a, <2>2, <3>1 DEF AutFrees, AutTyped
    <3>3. autCalls[e].sess \in A!Ids /\ authorRows[autCalls[e].sess] # None => authorRows'[autCalls[e].sess] # None
      BY <1>0, <1>1, <1>a DEF AutTyped, AutConstants
    <3> QED
      BY <3>1, <3>2, <3>3 DEF AutLocks, AutShape
  <2> QED
    BY <2>1, <2>2
<1>7. AutTurns'
  <2> SUFFICES ASSUME ~mixed, NEW e \in AutCalls, e # c
               PROVE  /\ autCalls[e].pc \in {"turn", "persist"} => autCalls[e].key = 0
                      /\ AutTurning(autCalls[e]) /\ autCalls[e].key = 0 => authorRows'[autCalls[e].sess].agent = autCalls[e].read
    BY <1>0, <1>1 DEF AutTurns, AutTurning
  <2>1. autCalls[c].key = 0 /\ authorLocks[0] = c
    BY <1>1, <1>a DEF AutTurns, AutLocks, AutTurning
  <2>2. AutTurning(autCalls[e]) => autCalls[e].prompt
    BY DEF AutShapes, AutShape
  <2>3. AutTurning(autCalls[e]) => autCalls[e].key # 0
    BY <2>1, <2>2 DEF AutLocks
  <2> QED
    BY <2>3 DEF AutTurns
<1> QED
  BY <1>2, <1>3, <1>4, <1>5, <1>6, <1>7

LEMMA AutClose == ASSUME NEW c \in AutCalls, NEW s \in A!Ids, NEW save \in BOOLEAN, AutInv, A!Close(c, s, save) PROVE AutInv'
<1> USE DEF AutInv
<1> DEFINE k == autCalls'[c]
<1>0. /\ autCalls \in [AutCalls -> AutRecord] /\ autCalls[c] \in AutRecord /\ AutShape(autCalls[c])
      /\ 0 \in 0..MaxAutCalls /\ autBegun \in 0..MaxAutCalls /\ 0 \in 0..MaxSessions /\ A!Ids \subseteq 0..MaxSessions
      /\ DOMAIN authorLocks = 0..MaxSessions /\ MaxSessions \in Nat /\ MaxAutCalls \in Nat /\ None \notin AutCalls
      /\ \A e \in AutCalls : autCalls[e].key \in 0..MaxSessions
  BY DEF AutTyped, AutShapes, AutConstants, A!Ids, AutRecord
<1>1. /\ autCalls' \in [AutCalls -> AutRecord] /\ \A e \in AutCalls : e # c => autCalls'[e] = autCalls[e]
      /\ autCalls[c].pc = "idle" /\ k.read = 0
      /\ s \in A!Open /\ k.pc = "close" /\ k.kind = "close" /\ k.sess = s
      /\ autBegun' \in 0..MaxAutCalls
      /\ UNCHANGED <<taskDir, listed, authorRows, authorLocks, twice, mixed>>
  <2> DEFINE new == [A!NoCall EXCEPT !.pc = "close", !.kind = "close", !.sess = s, !.ok = save]
  <2>1. new \in AutRecord /\ new.pc = "close" /\ new.kind = "close" /\ new.sess = s /\ new.read = 0
    BY <1>0, AutNoCall DEF AutRecord, AutSteps, A!NoCall, A!SourceKey, AutTyped
  <2>2. A!Begin(c, new)
    BY DEF A!Close, A!SourceKey
  <2> HIDE DEF new
  <2> QED
    BY <2>1, <2>2, AutBegin DEF A!Close, A!Files, A!Exists
<1>2. AutTyped'
  BY <1>0, <1>1 DEF AutTyped, AutFrees, AutSteps, AutRecord, AutShapes, AutShape, AutTurning, AutConstants
<1>3. AutShapes'
  BY <1>0, <1>1 DEF AutShapes, AutShape, AutTurning, A!Open
<1>4. AutListed'
  BY <1>0, <1>1 DEF AutListed, AutAt, AutMaking, AutShapes, AutShape, AutTurning
<1>5. AutOpen'
  BY <1>0, <1>1 DEF AutOpen, A!Open
<1>6. AutLocks'
  <2> SUFFICES ASSUME NEW e \in AutCalls
               PROVE  LET m == autCalls'[e] IN
                      /\ m.prompt /\ (m.pc \in {"look", "insert", "winner"} \/ AutTurning(m)) => authorLocks'[m.key] = e
                      /\ AutTurning(m) \/ m.pc = "close" => authorRows'[m.sess] # None
    BY DEF AutLocks
  <2>1. CASE e = c
    BY <1>0, <1>1, <2>1 DEF AutLocks, AutTurning, AutShape, A!Open, AutTyped, AutConstants
  <2>2. CASE e # c
    <3>1. autCalls'[e] = autCalls[e] /\ AutShape(autCalls[e]) /\ autCalls[e].key \in 0..MaxSessions
      BY <1>0, <1>1, <2>2 DEF AutShapes
    <3>2. authorLocks[autCalls[e].key] = e => authorLocks'[autCalls[e].key] = e
      BY <1>0, <1>1, <2>2, <3>1 DEF AutFrees, AutTyped
    <3>3. autCalls[e].sess \in A!Ids /\ authorRows[autCalls[e].sess] # None => authorRows'[autCalls[e].sess] # None
      BY <1>0, <1>1 DEF AutTyped, AutConstants
    <3> QED
      BY <3>1, <3>2, <3>3 DEF AutLocks, AutShape
  <2> QED
    BY <2>1, <2>2
<1>7. AutTurns'
  BY <1>0, <1>1 DEF AutTurns, AutLocks, AutShapes, AutShape, AutTurning
<1> QED
  BY <1>2, <1>3, <1>4, <1>5, <1>6, <1>7

LEMMA AutClosed == ASSUME NEW c \in AutCalls, AutInv, A!Closed(c) PROVE AutInv'
<1> USE DEF AutInv
<1> DEFINE k == autCalls'[c]
<1>0. /\ autCalls \in [AutCalls -> AutRecord] /\ autCalls[c] \in AutRecord /\ AutShape(autCalls[c])
      /\ 0 \in 0..MaxAutCalls /\ autBegun \in 0..MaxAutCalls /\ 0 \in 0..MaxSessions /\ A!Ids \subseteq 0..MaxSessions
      /\ DOMAIN authorLocks = 0..MaxSessions /\ MaxSessions \in Nat /\ MaxAutCalls \in Nat /\ None \notin AutCalls
      /\ \A e \in AutCalls : autCalls[e].key \in 0..MaxSessions
  BY DEF AutTyped, AutShapes, AutConstants, A!Ids, AutRecord
<1>1. /\ autCalls' \in [AutCalls -> AutRecord] /\ \A e \in AutCalls : e # c => autCalls'[e] = autCalls[e]
      /\ autCalls[c].pc = "close"
      /\ k.pc = "idle" /\ k.kind = "none" /\ k.read = 0 /\ ~k.prompt
      /\ AutFrees(c)
      /\ authorRows' = [authorRows EXCEPT ![autCalls[c].sess].open = FALSE, ![autCalls[c].sess].applied = autCalls[c].ok]
      /\ UNCHANGED <<taskDir, listed, autBegun, twice, mixed>>
  BY <1>0, AutTo, AutReturn DEF AutSteps, A!At, A!Files, A!Closed
<1>a. /\ authorRows' \in [A!Ids -> AutRows \cup {None}] /\ None \notin AutRows
      /\ \A s \in A!Ids : /\ (authorRows'[s] = None) <=> (authorRows[s] = None)
                          /\ authorRows'[s] # None => authorRows'[s].agent = authorRows[s].agent
                          /\ authorRows'[s] # None /\ authorRows'[s].open => authorRows[s].open
  <2> DEFINE s0 == autCalls[c].sess
             row == [authorRows[s0] EXCEPT !.open = FALSE, !.applied = autCalls[c].ok]
  <2>1. s0 \in A!Ids /\ authorRows[s0] # None /\ autCalls[c].ok \in BOOLEAN
    BY <1>0, <1>1 DEF AutLocks, AutShape, AutRecord
  <2>2. authorRows \in [A!Ids -> AutRows \cup {None}] /\ None \notin AutRows
    BY DEF AutTyped, AutConstants
  <2>3. row \in AutRows /\ row.open = FALSE /\ row.agent = authorRows[s0].agent
    BY <2>1, <2>2 DEF AutRows
  <2>4. authorRows' = [authorRows EXCEPT ![s0] = row]
    BY <1>1
  <2> HIDE DEF row
  <2> QED
    BY <2>1, <2>2, <2>3, <2>4
<1>2. AutTyped'
  BY <1>0, <1>1, <1>a DEF AutTyped, AutFrees, AutSteps, AutRecord, AutShapes, AutShape, AutTurning, AutConstants
<1>3. AutShapes'
  BY <1>0, <1>1, <1>a DEF AutShapes, AutShape, AutTurning, A!Open
<1>4. AutListed'
  <2> SUFFICES ASSUME ~twice' PROVE AutListed'
    BY DEF AutListed
  <2>1. /\ ~twice /\ \A n \in listed : taskDir[n] = "full"
        /\ \A n \in Names : taskDir[n] # "none" =>
             n \in listed \/ \E e \in AutCalls : autCalls[e].name = n /\ (AutMaking(autCalls[e]) \/ autCalls[e].pc = "rmdir")
        /\ \A e \in AutCalls : AutAt(autCalls[e]) /\ AutShape(autCalls[e])
        /\ \A b, e \in AutCalls :
             autCalls[b].name = autCalls[e].name /\ (AutMaking(autCalls[b]) \/ autCalls[b].kind = "delete") =>
               b = e \/ ~(AutMaking(autCalls[e]) \/ autCalls[e].kind = "delete")
        /\ taskDir \in [Names -> {"none", "part", "full"}] /\ listed \subseteq Names
        /\ \A e \in AutCalls : AutMaking(autCalls[e]) \/ autCalls[e].kind = "delete" => autCalls[e].name \in Names \cup {None}
    BY <1>0, <1>1 DEF AutListed, AutShapes, AutTyped, AutRecord
  <2>2. \A n \in listed' : taskDir'[n] = "full"
    BY <1>0, <1>1, <2>1 DEF AutAt, AutMaking, AutShape
  <2>3. \A n \in Names : taskDir'[n] # "none" =>
          n \in listed' \/ \E e \in AutCalls : autCalls'[e].name = n /\ (AutMaking(autCalls'[e]) \/ autCalls'[e].pc = "rmdir")
    BY <1>0, <1>1, <2>1 DEF AutAt, AutMaking, AutShape
  <2>4. ASSUME NEW e \in AutCalls PROVE AutAt(autCalls[e])'
    <3>1. CASE e = c
      BY <1>0, <1>1, <2>1, <3>1 DEF AutAt, AutMaking, AutShape
    <3>2. CASE e # c
      BY <1>0, <1>1, <2>1, <3>2 DEF AutAt, AutMaking, AutShape
    <3> QED
      BY <3>1, <3>2
  <2>5. \A b, e \in AutCalls :
          autCalls'[b].name = autCalls'[e].name /\ (AutMaking(autCalls'[b]) \/ autCalls'[b].kind = "delete") =>
            b = e \/ ~(AutMaking(autCalls'[e]) \/ autCalls'[e].kind = "delete")
    BY <1>0, <1>1, <2>1 DEF AutAt, AutMaking, AutShape
  <2> QED
    BY <2>2, <2>3, <2>4, <2>5 DEF AutListed
<1>5. AutOpen'
  BY <1>0, <1>1, <1>a DEF AutOpen, A!Open
<1>6. AutLocks'
  <2> SUFFICES ASSUME NEW e \in AutCalls
               PROVE  LET m == autCalls'[e] IN
                      /\ m.prompt /\ (m.pc \in {"look", "insert", "winner"} \/ AutTurning(m)) => authorLocks'[m.key] = e
                      /\ AutTurning(m) \/ m.pc = "close" => authorRows'[m.sess] # None
    BY DEF AutLocks
  <2>1. CASE e = c
    BY <1>0, <1>1, <1>a, <2>1 DEF AutLocks, AutTurning, AutShape, A!Open, AutTyped, AutConstants
  <2>2. CASE e # c
    <3>1. autCalls'[e] = autCalls[e] /\ AutShape(autCalls[e]) /\ autCalls[e].key \in 0..MaxSessions
      BY <1>0, <1>1, <1>a, <2>2 DEF AutShapes
    <3>2. authorLocks[autCalls[e].key] = e => authorLocks'[autCalls[e].key] = e
      BY <1>0, <1>1, <1>a, <2>2, <3>1 DEF AutFrees, AutTyped
    <3>3. autCalls[e].sess \in A!Ids /\ authorRows[autCalls[e].sess] # None => authorRows'[autCalls[e].sess] # None
      BY <1>0, <1>1, <1>a DEF AutTyped, AutConstants
    <3> QED
      BY <3>1, <3>2, <3>3 DEF AutLocks, AutShape
  <2> QED
    BY <2>1, <2>2
<1>7. AutTurns'
  BY <1>0, <1>1, <1>a DEF AutTurns, AutLocks, AutShapes, AutShape, AutTurning
<1> QED
  BY <1>2, <1>3, <1>4, <1>5, <1>6, <1>7


LEMMA AutPurge == ASSUME NEW s \in A!Ids, AutInv, A!PurgeExpired(s) PROVE AutInv'
<1> USE DEF AutInv
<1>1. /\ authorRows[s] \in AutRows /\ authorRows' = [authorRows EXCEPT ![s].open = FALSE, ![s].applied = FALSE]
      /\ UNCHANGED <<taskDir, listed, authorLocks, autCalls, autBegun, twice, mixed>>
  BY DEF A!PurgeExpired, A!Files, A!Open, AutTyped
<1>2. /\ authorRows' \in [A!Ids -> AutRows \cup {None}] /\ authorRows'[s] \in AutRows /\ ~authorRows'[s].open
      /\ authorRows'[s].agent = authorRows[s].agent /\ \A t \in A!Ids : t # s => authorRows'[t] = authorRows[t]
  BY <1>1 DEF AutTyped, AutRows
<1>3. None \notin AutRows
  BY DEF AutTyped, AutConstants
<1>4. AutTyped'
  BY <1>1, <1>2 DEF AutTyped
<1>5. AutShapes' /\ AutListed'
  BY <1>1 DEF AutShapes, AutListed, AutAt
<1>6. AutOpen'
  BY <1>1, <1>2 DEF AutOpen, A!Open
<1>7. AutLocks' /\ AutTurns'
  BY <1>1, <1>2, <1>3 DEF AutLocks, AutTurns, AutShapes, AutShape
<1> QED
  BY <1>4, <1>5, <1>6, <1>7

LEMMA AutNext == AutInv /\ [A!Next]_(A!vars) => AutInv'
<1> SUFFICES ASSUME AutInv, [A!Next]_(A!vars) PROVE AutInv'
  OBVIOUS
<1>1. CASE UNCHANGED A!vars
  <2>1. UNCHANGED <<taskDir, listed, authorRows, authorLocks, autCalls, autBegun, twice, mixed>>
    BY <1>1 DEF A!vars
  <2>2. AutTyped' /\ AutShapes' /\ AutListed'
    BY <2>1 DEF AutInv, AutTyped, AutShapes, AutListed, AutAt
  <2>3. AutOpen' /\ AutLocks' /\ AutTurns'
    BY <2>1 DEF AutInv, AutOpen, A!Open, AutLocks, AutTurns
  <2> QED
    BY <2>2, <2>3 DEF AutInv
<1>2. ASSUME NEW c \in AutCalls, NEW n \in Names, NEW p \in BOOLEAN, A!Mkdir(c, n, p) \/ A!Delete(c, n) PROVE AutInv'
  BY <1>2, AutMkdir, AutDelete
<1>3. ASSUME NEW c \in AutCalls, NEW w \in BOOLEAN, NEW n \in listed \cup {None}, NEW s \in A!Ids \cup {0}, NEW p \in BOOLEAN,
             A!Edit(c, w, n, s, p)
      PROVE  AutInv'
  BY <1>3, AutEdit
<1>4. ASSUME NEW c \in AutCalls, NEW s \in A!Ids, NEW save \in BOOLEAN, A!Close(c, s, save) PROVE AutInv'
  BY <1>4, AutClose
<1>5. ASSUME NEW c \in AutCalls,
             \/ A!WriteFiles(c) \/ A!AddEntry(c) \/ A!Cleanup(c) \/ A!Answer(c) \/ A!Unlist(c) \/ A!Rmdir(c)
             \/ A!Lock(c) \/ A!Look(c) \/ A!Insert(c) \/ A!Winner(c) \/ A!Refuse(c) \/ A!Fire(c) \/ A!Settle(c)
             \/ A!Persist(c) \/ A!Closed(c)
      PROVE  AutInv'
  BY <1>5, AutWriteFiles, AutAddEntry, AutCleanup, AutAnswer, AutUnlist, AutRmdir, AutLock, AutLook,
    AutInsert, AutWinner,
     AutRefuse, AutFire, AutSettle, AutPersist, AutClosed
<1>6. ASSUME NEW s \in A!Ids, A!PurgeExpired(s) PROVE AutInv'
  BY <1>6, AutPurge
<1>7. FALSE \in BOOLEAN
  OBVIOUS
<1> QED
  BY <1>1, <1>2, <1>3, <1>4, <1>5, <1>6, <1>7 DEF A!Next

LEMMA AutMeans == AutInv => A!TypeOK /\ A!ListedIsThere /\ A!TurnsGoOn
<1> SUFFICES ASSUME AutInv PROVE A!TypeOK /\ A!ListedIsThere /\ A!TurnsGoOn
  OBVIOUS
<1>1. A!TypeOK
  <2>1. A!Open = {} \/ \E s : A!Open = {s}
    BY DEF AutInv, AutOpen
  <2>2. Cardinality({}) = 0 /\ \A s : Cardinality({s}) = 1
    BY FS_EmptySet, FS_Singleton
  <2>3. Cardinality(A!Open) \in {0, 1}
    BY <2>1, <2>2, Zenon
  <2>5. Cardinality(A!Open) <= 1
    BY <2>3
  <2>6. \A S : A!Cardinality(S) = Cardinality(S)
    BY DEF A!Cardinality, Cardinality
  <2> QED
    BY <2>5, <2>6 DEF AutInv, AutTyped, A!TypeOK
<1>2. A!ListedIsThere
  BY DEF AutInv, AutListed, AutMaking, AutShapes, AutShape, A!ListedIsThere, A!Working
<1>3. A!TurnsGoOn
  BY DEF AutInv, AutTurns, AutTurning, A!TurnsGoOn, A!TurnsGoOnAlways
<1> QED
  BY <1>1, <1>2, <1>3

\* What CreateTask, deleteLocal and EditTask promise: a taskset lists what is on disk, nothing else
\* is but for the calls at work on it, and an agent's turn goes on from the last one.
THEOREM TasksStayWhole == AutConstants => (A!Spec => [](A!TypeOK /\ A!ListedIsThere /\ A!TurnsGoOn))
  BY AutInit, AutNext, AutMeans, PTL DEF A!Spec
=============================================================================
