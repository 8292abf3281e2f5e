------------------------------ MODULE EnvResolve ------------------------------
(***************************************************************************)
(* How a run gets the environment its task declares: the preflight of the  *)
(* engine (preflightEnv), the prerequisites that if_missing names          *)
(* (resolveIfMissing, collapsed per secret), and what the runtime makes of *)
(* it: deno and python resolve inline what the preflight left open, a      *)
(* container takes what the preflight found.  Secrets come from the store, *)
(* from provider tasks with a cache, or are literals.                      *)
(*                                                                         *)
(* A value is where it comes from and, for a secret, its version: that in  *)
(* the store, or the content of the provider task that output it.  Keys    *)
(* are the names of the entries.  Left out: host variables; a prerequisite *)
(* that has prerequisites; several secret stores in a chain (one answer).  *)
(***************************************************************************)
EXTENDS Naturals, Sequences, FiniteSets

CONSTANTS
  Runs, Keys, Providers,
  Specs,        \* what tasks declare: sequences of entries
  Stores,       \* what the store may hold to begin with
  TTL,          \* provider.cache_ttl
  None,
  MaxVersion, MaxContent,  \* bounds: versions of a secret in the store, contents of a provider
  MaxNow, MaxPrereqs, MaxEdits  \* bounds: clock, prerequisite runs, changes by others

VARIABLES
  store,     \* key -> version of the secret, 0 if it is not there
  provider,  \* provider -> content of the registered task, 0 if there is none
  cache,     \* [provider, key] -> the value, the hash it was stored under, when it expires
  flight,    \* key -> the run that fires the prerequisite, those that wait for it, its outcome
  run,       \* run -> where it is and what it has
  prereqs,   \* history: how often a prerequisite was fired
  edits, now

vars == <<store, provider, cache, flight, run, prereqs, edits, now>>

Slots == Providers \X Keys
NoValue == [ver |-> 0, hash |-> 0, moved |-> FALSE, exp |-> 0]
NoFlight == [leader |-> None, waiters |-> {}, outcome |-> "none"]
\* The provider that is asked, the hash and the time of the lookup, what the cache had; by is
\* the content that runs, and moved is history: it was edited after the lookup.
NoAsk == [of |-> None, hash |-> 0, at |-> 0, cached |-> {}, by |-> 0, moved |-> FALSE]
Idle == [pc |-> "none", spec |-> <<>>, box |-> FALSE, inline |-> FALSE, i |-> 1, env |-> {},
         pre |-> FALSE, todo |-> {}, ask |-> NoAsk, fired |-> {}, waited |-> {}]

\* An entry: kind "value", "secret" or "task"; key; provider; optional; default; if_missing.
Entries(r) == {run[r].spec[i] : i \in DOMAIN run[r].spec}
EntriesOf(r, p) == {e \in Entries(r) : e.kind = "task" /\ e.provider = p}
Named(e, src, ver) == [name |-> e.key, src |-> src, ver |-> ver, hash |-> 0, moved |-> FALSE]
\* A value of a provider, with the hash the run that gets it looked it up by.
Provided(e, ver, hash, moved) ==
  [name |-> e.key, src |-> "secret", ver |-> ver, hash |-> hash, moved |-> moved]

Init ==
  /\ store \in Stores /\ provider = [p \in Providers |-> 1]
  /\ cache = [s \in Slots |-> NoValue] /\ flight = [k \in Keys |-> NoFlight]
  /\ run = [r \in Runs |-> Idle] /\ prereqs = 0 /\ edits = 0 /\ now = 0

To(r, new) == run' = [run EXCEPT ![r] = new]
Fail(r) == [run[r] EXCEPT !.pc = "failed"]

-----------------------------------------------------------------------------
(* Resolve *)

\* The engine begins a run: preflight.
Begin(r) ==
  /\ run[r].pc = "none"
  /\ \E s \in Specs, box \in BOOLEAN : To(r, [Idle EXCEPT !.pc = "secrets", !.spec = s, !.box = box])
  /\ UNCHANGED <<store, provider, cache, flight, prereqs, edits, now>>

\* Literals and secrets; a secret that is not found has its default, is empty, or is an error.
Found(e) ==
  IF e.kind = "value" THEN {Named(e, "value", 0)}
  ELSE IF store[e.key] # 0 THEN {Named(e, "secret", store[e.key])}
  ELSE IF e.default THEN {Named(e, "default", 0)}
  ELSE IF e.optional THEN {Named(e, "empty", 0)}
  ELSE {}
Plain(r) == {e \in Entries(r) : e.kind # "task"}
\* An error that is not one of the providers': the preflight leaves it to the runtime, whose
\* own resolution fails the run.
Untyped(r) == IF run[r].inline THEN Fail(r) ELSE [run[r] EXCEPT !.pc = "missing"]
ResolveSecrets(r) ==
  /\ run[r].pc = "secrets"
  /\ \/ IF \E e \in Plain(r) : Found(e) = {} THEN To(r, Untyped(r))
        ELSE To(r, [run[r] EXCEPT !.pc = "lookup",
                                  !.env = UNION {Found(e) : e \in Plain(r)},
                                  !.todo = {e.provider : e \in {x \in Entries(r) : x.kind = "task"}}])
     \* The chain fails.
     \/ (\E e \in Plain(r) : e.kind = "secret") /\ To(r, Untyped(r))
  /\ UNCHANGED <<store, provider, cache, flight, prereqs, edits, now>>

HitFault(p, k, hash) == cache[<<p, k>>].ver # 0 /\ now < cache[<<p, k>>].exp
\* cache.get: all that is cached of the provider is dropped when the hash of one is another.
Hit(p, k, hash) == cache[<<p, k>>].ver # 0 /\ cache[<<p, k>>].hash = hash /\ now < cache[<<p, k>>].exp
Stale(p, keys, hash) == \E k \in keys : cache[<<p, k>>].ver # 0 /\ cache[<<p, k>>].hash # hash
Busted(p) == [s \in Slots |-> IF s[1] = p THEN NoValue ELSE cache[s]]
Blank(es) == {Named(e, "empty", 0) : e \in es}
Taken(r, p, vals) ==
  [run[r] EXCEPT !.pc = "lookup", !.env = @ \cup vals, !.todo = @ \ {p}, !.ask = NoAsk]
Left(r, p, cached) == {e \in EntriesOf(r, p) : e.key \notin {v.name : v \in cached}}
DegradeFault(r, p, cached) == Taken(r, p, cached \cup Blank(Left(r, p, cached)))
\* degradeProviderFailure: what is cached or optional makes do, or the run fails.
Degrade(r, p, cached) ==
  IF \A e \in Left(r, p, cached) : e.optional
    THEN Taken(r, p, cached \cup Blank(Left(r, p, cached))) ELSE Fail(r)
\* resolveProvider: is it registered, and what is cached under its hash of now.  The keys are
\* looked up one after the other: once one of another hash is met, those after it are gone.
ResolveProvider(r) ==
  /\ run[r].pc = "lookup"
  /\ \E p \in run[r].todo :
       LET h == provider[p]
           stale == Stale(p, {e.key : e \in EntriesOf(r, p)}, h)
           found == {e \in EntriesOf(r, p) : Hit(p, e.key, h)}
       IN IF h = 0 THEN To(r, Degrade(r, p, {})) /\ UNCHANGED cache
          ELSE /\ cache' = IF stale THEN Busted(p) ELSE cache
               /\ \E some \in SUBSET found :
                    LET hits == {Provided(e, cache[<<p, e.key>>].ver, h, cache[<<p, e.key>>].moved) : e \in some}
                    IN /\ some = found \/ stale
                       /\ To(r, IF some = EntriesOf(r, p) THEN Taken(r, p, hits)
                                ELSE [run[r] EXCEPT !.pc = "provider", !.fired = @ \cup {<<p, run[r].inline>>},
                                        !.ask = [NoAsk EXCEPT !.of = p, !.hash = h, !.at = now, !.cached = hits]])
  /\ UNCHANGED <<store, provider, flight, prereqs, edits, now>>
\* Engine.Run: the provider is fired as it is registered by now.
ProviderStarts(r) ==
  /\ run[r].pc = "provider"
  /\ To(r, IF provider[run[r].ask.of] = 0 THEN Degrade(r, run[r].ask.of, run[r].ask.cached)
           ELSE [run[r] EXCEPT !.pc = "fetch", !.ask.by = provider[run[r].ask.of]])
  /\ UNCHANGED <<store, provider, cache, flight, prereqs, edits, now>>
\* Its run ends, with a map of some of the secrets, or without.  What it gave is cached under
\* the hash and from the time of the lookup.
ProviderEnds(r) ==
  /\ run[r].pc = "fetch"
  /\ LET a == run[r].ask
         miss == Left(r, a.of, a.cached)
     IN \/ To(r, Degrade(r, a.of, a.cached)) /\ UNCHANGED cache
        \/ \E got \in SUBSET miss :
             /\ cache' = [s \in Slots |->
                  IF s[1] = a.of /\ s[2] \in {e.key : e \in got}
                    THEN [ver |-> a.by, hash |-> a.hash, moved |-> a.moved, exp |-> a.at + TTL] ELSE cache[s]]
             /\ To(r, IF \A e \in miss \ got : e.optional
                        THEN Taken(r, a.of, a.cached \cup Blank(miss \ got)
                                            \cup {Provided(e, a.by, a.hash, a.moved) : e \in got})
                        ELSE Fail(r))
  /\ UNCHANGED <<store, provider, flight, prereqs, edits, now>>
\* The preflight is through, or the runtime has what it needs.
Resolved(r) ==
  /\ run[r].pc = "lookup" /\ run[r].todo = {}
  /\ To(r, IF run[r].inline THEN [run[r] EXCEPT !.pc = "started"]
           ELSE [run[r] EXCEPT !.pc = "missing", !.pre = TRUE])
  /\ UNCHANGED <<store, provider, cache, flight, prereqs, edits, now>>

-----------------------------------------------------------------------------
(* resolveIfMissing *)

Guarded(r) == run[r].spec[run[r].i].ifMissing /\ run[r].spec[run[r].i].kind = "secret"
Present(r) == store[run[r].spec[run[r].i].key] # 0
\* On to the next entry: nothing to ask for, or the secret is there.
Skip(r) ==
  /\ run[r].pc = "missing" /\ run[r].i <= Len(run[r].spec) /\ (Guarded(r) => Present(r))
  /\ To(r, [run[r] EXCEPT !.i = @ + 1])
  /\ UNCHANGED <<store, provider, cache, flight, prereqs, edits, now>>
\* prereqFlight.Do: the first fires the prerequisite, the others wait for it.
Join(r) ==
  /\ run[r].pc = "missing" /\ run[r].i <= Len(run[r].spec) /\ Guarded(r) /\ ~Present(r)
  /\ LET k == run[r].spec[run[r].i].key
     IN /\ IF flight[k].leader = None
             THEN /\ prereqs < MaxPrereqs /\ prereqs' = prereqs + 1
                  /\ flight' = [flight EXCEPT ![k] = [leader |-> r, waiters |-> {r}, outcome |-> "runs"]]
             ELSE /\ flight' = [flight EXCEPT ![k].waiters = @ \cup {r}] /\ UNCHANGED prereqs
        /\ To(r, [run[r] EXCEPT !.pc = "await", !.waited = @ \cup {k}])
  /\ UNCHANGED <<store, provider, cache, edits, now>>
\* It is not registered, or the chain fails.
JoinFails(r) ==
  /\ run[r].pc = "missing" /\ run[r].i <= Len(run[r].spec) /\ Guarded(r)
  /\ To(r, Fail(r))
  /\ UNCHANGED <<store, provider, cache, flight, prereqs, edits, now>>
\* The prerequisite writes the secret, or not, and ends: as a success, a failure, or with the
\* leader's context, which all who wait get to see.
PrereqStores(k) ==
  /\ flight[k].outcome = "runs" /\ store[k] < MaxVersion
  /\ store' = [store EXCEPT ![k] = @ + 1]
  /\ UNCHANGED <<provider, cache, flight, run, prereqs, edits, now>>
PrereqEnds(k) ==
  /\ flight[k].outcome = "runs"
  /\ \E good \in BOOLEAN :
       run' = [r \in Runs |->
         IF r \in flight[k].waiters
           THEN IF good THEN [run[r] EXCEPT !.pc = "recheck"] ELSE Fail(r)
           ELSE run[r]]
  /\ flight' = [flight EXCEPT ![k] = NoFlight]
  /\ UNCHANGED <<store, provider, cache, prereqs, edits, now>>
Recheck(r) ==
  /\ run[r].pc = "recheck"
  /\ To(r, IF Present(r) THEN [run[r] EXCEPT !.pc = "missing", !.i = @ + 1] ELSE Fail(r))
  /\ UNCHANGED <<store, provider, cache, flight, prereqs, edits, now>>

\* The runtime: what the preflight found, or its own resolution; a container has none.
Execute(r) ==
  /\ run[r].pc = "missing" /\ run[r].i > Len(run[r].spec)
  /\ To(r, IF run[r].pre \/ run[r].box THEN [run[r] EXCEPT !.pc = "started"]
           ELSE [run[r] EXCEPT !.pc = "secrets", !.inline = TRUE])
  /\ UNCHANGED <<store, provider, cache, flight, prereqs, edits, now>>

-----------------------------------------------------------------------------
(* Meanwhile *)

\* The operator removes a secret.
DeleteSecret(k) ==
  /\ store[k] # 0 /\ edits < MaxEdits /\ edits' = edits + 1
  /\ store' = [store EXCEPT ![k] = 0]
  /\ UNCHANGED <<provider, cache, flight, run, prereqs, now>>
\* A provider task changes, perhaps back to what it was, or is removed.
EditProvider(p) ==
  /\ edits < MaxEdits /\ edits' = edits + 1
  /\ \E v \in 0..MaxContent : v # provider[p] /\ provider' = [provider EXCEPT ![p] = v]
  /\ run' = [r \in Runs |->
       IF run[r].pc = "provider" /\ run[r].ask.of = p THEN [run[r] EXCEPT !.ask.moved = TRUE] ELSE run[r]]
  /\ UNCHANGED <<store, cache, flight, prereqs, now>>
Tick ==
  /\ now < MaxNow /\ now' = now + 1
  /\ UNCHANGED <<store, provider, cache, flight, run, prereqs, edits>>

Next ==
  \/ Tick
  \/ \E k \in Keys : PrereqStores(k) \/ PrereqEnds(k) \/ DeleteSecret(k)
  \/ \E p \in Providers : EditProvider(p)
  \/ \E r \in Runs :
       \/ Begin(r) \/ ResolveSecrets(r) \/ ResolveProvider(r) \/ ProviderStarts(r) \/ ProviderEnds(r) \/ Resolved(r)
       \/ Skip(r) \/ Join(r) \/ JoinFails(r) \/ Recheck(r) \/ Execute(r)

Spec == Init /\ [][Next]_vars

-----------------------------------------------------------------------------
(* Properties *)

TypeOK ==
  /\ store \in [Keys -> 0..MaxVersion] /\ now \in 0..MaxNow
  /\ \A r \in Runs : run[r].pc \in
       {"none", "secrets", "lookup", "provider", "fetch", "missing", "await", "recheck", "started", "failed"}

Required(e) == e.kind # "value" /\ ~e.optional /\ ~e.default
\* A deno or python run that starts has every variable its task declares, those it requires
\* with a secret (Resolve, degradeProviderFailure, ResolveRunEnv).
Whole(r) ==
  \A e \in Entries(r) :
    \E v \in run[r].env : v.name = e.key /\ (Required(e) => v.src = "secret")
StartsWhole == \A r \in Runs : run[r].pc = "started" /\ ~run[r].box => Whole(r)

\* The same of every run, as the docs have it (spec.go: "run fails if key not found").  It does
\* not hold: a container whose preflight failed for a secret starts without it (README).
RequiredOrFailed == \A r \in Runs : run[r].pc = "started" => Whole(r)

\* One value per variable; and a value that a provider gave to whoever asked first was output
\* by the content that those who find it cached looked up, through edits of the provider and
\* back, unless it was edited between the lookup and the fire of the run that asked.
ValuesAreCurrent ==
  \A r \in Runs :
    /\ \A v, w \in run[r].env : v.name = w.name => v = w
    /\ \A v \in run[r].env : v.hash # 0 /\ ~v.moved => v.ver = v.hash

\* A run fires a provider once, whoever resolves (PreResolvedEnv).
ProvidersFireOnce ==
  \A r \in Runs : \A x, y \in run[r].fired : x[1] = y[1] => x = y

\* A run waits for a prerequisite only while one is under way, with one leader among those
\* that wait; one that waited for a required secret and starts inline has what it brought.
WaitsEnd ==
  /\ \A r \in Runs : run[r].pc = "await" =>
       /\ r \in flight[run[r].spec[run[r].i].key].waiters
       /\ flight[run[r].spec[run[r].i].key].outcome = "runs"
  /\ \A k \in Keys : flight[k].leader # None => flight[k].leader \in flight[k].waiters
  /\ \A r \in Runs, k \in Keys :
       run[r].pc = "started" /\ k \in run[r].waited /\ ~run[r].box =>
         \A e \in Entries(r) : e.key = k /\ Required(e) =>
           \E v \in run[r].env : v.name = k /\ v.src = "secret" /\ v.ver >= 1
================================================================================
