------------------------------ MODULE WebSessions ------------------------------
(***************************************************************************)
(* Who is logged in to the web UI: the passphrase and its cache, sessions  *)
(* (scs), trusted devices with their rotating tokens, and the requests     *)
(* that read and change them.  One browser sends several requests at once. *)
(* A request sees the cookies and the session of its beginning; what it    *)
(* changes reaches the session store and the browser with its response.    *)
(*                                                                         *)
(* Abstracted: addresses and user agents are places, "none" when a request *)
(* carries no signal; a device is old (to be rotated) or not.              *)
(***************************************************************************)
EXTENDS Naturals, FiniteSets

CONSTANTS Reqs, None,
          MaxTokens, MaxChanges, MaxRequests  \* bounds: device tokens, passphrase changes, requests

VARIABLES
  mode,     \* server.device_binding
  stored,   \* the passphrase in kv: [v, hashed]
  cache,    \* cachedPassphrase
  session,  \* the browser's row in scs_sessions, None or [v, late]
  devices,  \* rows of kind device
  jar,      \* the device cookie of the browser, 0 when it has none
  reqs,     \* request -> its progress
  tokens,   \* device tokens made so far
  begun,    \* requests so far
  trust     \* what the browser did since its device was issued: [home, seen, blank, lost]

vars == <<mode, stored, cache, session, devices, jar, reqs, tokens, begun, trust>>

Values == 0..MaxChanges + Cardinality(Reqs)  \* passphrases; requests that overlap go past the bound
Places == {"home", "away", "none"}
Row(tok, net, drift, old, v, late) ==
  [tok |-> tok, net |-> net, drift |-> drift, old |-> old, v |-> v, late |-> late]
NoReq == [pc |-> "idle", kind |-> "none", cookie |-> 0, put |-> FALSE, v |-> 0, late |-> FALSE,
          set |-> 0, clear |-> FALSE, out |-> FALSE]
NoTrust == [home |-> "none", seen |-> "none", blank |-> FALSE, lost |-> TRUE]

Init ==
  /\ mode \in {"off", "warn", "strict"}
  /\ stored \in [v : {0}, hashed : BOOLEAN] /\ cache = stored  \* ensurePassphrase
  /\ session = None /\ devices = {} /\ jar = 0
  /\ reqs = [q \in Reqs |-> NoReq] /\ tokens = 0 /\ begun = 0 /\ trust = NoTrust

To(q, pc) == [reqs EXCEPT ![q].pc = pc]

-----------------------------------------------------------------------------
(* requireAuth: a session, or else the device; login and refresh are public. *)
Handler(kind) ==
  CASE kind = "logout" -> "destroy" [] kind = "logoutAll" -> "sessions" [] kind = "change" -> "verify"
    [] OTHER -> "respond"
Begin(q, kind) ==
  /\ reqs[q].pc = "idle" /\ begun < MaxRequests /\ begun' = begun + 1
  /\ reqs' = [reqs EXCEPT ![q] =
               [NoReq EXCEPT !.kind = kind, !.cookie = jar,
                  !.pc = CASE kind = "login" -> "login"
                           [] kind # "refresh" /\ session # None -> Handler(kind)
                           [] OTHER -> IF jar = 0 THEN "idle" ELSE "renew"]]
  /\ UNCHANGED <<mode, stored, cache, session, devices, jar, tokens, trust>>

\* verifyPassphrase, against the cache, for a login and for a change; a legacy value is
\* hashed by the way.
Verified(q) == IF reqs[q].kind = "change" THEN "store" ELSE "enter"
Login(q, v) ==
  /\ reqs[q].pc \in {"login", "verify"}
  /\ reqs[q].pc = "verify" => stored.v < MaxChanges
  /\ reqs' = IF v # cache.v THEN [reqs EXCEPT ![q].pc = "respond"]
             ELSE [reqs EXCEPT ![q].v = v, ![q].pc = IF cache.hashed THEN Verified(q) ELSE "migrate"]
  /\ UNCHANGED <<mode, stored, cache, session, devices, jar, tokens, trust, begun>>

\* migrateLegacyPlaintext: one of them at a time (singleflight), checks the cache, then
\* writes the row and the cache.
Migrate(q) ==
  /\ reqs[q].pc = "migrate" /\ \A p \in Reqs : reqs[p].pc \notin {"rehash", "warm"}
  /\ reqs' = To(q, IF cache.hashed THEN Verified(q) ELSE "rehash")
  /\ UNCHANGED <<mode, stored, cache, session, devices, jar, tokens, trust, begun>>
Rehash(q) ==
  /\ reqs[q].pc = "rehash"
  /\ stored' = [v |-> reqs[q].v, hashed |-> TRUE] /\ reqs' = To(q, "warm")
  /\ UNCHANGED <<mode, cache, session, devices, jar, tokens, trust, begun>>
Warm(q) ==
  /\ reqs[q].pc = "warm"
  /\ cache' = [v |-> reqs[q].v, hashed |-> TRUE] /\ reqs' = To(q, Verified(q))
  /\ UNCHANGED <<mode, stored, session, devices, jar, tokens, trust, begun>>

\* apiSecretsUnlock, the rest: the session, and a device token for a trusted browser.
Late(v) == v # stored.v
Enter(q, trusted, place) ==
  LET tok == tokens + 1 IN
  /\ reqs[q].pc = "enter"
  /\ IF trusted
     THEN /\ tokens < MaxTokens /\ tokens' = tok
          /\ devices' = devices \cup {Row(tok, place, FALSE, FALSE, reqs[q].v, Late(reqs[q].v))}
          /\ trust' = [home |-> place, seen |-> place, blank |-> place = "none", lost |-> FALSE]
          /\ devices = {}  \* one trusted device at a time
     ELSE UNCHANGED <<devices, tokens, trust>>
  /\ reqs' = [reqs EXCEPT ![q].pc = "respond", ![q].put = TRUE, ![q].set = IF trusted THEN tok ELSE 0]
  /\ UNCHANGED <<mode, stored, cache, session, jar, begun>>

-----------------------------------------------------------------------------
(* Devices *)

\* deviceDrift: a missing signal is a drift in strict mode only.
Drifts(net, place) == net # "none" /\ place # net /\ (place # "none" \/ mode = "strict")

\* The baseline that the row keeps: in warn mode that of its issue, from the first
\* drift on.
AnchorFault(d, place) == IF mode = "warn" /\ ~d.old /\ (d.drift \/ Drifts(d.net, place)) THEN d.net ELSE place
Anchor(d, place) == IF mode = "warn" /\ (d.drift \/ Drifts(d.net, place)) THEN d.net ELSE place

\* renewFromDevice, one transaction: refused, revoked for a drift, refreshed, or rotated.
Renew(q, place) ==
  LET found == {d \in devices : d.tok = reqs[q].cookie}
      refresh == reqs[q].kind = "refresh"
      fails == [reqs EXCEPT ![q].pc = "respond", ![q].clear = refresh, ![q].out = refresh]
  IN
  /\ reqs[q].pc = "renew"
  /\ \/ /\ found = {} /\ reqs' = fails /\ session' = IF refresh THEN None ELSE session
        /\ UNCHANGED <<devices, tokens, trust>>
     \/ \E d \in found :
          LET drift == Drifts(d.net, place)
              next == [d EXCEPT !.net = Anchor(d, place), !.drift = drift /\ mode = "warn"]
              in == [reqs EXCEPT ![q].pc = Handler(reqs[q].kind), ![q].put = TRUE,
                                 ![q].v = d.v, ![q].late = d.late]
          IN
          IF drift /\ mode = "strict"
          THEN /\ devices' = devices \ {d} /\ trust' = [trust EXCEPT !.lost = TRUE]
               /\ reqs' = [fails EXCEPT ![q].clear = TRUE] /\ session' = IF refresh THEN None ELSE session
               /\ UNCHANGED tokens
          ELSE /\ UNCHANGED session
               /\ trust' = [trust EXCEPT !.seen = place, !.blank = @ \/ place = "none"]
               /\ IF d.old
                  THEN /\ tokens < MaxTokens /\ tokens' = tokens + 1
                       /\ devices' = (devices \ {d}) \cup {[next EXCEPT !.tok = tokens + 1, !.old = FALSE]}
                       /\ reqs' = [in EXCEPT ![q].set = tokens + 1]
                  ELSE /\ devices' = (devices \ {d}) \cup {next} /\ reqs' = in
                       /\ UNCHANGED tokens
  /\ UNCHANGED <<mode, stored, cache, jar, begun>>

\* A day passes; a device or a session expires and is purged.
Age(d) ==
  /\ ~d.old /\ devices' = (devices \ {d}) \cup {[d EXCEPT !.old = TRUE]}
  /\ UNCHANGED <<mode, stored, cache, session, jar, reqs, tokens, trust, begun>>
PurgeDevice(d) ==
  /\ devices' = devices \ {d} /\ trust' = [trust EXCEPT !.lost = TRUE]
  /\ UNCHANGED <<mode, stored, cache, session, jar, reqs, tokens, begun>>
PurgeSession ==
  /\ session # None /\ session' = None
  /\ UNCHANGED <<mode, stored, cache, devices, jar, reqs, tokens, trust, begun>>

-----------------------------------------------------------------------------
LoggedOut(q) ==
  [reqs EXCEPT ![q].pc = "respond", ![q].clear = TRUE, ![q].out = TRUE, ![q].put = FALSE, ![q].set = 0]

\* apiLogout: the session, the device of the cookie, the cookie.
Destroy(q) ==
  /\ reqs[q].pc = "destroy"
  /\ session' = None
  /\ devices' = {d \in devices : d.tok # reqs[q].cookie}
  /\ trust' = IF devices' = devices THEN trust ELSE [trust EXCEPT !.lost = TRUE]
  /\ reqs' = LoggedOut(q)
  /\ UNCHANGED <<mode, stored, cache, jar, tokens, begun>>

-----------------------------------------------------------------------------
(* apiChangePassphrase and apiLogoutAll *)

Store(q) ==
  /\ reqs[q].pc = "store"
  /\ stored' = [v |-> stored.v + 1, hashed |-> TRUE]
  /\ reqs' = [reqs EXCEPT ![q].pc = "cache", ![q].v = stored.v + 1]
  /\ UNCHANGED <<mode, cache, session, devices, jar, tokens, trust, begun>>
Cache(q) ==
  /\ reqs[q].pc = "cache"
  /\ cache' = [v |-> reqs[q].v, hashed |-> TRUE] /\ reqs' = To(q, "sessions")
  /\ UNCHANGED <<mode, stored, session, devices, jar, tokens, trust, begun>>
DropSessions(q) ==
  /\ reqs[q].pc = "sessions"
  /\ session' = None /\ reqs' = To(q, "devices")
  /\ UNCHANGED <<mode, stored, cache, devices, jar, tokens, trust, begun>>
DropDevices(q) ==
  /\ reqs[q].pc = "devices"
  /\ devices' = {} /\ trust' = [trust EXCEPT !.lost = TRUE]
  /\ reqs' = LoggedOut(q)
  /\ UNCHANGED <<mode, stored, cache, session, jar, tokens, begun>>

-----------------------------------------------------------------------------
\* The response: scs commits a session that was changed, the browser takes the cookies.
Respond(q) ==
  LET k == reqs[q] IN
  /\ k.pc = "respond"
  /\ session' = IF k.put THEN [v |-> k.v, late |-> k.late \/ Late(k.v)]
                ELSE IF k.out THEN None ELSE session
  /\ jar' = IF k.set # 0 THEN k.set ELSE IF k.clear THEN 0 ELSE jar
  /\ reqs' = [reqs EXCEPT ![q] = NoReq]
  /\ UNCHANGED <<mode, stored, cache, devices, tokens, trust, begun>>

Next ==
  \/ \E q \in Reqs :
       \/ \E k \in {"login", "refresh", "page", "logout", "logoutAll", "change"} : Begin(q, k)
       \/ \E v \in Values : Login(q, v)
       \/ Migrate(q) \/ Rehash(q) \/ Warm(q)
       \/ \E t \in BOOLEAN, p \in Places : Enter(q, t, p)
       \/ \E p \in Places : Renew(q, p)
       \/ Destroy(q) \/ Store(q) \/ Cache(q) \/ DropSessions(q) \/ DropDevices(q) \/ Respond(q)
  \/ \E d \in devices : Age(d) \/ PurgeDevice(d)
  \/ PurgeSession

Spec == Init /\ [][Next]_vars

-----------------------------------------------------------------------------
TypeOK ==
  /\ stored.v \in Nat /\ cache.v \in Nat
  /\ session # None => session.v \in Nat
  /\ \A d \in devices : d.tok \in 1..tokens /\ d.net \in Places
  /\ jar \in 0..tokens

\* A change of the passphrase takes every session and device of before with it ("all
\* sessions invalidated"), and no renewal or rotation brings one back.  Left out is what
\* a request made whose login or renewal had succeeded before and whose response came
\* after.
Changing == \E q \in Reqs : reqs[q].pc \in {"cache", "sessions", "devices", "rehash", "warm"}
NothingOutlivesAChange ==
  ~Changing =>
    /\ session # None => session.late \/ session.v = stored.v
    /\ \A d \in devices : d.late \/ d.v = stored.v

\* A trusted device has one row, through all its rotations and however many renewals
\* present one token at once, until it is logged out, revoked, expired or refused.
TrustedOnce == Cardinality(devices) = (IF trust.lost THEN 0 ELSE 1)

\* In warn mode a drift stays visible as long as the browser is somewhere else than
\* where its device was issued, over renewals and rotations ("warn-mode drift is
\* sticky").  Left out are browsers that once sent no signal: they lose the baseline.
DriftIsVisible ==
  mode = "warn" /\ ~trust.lost /\ ~trust.blank =>
    \A d \in devices : d.net = trust.home /\ (d.drift <=> trust.seen # trust.home)

\* The cache is the stored passphrase when nobody is changing it ("keeps observable
\* state consistent with the just-completed write").
CacheIsTheStore == ~Changing => cache = stored
=============================================================================
