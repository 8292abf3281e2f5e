---------------------------- MODULE PartsProofs ------------------------------
(***************************************************************************)
(* Proofs about the smaller modules, for all values of their constants:    *)
(* each section has the inductive invariant of one of them, that its       *)
(* initial states and its steps keep it, and the theorem of what that      *)
(* component promises.  The variables have one name each over all the      *)
(* modules, so that the runs' composition can be substituted for them at   *)
(* once (ServicesProofs).                                                  *)
(***************************************************************************)
EXTENDS Integers, Sequences, FiniteSets, FiniteSetTheorems, WellFoundedInduction, TLAPS

\* WebSessions
CONSTANTS Reqs, None, MaxTokens, MaxChanges, MaxRequests
VARIABLES mode, stored, cache, session, devices, jar, reqs, tokens, begun, trust
W == INSTANCE WebSessions

\* RunInputs
CONSTANTS Runs, Batches, InputFaults
VARIABLES inputRows, inputs, inputBody, inputBatch, inputReads, swallowed, inputOrphans, torn,
  inputFaults
I == INSTANCE RunInputs WITH
       MaxFaults <- InputFaults, rows <- inputRows, body <- inputBody, batch <- inputBatch,
       reads <- inputReads, orphans <- inputOrphans, faults <- inputFaults

\* ResumeBlobs
CONSTANTS Clients, BlobFaults
VARIABLES blobRows, blobs, blobBody, resumes, cleaner, granted, blobOrphans, empty, blobFaults
B == INSTANCE ResumeBlobs WITH
       MaxFaults <- BlobFaults, rows <- blobRows, body <- blobBody, calls <- resumes,
       orphans <- blobOrphans, faults <- blobFaults

\* Containers
CONSTANTS Configs, Policy, MaxBoxEdits, MaxBoxFaults
VARIABLES boxPhase, boxCfg, boxFile, boxKnown, images, doomed, boxPc, boxTag, boxCancelled,
  watcher, box, boxOrphans, left, boxEdits, boxFaults
K == INSTANCE Containers WITH
       MaxEdits <- MaxBoxEdits, MaxFaults <- MaxBoxFaults,
       phase <- boxPhase, cfg <- boxCfg, file <- boxFile, known <- boxKnown, pc <- boxPc, tag <- boxTag,
       cancelled <- boxCancelled, orphans <- boxOrphans, edits <- boxEdits, faults <- boxFaults

\* TaskProcess
CONSTANTS MaxLogs
VARIABLES procPc, attempt, silent, procKey, procFiles, listener, procConn, proc, exit, queue,
  posted, ret, suspend, acking, procLogs, flusher, stopping, procCancelled, procOver, result
P == INSTANCE TaskProcess WITH
       pc <- procPc, key <- procKey, files <- procFiles, conn <- procConn, logs <- procLogs,
       cancelled <- procCancelled, over <- procOver

\* WebhookRoutes
CONSTANTS Tasks, Paths, Conns, Requests, Engine, MaxHookCalls, MaxRegisters
VARIABLES hooks, routes, recorded, hookCalls, hookConns, hookReqs, contested, hookBegun,
  registers
H == INSTANCE WebhookRoutes WITH
       MaxCalls <- MaxHookCalls, calls <- hookCalls, conns <- hookConns, reqs <- hookReqs, begun <- hookBegun

\* WebhookFires
CONSTANTS Ids, Shapes, Versions, InitialVersions, HookTTL, HookTolerance, MaxEntries, HookSlots, MaxHookNow, MaxFires, MaxReloads, MaxRestarts
VARIABLES hookNow, hookTask, entries, order, sem, fireReqs, admitted, forgotten, fireBegun,
  reloads, restarts
F == INSTANCE WebhookFires WITH
       TTL <- HookTTL, Tolerance <- HookTolerance, Slots <- HookSlots, MaxNow <- MaxHookNow,
       MaxRequests <- MaxFires, now <- hookNow, task <- hookTask, reqs <- fireReqs, begun <- fireBegun

\* ControlSocket
CONSTANTS Daemons, Commands, Kinds, PeerCred, MaxCrashes
VARIABLES sockPath, sockToken, webPort, dm, dmRows, commands, carriedOut, overlapped, crashes
N == INSTANCE ControlSocket WITH
       Clients <- Commands, path <- sockPath, token <- sockToken, port <- webPort, rows <- dmRows,
       cl <- commands, did <- carriedOut

\* CliFollow
CONSTANTS RunIds, Followers, Forms, Answers, MaxFlips
VARIABLES stepRows, isDaemon, followers, stepsSent, flips
M == INSTANCE CliFollow WITH
       Clients <- Followers, MaxReloads <- MaxFlips, rows <- stepRows, daemon <- isDaemon,
       cl <- followers, sent <- stepsSent, reloads <- flips

-----------------------------------------------------------------------------
(***************************************************************************)
(* The logins of the web UI: WebSessions.                                  *)
(***************************************************************************)

WebPCs == {"idle", "login", "verify", "migrate", "rehash", "warm", "enter", "renew", "destroy",
           "store", "cache", "sessions", "devices", "respond"}
WebReqs == [pc : WebPCs, kind : {"none", "login", "refresh", "page", "logout", "logoutAll", "change"},
            cookie : Nat, put : BOOLEAN, v : Nat, late : BOOLEAN, set : Nat, clear : BOOLEAN, out : BOOLEAN]
WebRows == [tok : Nat, net : W!Places, drift : BOOLEAN, old : BOOLEAN, v : Nat, late : BOOLEAN]
WebTyped ==
  /\ mode \in {"off", "warn", "strict"}
  /\ stored \in [v : Nat, hashed : BOOLEAN] /\ cache \in [v : Nat, hashed : BOOLEAN]
  /\ session # None => session \in [v : Nat, late : BOOLEAN]
  /\ devices \subseteq WebRows /\ \A d \in devices : d.tok \in 1..tokens
  /\ tokens \in Nat /\ jar \in 0..tokens
  /\ reqs \in [Reqs -> WebReqs] /\ \A q \in Reqs : reqs[q].set <= tokens
  /\ trust \in [home : W!Places, seen : W!Places, blank : BOOLEAN, lost : BOOLEAN]

\* Until the passphrase is hashed it is the first one, one request at a time hashes it,
\* and no request changes it.
WebLegacy ==
  /\ ~cache.hashed => stored.v = 0 /\ cache.v = 0
  /\ \A q \in Reqs :
       /\ reqs[q].pc \in {"migrate", "rehash", "warm"} => reqs[q].v = 0
       /\ reqs[q].pc \in {"rehash", "warm"} => ~cache.hashed
       /\ reqs[q].pc \in {"store", "cache"} => cache.hashed
  /\ \A p, q \in Reqs : {reqs[p].pc, reqs[q].pc} \subseteq {"rehash", "warm"} => p = q

\* What is of an earlier passphrase waits for the change that goes on to drop it.
WebCurrent ==
  /\ session # None /\ ~session.late /\ session.v # stored.v =>
       \E q \in Reqs : reqs[q].pc \in {"cache", "sessions"}
  /\ \A d \in devices : ~d.late /\ d.v # stored.v =>
       \E q \in Reqs : reqs[q].pc \in {"cache", "sessions", "devices"}

\* The one device, and what it remembers of the place it was issued at.
WebDevice ==
  /\ trust.lost => devices = {}
  /\ ~trust.lost => \E d : devices = {d}
  /\ ~trust.lost /\ ~trust.blank => trust.home # "none"
  /\ W!DriftIsVisible

WebInv == WebTyped /\ WebLegacy /\ WebCurrent /\ WebDevice

LEMMA WebBegin == ASSUME NEW q \in Reqs, NEW kind \in {"login", "refresh", "page", "logout", "logoutAll", "change"}, WebInv, W!Begin(q, kind) PROVE WebInv'
<1> USE DEF WebInv
<1>1. WebTyped'
  <2> DEFINE k == [W!NoReq EXCEPT !.kind = kind, !.cookie = jar,
                     !.pc = CASE kind = "login" -> "login"
                              [] kind # "refresh" /\ session # None -> W!Handler(kind)
                              [] OTHER -> IF jar = 0 THEN "idle" ELSE "renew"]
  <2>1. reqs' \in [Reqs -> WebReqs]
    <3>1. reqs[q] \in WebReqs
      BY DEF WebTyped
    <3>2. /\ jar \in Nat
          /\ (CASE kind = "login" -> "login"
                [] kind # "refresh" /\ session # None -> W!Handler(kind)
                [] OTHER -> IF jar = 0 THEN "idle" ELSE "renew") \in WebPCs
      BY DEF WebTyped, WebPCs, W!Handler
    <3>5. W!NoReq \in WebReqs
      BY DEF W!NoReq, WebReqs, WebPCs
    <3>6. k \in WebReqs
      BY <3>2, <3>5 DEF WebReqs
    <3>3. reqs' = [reqs EXCEPT ![q] = k]
      BY DEF WebTyped, W!Begin, W!Handler, W!NoReq
    <3> QED
      BY <3>6, <3>3 DEF WebTyped
  <2>2. \A r \in Reqs : reqs'[r].set <= tokens'
    BY DEF WebTyped, WebReqs, WebPCs, W!Begin, W!Handler, W!NoReq
  <2>3. devices' \subseteq WebRows /\ \A d \in devices' : d.tok \in 1..tokens'
    BY DEF WebTyped, WebReqs, WebRows, W!Begin, W!Handler, W!NoReq
  <2>4. trust' \in [home : W!Places, seen : W!Places, blank : BOOLEAN, lost : BOOLEAN]
    BY DEF WebTyped, W!Places, W!Begin, W!Handler, W!NoReq
  <2>5. stored' \in [v : Nat, hashed : BOOLEAN]
    BY DEF WebTyped, WebReqs, W!Begin, W!Handler, W!NoReq
  <2> QED
    BY <2>1, <2>2, <2>3, <2>4, <2>5 DEF WebTyped, W!Begin, W!Handler, W!NoReq
<1>2. WebLegacy'
  BY DEF WebLegacy, WebTyped, WebReqs, W!Begin, W!Handler, W!To, W!NoReq
<1>3. WebCurrent'
  BY DEF WebCurrent, WebTyped, WebReqs, WebLegacy, WebRows, W!Begin, W!Handler, W!To, W!NoReq
<1>4. WebDevice'
  BY DEF WebDevice, WebTyped, WebReqs, WebRows, W!DriftIsVisible, W!Places, W!Begin, W!Handler, W!To, W!NoReq
<1> QED
  BY <1>1, <1>2, <1>3, <1>4

LEMMA WebLogin == ASSUME NEW q \in Reqs, NEW v \in W!Values, WebInv, W!Login(q, v) PROVE WebInv'
<1> USE DEF WebInv
<1>1. WebTyped'
  BY DEF WebTyped, WebReqs, WebRows, WebPCs, W!Places, W!Login, W!Verified, W!Values, W!To, W!NoReq
<1>2. WebLegacy'
  BY DEF WebLegacy, WebTyped, WebReqs, W!Login, W!Verified, W!Values, W!To, W!NoReq
<1>3. WebCurrent'
  BY DEF WebCurrent, WebTyped, WebReqs, WebLegacy, WebRows, W!Login, W!Verified, W!Values, W!To, W!NoReq
<1>4. WebDevice'
  BY DEF WebDevice, WebTyped, WebReqs, WebRows, W!DriftIsVisible, W!Places, W!Login, W!Verified, W!Values, W!To, W!NoReq
<1> QED
  BY <1>1, <1>2, <1>3, <1>4

LEMMA WebMigrate == ASSUME NEW q \in Reqs, WebInv, W!Migrate(q) PROVE WebInv'
<1> USE DEF WebInv
<1>1. WebTyped'
  BY DEF WebTyped, WebReqs, WebRows, WebPCs, W!Places, W!Migrate, W!Verified, W!To, W!NoReq
<1>2. WebLegacy'
  BY DEF WebLegacy, WebTyped, WebReqs, W!Migrate, W!Verified, W!To, W!NoReq
<1>3. WebCurrent'
  BY DEF WebCurrent, WebTyped, WebReqs, WebLegacy, WebRows, W!Migrate, W!Verified, W!To, W!NoReq
<1>4. WebDevice'
  BY DEF WebDevice, WebTyped, WebReqs, WebRows, W!DriftIsVisible, W!Places, W!Migrate, W!Verified, W!To, W!NoReq
<1> QED
  BY <1>1, <1>2, <1>3, <1>4

LEMMA WebRehash == ASSUME NEW q \in Reqs, WebInv, W!Rehash(q) PROVE WebInv'
<1> USE DEF WebInv
<1>1. WebTyped'
  BY DEF WebTyped, WebReqs, WebRows, WebPCs, W!Places, W!Rehash, W!To, W!NoReq
<1>2. WebLegacy'
  BY DEF WebLegacy, WebTyped, WebReqs, W!Rehash, W!To, W!NoReq
<1>3. WebCurrent'
  BY DEF WebCurrent, WebTyped, WebReqs, WebLegacy, WebRows, W!Rehash, W!To, W!NoReq
<1>4. WebDevice'
  BY DEF WebDevice, WebTyped, WebReqs, WebRows, W!DriftIsVisible, W!Places, W!Rehash, W!To, W!NoReq
<1> QED
  BY <1>1, <1>2, <1>3, <1>4

LEMMA WebWarm == ASSUME NEW q \in Reqs, WebInv, W!Warm(q) PROVE WebInv'
<1> USE DEF WebInv
<1>1. WebTyped'
  BY DEF WebTyped, WebReqs, WebRows, WebPCs, W!Places, W!Warm, W!Verified, W!To, W!NoReq
<1>2. WebLegacy'
  <2>1. cache' = [v |-> 0, hashed |-> TRUE] /\ stored' = stored /\ reqs[q].pc = "warm"
    BY DEF WebLegacy, W!Warm
  <2>2. \A r \in Reqs : r # q => reqs'[r] = reqs[r] /\ reqs[r].pc \notin {"rehash", "warm"}
    BY DEF WebLegacy, WebTyped, W!Warm, W!To, W!Verified
  <2>3. reqs'[q].pc \in {"store", "enter"}
    BY DEF WebTyped, WebReqs, W!Warm, W!To, W!Verified
  <2> QED
    BY <2>1, <2>2, <2>3 DEF WebLegacy
<1>3. WebCurrent'
  BY DEF WebCurrent, WebTyped, WebReqs, WebLegacy, WebRows, W!Warm, W!Verified, W!To, W!NoReq
<1>4. WebDevice'
  BY DEF WebDevice, WebTyped, WebReqs, WebRows, W!DriftIsVisible, W!Places, W!Warm, W!Verified, W!To, W!NoReq
<1> QED
  BY <1>1, <1>2, <1>3, <1>4

LEMMA WebEnter == ASSUME NEW q \in Reqs, NEW t \in BOOLEAN, NEW p \in W!Places, WebInv, W!Enter(q, t, p) PROVE WebInv'
<1> USE DEF WebInv
<1>1. WebTyped'
  <2> DEFINE k == [reqs[q] EXCEPT !.pc = "respond", !.put = TRUE, !.set = IF t THEN tokens + 1 ELSE 0]
  <2>1. reqs' \in [Reqs -> WebReqs]
    <3>1. reqs[q] \in WebReqs
      BY DEF WebTyped
    <3>2. (IF t THEN tokens + 1 ELSE 0) \in Nat
      BY DEF WebTyped
    <3>5. k \in WebReqs
      BY <3>1, <3>2 DEF WebReqs, WebPCs
    <3>3. reqs' = [reqs EXCEPT ![q] = k]
      BY DEF WebTyped, W!Enter
    <3> QED
      BY <3>5, <3>3 DEF WebTyped
  <2>2. \A r \in Reqs : reqs'[r].set <= tokens'
    BY DEF WebTyped, WebReqs, WebPCs, W!Enter, W!Late, W!Row
  <2>3. devices' \subseteq WebRows /\ \A d \in devices' : d.tok \in 1..tokens'
    BY DEF WebTyped, WebReqs, WebRows, W!Enter, W!Late, W!Row
  <2>4. trust' \in [home : W!Places, seen : W!Places, blank : BOOLEAN, lost : BOOLEAN]
    <3>1. [home |-> p, seen |-> p, blank |-> p = "none", lost |-> FALSE]
            \in [home : W!Places, seen : W!Places, blank : BOOLEAN, lost : BOOLEAN]
      OBVIOUS
    <3> QED
      BY <3>1 DEF WebTyped, W!Enter
  <2>5. stored' \in [v : Nat, hashed : BOOLEAN]
    BY DEF WebTyped, WebReqs, W!Enter, W!Late, W!Row
  <2> QED
    BY <2>1, <2>2, <2>3, <2>4, <2>5 DEF WebTyped, W!Enter, W!Late, W!Row
<1>2. WebLegacy'
  BY DEF WebLegacy, WebTyped, WebReqs, W!Enter, W!Late, W!Row, W!To, W!NoReq
<1>3. WebCurrent'
  BY DEF WebCurrent, WebTyped, WebReqs, WebLegacy, WebRows, W!Enter, W!Late, W!Row, W!To, W!NoReq
<1>4. WebDevice'
  <2>1. CASE t
    <3>1. devices = {} /\ devices' = {W!Row(tokens + 1, p, FALSE, FALSE, reqs[q].v, W!Late(reqs[q].v))} /\ mode' = mode
          /\ trust' = [home |-> p, seen |-> p, blank |-> p = "none", lost |-> FALSE]
      BY <2>1 DEF W!Enter
    <3> QED
      <4>1. trust'.lost = FALSE /\ trust'.home = p /\ trust'.seen = p /\ trust'.blank = (p = "none")
        BY <3>1
      <4>2. \A d \in devices' : d.net = p /\ d.drift = FALSE
        BY <3>1 DEF W!Row
      <4> QED
        BY <3>1, <4>1, <4>2 DEF WebDevice, W!DriftIsVisible
  <2>2. CASE ~t
    BY <2>2 DEF WebDevice, W!DriftIsVisible, W!Enter
  <2> QED
    BY <2>1, <2>2
<1> QED
  BY <1>1, <1>2, <1>3, <1>4

LEMMA WebRenew == ASSUME NEW q \in Reqs, NEW p \in W!Places, WebInv, W!Renew(q, p) PROVE WebInv'
<1> USE DEF WebInv
<1> DEFINE place == p
           Gone(d) == devices' = devices \ {d} /\ trust' = [trust EXCEPT !.lost = TRUE] /\ tokens' = tokens
           Fails == reqs'[q].pc = "respond" /\ reqs'[q].v = reqs[q].v /\ reqs'[q].set = reqs[q].set
           Goes(d) == /\ reqs'[q].pc \in {"respond", "destroy", "sessions", "verify"} /\ reqs'[q].v = d.v
                      /\ session' = session /\ trust' = [trust EXCEPT !.seen = p, !.blank = @ \/ p = "none"]
                      /\ ~(W!Drifts(d.net, p) /\ mode = "strict")
<1>r. /\ reqs[q].pc = "renew" /\ reqs' \in [Reqs -> WebReqs]
      /\ \A r \in Reqs : r # q => reqs'[r] = reqs[r]
      /\ \/ Fails /\ session' \in {session, None} /\ UNCHANGED <<devices, tokens, trust>>
         \/ \E d \in devices : Fails /\ session' \in {session, None} /\ Gone(d)
         \/ \E d \in devices, n \in WebRows :
              /\ Goes(d) /\ devices' = (devices \ {d}) \cup {n}
              /\ n.v = d.v /\ n.late = d.late /\ n.net = W!Anchor(d, p) /\ n.drift = (W!Drifts(d.net, p) /\ mode = "warn")
              /\ n.tok \in 1..tokens' /\ reqs'[q].set <= tokens' /\ tokens' \in {tokens, tokens + 1}
  <2> DEFINE k == reqs[q]
             fails == [k EXCEPT !.pc = "respond", !.clear = k.kind = "refresh", !.out = k.kind = "refresh"]
             gone == [fails EXCEPT !.clear = TRUE]
             in(d) == [k EXCEPT !.pc = W!Handler(k.kind), !.put = TRUE, !.v = d.v, !.late = d.late]
             next(d) == [d EXCEPT !.net = W!Anchor(d, p), !.drift = W!Drifts(d.net, p) /\ mode = "warn"]
             turned(d) == [next(d) EXCEPT !.tok = tokens + 1, !.old = FALSE]
  <2>1. k \in WebReqs /\ k.set <= tokens
    BY DEF WebTyped
  <2>2. /\ fails \in WebReqs /\ fails.pc = "respond" /\ fails.v = k.v /\ fails.set = k.set
        /\ gone \in WebReqs /\ gone.pc = "respond" /\ gone.v = k.v /\ gone.set = k.set
    BY <2>1 DEF WebReqs, WebPCs
  <2>3. ASSUME NEW d \in devices
        PROVE  /\ d \in WebRows /\ in(d) \in WebReqs /\ in(d).pc \in {"respond", "destroy", "sessions", "verify"} /\ in(d).v = d.v
               /\ next(d) \in WebRows /\ turned(d) \in WebRows
               /\ \A s \in Nat : /\ [in(d) EXCEPT !.set = s] \in WebReqs
                                 /\ [in(d) EXCEPT !.set = s].pc = in(d).pc /\ [in(d) EXCEPT !.set = s].v = d.v
                                 /\ [in(d) EXCEPT !.set = s].set = s
               /\ in(d).set = k.set
               /\ \A n \in {next(d), turned(d)} :
                    /\ n \in WebRows /\ n.v = d.v /\ n.late = d.late /\ n.net = W!Anchor(d, p)
                    /\ n.drift = (W!Drifts(d.net, p) /\ mode = "warn")
               /\ next(d).tok = d.tok /\ turned(d).tok = tokens + 1
    <3>1. d \in WebRows
      BY DEF WebTyped
    <3>2. W!Anchor(d, p) \in W!Places /\ (W!Drifts(d.net, p) /\ mode = "warn") \in BOOLEAN /\ tokens + 1 \in Nat
      BY <3>1 DEF WebRows, W!Anchor, WebTyped
    <3>3. next(d) \in WebRows
      BY <3>1, <3>2 DEF WebRows
    <3>4. turned(d) \in WebRows
      BY <3>2, <3>3 DEF WebRows
    <3>5. W!Handler(k.kind) \in {"respond", "destroy", "sessions", "verify"}
      BY DEF W!Handler
    <3>6. in(d) \in WebReqs /\ in(d).pc = W!Handler(k.kind) /\ in(d).v = d.v
      BY <2>1, <3>1, <3>5 DEF WebReqs, WebPCs, WebRows
    <3>7. \A s \in Nat : [in(d) EXCEPT !.set = s] \in WebReqs
      BY <3>6 DEF WebReqs
    <3>8. \A s \in Nat : /\ [in(d) EXCEPT !.set = s].pc = in(d).pc /\ [in(d) EXCEPT !.set = s].v = in(d).v
                         /\ [in(d) EXCEPT !.set = s].set = s
      BY <3>6 DEF WebReqs
    <3>9. in(d).set = k.set
      BY <2>1 DEF WebReqs
    <3>10. /\ next(d).v = d.v /\ next(d).late = d.late /\ next(d).net = W!Anchor(d, p) /\ next(d).tok = d.tok
           /\ next(d).drift = (W!Drifts(d.net, p) /\ mode = "warn")
      BY <3>1 DEF WebRows
    <3>11. /\ turned(d).v = next(d).v /\ turned(d).late = next(d).late /\ turned(d).net = next(d).net
           /\ turned(d).tok = tokens + 1 /\ turned(d).drift = next(d).drift
      BY <3>3 DEF WebRows
    <3> HIDE DEF k, in, next, turned
    <3> QED
      BY <3>1, <3>3, <3>4, <3>5, <3>6, <3>7, <3>8, <3>9, <3>10, <3>11
  <2> DEFINE Put(n) == [reqs EXCEPT ![q] = n]
             Closes == session' \in {session, None}
             Stays(d) == /\ session' = session /\ trust' = [trust EXCEPT !.seen = p, !.blank = @ \/ p = "none"]
                         /\ ~(W!Drifts(d.net, p) /\ mode = "strict")
  <2>4. /\ [reqs EXCEPT ![q].pc = "respond", ![q].clear = k.kind = "refresh", ![q].out = k.kind = "refresh"] = Put(fails)
        /\ [[reqs EXCEPT ![q].pc = "respond", ![q].clear = k.kind = "refresh", ![q].out = k.kind = "refresh"]
              EXCEPT ![q].clear = TRUE] = Put(gone)
    BY DEF WebTyped
  <2>5. ASSUME NEW d \in devices
        PROVE  /\ [reqs EXCEPT ![q].pc = W!Handler(k.kind), ![q].put = TRUE, ![q].v = d.v, ![q].late = d.late] = Put(in(d))
               /\ \A s \in Nat :
                    [[reqs EXCEPT ![q].pc = W!Handler(k.kind), ![q].put = TRUE, ![q].v = d.v, ![q].late = d.late]
                       EXCEPT ![q].set = s] = Put([in(d) EXCEPT !.set = s])
    BY DEF WebTyped
  <2>6. reqs[q].pc = "renew" /\ tokens \in Nat /\ tokens + 1 \in Nat
    <3>1. tokens \in Nat
      BY DEF WebTyped
    <3>2. reqs[q].pc = "renew"
      BY DEF W!Renew
    <3> QED
      BY <3>1, <3>2
  <2>7. \/ reqs' = Put(fails) /\ Closes /\ UNCHANGED <<devices, tokens, trust>>
        \/ \E d \in devices : reqs' = Put(gone) /\ Closes /\ Gone(d)
        \/ \E d \in devices : Stays(d) /\ reqs' = Put(in(d)) /\ devices' = (devices \ {d}) \cup {next(d)} /\ tokens' = tokens
        \/ \E d \in devices : /\ Stays(d) /\ reqs' = Put([in(d) EXCEPT !.set = tokens + 1]) /\ tokens' = tokens + 1
                              /\ devices' = (devices \ {d}) \cup {turned(d)}
    BY ZenonT(60), <2>4, <2>5, <2>6 DEF W!Renew
  <2> HIDE DEF fails, gone, in, next, turned
  <2>8. \A n \in WebReqs : Put(n) \in [Reqs -> WebReqs] /\ Put(n)[q] = n /\ \A r \in Reqs : r # q => Put(n)[r] = reqs[r]
    BY DEF WebTyped
  <2>9. CASE reqs' = Put(fails) /\ Closes /\ UNCHANGED <<devices, tokens, trust>>
    BY <2>1, <2>2, <2>6, <2>8, <2>9
  <2>10. ASSUME NEW d \in devices, reqs' = Put(gone), Closes, Gone(d)
         PROVE  /\ reqs' \in [Reqs -> WebReqs] /\ \A r \in Reqs : r # q => reqs'[r] = reqs[r]
                /\ Fails /\ Closes /\ Gone(d)
    BY <2>1, <2>2, <2>8, <2>10
  <2>11. ASSUME NEW d \in devices, NEW s \in 0..(tokens + 1), NEW n \in {next(d), turned(d)}, Stays(d),
                reqs' \in {Put(in(d)), Put([in(d) EXCEPT !.set = s])}, devices' = (devices \ {d}) \cup {n},
                tokens' \in {tokens, tokens + 1}, s <= tokens', n.tok <= tokens'
         PROVE  /\ reqs' \in [Reqs -> WebReqs] /\ \A r \in Reqs : r # q => reqs'[r] = reqs[r]
                /\ Goes(d) /\ n \in WebRows
                /\ n.v = d.v /\ n.late = d.late /\ n.net = W!Anchor(d, p) /\ n.drift = (W!Drifts(d.net, p) /\ mode = "warn")
                /\ n.tok \in 1..tokens' /\ reqs'[q].set <= tokens'
    <3>1. /\ reqs' \in [Reqs -> WebReqs] /\ \A r \in Reqs : r # q => reqs'[r] = reqs[r]
          /\ reqs'[q] \in {in(d), [in(d) EXCEPT !.set = s]}
      BY <2>3, <2>6, <2>8, <2>11
    <3>2. d \in WebRows /\ d.tok \in 1..tokens
      BY DEF WebTyped
    <3>3. s \in Nat /\ n.tok \in {d.tok, tokens + 1} /\ d.tok \in 1..tokens
      BY <2>3, <2>6, <3>2
    <3>4. reqs'[q].pc \in {"respond", "destroy", "sessions", "verify"} /\ reqs'[q].v = d.v /\ reqs'[q].set \in {k.set, s}
      <4>1. CASE reqs'[q] = in(d)
        BY <2>3, <4>1
      <4>2. CASE reqs'[q] = [in(d) EXCEPT !.set = s]
        BY <2>3, <3>3, <4>2
      <4> QED
        BY <3>1, <4>1, <4>2
    <3>5. reqs'[q].set <= tokens' /\ n.tok \in 1..tokens'
      BY <2>1, <2>6, <2>11, <3>3, <3>4 DEF WebReqs
    <3> QED
      BY <2>3, <2>11, <3>1, <3>4, <3>5
  <2>12. CASE \E d \in devices : reqs' = Put(gone) /\ Closes /\ Gone(d)
    BY <2>6, <2>10, <2>12
  <2>13. CASE \E d \in devices : Stays(d) /\ reqs' = Put(in(d)) /\ devices' = (devices \ {d}) \cup {next(d)} /\ tokens' = tokens
    <3> PICK d \in devices : Stays(d) /\ reqs' = Put(in(d)) /\ devices' = (devices \ {d}) \cup {next(d)} /\ tokens' = tokens
      BY <2>13
    <3>1. d.tok \in 1..tokens
      BY DEF WebTyped
    <3>2. 0 \in 0..(tokens + 1) /\ 0 <= tokens' /\ next(d).tok <= tokens'
      BY <2>3, <2>6, <3>1
    <3> QED
      BY <2>6, <2>11, <3>2
  <2>14. CASE \E d \in devices : /\ Stays(d) /\ reqs' = Put([in(d) EXCEPT !.set = tokens + 1]) /\ tokens' = tokens + 1
                                 /\ devices' = (devices \ {d}) \cup {turned(d)}
    <3> PICK d \in devices : /\ Stays(d) /\ reqs' = Put([in(d) EXCEPT !.set = tokens + 1]) /\ tokens' = tokens + 1
                             /\ devices' = (devices \ {d}) \cup {turned(d)}
      BY <2>14
    <3>2. tokens + 1 \in 0..(tokens + 1) /\ tokens + 1 <= tokens' /\ turned(d).tok <= tokens'
      BY <2>3, <2>6
    <3> QED
      BY <2>6, <2>11, <3>2
  <2> QED
    BY <2>7, <2>9, <2>12, <2>13, <2>14
<1>1. WebTyped'
  <2>1. devices' \subseteq WebRows /\ (\A d \in devices' : d.tok \in 1..tokens') /\ tokens' \in Nat /\ tokens <= tokens'
    BY <1>r DEF WebTyped
  <2>2. \A r \in Reqs : reqs'[r].set <= tokens'
    BY <1>r, <2>1 DEF WebTyped, WebReqs
  <2>3. trust' \in [home : W!Places, seen : W!Places, blank : BOOLEAN, lost : BOOLEAN]
    BY <1>r DEF WebTyped
  <2>4. UNCHANGED <<mode, stored, cache, jar>>
    BY DEF W!Renew
  <2> QED
    BY <1>r, <2>1, <2>2, <2>3, <2>4 DEF WebTyped
<1>2. WebLegacy'
  <2>1. UNCHANGED <<stored, cache>>
    BY DEF W!Renew
  <2>2. reqs'[q].pc \in {"respond", "destroy", "sessions", "verify"}
    BY <1>r
  <2> QED
    BY <1>r, <2>1, <2>2 DEF WebLegacy
<1>3. WebCurrent'
  <2>1. stored' = stored /\ session' \in {session, None}
    BY <1>r DEF W!Renew
  <2>2. \A r \in Reqs : reqs[r].pc \in {"cache", "sessions", "devices"} => reqs'[r] = reqs[r]
    BY <1>r
  <2>3. \A n \in devices' : \E d \in devices : n.v = d.v /\ n.late = d.late
    BY <1>r
  <2> QED
    BY <2>1, <2>2, <2>3 DEF WebCurrent
<1>4. WebDevice'
  <2>1. mode' = mode
    BY DEF W!Renew
  <2>2. CASE UNCHANGED <<devices, trust>>
    BY <2>1, <2>2 DEF WebDevice, W!DriftIsVisible
  <2>3. ASSUME NEW d \in devices, Gone(d)
        PROVE  WebDevice'
    BY <2>1, <2>3 DEF WebDevice, W!DriftIsVisible, WebTyped
  <2>4. ASSUME NEW d \in devices, NEW n \in WebRows, Goes(d), devices' = (devices \ {d}) \cup {n},
               n.net = W!Anchor(d, p), n.drift = (W!Drifts(d.net, p) /\ mode = "warn")
        PROVE  WebDevice'
    <3>1. ~trust.lost /\ devices = {d} /\ devices' = {n}
      BY <2>4 DEF WebDevice
    <3>2. trust'.lost = trust.lost /\ trust'.home = trust.home /\ trust'.seen = p /\ (trust'.blank <=> trust.blank \/ p = "none")
      BY <2>4 DEF WebTyped
    <3>3. ASSUME ~trust'.blank, mode' = "warn"
          PROVE  n.net = trust'.home /\ (n.drift <=> trust'.seen # trust'.home)
      <4>1. d.net = trust.home /\ (d.drift <=> trust.seen # trust.home) /\ trust.home # "none" /\ p # "none" /\ mode = "warn"
        BY <2>1, <3>1, <3>2, <3>3 DEF WebDevice, W!DriftIsVisible
      <4> QED
        BY <2>4, <3>2, <4>1 DEF W!Anchor, W!Drifts
    <3> QED
      BY <2>1, <3>1, <3>2, <3>3 DEF WebDevice, W!DriftIsVisible
  <2> QED
    BY <1>r, <2>2, <2>3, <2>4
<1> QED
  BY <1>1, <1>2, <1>3, <1>4

LEMMA WebDestroy == ASSUME NEW q \in Reqs, WebInv, W!Destroy(q) PROVE WebInv'
<1> USE DEF WebInv
<1>1. WebTyped'
  <2> DEFINE k == [reqs[q] EXCEPT !.pc = "respond", !.clear = TRUE, !.out = TRUE, !.put = FALSE, !.set = 0]
  <2>1. reqs' \in [Reqs -> WebReqs]
    <3>1. reqs[q] \in WebReqs
      BY DEF WebTyped
    <3>2. k \in WebReqs
      BY <3>1 DEF WebTyped, WebReqs, WebPCs, W!Destroy, W!LoggedOut
    <3>3. reqs' = [reqs EXCEPT ![q] = k]
      BY DEF WebTyped, W!Destroy, W!LoggedOut
    <3> QED
      BY <3>2, <3>3 DEF WebTyped
  <2>2. \A r \in Reqs : reqs'[r].set <= tokens'
    BY DEF WebTyped, WebReqs, WebPCs, W!Destroy, W!LoggedOut
  <2>3. devices' \subseteq WebRows /\ \A d \in devices' : d.tok \in 1..tokens'
    BY DEF WebTyped, WebReqs, WebRows, W!Destroy, W!LoggedOut
  <2>4. trust' \in [home : W!Places, seen : W!Places, blank : BOOLEAN, lost : BOOLEAN]
    BY DEF WebTyped, W!Places, W!Destroy, W!LoggedOut
  <2>5. stored' \in [v : Nat, hashed : BOOLEAN]
    BY DEF WebTyped, WebReqs, W!Destroy, W!LoggedOut
  <2> QED
    BY <2>1, <2>2, <2>3, <2>4, <2>5 DEF WebTyped, W!Destroy, W!LoggedOut
<1>2. WebLegacy'
  BY DEF WebLegacy, WebTyped, WebReqs, W!Destroy, W!LoggedOut, W!To, W!NoReq
<1>3. WebCurrent'
  BY DEF WebCurrent, WebTyped, WebReqs, WebLegacy, WebRows, W!Destroy, W!LoggedOut, W!To, W!NoReq
<1>4. WebDevice'
  BY ZenonT(60) DEF WebDevice, WebTyped, WebReqs, WebRows, W!DriftIsVisible, W!Places, W!Destroy, W!LoggedOut, W!To, W!NoReq
<1> QED
  BY <1>1, <1>2, <1>3, <1>4

LEMMA WebStore == ASSUME NEW q \in Reqs, WebInv, W!Store(q) PROVE WebInv'
<1> USE DEF WebInv
<1>1. WebTyped'
  <2> DEFINE k == [reqs[q] EXCEPT !.pc = "cache", !.v = stored.v + 1]
  <2>1. reqs' \in [Reqs -> WebReqs]
    <3>1. reqs[q] \in WebReqs
      BY DEF WebTyped
    <3>2. stored.v + 1 \in Nat
      BY DEF WebTyped
    <3>5. k \in WebReqs
      BY <3>1, <3>2 DEF WebReqs, WebPCs
    <3>3. reqs' = [reqs EXCEPT ![q] = k]
      BY DEF WebTyped, W!Store
    <3> QED
      BY <3>5, <3>3 DEF WebTyped
  <2>2. \A r \in Reqs : reqs'[r].set <= tokens'
    BY DEF WebTyped, WebReqs, WebPCs, W!Store
  <2>3. devices' \subseteq WebRows /\ \A d \in devices' : d.tok \in 1..tokens'
    BY DEF WebTyped, WebReqs, WebRows, W!Store
  <2>4. trust' \in [home : W!Places, seen : W!Places, blank : BOOLEAN, lost : BOOLEAN]
    BY DEF WebTyped, W!Places, W!Store
  <2>5. stored' \in [v : Nat, hashed : BOOLEAN]
    BY DEF WebTyped, WebReqs, W!Store
  <2> QED
    BY <2>1, <2>2, <2>3, <2>4, <2>5 DEF WebTyped, W!Store
<1>2. WebLegacy'
  BY DEF WebLegacy, WebTyped, WebReqs, W!Store, W!To, W!NoReq
<1>3. WebCurrent'
  BY DEF WebCurrent, WebTyped, WebReqs, WebLegacy, WebRows, W!Store, W!To, W!NoReq
<1>4. WebDevice'
  BY DEF WebDevice, WebTyped, WebReqs, WebRows, W!DriftIsVisible, W!Places, W!Store, W!To, W!NoReq
<1> QED
  BY <1>1, <1>2, <1>3, <1>4

LEMMA WebCache == ASSUME NEW q \in Reqs, WebInv, W!Cache(q) PROVE WebInv'
<1> USE DEF WebInv
<1>1. WebTyped'
  BY DEF WebTyped, WebReqs, WebRows, WebPCs, W!Places, W!Cache, W!To, W!NoReq
<1>2. WebLegacy'
  BY DEF WebLegacy, WebTyped, WebReqs, W!Cache, W!To, W!NoReq
<1>3. WebCurrent'
  BY DEF WebCurrent, WebTyped, WebReqs, WebLegacy, WebRows, W!Cache, W!To, W!NoReq
<1>4. WebDevice'
  BY DEF WebDevice, WebTyped, WebReqs, WebRows, W!DriftIsVisible, W!Places, W!Cache, W!To, W!NoReq
<1> QED
  BY <1>1, <1>2, <1>3, <1>4

LEMMA WebDropSessions == ASSUME NEW q \in Reqs, WebInv, W!DropSessions(q) PROVE WebInv'
<1> USE DEF WebInv
<1>1. WebTyped'
  BY DEF WebTyped, WebReqs, WebRows, WebPCs, W!Places, W!DropSessions, W!To, W!NoReq
<1>2. WebLegacy'
  BY DEF WebLegacy, WebTyped, WebReqs, W!DropSessions, W!To, W!NoReq
<1>3. WebCurrent'
  BY DEF WebCurrent, WebTyped, WebReqs, WebLegacy, WebRows, W!DropSessions, W!To, W!NoReq
<1>4. WebDevice'
  BY DEF WebDevice, WebTyped, WebReqs, WebRows, W!DriftIsVisible, W!Places, W!DropSessions, W!To, W!NoReq
<1> QED
  BY <1>1, <1>2, <1>3, <1>4

LEMMA WebDropDevices == ASSUME NEW q \in Reqs, WebInv, W!DropDevices(q) PROVE WebInv'
<1> USE DEF WebInv
<1>1. WebTyped'
  <2> DEFINE k == [reqs[q] EXCEPT !.pc = "respond", !.clear = TRUE, !.out = TRUE, !.put = FALSE, !.set = 0]
  <2>1. reqs' \in [Reqs -> WebReqs]
    <3>1. reqs[q] \in WebReqs
      BY DEF WebTyped
    <3>2. k \in WebReqs
      BY <3>1 DEF WebTyped, WebReqs, WebPCs, W!DropDevices, W!LoggedOut
    <3>3. reqs' = [reqs EXCEPT ![q] = k]
      BY DEF WebTyped, W!DropDevices, W!LoggedOut
    <3> QED
      BY <3>2, <3>3 DEF WebTyped
  <2>2. \A r \in Reqs : reqs'[r].set <= tokens'
    BY DEF WebTyped, WebReqs, WebPCs, W!DropDevices, W!LoggedOut
  <2>3. devices' \subseteq WebRows /\ \A d \in devices' : d.tok \in 1..tokens'
    BY DEF WebTyped, WebReqs, WebRows, W!DropDevices, W!LoggedOut
  <2>4. trust' \in [home : W!Places, seen : W!Places, blank : BOOLEAN, lost : BOOLEAN]
    BY DEF WebTyped, W!Places, W!DropDevices, W!LoggedOut
  <2>5. stored' \in [v : Nat, hashed : BOOLEAN]
    BY DEF WebTyped, WebReqs, W!DropDevices, W!LoggedOut
  <2> QED
    BY <2>1, <2>2, <2>3, <2>4, <2>5 DEF WebTyped, W!DropDevices, W!LoggedOut
<1>2. WebLegacy'
  BY DEF WebLegacy, WebTyped, WebReqs, W!DropDevices, W!LoggedOut, W!To, W!NoReq
<1>3. WebCurrent'
  BY DEF WebCurrent, WebTyped, WebReqs, WebLegacy, WebRows, W!DropDevices, W!LoggedOut, W!To, W!NoReq
<1>4. WebDevice'
  BY DEF WebDevice, WebTyped, WebReqs, WebRows, W!DriftIsVisible, W!Places, W!DropDevices, W!LoggedOut, W!To, W!NoReq
<1> QED
  BY <1>1, <1>2, <1>3, <1>4

LEMMA WebRespond == ASSUME NEW q \in Reqs, WebInv, W!Respond(q) PROVE WebInv'
<1> USE DEF WebInv
<1>1. WebTyped'
  BY DEF WebTyped, WebReqs, WebRows, WebPCs, W!Places, W!Respond, W!Late, W!To, W!NoReq
<1>2. WebLegacy'
  BY DEF WebLegacy, WebTyped, WebReqs, W!Respond, W!Late, W!To, W!NoReq
<1>3. WebCurrent'
  BY DEF WebCurrent, WebTyped, WebReqs, WebLegacy, WebRows, W!Respond, W!Late, W!To, W!NoReq
<1>4. WebDevice'
  BY DEF WebDevice, WebTyped, WebReqs, WebRows, W!DriftIsVisible, W!Places, W!Respond, W!Late, W!To, W!NoReq
<1> QED
  BY <1>1, <1>2, <1>3, <1>4

LEMMA WebCardinality == \A S : W!Cardinality(S) = Cardinality(S)
  BY DEF W!Cardinality, Cardinality

LEMMA WebAge == ASSUME WebInv, NEW d \in devices, W!Age(d) \/ W!PurgeDevice(d) PROVE WebInv'
<1> USE DEF WebInv
<1>1. UNCHANGED <<mode, stored, cache, session, jar, reqs, tokens, begun>>
  BY DEF W!Age, W!PurgeDevice
<1>2. CASE W!Age(d)
  <2> DEFINE old == [d EXCEPT !.old = TRUE]
  <2>1. trust' = trust /\ devices' = (devices \ {d}) \cup {old}
    BY <1>2 DEF W!Age
  <2>2. d \in WebRows /\ old \in WebRows /\ old.tok = d.tok /\ old.net = d.net /\ old.drift = d.drift
        /\ old.v = d.v /\ old.late = d.late
    BY DEF WebTyped, WebRows
  <2>3. WebTyped'
    BY <1>1, <2>1, <2>2 DEF WebTyped
  <2>6. WebLegacy' /\ WebCurrent'
    BY <1>1, <2>1, <2>2 DEF WebLegacy, WebCurrent
  <2>4. ~trust.lost /\ devices = {d} /\ devices' = {old}
    BY <2>1 DEF WebDevice
  <2>5. WebDevice'
    BY <1>1, <2>1, <2>2, <2>4 DEF WebDevice, W!DriftIsVisible
  <2> QED
    BY <2>3, <2>5, <2>6
<1>3. CASE W!PurgeDevice(d)
  <2>1. devices' = devices \ {d} /\ trust' = [trust EXCEPT !.lost = TRUE]
    BY <1>3 DEF W!PurgeDevice
  <2>2. WebTyped'
    BY <1>1, <2>1 DEF WebTyped
  <2>3. WebLegacy' /\ WebCurrent'
    BY <1>1, <2>1 DEF WebLegacy, WebCurrent
  <2>4. WebDevice'
    BY <1>1, <2>1 DEF WebTyped, WebDevice, W!DriftIsVisible
  <2> QED
    BY <2>2, <2>3, <2>4
<1> QED
  BY <1>2, <1>3

LEMMA WebPurge == ASSUME WebInv, W!PurgeSession PROVE WebInv'
<1>1. session' = None /\ UNCHANGED <<mode, stored, cache, devices, jar, reqs, tokens, trust, begun>>
  BY DEF W!PurgeSession
<1>2. WebTyped'
  BY <1>1 DEF WebInv, WebTyped
<1>3. WebLegacy' /\ WebCurrent' /\ WebDevice'
  BY <1>1 DEF WebInv, WebLegacy, WebCurrent, WebDevice, W!DriftIsVisible
<1> QED
  BY <1>2, <1>3 DEF WebInv

LEMMA WebInit == W!Init => WebInv
<1> SUFFICES ASSUME W!Init PROVE WebInv
  OBVIOUS
<1>1. W!NoReq \in WebReqs /\ W!NoReq.pc = "idle" /\ W!NoReq.set = 0
  BY DEF W!NoReq, WebReqs, WebPCs
<1>2. WebTyped
  <2>1. W!NoTrust \in [home : W!Places, seen : W!Places, blank : BOOLEAN, lost : BOOLEAN]
    BY DEF W!NoTrust, W!Places
  <2> QED
    BY <1>1, <2>1 DEF W!Init, WebTyped
<1>3. WebLegacy /\ WebCurrent
  BY <1>1 DEF W!Init, WebLegacy, WebCurrent
<1>4. WebDevice
  BY DEF W!Init, WebDevice, W!NoTrust, W!DriftIsVisible
<1> QED
  BY <1>2, <1>3, <1>4 DEF WebInv

LEMMA WebNext == WebInv /\ [W!Next]_(W!vars) => WebInv'
<1> SUFFICES ASSUME WebInv, [W!Next]_(W!vars) PROVE WebInv'
  OBVIOUS
<1>1. CASE UNCHANGED W!vars
  <2>1. UNCHANGED <<mode, stored, cache, session, devices, jar, reqs, tokens, trust>>
    BY <1>1 DEF W!vars
  <2>2. WebTyped'
    BY <2>1 DEF WebInv, WebTyped
  <2>3. WebLegacy' /\ WebCurrent' /\ WebDevice'
    BY <2>1 DEF WebInv, WebLegacy, WebCurrent, WebDevice, W!DriftIsVisible
  <2> QED
    BY <2>2, <2>3 DEF WebInv
<1>2. ASSUME NEW q \in Reqs, NEW kind \in {"login", "refresh", "page", "logout", "logoutAll", "change"},
             W!Begin(q, kind)
      PROVE  WebInv'
  BY <1>2, WebBegin
<1>3. ASSUME NEW q \in Reqs, NEW v \in W!Values, W!Login(q, v) PROVE WebInv'
  BY <1>3, WebLogin
<1>4. ASSUME NEW q \in Reqs, NEW t \in BOOLEAN, NEW p \in W!Places, W!Enter(q, t, p) PROVE WebInv'
  BY <1>4, WebEnter
<1>5. ASSUME NEW q \in Reqs, NEW p \in W!Places, W!Renew(q, p) PROVE WebInv'
  BY <1>5, WebRenew
<1>6. ASSUME NEW q \in Reqs, W!Migrate(q) \/ W!Rehash(q) \/ W!Warm(q) \/ W!Destroy(q) PROVE WebInv'
  BY <1>6, WebMigrate, WebRehash, WebWarm, WebDestroy
<1>7. ASSUME NEW q \in Reqs, W!Store(q) \/ W!Cache(q) \/ W!DropSessions(q) \/ W!DropDevices(q) \/ W!Respond(q)
      PROVE  WebInv'
  BY <1>7, WebStore, WebCache, WebDropSessions, WebDropDevices, WebRespond
<1> QED
  BY <1>1, <1>2, <1>3, <1>4, <1>5, <1>6, <1>7, WebAge, WebPurge DEF W!Next

LEMMA WebHolds ==
  WebInv => W!TypeOK /\ W!NothingOutlivesAChange /\ W!TrustedOnce /\ W!DriftIsVisible
<1> SUFFICES ASSUME WebInv PROVE W!TypeOK /\ W!NothingOutlivesAChange /\ W!TrustedOnce /\ W!DriftIsVisible
  OBVIOUS
<1>1. W!TypeOK
  BY DEF WebInv, WebTyped, WebRows, W!TypeOK
<1>2. W!NothingOutlivesAChange
  BY DEF WebInv, WebCurrent, W!NothingOutlivesAChange, W!Changing
<1>3. W!TrustedOnce
  <2>1. trust.lost \in BOOLEAN
    BY DEF WebInv, WebTyped
  <2>2. CASE trust.lost
    BY <2>2, FS_EmptySet, WebCardinality DEF WebInv, WebDevice, W!TrustedOnce
  <2>3. CASE ~trust.lost
    <3> PICK d : devices = {d}
      BY <2>3 DEF WebInv, WebDevice
    <3> QED
      BY <2>3, FS_Singleton, WebCardinality DEF W!TrustedOnce
  <2> QED
    BY <2>1, <2>2, <2>3
<1> QED
  BY <1>1, <1>2, <1>3 DEF WebInv, WebDevice

\* What requireAuth, renewFromDevice and SetPassphrase promise: a change of the passphrase
\* takes every session and device of before with it, a trusted device has one row through
\* all its rotations, and in warn mode a drift of its network stays visible.
THEOREM LoginsStayCurrent ==
  W!Spec => [](W!TypeOK /\ W!NothingOutlivesAChange /\ W!TrustedOnce /\ W!DriftIsVisible)
  BY WebInit, WebNext, WebHolds, PTL DEF W!Spec

-----------------------------------------------------------------------------
(***************************************************************************)
(* The stored inputs of runs: RunInputs.                                   *)
(***************************************************************************)

InputsRows == [status : {"none", "running", "ended"}, key : BOOLEAN, pinned : BOOLEAN]
InputsTyped ==
  /\ inputRows \in [Runs -> InputsRows]
  /\ inputBody \in [Runs -> {"none", "persist", "set", "runs"}]
  /\ inputBatch \in [Batches -> [pc : {"idle", "keys", "delete", "clear"}, runs : SUBSET Runs, clear : SUBSET Runs]]
  /\ inputs \subseteq Runs /\ inputReads \subseteq Runs
  /\ swallowed \subseteq Runs /\ inputOrphans \subseteq Runs /\ torn \subseteq Runs

\* A run writes its blob and its key once, in that order, and no batch lists it before.
InputsBodies ==
  \A r \in Runs :
    /\ inputRows[r].status = "none" => inputBody[r] = "none"
    /\ inputRows[r].status = "none" \/ inputBody[r] = "persist" => r \notin inputs
    /\ inputBody[r] = "set" => r \in inputs \cup swallowed
    /\ inputRows[r].status = "none" \/ inputBody[r] \in {"persist", "set"} =>
         ~inputRows[r].key /\ \A b \in Batches : r \notin inputBatch[b].clear

\* A batch is done with what it has still to clear and no longer to delete.
InputsBatches ==
  \A b \in Batches :
    /\ inputBatch[b].runs \subseteq inputBatch[b].clear
    /\ inputBatch[b].pc = "keys" => inputBatch[b].runs = inputBatch[b].clear
    /\ inputBatch[b].pc \in {"idle", "clear"} => inputBatch[b].runs = {}
    /\ inputBatch[b].pc = "idle" => inputBatch[b].clear = {}
    /\ (inputBatch[b].clear \ inputBatch[b].runs) \cap inputs \subseteq inputOrphans \cup swallowed

InputsInv == InputsTyped /\ InputsBodies /\ InputsBatches /\ I!InputsAreFound /\ I!KeysAreBacked

LEMMA InputsKeyed == \A x \in InputsRows : \A on \in BOOLEAN : [x EXCEPT !.key = on] \in InputsRows
  BY DEF InputsRows

LEMMA InputsInit == I!Init => InputsInv
  BY DEF I!Init, I!NoRow, I!Idle, InputsInv, InputsTyped, InputsRows, InputsBodies,
    InputsBatches, I!InputsAreFound, I!KeysAreBacked

LEMMA InputsFire == ASSUME NEW r \in Runs, InputsInv, I!Fire(r) PROVE InputsInv'
<1> USE DEF InputsInv
<1>1. InputsTyped'
  BY DEF InputsTyped, InputsRows, I!Fire, I!Fault, I!Body
<1>2. InputsBodies'
  BY DEF InputsBodies, InputsTyped, InputsRows, I!Fire, I!Fault, I!Body
<1>3. InputsBatches'
  BY DEF InputsBatches, InputsTyped, InputsBodies, I!InputsAreFound, InputsRows, I!Fire, I!Fault, I!Body
<1>4. I!InputsAreFound'
  BY DEF I!InputsAreFound, InputsTyped, InputsBodies, InputsBatches, InputsRows, I!Fire, I!Fault, I!Body
<1>5. I!KeysAreBacked'
  BY DEF I!KeysAreBacked, InputsTyped, InputsBodies, InputsBatches, InputsRows, I!Fire, I!Fault, I!Body
<1> QED
  BY <1>1, <1>2, <1>3, <1>4, <1>5

LEMMA InputsPersist == ASSUME NEW r \in Runs, InputsInv, I!Persist(r) PROVE InputsInv'
<1> USE DEF InputsInv
<1>1. InputsTyped'
  BY DEF InputsTyped, InputsRows, I!Persist, I!Fault, I!Body
<1>2. InputsBodies'
  BY DEF InputsBodies, InputsTyped, InputsRows, I!Persist, I!Fault, I!Body
<1>3. InputsBatches'
  BY DEF InputsBatches, InputsTyped, InputsBodies, I!InputsAreFound, InputsRows, I!Persist, I!Fault, I!Body
<1>4. I!InputsAreFound'
  BY DEF I!InputsAreFound, InputsTyped, InputsBodies, InputsBatches, InputsRows, I!Persist, I!Fault, I!Body
<1>5. I!KeysAreBacked'
  BY DEF I!KeysAreBacked, InputsTyped, InputsBodies, InputsBatches, InputsRows, I!Persist, I!Fault, I!Body
<1> QED
  BY <1>1, <1>2, <1>3, <1>4, <1>5

LEMMA InputsSetKey == ASSUME NEW r \in Runs, InputsInv, I!SetKey(r) PROVE InputsInv'
<1> USE DEF InputsInv
<1>1. InputsTyped'
  <2>1. inputRows' \in [Runs -> InputsRows]
    <3>1. [inputRows[r] EXCEPT !.key = TRUE] \in InputsRows
      BY InputsKeyed DEF InputsTyped
    <3>2. inputRows' = inputRows \/ inputRows' = [inputRows EXCEPT ![r] = [inputRows[r] EXCEPT !.key = TRUE]]
      BY DEF I!SetKey, InputsTyped
    <3> QED
      BY <3>1, <3>2 DEF InputsTyped
  <2>2. inputBody' \in [Runs -> {"none", "persist", "set", "runs"}]
    BY DEF InputsTyped, InputsRows, I!SetKey, I!Body
  <2>3. inputBatch' \in [Batches -> [pc : {"idle", "keys", "delete", "clear"}, runs : SUBSET Runs, clear : SUBSET Runs]]
    BY DEF InputsTyped, InputsRows, I!SetKey, I!Idle
  <2> QED
    BY <2>1, <2>2, <2>3 DEF InputsTyped, InputsRows, I!SetKey
<1>2. InputsBodies'
  BY DEF InputsBodies, InputsTyped, InputsRows, I!SetKey, I!Fault, I!Body
<1>3. InputsBatches'
  BY DEF InputsBatches, InputsTyped, InputsBodies, I!InputsAreFound, InputsRows, I!SetKey, I!Fault, I!Body
<1>4. I!InputsAreFound'
  BY DEF I!InputsAreFound, InputsTyped, InputsBodies, InputsBatches, InputsRows, I!SetKey, I!Fault, I!Body
<1>5. I!KeysAreBacked'
  BY DEF I!KeysAreBacked, InputsTyped, InputsBodies, InputsBatches, InputsRows, I!SetKey, I!Fault, I!Body
<1> QED
  BY <1>1, <1>2, <1>3, <1>4, <1>5

LEMMA InputsEnds == ASSUME NEW r \in Runs, InputsInv, I!Ends(r) PROVE InputsInv'
<1> USE DEF InputsInv
<1>1. InputsTyped'
  BY DEF InputsTyped, InputsRows, I!Ends, I!Fault, I!Body
<1>2. InputsBodies'
  BY DEF InputsBodies, InputsTyped, InputsRows, I!Ends, I!Fault, I!Body
<1>3. InputsBatches'
  BY DEF InputsBatches, InputsTyped, InputsBodies, I!InputsAreFound, InputsRows, I!Ends, I!Fault, I!Body
<1>4. I!InputsAreFound'
  BY DEF I!InputsAreFound, InputsTyped, InputsBodies, InputsBatches, InputsRows, I!Ends, I!Fault, I!Body
<1>5. I!KeysAreBacked'
  BY DEF I!KeysAreBacked, InputsTyped, InputsBodies, InputsBatches, InputsRows, I!Ends, I!Fault, I!Body
<1> QED
  BY <1>1, <1>2, <1>3, <1>4, <1>5

LEMMA InputsRead == ASSUME NEW r \in Runs, InputsInv, I!Read(r) PROVE InputsInv'
<1> USE DEF InputsInv
<1>1. InputsTyped'
  BY DEF InputsTyped, InputsRows, I!Read, I!Fault, I!Body
<1>2. InputsBodies'
  BY DEF InputsBodies, InputsTyped, InputsRows, I!Read, I!Fault, I!Body
<1>3. InputsBatches'
  BY DEF InputsBatches, InputsTyped, InputsBodies, I!InputsAreFound, InputsRows, I!Read, I!Fault, I!Body
<1>4. I!InputsAreFound'
  BY DEF I!InputsAreFound, InputsTyped, InputsBodies, InputsBatches, InputsRows, I!Read, I!Fault, I!Body
<1>5. I!KeysAreBacked'
  BY DEF I!KeysAreBacked, InputsTyped, InputsBodies, InputsBatches, InputsRows, I!Read, I!Fault, I!Body
<1> QED
  BY <1>1, <1>2, <1>3, <1>4, <1>5

LEMMA InputsReplay == ASSUME NEW r \in Runs, InputsInv, I!Replay(r) PROVE InputsInv'
<1> USE DEF InputsInv
<1>1. InputsTyped'
  <2>1. inputRows' \in [Runs -> InputsRows]
    BY DEF InputsTyped, InputsRows, I!Replay
  <2>2. inputBody' \in [Runs -> {"none", "persist", "set", "runs"}]
    BY DEF InputsTyped, InputsRows, I!Replay, I!Body
  <2>3. inputBatch' \in [Batches -> [pc : {"idle", "keys", "delete", "clear"}, runs : SUBSET Runs, clear : SUBSET Runs]]
    BY DEF InputsTyped, InputsRows, I!Replay, I!Idle
  <2> QED
    BY <2>1, <2>2, <2>3 DEF InputsTyped, InputsRows, I!Replay
<1>2. InputsBodies'
  BY DEF InputsBodies, InputsTyped, InputsRows, I!Replay, I!Fault, I!Body
<1>3. InputsBatches'
  BY DEF InputsBatches, InputsTyped, InputsBodies, I!InputsAreFound, InputsRows, I!Replay, I!Fault, I!Body
<1>4. I!InputsAreFound'
  BY DEF I!InputsAreFound, InputsTyped, InputsBodies, InputsBatches, InputsRows, I!Replay, I!Fault, I!Body
<1>5. I!KeysAreBacked'
  BY DEF I!KeysAreBacked, InputsTyped, InputsBodies, InputsBatches, InputsRows, I!Replay, I!Fault, I!Body
<1> QED
  BY <1>1, <1>2, <1>3, <1>4, <1>5

LEMMA InputsPin == ASSUME NEW r \in Runs, InputsInv, I!Pin(r) PROVE InputsInv'
<1> USE DEF InputsInv
<1>1. InputsTyped'
  BY ZenonT(60) DEF InputsTyped, InputsRows, I!Pin, I!Fault, I!Body
<1>2. InputsBodies'
  BY DEF InputsBodies, InputsTyped, InputsRows, I!Pin, I!Fault, I!Body
<1>3. InputsBatches'
  BY DEF InputsBatches, InputsTyped, InputsBodies, I!InputsAreFound, InputsRows, I!Pin, I!Fault, I!Body
<1>4. I!InputsAreFound'
  BY DEF I!InputsAreFound, InputsTyped, InputsBodies, InputsBatches, InputsRows, I!Pin, I!Fault, I!Body
<1>5. I!KeysAreBacked'
  BY DEF I!KeysAreBacked, InputsTyped, InputsBodies, InputsBatches, InputsRows, I!Pin, I!Fault, I!Body
<1> QED
  BY <1>1, <1>2, <1>3, <1>4, <1>5

LEMMA InputsList == ASSUME NEW b \in Batches, InputsInv, I!List(b) PROVE InputsInv'
<1> USE DEF InputsInv
<1>1. InputsTyped'
  BY DEF InputsTyped, InputsRows, I!List, I!Fault, I!Body
<1>2. InputsBodies'
  BY DEF InputsBodies, InputsTyped, InputsRows, I!List, I!Fault, I!Body
<1>3. InputsBatches'
  BY DEF InputsBatches, InputsTyped, InputsBodies, I!InputsAreFound, InputsRows, I!List, I!Fault, I!Body
<1>4. I!InputsAreFound'
  BY DEF I!InputsAreFound, InputsTyped, InputsBodies, InputsBatches, InputsRows, I!List, I!Fault, I!Body
<1>5. I!KeysAreBacked'
  BY DEF I!KeysAreBacked, InputsTyped, InputsBodies, InputsBatches, InputsRows, I!List, I!Fault, I!Body
<1> QED
  BY <1>1, <1>2, <1>3, <1>4, <1>5

LEMMA InputsKeys == ASSUME NEW b \in Batches, InputsInv, I!Keys(b) PROVE InputsInv'
<1> USE DEF InputsInv
<1>1. InputsTyped'
  BY ZenonT(60) DEF InputsTyped, InputsRows, I!Keys, I!Fault, I!Body
<1>2. InputsBodies'
  BY DEF InputsBodies, InputsTyped, InputsRows, I!Keys, I!Fault, I!Body
<1>3. InputsBatches'
  BY DEF InputsBatches, InputsTyped, InputsBodies, I!InputsAreFound, InputsRows, I!Keys, I!Fault, I!Body
<1>4. I!InputsAreFound'
  BY DEF I!InputsAreFound, InputsTyped, InputsBodies, InputsBatches, InputsRows, I!Keys, I!Fault, I!Body
<1>5. I!KeysAreBacked'
  <2>1. \A a \in Batches : inputBatch'[a].clear = inputBatch[a].clear /\ inputBatch'[a].runs \subseteq inputBatch[a].runs
    BY DEF InputsTyped, InputsRows, I!Keys
  <2> QED
    BY <2>1 DEF I!KeysAreBacked, I!Keys
<1> QED
  BY <1>1, <1>2, <1>3, <1>4, <1>5

LEMMA InputsDeleteOne == ASSUME NEW b \in Batches, InputsInv, I!DeleteOne(b) PROVE InputsInv'
<1> USE DEF InputsInv
<1>1. InputsTyped'
  BY DEF InputsTyped, InputsRows, I!DeleteOne, I!Fault, I!Body
<1>2. InputsBodies'
  <2>1. PICK r \in inputBatch[b].runs :
          \/ /\ inputs' = inputs \ {r} /\ inputBatch' = [inputBatch EXCEPT ![b].runs = @ \ {r}]
             /\ UNCHANGED swallowed
          \/ /\ swallowed' = swallowed \cup {r} /\ inputBatch' = [inputBatch EXCEPT ![b].runs = @ \ {r}]
             /\ UNCHANGED inputs
          \/ /\ inputBatch' = [inputBatch EXCEPT ![b].runs = @ \ {r}, ![b].clear = @ \ {r}]
             /\ UNCHANGED <<inputs, swallowed>>
    BY DEF I!DeleteOne
  <2>2. \A a \in Batches : inputBatch'[a].clear \subseteq inputBatch[a].clear
    BY SMTT(30), <2>1 DEF InputsTyped, InputsRows
  <2>3. inputs' \subseteq inputs /\ swallowed \subseteq swallowed' /\ UNCHANGED <<inputRows, inputBody>>
    BY DEF I!DeleteOne
  <2>4. \A x \in Runs : inputBody[x] = "set" => x \in inputs' \cup swallowed'
    BY <2>1 DEF InputsBodies, InputsBatches, InputsTyped, InputsRows
  <2> QED
    BY <2>2, <2>3, <2>4 DEF InputsBodies
<1>3. InputsBatches'
  BY DEF InputsBatches, InputsTyped, InputsBodies, I!InputsAreFound, InputsRows, I!DeleteOne, I!Fault, I!Body
<1>4. I!InputsAreFound'
  BY DEF I!InputsAreFound, InputsTyped, InputsBodies, InputsBatches, InputsRows, I!DeleteOne, I!Fault, I!Body
<1>5. I!KeysAreBacked'
  <2>1. PICK r \in inputBatch[b].runs :
          \/ /\ inputs' = inputs \ {r} /\ inputBatch' = [inputBatch EXCEPT ![b].runs = @ \ {r}]
             /\ UNCHANGED swallowed
          \/ /\ swallowed' = swallowed \cup {r} /\ inputBatch' = [inputBatch EXCEPT ![b].runs = @ \ {r}]
             /\ UNCHANGED inputs
          \/ /\ inputBatch' = [inputBatch EXCEPT ![b].runs = @ \ {r}, ![b].clear = @ \ {r}]
             /\ UNCHANGED <<inputs, swallowed>>
    BY DEF I!DeleteOne
  <2>2. UNCHANGED <<inputRows, torn>>
    BY DEF I!DeleteOne
  <2>3. \A a \in Batches :
          inputBatch[a].clear \ inputBatch[a].runs \subseteq inputBatch'[a].clear \ inputBatch'[a].runs
    BY <2>1 DEF InputsTyped, InputsRows
  <2>4. CASE inputs' = inputs \ {r} /\ inputBatch' = [inputBatch EXCEPT ![b].runs = @ \ {r}] /\ UNCHANGED swallowed
    <3>1. r \in inputBatch'[b].clear \ inputBatch'[b].runs
      BY <2>4 DEF InputsTyped, InputsRows, InputsBatches
    <3> QED
      BY <2>2, <2>3, <2>4, <3>1 DEF I!KeysAreBacked
  <2>5. CASE inputs' = inputs /\ swallowed \subseteq swallowed'
    BY <2>2, <2>3, <2>5 DEF I!KeysAreBacked
  <2> QED
    BY <2>1, <2>4, <2>5
<1> QED
  BY <1>1, <1>2, <1>3, <1>4, <1>5

LEMMA InputsDeleted == ASSUME NEW b \in Batches, InputsInv, I!Deleted(b) PROVE InputsInv'
<1> USE DEF InputsInv
<1>1. InputsTyped'
  BY DEF InputsTyped, InputsRows, I!Deleted, I!Fault, I!Body
<1>2. InputsBodies'
  BY DEF InputsBodies, InputsTyped, InputsRows, I!Deleted, I!Fault, I!Body
<1>3. InputsBatches'
  BY DEF InputsBatches, InputsTyped, InputsBodies, I!InputsAreFound, InputsRows, I!Deleted, I!Fault, I!Body
<1>4. I!InputsAreFound'
  BY DEF I!InputsAreFound, InputsTyped, InputsBodies, InputsBatches, InputsRows, I!Deleted, I!Fault, I!Body
<1>5. I!KeysAreBacked'
  BY DEF I!KeysAreBacked, InputsTyped, InputsBodies, InputsBatches, InputsRows, I!Deleted, I!Fault, I!Body
<1> QED
  BY <1>1, <1>2, <1>3, <1>4, <1>5

LEMMA InputsClearChunk == ASSUME NEW b \in Batches, InputsInv, I!ClearChunk(b) PROVE InputsInv'
<1> USE DEF InputsInv
<1>1. InputsTyped'
  <2>1. inputRows' \in [Runs -> InputsRows]
    <3>1. \A r \in Runs : [inputRows[r] EXCEPT !.key = FALSE] \in InputsRows
      BY InputsKeyed DEF InputsTyped
    <3>2. \A r \in Runs : I!Keyed({r}, FALSE) \in [Runs -> InputsRows]
      BY <3>1 DEF InputsTyped, I!Keyed
    <3>3. inputRows' = inputRows \/ \E r \in inputBatch[b].clear : inputRows' = I!Keyed({r}, FALSE)
      BY DEF I!ClearChunk
    <3> QED
      BY <3>2, <3>3 DEF InputsTyped
  <2>2. \E k : inputBatch' = [inputBatch EXCEPT ![b] = k]
    <3>1. CASE inputBatch[b].clear = {}
      BY <3>1 DEF I!ClearChunk
    <3>2. CASE inputBatch[b].clear # {}
      BY <3>2 DEF I!ClearChunk
    <3> QED
      BY <3>1, <3>2
  <2>3. inputBatch'[b] \in [pc : {"idle", "keys", "delete", "clear"}, runs : SUBSET Runs, clear : SUBSET Runs]
    <3>1. CASE inputBatch[b].clear = {}
      BY <3>1 DEF InputsTyped, I!ClearChunk, I!Idle
    <3>2. CASE inputBatch[b].clear # {}
      <4> PICK r \in inputBatch[b].clear : inputBatch' = [inputBatch EXCEPT ![b].clear = @ \ {r}]
        BY <3>2 DEF I!ClearChunk
      <4> QED
        BY DEF InputsTyped
    <3> QED
      BY <3>1, <3>2
  <2>4. inputBatch' \in [Batches -> [pc : {"idle", "keys", "delete", "clear"}, runs : SUBSET Runs, clear : SUBSET Runs]]
    BY <2>2, <2>3 DEF InputsTyped
  <2>5. torn' \subseteq Runs
    <3>1. CASE inputBatch[b].clear = {}
      BY <3>1 DEF InputsTyped, I!ClearChunk
    <3>2. CASE inputBatch[b].clear # {}
      <4> PICK r \in inputBatch[b].clear : torn' = torn \/ torn' = torn \cup {r}
        BY <3>2 DEF I!ClearChunk
      <4> QED
        BY DEF InputsTyped
    <3> QED
      BY <3>1, <3>2
  <2>6. UNCHANGED <<inputs, inputBody, inputReads, swallowed, inputOrphans>>
    BY DEF I!ClearChunk
  <2> QED
    BY <2>1, <2>4, <2>5, <2>6 DEF InputsTyped
<1>2. InputsBodies'
  BY DEF InputsBodies, InputsTyped, InputsRows, I!ClearChunk, I!Keyed, I!Idle, I!Fault, I!Body
<1>3. InputsBatches'
  BY DEF InputsBatches, InputsTyped, InputsBodies, I!InputsAreFound, InputsRows, I!ClearChunk, I!Keyed,
    I!Idle, I!Fault, I!Body
<1>4. I!InputsAreFound'
  BY DEF I!InputsAreFound, InputsTyped, InputsBodies, InputsBatches, InputsRows, I!ClearChunk, I!Keyed,
    I!Idle, I!Fault, I!Body
<1>5. I!KeysAreBacked'
  BY SMTT(30) DEF I!KeysAreBacked, InputsTyped, InputsBodies, InputsBatches, InputsRows, I!ClearChunk, I!Keyed, I!Idle,
    I!Fault, I!Body
<1> QED
  BY <1>1, <1>2, <1>3, <1>4, <1>5

LEMMA InputsRestart == ASSUME InputsInv, I!Restart PROVE InputsInv'
<1> USE DEF InputsInv
<1>a. /\ \A r \in Runs : inputBody'[r] = "none"
      /\ \A b \in Batches : inputBatch'[b] = I!Idle
      /\ inputOrphans' = inputOrphans \cup {r \in Runs : inputBody[r] = "set"}
      /\ torn' = torn \cup UNION {inputBatch[b].clear \ inputBatch[b].runs : b \in Batches}
      /\ inputs' = inputs /\ swallowed' = swallowed /\ inputReads' = {}
  BY DEF I!Restart
<1>b. \A r \in Runs : inputRows'[r].status = "none" <=> inputRows[r].status = "none"
  BY DEF I!Restart, InputsTyped, InputsRows
<1>c. \A r \in Runs : inputRows'[r].key = inputRows[r].key
  <2>1. \A r \in Runs : [inputRows[r] EXCEPT !.status = "ended", !.pinned = FALSE].key = inputRows[r].key
    BY DEF InputsTyped, InputsRows
  <2> QED
    BY <2>1 DEF I!Restart
<1>1. InputsTyped'
  <2>1. inputRows' \in [Runs -> InputsRows]
    BY DEF I!Restart, InputsTyped, InputsRows
  <2>2. inputBody' \in [Runs -> {"none", "persist", "set", "runs"}]
    BY DEF I!Restart
  <2>3. inputBatch' \in [Batches -> [pc : {"idle", "keys", "delete", "clear"}, runs : SUBSET Runs, clear : SUBSET Runs]]
    BY DEF I!Restart, I!Idle
  <2>4. torn' \subseteq Runs
    BY <1>a DEF InputsTyped, InputsRows
  <2> QED
    BY <1>a, <2>1, <2>2, <2>3, <2>4 DEF InputsTyped, InputsRows
<1>2. InputsBodies'
  BY <1>a, <1>b, <1>c DEF InputsBodies, InputsTyped, InputsRows, I!Idle
<1>3. InputsBatches'
  BY DEF InputsBatches, InputsTyped, InputsBodies, I!InputsAreFound, InputsRows, I!Restart, I!Idle, I!Fault,
    I!Body
<1>4. I!InputsAreFound'
  BY <1>a, <1>c DEF I!InputsAreFound, InputsTyped, InputsRows
<1>5. I!KeysAreBacked'
  BY <1>a, <1>c DEF I!KeysAreBacked, InputsTyped, InputsRows
<1> QED
  BY <1>1, <1>2, <1>3, <1>4, <1>5

LEMMA InputsNext == InputsInv /\ [I!Next]_(I!vars) => InputsInv'
<1> SUFFICES ASSUME InputsInv, [I!Next]_(I!vars) PROVE InputsInv'
  OBVIOUS
<1>1. CASE UNCHANGED I!vars
  <2>1. UNCHANGED <<inputRows, inputs, inputBody, inputBatch, inputReads, swallowed, inputOrphans, torn, inputFaults>>
    BY <1>1 DEF I!vars
  <2>2. InputsTyped'
    BY <2>1 DEF InputsInv, InputsTyped, InputsRows
  <2>3. InputsBodies'
    BY <2>1 DEF InputsInv, InputsBodies, InputsTyped, InputsRows
  <2>4. InputsBatches'
    BY <2>1 DEF InputsInv, InputsBatches, InputsTyped, InputsBodies, I!InputsAreFound, InputsRows
  <2>5. I!InputsAreFound'
    BY <2>1 DEF InputsInv, I!InputsAreFound, InputsTyped, InputsBodies, InputsBatches, InputsRows
  <2>6. I!KeysAreBacked'
    BY <2>1 DEF InputsInv, I!KeysAreBacked, InputsTyped, InputsBodies, InputsBatches, InputsRows
  <2> QED
    BY <2>2, <2>3, <2>4, <2>5, <2>6 DEF InputsInv
<1>2. ASSUME NEW r \in Runs,
             I!Fire(r) \/ I!Persist(r) \/ I!SetKey(r) \/ I!Ends(r) \/ I!Read(r) \/ I!Replay(r) \/ I!Pin(r)
      PROVE  InputsInv'
  BY <1>2, InputsFire, InputsPersist, InputsSetKey, InputsEnds, InputsRead, InputsReplay, InputsPin
<1>3. ASSUME NEW b \in Batches,
             I!List(b) \/ I!Keys(b) \/ I!DeleteOne(b) \/ I!Deleted(b) \/ I!ClearChunk(b)
      PROVE  InputsInv'
  BY <1>3, InputsList, InputsKeys, InputsDeleteOne, InputsDeleted, InputsClearChunk
<1> QED
  BY <1>1, <1>2, <1>3, InputsRestart DEF I!Next

LEMMA InputsMean == InputsInv => I!TypeOK /\ I!InputsAreFound /\ I!KeysAreBacked
<1>1. InputsInv => I!TypeOK /\ I!InputsAreFound /\ I!KeysAreBacked
  BY DEF InputsInv, InputsTyped, InputsRows, I!TypeOK
<1> QED
  BY <1>1

\* What PersistInput, the retention sweep and delete_inputs promise, whatever fails.
THEOREM InputsStay == I!Spec => [](I!TypeOK /\ I!InputsAreFound /\ I!KeysAreBacked)
  BY InputsInit, InputsNext, InputsMean, PTL DEF I!Spec

-----------------------------------------------------------------------------
(***************************************************************************)
(* The stored states of suspended runs: ResumeBlobs.                       *)
(***************************************************************************)

BlobParams == {None, B!Secret, B!Mask}
BlobRows == [status : B!Statuses \cup {"none"}, inline : BOOLEAN, key : BOOLEAN, token : BOOLEAN,
             param : BlobParams, root : Runs \cup {None}]
BlobBodies == [pc : {"none", "runs", "stored", "unstore", "fails"}, param : BlobParams]
Resumes == [pc : {"idle", "fetch", "mark", "spawn", "free", "clear"}, run : Runs \cup {None},
            row : BlobRows, param : BlobParams]
BlobCleaners == [pc : {"idle", "pick", "delete", "clear"}, list : SUBSET Runs, run : Runs \cup {None}]
BlobsTyped ==
  /\ blobRows \in [Runs -> BlobRows] /\ blobBody \in [Runs -> BlobBodies]
  /\ resumes \in [Clients -> Resumes] /\ cleaner \in BlobCleaners
  /\ blobs \subseteq Runs /\ blobOrphans \subseteq Runs /\ granted \in BOOLEAN

\* A run is with its goroutine until its row leaves "running", and only then has it a key.
BlobsBodies ==
  \A r \in Runs :
    /\ blobRows[r].status = "none" => blobRows[r] = B!NoRow
    /\ blobBody[r].pc # "none" => blobRows[r].status = "running"
    /\ blobRows[r].status = "running" => ~blobRows[r].key
    /\ blobBody[r].pc = "stored" => r \in blobs

\* A resume that has consumed the token works on a run that is over.
BlobsResumes ==
  \A c \in Clients :
    /\ resumes[c].pc # "idle" => resumes[c].run \in Runs /\ resumes[c].param # B!Mask
    /\ resumes[c].pc \in {"fetch", "mark", "spawn"} => resumes[c].row.key \/ resumes[c].row.inline
    /\ resumes[c].pc \in {"spawn", "free", "clear"} => blobRows[resumes[c].run].status = "resumed"
    /\ resumes[c].pc = "clear" => resumes[c].run \notin blobs

\* The sweep works on runs that are over.
BlobsSwept ==
  /\ \A r \in cleaner.list : blobRows[r].status \in {"resumed", "ended"}
  /\ cleaner.pc \in {"delete", "clear"} =>
       cleaner.run \in Runs /\ blobRows[cleaner.run].status \in {"resumed", "ended"}
  /\ cleaner.pc = "clear" => cleaner.run \notin blobs \ blobOrphans

BlobsInv ==
  /\ BlobsTyped /\ BlobsBodies /\ BlobsResumes /\ BlobsSwept
  /\ B!SuspendedKeepsItsState /\ B!BlobsAreFound /\ B!ContinuesAsItself

LEMMA BlobsNoRow == B!NoRow \in BlobRows
  BY DEF BlobRows, B!NoRow, B!Statuses, BlobParams

LEMMA BlobsNoCall == B!NoCall \in Resumes /\ B!NoCall.pc = "idle"
  BY BlobsNoRow DEF Resumes, B!NoCall, BlobParams

LEMMA BlobsParamCarried == \A v \in BlobParams : B!Carried(v) \in BlobParams
  BY DEF BlobParams, B!Carried

LEMMA BlobsInit == B!Init => BlobsInv
<1> SUFFICES ASSUME B!Init PROVE BlobsInv
  OBVIOUS
<1>1. BlobsTyped
  BY DEF BlobsTyped, B!Init, BlobRows, BlobBodies, Resumes, BlobCleaners, BlobParams, B!NoRow, B!NoCall,
    B!Idle, B!Statuses
<1> QED
  BY <1>1 DEF BlobsInv, BlobsBodies, BlobsResumes, BlobsSwept, B!SuspendedKeepsItsState, B!BlobsAreFound,
    B!ContinuesAsItself, B!Init, B!NoRow, B!NoCall, B!Idle

LEMMA BlobsFire == ASSUME NEW r \in Runs, BlobsInv, B!Fire(r) PROVE BlobsInv'
<1> USE DEF BlobsInv
<1> DEFINE row == [B!NoRow EXCEPT !.status = "running", !.root = r]
<1>a. /\ row \in BlobRows /\ row.status = "running" /\ row.inline = FALSE /\ row.key = FALSE
      /\ row.root = r
  <2> QED
    BY DEF BlobRows, B!Statuses, BlobParams, B!NoRow
<1> DEFINE bod == [pc |-> "runs", param |-> B!Secret]
<1>b. bod \in BlobBodies /\ bod.pc = "runs" /\ bod.param = B!Secret
  <2> QED
    BY DEF BlobBodies, BlobParams
<1>c. /\ blobRows' = [blobRows EXCEPT ![r] = row]
      /\ blobBody' = [blobBody EXCEPT ![r] = bod]
      /\ blobRows[r].status = "none"
      /\ UNCHANGED <<blobs, resumes, cleaner, granted, blobOrphans, empty>>
  BY DEF B!Fire, B!Insert
<1> HIDE DEF row, bod
<1>1. BlobsTyped'
  BY <1>a, <1>b, <1>c DEF BlobsTyped
<1>2. BlobsBodies'
  BY <1>a, <1>b, <1>c DEF BlobsBodies, BlobsTyped, BlobsResumes, BlobsSwept, B!NoRow
<1>3. BlobsResumes'
  BY <1>a, <1>b, <1>c DEF BlobsResumes, BlobsTyped, BlobsBodies
<1>4. BlobsSwept'
  BY <1>a, <1>b, <1>c DEF BlobsSwept, BlobsTyped, BlobsBodies, B!NoRow
<1>5. B!SuspendedKeepsItsState'
  BY <1>a, <1>b, <1>c DEF B!SuspendedKeepsItsState, BlobsTyped, BlobsBodies, BlobsResumes, BlobsSwept
<1>6. B!BlobsAreFound'
  BY <1>a, <1>b, <1>c DEF B!BlobsAreFound, BlobsTyped, BlobsBodies, BlobsResumes, BlobsSwept, B!NoRow
<1>7. B!ContinuesAsItself'
  BY <1>a, <1>b, <1>c DEF B!ContinuesAsItself, BlobsTyped, BlobsBodies, BlobsResumes, B!NoRow, B!Secret, B!Mask
<1> QED
  BY <1>1, <1>2, <1>3, <1>4, <1>5, <1>6, <1>7

LEMMA BlobsEnds == ASSUME NEW r \in Runs, BlobsInv, B!Ends(r) PROVE BlobsInv'
<1> USE DEF BlobsInv
<1> DEFINE row == [blobRows[r] EXCEPT !.status = "ended"]
<1>a. /\ row \in BlobRows /\ row.status = "ended" /\ row.inline = blobRows[r].inline
      /\ row.key = blobRows[r].key /\ row.token = blobRows[r].token
      /\ row.param = blobRows[r].param /\ row.root = blobRows[r].root
  <2>1. blobRows[r] \in BlobRows
    BY DEF BlobsTyped
  <2> QED
    BY <2>1 DEF BlobRows, B!Statuses, BlobParams
<1> DEFINE bod == [blobBody[r] EXCEPT !.pc = "none"]
<1>b. bod \in BlobBodies /\ bod.pc = "none" /\ bod.param = blobBody[r].param
  <2>1. blobBody[r] \in BlobBodies
    BY DEF BlobsTyped
  <2> QED
    BY <2>1 DEF BlobBodies
<1>c. /\ blobRows' = [blobRows EXCEPT ![r] = row]
      /\ blobBody' = [blobBody EXCEPT ![r] = bod]
      /\ blobBody[r].pc = "runs"
      /\ UNCHANGED <<blobs, resumes, cleaner, granted, blobOrphans, empty>>
  BY DEF B!Ends
<1> HIDE DEF row, bod
<1>1. BlobsTyped'
  BY <1>a, <1>b, <1>c DEF BlobsTyped
<1>2. BlobsBodies'
  BY <1>a, <1>b, <1>c DEF BlobsBodies, BlobsTyped, BlobsResumes, BlobsSwept
<1>3. BlobsResumes'
  BY <1>a, <1>b, <1>c DEF BlobsResumes, BlobsTyped, BlobsBodies
<1>4. BlobsSwept'
  BY <1>a, <1>b, <1>c DEF BlobsSwept, BlobsTyped, BlobsBodies
<1>5. B!SuspendedKeepsItsState'
  BY <1>a, <1>b, <1>c DEF B!SuspendedKeepsItsState, BlobsTyped, BlobsBodies, BlobsResumes, BlobsSwept
<1>6. B!BlobsAreFound'
  BY <1>a, <1>b, <1>c DEF B!BlobsAreFound, BlobsTyped, BlobsBodies, BlobsResumes, BlobsSwept
<1>7. B!ContinuesAsItself'
  BY <1>a, <1>b, <1>c DEF B!ContinuesAsItself, BlobsTyped, BlobsBodies, BlobsResumes
<1> QED
  BY <1>1, <1>2, <1>3, <1>4, <1>5, <1>6, <1>7

LEMMA BlobsSuspendInline == ASSUME NEW r \in Runs, BlobsInv, B!SuspendInline(r) PROVE BlobsInv'
<1> USE DEF BlobsInv
<1> DEFINE row == [blobRows[r] EXCEPT !.status = "suspended", !.inline = TRUE, !.token = TRUE, !.param = B!Carried(blobBody[r].param)]
<1>a. /\ row \in BlobRows /\ row.status = "suspended" /\ row.inline = TRUE
      /\ row.key = blobRows[r].key /\ row.token = TRUE /\ row.param = B!Carried(blobBody[r].param)
      /\ row.root = blobRows[r].root
  <2>1. blobRows[r] \in BlobRows
    BY DEF BlobsTyped
  <2>2. B!Carried(blobBody[r].param) \in BlobParams
    BY BlobsParamCarried DEF BlobsTyped, BlobBodies
  <2> QED
    BY <2>1, <2>2 DEF BlobRows, B!Statuses, BlobParams
<1> DEFINE bod == [blobBody[r] EXCEPT !.pc = "none"]
<1>b. bod \in BlobBodies /\ bod.pc = "none" /\ bod.param = blobBody[r].param
  <2>1. blobBody[r] \in BlobBodies
    BY DEF BlobsTyped
  <2> QED
    BY <2>1 DEF BlobBodies
<1>c. /\ blobRows' = [blobRows EXCEPT ![r] = row]
      /\ blobBody' = [blobBody EXCEPT ![r] = bod]
      /\ blobBody[r].pc = "runs"
      /\ UNCHANGED <<blobs, resumes, cleaner, granted, blobOrphans, empty>>
  BY DEF B!SuspendInline
<1> HIDE DEF row, bod
<1>1. BlobsTyped'
  BY <1>a, <1>b, <1>c DEF BlobsTyped
<1>2. BlobsBodies'
  BY <1>a, <1>b, <1>c DEF BlobsBodies, BlobsTyped, BlobsResumes, BlobsSwept
<1>3. BlobsResumes'
  BY <1>a, <1>b, <1>c DEF BlobsResumes, BlobsTyped, BlobsBodies
<1>4. BlobsSwept'
  BY <1>a, <1>b, <1>c DEF BlobsSwept, BlobsTyped, BlobsBodies
<1>5. B!SuspendedKeepsItsState'
  BY <1>a, <1>b, <1>c DEF B!SuspendedKeepsItsState, BlobsTyped, BlobsBodies, BlobsResumes, BlobsSwept
<1>6. B!BlobsAreFound'
  BY <1>a, <1>b, <1>c DEF B!BlobsAreFound, BlobsTyped, BlobsBodies, BlobsResumes, BlobsSwept
<1>7. B!ContinuesAsItself'
  BY <1>a, <1>b, <1>c DEF B!ContinuesAsItself, BlobsTyped, BlobsBodies, BlobsResumes
<1> QED
  BY <1>1, <1>2, <1>3, <1>4, <1>5, <1>6, <1>7

LEMMA BlobsOffload == ASSUME NEW r \in Runs, BlobsInv, B!Offload(r) PROVE BlobsInv'
<1> USE DEF BlobsInv
<1> DEFINE whole == [pc |-> "stored", param |-> B!Carried(blobBody[r].param)]
<1>a. whole \in BlobBodies /\ whole.pc = "stored" /\ whole.param = B!Carried(blobBody[r].param)
  <2>1. B!Carried(blobBody[r].param) \in BlobParams
    BY BlobsParamCarried DEF BlobsTyped, BlobBodies
  <2> QED
    BY <2>1 DEF BlobBodies
<1> DEFINE fails == [blobBody[r] EXCEPT !.pc = "fails"]
<1>b. fails \in BlobBodies /\ fails.pc = "fails" /\ fails.param = blobBody[r].param
  <2>1. blobBody[r] \in BlobBodies
    BY DEF BlobsTyped
  <2> QED
    BY <2>1 DEF BlobBodies
<1>c. /\ \/ /\ blobs' = blobs \cup {r} /\ blobBody' = [blobBody EXCEPT ![r] = whole] /\ UNCHANGED blobOrphans
         \/ /\ \/ UNCHANGED <<blobs, blobOrphans>>
               \/ blobs' = blobs \cup {r} /\ blobOrphans' = blobOrphans \cup {r}
            /\ blobBody' = [blobBody EXCEPT ![r] = fails]
      /\ blobBody[r].pc = "runs"
      /\ UNCHANGED <<blobRows, resumes, cleaner, granted, empty>>
  BY DEF B!Offload, BlobsTyped
<1> HIDE DEF whole, fails
<1>1. BlobsTyped'
  BY <1>a, <1>b, <1>c DEF BlobsTyped
<1>2. BlobsBodies'
  BY <1>a, <1>b, <1>c DEF BlobsBodies, BlobsTyped, BlobsResumes, BlobsSwept
<1>3. BlobsResumes'
  BY <1>a, <1>b, <1>c DEF BlobsResumes, BlobsTyped, BlobsBodies
<1>4. BlobsSwept'
  BY <1>a, <1>b, <1>c DEF BlobsSwept, BlobsTyped, BlobsBodies
<1>5. B!SuspendedKeepsItsState'
  BY <1>a, <1>b, <1>c DEF B!SuspendedKeepsItsState, BlobsTyped, BlobsBodies, BlobsResumes, BlobsSwept
<1>6. B!BlobsAreFound'
  BY <1>a, <1>b, <1>c DEF B!BlobsAreFound, BlobsTyped, BlobsBodies, BlobsResumes, BlobsSwept
<1>7. B!ContinuesAsItself'
  BY <1>a, <1>b, <1>c DEF B!ContinuesAsItself, BlobsTyped, BlobsBodies, BlobsResumes
<1> QED
  BY <1>1, <1>2, <1>3, <1>4, <1>5, <1>6, <1>7

LEMMA BlobsSuspendRow == ASSUME NEW r \in Runs, BlobsInv, B!SuspendRow(r) PROVE BlobsInv'
<1> USE DEF BlobsInv
<1> DEFINE row == [blobRows[r] EXCEPT !.status = "suspended", !.key = TRUE, !.token = TRUE, !.param = blobBody[r].param]
<1>a. /\ row \in BlobRows /\ row.status = "suspended" /\ row.inline = blobRows[r].inline
      /\ row.key = TRUE /\ row.token = TRUE /\ row.param = blobBody[r].param
      /\ row.root = blobRows[r].root
  <2>1. blobRows[r] \in BlobRows
    BY DEF BlobsTyped
  <2>2. blobBody[r].param \in BlobParams
    BY DEF BlobsTyped, BlobBodies
  <2> QED
    BY <2>1, <2>2 DEF BlobRows, B!Statuses
<1> DEFINE bod == [blobBody[r] EXCEPT !.pc = "none"]
<1>b. bod \in BlobBodies /\ bod.pc = "none" /\ bod.param = blobBody[r].param
  <2>1. blobBody[r] \in BlobBodies
    BY DEF BlobsTyped
  <2> QED
    BY <2>1 DEF BlobBodies
<1> DEFINE unstored == [blobBody[r] EXCEPT !.pc = "unstore"]
<1>c. unstored \in BlobBodies /\ unstored.pc = "unstore" /\ unstored.param = blobBody[r].param
  <2>1. blobBody[r] \in BlobBodies
    BY DEF BlobsTyped
  <2> QED
    BY <2>1 DEF BlobBodies
<1>d. /\ \/ blobRows' = [blobRows EXCEPT ![r] = row] /\ blobBody' = [blobBody EXCEPT ![r] = bod]
         \/ blobBody' = [blobBody EXCEPT ![r] = unstored] /\ UNCHANGED blobRows
      /\ blobBody[r].pc = "stored"
      /\ UNCHANGED <<blobs, resumes, cleaner, granted, blobOrphans, empty>>
  BY DEF B!SuspendRow
<1> HIDE DEF row, bod, unstored
<1>1. BlobsTyped'
  BY <1>a, <1>b, <1>c, <1>d DEF BlobsTyped
<1>2. BlobsBodies'
  BY <1>a, <1>b, <1>c, <1>d DEF BlobsBodies, BlobsTyped, BlobsResumes, BlobsSwept
<1>3. BlobsResumes'
  BY <1>a, <1>b, <1>c, <1>d DEF BlobsResumes, BlobsTyped, BlobsBodies
<1>4. BlobsSwept'
  <2>1. CASE blobRows' = [blobRows EXCEPT ![r] = row] /\ blobBody' = [blobBody EXCEPT ![r] = bod]
    BY <1>a, <1>b, <1>c, <1>d, <2>1 DEF BlobsSwept, BlobsTyped, BlobsBodies
  <2>2. CASE blobBody' = [blobBody EXCEPT ![r] = unstored] /\ UNCHANGED blobRows
    BY <1>a, <1>b, <1>c, <1>d, <2>2 DEF BlobsSwept, BlobsTyped, BlobsBodies
  <2> QED
    BY <1>d, <2>1, <2>2
<1>5. B!SuspendedKeepsItsState'
  BY <1>a, <1>b, <1>c, <1>d DEF B!SuspendedKeepsItsState, BlobsTyped, BlobsBodies, BlobsResumes, BlobsSwept
<1>6. B!BlobsAreFound'
  BY <1>a, <1>b, <1>c, <1>d DEF B!BlobsAreFound, BlobsTyped, BlobsBodies, BlobsResumes, BlobsSwept
<1>7. B!ContinuesAsItself'
  <2>1. CASE blobRows' = [blobRows EXCEPT ![r] = row] /\ blobBody' = [blobBody EXCEPT ![r] = bod]
    BY <1>a, <1>b, <1>c, <1>d, <2>1 DEF B!ContinuesAsItself, BlobsTyped, BlobsBodies, BlobsResumes
  <2>2. CASE blobBody' = [blobBody EXCEPT ![r] = unstored] /\ UNCHANGED blobRows
    BY <1>a, <1>b, <1>c, <1>d, <2>2 DEF B!ContinuesAsItself, BlobsTyped, BlobsBodies, BlobsResumes
  <2> QED
    BY <1>d, <2>1, <2>2
<1> QED
  BY <1>1, <1>2, <1>3, <1>4, <1>5, <1>6, <1>7

LEMMA BlobsUnstore == ASSUME NEW r \in Runs, BlobsInv, B!Unstore(r) PROVE BlobsInv'
<1> USE DEF BlobsInv
<1> DEFINE bod == [blobBody[r] EXCEPT !.pc = "fails"]
<1>a. bod \in BlobBodies /\ bod.pc = "fails" /\ bod.param = blobBody[r].param
  <2>1. blobBody[r] \in BlobBodies
    BY DEF BlobsTyped
  <2> QED
    BY <2>1 DEF BlobBodies
<1>b. /\ blobBody' = [blobBody EXCEPT ![r] = bod]
      /\ \/ blobs' = blobs \ {r} /\ UNCHANGED blobOrphans
         \/ blobOrphans' = blobOrphans \cup {r} /\ UNCHANGED blobs
      /\ blobBody[r].pc = "unstore"
      /\ UNCHANGED <<blobRows, resumes, cleaner, granted, empty>>
  BY DEF B!Unstore
<1> HIDE DEF bod
<1>1. BlobsTyped'
  BY <1>a, <1>b DEF BlobsTyped
<1>2. BlobsBodies'
  BY <1>a, <1>b DEF BlobsBodies, BlobsTyped, BlobsResumes, BlobsSwept
<1>3. BlobsResumes'
  BY <1>a, <1>b DEF BlobsResumes, BlobsTyped, BlobsBodies
<1>4. BlobsSwept'
  BY <1>a, <1>b DEF BlobsSwept, BlobsTyped, BlobsBodies
<1>5. B!SuspendedKeepsItsState'
  BY <1>a, <1>b DEF B!SuspendedKeepsItsState, BlobsTyped, BlobsBodies, BlobsResumes, BlobsSwept
<1>6. B!BlobsAreFound'
  BY <1>a, <1>b DEF B!BlobsAreFound, BlobsTyped, BlobsBodies, BlobsResumes, BlobsSwept
<1>7. B!ContinuesAsItself'
  BY <1>a, <1>b DEF B!ContinuesAsItself, BlobsTyped, BlobsBodies, BlobsResumes
<1> QED
  BY <1>1, <1>2, <1>3, <1>4, <1>5, <1>6, <1>7

LEMMA BlobsSuspendFails == ASSUME NEW r \in Runs, BlobsInv, B!SuspendFails(r) PROVE BlobsInv'
<1> USE DEF BlobsInv
<1> DEFINE row == [blobRows[r] EXCEPT !.status = "ended"]
<1>a. /\ row \in BlobRows /\ row.status = "ended" /\ row.inline = blobRows[r].inline
      /\ row.key = blobRows[r].key /\ row.token = blobRows[r].token
      /\ row.param = blobRows[r].param /\ row.root = blobRows[r].root
  <2>1. blobRows[r] \in BlobRows
    BY DEF BlobsTyped
  <2> QED
    BY <2>1 DEF BlobRows, B!Statuses, BlobParams
<1> DEFINE bod == [blobBody[r] EXCEPT !.pc = "none"]
<1>b. bod \in BlobBodies /\ bod.pc = "none" /\ bod.param = blobBody[r].param
  <2>1. blobBody[r] \in BlobBodies
    BY DEF BlobsTyped
  <2> QED
    BY <2>1 DEF BlobBodies
<1>c. /\ blobRows' = [blobRows EXCEPT ![r] = row]
      /\ blobBody' = [blobBody EXCEPT ![r] = bod]
      /\ blobBody[r].pc = "fails"
      /\ UNCHANGED <<blobs, resumes, cleaner, granted, blobOrphans, empty>>
  BY DEF B!SuspendFails
<1> HIDE DEF row, bod
<1>1. BlobsTyped'
  BY <1>a, <1>b, <1>c DEF BlobsTyped
<1>2. BlobsBodies'
  BY <1>a, <1>b, <1>c DEF BlobsBodies, BlobsTyped, BlobsResumes, BlobsSwept
<1>3. BlobsResumes'
  BY <1>a, <1>b, <1>c DEF BlobsResumes, BlobsTyped, BlobsBodies
<1>4. BlobsSwept'
  BY <1>a, <1>b, <1>c DEF BlobsSwept, BlobsTyped, BlobsBodies
<1>5. B!SuspendedKeepsItsState'
  BY <1>a, <1>b, <1>c DEF B!SuspendedKeepsItsState, BlobsTyped, BlobsBodies, BlobsResumes, BlobsSwept
<1>6. B!BlobsAreFound'
  BY <1>a, <1>b, <1>c DEF B!BlobsAreFound, BlobsTyped, BlobsBodies, BlobsResumes, BlobsSwept
<1>7. B!ContinuesAsItself'
  BY <1>a, <1>b, <1>c DEF B!ContinuesAsItself, BlobsTyped, BlobsBodies, BlobsResumes
<1> QED
  BY <1>1, <1>2, <1>3, <1>4, <1>5, <1>6, <1>7

LEMMA BlobsExpire == ASSUME NEW r \in Runs, BlobsInv, B!Expire(r) PROVE BlobsInv'
<1> USE DEF BlobsInv
<1> DEFINE row == [blobRows[r] EXCEPT !.status = "ended"]
<1>a. /\ row \in BlobRows /\ row.status = "ended" /\ row.inline = blobRows[r].inline
      /\ row.key = blobRows[r].key /\ row.token = blobRows[r].token
      /\ row.param = blobRows[r].param /\ row.root = blobRows[r].root
  <2>1. blobRows[r] \in BlobRows
    BY DEF BlobsTyped
  <2> QED
    BY <2>1 DEF BlobRows, B!Statuses, BlobParams
<1>b. /\ blobRows' = [blobRows EXCEPT ![r] = row]
      /\ blobRows[r].status = "suspended"
      /\ UNCHANGED <<blobs, blobBody, resumes, cleaner, granted, blobOrphans, empty>>
  BY DEF B!Expire
<1> HIDE DEF row
<1>1. BlobsTyped'
  BY <1>a, <1>b DEF BlobsTyped
<1>2. BlobsBodies'
  BY <1>a, <1>b DEF BlobsBodies, BlobsTyped, BlobsResumes, BlobsSwept
<1>3. BlobsResumes'
  BY <1>a, <1>b DEF BlobsResumes, BlobsTyped, BlobsBodies
<1>4. BlobsSwept'
  BY <1>a, <1>b DEF BlobsSwept, BlobsTyped, BlobsBodies
<1>5. B!SuspendedKeepsItsState'
  BY <1>a, <1>b DEF B!SuspendedKeepsItsState, BlobsTyped, BlobsBodies, BlobsResumes, BlobsSwept
<1>6. B!BlobsAreFound'
  BY <1>a, <1>b DEF B!BlobsAreFound, BlobsTyped, BlobsBodies, BlobsResumes, BlobsSwept
<1>7. B!ContinuesAsItself'
  BY <1>a, <1>b DEF B!ContinuesAsItself, BlobsTyped, BlobsBodies, BlobsResumes
<1> QED
  BY <1>1, <1>2, <1>3, <1>4, <1>5, <1>6, <1>7

LEMMA BlobsCancelSuspended == ASSUME NEW r \in Runs, BlobsInv, B!CancelSuspended(r) PROVE BlobsInv'
<1> USE DEF BlobsInv
<1> DEFINE row == [blobRows[r] EXCEPT !.status = "ended", !.token = FALSE]
<1>a. /\ row \in BlobRows /\ row.status = "ended" /\ row.inline = blobRows[r].inline
      /\ row.key = blobRows[r].key /\ row.token = FALSE /\ row.param = blobRows[r].param
      /\ row.root = blobRows[r].root
  <2>1. blobRows[r] \in BlobRows
    BY DEF BlobsTyped
  <2> QED
    BY <2>1 DEF BlobRows, B!Statuses, BlobParams
<1>b. /\ blobRows' = [blobRows EXCEPT ![r] = row]
      /\ blobRows[r].status = "suspended"
      /\ UNCHANGED <<blobs, blobBody, resumes, cleaner, granted, blobOrphans, empty>>
  BY DEF B!CancelSuspended
<1> HIDE DEF row
<1>1. BlobsTyped'
  BY <1>a, <1>b DEF BlobsTyped
<1>2. BlobsBodies'
  BY <1>a, <1>b DEF BlobsBodies, BlobsTyped, BlobsResumes, BlobsSwept
<1>3. BlobsResumes'
  BY <1>a, <1>b DEF BlobsResumes, BlobsTyped, BlobsBodies
<1>4. BlobsSwept'
  BY <1>a, <1>b DEF BlobsSwept, BlobsTyped, BlobsBodies
<1>5. B!SuspendedKeepsItsState'
  BY <1>a, <1>b DEF B!SuspendedKeepsItsState, BlobsTyped, BlobsBodies, BlobsResumes, BlobsSwept
<1>6. B!BlobsAreFound'
  BY <1>a, <1>b DEF B!BlobsAreFound, BlobsTyped, BlobsBodies, BlobsResumes, BlobsSwept
<1>7. B!ContinuesAsItself'
  BY <1>a, <1>b DEF B!ContinuesAsItself, BlobsTyped, BlobsBodies, BlobsResumes
<1> QED
  BY <1>1, <1>2, <1>3, <1>4, <1>5, <1>6, <1>7

LEMMA BlobsFind == ASSUME NEW c \in Clients, NEW r \in Runs, BlobsInv, B!Find(c, r) PROVE BlobsInv'
<1> USE DEF BlobsInv
<1>p. PICK p \in {"fetch", "mark"} : p = IF blobRows[r].key THEN "fetch" ELSE "mark"
  OBVIOUS
<1>v. PICK v \in BlobParams : v = IF blobRows[r].param = B!Mask THEN B!Secret ELSE blobRows[r].param
  <2>1. blobRows[r] \in BlobRows
    BY DEF BlobsTyped
  <2>2. blobRows[r].param \in BlobParams /\ B!Secret \in BlobParams
    BY <2>1 DEF BlobRows, BlobParams
  <2> QED
    BY <2>2
<1> DEFINE call == [pc |-> p, run |-> r, row |-> blobRows[r], param |-> v]
<1>a. /\ call \in Resumes /\ call.pc = p /\ call.run = r /\ call.row = blobRows[r]
      /\ call.param = v
  <2>1. blobRows[r] \in BlobRows
    BY DEF BlobsTyped
  <2> QED
    BY <2>1 DEF Resumes
<1>b. /\ resumes' = [resumes EXCEPT ![c] = call]
      /\ blobRows[r].status = "suspended" /\ v # B!Mask
      /\ UNCHANGED <<blobRows, blobs, blobBody, cleaner, granted, blobOrphans, empty>>
  BY <1>p, <1>v DEF B!Find, B!Mask, B!Secret
<1> HIDE DEF call
<1>1. BlobsTyped'
  BY <1>a, <1>b DEF BlobsTyped
<1>2. BlobsBodies'
  BY <1>a, <1>b DEF BlobsBodies, BlobsTyped, BlobsResumes, BlobsSwept
<1>3. BlobsResumes'
  <2>1. call.row.key \/ call.row.inline
    BY <1>a, <1>b DEF B!SuspendedKeepsItsState
  <2>2. \A d \in Clients : resumes'[d] = IF d = c THEN call ELSE resumes[d]
    BY <1>b DEF BlobsTyped
  <2> QED
    BY <1>a, <1>b, <2>1, <2>2 DEF BlobsResumes
<1>4. BlobsSwept'
  BY <1>a, <1>b DEF BlobsSwept, BlobsTyped, BlobsBodies
<1>5. B!SuspendedKeepsItsState'
  BY <1>a, <1>b DEF B!SuspendedKeepsItsState, BlobsTyped, BlobsBodies, BlobsResumes, BlobsSwept
<1>6. B!BlobsAreFound'
  BY <1>a, <1>b DEF B!BlobsAreFound, BlobsTyped, BlobsBodies, BlobsResumes, BlobsSwept
<1>7. B!ContinuesAsItself'
  BY <1>a, <1>b DEF B!ContinuesAsItself, BlobsTyped, BlobsBodies, BlobsResumes
<1> QED
  BY <1>1, <1>2, <1>3, <1>4, <1>5, <1>6, <1>7

LEMMA BlobsFetch == ASSUME NEW c \in Clients, BlobsInv, B!Fetch(c) PROVE BlobsInv'
<1> USE DEF BlobsInv
<1> DEFINE mark == [resumes[c] EXCEPT !.pc = "mark"]
<1>a. /\ mark \in Resumes /\ mark.pc = "mark" /\ mark.run = resumes[c].run
      /\ mark.row = resumes[c].row /\ mark.param = resumes[c].param
  <2>1. resumes[c] \in Resumes
    BY DEF BlobsTyped
  <2> QED
    BY <2>1 DEF Resumes
<1>b. /\ \/ resumes' = [resumes EXCEPT ![c] = mark]
         \/ resumes' = [resumes EXCEPT ![c] = B!NoCall]
      /\ resumes[c].pc = "fetch"
      /\ UNCHANGED <<blobRows, blobs, blobBody, cleaner, granted, blobOrphans, empty>>
  BY DEF B!Fetch, B!To
<1> HIDE DEF mark
<1>1. BlobsTyped'
  BY BlobsNoCall, <1>a, <1>b DEF BlobsTyped
<1>2. BlobsBodies'
  BY BlobsNoCall, <1>a, <1>b DEF BlobsBodies, BlobsTyped, BlobsResumes, BlobsSwept
<1>3. BlobsResumes'
  BY BlobsNoCall, <1>a, <1>b DEF BlobsResumes, BlobsTyped, BlobsBodies
<1>4. BlobsSwept'
  BY BlobsNoCall, <1>a, <1>b DEF BlobsSwept, BlobsTyped, BlobsBodies
<1>5. B!SuspendedKeepsItsState'
  BY BlobsNoCall, <1>a, <1>b DEF B!SuspendedKeepsItsState, BlobsTyped, BlobsBodies, BlobsResumes, BlobsSwept
<1>6. B!BlobsAreFound'
  BY BlobsNoCall, <1>a, <1>b DEF B!BlobsAreFound, BlobsTyped, BlobsBodies, BlobsResumes, BlobsSwept
<1>7. B!ContinuesAsItself'
  BY BlobsNoCall, <1>a, <1>b DEF B!ContinuesAsItself, BlobsTyped, BlobsBodies, BlobsResumes
<1> QED
  BY <1>1, <1>2, <1>3, <1>4, <1>5, <1>6, <1>7

LEMMA BlobsMark == ASSUME NEW c \in Clients, BlobsInv, B!Mark(c) PROVE BlobsInv'
<1> USE DEF BlobsInv
<1> PICK r \in Runs : r = resumes[c].run
  BY DEF BlobsResumes, B!Mark
<1> DEFINE row == [blobRows[r] EXCEPT !.status = "resumed"]
<1>a. /\ row \in BlobRows /\ row.status = "resumed" /\ row.inline = blobRows[r].inline
      /\ row.key = blobRows[r].key /\ row.token = blobRows[r].token
      /\ row.param = blobRows[r].param /\ row.root = blobRows[r].root
  <2>1. blobRows[r] \in BlobRows
    BY DEF BlobsTyped
  <2> QED
    BY <2>1 DEF BlobRows, B!Statuses
<1> DEFINE spawn == [resumes[c] EXCEPT !.pc = "spawn"]
<1>b. /\ spawn \in Resumes /\ spawn.pc = "spawn" /\ spawn.run = resumes[c].run
      /\ spawn.row = resumes[c].row /\ spawn.param = resumes[c].param
  <2>1. resumes[c] \in Resumes
    BY DEF BlobsTyped
  <2> QED
    BY <2>1 DEF Resumes
<1>c. /\ \/ /\ blobRows[r].status = "suspended" /\ blobRows' = [blobRows EXCEPT ![r] = row]
            /\ resumes' = [resumes EXCEPT ![c] = spawn]
         \/ resumes' = [resumes EXCEPT ![c] = B!NoCall] /\ UNCHANGED blobRows
      /\ resumes[c].pc = "mark" /\ r = resumes[c].run
      /\ UNCHANGED <<blobs, blobBody, cleaner, granted, blobOrphans, empty>>
  BY DEF B!Mark, B!To
<1> HIDE DEF row, spawn
<1>1. BlobsTyped'
  BY BlobsNoCall, <1>a, <1>b, <1>c DEF BlobsTyped
<1>2. BlobsBodies'
  BY BlobsNoCall, <1>a, <1>b, <1>c DEF BlobsBodies, BlobsTyped, BlobsResumes, BlobsSwept
<1>3. BlobsResumes'
  BY BlobsNoCall, <1>a, <1>b, <1>c DEF BlobsResumes, BlobsTyped, BlobsBodies
<1>4. BlobsSwept'
  <2>1. CASE blobRows[r].status = "suspended" /\ blobRows' = [blobRows EXCEPT ![r] = row]
    BY BlobsNoCall, <1>a, <1>b, <1>c, <2>1 DEF BlobsSwept, BlobsTyped, BlobsBodies
  <2>2. CASE UNCHANGED blobRows
    BY BlobsNoCall, <1>a, <1>b, <1>c, <2>2 DEF BlobsSwept, BlobsTyped, BlobsBodies
  <2> QED
    BY <1>c, <2>1, <2>2
<1>5. B!SuspendedKeepsItsState'
  BY BlobsNoCall, <1>a, <1>b, <1>c DEF B!SuspendedKeepsItsState, BlobsTyped, BlobsBodies, BlobsResumes,
    BlobsSwept
<1>6. B!BlobsAreFound'
  BY BlobsNoCall, <1>a, <1>b, <1>c DEF B!BlobsAreFound, BlobsTyped, BlobsBodies, BlobsResumes, BlobsSwept
<1>7. B!ContinuesAsItself'
  <2>1. CASE blobRows[r].status = "suspended" /\ blobRows' = [blobRows EXCEPT ![r] = row]
    BY BlobsNoCall, <1>a, <1>b, <1>c, <2>1 DEF B!ContinuesAsItself, BlobsTyped, BlobsBodies, BlobsResumes
  <2>2. CASE UNCHANGED blobRows
    BY BlobsNoCall, <1>a, <1>b, <1>c, <2>2 DEF B!ContinuesAsItself, BlobsTyped, BlobsBodies, BlobsResumes
  <2> QED
    BY <1>c, <2>1, <2>2
<1> QED
  BY <1>1, <1>2, <1>3, <1>4, <1>5, <1>6, <1>7

LEMMA BlobsSpawn == ASSUME NEW c \in Clients, BlobsInv, B!Spawn(c) PROVE BlobsInv'
<1> USE DEF BlobsInv
<1>s. /\ resumes[c].pc = "spawn" /\ resumes[c].run \in Runs
      /\ resumes[c].row.key \/ resumes[c].row.inline
  BY DEF B!Spawn, BlobsResumes
<1>t. PICK n \in Runs :
        /\ \/ /\ blobRows[n].status = "none"
              /\ blobRows' = B!Insert(n, resumes[c].run)
              /\ blobBody' = [blobBody EXCEPT ![n] = [pc |-> "runs", param |-> resumes[c].param]]
              /\ empty' = empty
              /\ resumes' = B!To(c, "free") \/ resumes' = [resumes EXCEPT ![c] = B!NoCall]
           \/ resumes' = [resumes EXCEPT ![c] = B!NoCall] /\ UNCHANGED <<blobRows, blobBody, empty>>
        /\ UNCHANGED <<blobs, cleaner, granted, blobOrphans>>
  BY <1>s DEF B!Spawn
<1> DEFINE row == [B!NoRow EXCEPT !.status = "running", !.root = IF resumes[c].run = None THEN n ELSE blobRows[resumes[c].run].root]
<1>a. /\ row \in BlobRows /\ row.status = "running" /\ row.inline = FALSE /\ row.key = FALSE
      /\ row.root = IF resumes[c].run = None THEN n ELSE blobRows[resumes[c].run].root
  <2>1. (IF resumes[c].run = None THEN n ELSE blobRows[resumes[c].run].root) \in Runs \cup {None}
    BY <1>s DEF BlobsResumes, BlobsTyped, BlobRows
  <2> QED
    BY <2>1 DEF BlobRows, B!Statuses, BlobParams, B!NoRow
<1> DEFINE bod == [pc |-> "runs", param |-> resumes[c].param]
<1>b. bod \in BlobBodies /\ bod.pc = "runs" /\ bod.param = resumes[c].param
  <2>1. resumes[c].param \in BlobParams
    BY DEF BlobsTyped, Resumes
  <2> QED
    BY <2>1 DEF BlobBodies, BlobParams
<1> DEFINE free == [resumes[c] EXCEPT !.pc = "free"]
<1>c. /\ free \in Resumes /\ free.pc = "free" /\ free.run = resumes[c].run
      /\ free.row = resumes[c].row /\ free.param = resumes[c].param
  <2>1. resumes[c] \in Resumes
    BY DEF BlobsTyped
  <2> QED
    BY <2>1 DEF Resumes
<1>d. /\ \/ /\ blobRows[n].status = "none" /\ blobRows' = [blobRows EXCEPT ![n] = row]
            /\ blobBody' = [blobBody EXCEPT ![n] = bod] /\ empty' = empty
            /\ resumes' = [resumes EXCEPT ![c] = free] \/ resumes' = [resumes EXCEPT ![c] = B!NoCall]
         \/ resumes' = [resumes EXCEPT ![c] = B!NoCall] /\ UNCHANGED <<blobRows, blobBody, empty>>
      /\ resumes[c].pc = "spawn"
      /\ UNCHANGED <<blobs, cleaner, granted, blobOrphans>>
  BY <1>s, <1>t DEF B!Insert, B!To
<1> HIDE DEF row, bod, free
<1>1. BlobsTyped'
  BY <1>s, BlobsNoCall, <1>a, <1>b, <1>c, <1>d DEF BlobsTyped
<1>2. BlobsBodies'
  <2>1. CASE /\ blobRows[n].status = "none" /\ blobRows' = [blobRows EXCEPT ![n] = row]
             /\ blobBody' = [blobBody EXCEPT ![n] = bod]
    BY <1>s, BlobsNoCall, <1>a, <1>b, <1>c, <1>d, <2>1 DEF BlobsBodies, BlobsTyped, BlobsResumes, BlobsSwept,
      B!NoRow
  <2>2. CASE UNCHANGED <<blobRows, blobBody>>
    BY <1>s, BlobsNoCall, <1>a, <1>b, <1>c, <1>d, <2>2 DEF BlobsBodies, BlobsTyped, BlobsResumes, BlobsSwept,
      B!NoRow
  <2> QED
    BY <1>d, <2>1, <2>2
<1>3. BlobsResumes'
  BY <1>s, BlobsNoCall, <1>a, <1>b, <1>c, <1>d DEF BlobsResumes, BlobsTyped, BlobsBodies
<1>4. BlobsSwept'
  <2>1. CASE /\ blobRows[n].status = "none" /\ blobRows' = [blobRows EXCEPT ![n] = row]
             /\ blobBody' = [blobBody EXCEPT ![n] = bod]
    BY <1>s, BlobsNoCall, <1>a, <1>b, <1>c, <1>d, <2>1 DEF BlobsSwept, BlobsTyped, BlobsBodies, B!NoRow
  <2>2. CASE UNCHANGED <<blobRows, blobBody>>
    BY <1>s, BlobsNoCall, <1>a, <1>b, <1>c, <1>d, <2>2 DEF BlobsSwept, BlobsTyped, BlobsBodies, B!NoRow
  <2> QED
    BY <1>d, <2>1, <2>2
<1>5. B!SuspendedKeepsItsState'
  BY <1>s, BlobsNoCall, <1>a, <1>b, <1>c, <1>d DEF B!SuspendedKeepsItsState, BlobsTyped, BlobsBodies,
    BlobsResumes, BlobsSwept
<1>6. B!BlobsAreFound'
  <2>1. CASE /\ blobRows[n].status = "none" /\ blobRows' = [blobRows EXCEPT ![n] = row]
             /\ blobBody' = [blobBody EXCEPT ![n] = bod]
    BY <1>s, BlobsNoCall, <1>a, <1>b, <1>c, <1>d, <2>1 DEF B!BlobsAreFound, BlobsTyped, BlobsBodies,
      BlobsResumes, BlobsSwept, B!NoRow
  <2>2. CASE UNCHANGED <<blobRows, blobBody>>
    BY <1>s, BlobsNoCall, <1>a, <1>b, <1>c, <1>d, <2>2 DEF B!BlobsAreFound, BlobsTyped, BlobsBodies,
      BlobsResumes, BlobsSwept, B!NoRow
  <2> QED
    BY <1>d, <2>1, <2>2
<1>7. B!ContinuesAsItself'
  BY <1>s, BlobsNoCall, <1>a, <1>b, <1>c, <1>d DEF B!ContinuesAsItself, BlobsTyped, BlobsBodies, BlobsResumes,
    BlobRows, B!NoRow, B!Secret, B!Mask
<1> QED
  BY <1>1, <1>2, <1>3, <1>4, <1>5, <1>6, <1>7

LEMMA BlobsFree == ASSUME NEW c \in Clients, BlobsInv, B!Free(c) PROVE BlobsInv'
<1> USE DEF BlobsInv
<1> DEFINE clear == [resumes[c] EXCEPT !.pc = "clear"]
<1>a. /\ clear \in Resumes /\ clear.pc = "clear" /\ clear.run = resumes[c].run
      /\ clear.row = resumes[c].row /\ clear.param = resumes[c].param
  <2>1. resumes[c] \in Resumes
    BY DEF BlobsTyped
  <2> QED
    BY <2>1 DEF Resumes
<1>b. /\ \/ blobs' = blobs \ {resumes[c].run} /\ resumes' = [resumes EXCEPT ![c] = clear]
         \/ resumes' = [resumes EXCEPT ![c] = B!NoCall] /\ UNCHANGED blobs
      /\ resumes[c].pc = "free"
      /\ UNCHANGED <<blobRows, blobBody, cleaner, granted, blobOrphans, empty>>
  BY DEF B!Free, B!To
<1> HIDE DEF clear
<1>1. BlobsTyped'
  BY BlobsNoCall, <1>a, <1>b DEF BlobsTyped
<1>2. BlobsBodies'
  BY BlobsNoCall, <1>a, <1>b DEF BlobsBodies, BlobsTyped, BlobsResumes, BlobsSwept
<1>3. BlobsResumes'
  BY BlobsNoCall, <1>a, <1>b DEF BlobsResumes, BlobsTyped, BlobsBodies
<1>4. BlobsSwept'
  BY BlobsNoCall, <1>a, <1>b DEF BlobsSwept, BlobsTyped, BlobsBodies
<1>5. B!SuspendedKeepsItsState'
  BY BlobsNoCall, <1>a, <1>b DEF B!SuspendedKeepsItsState, BlobsTyped, BlobsBodies, BlobsResumes, BlobsSwept
<1>6. B!BlobsAreFound'
  BY BlobsNoCall, <1>a, <1>b DEF B!BlobsAreFound, BlobsTyped, BlobsBodies, BlobsResumes, BlobsSwept
<1>7. B!ContinuesAsItself'
  BY BlobsNoCall, <1>a, <1>b DEF B!ContinuesAsItself, BlobsTyped, BlobsBodies, BlobsResumes
<1> QED
  BY <1>1, <1>2, <1>3, <1>4, <1>5, <1>6, <1>7

LEMMA BlobsClearAfterResume == ASSUME NEW c \in Clients, BlobsInv, B!ClearAfterResume(c) PROVE BlobsInv'
<1> USE DEF BlobsInv
<1> PICK r \in Runs : r = resumes[c].run
  BY DEF BlobsResumes, B!ClearAfterResume
<1> DEFINE row == [blobRows[r] EXCEPT !.key = FALSE]
<1>a. /\ row \in BlobRows /\ row.status = blobRows[r].status /\ row.inline = blobRows[r].inline
      /\ row.key = FALSE /\ row.token = blobRows[r].token /\ row.param = blobRows[r].param
      /\ row.root = blobRows[r].root
  <2>1. blobRows[r] \in BlobRows
    BY DEF BlobsTyped
  <2> QED
    BY <2>1 DEF BlobRows, B!Statuses, BlobParams
<1>b. /\ blobRows' = [blobRows EXCEPT ![r] = row]
      /\ resumes' = [resumes EXCEPT ![c] = B!NoCall]
      /\ resumes[c].pc = "clear" /\ r = resumes[c].run
      /\ UNCHANGED <<blobs, blobBody, cleaner, granted, blobOrphans, empty>>
  BY DEF B!ClearAfterResume
<1> HIDE DEF row
<1>1. BlobsTyped'
  BY BlobsNoCall, <1>a, <1>b DEF BlobsTyped
<1>2. BlobsBodies'
  BY BlobsNoCall, <1>a, <1>b DEF BlobsBodies, BlobsTyped, BlobsResumes, BlobsSwept
<1>3. BlobsResumes'
  BY BlobsNoCall, <1>a, <1>b DEF BlobsResumes, BlobsTyped, BlobsBodies
<1>4. BlobsSwept'
  BY BlobsNoCall, <1>a, <1>b DEF BlobsSwept, BlobsTyped, BlobsBodies
<1>5. B!SuspendedKeepsItsState'
  BY BlobsNoCall, <1>a, <1>b DEF B!SuspendedKeepsItsState, BlobsTyped, BlobsBodies, BlobsResumes, BlobsSwept
<1>6. B!BlobsAreFound'
  BY BlobsNoCall, <1>a, <1>b DEF B!BlobsAreFound, BlobsTyped, BlobsBodies, BlobsResumes, BlobsSwept
<1>7. B!ContinuesAsItself'
  BY BlobsNoCall, <1>a, <1>b DEF B!ContinuesAsItself, BlobsTyped, BlobsBodies, BlobsResumes
<1> QED
  BY <1>1, <1>2, <1>3, <1>4, <1>5, <1>6, <1>7

LEMMA BlobsList == ASSUME BlobsInv, B!List PROVE BlobsInv'
<1> USE DEF BlobsInv
<1>o. PICK old \in SUBSET {r \in Runs : blobRows[r].key /\ blobRows[r].status # "suspended"} :
        cleaner' = [pc |-> "pick", list |-> old, run |-> None]
  BY DEF B!List
<1> DEFINE swept == [pc |-> "pick", list |-> old, run |-> None]
<1>a. swept \in BlobCleaners /\ swept.pc = "pick" /\ swept.list = old /\ swept.run = None
  <2> QED
    BY DEF BlobCleaners
<1>b. /\ cleaner' = swept
      /\ \A r \in old : blobRows[r].key /\ blobRows[r].status # "suspended"
      /\ UNCHANGED <<blobRows, blobs, blobBody, resumes, granted, blobOrphans, empty>>
  BY <1>o DEF B!List
<1> HIDE DEF swept
<1>1. BlobsTyped'
  BY <1>a, <1>b DEF BlobsTyped
<1>2. BlobsBodies'
  BY <1>a, <1>b DEF BlobsBodies, BlobsTyped, BlobsResumes, BlobsSwept
<1>3. BlobsResumes'
  BY <1>a, <1>b DEF BlobsResumes, BlobsTyped, BlobsBodies
<1>4. BlobsSwept'
  BY <1>a, <1>b DEF BlobsSwept, BlobsTyped, BlobsBodies, BlobRows, B!Statuses, BlobsBodies, B!NoRow
<1>5. B!SuspendedKeepsItsState'
  BY <1>a, <1>b DEF B!SuspendedKeepsItsState, BlobsTyped, BlobsBodies, BlobsResumes, BlobsSwept
<1>6. B!BlobsAreFound'
  BY <1>a, <1>b DEF B!BlobsAreFound, BlobsTyped, BlobsBodies, BlobsResumes, BlobsSwept
<1>7. B!ContinuesAsItself'
  BY <1>a, <1>b DEF B!ContinuesAsItself, BlobsTyped, BlobsBodies, BlobsResumes
<1> QED
  BY <1>1, <1>2, <1>3, <1>4, <1>5, <1>6, <1>7

LEMMA BlobsPick == ASSUME BlobsInv, B!Pick PROVE BlobsInv'
<1> USE DEF BlobsInv
<1>a. UNCHANGED <<blobRows, blobs, blobBody, resumes, granted, blobOrphans, empty>> /\ cleaner.pc = "pick"
  BY DEF B!Pick
<1>b. cleaner' \in BlobCleaners
  <2>1. B!Idle \in BlobCleaners
    BY DEF B!Idle, BlobCleaners
  <2>2. \A p \in {"pick", "delete", "clear"}, r \in cleaner.list :
          [pc |-> p, list |-> cleaner.list \ {r}, run |-> r] \in BlobCleaners
    BY DEF BlobsTyped, BlobCleaners
  <2>3. CASE cleaner.list = {}
    BY <2>1, <2>3 DEF B!Pick
  <2>4. CASE cleaner.list # {}
    BY <2>2, <2>4 DEF B!Pick
  <2> QED
    BY <2>3, <2>4
<1>c. BlobsSwept'
  <2>1. CASE cleaner.list = {}
    BY <1>a, <2>1 DEF B!Pick, B!Idle, BlobsSwept
  <2>2. CASE cleaner.list # {}
    <3> PICK r \in cleaner.list :
          cleaner' = [pc |-> IF blobRows[r].status = "suspended" THEN "pick"
                             ELSE IF blobRows[r].key THEN "delete" ELSE "clear",
                      list |-> cleaner.list \ {r}, run |-> r]
      BY <2>2 DEF B!Pick
    <3>1. r \in Runs /\ blobRows[r].status \in {"resumed", "ended"} /\ blobBody[r].pc = "none"
      BY DEF BlobsTyped, BlobCleaners, BlobsSwept, BlobsBodies
    <3>2. ~blobRows[r].key => r \notin blobs \ blobOrphans
      BY <3>1 DEF B!BlobsAreFound
    <3> QED
      BY <1>a, <3>1, <3>2 DEF BlobsSwept
  <2> QED
    BY <2>1, <2>2
<1> QED
  BY <1>a, <1>b, <1>c DEF BlobsTyped, BlobsBodies, BlobsResumes, B!SuspendedKeepsItsState, B!BlobsAreFound,
    B!ContinuesAsItself

LEMMA BlobsDeleteBlob == ASSUME BlobsInv, B!DeleteBlob PROVE BlobsInv'
<1> USE DEF BlobsInv
<1> DEFINE clears == [cleaner EXCEPT !.pc = "clear"]
<1>a. /\ clears \in BlobCleaners /\ clears.pc = "clear" /\ clears.list = cleaner.list
      /\ clears.run = cleaner.run
  <2>1. cleaner \in BlobCleaners
    BY DEF BlobsTyped
  <2> QED
    BY <2>1 DEF BlobCleaners
<1> DEFINE picks == [cleaner EXCEPT !.pc = "pick"]
<1>b. /\ picks \in BlobCleaners /\ picks.pc = "pick" /\ picks.list = cleaner.list
      /\ picks.run = cleaner.run
  <2>1. cleaner \in BlobCleaners
    BY DEF BlobsTyped
  <2> QED
    BY <2>1 DEF BlobCleaners
<1>c. /\ \/ blobs' = blobs \ {cleaner.run} /\ cleaner' = clears
         \/ cleaner' = picks /\ UNCHANGED blobs
      /\ cleaner.pc = "delete"
      /\ UNCHANGED <<blobRows, blobBody, resumes, granted, blobOrphans, empty>>
  BY DEF B!DeleteBlob
<1> HIDE DEF clears, picks
<1>1. BlobsTyped'
  BY <1>a, <1>b, <1>c DEF BlobsTyped
<1>2. BlobsBodies'
  BY <1>a, <1>b, <1>c DEF BlobsBodies, BlobsTyped, BlobsResumes, BlobsSwept
<1>3. BlobsResumes'
  BY <1>a, <1>b, <1>c DEF BlobsResumes, BlobsTyped, BlobsBodies
<1>4. BlobsSwept'
  BY <1>a, <1>b, <1>c DEF BlobsSwept, BlobsTyped, BlobsBodies
<1>5. B!SuspendedKeepsItsState'
  BY <1>a, <1>b, <1>c DEF B!SuspendedKeepsItsState, BlobsTyped, BlobsBodies, BlobsResumes, BlobsSwept
<1>6. B!BlobsAreFound'
  BY <1>a, <1>b, <1>c DEF B!BlobsAreFound, BlobsTyped, BlobsBodies, BlobsResumes, BlobsSwept
<1>7. B!ContinuesAsItself'
  BY <1>a, <1>b, <1>c DEF B!ContinuesAsItself, BlobsTyped, BlobsBodies, BlobsResumes
<1> QED
  BY <1>1, <1>2, <1>3, <1>4, <1>5, <1>6, <1>7

LEMMA BlobsClearColumns == ASSUME BlobsInv, B!ClearColumns PROVE BlobsInv'
<1> USE DEF BlobsInv
<1> PICK r \in Runs : r = cleaner.run
  BY DEF BlobsSwept, B!ClearColumns
<1> DEFINE row == [blobRows[r] EXCEPT !.key = FALSE]
<1>a. /\ row \in BlobRows /\ row.status = blobRows[r].status /\ row.inline = blobRows[r].inline
      /\ row.key = FALSE /\ row.token = blobRows[r].token /\ row.param = blobRows[r].param
      /\ row.root = blobRows[r].root
  <2>1. blobRows[r] \in BlobRows
    BY DEF BlobsTyped
  <2> QED
    BY <2>1 DEF BlobRows, B!Statuses, BlobParams
<1> DEFINE picks == [cleaner EXCEPT !.pc = "pick"]
<1>b. /\ picks \in BlobCleaners /\ picks.pc = "pick" /\ picks.list = cleaner.list
      /\ picks.run = cleaner.run
  <2>1. cleaner \in BlobCleaners
    BY DEF BlobsTyped
  <2> QED
    BY <2>1 DEF BlobCleaners
<1>c. /\ blobRows' = [blobRows EXCEPT ![r] = row]
      /\ cleaner' = picks
      /\ cleaner.pc = "clear" /\ r = cleaner.run
      /\ UNCHANGED <<blobs, blobBody, resumes, granted, blobOrphans, empty>>
  BY DEF B!ClearColumns
<1> HIDE DEF row, picks
<1>1. BlobsTyped'
  BY <1>a, <1>b, <1>c DEF BlobsTyped
<1>2. BlobsBodies'
  BY <1>a, <1>b, <1>c DEF BlobsBodies, BlobsTyped, BlobsResumes, BlobsSwept
<1>3. BlobsResumes'
  BY <1>a, <1>b, <1>c DEF BlobsResumes, BlobsTyped, BlobsBodies
<1>4. BlobsSwept'
  BY <1>a, <1>b, <1>c DEF BlobsSwept, BlobsTyped, BlobsBodies
<1>5. B!SuspendedKeepsItsState'
  BY <1>a, <1>b, <1>c DEF B!SuspendedKeepsItsState, BlobsTyped, BlobsBodies, BlobsResumes, BlobsSwept
<1>6. B!BlobsAreFound'
  BY <1>a, <1>b, <1>c DEF B!BlobsAreFound, BlobsTyped, BlobsBodies, BlobsResumes, BlobsSwept
<1>7. B!ContinuesAsItself'
  BY <1>a, <1>b, <1>c DEF B!ContinuesAsItself, BlobsTyped, BlobsBodies, BlobsResumes
<1> QED
  BY <1>1, <1>2, <1>3, <1>4, <1>5, <1>6, <1>7

LEMMA BlobsRevoke == ASSUME BlobsInv, B!Revoke PROVE BlobsInv'
<1> USE DEF BlobsInv
<1>a. /\ granted' = FALSE
      /\ UNCHANGED <<blobRows, blobs, blobBody, resumes, cleaner, blobOrphans, empty>>
  BY DEF B!Revoke
<1>1. BlobsTyped'
  BY <1>a DEF BlobsTyped
<1>2. BlobsBodies'
  BY <1>a DEF BlobsBodies, BlobsTyped, BlobsResumes, BlobsSwept
<1>3. BlobsResumes'
  BY <1>a DEF BlobsResumes, BlobsTyped, BlobsBodies
<1>4. BlobsSwept'
  BY <1>a DEF BlobsSwept, BlobsTyped, BlobsBodies
<1>5. B!SuspendedKeepsItsState'
  BY <1>a DEF B!SuspendedKeepsItsState, BlobsTyped, BlobsBodies, BlobsResumes, BlobsSwept
<1>6. B!BlobsAreFound'
  BY <1>a DEF B!BlobsAreFound, BlobsTyped, BlobsBodies, BlobsResumes, BlobsSwept
<1>7. B!ContinuesAsItself'
  BY <1>a DEF B!ContinuesAsItself, BlobsTyped, BlobsBodies, BlobsResumes
<1> QED
  BY <1>1, <1>2, <1>3, <1>4, <1>5, <1>6, <1>7

LEMMA BlobsRestart == ASSUME BlobsInv, B!Restart PROVE BlobsInv'
<1> USE DEF BlobsInv
<1>a. /\ blobOrphans' = blobOrphans \cup {r \in Runs : blobBody[r].pc \in {"stored", "unstore"}}
      /\ resumes' = [c \in Clients |-> B!NoCall] /\ cleaner' = B!Idle
      /\ UNCHANGED <<blobs, granted, empty>>
  BY DEF B!Restart
<1>b. /\ blobBody' \in [Runs -> BlobBodies]
      /\ \A r \in Runs : blobBody'[r].pc = "none"
  <2>1. \A x \in BlobBodies : [x EXCEPT !.pc = "none"] \in BlobBodies /\ [x EXCEPT !.pc = "none"].pc = "none"
    BY DEF BlobBodies
  <2>2. blobBody' = [r \in Runs |-> [blobBody[r] EXCEPT !.pc = "none"]]
    BY DEF B!Restart
  <2> QED
    BY <2>1, <2>2 DEF BlobsTyped
<1>c. PICK lapsed \in SUBSET {r \in Runs : blobRows[r].status = "suspended"} :
        blobRows' = [r \in Runs |-> IF blobRows[r].status = "running" \/ r \in lapsed
                                    THEN [blobRows[r] EXCEPT !.status = "ended"] ELSE blobRows[r]]
  BY DEF B!Restart
<1>d. \A r \in Runs :
        /\ blobRows'[r] \in BlobRows
        /\ blobRows'[r] = blobRows[r] \/ (blobRows[r].status \in {"running", "suspended"} /\ blobRows'[r].status = "ended")
        /\ blobRows[r].status = "running" => blobRows'[r].status = "ended"
        /\ blobRows'[r].key = blobRows[r].key /\ blobRows'[r].inline = blobRows[r].inline
        /\ blobRows'[r].root = blobRows[r].root
  <2>1. \A x \in BlobRows :
          LET y == [x EXCEPT !.status = "ended"] IN
          y \in BlobRows /\ y.status = "ended" /\ y.key = x.key /\ y.inline = x.inline /\ y.root = x.root
    BY DEF BlobRows, B!Statuses
  <2> SUFFICES ASSUME NEW r \in Runs
               PROVE  /\ blobRows'[r] \in BlobRows
                      /\ blobRows'[r] = blobRows[r] \/ (blobRows[r].status \in {"running", "suspended"} /\ blobRows'[r].status = "ended")
                      /\ blobRows[r].status = "running" => blobRows'[r].status = "ended"
                      /\ blobRows'[r].key = blobRows[r].key /\ blobRows'[r].inline = blobRows[r].inline
                      /\ blobRows'[r].root = blobRows[r].root
    OBVIOUS
  <2>2. blobRows[r] \in BlobRows
    BY DEF BlobsTyped
  <2>3. CASE blobRows[r].status = "running" \/ r \in lapsed
    BY <1>c, <2>1, <2>2, <2>3
  <2>4. CASE ~(blobRows[r].status = "running" \/ r \in lapsed)
    <3>1. blobRows'[r] = blobRows[r]
      BY <1>c, <2>4
    <3> QED
      BY <2>2, <2>4, <3>1
  <2> QED
    BY <2>3, <2>4
<1>e. blobRows' \in [Runs -> BlobRows]
  BY <1>c, <1>d
<1>1. BlobsTyped'
  <2>1. B!Idle \in BlobCleaners
    BY DEF B!Idle, BlobCleaners
  <2> QED
    BY <1>a, <1>b, <1>e, <2>1, BlobsNoCall DEF BlobsTyped
<1>2. BlobsBodies'
  BY <1>a, <1>b, <1>d DEF BlobsBodies
<1>3. BlobsResumes' /\ BlobsSwept'
  BY <1>a, BlobsNoCall DEF BlobsResumes, BlobsSwept, B!Idle
<1>4. B!SuspendedKeepsItsState'
  BY <1>a, <1>d DEF B!SuspendedKeepsItsState
<1>5. B!BlobsAreFound'
  BY <1>a, <1>d DEF B!BlobsAreFound, BlobsTyped
<1>6. B!ContinuesAsItself'
  BY <1>b, <1>d DEF B!ContinuesAsItself, BlobsTyped, BlobRows
<1> QED
  BY <1>1, <1>2, <1>3, <1>4, <1>5, <1>6

LEMMA BlobsNext == BlobsInv /\ [B!Next]_(B!vars) => BlobsInv'
<1> SUFFICES ASSUME BlobsInv, [B!Next]_(B!vars) PROVE BlobsInv'
  OBVIOUS
<1>1. CASE UNCHANGED B!vars
  <2>1. UNCHANGED <<blobRows, blobs, blobBody, resumes, cleaner, granted, blobOrphans, empty, blobFaults>>
    BY <1>1 DEF B!vars
  <2>2. BlobsTyped'
    BY <2>1 DEF BlobsInv, BlobsTyped, B!Statuses, BlobParams
  <2>3. BlobsBodies'
    BY <2>1 DEF BlobsInv, BlobsBodies, BlobsTyped
  <2>4. BlobsResumes'
    BY <2>1 DEF BlobsInv, BlobsResumes, BlobsTyped, B!SuspendedKeepsItsState
  <2>5. BlobsSwept'
    BY <2>1 DEF BlobsInv, BlobsSwept, BlobsTyped, BlobsBodies, BlobsResumes, B!BlobsAreFound
  <2>6. B!SuspendedKeepsItsState'
    BY <2>1 DEF BlobsInv, B!SuspendedKeepsItsState, BlobsTyped, BlobsBodies, BlobsResumes, BlobsSwept
  <2>7. B!BlobsAreFound'
    BY <2>1 DEF BlobsInv, B!BlobsAreFound, BlobsTyped, BlobsBodies, BlobsResumes, BlobsSwept
  <2>8. B!ContinuesAsItself'
    BY <2>1 DEF BlobsInv, B!ContinuesAsItself, BlobsTyped, BlobsBodies, BlobsResumes
  <2> QED
    BY <2>2, <2>3, <2>4, <2>5, <2>6, <2>7, <2>8 DEF BlobsInv
<1>2. ASSUME NEW r \in Runs,
             B!Fire(r) \/ B!Ends(r) \/ B!SuspendInline(r) \/ B!Offload(r) \/ B!SuspendRow(r) \/ B!Unstore(r) \/ B!SuspendFails(r) \/ B!Expire(r) \/ B!CancelSuspended(r)
      PROVE  BlobsInv'
  BY <1>2, BlobsFire, BlobsEnds, BlobsSuspendInline, BlobsOffload, BlobsSuspendRow, BlobsUnstore,
    BlobsSuspendFails, BlobsExpire, BlobsCancelSuspended
<1>3. ASSUME NEW c \in Clients, NEW r \in Runs, B!Find(c, r) PROVE BlobsInv'
  BY <1>3, BlobsFind
<1>4. ASSUME NEW c \in Clients,
             B!Fetch(c) \/ B!Mark(c) \/ B!Spawn(c) \/ B!Free(c) \/ B!ClearAfterResume(c)
      PROVE  BlobsInv'
  BY <1>4, BlobsFetch, BlobsMark, BlobsSpawn, BlobsFree, BlobsClearAfterResume
<1> QED
  BY <1>1, <1>2, <1>3, <1>4, BlobsList, BlobsPick, BlobsDeleteBlob, BlobsClearColumns, BlobsRevoke,
    BlobsRestart DEF B!Next

LEMMA BlobsMean == BlobsInv => B!TypeOK /\ B!SuspendedKeepsItsState /\ B!BlobsAreFound /\ B!ContinuesAsItself
<1>1. BlobsInv => B!TypeOK /\ B!SuspendedKeepsItsState /\ B!BlobsAreFound /\ B!ContinuesAsItself
  BY DEF BlobsInv, BlobsTyped, BlobRows, BlobBodies, Resumes, BlobCleaners, B!SuspendedKeepsItsState, B!TypeOK
<1> QED
  BY <1>1

\* What suspendRun, ResumeRun and the retention sweep promise, whatever fails.
THEOREM BlobsStay ==
  B!Spec => [](B!TypeOK /\ B!SuspendedKeepsItsState /\ B!BlobsAreFound /\ B!ContinuesAsItself)
  BY BlobsInit, BlobsNext, BlobsMean, PTL DEF B!Spec

-----------------------------------------------------------------------------
(***************************************************************************)
(* The containers of runs: Containers.                                     *)
(***************************************************************************)

DockerPcs == {"create", "start", "attach", "wait", "drain", "remove"}
PodmanPcs == {"spawn", "client", "attached"}
BoxConstants == None \notin {"created", "running", "exited"}
BoxTyped ==
  /\ BoxConstants
  /\ boxPhase \in {"up", "down", "boot"} /\ boxCfg \in Configs
  /\ boxPc \in [Runs -> {"new", "check", "inspect", "build", "over"} \cup DockerPcs \cup PodmanPcs]
  /\ box \in [Runs -> {None, "created", "running", "exited"}]
  /\ watcher \in [Runs -> {"idle", "armed", "stop", "done"}]
  /\ boxCancelled \subseteq Runs /\ boxOrphans \subseteq Runs /\ left \subseteq Runs

\* One run at a time is on its way, and none outside a session; the runtime and the policy
\* are those of the task.
BoxOneRun ==
  /\ \A r, s \in Runs : K!Live(r) /\ K!Live(s) => r = s
  /\ boxPhase # "up" => \A r \in Runs : ~K!Live(r) /\ watcher[r] = "idle"
  /\ \A r \in Runs :
       /\ boxPc[r] \in DockerPcs => K!Docker
       /\ boxPc[r] \in PodmanPcs => ~K!Docker
       /\ boxPc[r] \in {"inspect", "build"} \cup DockerPcs \cup PodmanPcs => ~K!Refused
       /\ boxPc[r] \in {"new", "check", "inspect", "build", "create", "spawn", "client"} => box[r] = None

\* A killed podman client leaves its container to the watcher, unless that is done.
BoxWatched ==
  \A r \in Runs :
    /\ watcher[r] \in {"stop", "done"} => r \in boxCancelled
    /\ boxPc[r] \in {"client", "attached"} => watcher[r] # "idle"
    /\ ~K!Docker /\ watcher[r] = "done" /\ box[r] # None => r \in left

\* The clean-up of a start knows every container.
BoxListed == boxPhase = "boot" => \A r \in Runs : box[r] # None => r \in boxOrphans \cup left

BoxInv == BoxTyped /\ BoxOneRun /\ BoxWatched /\ BoxListed /\ K!EachHasAnOwner /\ K!AllowedOnly

LEMMA BoxInit == BoxConstants /\ K!Init => BoxInv
  BY DEF K!Init, BoxConstants, BoxInv, BoxTyped, BoxOneRun, BoxWatched, BoxListed, K!EachHasAnOwner,
    K!AllowedOnly, K!Live,
    DockerPcs, PodmanPcs

LEMMA BoxBegin == ASSUME NEW r \in Runs, BoxInv, K!Begin(r) PROVE BoxInv'
<1> USE DEF BoxInv
<1>1. BoxTyped'
  BY DEF BoxTyped, DockerPcs, PodmanPcs, BoxConstants, K!Begin, K!Live, K!To, K!At, K!Fails, K!Fine,
    K!taskVars, K!imageVars, K!runVars
<1>2. BoxOneRun'
  BY DEF BoxOneRun, BoxTyped, K!Live, K!Docker, K!Refused, DockerPcs, PodmanPcs, BoxConstants, K!Begin,
    K!Live, K!To, K!At, K!Fails, K!Fine, K!taskVars, K!imageVars, K!runVars
<1>3. BoxWatched'
  BY DEF BoxWatched, BoxTyped, BoxOneRun, K!Docker, K!Live, DockerPcs, PodmanPcs, BoxConstants, K!Begin,
    K!Live, K!To, K!At, K!Fails, K!Fine, K!taskVars, K!imageVars, K!runVars
<1>4. BoxListed'
  BY DEF BoxListed, BoxTyped, BoxOneRun, K!Live, K!Docker, DockerPcs, PodmanPcs, BoxConstants, K!Begin,
    K!Live, K!To, K!At, K!Fails, K!Fine, K!taskVars, K!imageVars, K!runVars
<1>5. K!EachHasAnOwner'
  BY DEF K!EachHasAnOwner, BoxTyped, BoxOneRun, BoxWatched, BoxListed, K!Live, K!Docker, DockerPcs, PodmanPcs,
    BoxConstants, K!Begin, K!Live, K!To, K!At, K!Fails, K!Fine, K!taskVars, K!imageVars, K!runVars
<1>6. K!AllowedOnly'
  BY DEF K!AllowedOnly, BoxTyped, BoxOneRun, K!Refused, DockerPcs, PodmanPcs, BoxConstants, K!Begin, K!Live,
    K!To, K!At, K!Fails, K!Fine, K!taskVars, K!imageVars, K!runVars
<1> QED
  BY <1>1, <1>2, <1>3, <1>4, <1>5, <1>6

LEMMA BoxCancel == ASSUME NEW r \in Runs, BoxInv, K!Cancel(r) PROVE BoxInv'
<1> USE DEF BoxInv
<1>1. BoxTyped'
  BY DEF BoxTyped, DockerPcs, PodmanPcs, BoxConstants, K!Cancel, K!Live, K!To, K!At, K!Fails, K!Fine,
    K!taskVars, K!imageVars, K!runVars
<1>2. BoxOneRun'
  BY DEF BoxOneRun, BoxTyped, K!Live, K!Docker, K!Refused, DockerPcs, PodmanPcs, BoxConstants, K!Cancel,
    K!Live, K!To, K!At, K!Fails, K!Fine, K!taskVars, K!imageVars, K!runVars
<1>3. BoxWatched'
  BY DEF BoxWatched, BoxTyped, BoxOneRun, K!Docker, K!Live, DockerPcs, PodmanPcs, BoxConstants, K!Cancel,
    K!Live, K!To, K!At, K!Fails, K!Fine, K!taskVars, K!imageVars, K!runVars
<1>4. BoxListed'
  BY DEF BoxListed, BoxTyped, BoxOneRun, K!Live, K!Docker, DockerPcs, PodmanPcs, BoxConstants, K!Cancel,
    K!Live, K!To, K!At, K!Fails, K!Fine, K!taskVars, K!imageVars, K!runVars
<1>5. K!EachHasAnOwner'
  BY DEF K!EachHasAnOwner, BoxTyped, BoxOneRun, BoxWatched, BoxListed, K!Live, K!Docker, DockerPcs, PodmanPcs,
    BoxConstants, K!Cancel, K!Live, K!To, K!At, K!Fails, K!Fine, K!taskVars, K!imageVars, K!runVars
<1>6. K!AllowedOnly'
  BY DEF K!AllowedOnly, BoxTyped, BoxOneRun, K!Refused, DockerPcs, PodmanPcs, BoxConstants, K!Cancel, K!Live,
    K!To, K!At, K!Fails, K!Fine, K!taskVars, K!imageVars, K!runVars
<1> QED
  BY <1>1, <1>2, <1>3, <1>4, <1>5, <1>6

LEMMA BoxCheck == ASSUME NEW r \in Runs, BoxInv, K!Check(r) PROVE BoxInv'
<1> USE DEF BoxInv
<1>1. BoxTyped'
  BY DEF BoxTyped, DockerPcs, PodmanPcs, BoxConstants, K!Check, K!Refused, K!Docker, K!To, K!At, K!Fails,
    K!Fine, K!taskVars, K!imageVars, K!runVars
<1>2. BoxOneRun'
  BY DEF BoxOneRun, BoxTyped, K!Live, K!Docker, K!Refused, DockerPcs, PodmanPcs, BoxConstants, K!Check,
    K!Refused, K!Docker, K!To, K!At, K!Fails, K!Fine, K!taskVars, K!imageVars, K!runVars
<1>3. BoxWatched'
  BY DEF BoxWatched, BoxTyped, BoxOneRun, K!Docker, K!Live, DockerPcs, PodmanPcs, BoxConstants, K!Check,
    K!Refused, K!Docker, K!To, K!At, K!Fails, K!Fine, K!taskVars, K!imageVars, K!runVars
<1>4. BoxListed'
  BY DEF BoxListed, BoxTyped, BoxOneRun, K!Live, K!Docker, DockerPcs, PodmanPcs, BoxConstants, K!Check,
    K!Refused, K!Docker, K!To, K!At, K!Fails, K!Fine, K!taskVars, K!imageVars, K!runVars
<1>5. K!EachHasAnOwner'
  BY DEF K!EachHasAnOwner, BoxTyped, BoxOneRun, BoxWatched, BoxListed, K!Live, K!Docker, DockerPcs, PodmanPcs,
    BoxConstants, K!Check, K!Refused, K!Docker, K!To, K!At, K!Fails, K!Fine, K!taskVars, K!imageVars,
    K!runVars
<1>6. K!AllowedOnly'
  BY DEF K!AllowedOnly, BoxTyped, BoxOneRun, K!Refused, DockerPcs, PodmanPcs, BoxConstants, K!Check,
    K!Refused, K!Docker, K!To, K!At, K!Fails, K!Fine, K!taskVars, K!imageVars, K!runVars
<1> QED
  BY <1>1, <1>2, <1>3, <1>4, <1>5, <1>6

LEMMA BoxInspect == ASSUME NEW r \in Runs, BoxInv, K!Inspect(r) PROVE BoxInv'
<1> USE DEF BoxInv
<1>1. BoxTyped'
  BY DEF BoxTyped, DockerPcs, PodmanPcs, BoxConstants, K!Inspect, K!Docker, K!To, K!At, K!Fails, K!Fine,
    K!taskVars, K!imageVars, K!runVars
<1>2. BoxOneRun'
  BY DEF BoxOneRun, BoxTyped, K!Live, K!Docker, K!Refused, DockerPcs, PodmanPcs, BoxConstants, K!Inspect,
    K!Docker, K!To, K!At, K!Fails, K!Fine, K!taskVars, K!imageVars, K!runVars
<1>3. BoxWatched'
  BY DEF BoxWatched, BoxTyped, BoxOneRun, K!Docker, K!Live, DockerPcs, PodmanPcs, BoxConstants, K!Inspect,
    K!Docker, K!To, K!At, K!Fails, K!Fine, K!taskVars, K!imageVars, K!runVars
<1>4. BoxListed'
  BY DEF BoxListed, BoxTyped, BoxOneRun, K!Live, K!Docker, DockerPcs, PodmanPcs, BoxConstants, K!Inspect,
    K!Docker, K!To, K!At, K!Fails, K!Fine, K!taskVars, K!imageVars, K!runVars
<1>5. K!EachHasAnOwner'
  BY DEF K!EachHasAnOwner, BoxTyped, BoxOneRun, BoxWatched, BoxListed, K!Live, K!Docker, DockerPcs, PodmanPcs,
    BoxConstants, K!Inspect, K!Docker, K!To, K!At, K!Fails, K!Fine, K!taskVars, K!imageVars, K!runVars
<1>6. K!AllowedOnly'
  BY DEF K!AllowedOnly, BoxTyped, BoxOneRun, K!Refused, DockerPcs, PodmanPcs, BoxConstants, K!Inspect,
    K!Docker, K!To, K!At, K!Fails, K!Fine, K!taskVars, K!imageVars, K!runVars
<1> QED
  BY <1>1, <1>2, <1>3, <1>4, <1>5, <1>6

LEMMA BoxBuild == ASSUME NEW r \in Runs, BoxInv, K!Build(r) PROVE BoxInv'
<1> USE DEF BoxInv
<1>1. BoxTyped'
  BY DEF BoxTyped, DockerPcs, PodmanPcs, BoxConstants, K!Build, K!Docker, K!To, K!At, K!Fails, K!Fine,
    K!taskVars, K!imageVars, K!runVars
<1>2. BoxOneRun'
  BY DEF BoxOneRun, BoxTyped, K!Live, K!Docker, K!Refused, DockerPcs, PodmanPcs, BoxConstants, K!Build,
    K!Docker, K!To, K!At, K!Fails, K!Fine, K!taskVars, K!imageVars, K!runVars
<1>3. BoxWatched'
  BY DEF BoxWatched, BoxTyped, BoxOneRun, K!Docker, K!Live, DockerPcs, PodmanPcs, BoxConstants, K!Build,
    K!Docker, K!To, K!At, K!Fails, K!Fine, K!taskVars, K!imageVars, K!runVars
<1>4. BoxListed'
  BY DEF BoxListed, BoxTyped, BoxOneRun, K!Live, K!Docker, DockerPcs, PodmanPcs, BoxConstants, K!Build,
    K!Docker, K!To, K!At, K!Fails, K!Fine, K!taskVars, K!imageVars, K!runVars
<1>5. K!EachHasAnOwner'
  BY DEF K!EachHasAnOwner, BoxTyped, BoxOneRun, BoxWatched, BoxListed, K!Live, K!Docker, DockerPcs, PodmanPcs,
    BoxConstants, K!Build, K!Docker, K!To, K!At, K!Fails, K!Fine, K!taskVars, K!imageVars, K!runVars
<1>6. K!AllowedOnly'
  BY DEF K!AllowedOnly, BoxTyped, BoxOneRun, K!Refused, DockerPcs, PodmanPcs, BoxConstants, K!Build, K!Docker,
    K!To, K!At, K!Fails, K!Fine, K!taskVars, K!imageVars, K!runVars
<1> QED
  BY <1>1, <1>2, <1>3, <1>4, <1>5, <1>6

LEMMA BoxContainerExits == ASSUME NEW r \in Runs, BoxInv, K!ContainerExits(r) PROVE BoxInv'
<1> USE DEF BoxInv
<1>1. BoxTyped'
  BY DEF BoxTyped, DockerPcs, PodmanPcs, BoxConstants, K!ContainerExits, K!Docker, K!To, K!At, K!Fails,
    K!Fine, K!taskVars, K!imageVars, K!runVars
<1>2. BoxOneRun'
  BY DEF BoxOneRun, BoxTyped, K!Live, K!Docker, K!Refused, DockerPcs, PodmanPcs, BoxConstants,
    K!ContainerExits, K!Docker, K!To, K!At, K!Fails, K!Fine, K!taskVars, K!imageVars, K!runVars
<1>3. BoxWatched'
  BY DEF BoxWatched, BoxTyped, BoxOneRun, K!Docker, K!Live, DockerPcs, PodmanPcs, BoxConstants,
    K!ContainerExits, K!Docker, K!To, K!At, K!Fails, K!Fine, K!taskVars, K!imageVars, K!runVars
<1>4. BoxListed'
  BY DEF BoxListed, BoxTyped, BoxOneRun, K!Live, K!Docker, DockerPcs, PodmanPcs, BoxConstants,
    K!ContainerExits, K!Docker, K!To, K!At, K!Fails, K!Fine, K!taskVars, K!imageVars, K!runVars
<1>5. K!EachHasAnOwner'
  BY DEF K!EachHasAnOwner, BoxTyped, BoxOneRun, BoxWatched, BoxListed, K!Live, K!Docker, DockerPcs, PodmanPcs,
    BoxConstants, K!ContainerExits, K!Docker, K!To, K!At, K!Fails, K!Fine, K!taskVars, K!imageVars, K!runVars
<1>6. K!AllowedOnly'
  BY DEF K!AllowedOnly, BoxTyped, BoxOneRun, K!Refused, DockerPcs, PodmanPcs, BoxConstants, K!ContainerExits,
    K!Docker, K!To, K!At, K!Fails, K!Fine, K!taskVars, K!imageVars, K!runVars
<1> QED
  BY <1>1, <1>2, <1>3, <1>4, <1>5, <1>6

LEMMA BoxCreate == ASSUME NEW r \in Runs, BoxInv, K!Create(r) PROVE BoxInv'
<1> USE DEF BoxInv
<1>1. BoxTyped'
  BY DEF BoxTyped, DockerPcs, PodmanPcs, BoxConstants, K!Create, K!ImageThere, K!To, K!At, K!Fails, K!Fine,
    K!taskVars, K!imageVars, K!runVars
<1>2. BoxOneRun'
  BY DEF BoxOneRun, BoxTyped, K!Live, K!Docker, K!Refused, DockerPcs, PodmanPcs, BoxConstants, K!Create,
    K!ImageThere, K!To, K!At, K!Fails, K!Fine, K!taskVars, K!imageVars, K!runVars
<1>3. BoxWatched'
  BY DEF BoxWatched, BoxTyped, BoxOneRun, K!Docker, K!Live, DockerPcs, PodmanPcs, BoxConstants, K!Create,
    K!ImageThere, K!To, K!At, K!Fails, K!Fine, K!taskVars, K!imageVars, K!runVars
<1>4. BoxListed'
  BY DEF BoxListed, BoxTyped, BoxOneRun, K!Live, K!Docker, DockerPcs, PodmanPcs, BoxConstants, K!Create,
    K!ImageThere, K!To, K!At, K!Fails, K!Fine, K!taskVars, K!imageVars, K!runVars
<1>5. K!EachHasAnOwner'
  BY DEF K!EachHasAnOwner, BoxTyped, BoxOneRun, BoxWatched, BoxListed, K!Live, K!Docker, DockerPcs, PodmanPcs,
    BoxConstants, K!Create, K!ImageThere, K!To, K!At, K!Fails, K!Fine, K!taskVars, K!imageVars, K!runVars
<1>6. K!AllowedOnly'
  BY DEF K!AllowedOnly, BoxTyped, BoxOneRun, K!Refused, DockerPcs, PodmanPcs, BoxConstants, K!Create,
    K!ImageThere, K!To, K!At, K!Fails, K!Fine, K!taskVars, K!imageVars, K!runVars
<1> QED
  BY <1>1, <1>2, <1>3, <1>4, <1>5, <1>6

LEMMA BoxStart == ASSUME NEW r \in Runs, BoxInv, K!Start(r) PROVE BoxInv'
<1> USE DEF BoxInv
<1>1. BoxTyped'
  BY DEF BoxTyped, DockerPcs, PodmanPcs, BoxConstants, K!Start, K!To, K!At, K!Fails, K!Fine, K!taskVars,
    K!imageVars, K!runVars
<1>2. BoxOneRun'
  BY DEF BoxOneRun, BoxTyped, K!Live, K!Docker, K!Refused, DockerPcs, PodmanPcs, BoxConstants, K!Start, K!To,
    K!At, K!Fails, K!Fine, K!taskVars, K!imageVars, K!runVars
<1>3. BoxWatched'
  BY DEF BoxWatched, BoxTyped, BoxOneRun, K!Docker, K!Live, DockerPcs, PodmanPcs, BoxConstants, K!Start, K!To,
    K!At, K!Fails, K!Fine, K!taskVars, K!imageVars, K!runVars
<1>4. BoxListed'
  BY DEF BoxListed, BoxTyped, BoxOneRun, K!Live, K!Docker, DockerPcs, PodmanPcs, BoxConstants, K!Start, K!To,
    K!At, K!Fails, K!Fine, K!taskVars, K!imageVars, K!runVars
<1>5. K!EachHasAnOwner'
  BY DEF K!EachHasAnOwner, BoxTyped, BoxOneRun, BoxWatched, BoxListed, K!Live, K!Docker, DockerPcs, PodmanPcs,
    BoxConstants, K!Start, K!To, K!At, K!Fails, K!Fine, K!taskVars, K!imageVars, K!runVars
<1>6. K!AllowedOnly'
  BY DEF K!AllowedOnly, BoxTyped, BoxOneRun, K!Refused, DockerPcs, PodmanPcs, BoxConstants, K!Start, K!To,
    K!At, K!Fails, K!Fine, K!taskVars, K!imageVars, K!runVars
<1> QED
  BY <1>1, <1>2, <1>3, <1>4, <1>5, <1>6

LEMMA BoxAttach == ASSUME NEW r \in Runs, BoxInv, K!Attach(r) PROVE BoxInv'
<1> USE DEF BoxInv
<1>1. BoxTyped'
  BY DEF BoxTyped, DockerPcs, PodmanPcs, BoxConstants, K!Attach, K!To, K!At, K!Fails, K!Fine, K!taskVars,
    K!imageVars, K!runVars
<1>2. BoxOneRun'
  BY DEF BoxOneRun, BoxTyped, K!Live, K!Docker, K!Refused, DockerPcs, PodmanPcs, BoxConstants, K!Attach, K!To,
    K!At, K!Fails, K!Fine, K!taskVars, K!imageVars, K!runVars
<1>3. BoxWatched'
  BY DEF BoxWatched, BoxTyped, BoxOneRun, K!Docker, K!Live, DockerPcs, PodmanPcs, BoxConstants, K!Attach,
    K!To, K!At, K!Fails, K!Fine, K!taskVars, K!imageVars, K!runVars
<1>4. BoxListed'
  BY DEF BoxListed, BoxTyped, BoxOneRun, K!Live, K!Docker, DockerPcs, PodmanPcs, BoxConstants, K!Attach, K!To,
    K!At, K!Fails, K!Fine, K!taskVars, K!imageVars, K!runVars
<1>5. K!EachHasAnOwner'
  BY DEF K!EachHasAnOwner, BoxTyped, BoxOneRun, BoxWatched, BoxListed, K!Live, K!Docker, DockerPcs, PodmanPcs,
    BoxConstants, K!Attach, K!To, K!At, K!Fails, K!Fine, K!taskVars, K!imageVars, K!runVars
<1>6. K!AllowedOnly'
  BY DEF K!AllowedOnly, BoxTyped, BoxOneRun, K!Refused, DockerPcs, PodmanPcs, BoxConstants, K!Attach, K!To,
    K!At, K!Fails, K!Fine, K!taskVars, K!imageVars, K!runVars
<1> QED
  BY <1>1, <1>2, <1>3, <1>4, <1>5, <1>6

LEMMA BoxWait == ASSUME NEW r \in Runs, BoxInv, K!Wait(r) PROVE BoxInv'
<1> USE DEF BoxInv
<1>1. BoxTyped'
  BY DEF BoxTyped, DockerPcs, PodmanPcs, BoxConstants, K!Wait, K!To, K!At, K!Fails, K!Fine, K!taskVars,
    K!imageVars, K!runVars
<1>2. BoxOneRun'
  BY DEF BoxOneRun, BoxTyped, K!Live, K!Docker, K!Refused, DockerPcs, PodmanPcs, BoxConstants, K!Wait, K!To,
    K!At, K!Fails, K!Fine, K!taskVars, K!imageVars, K!runVars
<1>3. BoxWatched'
  BY DEF BoxWatched, BoxTyped, BoxOneRun, K!Docker, K!Live, DockerPcs, PodmanPcs, BoxConstants, K!Wait, K!To,
    K!At, K!Fails, K!Fine, K!taskVars, K!imageVars, K!runVars
<1>4. BoxListed'
  BY DEF BoxListed, BoxTyped, BoxOneRun, K!Live, K!Docker, DockerPcs, PodmanPcs, BoxConstants, K!Wait, K!To,
    K!At, K!Fails, K!Fine, K!taskVars, K!imageVars, K!runVars
<1>5. K!EachHasAnOwner'
  BY DEF K!EachHasAnOwner, BoxTyped, BoxOneRun, BoxWatched, BoxListed, K!Live, K!Docker, DockerPcs, PodmanPcs,
    BoxConstants, K!Wait, K!To, K!At, K!Fails, K!Fine, K!taskVars, K!imageVars, K!runVars
<1>6. K!AllowedOnly'
  BY DEF K!AllowedOnly, BoxTyped, BoxOneRun, K!Refused, DockerPcs, PodmanPcs, BoxConstants, K!Wait, K!To,
    K!At, K!Fails, K!Fine, K!taskVars, K!imageVars, K!runVars
<1> QED
  BY <1>1, <1>2, <1>3, <1>4, <1>5, <1>6

LEMMA BoxDrain == ASSUME NEW r \in Runs, BoxInv, K!Drain(r) PROVE BoxInv'
<1> USE DEF BoxInv
<1>1. BoxTyped'
  BY DEF BoxTyped, DockerPcs, PodmanPcs, BoxConstants, K!Drain, K!To, K!At, K!Fails, K!Fine, K!taskVars,
    K!imageVars, K!runVars
<1>2. BoxOneRun'
  BY DEF BoxOneRun, BoxTyped, K!Live, K!Docker, K!Refused, DockerPcs, PodmanPcs, BoxConstants, K!Drain, K!To,
    K!At, K!Fails, K!Fine, K!taskVars, K!imageVars, K!runVars
<1>3. BoxWatched'
  BY DEF BoxWatched, BoxTyped, BoxOneRun, K!Docker, K!Live, DockerPcs, PodmanPcs, BoxConstants, K!Drain, K!To,
    K!At, K!Fails, K!Fine, K!taskVars, K!imageVars, K!runVars
<1>4. BoxListed'
  BY DEF BoxListed, BoxTyped, BoxOneRun, K!Live, K!Docker, DockerPcs, PodmanPcs, BoxConstants, K!Drain, K!To,
    K!At, K!Fails, K!Fine, K!taskVars, K!imageVars, K!runVars
<1>5. K!EachHasAnOwner'
  BY DEF K!EachHasAnOwner, BoxTyped, BoxOneRun, BoxWatched, BoxListed, K!Live, K!Docker, DockerPcs, PodmanPcs,
    BoxConstants, K!Drain, K!To, K!At, K!Fails, K!Fine, K!taskVars, K!imageVars, K!runVars
<1>6. K!AllowedOnly'
  BY DEF K!AllowedOnly, BoxTyped, BoxOneRun, K!Refused, DockerPcs, PodmanPcs, BoxConstants, K!Drain, K!To,
    K!At, K!Fails, K!Fine, K!taskVars, K!imageVars, K!runVars
<1> QED
  BY <1>1, <1>2, <1>3, <1>4, <1>5, <1>6

LEMMA BoxRemove == ASSUME NEW r \in Runs, BoxInv, K!Remove(r) PROVE BoxInv'
<1> USE DEF BoxInv
<1>1. BoxTyped'
  BY DEF BoxTyped, DockerPcs, PodmanPcs, BoxConstants, K!Remove, K!To, K!At, K!Fails, K!Fine, K!taskVars,
    K!imageVars, K!runVars
<1>2. BoxOneRun'
  BY DEF BoxOneRun, BoxTyped, K!Live, K!Docker, K!Refused, DockerPcs, PodmanPcs, BoxConstants, K!Remove, K!To,
    K!At, K!Fails, K!Fine, K!taskVars, K!imageVars, K!runVars
<1>3. BoxWatched'
  BY DEF BoxWatched, BoxTyped, BoxOneRun, K!Docker, K!Live, DockerPcs, PodmanPcs, BoxConstants, K!Remove,
    K!To, K!At, K!Fails, K!Fine, K!taskVars, K!imageVars, K!runVars
<1>4. BoxListed'
  BY DEF BoxListed, BoxTyped, BoxOneRun, K!Live, K!Docker, DockerPcs, PodmanPcs, BoxConstants, K!Remove, K!To,
    K!At, K!Fails, K!Fine, K!taskVars, K!imageVars, K!runVars
<1>5. K!EachHasAnOwner'
  BY DEF K!EachHasAnOwner, BoxTyped, BoxOneRun, BoxWatched, BoxListed, K!Live, K!Docker, DockerPcs, PodmanPcs,
    BoxConstants, K!Remove, K!To, K!At, K!Fails, K!Fine, K!taskVars, K!imageVars, K!runVars
<1>6. K!AllowedOnly'
  BY DEF K!AllowedOnly, BoxTyped, BoxOneRun, K!Refused, DockerPcs, PodmanPcs, BoxConstants, K!Remove, K!To,
    K!At, K!Fails, K!Fine, K!taskVars, K!imageVars, K!runVars
<1> QED
  BY <1>1, <1>2, <1>3, <1>4, <1>5, <1>6

LEMMA BoxSpawn == ASSUME NEW r \in Runs, BoxInv, K!Spawn(r) PROVE BoxInv'
<1> USE DEF BoxInv
<1>1. BoxTyped'
  BY DEF BoxTyped, DockerPcs, PodmanPcs, BoxConstants, K!Spawn, K!To, K!At, K!Fails, K!Fine, K!taskVars,
    K!imageVars, K!runVars
<1>2. BoxOneRun'
  BY DEF BoxOneRun, BoxTyped, K!Live, K!Docker, K!Refused, DockerPcs, PodmanPcs, BoxConstants, K!Spawn, K!To,
    K!At, K!Fails, K!Fine, K!taskVars, K!imageVars, K!runVars
<1>3. BoxWatched'
  BY DEF BoxWatched, BoxTyped, BoxOneRun, K!Docker, K!Live, DockerPcs, PodmanPcs, BoxConstants, K!Spawn, K!To,
    K!At, K!Fails, K!Fine, K!taskVars, K!imageVars, K!runVars
<1>4. BoxListed'
  BY DEF BoxListed, BoxTyped, BoxOneRun, K!Live, K!Docker, DockerPcs, PodmanPcs, BoxConstants, K!Spawn, K!To,
    K!At, K!Fails, K!Fine, K!taskVars, K!imageVars, K!runVars
<1>5. K!EachHasAnOwner'
  BY DEF K!EachHasAnOwner, BoxTyped, BoxOneRun, BoxWatched, BoxListed, K!Live, K!Docker, DockerPcs, PodmanPcs,
    BoxConstants, K!Spawn, K!To, K!At, K!Fails, K!Fine, K!taskVars, K!imageVars, K!runVars
<1>6. K!AllowedOnly'
  BY DEF K!AllowedOnly, BoxTyped, BoxOneRun, K!Refused, DockerPcs, PodmanPcs, BoxConstants, K!Spawn, K!To,
    K!At, K!Fails, K!Fine, K!taskVars, K!imageVars, K!runVars
<1> QED
  BY <1>1, <1>2, <1>3, <1>4, <1>5, <1>6

LEMMA BoxClientRuns == ASSUME NEW r \in Runs, BoxInv, K!ClientRuns(r) PROVE BoxInv'
<1> USE DEF BoxInv
<1>1. BoxTyped'
  BY DEF BoxTyped, DockerPcs, PodmanPcs, BoxConstants, K!ClientRuns, K!ImageThere, K!Made, K!To, K!At,
    K!Fails, K!Fine, K!taskVars, K!imageVars, K!runVars
<1>2. BoxOneRun'
  BY DEF BoxOneRun, BoxTyped, K!Live, K!Docker, K!Refused, DockerPcs, PodmanPcs, BoxConstants, K!ClientRuns,
    K!ImageThere, K!Made, K!To, K!At, K!Fails, K!Fine, K!taskVars, K!imageVars, K!runVars
<1>3. BoxWatched'
  BY DEF BoxWatched, BoxTyped, BoxOneRun, K!Docker, K!Live, DockerPcs, PodmanPcs, BoxConstants, K!ClientRuns,
    K!ImageThere, K!Made, K!To, K!At, K!Fails, K!Fine, K!taskVars, K!imageVars, K!runVars
<1>4. BoxListed'
  BY DEF BoxListed, BoxTyped, BoxOneRun, K!Live, K!Docker, DockerPcs, PodmanPcs, BoxConstants, K!ClientRuns,
    K!ImageThere, K!Made, K!To, K!At, K!Fails, K!Fine, K!taskVars, K!imageVars, K!runVars
<1>5. K!EachHasAnOwner'
  BY DEF K!EachHasAnOwner, BoxTyped, BoxOneRun, BoxWatched, BoxListed, K!Live, K!Docker, DockerPcs, PodmanPcs,
    BoxConstants, K!ClientRuns, K!ImageThere, K!Made, K!To, K!At, K!Fails, K!Fine, K!taskVars, K!imageVars,
    K!runVars
<1>6. K!AllowedOnly'
  BY DEF K!AllowedOnly, BoxTyped, BoxOneRun, K!Refused, DockerPcs, PodmanPcs, BoxConstants, K!ClientRuns,
    K!ImageThere, K!Made, K!To, K!At, K!Fails, K!Fine, K!taskVars, K!imageVars, K!runVars
<1> QED
  BY <1>1, <1>2, <1>3, <1>4, <1>5, <1>6

LEMMA BoxClientReturns == ASSUME NEW r \in Runs, BoxInv, K!ClientReturns(r) PROVE BoxInv'
<1> USE DEF BoxInv
<1>1. BoxTyped'
  BY DEF BoxTyped, DockerPcs, PodmanPcs, BoxConstants, K!ClientReturns, K!To, K!At, K!Fails, K!Fine,
    K!taskVars, K!imageVars, K!runVars
<1>2. BoxOneRun'
  BY DEF BoxOneRun, BoxTyped, K!Live, K!Docker, K!Refused, DockerPcs, PodmanPcs, BoxConstants,
    K!ClientReturns, K!To, K!At, K!Fails, K!Fine, K!taskVars, K!imageVars, K!runVars
<1>3. BoxWatched'
  BY DEF BoxWatched, BoxTyped, BoxOneRun, K!Docker, K!Live, DockerPcs, PodmanPcs, BoxConstants,
    K!ClientReturns, K!To, K!At, K!Fails, K!Fine, K!taskVars, K!imageVars, K!runVars
<1>4. BoxListed'
  BY DEF BoxListed, BoxTyped, BoxOneRun, K!Live, K!Docker, DockerPcs, PodmanPcs, BoxConstants,
    K!ClientReturns, K!To, K!At, K!Fails, K!Fine, K!taskVars, K!imageVars, K!runVars
<1>5. K!EachHasAnOwner'
  BY DEF K!EachHasAnOwner, BoxTyped, BoxOneRun, BoxWatched, BoxListed, K!Live, K!Docker, DockerPcs, PodmanPcs,
    BoxConstants, K!ClientReturns, K!To, K!At, K!Fails, K!Fine, K!taskVars, K!imageVars, K!runVars
<1>6. K!AllowedOnly'
  BY DEF K!AllowedOnly, BoxTyped, BoxOneRun, K!Refused, DockerPcs, PodmanPcs, BoxConstants, K!ClientReturns,
    K!To, K!At, K!Fails, K!Fine, K!taskVars, K!imageVars, K!runVars
<1> QED
  BY <1>1, <1>2, <1>3, <1>4, <1>5, <1>6

LEMMA BoxClientKilled == ASSUME NEW r \in Runs, BoxInv, K!ClientKilled(r) PROVE BoxInv'
<1> USE DEF BoxInv
<1>1. BoxTyped'
  BY DEF BoxTyped, DockerPcs, PodmanPcs, BoxConstants, K!ClientKilled, K!ImageThere, K!Made, K!To, K!At,
    K!Fails, K!Fine, K!taskVars, K!imageVars, K!runVars
<1>2. BoxOneRun'
  BY DEF BoxOneRun, BoxTyped, K!Live, K!Docker, K!Refused, DockerPcs, PodmanPcs, BoxConstants, K!ClientKilled,
    K!ImageThere, K!Made, K!To, K!At, K!Fails, K!Fine, K!taskVars, K!imageVars, K!runVars
<1>3. BoxWatched'
  BY DEF BoxWatched, BoxTyped, BoxOneRun, K!Docker, K!Live, DockerPcs, PodmanPcs, BoxConstants,
    K!ClientKilled, K!ImageThere, K!Made, K!To, K!At, K!Fails, K!Fine, K!taskVars, K!imageVars, K!runVars
<1>4. BoxListed'
  BY DEF BoxListed, BoxTyped, BoxOneRun, K!Live, K!Docker, DockerPcs, PodmanPcs, BoxConstants, K!ClientKilled,
    K!ImageThere, K!Made, K!To, K!At, K!Fails, K!Fine, K!taskVars, K!imageVars, K!runVars
<1>5. K!EachHasAnOwner'
  BY DEF K!EachHasAnOwner, BoxTyped, BoxOneRun, BoxWatched, BoxListed, K!Live, K!Docker, DockerPcs, PodmanPcs,
    BoxConstants, K!ClientKilled, K!ImageThere, K!Made, K!To, K!At, K!Fails, K!Fine, K!taskVars, K!imageVars,
    K!runVars
<1>6. K!AllowedOnly'
  BY DEF K!AllowedOnly, BoxTyped, BoxOneRun, K!Refused, DockerPcs, PodmanPcs, BoxConstants, K!ClientKilled,
    K!ImageThere, K!Made, K!To, K!At, K!Fails, K!Fine, K!taskVars, K!imageVars, K!runVars
<1> QED
  BY <1>1, <1>2, <1>3, <1>4, <1>5, <1>6

LEMMA BoxWatch == ASSUME NEW r \in Runs, BoxInv, K!Watch(r) PROVE BoxInv'
<1> USE DEF BoxInv
<1>1. BoxTyped'
  BY DEF BoxTyped, DockerPcs, PodmanPcs, BoxConstants, K!Watch, K!Docker, K!To, K!At, K!Fails, K!Fine,
    K!taskVars, K!imageVars, K!runVars
<1>2. BoxOneRun'
  BY DEF BoxOneRun, BoxTyped, K!Live, K!Docker, K!Refused, DockerPcs, PodmanPcs, BoxConstants, K!Watch,
    K!Docker, K!To, K!At, K!Fails, K!Fine, K!taskVars, K!imageVars, K!runVars
<1>3. BoxWatched'
  BY DEF BoxWatched, BoxTyped, BoxOneRun, K!Docker, K!Live, DockerPcs, PodmanPcs, BoxConstants, K!Watch,
    K!Docker, K!To, K!At, K!Fails, K!Fine, K!taskVars, K!imageVars, K!runVars
<1>4. BoxListed'
  BY DEF BoxListed, BoxTyped, BoxOneRun, K!Live, K!Docker, DockerPcs, PodmanPcs, BoxConstants, K!Watch,
    K!Docker, K!To, K!At, K!Fails, K!Fine, K!taskVars, K!imageVars, K!runVars
<1>5. K!EachHasAnOwner'
  BY DEF K!EachHasAnOwner, BoxTyped, BoxOneRun, BoxWatched, BoxListed, K!Live, K!Docker, DockerPcs, PodmanPcs,
    BoxConstants, K!Watch, K!Docker, K!To, K!At, K!Fails, K!Fine, K!taskVars, K!imageVars, K!runVars
<1>6. K!AllowedOnly'
  BY DEF K!AllowedOnly, BoxTyped, BoxOneRun, K!Refused, DockerPcs, PodmanPcs, BoxConstants, K!Watch, K!Docker,
    K!To, K!At, K!Fails, K!Fine, K!taskVars, K!imageVars, K!runVars
<1> QED
  BY <1>1, <1>2, <1>3, <1>4, <1>5, <1>6

LEMMA BoxBootRemove == ASSUME NEW r \in Runs, BoxInv, K!BootRemove(r) PROVE BoxInv'
<1> USE DEF BoxInv
<1>1. BoxTyped'
  BY DEF BoxTyped, DockerPcs, PodmanPcs, BoxConstants, K!BootRemove, K!To, K!At, K!Fails, K!Fine, K!taskVars,
    K!imageVars, K!runVars
<1>2. BoxOneRun'
  BY DEF BoxOneRun, BoxTyped, K!Live, K!Docker, K!Refused, DockerPcs, PodmanPcs, BoxConstants, K!BootRemove,
    K!To, K!At, K!Fails, K!Fine, K!taskVars, K!imageVars, K!runVars
<1>3. BoxWatched'
  BY DEF BoxWatched, BoxTyped, BoxOneRun, K!Docker, K!Live, DockerPcs, PodmanPcs, BoxConstants, K!BootRemove,
    K!To, K!At, K!Fails, K!Fine, K!taskVars, K!imageVars, K!runVars
<1>4. BoxListed'
  BY DEF BoxListed, BoxTyped, BoxOneRun, K!Live, K!Docker, DockerPcs, PodmanPcs, BoxConstants, K!BootRemove,
    K!To, K!At, K!Fails, K!Fine, K!taskVars, K!imageVars, K!runVars
<1>5. K!EachHasAnOwner'
  BY DEF K!EachHasAnOwner, BoxTyped, BoxOneRun, BoxWatched, BoxListed, K!Live, K!Docker, DockerPcs, PodmanPcs,
    BoxConstants, K!BootRemove, K!To, K!At, K!Fails, K!Fine, K!taskVars, K!imageVars, K!runVars
<1>6. K!AllowedOnly'
  BY DEF K!AllowedOnly, BoxTyped, BoxOneRun, K!Refused, DockerPcs, PodmanPcs, BoxConstants, K!BootRemove,
    K!To, K!At, K!Fails, K!Fine, K!taskVars, K!imageVars, K!runVars
<1> QED
  BY <1>1, <1>2, <1>3, <1>4, <1>5, <1>6

LEMMA BoxCollectList == ASSUME BoxInv, K!CollectList PROVE BoxInv'
<1> USE DEF BoxInv
<1>1. BoxTyped'
  BY DEF BoxTyped, DockerPcs, PodmanPcs, BoxConstants, K!CollectList, K!To, K!At, K!Fails, K!Fine, K!taskVars,
    K!imageVars, K!runVars
<1>2. BoxOneRun'
  BY DEF BoxOneRun, BoxTyped, K!Live, K!Docker, K!Refused, DockerPcs, PodmanPcs, BoxConstants, K!CollectList,
    K!To, K!At, K!Fails, K!Fine, K!taskVars, K!imageVars, K!runVars
<1>3. BoxWatched'
  BY DEF BoxWatched, BoxTyped, BoxOneRun, K!Docker, K!Live, DockerPcs, PodmanPcs, BoxConstants, K!CollectList,
    K!To, K!At, K!Fails, K!Fine, K!taskVars, K!imageVars, K!runVars
<1>4. BoxListed'
  BY DEF BoxListed, BoxTyped, BoxOneRun, K!Live, K!Docker, DockerPcs, PodmanPcs, BoxConstants, K!CollectList,
    K!To, K!At, K!Fails, K!Fine, K!taskVars, K!imageVars, K!runVars
<1>5. K!EachHasAnOwner'
  BY DEF K!EachHasAnOwner, BoxTyped, BoxOneRun, BoxWatched, BoxListed, K!Live, K!Docker, DockerPcs, PodmanPcs,
    BoxConstants, K!CollectList, K!To, K!At, K!Fails, K!Fine, K!taskVars, K!imageVars, K!runVars
<1>6. K!AllowedOnly'
  BY DEF K!AllowedOnly, BoxTyped, BoxOneRun, K!Refused, DockerPcs, PodmanPcs, BoxConstants, K!CollectList,
    K!To, K!At, K!Fails, K!Fine, K!taskVars, K!imageVars, K!runVars
<1> QED
  BY <1>1, <1>2, <1>3, <1>4, <1>5, <1>6

LEMMA BoxCollectOne == ASSUME NEW i \in images, BoxInv, K!CollectOne(i) PROVE BoxInv'
<1> USE DEF BoxInv
<1>1. BoxTyped'
  BY DEF BoxTyped, DockerPcs, PodmanPcs, BoxConstants, K!CollectOne, K!To, K!At, K!Fails, K!Fine, K!taskVars,
    K!imageVars, K!runVars
<1>2. BoxOneRun'
  BY DEF BoxOneRun, BoxTyped, K!Live, K!Docker, K!Refused, DockerPcs, PodmanPcs, BoxConstants, K!CollectOne,
    K!To, K!At, K!Fails, K!Fine, K!taskVars, K!imageVars, K!runVars
<1>3. BoxWatched'
  BY DEF BoxWatched, BoxTyped, BoxOneRun, K!Docker, K!Live, DockerPcs, PodmanPcs, BoxConstants, K!CollectOne,
    K!To, K!At, K!Fails, K!Fine, K!taskVars, K!imageVars, K!runVars
<1>4. BoxListed'
  BY DEF BoxListed, BoxTyped, BoxOneRun, K!Live, K!Docker, DockerPcs, PodmanPcs, BoxConstants, K!CollectOne,
    K!To, K!At, K!Fails, K!Fine, K!taskVars, K!imageVars, K!runVars
<1>5. K!EachHasAnOwner'
  BY DEF K!EachHasAnOwner, BoxTyped, BoxOneRun, BoxWatched, BoxListed, K!Live, K!Docker, DockerPcs, PodmanPcs,
    BoxConstants, K!CollectOne, K!To, K!At, K!Fails, K!Fine, K!taskVars, K!imageVars, K!runVars
<1>6. K!AllowedOnly'
  BY DEF K!AllowedOnly, BoxTyped, BoxOneRun, K!Refused, DockerPcs, PodmanPcs, BoxConstants, K!CollectOne,
    K!To, K!At, K!Fails, K!Fine, K!taskVars, K!imageVars, K!runVars
<1> QED
  BY <1>1, <1>2, <1>3, <1>4, <1>5, <1>6

LEMMA BoxEdit == ASSUME BoxInv, K!Edit PROVE BoxInv'
<1> USE DEF BoxInv
<1>1. BoxTyped'
  BY DEF BoxTyped, DockerPcs, PodmanPcs, BoxConstants, K!Edit, K!To, K!At, K!Fails, K!Fine, K!taskVars,
    K!imageVars, K!runVars
<1>2. BoxOneRun'
  BY DEF BoxOneRun, BoxTyped, K!Live, K!Docker, K!Refused, DockerPcs, PodmanPcs, BoxConstants, K!Edit, K!To,
    K!At, K!Fails, K!Fine, K!taskVars, K!imageVars, K!runVars
<1>3. BoxWatched'
  BY DEF BoxWatched, BoxTyped, BoxOneRun, K!Docker, K!Live, DockerPcs, PodmanPcs, BoxConstants, K!Edit, K!To,
    K!At, K!Fails, K!Fine, K!taskVars, K!imageVars, K!runVars
<1>4. BoxListed'
  BY DEF BoxListed, BoxTyped, BoxOneRun, K!Live, K!Docker, DockerPcs, PodmanPcs, BoxConstants, K!Edit, K!To,
    K!At, K!Fails, K!Fine, K!taskVars, K!imageVars, K!runVars
<1>5. K!EachHasAnOwner'
  BY DEF K!EachHasAnOwner, BoxTyped, BoxOneRun, BoxWatched, BoxListed, K!Live, K!Docker, DockerPcs, PodmanPcs,
    BoxConstants, K!Edit, K!To, K!At, K!Fails, K!Fine, K!taskVars, K!imageVars, K!runVars
<1>6. K!AllowedOnly'
  BY DEF K!AllowedOnly, BoxTyped, BoxOneRun, K!Refused, DockerPcs, PodmanPcs, BoxConstants, K!Edit, K!To,
    K!At, K!Fails, K!Fine, K!taskVars, K!imageVars, K!runVars
<1> QED
  BY <1>1, <1>2, <1>3, <1>4, <1>5, <1>6

LEMMA BoxCrash == ASSUME BoxInv, K!Crash PROVE BoxInv'
<1> USE DEF BoxInv
<1>1. BoxTyped'
  BY DEF BoxTyped, DockerPcs, PodmanPcs, BoxConstants, K!Crash, K!Live, K!To, K!At, K!Fails, K!Fine,
    K!taskVars, K!imageVars, K!runVars
<1>2. BoxOneRun'
  BY DEF BoxOneRun, BoxTyped, K!Live, K!Docker, K!Refused, DockerPcs, PodmanPcs, BoxConstants, K!Crash,
    K!Live, K!To, K!At, K!Fails, K!Fine, K!taskVars, K!imageVars, K!runVars
<1>3. BoxWatched'
  BY DEF BoxWatched, BoxTyped, BoxOneRun, K!Docker, K!Live, DockerPcs, PodmanPcs, BoxConstants, K!Crash,
    K!Live, K!To, K!At, K!Fails, K!Fine, K!taskVars, K!imageVars, K!runVars
<1>4. BoxListed'
  BY DEF BoxListed, BoxTyped, BoxOneRun, K!Live, K!Docker, DockerPcs, PodmanPcs, BoxConstants, K!Crash,
    K!Live, K!To, K!At, K!Fails, K!Fine, K!taskVars, K!imageVars, K!runVars
<1>5. K!EachHasAnOwner'
  BY DEF K!EachHasAnOwner, BoxTyped, BoxOneRun, BoxWatched, BoxListed, K!Live, K!Docker, DockerPcs, PodmanPcs,
    BoxConstants, K!Crash, K!Live, K!To, K!At, K!Fails, K!Fine, K!taskVars, K!imageVars, K!runVars
<1>6. K!AllowedOnly'
  BY DEF K!AllowedOnly, BoxTyped, BoxOneRun, K!Refused, DockerPcs, PodmanPcs, BoxConstants, K!Crash, K!Live,
    K!To, K!At, K!Fails, K!Fine, K!taskVars, K!imageVars, K!runVars
<1> QED
  BY <1>1, <1>2, <1>3, <1>4, <1>5, <1>6

LEMMA BoxBootList == ASSUME BoxInv, K!BootList PROVE BoxInv'
<1> USE DEF BoxInv
<1>1. BoxTyped'
  BY DEF BoxTyped, DockerPcs, PodmanPcs, BoxConstants, K!BootList, K!To, K!At, K!Fails, K!Fine, K!taskVars,
    K!imageVars, K!runVars
<1>2. BoxOneRun'
  BY DEF BoxOneRun, BoxTyped, K!Live, K!Docker, K!Refused, DockerPcs, PodmanPcs, BoxConstants, K!BootList,
    K!To, K!At, K!Fails, K!Fine, K!taskVars, K!imageVars, K!runVars
<1>3. BoxWatched'
  BY DEF BoxWatched, BoxTyped, BoxOneRun, K!Docker, K!Live, DockerPcs, PodmanPcs, BoxConstants, K!BootList,
    K!To, K!At, K!Fails, K!Fine, K!taskVars, K!imageVars, K!runVars
<1>4. BoxListed'
  BY DEF BoxListed, BoxTyped, BoxOneRun, K!Live, K!Docker, DockerPcs, PodmanPcs, BoxConstants, K!BootList,
    K!To, K!At, K!Fails, K!Fine, K!taskVars, K!imageVars, K!runVars
<1>5. K!EachHasAnOwner'
  BY DEF K!EachHasAnOwner, BoxTyped, BoxOneRun, BoxWatched, BoxListed, K!Live, K!Docker, DockerPcs, PodmanPcs,
    BoxConstants, K!BootList, K!To, K!At, K!Fails, K!Fine, K!taskVars, K!imageVars, K!runVars
<1>6. K!AllowedOnly'
  BY DEF K!AllowedOnly, BoxTyped, BoxOneRun, K!Refused, DockerPcs, PodmanPcs, BoxConstants, K!BootList, K!To,
    K!At, K!Fails, K!Fine, K!taskVars, K!imageVars, K!runVars
<1> QED
  BY <1>1, <1>2, <1>3, <1>4, <1>5, <1>6

LEMMA BoxBootDone == ASSUME BoxInv, K!BootDone PROVE BoxInv'
<1> USE DEF BoxInv
<1>1. BoxTyped'
  BY DEF BoxTyped, DockerPcs, PodmanPcs, BoxConstants, K!BootDone, K!To, K!At, K!Fails, K!Fine, K!taskVars,
    K!imageVars, K!runVars
<1>2. BoxOneRun'
  BY DEF BoxOneRun, BoxTyped, K!Live, K!Docker, K!Refused, DockerPcs, PodmanPcs, BoxConstants, K!BootDone,
    K!To, K!At, K!Fails, K!Fine, K!taskVars, K!imageVars, K!runVars
<1>3. BoxWatched'
  BY DEF BoxWatched, BoxTyped, BoxOneRun, K!Docker, K!Live, DockerPcs, PodmanPcs, BoxConstants, K!BootDone,
    K!To, K!At, K!Fails, K!Fine, K!taskVars, K!imageVars, K!runVars
<1>4. BoxListed'
  BY DEF BoxListed, BoxTyped, BoxOneRun, K!Live, K!Docker, DockerPcs, PodmanPcs, BoxConstants, K!BootDone,
    K!To, K!At, K!Fails, K!Fine, K!taskVars, K!imageVars, K!runVars
<1>5. K!EachHasAnOwner'
  BY DEF K!EachHasAnOwner, BoxTyped, BoxOneRun, BoxWatched, BoxListed, K!Live, K!Docker, DockerPcs, PodmanPcs,
    BoxConstants, K!BootDone, K!To, K!At, K!Fails, K!Fine, K!taskVars, K!imageVars, K!runVars
<1>6. K!AllowedOnly'
  BY DEF K!AllowedOnly, BoxTyped, BoxOneRun, K!Refused, DockerPcs, PodmanPcs, BoxConstants, K!BootDone, K!To,
    K!At, K!Fails, K!Fine, K!taskVars, K!imageVars, K!runVars
<1> QED
  BY <1>1, <1>2, <1>3, <1>4, <1>5, <1>6

LEMMA BoxNext == BoxInv /\ [K!Next]_(K!vars) => BoxInv'
<1> SUFFICES ASSUME BoxInv, [K!Next]_(K!vars) PROVE BoxInv'
  OBVIOUS
<1>1. CASE UNCHANGED K!vars
  <2>1. UNCHANGED <<boxPhase, boxCfg, boxFile, boxKnown, images, doomed, boxPc, boxTag, boxCancelled, watcher, box, boxOrphans, left, boxEdits, boxFaults>>
    BY <1>1 DEF K!vars
  <2>2. BoxTyped'
    BY <2>1 DEF BoxInv, BoxTyped, DockerPcs, PodmanPcs, BoxConstants
  <2>3. BoxOneRun'
    BY <2>1 DEF BoxInv, BoxOneRun, BoxTyped, K!Live, K!Docker, K!Refused, DockerPcs, PodmanPcs, BoxConstants
  <2>4. BoxWatched'
    BY <2>1 DEF BoxInv, BoxWatched, BoxTyped, BoxOneRun, K!Docker, K!Live, DockerPcs, PodmanPcs, BoxConstants
  <2>5. BoxListed'
    BY <2>1 DEF BoxInv, BoxListed, BoxTyped, BoxOneRun, K!Live, K!Docker, DockerPcs, PodmanPcs, BoxConstants
  <2>6. K!EachHasAnOwner'
    BY <2>1 DEF BoxInv, K!EachHasAnOwner, BoxTyped, BoxOneRun, BoxWatched, BoxListed, K!Live, K!Docker,
      DockerPcs, PodmanPcs, BoxConstants
  <2>7. K!AllowedOnly'
    BY <2>1 DEF BoxInv, K!AllowedOnly, BoxTyped, BoxOneRun, K!Refused, DockerPcs, PodmanPcs, BoxConstants
  <2> QED
    BY <2>2, <2>3, <2>4, <2>5, <2>6, <2>7 DEF BoxInv
<1>2. ASSUME NEW r \in Runs,
             K!Begin(r) \/ K!Cancel(r) \/ K!Check(r) \/ K!Inspect(r) \/ K!Build(r) \/ K!ContainerExits(r) \/ K!Create(r) \/ K!Start(r) \/ K!Attach(r) \/ K!Wait(r) \/ K!Drain(r) \/ K!Remove(r) \/ K!Spawn(r) \/ K!ClientRuns(r) \/ K!ClientReturns(r) \/ K!ClientKilled(r) \/ K!Watch(r) \/ K!BootRemove(r)
      PROVE  BoxInv'
  BY <1>2, BoxBegin, BoxCancel, BoxCheck, BoxInspect, BoxBuild, BoxContainerExits, BoxCreate, BoxStart,
    BoxAttach, BoxWait, BoxDrain, BoxRemove, BoxSpawn, BoxClientRuns, BoxClientReturns, BoxClientKilled,
    BoxWatch, BoxBootRemove
<1>3. ASSUME NEW i \in images, K!CollectOne(i) PROVE BoxInv'
  BY <1>3, BoxCollectOne
<1> QED
  BY <1>1, <1>2, <1>3, BoxCollectList, BoxEdit, BoxCrash, BoxBootList, BoxBootDone DEF K!Next

LEMMA BoxMeans == BoxInv => K!TypeOK /\ K!EachHasAnOwner /\ K!OneContainer /\ K!AllowedOnly
<1>1. BoxInv => K!TypeOK /\ K!EachHasAnOwner /\ K!AllowedOnly
  BY DEF BoxInv, BoxTyped, K!TypeOK
<1>2. BoxInv => K!OneContainer
  <2> SUFFICES ASSUME BoxInv, NEW r \in Runs \ left, NEW s \in Runs \ left, boxPhase = "up", r # s,
                      box[r] = "running", box[s] = "running"
               PROVE  ~K!Docker /\ {r, s} \cap boxCancelled # {}
    BY DEF K!OneContainer
  <2>1. box[r] # None /\ box[s] # None
    BY DEF BoxInv, BoxTyped, BoxConstants
  <2>2. ~(K!Live(r) /\ K!Live(s))
    BY DEF BoxInv, BoxOneRun
  <2> QED
    BY <2>1, <2>2 DEF BoxInv, K!EachHasAnOwner, K!Live
<1> QED
  BY <1>1, <1>2

\* What docker.Run, the podman executor and CleanupOrphanedContainers promise.
THEOREM ContainersEnd ==
  BoxConstants => (K!Spec => [](K!TypeOK /\ K!EachHasAnOwner /\ K!OneContainer /\ K!AllowedOnly))
  BY BoxInit, BoxNext, BoxMeans, PTL DEF K!Spec

-----------------------------------------------------------------------------
(***************************************************************************)
(* The processes of runs: TaskProcess.                                     *)
(***************************************************************************)

\* What the goroutine of a run has before it: the first attempt, an attempt, and after it.
ProcessBefore == {"mint", "serve", "temp"}
ProcessStops == {"conns", "flush", "flushed", "revoke", "done"}
ProcessAfter == {"grace", "pipes", "relock", "classify", "unlisten", "conns", "flush", "flushed"}
ProcessResults == [err : BOOLEAN, value : BOOLEAN, suspended : BOOLEAN]
ProcessLogs == [sent : Nat, read : Nat, saved : Nat]
ProcessTyped ==
  /\ procPc \in ProcessBefore \cup {"start", "await"} \cup ProcessAfter \cup ProcessStops
  /\ attempt \in 1..2 /\ silent \in BOOLEAN /\ procFiles \subseteq {"tmp", "socket"} /\ listener \in BOOLEAN
  /\ procConn \in {"none", "queued", "accepted", "handled", "closed"}
  /\ proc \in {"none", "run", "posted", "told", "dead"}
  /\ exit \in {"none", "clean", "error", "stale", "killed"} /\ (exit # "none" <=> proc = "dead")
  /\ queue \in Seq({"log", "return", "suspend"})
  /\ posted \in {"none", "return", "suspend"} /\ acking \in {"none", "return", "suspend"}
  /\ ret \in BOOLEAN /\ suspend \in BOOLEAN
  /\ procLogs \in ProcessLogs
  /\ flusher \in BOOLEAN /\ stopping \in BOOLEAN /\ procCancelled \in BOOLEAN
  /\ result \in ProcessResults

\* Where the goroutine is, there is or is not a process, a connection and a listener.
ProcessPlaces ==
  /\ procPc \in ProcessBefore =>
       proc = "none" /\ procConn = "none" /\ ~result.value /\ ~result.suspended
  /\ procPc = "start" => proc \in {"none", "dead"} /\ procConn = "none" /\ exit \in {"none", "stale"}
                         /\ ~result.suspended
  /\ procPc = "relock" => exit = "stale"
  /\ procPc \in {"await", "grace", "pipes", "relock"} => ~result.suspended
  /\ procPc = "await" => ~result.value /\ ~result.err
  /\ procPc \in {"relock", "classify", "unlisten"} \cup ProcessStops => silent \/ proc \in {"none", "dead"}
  /\ procPc \in {"mint", "serve"} \cup ProcessStops => procFiles = {} /\ ~listener
  /\ procPc \in {"mint", "serve", "revoke", "done"} => ~flusher
  /\ procPc \in {"mint", "serve"} => procLogs.read = 0
  /\ exit = "stale" => procConn = "none"
  /\ procPc \in ProcessAfter \cup {"revoke", "done"} /\ procConn \in {"none", "queued", "accepted"} =>
       proc \in {"none", "dead"}
  /\ procPc \in ProcessStops => procConn # "queued"

ProcessReturns == ret \/ acking = "return" \/ posted = "return" \/ result.value \/ \E i \in 1..Len(queue) : queue[i] = "return"
ProcessSuspends == suspend \/ acking = "suspend" \/ posted = "suspend" \/ \E i \in 1..Len(queue) : queue[i] = "suspend"

\* A process posts once, a return value or a suspension, and its answer follows its effect.
ProcessPosts ==
  /\ procConn # "handled" => queue = <<>> /\ acking = "none"
  /\ ~(ProcessReturns /\ ProcessSuspends)
  /\ proc \in {"none", "run"} \/ procConn \in {"none", "queued", "accepted"} => ~ProcessReturns /\ ~ProcessSuspends
  /\ \A i, j \in 1..Len(queue) : queue[i] # "log" /\ queue[j] # "log" => i = j
  /\ acking # "none" \/ posted # "none" => \A i \in 1..Len(queue) : queue[i] = "log"
  /\ procPc = "await" /\ (acking = "return" \/ posted = "return") => ret
  /\ acking = "suspend" \/ posted = "suspend" => suspend

\* Every entry sent is read or in the queue, and none is left unread once the server stops.
ProcessReads ==
  /\ procLogs.saved <= procLogs.read
  /\ (\E i \in 1..Len(queue) : queue[i] # "log") => procLogs.read + Len(queue) = procLogs.sent + 1
  /\ (\A i \in 1..Len(queue) : queue[i] = "log") => procLogs.read + Len(queue) = procLogs.sent
  /\ procPc \in {"flush", "flushed", "revoke", "done"} =>
       queue = <<>> /\ acking = "none" /\ (procConn \in {"none", "closed"} \/ proc \in {"none", "dead"})
  /\ stopping => procPc \in {"flushed", "revoke", "done"}
  /\ procPc \notin {"mint", "serve", "revoke", "done"} /\ ~flusher /\ ~procCancelled =>
       stopping /\ procLogs.saved = procLogs.read
  /\ procPc \in {"revoke", "done"} /\ ~procCancelled => procLogs.saved = procLogs.read

\* What AwaitBridgeCompletion made of the exit and the answer.
ProcessOutcome ==
  /\ procPc \in ProcessAfter =>
       /\ ~result.value => (result.err <=> exit # "clean") /\ proc \in {"none", "dead"}
       /\ result.err => exit # "clean" /\ proc \in {"none", "dead"}
       /\ posted = "return" => result.value
  /\ procPc \in {"unlisten", "conns", "flush", "flushed"} =>
       /\ result.suspended => suspend /\ ~result.err
       /\ posted = "suspend" /\ ~result.err => result.suspended

ProcessInv == ProcessTyped /\ ProcessPlaces /\ ProcessPosts /\ ProcessReads /\ ProcessOutcome

\* What an update of a field leaves.
LEMMA ProcessErr ==
  \A x \in ProcessResults : \A b \in BOOLEAN :
    LET y == [x EXCEPT !.err = b] IN
    y \in ProcessResults /\ y.err = b /\ y.value = x.value /\ y.suspended = x.suspended
  BY DEF ProcessResults

LEMMA ProcessInit == P!Init => ProcessInv
<1> SUFFICES ASSUME P!Init PROVE ProcessInv
  OBVIOUS
<1>1. queue = <<>> /\ Len(queue) = 0
  BY DEF P!Init
<1>2. ProcessTyped
  <2>1. listener \in BOOLEAN /\ ret \in BOOLEAN /\ suspend \in BOOLEAN /\ flusher \in BOOLEAN
    BY DEF P!Init
  <2>2. stopping \in BOOLEAN /\ procCancelled \in BOOLEAN /\ silent \in BOOLEAN
    BY DEF P!Init
  <2>3. result \in ProcessResults /\ procLogs \in ProcessLogs
    BY DEF P!Init, ProcessResults, ProcessLogs
  <2>4. /\ procPc = "mint" /\ attempt = 1 /\ procFiles = {} /\ procConn = "none" /\ proc = "none" /\ exit = "none"
        /\ queue = <<>> /\ posted = "none" /\ acking = "none"
    BY DEF P!Init
  <2> QED
    BY <2>1, <2>2, <2>3, <2>4 DEF ProcessTyped, ProcessBefore
<1>4. ProcessPlaces /\ ProcessOutcome
  BY DEF P!Init, ProcessTyped, ProcessResults, ProcessLogs, ProcessPlaces, ProcessOutcome, ProcessBefore,
    ProcessStops, ProcessAfter
<1>3. ProcessPosts /\ ProcessReads
  BY <1>1 DEF P!Init, ProcessPosts, ProcessReads, ProcessReturns, ProcessSuspends
<1> QED
  BY <1>2, <1>3, <1>4 DEF ProcessInv

LEMMA ProcessMint == ASSUME ProcessInv, P!Mint PROVE ProcessInv'
<1> USE DEF ProcessInv
<1>1. ProcessTyped'
  <2>1. result' \in ProcessResults
    BY DEF ProcessTyped, ProcessResults, P!Mint, P!Fail
  <2> QED
    BY <2>1 DEF ProcessTyped, ProcessBefore, ProcessStops, ProcessAfter, P!Mint, P!Fail, P!Prepared, P!Run,
      P!Served,
      P!Process, P!procVars, P!srvVars
<1>2. ProcessPlaces'
  BY DEF ProcessPlaces, ProcessTyped, ProcessResults, ProcessLogs, ProcessBefore, ProcessStops, ProcessAfter,
    ProcessPosts, ProcessReturns, ProcessSuspends, P!Mint, P!Fail, P!Prepared, P!Run, P!Served, P!Process,
    P!procVars, P!srvVars
<1>3. ProcessPosts'
  BY DEF ProcessPosts, ProcessTyped, ProcessResults, ProcessLogs, ProcessBefore, ProcessStops, ProcessAfter,
    ProcessPlaces, ProcessReturns, ProcessSuspends, P!Mint, P!Fail, P!Prepared, P!Run, P!Served, P!Process,
    P!procVars, P!srvVars
<1>4. ProcessReads'
  BY DEF ProcessReads, ProcessTyped, ProcessResults, ProcessLogs, ProcessBefore, ProcessStops, ProcessAfter,
    ProcessPlaces, ProcessPosts, P!Mint, P!Fail, P!Prepared, P!Run, P!Served, P!Process, P!procVars, P!srvVars
<1>5. ProcessOutcome'
  BY DEF ProcessOutcome, ProcessTyped, ProcessResults, ProcessLogs, ProcessBefore, ProcessStops, ProcessAfter,
    ProcessPlaces, ProcessPosts, ProcessReturns, ProcessSuspends, P!Mint, P!Fail, P!Prepared, P!Run, P!Served,
    P!Process, P!procVars, P!srvVars
<1> QED
  BY <1>1, <1>2, <1>3, <1>4, <1>5

LEMMA ProcessServe == ASSUME ProcessInv, P!Serve PROVE ProcessInv'
<1> USE DEF ProcessInv
<1>1. ProcessTyped'
  <2>1. result' \in ProcessResults
    BY DEF ProcessTyped, ProcessResults, P!Serve, P!Fail
  <2>2. UNCHANGED <<attempt, silent, procConn, proc, exit, queue, posted, ret, suspend, acking, procLogs, stopping, procCancelled>>
    BY DEF P!Serve, P!Fail, P!Prepared, P!Run, P!Served, P!Process, P!procVars, P!srvVars
  <2>3. procPc' \in {"temp", "revoke"} /\ procFiles' \subseteq {"tmp", "socket"} /\ listener' \in BOOLEAN /\ flusher' \in BOOLEAN
    BY DEF ProcessTyped, P!Serve, P!Fail, P!Prepared, P!Run, P!Served, P!Process, P!procVars, P!srvVars
  <2> QED
    BY <2>1, <2>2, <2>3 DEF ProcessTyped, ProcessBefore, ProcessStops, ProcessAfter
<1>2. ProcessPlaces'
  BY DEF ProcessPlaces, ProcessTyped, ProcessResults, ProcessLogs, ProcessBefore, ProcessStops, ProcessAfter,
    ProcessPosts, ProcessReturns, ProcessSuspends, P!Serve, P!Fail, P!Prepared, P!Run, P!Served, P!Process,
    P!procVars, P!srvVars
<1>3. ProcessPosts'
  BY DEF ProcessPosts, ProcessTyped, ProcessResults, ProcessLogs, ProcessBefore, ProcessStops, ProcessAfter,
    ProcessPlaces, ProcessReturns, ProcessSuspends, P!Serve, P!Fail, P!Prepared, P!Run, P!Served, P!Process,
    P!procVars, P!srvVars
<1>4. ProcessReads'
  BY DEF ProcessReads, ProcessTyped, ProcessResults, ProcessLogs, ProcessBefore, ProcessStops, ProcessAfter,
    ProcessPlaces, ProcessPosts, P!Serve, P!Fail, P!Prepared, P!Run, P!Served, P!Process, P!procVars,
    P!srvVars
<1>5. ProcessOutcome'
  BY DEF ProcessOutcome, ProcessTyped, ProcessResults, ProcessLogs, ProcessBefore, ProcessStops, ProcessAfter,
    ProcessPlaces, ProcessPosts, ProcessReturns, ProcessSuspends, P!Serve, P!Fail, P!Prepared, P!Run,
    P!Served, P!Process, P!procVars, P!srvVars
<1> QED
  BY <1>1, <1>2, <1>3, <1>4, <1>5

LEMMA ProcessTemp == ASSUME ProcessInv, P!Temp PROVE ProcessInv'
<1> USE DEF ProcessInv
<1>1. ProcessTyped'
  <2>1. result' \in ProcessResults
    BY DEF ProcessTyped, ProcessResults, P!Temp, P!Fail
  <2> QED
    BY <2>1 DEF ProcessTyped, ProcessBefore, ProcessStops, ProcessAfter, P!Temp, P!Fail, P!Prepared, P!Run,
      P!Served,
      P!Process, P!procVars, P!srvVars
<1>2. ProcessPlaces'
  BY DEF ProcessPlaces, ProcessTyped, ProcessResults, ProcessLogs, ProcessBefore, ProcessStops, ProcessAfter,
    ProcessPosts, ProcessReturns, ProcessSuspends, P!Temp, P!Fail, P!Prepared, P!Run, P!Served, P!Process,
    P!procVars, P!srvVars
<1>3. ProcessPosts'
  BY DEF ProcessPosts, ProcessTyped, ProcessResults, ProcessLogs, ProcessBefore, ProcessStops, ProcessAfter,
    ProcessPlaces, ProcessReturns, ProcessSuspends, P!Temp, P!Fail, P!Prepared, P!Run, P!Served, P!Process,
    P!procVars, P!srvVars
<1>4. ProcessReads'
  BY DEF ProcessReads, ProcessTyped, ProcessResults, ProcessLogs, ProcessBefore, ProcessStops, ProcessAfter,
    ProcessPlaces, ProcessPosts, P!Temp, P!Fail, P!Prepared, P!Run, P!Served, P!Process, P!procVars, P!srvVars
<1>5. ProcessOutcome'
  BY DEF ProcessOutcome, ProcessTyped, ProcessResults, ProcessLogs, ProcessBefore, ProcessStops, ProcessAfter,
    ProcessPlaces, ProcessPosts, ProcessReturns, ProcessSuspends, P!Temp, P!Fail, P!Prepared, P!Run, P!Served,
    P!Process, P!procVars, P!srvVars
<1> QED
  BY <1>1, <1>2, <1>3, <1>4, <1>5

LEMMA ProcessStart == ASSUME ProcessInv, P!Start PROVE ProcessInv'
<1> USE DEF ProcessInv
<1>1. ProcessTyped'
  <2>1. result' \in ProcessResults
    BY DEF ProcessTyped, ProcessResults, P!Start, P!Fail
  <2> QED
    BY <2>1 DEF ProcessTyped, ProcessBefore, ProcessStops, ProcessAfter, P!Start, P!Fail, P!Prepared, P!Run,
      P!Served,
      P!Process, P!procVars, P!srvVars
<1>2. ProcessPlaces'
  BY DEF ProcessPlaces, ProcessTyped, ProcessResults, ProcessLogs, ProcessBefore, ProcessStops, ProcessAfter,
    ProcessPosts, ProcessReturns, ProcessSuspends, P!Start, P!Fail, P!Prepared, P!Run, P!Served, P!Process,
    P!procVars, P!srvVars
<1>3. ProcessPosts'
  <2>1. UNCHANGED <<queue, posted, ret, suspend, acking>> /\ procConn' = "none"
    BY DEF P!Start, ProcessPlaces
  <2>2. queue = <<>> /\ Len(queue) = 0 /\ acking = "none" /\ ~ProcessReturns /\ ~ProcessSuspends
    BY DEF P!Start, ProcessPlaces, ProcessPosts
  <2>3. result'.value = FALSE
    BY <2>2 DEF P!Start, P!Fail, ProcessTyped, ProcessResults, ProcessReturns
  <2>4. ~ProcessReturns' /\ ~ProcessSuspends'
    BY <2>1, <2>2, <2>3 DEF ProcessReturns, ProcessSuspends
  <2> QED
    BY <2>1, <2>2, <2>4 DEF ProcessPosts, ProcessReturns, ProcessSuspends
<1>4. ProcessReads'
  BY DEF ProcessReads, ProcessTyped, ProcessResults, ProcessLogs, ProcessBefore, ProcessStops, ProcessAfter,
    ProcessPlaces, ProcessPosts, P!Start, P!Fail, P!Prepared, P!Run, P!Served, P!Process, P!procVars,
    P!srvVars
<1>5. ProcessOutcome'
  BY DEF ProcessOutcome, ProcessTyped, ProcessResults, ProcessLogs, ProcessBefore, ProcessStops, ProcessAfter,
    ProcessPlaces, ProcessPosts, ProcessReturns, ProcessSuspends, P!Start, P!Fail, P!Prepared, P!Run,
    P!Served, P!Process, P!procVars, P!srvVars
<1> QED
  BY <1>1, <1>2, <1>3, <1>4, <1>5

LEMMA ProcessReturned == ASSUME ProcessInv, P!Returned PROVE ProcessInv'
<1> USE DEF ProcessInv
<1>1. ProcessTyped'
  <2>1. result' \in ProcessResults
    BY DEF ProcessTyped, ProcessResults, P!Returned, P!Fail
  <2>2. UNCHANGED <<attempt, silent, procFiles, listener, procConn, proc, exit, queue, posted, suspend, acking, procLogs, flusher, stopping, procCancelled>>
    BY DEF P!Returned, P!Fail, P!Prepared, P!Run, P!Served, P!Process, P!procVars, P!srvVars
  <2>3. procPc' = "grace" /\ ret' \in BOOLEAN
    BY DEF ProcessTyped, P!Returned, P!Fail, P!Prepared, P!Run, P!Served, P!Process, P!procVars, P!srvVars
  <2> QED
    BY <2>1, <2>2, <2>3 DEF ProcessTyped, ProcessBefore, ProcessStops, ProcessAfter
<1>2. ProcessPlaces'
  BY DEF ProcessPlaces, ProcessTyped, ProcessResults, ProcessLogs, ProcessBefore, ProcessStops, ProcessAfter,
    ProcessPosts, ProcessReturns, ProcessSuspends, P!Returned, P!Fail, P!Prepared, P!Run, P!Served, P!Process,
    P!procVars, P!srvVars
<1>3. ProcessPosts'
  BY DEF ProcessPosts, ProcessTyped, ProcessResults, ProcessLogs, ProcessBefore, ProcessStops, ProcessAfter,
    ProcessPlaces, ProcessReturns, ProcessSuspends, P!Returned, P!Fail, P!Prepared, P!Run, P!Served,
    P!Process, P!procVars, P!srvVars
<1>4. ProcessReads'
  BY DEF ProcessReads, ProcessTyped, ProcessResults, ProcessLogs, ProcessBefore, ProcessStops, ProcessAfter,
    ProcessPlaces, ProcessPosts, P!Returned, P!Fail, P!Prepared, P!Run, P!Served, P!Process, P!procVars,
    P!srvVars
<1>5. ProcessOutcome'
  BY DEF ProcessOutcome, ProcessTyped, ProcessResults, ProcessLogs, ProcessBefore, ProcessStops, ProcessAfter,
    ProcessPlaces, ProcessPosts, ProcessReturns, ProcessSuspends, P!Returned, P!Fail, P!Prepared, P!Run,
    P!Served, P!Process, P!procVars, P!srvVars
<1> QED
  BY <1>1, <1>2, <1>3, <1>4, <1>5

LEMMA ProcessExited == ASSUME ProcessInv, P!Exited PROVE ProcessInv'
<1> USE DEF ProcessInv
<1>1. ProcessTyped'
  <2>1. result' \in ProcessResults
    BY DEF ProcessTyped, ProcessResults, P!Exited, P!Fail
  <2>2. UNCHANGED <<attempt, silent, procFiles, listener, procConn, proc, exit, queue, posted, suspend, acking, procLogs, flusher, stopping, procCancelled>>
    BY DEF P!Exited, P!Fail, P!Prepared, P!Run, P!Served, P!Process, P!procVars, P!srvVars
  <2>3. procPc' = "pipes" /\ ret' \in BOOLEAN
    BY DEF ProcessTyped, P!Exited, P!Fail, P!Prepared, P!Run, P!Served, P!Process, P!procVars, P!srvVars
  <2> QED
    BY <2>1, <2>2, <2>3 DEF ProcessTyped, ProcessBefore, ProcessStops, ProcessAfter
<1>2. ProcessPlaces'
  BY DEF ProcessPlaces, ProcessTyped, ProcessResults, ProcessLogs, ProcessBefore, ProcessStops, ProcessAfter,
    ProcessPosts, ProcessReturns, ProcessSuspends, P!Exited, P!Fail, P!Prepared, P!Run, P!Served, P!Process,
    P!procVars, P!srvVars
<1>3. ProcessPosts'
  BY DEF ProcessPosts, ProcessTyped, ProcessResults, ProcessLogs, ProcessBefore, ProcessStops, ProcessAfter,
    ProcessPlaces, ProcessReturns, ProcessSuspends, P!Exited, P!Fail, P!Prepared, P!Run, P!Served, P!Process,
    P!procVars, P!srvVars
<1>4. ProcessReads'
  BY DEF ProcessReads, ProcessTyped, ProcessResults, ProcessLogs, ProcessBefore, ProcessStops, ProcessAfter,
    ProcessPlaces, ProcessPosts, P!Exited, P!Fail, P!Prepared, P!Run, P!Served, P!Process, P!procVars,
    P!srvVars
<1>5. ProcessOutcome'
  BY DEF ProcessOutcome, ProcessTyped, ProcessResults, ProcessLogs, ProcessBefore, ProcessStops, ProcessAfter,
    ProcessPlaces, ProcessPosts, ProcessReturns, ProcessSuspends, P!Exited, P!Fail, P!Prepared, P!Run,
    P!Served, P!Process, P!procVars, P!srvVars
<1> QED
  BY <1>1, <1>2, <1>3, <1>4, <1>5

LEMMA ProcessGrace == ASSUME ProcessInv, P!Grace PROVE ProcessInv'
<1> USE DEF ProcessInv
<1>1. ProcessTyped'
  BY DEF ProcessTyped, ProcessResults, ProcessLogs, ProcessBefore, ProcessStops, ProcessAfter, P!Grace,
    P!Fail, P!Prepared, P!Run, P!Served, P!Process, P!procVars, P!srvVars
<1>2. ProcessPlaces'
  BY DEF ProcessPlaces, ProcessTyped, ProcessResults, ProcessLogs, ProcessBefore, ProcessStops, ProcessAfter,
    ProcessPosts, ProcessReturns, ProcessSuspends, P!Grace, P!Fail, P!Prepared, P!Run, P!Served, P!Process,
    P!procVars, P!srvVars
<1>3. ProcessPosts'
  BY DEF ProcessPosts, ProcessTyped, ProcessResults, ProcessLogs, ProcessBefore, ProcessStops, ProcessAfter,
    ProcessPlaces, ProcessReturns, ProcessSuspends, P!Grace, P!Fail, P!Prepared, P!Run, P!Served, P!Process,
    P!procVars, P!srvVars
<1>4. ProcessReads'
  BY DEF ProcessReads, ProcessTyped, ProcessResults, ProcessLogs, ProcessBefore, ProcessStops, ProcessAfter,
    ProcessPlaces, ProcessPosts, P!Grace, P!Fail, P!Prepared, P!Run, P!Served, P!Process, P!procVars,
    P!srvVars
<1>5. ProcessOutcome'
  BY DEF ProcessOutcome, ProcessTyped, ProcessResults, ProcessLogs, ProcessBefore, ProcessStops, ProcessAfter,
    ProcessPlaces, ProcessPosts, ProcessReturns, ProcessSuspends, P!Grace, P!Fail, P!Prepared, P!Run,
    P!Served, P!Process, P!procVars, P!srvVars
<1> QED
  BY <1>1, <1>2, <1>3, <1>4, <1>5

LEMMA ProcessPipes == ASSUME ProcessInv, P!Pipes PROVE ProcessInv'
<1> USE DEF ProcessInv
<1>1. ProcessTyped'
  BY DEF ProcessTyped, ProcessResults, ProcessLogs, ProcessBefore, ProcessStops, ProcessAfter, P!Pipes,
    P!Fail, P!Prepared, P!Run, P!Served, P!Process, P!procVars, P!srvVars
<1>2. ProcessPlaces'
  BY DEF ProcessPlaces, ProcessTyped, ProcessResults, ProcessLogs, ProcessBefore, ProcessStops, ProcessAfter,
    ProcessPosts, ProcessReturns, ProcessSuspends, P!Pipes, P!Fail, P!Prepared, P!Run, P!Served, P!Process,
    P!procVars, P!srvVars
<1>3. ProcessPosts'
  BY DEF ProcessPosts, ProcessTyped, ProcessResults, ProcessLogs, ProcessBefore, ProcessStops, ProcessAfter,
    ProcessPlaces, ProcessReturns, ProcessSuspends, P!Pipes, P!Fail, P!Prepared, P!Run, P!Served, P!Process,
    P!procVars, P!srvVars
<1>4. ProcessReads'
  BY DEF ProcessReads, ProcessTyped, ProcessResults, ProcessLogs, ProcessBefore, ProcessStops, ProcessAfter,
    ProcessPlaces, ProcessPosts, P!Pipes, P!Fail, P!Prepared, P!Run, P!Served, P!Process, P!procVars,
    P!srvVars
<1>5. ProcessOutcome'
  BY DEF ProcessOutcome, ProcessTyped, ProcessResults, ProcessLogs, ProcessBefore, ProcessStops, ProcessAfter,
    ProcessPlaces, ProcessPosts, ProcessReturns, ProcessSuspends, P!Pipes, P!Fail, P!Prepared, P!Run,
    P!Served, P!Process, P!procVars, P!srvVars
<1> QED
  BY <1>1, <1>2, <1>3, <1>4, <1>5

LEMMA ProcessRelock == ASSUME ProcessInv, P!Relock PROVE ProcessInv'
<1> USE DEF ProcessInv
<1>1. ProcessTyped'
  BY DEF ProcessTyped, ProcessResults, ProcessLogs, ProcessBefore, ProcessStops, ProcessAfter, P!Relock,
    P!Fail, P!Prepared, P!Run, P!Served, P!Process, P!procVars, P!srvVars
<1>2. ProcessPlaces'
  BY DEF ProcessPlaces, ProcessTyped, ProcessResults, ProcessLogs, ProcessBefore, ProcessStops, ProcessAfter,
    ProcessPosts, ProcessReturns, ProcessSuspends, P!Relock, P!Fail, P!Prepared, P!Run, P!Served, P!Process,
    P!procVars, P!srvVars
<1>3. ProcessPosts'
  BY DEF ProcessPosts, ProcessTyped, ProcessResults, ProcessLogs, ProcessBefore, ProcessStops, ProcessAfter,
    ProcessPlaces, ProcessReturns, ProcessSuspends, P!Relock, P!Fail, P!Prepared, P!Run, P!Served, P!Process,
    P!procVars, P!srvVars
<1>4. ProcessReads'
  BY DEF ProcessReads, ProcessTyped, ProcessResults, ProcessLogs, ProcessBefore, ProcessStops, ProcessAfter,
    ProcessPlaces, ProcessPosts, P!Relock, P!Fail, P!Prepared, P!Run, P!Served, P!Process, P!procVars,
    P!srvVars
<1>5. ProcessOutcome'
  BY DEF ProcessOutcome, ProcessTyped, ProcessResults, ProcessLogs, ProcessBefore, ProcessStops, ProcessAfter,
    ProcessPlaces, ProcessPosts, ProcessReturns, ProcessSuspends, P!Relock, P!Fail, P!Prepared, P!Run,
    P!Served, P!Process, P!procVars, P!srvVars
<1> QED
  BY <1>1, <1>2, <1>3, <1>4, <1>5

LEMMA ProcessClassify == ASSUME ProcessInv, P!Classify PROVE ProcessInv'
<1> USE DEF ProcessInv
<1>1. ProcessTyped'
  <2>1. result' \in ProcessResults
    BY DEF ProcessTyped, ProcessResults, P!Classify
  <2> QED
    BY <2>1 DEF ProcessTyped, ProcessBefore, ProcessStops, ProcessAfter, P!Classify, P!Fail, P!Prepared,
      P!Run, P!Served,
      P!Process, P!procVars, P!srvVars
<1>2. ProcessPlaces'
  BY DEF ProcessPlaces, ProcessTyped, ProcessResults, ProcessLogs, ProcessBefore, ProcessStops, ProcessAfter,
    ProcessPosts, ProcessReturns, ProcessSuspends, P!Classify, P!Fail, P!Prepared, P!Run, P!Served, P!Process,
    P!procVars, P!srvVars
<1>3. ProcessPosts'
  BY DEF ProcessPosts, ProcessTyped, ProcessResults, ProcessLogs, ProcessBefore, ProcessStops, ProcessAfter,
    ProcessPlaces, ProcessReturns, ProcessSuspends, P!Classify, P!Fail, P!Prepared, P!Run, P!Served,
    P!Process, P!procVars, P!srvVars
<1>4. ProcessReads'
  BY DEF ProcessReads, ProcessTyped, ProcessResults, ProcessLogs, ProcessBefore, ProcessStops, ProcessAfter,
    ProcessPlaces, ProcessPosts, P!Classify, P!Fail, P!Prepared, P!Run, P!Served, P!Process, P!procVars,
    P!srvVars
<1>5. ProcessOutcome'
  BY DEF ProcessOutcome, ProcessTyped, ProcessResults, ProcessLogs, ProcessBefore, ProcessStops, ProcessAfter,
    ProcessPlaces, ProcessPosts, ProcessReturns, ProcessSuspends, P!Classify, P!Fail, P!Prepared, P!Run,
    P!Served, P!Process, P!procVars, P!srvVars
<1> QED
  BY <1>1, <1>2, <1>3, <1>4, <1>5

LEMMA ProcessUnlisten == ASSUME ProcessInv, P!Unlisten PROVE ProcessInv'
<1> USE DEF ProcessInv
<1>1. ProcessTyped'
  <2>1. UNCHANGED <<attempt, silent, proc, exit, queue, posted, ret, suspend, acking, procLogs, flusher, stopping, procCancelled, result>>
    BY DEF P!Unlisten, P!Fail, P!Prepared, P!Run, P!Served, P!Process, P!procVars, P!srvVars
  <2>2. procPc' = "conns" /\ procFiles' = {} /\ listener' \in BOOLEAN /\ (procConn' = "closed" \/ procConn' = procConn)
    BY DEF ProcessTyped, P!Unlisten, P!Fail, P!Prepared, P!Run, P!Served, P!Process, P!procVars, P!srvVars
  <2> QED
    BY <2>1, <2>2 DEF ProcessTyped, ProcessBefore, ProcessStops, ProcessAfter
<1>2. ProcessPlaces'
  BY DEF ProcessPlaces, ProcessTyped, ProcessResults, ProcessLogs, ProcessBefore, ProcessStops, ProcessAfter,
    ProcessPosts, ProcessReturns, ProcessSuspends, P!Unlisten, P!Fail, P!Prepared, P!Run, P!Served, P!Process,
    P!procVars, P!srvVars
<1>3. ProcessPosts'
  BY DEF ProcessPosts, ProcessTyped, ProcessResults, ProcessLogs, ProcessBefore, ProcessStops, ProcessAfter,
    ProcessPlaces, ProcessReturns, ProcessSuspends, P!Unlisten, P!Fail, P!Prepared, P!Run, P!Served,
    P!Process, P!procVars, P!srvVars
<1>4. ProcessReads'
  BY DEF ProcessReads, ProcessTyped, ProcessResults, ProcessLogs, ProcessBefore, ProcessStops, ProcessAfter,
    ProcessPlaces, ProcessPosts, P!Unlisten, P!Fail, P!Prepared, P!Run, P!Served, P!Process, P!procVars,
    P!srvVars
<1>5. ProcessOutcome'
  BY DEF ProcessOutcome, ProcessTyped, ProcessResults, ProcessLogs, ProcessBefore, ProcessStops, ProcessAfter,
    ProcessPlaces, ProcessPosts, ProcessReturns, ProcessSuspends, P!Unlisten, P!Fail, P!Prepared, P!Run,
    P!Served, P!Process, P!procVars, P!srvVars
<1> QED
  BY <1>1, <1>2, <1>3, <1>4, <1>5

LEMMA ProcessWaitConns == ASSUME ProcessInv, P!WaitConns PROVE ProcessInv'
<1> USE DEF ProcessInv
<1>1. ProcessTyped'
  BY DEF ProcessTyped, ProcessResults, ProcessLogs, ProcessBefore, ProcessStops, ProcessAfter, P!WaitConns,
    P!Fail, P!Prepared, P!Run, P!Served, P!Process, P!procVars, P!srvVars
<1>2. ProcessPlaces'
  BY DEF ProcessPlaces, ProcessTyped, ProcessResults, ProcessLogs, ProcessBefore, ProcessStops, ProcessAfter,
    ProcessPosts, ProcessReturns, ProcessSuspends, P!WaitConns, P!Fail, P!Prepared, P!Run, P!Served,
    P!Process, P!procVars, P!srvVars
<1>3. ProcessPosts'
  BY DEF ProcessPosts, ProcessTyped, ProcessResults, ProcessLogs, ProcessBefore, ProcessStops, ProcessAfter,
    ProcessPlaces, ProcessReturns, ProcessSuspends, P!WaitConns, P!Fail, P!Prepared, P!Run, P!Served,
    P!Process, P!procVars, P!srvVars
<1>4. ProcessReads'
  BY DEF ProcessReads, ProcessTyped, ProcessResults, ProcessLogs, ProcessBefore, ProcessStops, ProcessAfter,
    ProcessPlaces, ProcessPosts, P!WaitConns, P!Fail, P!Prepared, P!Run, P!Served, P!Process, P!procVars,
    P!srvVars
<1>5. ProcessOutcome'
  BY DEF ProcessOutcome, ProcessTyped, ProcessResults, ProcessLogs, ProcessBefore, ProcessStops, ProcessAfter,
    ProcessPlaces, ProcessPosts, ProcessReturns, ProcessSuspends, P!WaitConns, P!Fail, P!Prepared, P!Run,
    P!Served, P!Process, P!procVars, P!srvVars
<1> QED
  BY <1>1, <1>2, <1>3, <1>4, <1>5

LEMMA ProcessStopFlusher == ASSUME ProcessInv, P!StopFlusher PROVE ProcessInv'
<1> USE DEF ProcessInv
<1>1. ProcessTyped'
  BY DEF ProcessTyped, ProcessResults, ProcessLogs, ProcessBefore, ProcessStops, ProcessAfter, P!StopFlusher,
    P!Fail, P!Prepared, P!Run, P!Served, P!Process, P!procVars, P!srvVars
<1>2. ProcessPlaces'
  BY DEF ProcessPlaces, ProcessTyped, ProcessResults, ProcessLogs, ProcessBefore, ProcessStops, ProcessAfter,
    ProcessPosts, ProcessReturns, ProcessSuspends, P!StopFlusher, P!Fail, P!Prepared, P!Run, P!Served,
    P!Process, P!procVars, P!srvVars
<1>3. ProcessPosts'
  BY DEF ProcessPosts, ProcessTyped, ProcessResults, ProcessLogs, ProcessBefore, ProcessStops, ProcessAfter,
    ProcessPlaces, ProcessReturns, ProcessSuspends, P!StopFlusher, P!Fail, P!Prepared, P!Run, P!Served,
    P!Process, P!procVars, P!srvVars
<1>4. ProcessReads'
  BY DEF ProcessReads, ProcessTyped, ProcessResults, ProcessLogs, ProcessBefore, ProcessStops, ProcessAfter,
    ProcessPlaces, ProcessPosts, P!StopFlusher, P!Fail, P!Prepared, P!Run, P!Served, P!Process, P!procVars,
    P!srvVars
<1>5. ProcessOutcome'
  BY DEF ProcessOutcome, ProcessTyped, ProcessResults, ProcessLogs, ProcessBefore, ProcessStops, ProcessAfter,
    ProcessPlaces, ProcessPosts, ProcessReturns, ProcessSuspends, P!StopFlusher, P!Fail, P!Prepared, P!Run,
    P!Served, P!Process, P!procVars, P!srvVars
<1> QED
  BY <1>1, <1>2, <1>3, <1>4, <1>5

LEMMA ProcessFlushed == ASSUME ProcessInv, P!Flushed PROVE ProcessInv'
<1> USE DEF ProcessInv
<1>1. ProcessTyped'
  BY DEF ProcessTyped, ProcessResults, ProcessLogs, ProcessBefore, ProcessStops, ProcessAfter, P!Flushed,
    P!Fail, P!Prepared, P!Run, P!Served, P!Process, P!procVars, P!srvVars
<1>2. ProcessPlaces'
  BY DEF ProcessPlaces, ProcessTyped, ProcessResults, ProcessLogs, ProcessBefore, ProcessStops, ProcessAfter,
    ProcessPosts, ProcessReturns, ProcessSuspends, P!Flushed, P!Fail, P!Prepared, P!Run, P!Served, P!Process,
    P!procVars, P!srvVars
<1>3. ProcessPosts'
  BY DEF ProcessPosts, ProcessTyped, ProcessResults, ProcessLogs, ProcessBefore, ProcessStops, ProcessAfter,
    ProcessPlaces, ProcessReturns, ProcessSuspends, P!Flushed, P!Fail, P!Prepared, P!Run, P!Served, P!Process,
    P!procVars, P!srvVars
<1>4. ProcessReads'
  BY DEF ProcessReads, ProcessTyped, ProcessResults, ProcessLogs, ProcessBefore, ProcessStops, ProcessAfter,
    ProcessPlaces, ProcessPosts, P!Flushed, P!Fail, P!Prepared, P!Run, P!Served, P!Process, P!procVars,
    P!srvVars
<1>5. ProcessOutcome'
  BY DEF ProcessOutcome, ProcessTyped, ProcessResults, ProcessLogs, ProcessBefore, ProcessStops, ProcessAfter,
    ProcessPlaces, ProcessPosts, ProcessReturns, ProcessSuspends, P!Flushed, P!Fail, P!Prepared, P!Run,
    P!Served, P!Process, P!procVars, P!srvVars
<1> QED
  BY <1>1, <1>2, <1>3, <1>4, <1>5

LEMMA ProcessRevoke == ASSUME ProcessInv, P!Revoke PROVE ProcessInv'
<1> USE DEF ProcessInv
<1>1. ProcessTyped'
  BY DEF ProcessTyped, ProcessResults, ProcessLogs, ProcessBefore, ProcessStops, ProcessAfter, P!Revoke,
    P!Fail, P!Prepared, P!Run, P!Served, P!Process, P!procVars, P!srvVars
<1>2. ProcessPlaces'
  BY DEF ProcessPlaces, ProcessTyped, ProcessResults, ProcessLogs, ProcessBefore, ProcessStops, ProcessAfter,
    ProcessPosts, ProcessReturns, ProcessSuspends, P!Revoke, P!Fail, P!Prepared, P!Run, P!Served, P!Process,
    P!procVars, P!srvVars
<1>3. ProcessPosts'
  BY DEF ProcessPosts, ProcessTyped, ProcessResults, ProcessLogs, ProcessBefore, ProcessStops, ProcessAfter,
    ProcessPlaces, ProcessReturns, ProcessSuspends, P!Revoke, P!Fail, P!Prepared, P!Run, P!Served, P!Process,
    P!procVars, P!srvVars
<1>4. ProcessReads'
  BY DEF ProcessReads, ProcessTyped, ProcessResults, ProcessLogs, ProcessBefore, ProcessStops, ProcessAfter,
    ProcessPlaces, ProcessPosts, P!Revoke, P!Fail, P!Prepared, P!Run, P!Served, P!Process, P!procVars,
    P!srvVars
<1>5. ProcessOutcome'
  BY DEF ProcessOutcome, ProcessTyped, ProcessResults, ProcessLogs, ProcessBefore, ProcessStops, ProcessAfter,
    ProcessPlaces, ProcessPosts, ProcessReturns, ProcessSuspends, P!Revoke, P!Fail, P!Prepared, P!Run,
    P!Served, P!Process, P!procVars, P!srvVars
<1> QED
  BY <1>1, <1>2, <1>3, <1>4, <1>5

LEMMA ProcessAccept == ASSUME ProcessInv, P!Accept PROVE ProcessInv'
<1> USE DEF ProcessInv
<1>1. ProcessTyped'
  BY DEF ProcessTyped, ProcessResults, ProcessLogs, ProcessBefore, ProcessStops, ProcessAfter, P!Accept,
    P!Fail, P!Prepared, P!Run, P!Served, P!Process, P!procVars, P!srvVars
<1>2. ProcessPlaces'
  BY DEF ProcessPlaces, ProcessTyped, ProcessResults, ProcessLogs, ProcessBefore, ProcessStops, ProcessAfter,
    ProcessPosts, ProcessReturns, ProcessSuspends, P!Accept, P!Fail, P!Prepared, P!Run, P!Served, P!Process,
    P!procVars, P!srvVars
<1>3. ProcessPosts'
  BY DEF ProcessPosts, ProcessTyped, ProcessResults, ProcessLogs, ProcessBefore, ProcessStops, ProcessAfter,
    ProcessPlaces, ProcessReturns, ProcessSuspends, P!Accept, P!Fail, P!Prepared, P!Run, P!Served, P!Process,
    P!procVars, P!srvVars
<1>4. ProcessReads'
  BY DEF ProcessReads, ProcessTyped, ProcessResults, ProcessLogs, ProcessBefore, ProcessStops, ProcessAfter,
    ProcessPlaces, ProcessPosts, P!Accept, P!Fail, P!Prepared, P!Run, P!Served, P!Process, P!procVars,
    P!srvVars
<1>5. ProcessOutcome'
  BY DEF ProcessOutcome, ProcessTyped, ProcessResults, ProcessLogs, ProcessBefore, ProcessStops, ProcessAfter,
    ProcessPlaces, ProcessPosts, ProcessReturns, ProcessSuspends, P!Accept, P!Fail, P!Prepared, P!Run,
    P!Served, P!Process, P!procVars, P!srvVars
<1> QED
  BY <1>1, <1>2, <1>3, <1>4, <1>5

LEMMA ProcessCount == ASSUME ProcessInv, P!Count PROVE ProcessInv'
<1> USE DEF ProcessInv
<1>1. ProcessTyped'
  BY DEF ProcessTyped, ProcessResults, ProcessLogs, ProcessBefore, ProcessStops, ProcessAfter, P!Count,
    P!Fail, P!Prepared, P!Run, P!Served, P!Process, P!procVars, P!srvVars
<1>2. ProcessPlaces'
  BY DEF ProcessPlaces, ProcessTyped, ProcessResults, ProcessLogs, ProcessBefore, ProcessStops, ProcessAfter,
    ProcessPosts, ProcessReturns, ProcessSuspends, P!Count, P!Fail, P!Prepared, P!Run, P!Served, P!Process,
    P!procVars, P!srvVars
<1>3. ProcessPosts'
  BY DEF ProcessPosts, ProcessTyped, ProcessResults, ProcessLogs, ProcessBefore, ProcessStops, ProcessAfter,
    ProcessPlaces, ProcessReturns, ProcessSuspends, P!Count, P!Fail, P!Prepared, P!Run, P!Served, P!Process,
    P!procVars, P!srvVars
<1>4. ProcessReads'
  BY DEF ProcessReads, ProcessTyped, ProcessResults, ProcessLogs, ProcessBefore, ProcessStops, ProcessAfter,
    ProcessPlaces, ProcessPosts, P!Count, P!Fail, P!Prepared, P!Run, P!Served, P!Process, P!procVars,
    P!srvVars
<1>5. ProcessOutcome'
  BY DEF ProcessOutcome, ProcessTyped, ProcessResults, ProcessLogs, ProcessBefore, ProcessStops, ProcessAfter,
    ProcessPlaces, ProcessPosts, ProcessReturns, ProcessSuspends, P!Count, P!Fail, P!Prepared, P!Run,
    P!Served, P!Process, P!procVars, P!srvVars
<1> QED
  BY <1>1, <1>2, <1>3, <1>4, <1>5

LEMMA ProcessHandle == ASSUME ProcessInv, P!Handle PROVE ProcessInv'
<1> USE DEF ProcessInv
<1>a. /\ procConn = "handled" /\ acking = "none" /\ queue # <<>> /\ queue' = Tail(queue)
      /\ \/ Head(queue) = "log" /\ procLogs' = [procLogs EXCEPT !.read = @ + 1] /\ UNCHANGED <<ret, suspend, acking>>
         \/ Head(queue) = "return" /\ ret' = TRUE /\ acking' = "return" /\ UNCHANGED <<procLogs, suspend>>
         \/ Head(queue) = "suspend" /\ suspend' = TRUE /\ acking' = "suspend" /\ UNCHANGED <<procLogs, ret>>
      /\ UNCHANGED <<procPc, procConn, proc, exit, posted, flusher, stopping, procCancelled, result>>
  BY DEF P!Handle, P!Served, P!procVars, ProcessTyped
<1>b. /\ Len(queue) \in Nat \ {0} /\ Len(queue') = Len(queue) - 1
      /\ \A i \in 1..Len(queue') : queue'[i] = queue[i + 1] /\ i + 1 \in 1..Len(queue)
      /\ Head(queue) = queue[1] /\ 1 \in 1..Len(queue)
  BY <1>a DEF ProcessTyped
<1>1. ProcessTyped'
  <2>1. procLogs' \in ProcessLogs
    BY DEF ProcessTyped, ProcessLogs, P!Handle
  <2>2. queue' \in Seq({"log", "return", "suspend"})
    BY DEF ProcessTyped, P!Handle
  <2>3. UNCHANGED <<procPc, attempt, silent, procFiles, listener, procConn, proc, exit, posted, flusher, stopping, procCancelled, result>>
    BY DEF P!Handle, P!Fail, P!Prepared, P!Run, P!Served, P!Process, P!procVars, P!srvVars
  <2>4. ret' \in BOOLEAN /\ suspend' \in BOOLEAN /\ acking' \in {"none", "return", "suspend"}
    BY DEF ProcessTyped, P!Handle, P!Fail, P!Prepared, P!Run, P!Served, P!Process, P!procVars, P!srvVars
  <2> QED
    BY <2>1, <2>2, <2>3, <2>4 DEF ProcessTyped, ProcessBefore, ProcessStops, ProcessAfter
<1>2. ProcessPlaces'
  BY DEF ProcessPlaces, ProcessTyped, ProcessResults, ProcessLogs, ProcessBefore, ProcessStops, ProcessAfter,
    ProcessPosts, ProcessReturns, ProcessSuspends, P!Handle, P!Fail, P!Prepared, P!Run, P!Served, P!Process,
    P!procVars, P!srvVars
<1>3. ProcessPosts'
  <2>1. \A i \in 2..Len(queue) : i - 1 \in 1..Len(queue') /\ queue'[i - 1] = queue[i]
    BY <1>b
  <2>2. CASE Head(queue) = "log"
    <3>1. UNCHANGED <<ret, suspend, acking>>
      BY <1>a, <2>2
    <3>2. (ProcessReturns' => ProcessReturns) /\ (ProcessSuspends' => ProcessSuspends)
      BY <1>a, <1>b, <3>1 DEF ProcessReturns, ProcessSuspends
    <3> QED
      BY <1>a, <1>b, <3>1, <3>2 DEF ProcessPosts
  <2>3. CASE Head(queue) # "log"
    <3>1. \A i \in 1..Len(queue') : queue'[i] = "log"
      BY <1>b, <2>3 DEF ProcessPosts
    <3>2. /\ (ProcessReturns' => ProcessReturns) /\ (ProcessSuspends' => ProcessSuspends)
      BY <1>a, <1>b, <2>3, <3>1 DEF ProcessReturns, ProcessSuspends
    <3>3. proc \notin {"none", "run"}
      BY <1>a, <1>b, <2>3 DEF ProcessPosts, ProcessReturns, ProcessSuspends
    <3>4. procPc = "await" /\ (acking' = "return" \/ posted = "return") => ret'
      BY <1>a, <2>3 DEF ProcessPosts
    <3>5. acking' = "suspend" \/ posted = "suspend" => suspend'
      BY <1>a, <2>3 DEF ProcessPosts
    <3> QED
      BY <1>a, <3>1, <3>2, <3>3, <3>4, <3>5 DEF ProcessPosts
  <2> QED
    BY <2>2, <2>3
<1>4. ProcessReads'
  <2>1. procPc \notin {"flush", "flushed", "revoke", "done"}
    BY <1>a DEF ProcessReads
  <2>2. procLogs \in ProcessLogs /\ procLogs.saved <= procLogs.read
    BY DEF ProcessTyped, ProcessReads
  <2>3. flusher \/ procCancelled \/ procPc \in {"mint", "serve"}
    BY <2>1 DEF ProcessReads, ProcessTyped
  <2>4. procPc \notin {"mint", "serve"}
    BY <1>a DEF ProcessPlaces, ProcessBefore
  <2>5. CASE Head(queue) = "log"
    <3>1. procLogs' = [procLogs EXCEPT !.read = procLogs.read + 1]
      BY <1>a, <2>5
    <3>2. procLogs'.read = procLogs.read + 1 /\ procLogs'.saved = procLogs.saved /\ procLogs'.sent = procLogs.sent
      BY <2>2, <3>1 DEF ProcessLogs
    <3>3. (\A i \in 1..Len(queue') : queue'[i] = "log") => \A i \in 1..Len(queue) : queue[i] = "log"
      <4>1. \A i \in 1..Len(queue) : i = 1 \/ (i - 1 \in 1..Len(queue') /\ queue'[i - 1] = queue[i])
        BY <1>b
      <4> QED
        BY <1>b, <2>5, <4>1
    <3>4. procLogs'.read + Len(queue') = procLogs.read + Len(queue)
      BY <1>b, <2>2, <3>2 DEF ProcessLogs
    <3>5. procLogs.read \in Nat /\ procLogs.saved \in Nat
      BY <2>2 DEF ProcessLogs
    <3>6. /\ (\E i \in 1..Len(queue') : queue'[i] # "log") => procLogs'.read + Len(queue') = procLogs'.sent + 1
          /\ (\A i \in 1..Len(queue') : queue'[i] = "log") => procLogs'.read + Len(queue') = procLogs'.sent
      BY <1>b, <3>2, <3>3, <3>4 DEF ProcessReads
    <3>7. procLogs'.saved <= procLogs'.read
      BY <2>2, <3>2, <3>5
    <3>8. UNCHANGED <<procPc, flusher, stopping, procCancelled>>
      BY <1>a
    <3>9. stopping => procPc \in {"flushed", "revoke", "done"}
      BY DEF ProcessReads
    <3>10. ~flusher => procCancelled
      BY <2>3, <2>4
    <3>11. procPc' \notin {"flush", "flushed", "revoke", "done"} /\ (~flusher' => procCancelled')
      BY <2>1, <3>8, <3>10
    <3>12. stopping' => procPc' \in {"flushed", "revoke", "done"}
      BY <3>8, <3>9
    <3> QED
      BY <3>6, <3>7, <3>11, <3>12 DEF ProcessReads
  <2>6. CASE Head(queue) # "log"
    <3>1. UNCHANGED procLogs
      BY <1>a, <2>6
    <3>2. \A i \in 1..Len(queue') : queue'[i] = "log"
      BY <1>b, <2>6 DEF ProcessPosts
    <3>3. procLogs.read + Len(queue) = procLogs.sent + 1
      BY <1>b, <2>2, <2>6 DEF ProcessReads, ProcessLogs
    <3>4. procLogs'.read + Len(queue') = procLogs'.sent
      BY <1>b, <2>2, <3>1, <3>3 DEF ProcessLogs
    <3> QED
      BY <1>a, <2>1, <2>2, <2>3, <2>4, <3>1, <3>2, <3>4 DEF ProcessReads
  <2> QED
    BY <2>5, <2>6
<1>5. ProcessOutcome'
  BY DEF ProcessOutcome, ProcessTyped, ProcessResults, ProcessLogs, ProcessBefore, ProcessStops, ProcessAfter,
    ProcessPlaces, ProcessPosts, ProcessReturns, ProcessSuspends, P!Handle, P!Fail, P!Prepared, P!Run,
    P!Served, P!Process, P!procVars, P!srvVars
<1> QED
  BY <1>1, <1>2, <1>3, <1>4, <1>5

LEMMA ProcessReply == ASSUME ProcessInv, P!Reply PROVE ProcessInv'
<1> USE DEF ProcessInv
<1>1. ProcessTyped'
  BY DEF ProcessTyped, ProcessResults, ProcessLogs, ProcessBefore, ProcessStops, ProcessAfter, P!Reply,
    P!Fail, P!Prepared, P!Run, P!Served, P!Process, P!procVars, P!srvVars
<1>2. ProcessPlaces'
  BY DEF ProcessPlaces, ProcessTyped, ProcessResults, ProcessLogs, ProcessBefore, ProcessStops, ProcessAfter,
    ProcessPosts, ProcessReturns, ProcessSuspends, P!Reply, P!Fail, P!Prepared, P!Run, P!Served, P!Process,
    P!procVars, P!srvVars
<1>3. ProcessPosts'
  BY DEF ProcessPosts, ProcessTyped, ProcessResults, ProcessLogs, ProcessBefore, ProcessStops, ProcessAfter,
    ProcessPlaces, ProcessReturns, ProcessSuspends, P!Reply, P!Fail, P!Prepared, P!Run, P!Served, P!Process,
    P!procVars, P!srvVars
<1>4. ProcessReads'
  BY DEF ProcessReads, ProcessTyped, ProcessResults, ProcessLogs, ProcessBefore, ProcessStops, ProcessAfter,
    ProcessPlaces, ProcessPosts, P!Reply, P!Fail, P!Prepared, P!Run, P!Served, P!Process, P!procVars,
    P!srvVars
<1>5. ProcessOutcome'
  BY DEF ProcessOutcome, ProcessTyped, ProcessResults, ProcessLogs, ProcessBefore, ProcessStops, ProcessAfter,
    ProcessPlaces, ProcessPosts, ProcessReturns, ProcessSuspends, P!Reply, P!Fail, P!Prepared, P!Run,
    P!Served, P!Process, P!procVars, P!srvVars
<1> QED
  BY <1>1, <1>2, <1>3, <1>4, <1>5

LEMMA ProcessHangup == ASSUME ProcessInv, P!Hangup PROVE ProcessInv'
<1> USE DEF ProcessInv
<1>1. ProcessTyped'
  BY DEF ProcessTyped, ProcessResults, ProcessLogs, ProcessBefore, ProcessStops, ProcessAfter, P!Hangup,
    P!Fail, P!Prepared, P!Run, P!Served, P!Process, P!procVars, P!srvVars
<1>2. ProcessPlaces'
  BY DEF ProcessPlaces, ProcessTyped, ProcessResults, ProcessLogs, ProcessBefore, ProcessStops, ProcessAfter,
    ProcessPosts, ProcessReturns, ProcessSuspends, P!Hangup, P!Fail, P!Prepared, P!Run, P!Served, P!Process,
    P!procVars, P!srvVars
<1>3. ProcessPosts'
  BY DEF ProcessPosts, ProcessTyped, ProcessResults, ProcessLogs, ProcessBefore, ProcessStops, ProcessAfter,
    ProcessPlaces, ProcessReturns, ProcessSuspends, P!Hangup, P!Fail, P!Prepared, P!Run, P!Served, P!Process,
    P!procVars, P!srvVars
<1>4. ProcessReads'
  BY DEF ProcessReads, ProcessTyped, ProcessResults, ProcessLogs, ProcessBefore, ProcessStops, ProcessAfter,
    ProcessPlaces, ProcessPosts, P!Hangup, P!Fail, P!Prepared, P!Run, P!Served, P!Process, P!procVars,
    P!srvVars
<1>5. ProcessOutcome'
  BY DEF ProcessOutcome, ProcessTyped, ProcessResults, ProcessLogs, ProcessBefore, ProcessStops, ProcessAfter,
    ProcessPlaces, ProcessPosts, ProcessReturns, ProcessSuspends, P!Hangup, P!Fail, P!Prepared, P!Run,
    P!Served, P!Process, P!procVars, P!srvVars
<1> QED
  BY <1>1, <1>2, <1>3, <1>4, <1>5

LEMMA ProcessTick == ASSUME ProcessInv, P!Tick PROVE ProcessInv'
<1> USE DEF ProcessInv
<1>1. ProcessTyped'
  BY DEF ProcessTyped, ProcessResults, ProcessLogs, ProcessBefore, ProcessStops, ProcessAfter, P!Tick, P!Fail,
    P!Prepared, P!Run, P!Served, P!Process, P!procVars, P!srvVars
<1>2. ProcessPlaces'
  BY DEF ProcessPlaces, ProcessTyped, ProcessResults, ProcessLogs, ProcessBefore, ProcessStops, ProcessAfter,
    ProcessPosts, ProcessReturns, ProcessSuspends, P!Tick, P!Fail, P!Prepared, P!Run, P!Served, P!Process,
    P!procVars, P!srvVars
<1>3. ProcessPosts'
  BY DEF ProcessPosts, ProcessTyped, ProcessResults, ProcessLogs, ProcessBefore, ProcessStops, ProcessAfter,
    ProcessPlaces, ProcessReturns, ProcessSuspends, P!Tick, P!Fail, P!Prepared, P!Run, P!Served, P!Process,
    P!procVars, P!srvVars
<1>4. ProcessReads'
  BY DEF ProcessReads, ProcessTyped, ProcessResults, ProcessLogs, ProcessBefore, ProcessStops, ProcessAfter,
    ProcessPlaces, ProcessPosts, P!Tick, P!Fail, P!Prepared, P!Run, P!Served, P!Process, P!procVars, P!srvVars
<1>5. ProcessOutcome'
  BY DEF ProcessOutcome, ProcessTyped, ProcessResults, ProcessLogs, ProcessBefore, ProcessStops, ProcessAfter,
    ProcessPlaces, ProcessPosts, ProcessReturns, ProcessSuspends, P!Tick, P!Fail, P!Prepared, P!Run, P!Served,
    P!Process, P!procVars, P!srvVars
<1> QED
  BY <1>1, <1>2, <1>3, <1>4, <1>5

LEMMA ProcessLastFlush == ASSUME ProcessInv, P!LastFlush PROVE ProcessInv'
<1> USE DEF ProcessInv
<1>1. ProcessTyped'
  <2>1. procLogs' \in ProcessLogs
    BY DEF ProcessTyped, ProcessLogs, P!LastFlush
  <2>2. UNCHANGED <<procPc, attempt, silent, procFiles, listener, procConn, proc, exit, queue, posted, ret, suspend, acking, stopping, procCancelled, result>>
    BY DEF P!LastFlush, P!Fail, P!Prepared, P!Run, P!Served, P!Process, P!procVars, P!srvVars
  <2>3. flusher' \in BOOLEAN
    BY DEF ProcessTyped, P!LastFlush, P!Fail, P!Prepared, P!Run, P!Served, P!Process, P!procVars, P!srvVars
  <2> QED
    BY <2>1, <2>2, <2>3 DEF ProcessTyped, ProcessBefore, ProcessStops, ProcessAfter
<1>2. ProcessPlaces'
  BY DEF ProcessPlaces, ProcessTyped, ProcessResults, ProcessLogs, ProcessBefore, ProcessStops, ProcessAfter,
    ProcessPosts, ProcessReturns, ProcessSuspends, P!LastFlush, P!Fail, P!Prepared, P!Run, P!Served,
    P!Process, P!procVars, P!srvVars
<1>3. ProcessPosts'
  BY DEF ProcessPosts, ProcessTyped, ProcessResults, ProcessLogs, ProcessBefore, ProcessStops, ProcessAfter,
    ProcessPlaces, ProcessReturns, ProcessSuspends, P!LastFlush, P!Fail, P!Prepared, P!Run, P!Served,
    P!Process, P!procVars, P!srvVars
<1>4. ProcessReads'
  BY DEF ProcessReads, ProcessTyped, ProcessResults, ProcessLogs, ProcessBefore, ProcessStops, ProcessAfter,
    ProcessPlaces, ProcessPosts, P!LastFlush, P!Fail, P!Prepared, P!Run, P!Served, P!Process, P!procVars,
    P!srvVars
<1>5. ProcessOutcome'
  BY DEF ProcessOutcome, ProcessTyped, ProcessResults, ProcessLogs, ProcessBefore, ProcessStops, ProcessAfter,
    ProcessPlaces, ProcessPosts, ProcessReturns, ProcessSuspends, P!LastFlush, P!Fail, P!Prepared, P!Run,
    P!Served, P!Process, P!procVars, P!srvVars
<1> QED
  BY <1>1, <1>2, <1>3, <1>4, <1>5

LEMMA ProcessConnect == ASSUME ProcessInv, P!Connect PROVE ProcessInv'
<1> USE DEF ProcessInv
<1>1. ProcessTyped'
  BY DEF ProcessTyped, ProcessResults, ProcessLogs, ProcessBefore, ProcessStops, ProcessAfter, P!Connect,
    P!Fail, P!Prepared, P!Run, P!Served, P!Process, P!procVars, P!srvVars
<1>2. ProcessPlaces'
  BY DEF ProcessPlaces, ProcessTyped, ProcessResults, ProcessLogs, ProcessBefore, ProcessStops, ProcessAfter,
    ProcessPosts, ProcessReturns, ProcessSuspends, P!Connect, P!Fail, P!Prepared, P!Run, P!Served, P!Process,
    P!procVars, P!srvVars
<1>3. ProcessPosts'
  BY DEF ProcessPosts, ProcessTyped, ProcessResults, ProcessLogs, ProcessBefore, ProcessStops, ProcessAfter,
    ProcessPlaces, ProcessReturns, ProcessSuspends, P!Connect, P!Fail, P!Prepared, P!Run, P!Served, P!Process,
    P!procVars, P!srvVars
<1>4. ProcessReads'
  BY DEF ProcessReads, ProcessTyped, ProcessResults, ProcessLogs, ProcessBefore, ProcessStops, ProcessAfter,
    ProcessPlaces, ProcessPosts, P!Connect, P!Fail, P!Prepared, P!Run, P!Served, P!Process, P!procVars,
    P!srvVars
<1>5. ProcessOutcome'
  BY DEF ProcessOutcome, ProcessTyped, ProcessResults, ProcessLogs, ProcessBefore, ProcessStops, ProcessAfter,
    ProcessPlaces, ProcessPosts, ProcessReturns, ProcessSuspends, P!Connect, P!Fail, P!Prepared, P!Run,
    P!Served, P!Process, P!procVars, P!srvVars
<1> QED
  BY <1>1, <1>2, <1>3, <1>4, <1>5

LEMMA ProcessLog == ASSUME ProcessInv, P!Log PROVE ProcessInv'
<1> USE DEF ProcessInv
<1>1. ProcessTyped'
  BY DEF ProcessTyped, ProcessResults, ProcessLogs, ProcessBefore, ProcessStops, ProcessAfter, P!Log, P!Fail,
    P!Prepared, P!Run, P!Served, P!Process, P!procVars, P!srvVars
<1>2. ProcessPlaces'
  BY DEF ProcessPlaces, ProcessTyped, ProcessResults, ProcessLogs, ProcessBefore, ProcessStops, ProcessAfter,
    ProcessPosts, ProcessReturns, ProcessSuspends, P!Log, P!Fail, P!Prepared, P!Run, P!Served, P!Process,
    P!procVars, P!srvVars
<1>3. ProcessPosts'
  BY DEF ProcessPosts, ProcessTyped, ProcessResults, ProcessLogs, ProcessBefore, ProcessStops, ProcessAfter,
    ProcessPlaces, ProcessReturns, ProcessSuspends, P!Log, P!Fail, P!Prepared, P!Run, P!Served, P!Process,
    P!procVars, P!srvVars
<1>4. ProcessReads'
  <2>1. /\ queue' = Append(queue, "log") /\ procLogs' = [procLogs EXCEPT !.sent = @ + 1]
        /\ UNCHANGED <<procPc, procConn, acking, flusher, stopping, procCancelled, proc>>
        /\ proc \in {"run", "told"} /\ procConn = "handled"
    BY DEF P!Log, P!Process, P!procVars
  <2>2. /\ Len(queue') = Len(queue) + 1 /\ Len(queue) \in Nat /\ queue'[Len(queue) + 1] = "log"
        /\ \A i \in 1..Len(queue) : queue'[i] = queue[i] /\ i \in 1..Len(queue')
    BY <2>1 DEF ProcessTyped
  <2>3. /\ procLogs'.sent = procLogs.sent + 1 /\ procLogs'.read = procLogs.read /\ procLogs'.saved = procLogs.saved
        /\ procLogs.sent \in Nat /\ procLogs.read \in Nat
    BY <2>1 DEF ProcessTyped, ProcessLogs
  <2>4. (\E i \in 1..Len(queue') : queue'[i] # "log") => procLogs'.read + Len(queue') = procLogs'.sent + 1
    <3>1. (\E i \in 1..Len(queue') : queue'[i] # "log") => \E i \in 1..Len(queue) : queue[i] # "log"
      BY <2>2
    <3>2. (\E i \in 1..Len(queue) : queue[i] # "log") => procLogs.read + Len(queue) = procLogs.sent + 1
      BY DEF ProcessReads
    <3>3. procLogs.read + Len(queue) = procLogs.sent + 1 => procLogs'.read + Len(queue') = procLogs'.sent + 1
      BY <2>2, <2>3
    <3> QED
      BY <3>1, <3>2, <3>3
  <2>5. (\A i \in 1..Len(queue') : queue'[i] = "log") => procLogs'.read + Len(queue') = procLogs'.sent
    <3>1. (\A i \in 1..Len(queue') : queue'[i] = "log") => \A i \in 1..Len(queue) : queue[i] = "log"
      BY <2>2
    <3>2. (\A i \in 1..Len(queue) : queue[i] = "log") => procLogs.read + Len(queue) = procLogs.sent
      BY DEF ProcessReads
    <3>3. procLogs.read + Len(queue) = procLogs.sent => procLogs'.read + Len(queue') = procLogs'.sent
      BY <2>2, <2>3
    <3> QED
      BY <3>1, <3>2, <3>3
  <2> QED
    BY <2>1, <2>3, <2>4, <2>5 DEF ProcessReads
<1>5. ProcessOutcome'
  BY DEF ProcessOutcome, ProcessTyped, ProcessResults, ProcessLogs, ProcessBefore, ProcessStops, ProcessAfter,
    ProcessPlaces, ProcessPosts, ProcessReturns, ProcessSuspends, P!Log, P!Fail, P!Prepared, P!Run, P!Served,
    P!Process, P!procVars, P!srvVars
<1> QED
  BY <1>1, <1>2, <1>3, <1>4, <1>5

LEMMA ProcessPost == ASSUME NEW what \in {"return", "suspend"}, ProcessInv, P!Post(what) PROVE ProcessInv'
<1> USE DEF ProcessInv
<1>1. ProcessTyped'
  BY DEF ProcessTyped, ProcessResults, ProcessLogs, ProcessBefore, ProcessStops, ProcessAfter, P!Post, P!Fail,
    P!Prepared, P!Run, P!Served, P!Process, P!procVars, P!srvVars
<1>2. ProcessPlaces'
  BY DEF ProcessPlaces, ProcessTyped, ProcessResults, ProcessLogs, ProcessBefore, ProcessStops, ProcessAfter,
    ProcessPosts, ProcessReturns, ProcessSuspends, P!Post, P!Fail, P!Prepared, P!Run, P!Served, P!Process,
    P!procVars, P!srvVars
<1>3. ProcessPosts'
  BY DEF ProcessPosts, ProcessTyped, ProcessResults, ProcessLogs, ProcessBefore, ProcessStops, ProcessAfter,
    ProcessPlaces, ProcessReturns, ProcessSuspends, P!Post, P!Fail, P!Prepared, P!Run, P!Served, P!Process,
    P!procVars, P!srvVars
<1>4. ProcessReads'
  <2>1. /\ queue' = Append(queue, what) /\ UNCHANGED <<procPc, procLogs, procConn, acking, flusher, stopping, procCancelled>>
        /\ proc = "run" /\ procConn = "handled" /\ proc' = "posted"
    BY DEF P!Post, P!Process
  <2>2. \A i \in 1..Len(queue) : queue[i] = "log"
    BY <2>1 DEF ProcessPosts, ProcessReturns, ProcessSuspends, ProcessTyped
  <2>3. Len(queue') = Len(queue) + 1 /\ Len(queue) \in Nat /\ queue'[Len(queue) + 1] = what
    BY <2>1 DEF ProcessTyped
  <2>4. \E i \in 1..Len(queue') : queue'[i] # "log"
    BY <2>3
  <2>5. procLogs.read + Len(queue) = procLogs.sent
    BY <2>2 DEF ProcessReads, ProcessTyped, ProcessLogs
  <2>6. procLogs.read + Len(queue') = procLogs.sent + 1
    BY <2>3, <2>5 DEF ProcessTyped, ProcessLogs
  <2> QED
    BY <2>1, <2>4, <2>6 DEF ProcessReads
<1>5. ProcessOutcome'
  BY DEF ProcessOutcome, ProcessTyped, ProcessResults, ProcessLogs, ProcessBefore, ProcessStops, ProcessAfter,
    ProcessPlaces, ProcessPosts, ProcessReturns, ProcessSuspends, P!Post, P!Fail, P!Prepared, P!Run, P!Served,
    P!Process, P!procVars, P!srvVars
<1> QED
  BY <1>1, <1>2, <1>3, <1>4, <1>5

LEMMA ProcessDie == ASSUME NEW how \in {"clean", "error", "stale", "killed"}, ProcessInv, P!Die(how) PROVE ProcessInv'
<1> USE DEF ProcessInv
<1>1. ProcessTyped'
  BY DEF ProcessTyped, ProcessResults, ProcessLogs, ProcessBefore, ProcessStops, ProcessAfter, P!Die, P!Fail,
    P!Prepared, P!Run, P!Served, P!Process, P!procVars, P!srvVars
<1>2. ProcessPlaces'
  BY DEF ProcessPlaces, ProcessTyped, ProcessResults, ProcessLogs, ProcessBefore, ProcessStops, ProcessAfter,
    ProcessPosts, ProcessReturns, ProcessSuspends, P!Die, P!Fail, P!Prepared, P!Run, P!Served, P!Process,
    P!procVars, P!srvVars
<1>3. ProcessPosts'
  BY DEF ProcessPosts, ProcessTyped, ProcessResults, ProcessLogs, ProcessBefore, ProcessStops, ProcessAfter,
    ProcessPlaces, ProcessReturns, ProcessSuspends, P!Die, P!Fail, P!Prepared, P!Run, P!Served, P!Process,
    P!procVars, P!srvVars
<1>4. ProcessReads'
  BY DEF ProcessReads, ProcessTyped, ProcessResults, ProcessLogs, ProcessBefore, ProcessStops, ProcessAfter,
    ProcessPlaces, ProcessPosts, P!Die, P!Fail, P!Prepared, P!Run, P!Served, P!Process, P!procVars, P!srvVars
<1>5. ProcessOutcome'
  BY DEF ProcessOutcome, ProcessTyped, ProcessResults, ProcessLogs, ProcessBefore, ProcessStops, ProcessAfter,
    ProcessPlaces, ProcessPosts, ProcessReturns, ProcessSuspends, P!Die, P!Fail, P!Prepared, P!Run, P!Served,
    P!Process, P!procVars, P!srvVars
<1> QED
  BY <1>1, <1>2, <1>3, <1>4, <1>5

LEMMA ProcessKill == ASSUME ProcessInv, P!Kill PROVE ProcessInv'
<1> USE DEF ProcessInv
<1>1. ProcessTyped'
  BY DEF ProcessTyped, ProcessResults, ProcessLogs, ProcessBefore, ProcessStops, ProcessAfter, P!Kill, P!Fail,
    P!Prepared, P!Run, P!Served, P!Process, P!procVars, P!srvVars
<1>2. ProcessPlaces'
  BY DEF ProcessPlaces, ProcessTyped, ProcessResults, ProcessLogs, ProcessBefore, ProcessStops, ProcessAfter,
    ProcessPosts, ProcessReturns, ProcessSuspends, P!Kill, P!Fail, P!Prepared, P!Run, P!Served, P!Process,
    P!procVars, P!srvVars
<1>3. ProcessPosts'
  BY DEF ProcessPosts, ProcessTyped, ProcessResults, ProcessLogs, ProcessBefore, ProcessStops, ProcessAfter,
    ProcessPlaces, ProcessReturns, ProcessSuspends, P!Kill, P!Fail, P!Prepared, P!Run, P!Served, P!Process,
    P!procVars, P!srvVars
<1>4. ProcessReads'
  BY DEF ProcessReads, ProcessTyped, ProcessResults, ProcessLogs, ProcessBefore, ProcessStops, ProcessAfter,
    ProcessPlaces, ProcessPosts, P!Kill, P!Fail, P!Prepared, P!Run, P!Served, P!Process, P!procVars, P!srvVars
<1>5. ProcessOutcome'
  BY DEF ProcessOutcome, ProcessTyped, ProcessResults, ProcessLogs, ProcessBefore, ProcessStops, ProcessAfter,
    ProcessPlaces, ProcessPosts, ProcessReturns, ProcessSuspends, P!Kill, P!Fail, P!Prepared, P!Run, P!Served,
    P!Process, P!procVars, P!srvVars
<1> QED
  BY <1>1, <1>2, <1>3, <1>4, <1>5

LEMMA ProcessNext == ProcessInv /\ [P!Next]_(P!vars) => ProcessInv'
<1> SUFFICES ASSUME ProcessInv, [P!Next]_(P!vars) PROVE ProcessInv'
  OBVIOUS
<1>1. CASE UNCHANGED P!vars
  <2>1. UNCHANGED <<procPc, attempt, silent, procKey, procFiles, listener, procConn, proc, exit, queue, posted, ret, suspend, acking, procLogs, flusher, stopping, procCancelled, procOver, result>>
    BY <1>1 DEF P!vars
  <2>2. ProcessTyped'
    BY <2>1 DEF ProcessInv, ProcessTyped, ProcessResults, ProcessLogs, ProcessBefore, ProcessStops, ProcessAfter
  <2>3. ProcessPlaces'
    BY <2>1 DEF ProcessInv, ProcessPlaces, ProcessTyped, ProcessResults, ProcessLogs, ProcessBefore,
      ProcessStops, ProcessAfter, ProcessPosts, ProcessReturns, ProcessSuspends
  <2>4. ProcessPosts'
    BY <2>1 DEF ProcessInv, ProcessPosts, ProcessTyped, ProcessResults, ProcessLogs, ProcessBefore,
      ProcessStops, ProcessAfter, ProcessPlaces, ProcessReturns, ProcessSuspends
  <2>5. ProcessReads'
    BY <2>1 DEF ProcessInv, ProcessReads, ProcessTyped, ProcessResults, ProcessLogs, ProcessBefore,
      ProcessStops, ProcessAfter, ProcessPlaces, ProcessPosts
  <2>6. ProcessOutcome'
    BY <2>1 DEF ProcessInv, ProcessOutcome, ProcessTyped, ProcessResults, ProcessLogs, ProcessBefore,
      ProcessStops, ProcessAfter, ProcessPlaces, ProcessPosts, ProcessReturns, ProcessSuspends
  <2> QED
    BY <2>2, <2>3, <2>4, <2>5, <2>6 DEF ProcessInv
<1>2. ASSUME NEW what \in {"return", "suspend"}, P!Post(what) PROVE ProcessInv'
  BY <1>2, ProcessPost
<1>3. ASSUME NEW how \in {"clean", "error", "stale", "killed"}, P!Die(how) PROVE ProcessInv'
  BY <1>3, ProcessDie
<1> QED
  BY <1>1, <1>2, <1>3, ProcessMint, ProcessServe, ProcessTemp, ProcessStart, ProcessReturned, ProcessExited,
    ProcessGrace, ProcessPipes, ProcessRelock, ProcessClassify, ProcessUnlisten, ProcessWaitConns,
    ProcessStopFlusher, ProcessFlushed, ProcessRevoke, ProcessAccept, ProcessCount, ProcessHandle,
    ProcessReply, ProcessHangup, ProcessTick, ProcessLastFlush, ProcessConnect, ProcessLog, ProcessKill DEF
    P!Next

LEMMA ProcessMeans == ProcessInv => P!TypeOK /\ P!OutcomeIsTheTasks /\ P!NothingIsLeft /\ P!LogsAreKept
<1>1. ProcessInv => P!TypeOK
  BY DEF ProcessInv, ProcessTyped, ProcessResults, ProcessLogs, ProcessPosts, ProcessReads, P!TypeOK
<1>2. ProcessInv => P!OutcomeIsTheTasks
  BY DEF ProcessInv, ProcessTyped, ProcessResults, ProcessPosts, ProcessOutcome, ProcessReturns,
    ProcessSuspends, ProcessAfter,
    P!OutcomeIsTheTasks
<1>3. ProcessInv => P!NothingIsLeft /\ P!LogsAreKept
  BY DEF ProcessInv, ProcessTyped, ProcessPlaces, ProcessReads, ProcessStops, P!NothingIsLeft, P!LogsAreKept,
    P!LogsAreKeptAlways
<1> QED
  BY <1>1, <1>2, <1>3

\* What AwaitBridgeCompletion and Server.Stop promise.
THEOREM ProcessesEnd ==
  P!Spec => [](P!TypeOK /\ P!OutcomeIsTheTasks /\ P!NothingIsLeft /\ P!LogsAreKept)
  BY ProcessInit, ProcessNext, ProcessMeans, PTL DEF P!Spec

-----------------------------------------------------------------------------
(***************************************************************************)
(* The routes of webhooks: WebhookRoutes.                                  *)
(***************************************************************************)

HookConstants ==
  /\ IsFiniteSet(Tasks) /\ IsFiniteSet(Conns) /\ Tasks \cap Conns = {}
  /\ None \notin Tasks \cup Paths \cup Conns \cup {"answered"} /\ Engine \notin Conns \cup {None}
HookCalls == [pc : {"idle", "register", "route", "record", "forget", "unroute", "unregister"}, path : Paths \cup {None}]
HookConns ==
  [pc : {"up", "leaveOld", "send", "closed", "gone"}, pattern : Paths \cup {None}, next : Paths \cup {None},
   at : Requests \cup {None}]
HookReqs ==
  [pc : {"new", "push", "select", "leave", "done"}, conn : Conns \cup {None}, box : 0..1, heard : 0..2,
   out : {None, "answered", "badGateway", "timeout"}]
HookTyped ==
  /\ HookConstants
  /\ hooks \in [Paths -> Tasks \cup {None}] /\ routes \in [Paths -> Conns \cup {Engine, None}]
  /\ recorded \in [Tasks -> Paths \cup {None}] /\ hookCalls \in [Tasks -> HookCalls]
  /\ hookConns \in [Conns -> HookConns] /\ hookReqs \in [Requests -> HookReqs]

\* What is claimed by a task, and by a connection.
HookOfTask(t, p) == hooks[p] = t \/ recorded[t] = p \/ (hookCalls[t].path = p /\ hookCalls[t].pc # "idle")
HookOfConn(c, p) == hookConns[c].pattern = p \/ hookConns[c].next = p

\* A path nobody contests has one claimant.
HookClaims ==
  \A p \in Paths \ contested :
    /\ \A t, u \in Tasks : HookOfTask(t, p) /\ HookOfTask(u, p) => t = u
    /\ \A c, d \in Conns : HookOfConn(c, p) /\ HookOfConn(d, p) => c = d
    /\ \A t \in Tasks, c \in Conns : ~(HookOfTask(t, p) /\ HookOfConn(c, p))

\* A task that was armed and is not on its way out is routed; a call past the engine has
\* given up every other path.
HookRouted ==
  /\ \A t \in Tasks :
       /\ hookCalls[t].pc \in {"route", "record", "unroute"} => hookCalls[t].path # None
       /\ hookCalls[t].pc \in {"unroute", "unregister"} => recorded[t] = None
       /\ hookCalls[t].pc \in {"route", "record"} => \A p \in Paths : hooks[p] = t => p = hookCalls[t].path
  /\ \A p \in Paths \ contested, t \in Tasks :
       /\ hooks[p] = t /\ hookCalls[t].pc \in {"idle", "register"} => routes[p] = Engine
       /\ recorded[t] = p /\ hookCalls[t].pc \in {"idle", "register", "route", "record"} => routes[p] = Engine
       /\ hookCalls[t].pc = "record" /\ hookCalls[t].path = p => routes[p] = Engine

\* A path that leads to a connection is its pattern, or the one it moves to.
HookPatterns ==
  /\ \A c \in Conns : hookConns[c].next # None => hookConns[c].pc = "leaveOld"
  /\ \A p \in Paths : routes[p] \in Conns =>
       hookConns[routes[p]].pc # "gone" /\ HookOfConn(routes[p], p)
  /\ \A p \in Paths \ contested, c \in Conns :
       /\ hookConns[c].pattern = p /\ hookConns[c].pc \in {"up", "send"} => routes[p] = c
       /\ hookConns[c].next = p => routes[p] = c

\* Each answer in a box, and the one on its way to it, was heard from the task.
HookAnswers ==
  /\ \A r \in Requests :
       /\ hookReqs[r].heard >= hookReqs[r].box
       /\ hookReqs[r].out = "answered" => hookReqs[r].heard > 0
  /\ \A c \in Conns : hookConns[c].pc = "send" =>
       /\ hookConns[c].at \in Requests
       /\ hookReqs[hookConns[c].at].conn = c /\ hookReqs[hookConns[c].at].pc # "new"
       /\ hookReqs[hookConns[c].at].heard >= 1 + hookReqs[hookConns[c].at].box

HookInv == HookTyped /\ HookClaims /\ HookRouted /\ HookPatterns /\ HookAnswers

LEMMA HookCardinality == \A S : H!Cardinality(S) = Cardinality(S)
  BY DEF H!Cardinality, Cardinality

LEMMA HookSingle ==
  ASSUME HookConstants, NEW p, NEW h, NEW w, NEW k, NEW n, ~(H!Cardinality(H!Claimants(p, h, w, k, n)) > 1),
         NEW x \in H!Claimants(p, h, w, k, n), NEW y \in H!Claimants(p, h, w, k, n)
  PROVE  x = y
<1> DEFINE S == H!Claimants(p, h, w, k, n)
<1>1. IsFiniteSet(Tasks \cup Conns)
  BY FS_Union DEF HookConstants
<1>2. S \subseteq Tasks \cup Conns
  BY DEF H!Claimants
<1>3. IsFiniteSet(S) /\ Cardinality(S) \in Nat
  BY <1>1, <1>2, FS_Subset, FS_CardinalityType
<1>4. CASE x # y
  <2>1. IsFiniteSet({x, y}) /\ Cardinality({x, y}) = 2
    <3>1. IsFiniteSet({y}) /\ Cardinality({y}) = 1
      BY FS_Singleton
    <3>2. IsFiniteSet({y} \cup {x}) /\ Cardinality({y} \cup {x}) = Cardinality({y}) + 1
      BY <1>4, <3>1, FS_AddElement
    <3>3. {x, y} = {y} \cup {x}
      OBVIOUS
    <3> QED
      BY <3>1, <3>2, <3>3
  <2>2. {x, y} \subseteq S
    OBVIOUS
  <2>3. 2 <= Cardinality(S)
    BY <2>1, <2>2, <1>3, FS_Subset
  <2> QED
    BY <2>3, <1>3, HookCardinality
<1> QED
  BY <1>4

\* Where claims are looked at, a path with two of them becomes contested.
LEMMA HookContest == ASSUME HookTyped', H!Contest PROVE HookClaims' /\ contested \subseteq contested'
<1>1. contested \subseteq contested'
  BY DEF H!Contest
<1>2. ASSUME NEW p \in Paths \ contested',
             NEW x \in H!Claimants(p, hooks', recorded', hookCalls', hookConns'),
             NEW y \in H!Claimants(p, hooks', recorded', hookCalls', hookConns')
      PROVE  x = y
  <2>1. ~(H!Cardinality(H!Claimants(p, hooks', recorded', hookCalls', hookConns')) > 1)
    BY DEF H!Contest
  <2> QED
    BY <2>1, HookSingle DEF HookTyped
<1>3. \A p : \A t \in Tasks : HookOfTask(t, p)' => t \in H!Claimants(p, hooks', recorded', hookCalls', hookConns')
  BY DEF HookOfTask, H!Claimants
<1>4. \A p : \A c \in Conns : HookOfConn(c, p)' => c \in H!Claimants(p, hooks', recorded', hookCalls', hookConns')
  BY DEF HookOfConn, H!Claimants
<1>5. Tasks \cap Conns = {}
  BY DEF HookTyped, HookConstants
<1> QED
  BY <1>1, <1>2, <1>3, <1>4, <1>5 DEF HookClaims

LEMMA HookFewer ==
  ASSUME HookInv, contested' = contested,
         \A t \in Tasks, p \in Paths : HookOfTask(t, p)' => HookOfTask(t, p),
         \A c \in Conns, p \in Paths : HookOfConn(c, p)' => HookOfConn(c, p)
  PROVE  HookClaims'
  BY DEF HookInv, HookClaims

LEMMA HookNoCall == H!NoCall \in HookCalls /\ H!NoCall.pc = "idle" /\ H!NoCall.path = None
  BY DEF H!NoCall, HookCalls

LEMMA HookInit == HookConstants /\ H!Init => HookInv
<1> SUFFICES ASSUME HookConstants, H!Init PROVE HookInv
  OBVIOUS
<1>1. HookTyped
  BY DEF HookTyped, H!Init, H!NoCall, H!Up, H!Fresh, HookCalls, HookConns, HookReqs
<1> DEFINE none == H!NoCall  up == H!Up  fresh == H!Fresh
<1>2. hookCalls = [t \in Tasks |-> none] /\ hookConns = [c \in Conns |-> up] /\ hookReqs = [r \in Requests |-> fresh]
  BY DEF H!Init
<1>3. none.pc = "idle" /\ up.pc = "up" /\ up.pattern = None /\ up.next = None
      /\ fresh.box = 0 /\ fresh.heard = 0 /\ fresh.out = None
  BY DEF H!NoCall, H!Up, H!Fresh
<1>4. hooks = [p \in Paths |-> None] /\ routes = [p \in Paths |-> None] /\ recorded = [t \in Tasks |-> None]
  BY DEF H!Init
<1> HIDE DEF none, up, fresh
<1>5. HookClaims
  BY <1>2, <1>3, <1>4 DEF HookConstants, HookClaims, HookOfTask, HookOfConn
<1>6. HookRouted
  BY <1>2, <1>3, <1>4 DEF HookConstants, HookRouted
<1>7. HookPatterns
  BY <1>2, <1>3, <1>4 DEF HookConstants, HookPatterns
<1>8. HookAnswers
  BY <1>2, <1>3 DEF HookConstants, HookAnswers
<1> QED
  BY <1>1, <1>5, <1>6, <1>7, <1>8 DEF HookInv

LEMMA HookBeginArm == ASSUME NEW t \in Tasks, NEW p \in Paths \cup {None}, HookInv, H!BeginArm(t, p) PROVE HookInv'
<1> USE DEF HookInv
<1>k. H!Contest /\ contested \subseteq contested'
  BY DEF H!BeginArm, H!Begin, H!Contest
<1> DEFINE call == [pc |-> "register", path |-> p]
<1>a. call \in HookCalls /\ call.pc = "register" /\ call.path = p
  <2> QED
    BY DEF HookCalls
<1>b. /\ hookCalls' = [hookCalls EXCEPT ![t] = call]
      /\ hookCalls[t] = H!NoCall
      /\ UNCHANGED <<hooks, routes, recorded, hookConns, hookReqs>>
  BY DEF H!BeginArm, H!Begin, H!connVars
<1> HIDE DEF call
<1>1. HookTyped'
  BY <1>k, <1>a, <1>b DEF HookTyped, HookConstants
<1>2. HookClaims'
  BY <1>1, <1>k, HookContest
<1>3. HookRouted'
  BY <1>k, <1>a, <1>b, <1>2, HookNoCall DEF HookRouted, HookTyped, HookConstants, HookClaims, HookOfTask,
    HookOfConn
<1>4. HookPatterns'
  BY <1>k, <1>a, <1>b, <1>2 DEF HookPatterns, HookTyped, HookConstants, HookClaims, HookOfTask, HookOfConn
<1>5. HookAnswers'
  BY <1>k, <1>a, <1>b DEF HookAnswers, HookTyped
<1> QED
  BY <1>1, <1>2, <1>3, <1>4, <1>5

LEMMA HookBeginDisarm == ASSUME NEW t \in Tasks, HookInv, H!BeginDisarm(t) PROVE HookInv'
<1> USE DEF HookInv
<1>k. H!Contest /\ contested \subseteq contested'
  BY DEF H!BeginDisarm, H!Begin, H!Contest
<1> DEFINE call == [pc |-> "forget", path |-> recorded[t]]
<1>a. call \in HookCalls /\ call.pc = "forget" /\ call.path = recorded[t]
  <2>1. recorded[t] \in Paths \cup {None}
    BY DEF HookTyped
  <2> QED
    BY <2>1 DEF HookCalls
<1>b. /\ hookCalls' = [hookCalls EXCEPT ![t] = call]
      /\ hookCalls[t] = H!NoCall
      /\ UNCHANGED <<hooks, routes, recorded, hookConns, hookReqs>>
  BY DEF H!BeginDisarm, H!Begin, H!connVars
<1> HIDE DEF call
<1>1. HookTyped'
  BY <1>k, <1>a, <1>b DEF HookTyped, HookConstants
<1>2. HookClaims'
  BY <1>1, <1>k, HookContest
<1>3. HookRouted'
  BY <1>k, <1>a, <1>b, <1>2, HookNoCall DEF HookRouted, HookTyped, HookConstants, HookClaims, HookOfTask,
    HookOfConn
<1>4. HookPatterns'
  BY <1>k, <1>a, <1>b, <1>2 DEF HookPatterns, HookTyped, HookConstants, HookClaims, HookOfTask, HookOfConn
<1>5. HookAnswers'
  BY <1>k, <1>a, <1>b DEF HookAnswers, HookTyped
<1> QED
  BY <1>1, <1>2, <1>3, <1>4, <1>5

LEMMA HookEngineRegister == ASSUME NEW t \in Tasks, HookInv, H!EngineRegister(t) PROVE HookInv'
<1> DEFINE path == hookCalls[t].path
           given == [p \in Paths |-> IF hooks[p] = t /\ p # path THEN None ELSE hooks[p]]
           gone == [p \in Paths |-> IF hooks[p] = t THEN None ELSE hooks[p]]
           call == [hookCalls[t] EXCEPT !.pc = "route"]
<1> USE DEF HookInv
<1>a. call \in HookCalls /\ call.pc = "route" /\ call.path = path
  <2>1. hookCalls[t] \in HookCalls
    BY DEF HookTyped
  <2> QED
    BY <2>1 DEF HookCalls
<1>b. /\ hookCalls[t].pc = "register"
      /\ \/ /\ hooks' = IF path # None /\ given[path] = None THEN [given EXCEPT ![path] = t] ELSE given
            /\ hookCalls' = [hookCalls EXCEPT ![t] = IF path = None THEN H!NoCall ELSE call]
         \/ /\ path # None /\ hooks' = gone
            /\ hookCalls' = [hookCalls EXCEPT ![t] = call]
         \/ hooks' = given /\ hookCalls' = [hookCalls EXCEPT ![t] = H!NoCall]
      /\ H!Contest /\ contested \subseteq contested'
      /\ UNCHANGED <<routes, recorded, hookConns, hookReqs>>
  BY DEF H!EngineRegister, H!connVars, H!Contest
<1>c. path \in Paths \cup {None} /\ None \notin Paths /\ None \notin Tasks
  BY DEF HookTyped, HookCalls, HookConstants
<1> HIDE DEF path, given, gone, call
<1>d. PICK done \in HookCalls :
        /\ hookCalls' = [hookCalls EXCEPT ![t] = done]
        /\ done.pc = "idle" \/ (done.pc = "route" /\ done.path = path /\ path # None)
  BY <1>a, <1>b, HookNoCall
\* What the engine leaves to the task is the path of the call, and to the others what they have.
<1>e. /\ hooks' \in [Paths -> Tasks \cup {None}]
      /\ \A p \in Paths : hooks'[p] # hooks[p] => (hooks[p] = t /\ hooks'[p] = None) \/ (p = path /\ hooks'[p] = t)
      /\ \A p \in Paths : hooks'[p] = t => p = path
      /\ done.pc = "idle" /\ path # None => \A p \in Paths : hooks'[p] = t => hooks[p] = t
  <2>1. given \in [Paths -> Tasks \cup {None}] /\ gone \in [Paths -> Tasks \cup {None}]
    BY DEF HookTyped, given, gone
  <2>2. \A p \in Paths : given[p] = IF hooks[p] = t /\ p # path THEN None ELSE hooks[p]
    BY DEF given
  <2>3. \A p \in Paths : gone[p] = IF hooks[p] = t THEN None ELSE hooks[p]
    BY DEF gone
  <2>4. CASE hookCalls' = [hookCalls EXCEPT ![t] = IF path = None THEN H!NoCall ELSE call]
             /\ hooks' = IF path # None /\ given[path] = None THEN [given EXCEPT ![path] = t] ELSE given
    <3>1. path # None => done.pc = "route"
      BY <1>a, <1>d, <2>4 DEF HookTyped
    <3> QED
      BY <1>c, <2>1, <2>2, <2>4, <3>1
  <2>5. CASE hooks' = gone
    BY <1>c, <2>1, <2>3, <2>5
  <2>6. CASE hooks' = given
    BY <1>c, <2>1, <2>2, <2>6
  <2> QED
    BY <1>b, <2>4, <2>5, <2>6
<1>f. UNCHANGED <<routes, recorded, hookConns, hookReqs>> /\ contested \subseteq contested'
  BY <1>b
<1>1. HookTyped'
  BY <1>d, <1>e, <1>f DEF HookTyped, HookConstants
<1>2. HookClaims'
  BY <1>1, <1>b, HookContest
<1>3. HookRouted'
  <2> USE <1>c, <1>d, <1>e, <1>f, <1>b
  <2>1. ASSUME NEW u \in Tasks PROVE
          /\ hookCalls'[u].pc \in {"route", "record", "unroute"} => hookCalls'[u].path # None
          /\ hookCalls'[u].pc \in {"unroute", "unregister"} => recorded[u] = None
          /\ hookCalls'[u].pc \in {"route", "record"} => \A p \in Paths : hooks'[p] = u => p = hookCalls'[u].path
    BY DEF HookTyped, HookRouted
  <2>2. ASSUME NEW p \in Paths \ contested', NEW u \in Tasks, hooks'[p] = u, hookCalls'[u].pc \in {"idle", "register"}
        PROVE  routes[p] = Engine
    BY <2>2 DEF HookTyped, HookRouted
  <2>3. ASSUME NEW p \in Paths \ contested', NEW u \in Tasks PROVE
          /\ recorded[u] = p /\ hookCalls'[u].pc \in {"idle", "register", "route", "record"} => routes[p] = Engine
          /\ hookCalls'[u].pc = "record" /\ hookCalls'[u].path = p => routes[p] = Engine
    BY DEF HookTyped, HookRouted
  <2> QED
    BY <2>1, <2>2, <2>3 DEF HookRouted
<1>4. HookPatterns'
  BY <1>f DEF HookPatterns, HookOfConn
<1>5. HookAnswers'
  BY <1>f DEF HookAnswers
<1> QED
  BY <1>1, <1>2, <1>3, <1>4, <1>5

LEMMA HookRouteHook == ASSUME NEW t \in Tasks, HookInv, H!RouteHook(t) PROVE HookInv'
<1> USE DEF HookInv
<1> DEFINE call == [hookCalls[t] EXCEPT !.pc = "record"]
<1>a. call \in HookCalls /\ call.pc = "record" /\ call.path = hookCalls[t].path
  <2>1. hookCalls[t] \in HookCalls
    BY DEF HookTyped
  <2> QED
    BY <2>1 DEF HookCalls
<1>b. /\ hookCalls' = [hookCalls EXCEPT ![t] = call]
      /\ hookCalls[t].pc = "route"
      /\ routes' = [routes EXCEPT ![hookCalls[t].path] = Engine]
      /\ UNCHANGED <<hooks, recorded, hookConns, hookReqs, contested, hookBegun>>
  BY DEF H!RouteHook, H!connVars
<1> HIDE DEF call
<1>1. HookTyped'
  BY <1>a, <1>b DEF HookTyped, HookConstants
<1>2. HookClaims'
  BY <1>a, <1>b DEF HookClaims, HookTyped, HookOfTask, HookOfConn
<1>3. HookRouted'
  BY <1>a, <1>b DEF HookRouted, HookTyped, HookConstants, HookClaims, HookOfTask, HookOfConn
<1>4. HookPatterns'
  BY <1>a, <1>b DEF HookPatterns, HookTyped, HookConstants, HookClaims, HookOfTask, HookOfConn
<1>5. HookAnswers'
  BY <1>a, <1>b DEF HookAnswers, HookTyped
<1> QED
  BY <1>1, <1>2, <1>3, <1>4, <1>5

LEMMA HookRecordHook == ASSUME NEW t \in Tasks, HookInv, H!RecordHook(t) PROVE HookInv'
<1> USE DEF HookInv
<1>k. H!Contest /\ contested \subseteq contested'
  BY DEF H!RecordHook, H!Begin, H!Contest
<1> DEFINE call == H!NoCall
<1>a. call \in HookCalls /\ call.pc = "idle" /\ call.path = None
  <2> QED
    BY DEF HookCalls, H!NoCall
<1>b. /\ hookCalls' = [hookCalls EXCEPT ![t] = call]
      /\ hookCalls[t].pc = "record"
      /\ recorded' = [recorded EXCEPT ![t] = hookCalls[t].path]
      /\ UNCHANGED <<hooks, routes, hookConns, hookReqs, hookBegun>>
  BY DEF H!RecordHook, H!connVars
<1> HIDE DEF call
<1>1. HookTyped'
  BY <1>k, <1>a, <1>b DEF HookTyped, HookConstants, HookCalls
<1>2. HookClaims'
  BY <1>1, <1>k, HookContest
<1>3. HookRouted'
  BY <1>k, <1>a, <1>b, <1>2 DEF HookRouted, HookTyped, HookConstants, HookClaims, HookOfTask, HookOfConn,
    HookCalls
<1>4. HookPatterns'
  BY <1>k, <1>a, <1>b, <1>2 DEF HookPatterns, HookTyped, HookConstants, HookClaims, HookOfTask, HookOfConn
<1>5. HookAnswers'
  BY <1>k, <1>a, <1>b DEF HookAnswers, HookTyped
<1> QED
  BY <1>1, <1>2, <1>3, <1>4, <1>5

LEMMA HookLand == ASSUME NEW t \in Tasks, HookInv, H!Land(t) PROVE HookInv'
<1> USE DEF HookInv
<1>k. H!Contest /\ contested \subseteq contested'
  BY DEF H!Land, H!Begin, H!Contest
<1>a. /\ hookCalls[t].pc = "idle" /\ recorded[t] # None /\ hooks[recorded[t]] = None
      /\ hooks' = [hooks EXCEPT ![recorded[t]] = t]
      /\ UNCHANGED <<routes, recorded, hookCalls, hookConns, hookReqs, hookBegun>>
  BY DEF H!Land, H!connVars
<1>1. HookTyped'
  BY <1>k, <1>a DEF HookTyped, HookConstants
<1>2. HookClaims'
  BY <1>1, <1>k, HookContest
<1>3. HookRouted'
  BY <1>k, <1>a, <1>2 DEF HookRouted, HookTyped, HookConstants, HookClaims, HookOfTask, HookOfConn
<1>4. HookPatterns'
  BY <1>k, <1>a, <1>2 DEF HookPatterns, HookTyped, HookConstants, HookClaims, HookOfTask, HookOfConn
<1>5. HookAnswers'
  BY <1>k, <1>a DEF HookAnswers, HookTyped
<1> QED
  BY <1>1, <1>2, <1>3, <1>4, <1>5

LEMMA HookForgetRecord == ASSUME NEW t \in Tasks, HookInv, H!ForgetRecord(t) PROVE HookInv'
<1> USE DEF HookInv
<1> DEFINE call == [hookCalls[t] EXCEPT !.pc = IF hookCalls[t].path = None THEN "unregister" ELSE "unroute"]
<1>a. /\ call \in HookCalls
      /\ call.pc = IF hookCalls[t].path = None THEN "unregister" ELSE "unroute"
      /\ call.path = hookCalls[t].path
  <2>1. hookCalls[t] \in HookCalls
    BY DEF HookTyped
  <2> QED
    BY <2>1 DEF HookCalls
<1>b. /\ hookCalls' = [hookCalls EXCEPT ![t] = call]
      /\ hookCalls[t].pc = "forget"
      /\ recorded' = [recorded EXCEPT ![t] = None]
      /\ UNCHANGED <<hooks, routes, hookConns, hookReqs, contested, hookBegun>>
  BY DEF H!ForgetRecord, H!connVars
<1> HIDE DEF call
<1>1. HookTyped'
  BY <1>a, <1>b DEF HookTyped, HookConstants
<1>2. HookClaims'
  <2>1. \A u \in Tasks, p \in Paths : HookOfTask(u, p)' => HookOfTask(u, p)
    BY <1>a, <1>b DEF HookTyped, HookConstants, HookOfTask
  <2>2. \A d \in Conns, p \in Paths : HookOfConn(d, p)' => HookOfConn(d, p)
    BY <1>a, <1>b DEF HookTyped, HookConstants, HookOfConn
  <2> QED
    BY <1>b, <2>1, <2>2, HookFewer
<1>3. HookRouted'
  BY <1>a, <1>b DEF HookRouted, HookTyped, HookConstants, HookClaims, HookOfTask, HookOfConn
<1>4. HookPatterns'
  BY <1>a, <1>b DEF HookPatterns, HookTyped, HookConstants, HookClaims, HookOfTask, HookOfConn
<1>5. HookAnswers'
  BY <1>a, <1>b DEF HookAnswers, HookTyped
<1> QED
  BY <1>1, <1>2, <1>3, <1>4, <1>5

LEMMA HookDropRoute == ASSUME NEW t \in Tasks, HookInv, H!DropRoute(t) PROVE HookInv'
<1> USE DEF HookInv
<1> DEFINE call == [hookCalls[t] EXCEPT !.pc = "unregister"]
<1>a. call \in HookCalls /\ call.pc = "unregister" /\ call.path = hookCalls[t].path
  <2>1. hookCalls[t] \in HookCalls
    BY DEF HookTyped
  <2> QED
    BY <2>1 DEF HookCalls
<1>b. /\ hookCalls' = [hookCalls EXCEPT ![t] = call]
      /\ hookCalls[t].pc = "unroute"
      /\ routes' = [routes EXCEPT ![hookCalls[t].path] = None]
      /\ UNCHANGED <<hooks, recorded, hookConns, hookReqs, contested, hookBegun>>
  BY DEF H!DropRoute, H!connVars
<1> HIDE DEF call
<1>1. HookTyped'
  BY <1>a, <1>b DEF HookTyped, HookConstants
<1>2. HookClaims'
  BY <1>a, <1>b DEF HookClaims, HookTyped, HookOfTask, HookOfConn
<1>3. HookRouted'
  BY <1>a, <1>b DEF HookRouted, HookTyped, HookConstants, HookClaims, HookOfTask, HookOfConn
<1>4. HookPatterns'
  BY <1>a, <1>b DEF HookPatterns, HookTyped, HookConstants, HookClaims, HookOfTask, HookOfConn
<1>5. HookAnswers'
  BY <1>a, <1>b DEF HookAnswers, HookTyped
<1> QED
  BY <1>1, <1>2, <1>3, <1>4, <1>5

LEMMA HookEngineUnregister == ASSUME NEW t \in Tasks, HookInv, H!EngineUnregister(t) PROVE HookInv'
<1> USE DEF HookInv
<1> DEFINE call == H!NoCall
<1>a. call \in HookCalls /\ call.pc = "idle" /\ call.path = None
  <2> QED
    BY DEF HookCalls, H!NoCall
<1>b. /\ hookCalls' = [hookCalls EXCEPT ![t] = call]
      /\ hookCalls[t].pc = "unregister"
      /\ hooks' = [p \in Paths |-> IF hooks[p] = t THEN None ELSE hooks[p]]
      /\ UNCHANGED <<routes, recorded, hookConns, hookReqs, contested, hookBegun>>
  BY DEF H!EngineUnregister, H!connVars
<1> HIDE DEF call
<1>1. HookTyped'
  BY <1>a, <1>b DEF HookTyped, HookConstants
<1>2. HookClaims'
  <2>1. \A u \in Tasks, p \in Paths : HookOfTask(u, p)' => HookOfTask(u, p)
    BY <1>a, <1>b DEF HookTyped, HookConstants, HookOfTask
  <2>2. \A d \in Conns, p \in Paths : HookOfConn(d, p)' => HookOfConn(d, p)
    BY <1>a, <1>b DEF HookTyped, HookConstants, HookOfConn
  <2> QED
    BY <1>b, <2>1, <2>2, HookFewer
<1>3. HookRouted'
  <2>1. \A p \in Paths : hooks'[p] # t /\ (hooks'[p] # None => hooks'[p] = hooks[p])
    BY <1>b DEF HookTyped, HookConstants
  <2>2. \A u \in Tasks : u # t => hookCalls'[u] = hookCalls[u]
    BY <1>b DEF HookTyped
  <2>3. hookCalls'[t].pc = "idle" /\ hookCalls[t].pc = "unregister"
    BY <1>a, <1>b DEF HookTyped
  <2>4. \A p \in Paths : recorded[t] # p
    BY <1>b DEF HookRouted, HookTyped, HookConstants
  <2> QED
    BY <1>b, <2>1, <2>2, <2>3, <2>4 DEF HookRouted, HookTyped, HookConstants
<1>4. HookPatterns'
  BY <1>a, <1>b DEF HookPatterns, HookTyped, HookConstants, HookClaims, HookOfTask, HookOfConn
<1>5. HookAnswers'
  BY <1>a, <1>b DEF HookAnswers, HookTyped
<1> QED
  BY <1>1, <1>2, <1>3, <1>4, <1>5

LEMMA HookHttpRegister == ASSUME NEW c \in Conns, NEW p \in Paths, HookInv, H!HttpRegister(c, p) PROVE HookInv'
<1> USE DEF HookInv
<1>k. H!Contest /\ contested \subseteq contested'
  BY DEF H!HttpRegister, H!Begin, H!Contest
<1> DEFINE conn == [hookConns[c] EXCEPT !.pc = "leaveOld", !.next = p]
<1>a. /\ conn \in HookConns /\ conn.pc = "leaveOld" /\ conn.pattern = hookConns[c].pattern
      /\ conn.next = p /\ conn.at = hookConns[c].at
  <2>1. hookConns[c] \in HookConns
    BY DEF HookTyped
  <2> QED
    BY <2>1 DEF HookConns
<1>b. /\ hookConns' = [hookConns EXCEPT ![c] = conn]
      /\ hookConns[c].pc = "up"
      /\ routes' = [routes EXCEPT ![p] = c]
      /\ UNCHANGED <<hooks, recorded, hookCalls, hookReqs, hookBegun>>
  BY DEF H!HttpRegister
<1> HIDE DEF conn
<1>1. HookTyped'
  BY <1>k, <1>a, <1>b DEF HookTyped, HookConstants
<1>2. HookClaims'
  BY <1>1, <1>k, HookContest
<1>3. HookRouted'
  BY <1>k, <1>a, <1>b, <1>2 DEF HookRouted, HookTyped, HookConstants, HookClaims, HookOfTask, HookOfConn
<1>4. HookPatterns'
  BY <1>k, <1>a, <1>b, <1>2 DEF HookPatterns, HookTyped, HookConstants, HookClaims, HookOfTask, HookOfConn
<1>5. HookAnswers'
  BY <1>k, <1>a, <1>b DEF HookAnswers, HookTyped
<1> QED
  BY <1>1, <1>2, <1>3, <1>4, <1>5

LEMMA HookLeaveOld == ASSUME NEW c \in Conns, HookInv, H!LeaveOld(c) PROVE HookInv'
<1> USE DEF HookInv
<1> DEFINE conn == [hookConns[c] EXCEPT !.pc = "up", !.pattern = hookConns[c].next, !.next = None]
<1>a. /\ conn \in HookConns /\ conn.pc = "up" /\ conn.pattern = hookConns[c].next
      /\ conn.next = None /\ conn.at = hookConns[c].at
  <2>1. hookConns[c] \in HookConns
    BY DEF HookTyped
  <2> QED
    BY <2>1 DEF HookConns
<1>b. /\ hookConns' = [hookConns EXCEPT ![c] = conn]
      /\ hookConns[c].pc = "leaveOld"
      /\ routes' = IF hookConns[c].pattern \notin {None, hookConns[c].next}
                 THEN [routes EXCEPT ![hookConns[c].pattern] = None] ELSE routes
      /\ UNCHANGED <<hooks, recorded, hookCalls, hookReqs, contested, hookBegun>>
  BY DEF H!LeaveOld, H!Goes
<1> HIDE DEF conn
<1>1. HookTyped'
  BY <1>a, <1>b DEF HookTyped, HookConstants
<1>2. HookClaims'
  <2>1. \A u \in Tasks, p \in Paths : HookOfTask(u, p)' => HookOfTask(u, p)
    BY <1>a, <1>b DEF HookTyped, HookConstants, HookOfTask
  <2>2. \A d \in Conns, p \in Paths : HookOfConn(d, p)' => HookOfConn(d, p)
    BY <1>a, <1>b DEF HookTyped, HookConstants, HookOfConn
  <2> QED
    BY <1>b, <2>1, <2>2, HookFewer
<1>3. HookRouted'
  BY <1>a, <1>b DEF HookRouted, HookTyped, HookConstants, HookClaims, HookOfTask, HookOfConn
<1>4. HookPatterns'
  BY <1>a, <1>b DEF HookPatterns, HookTyped, HookConstants, HookClaims, HookOfTask, HookOfConn
<1>5. HookAnswers'
  BY <1>a, <1>b DEF HookAnswers, HookTyped
<1> QED
  BY <1>1, <1>2, <1>3, <1>4, <1>5

LEMMA HookLoadAnswer == ASSUME NEW c \in Conns, NEW r \in Requests, HookInv, H!LoadAnswer(c, r) PROVE HookInv'
<1> USE DEF HookInv
<1> DEFINE conn == [hookConns[c] EXCEPT !.pc = "send", !.at = r]
<1>a. /\ conn \in HookConns /\ conn.pc = "send" /\ conn.pattern = hookConns[c].pattern
      /\ conn.next = hookConns[c].next /\ conn.at = r
  <2>1. hookConns[c] \in HookConns
    BY DEF HookTyped
  <2> QED
    BY <2>1 DEF HookConns
<1> DEFINE req == [hookReqs[r] EXCEPT !.heard = hookReqs[r].heard + 1]
<1>b. /\ req \in HookReqs /\ req.pc = hookReqs[r].pc /\ req.conn = hookReqs[r].conn
      /\ req.box = hookReqs[r].box /\ req.heard = hookReqs[r].heard + 1
      /\ req.out = hookReqs[r].out
  <2>1. hookReqs[r] \in HookReqs
    BY DEF HookTyped
  <2>2. hookReqs[r].heard + 1 \in 0..2
    BY DEF H!LoadAnswer, HookTyped, HookReqs
  <2> QED
    BY <2>1, <2>2 DEF HookReqs
<1>c. /\ hookConns[c].pc = "up" /\ hookReqs[r].conn = c /\ hookReqs[r].heard < 2 /\ hookReqs[r].pc # "new"
      /\ hookReqs' = [hookReqs EXCEPT ![r] = req]
      /\ hookConns' = [hookConns EXCEPT ![c] = conn] \/ UNCHANGED hookConns
      /\ UNCHANGED <<hooks, routes, recorded, hookCalls, contested, hookBegun>>
  BY DEF H!LoadAnswer, H!Goes
<1> HIDE DEF conn, req
<1>1. HookTyped'
  BY <1>a, <1>b, <1>c DEF HookTyped, HookConstants
<1>2. HookClaims'
  BY <1>a, <1>b, <1>c DEF HookClaims, HookTyped, HookOfTask, HookOfConn
<1>3. HookRouted'
  BY <1>a, <1>b, <1>c DEF HookRouted, HookTyped, HookConstants, HookClaims, HookOfTask, HookOfConn
<1>4. HookPatterns'
  BY <1>a, <1>b, <1>c DEF HookPatterns, HookTyped, HookConstants, HookClaims, HookOfTask, HookOfConn
<1>5. HookAnswers'
  <2>1. \A x \in Requests : hookReqs[x].heard \in Nat /\ hookReqs[x].box \in 0..1
    BY DEF HookTyped, HookReqs
  <2> QED
    BY <1>a, <1>b, <1>c, <2>1 DEF HookAnswers, HookTyped
<1> QED
  BY <1>1, <1>2, <1>3, <1>4, <1>5

LEMMA HookSendAnswer == ASSUME NEW c \in Conns, HookInv, H!SendAnswer(c) PROVE HookInv'
<1> USE DEF HookInv
<1> PICK r \in Requests : r = hookConns[c].at
  BY DEF HookAnswers, H!SendAnswer, H!Goes
<1> DEFINE conn == [hookConns[c] EXCEPT !.pc = "up", !.at = None]
<1>a. /\ conn \in HookConns /\ conn.pc = "up" /\ conn.pattern = hookConns[c].pattern
      /\ conn.next = hookConns[c].next /\ conn.at = None
  <2>1. hookConns[c] \in HookConns
    BY DEF HookTyped
  <2> QED
    BY <2>1 DEF HookConns
<1> DEFINE req == [hookReqs[r] EXCEPT !.box = 1]
<1>b. /\ req \in HookReqs /\ req.pc = hookReqs[r].pc /\ req.conn = hookReqs[r].conn /\ req.box = 1
      /\ req.heard = hookReqs[r].heard /\ req.out = hookReqs[r].out
  <2>1. hookReqs[r] \in HookReqs
    BY DEF HookTyped
  <2> QED
    BY <2>1 DEF HookReqs
<1>c. /\ hookConns[c].pc = "send" /\ hookReqs[r].box = 0 /\ r = hookConns[c].at
      /\ hookReqs' = [hookReqs EXCEPT ![r] = req]
      /\ hookConns' = [hookConns EXCEPT ![c] = conn]
      /\ UNCHANGED <<hooks, routes, recorded, hookCalls, contested, hookBegun>>
  BY DEF H!SendAnswer, H!Goes
<1> HIDE DEF conn, req
<1>1. HookTyped'
  BY <1>a, <1>b, <1>c DEF HookTyped, HookConstants
<1>2. HookClaims'
  BY <1>a, <1>b, <1>c DEF HookClaims, HookTyped, HookOfTask, HookOfConn
<1>3. HookRouted'
  BY <1>a, <1>b, <1>c DEF HookRouted, HookTyped, HookConstants, HookClaims, HookOfTask, HookOfConn
<1>4. HookPatterns'
  BY <1>a, <1>b, <1>c DEF HookPatterns, HookTyped, HookConstants, HookClaims, HookOfTask, HookOfConn
<1>5. HookAnswers'
  BY <1>a, <1>b, <1>c DEF HookAnswers, HookTyped
<1> QED
  BY <1>1, <1>2, <1>3, <1>4, <1>5

LEMMA HookBreak == ASSUME NEW c \in Conns, HookInv, H!Break(c) PROVE HookInv'
<1> USE DEF HookInv
<1> DEFINE conn == [hookConns[c] EXCEPT !.pc = "closed"]
<1>a. /\ conn \in HookConns /\ conn.pc = "closed" /\ conn.pattern = hookConns[c].pattern
      /\ conn.next = hookConns[c].next /\ conn.at = hookConns[c].at
  <2>1. hookConns[c] \in HookConns
    BY DEF HookTyped
  <2> QED
    BY <2>1 DEF HookConns
<1>b. /\ hookConns[c].pc = "up"
      /\ hookConns' = [hookConns EXCEPT ![c] = conn]
      /\ UNCHANGED <<hooks, routes, recorded, hookCalls, hookReqs, contested, hookBegun>>
  BY DEF H!Break, H!Goes
<1> HIDE DEF conn
<1>1. HookTyped'
  BY <1>a, <1>b DEF HookTyped, HookConstants
<1>2. HookClaims'
  BY <1>a, <1>b DEF HookClaims, HookTyped, HookOfTask, HookOfConn
<1>3. HookRouted'
  BY <1>a, <1>b DEF HookRouted, HookTyped, HookConstants, HookClaims, HookOfTask, HookOfConn
<1>4. HookPatterns'
  BY <1>a, <1>b DEF HookPatterns, HookTyped, HookConstants, HookClaims, HookOfTask, HookOfConn
<1>5. HookAnswers'
  BY <1>a, <1>b DEF HookAnswers, HookTyped
<1> QED
  BY <1>1, <1>2, <1>3, <1>4, <1>5

LEMMA HookHandlerReturns == ASSUME NEW c \in Conns, HookInv, H!HandlerReturns(c) PROVE HookInv'
<1> USE DEF HookInv
<1> DEFINE conn == [H!Up EXCEPT !.pc = "gone"]
<1>a. conn \in HookConns /\ conn.pc = "gone" /\ conn.pattern = None /\ conn.next = None
  <2> QED
    BY DEF HookConns, H!Up
<1>b. /\ hookConns[c].pc = "closed"
      /\ hookConns' = [hookConns EXCEPT ![c] = conn]
      /\ routes' = IF hookConns[c].pattern # None THEN [routes EXCEPT ![hookConns[c].pattern] = None] ELSE routes
      /\ UNCHANGED <<hooks, recorded, hookCalls, hookReqs, contested, hookBegun>>
  BY DEF H!HandlerReturns, H!Goes
<1> HIDE DEF conn
<1>1. HookTyped'
  BY <1>a, <1>b DEF HookTyped, HookConstants
<1>2. HookClaims'
  <2>1. \A u \in Tasks, p \in Paths : HookOfTask(u, p)' => HookOfTask(u, p)
    BY <1>a, <1>b DEF HookTyped, HookConstants, HookOfTask
  <2>2. \A d \in Conns, p \in Paths : HookOfConn(d, p)' => HookOfConn(d, p)
    BY <1>a, <1>b DEF HookTyped, HookConstants, HookOfConn
  <2> QED
    BY <1>b, <2>1, <2>2, HookFewer
<1>3. HookRouted'
  BY <1>a, <1>b DEF HookRouted, HookTyped, HookConstants, HookClaims, HookOfTask, HookOfConn
<1>4. HookPatterns'
  BY <1>a, <1>b DEF HookPatterns, HookTyped, HookConstants, HookClaims, HookOfTask, HookOfConn
<1>5. HookAnswers'
  BY <1>a, <1>b DEF HookAnswers, HookTyped
<1> QED
  BY <1>1, <1>2, <1>3, <1>4, <1>5

LEMMA HookDispatch == ASSUME NEW r \in Requests, NEW p \in Paths, HookInv, H!Dispatch(r, p) PROVE HookInv'
<1> USE DEF HookInv
<1> DEFINE req == [hookReqs[r] EXCEPT !.pc = "push", !.conn = routes[p]]
<1>a. /\ req \in HookReqs /\ req.pc = "push" /\ req.conn = routes[p] /\ req.box = hookReqs[r].box
      /\ req.heard = hookReqs[r].heard /\ req.out = hookReqs[r].out
  <2>1. hookReqs[r] \in HookReqs
    BY DEF HookTyped
  <2>2. routes[p] \in Conns
    BY DEF H!Dispatch
  <2> QED
    BY <2>1, <2>2 DEF HookReqs
<1>b. /\ hookReqs[r].pc = "new"
      /\ hookReqs' = [hookReqs EXCEPT ![r] = req]
      /\ UNCHANGED <<hooks, routes, recorded, hookCalls, hookConns, contested, hookBegun>>
  BY DEF H!Dispatch, H!Only, H!routeVars
<1> HIDE DEF req
<1>1. HookTyped'
  BY <1>a, <1>b DEF HookTyped, HookConstants
<1>2. HookClaims'
  BY <1>a, <1>b DEF HookClaims, HookTyped, HookOfTask, HookOfConn
<1>3. HookRouted'
  BY <1>a, <1>b DEF HookRouted, HookTyped, HookConstants, HookClaims, HookOfTask, HookOfConn
<1>4. HookPatterns'
  BY <1>a, <1>b DEF HookPatterns, HookTyped, HookConstants, HookClaims, HookOfTask, HookOfConn
<1>5. HookAnswers'
  BY <1>a, <1>b DEF HookAnswers, HookTyped
<1> QED
  BY <1>1, <1>2, <1>3, <1>4, <1>5

LEMMA HookPush == ASSUME NEW r \in Requests, HookInv, H!Push(r) PROVE HookInv'
<1> USE DEF HookInv
<1> DEFINE req == [hookReqs[r] EXCEPT !.pc = "leave", !.out = "badGateway"]
<1>a. /\ req \in HookReqs /\ req.pc = "leave" /\ req.conn = hookReqs[r].conn
      /\ req.box = hookReqs[r].box /\ req.heard = hookReqs[r].heard /\ req.out = "badGateway"
  <2>1. hookReqs[r] \in HookReqs
    BY DEF HookTyped
  <2> QED
    BY <2>1 DEF HookReqs
<1> DEFINE pushed == [hookReqs[r] EXCEPT !.pc = "select"]
<1>b. /\ pushed \in HookReqs /\ pushed.pc = "select" /\ pushed.conn = hookReqs[r].conn
      /\ pushed.box = hookReqs[r].box /\ pushed.heard = hookReqs[r].heard
      /\ pushed.out = hookReqs[r].out
  <2>1. hookReqs[r] \in HookReqs
    BY DEF HookTyped
  <2> QED
    BY <2>1 DEF HookReqs
<1>c. /\ hookReqs[r].pc = "push"
      /\ hookReqs' = [hookReqs EXCEPT ![r] = req] \/ hookReqs' = [hookReqs EXCEPT ![r] = pushed]
      /\ UNCHANGED <<hooks, routes, recorded, hookCalls, hookConns, contested, hookBegun>>
  BY DEF H!Push, H!Only, H!routeVars, H!Answered
<1> HIDE DEF req, pushed
<1>1. HookTyped'
  BY <1>a, <1>b, <1>c DEF HookTyped, HookConstants
<1>2. HookClaims'
  BY <1>a, <1>b, <1>c DEF HookClaims, HookTyped, HookOfTask, HookOfConn
<1>3. HookRouted'
  BY <1>a, <1>b, <1>c DEF HookRouted, HookTyped, HookConstants, HookClaims, HookOfTask, HookOfConn
<1>4. HookPatterns'
  BY <1>a, <1>b, <1>c DEF HookPatterns, HookTyped, HookConstants, HookClaims, HookOfTask, HookOfConn
<1>5. HookAnswers'
  BY <1>a, <1>b, <1>c DEF HookAnswers, HookTyped
<1> QED
  BY <1>1, <1>2, <1>3, <1>4, <1>5

LEMMA HookTakeAnswer == ASSUME NEW r \in Requests, HookInv, H!TakeAnswer(r) PROVE HookInv'
<1> USE DEF HookInv
<1> DEFINE req == [hookReqs[r] EXCEPT !.pc = "leave", !.out = "answered", !.box = 0]
<1>a. /\ req \in HookReqs /\ req.pc = "leave" /\ req.conn = hookReqs[r].conn /\ req.box = 0
      /\ req.heard = hookReqs[r].heard /\ req.out = "answered"
  <2>1. hookReqs[r] \in HookReqs
    BY DEF HookTyped
  <2>2. 0 \in 0..1
    OBVIOUS
  <2> QED
    BY <2>1, <2>2 DEF HookReqs
<1>b. /\ hookReqs[r].pc = "select" /\ hookReqs[r].box = 1
      /\ hookReqs' = [hookReqs EXCEPT ![r] = req]
      /\ UNCHANGED <<hooks, routes, recorded, hookCalls, hookConns, contested, hookBegun>>
  BY DEF H!TakeAnswer, H!Only, H!routeVars
<1> HIDE DEF req
<1>1. HookTyped'
  BY <1>a, <1>b DEF HookTyped, HookConstants
<1>2. HookClaims'
  BY <1>a, <1>b DEF HookClaims, HookTyped, HookOfTask, HookOfConn
<1>3. HookRouted'
  BY <1>a, <1>b DEF HookRouted, HookTyped, HookConstants, HookClaims, HookOfTask, HookOfConn
<1>4. HookPatterns'
  BY <1>a, <1>b DEF HookPatterns, HookTyped, HookConstants, HookClaims, HookOfTask, HookOfConn
<1>5. HookAnswers'
  <2>1. \A x \in Requests : hookReqs[x].heard \in Nat /\ hookReqs[x].box \in 0..1
    BY DEF HookTyped, HookReqs
  <2> QED
    BY <1>a, <1>b, <2>1 DEF HookAnswers, HookTyped
<1> QED
  BY <1>1, <1>2, <1>3, <1>4, <1>5

LEMMA HookGiveUp == ASSUME NEW r \in Requests, HookInv, H!GiveUp(r) PROVE HookInv'
<1> USE DEF HookInv
<1> DEFINE req == [hookReqs[r] EXCEPT !.pc = "leave", !.out = "timeout"]
<1>a. /\ req \in HookReqs /\ req.pc = "leave" /\ req.conn = hookReqs[r].conn
      /\ req.box = hookReqs[r].box /\ req.heard = hookReqs[r].heard /\ req.out = "timeout"
  <2>1. hookReqs[r] \in HookReqs
    BY DEF HookTyped
  <2> QED
    BY <2>1 DEF HookReqs
<1>b. /\ hookReqs[r].pc = "select"
      /\ hookReqs' = [hookReqs EXCEPT ![r] = req]
      /\ UNCHANGED <<hooks, routes, recorded, hookCalls, hookConns, contested, hookBegun>>
  BY DEF H!GiveUp, H!Only, H!routeVars, H!Answered
<1> HIDE DEF req
<1>1. HookTyped'
  BY <1>a, <1>b DEF HookTyped, HookConstants
<1>2. HookClaims'
  BY <1>a, <1>b DEF HookClaims, HookTyped, HookOfTask, HookOfConn
<1>3. HookRouted'
  BY <1>a, <1>b DEF HookRouted, HookTyped, HookConstants, HookClaims, HookOfTask, HookOfConn
<1>4. HookPatterns'
  BY <1>a, <1>b DEF HookPatterns, HookTyped, HookConstants, HookClaims, HookOfTask, HookOfConn
<1>5. HookAnswers'
  BY <1>a, <1>b DEF HookAnswers, HookTyped
<1> QED
  BY <1>1, <1>2, <1>3, <1>4, <1>5

LEMMA HookForgetRequest == ASSUME NEW r \in Requests, HookInv, H!ForgetRequest(r) PROVE HookInv'
<1> USE DEF HookInv
<1> DEFINE req == [hookReqs[r] EXCEPT !.pc = "done"]
<1>a. /\ req \in HookReqs /\ req.pc = "done" /\ req.conn = hookReqs[r].conn
      /\ req.box = hookReqs[r].box /\ req.heard = hookReqs[r].heard /\ req.out = hookReqs[r].out
  <2>1. hookReqs[r] \in HookReqs
    BY DEF HookTyped
  <2> QED
    BY <2>1 DEF HookReqs
<1>b. /\ hookReqs[r].pc = "leave"
      /\ hookReqs' = [hookReqs EXCEPT ![r] = req]
      /\ UNCHANGED <<hooks, routes, recorded, hookCalls, hookConns, contested, hookBegun>>
  BY DEF H!ForgetRequest, H!Only, H!routeVars
<1> HIDE DEF req
<1>1. HookTyped'
  BY <1>a, <1>b DEF HookTyped, HookConstants
<1>2. HookClaims'
  BY <1>a, <1>b DEF HookClaims, HookTyped, HookOfTask, HookOfConn
<1>3. HookRouted'
  BY <1>a, <1>b DEF HookRouted, HookTyped, HookConstants, HookClaims, HookOfTask, HookOfConn
<1>4. HookPatterns'
  BY <1>a, <1>b DEF HookPatterns, HookTyped, HookConstants, HookClaims, HookOfTask, HookOfConn
<1>5. HookAnswers'
  BY <1>a, <1>b DEF HookAnswers, HookTyped
<1> QED
  BY <1>1, <1>2, <1>3, <1>4, <1>5

LEMMA HookNext == HookInv /\ [H!Next]_(H!vars) => HookInv'
<1> SUFFICES ASSUME HookInv, [H!Next]_(H!vars) PROVE HookInv'
  OBVIOUS
<1>1. CASE UNCHANGED H!vars
  <2>1. UNCHANGED <<hooks, routes, recorded, hookCalls, hookConns, hookReqs, contested, hookBegun, registers>>
    BY <1>1 DEF H!vars
  <2>2. HookTyped'
    BY <2>1 DEF HookInv, HookTyped, HookConstants
  <2>3. HookClaims'
    BY <2>1 DEF HookInv, HookClaims, HookTyped, HookOfTask, HookOfConn
  <2>4. HookRouted'
    BY <2>1 DEF HookInv, HookRouted, HookTyped, HookConstants, HookClaims, HookOfTask, HookOfConn
  <2>5. HookPatterns'
    BY <2>1 DEF HookInv, HookPatterns, HookTyped, HookConstants, HookClaims, HookOfTask, HookOfConn
  <2>6. HookAnswers'
    BY <2>1 DEF HookInv, HookAnswers, HookTyped
  <2> QED
    BY <2>2, <2>3, <2>4, <2>5, <2>6 DEF HookInv
<1>2. ASSUME NEW t \in Tasks, NEW p \in Paths \cup {None}, H!BeginArm(t, p) PROVE HookInv'
  BY <1>2, HookBeginArm
<1>3. ASSUME NEW t \in Tasks,
             H!BeginDisarm(t) \/ H!EngineRegister(t) \/ H!RouteHook(t) \/ H!RecordHook(t) \/ H!Land(t) \/ H!ForgetRecord(t) \/ H!DropRoute(t) \/ H!EngineUnregister(t)
      PROVE  HookInv'
  BY <1>3, HookBeginDisarm, HookEngineRegister, HookRouteHook, HookRecordHook, HookLand, HookForgetRecord,
    HookDropRoute, HookEngineUnregister
<1>4. ASSUME NEW c \in Conns, NEW p \in Paths, H!HttpRegister(c, p) PROVE HookInv'
  BY <1>4, HookHttpRegister
<1>5. ASSUME NEW c \in Conns,
             H!LeaveOld(c) \/ H!SendAnswer(c) \/ H!Break(c) \/ H!HandlerReturns(c)
      PROVE  HookInv'
  BY <1>5, HookLeaveOld, HookSendAnswer, HookBreak, HookHandlerReturns
<1>6. ASSUME NEW c \in Conns, NEW r \in Requests, H!LoadAnswer(c, r) PROVE HookInv'
  BY <1>6, HookLoadAnswer
<1>7. ASSUME NEW r \in Requests, NEW p \in Paths, H!Dispatch(r, p) PROVE HookInv'
  BY <1>7, HookDispatch
<1>8. ASSUME NEW r \in Requests,
             H!Push(r) \/ H!TakeAnswer(r) \/ H!GiveUp(r) \/ H!ForgetRequest(r)
      PROVE  HookInv'
  BY <1>8, HookPush, HookTakeAnswer, HookGiveUp, HookForgetRequest
<1> QED
  BY <1>1, <1>2, <1>3, <1>4, <1>5, <1>6, <1>7, <1>8 DEF H!Next

LEMMA HookMeans == HookInv => H!TypeOK /\ H!ClaimIsRouted /\ H!NoDeadRoute /\ H!LoopsGoOn
<1>1. HookInv => H!TypeOK
  BY DEF HookInv, HookTyped, HookConns, HookReqs, H!TypeOK
<1>2. HookInv => H!ClaimIsRouted /\ H!NoDeadRoute
  BY DEF HookInv, HookTyped, HookConstants, HookRouted, HookPatterns, H!ClaimIsRouted, H!NoDeadRoute
<1>3. HookInv => H!LoopsGoOn
  BY DEF HookInv, HookTyped, HookReqs, HookAnswers, H!LoopsGoOn
<1> QED
  BY <1>1, <1>2, <1>3

\* What the gateway and its claimants promise.
THEOREM HooksStayRouted ==
  HookConstants => (H!Spec => [](H!TypeOK /\ H!ClaimIsRouted /\ H!NoDeadRoute /\ H!LoopsGoOn))
  BY HookInit, HookNext, HookMeans, PTL DEF H!Spec

-----------------------------------------------------------------------------
(***************************************************************************)
(* The requests to webhooks: WebhookFires.                                 *)
(***************************************************************************)

FireConstants ==
  /\ IsFiniteSet(Ids) /\ IsFiniteSet(Shapes) /\ None \notin Int
  /\ Shapes \subseteq [ts : Int \cup {None}, body : {s.body : s \in Shapes}, signed : BOOLEAN, get : BOOLEAN,
                       asset : BOOLEAN, session : BOOLEAN, relayed : BOOLEAN, wait : BOOLEAN]
  /\ Versions \subseteq [mode : {"off", "any", "session"}, secret : BOOLEAN, needTs : BOOLEAN, protect : BOOLEAN,
                         pipe : BOOLEAN]
  /\ InitialVersions \subseteq Versions
  /\ HookTTL \in Nat /\ HookTolerance \in Nat /\ 2 * HookTolerance < HookTTL
  /\ MaxEntries \in Nat \ {0} /\ HookSlots \in Nat /\ MaxHookNow \in Nat
FireReqs ==
  [pc : {"idle", "handle", "verify", "seen", "fire", "drain", "run"}, shape : Shapes \cup {None},
   guard : Versions \cup {None}, spec : Versions \cup {None}, session : BOOLEAN]
FireMarks == [digest : F!Digests, at : Int]
FireCaches == [F!Digests -> Int \cup {None}]
FireTyped ==
  /\ FireConstants
  /\ hookNow \in 0..MaxHookNow /\ hookTask \in Versions /\ sem \in Int
  /\ entries \in FireCaches /\ order \in Seq(FireMarks)
  /\ fireReqs \in [Ids -> FireReqs]
  /\ admitted \subseteq [digest : F!Digests, at : Int, n : Nat] /\ forgotten \subseteq F!Digests

\* A digest of which a copy came at an age of exactly HookTTL.
FireExact(d) == \E a, b \in admitted : a.digest = d /\ b.digest = d /\ b.at - a.at = HookTTL

\* The order is of admissions, oldest first; a record is of an entry of the order.
FireOrdered(o) ==
  /\ \A i \in 1..Len(o) : o[i].at <= hookNow /\ \E f \in admitted : f.digest = o[i].digest /\ f.at = o[i].at
  /\ \A i, j \in 1..Len(o) : i < j => o[i].at <= o[j].at
FireHeld(o, e) ==
  \A d \in F!Digests : e[d] # None => \E i \in 1..Len(o) : o[i].digest = d /\ o[i].at = e[d]
\* Two entries of a digest are of copies at most HookTTL apart, and the record is the newer.
FireTwo(o, e, gone) ==
  \A i, j \in 1..Len(o) :
    i < j /\ o[i].digest = o[j].digest /\ o[i].digest \notin gone =>
      /\ o[i].at < o[j].at /\ o[j].at <= o[i].at + HookTTL
      /\ e[o[i].digest] = o[j].at /\ FireExact(o[i].digest)
\* An entry without its record lost it to an older entry that expired.
FireLost(o, e, gone) ==
  \A i \in 1..Len(o) :
    o[i].digest \notin gone /\ e[o[i].digest] = None => o[i].at < hookNow /\ FireExact(o[i].digest)
FireCached(o, e, gone) == FireOrdered(o) /\ FireHeld(o, e) /\ FireTwo(o, e, gone) /\ FireLost(o, e, gone)
FireCache == FireCached(order, entries, forgotten) /\ F!Cardinality(F!Held(entries)) <= MaxEntries

\* A digest that was let through is in the order until its time is over.
FireWindow(o, gone) ==
  \A f \in admitted : f.digest \notin gone =>
    hookNow - f.at > HookTTL \/ \E i \in 1..Len(o) : o[i].digest = f.digest /\ o[i].at = f.at
FireAdmitted ==
  /\ FireWindow(order, forgotten) /\ IsFiniteSet(admitted)
  /\ \A f \in admitted :
       /\ f.n < F!Cardinality(admitted)
       /\ f.digest[1] # None => f.at - f.digest[1] \in -HookTolerance..HookTolerance
  /\ \A f, g \in admitted : f.digest = g.digest /\ f.digest \notin forgotten /\ f.n < g.n => f.at < g.at

\* What the guard and the verification found.
FireRights ==
  \A q \in Ids :
    LET v == fireReqs[q].guard  s == fireReqs[q].shape  w == fireReqs[q].spec IN
    /\ fireReqs[q].pc # "idle" =>
         /\ s \in Shapes /\ v \in Versions
         /\ F!AuthOutcome(v, s) # "deny" /\ (fireReqs[q].session <=> F!AuthOutcome(v, s) = "session")
    /\ fireReqs[q].pc \in {"verify", "seen", "fire", "drain", "run"} => w \in Versions
    /\ fireReqs[q].pc \in {"seen", "fire", "drain", "run"} => fireReqs[q].session \/ ~w.secret \/ s.signed
    /\ fireReqs[q].pc = "seen" /\ s.ts # None => hookNow - s.ts \in -HookTolerance..HookTolerance

FireSlots == F!SlotsReturn /\ sem <= HookSlots

FireInv == FireTyped /\ FireCache /\ FireAdmitted /\ F!OncePerWindow /\ FireRights /\ FireSlots

LEMMA FireLeast == ASSUME NEW S \in SUBSET Nat, S # {} PROVE F!Min(S) \in S /\ \A y \in S : F!Min(S) <= y
<1>1. \E R : IsWellFoundedOn(R, Nat) /\ \A x, y \in Nat : x < y => <<x, y>> \in R
  <2>1. IsWellFoundedOn(OpToRel(<, Nat), Nat)
    BY NatLessThanWellFounded
  <2>2. \A x, y \in Nat : x < y => <<x, y>> \in OpToRel(<, Nat)
    BY DEF OpToRel
  <2> QED
    BY <2>1, <2>2, Zenon
<1>2. PICK R : IsWellFoundedOn(R, Nat) /\ \A x, y \in Nat : x < y => <<x, y>> \in R
  BY <1>1, Zenon
<1>3. IsWellFoundedOn(R, Nat) /\ S \subseteq Nat
  BY <1>2
<1>4. \E x \in S : \A y \in S : ~ (<<y, x>> \in R)
  BY <1>3, WFMin, Zenon
<1>5. \A x, y \in Nat : ~(<<y, x>> \in R) => x <= y
  <2>1. \A x, y \in Nat : y < x => <<y, x>> \in R
    BY <1>2
  <2> QED
    BY <2>1
<1>6. \E x \in S : \A y \in S : x <= y
  BY <1>3, <1>4, <1>5
<1> QED
  BY <1>6 DEF F!Min

LEMMA FireInstants == \A a, b, c \in Int : ~(a - b < c) /\ b >= a - c => a - b = c
  OBVIOUS

LEMMA FireAddOne ==
  ASSUME NEW S, NEW x, IsFiniteSet(S)
  PROVE  /\ IsFiniteSet(S \cup {x}) /\ Cardinality(S \cup {x}) \in Nat
         /\ Cardinality(S \cup {x}) <= Cardinality(S) + 1
<1>1. Cardinality(S) \in Nat
  BY FS_CardinalityType
<1>2. IsFiniteSet(S \cup {x}) /\ (Cardinality(S \cup {x}) = Cardinality(S) \/ Cardinality(S \cup {x}) = Cardinality(S) + 1)
  BY FS_AddElement, Zenon
<1> QED
  BY <1>1, <1>2

LEMMA FireShift ==
  \A m, n \in Nat : n <= m =>
    /\ \A i \in 1..n : i + (m - n) \in 1..m
    /\ \A i, j \in 1..n : i < j => i + (m - n) < j + (m - n)
    /\ \A i \in 1..m : i \notin 1..(m - n) => i - (m - n) \in 1..n /\ (i - (m - n)) + (m - n) = i
  OBVIOUS

LEMMA FireCardinality == \A S : F!Cardinality(S) = Cardinality(S)
  BY DEF F!Cardinality, Cardinality

LEMMA FireNumbers ==
  FireTyped => /\ HookTTL \in Nat /\ HookTolerance \in Nat /\ MaxEntries \in Nat /\ HookSlots \in Nat
               /\ HookTTL > 0 /\ MaxHookNow \in Nat /\ hookNow \in Int /\ hookNow >= 0
  BY DEF FireTyped, FireConstants

LEMMA FireDigests == FireConstants => IsFiniteSet(F!Digests)
<1> SUFFICES ASSUME FireConstants PROVE IsFiniteSet(F!Digests)
  OBVIOUS
<1> DEFINE D == {<<s.ts, s.body>> : s \in Shapes}
<1>1. IsFiniteSet(Shapes)
  BY DEF FireConstants
<1>2. IsFiniteSet(D)
  <2> DEFINE f == [s \in Shapes |-> <<s.ts, s.body>>]
  <2>1. f \in Surjection(Shapes, D)
    BY DEF Surjection
  <2> QED
    BY <1>1, <2>1, FS_Surjection
<1> QED
  BY <1>2 DEF F!Digests

\* What a cache is without its first k records.
LEMMA FireWithout ==
  ASSUME NEW o \in Seq(FireMarks), NEW e \in FireCaches, NEW k \in 0..Len(o)
  PROVE  LET rest == F!Without(k, o, e) IN
         /\ rest.o \in Seq(FireMarks) /\ rest.e \in FireCaches
         /\ Len(rest.o) = Len(o) - k /\ \A i \in 1..Len(rest.o) : rest.o[i] = o[i + k]
         /\ \A d \in F!Digests : rest.e[d] = IF d \in F!Front(k, o) THEN None ELSE e[d]
<1> DEFINE rest == F!Without(k, o, e)
<1>1. rest.o = SubSeq(o, k + 1, Len(o)) /\ rest.e = [d \in F!Digests |-> IF d \in F!Front(k, o) THEN None ELSE e[d]]
  BY DEF F!Without
<1>2. SubSeq(o, k + 1, Len(o)) \in Seq(FireMarks) /\ Len(SubSeq(o, k + 1, Len(o))) = Len(o) - k
      /\ \A i \in 1..(Len(o) - k) : SubSeq(o, k + 1, Len(o))[i] = o[i + k]
  OBVIOUS
<1> HIDE DEF rest
<1> QED
  BY <1>1, <1>2 DEF rest, FireCaches

\* Dropping from the front, of entries that expired or that are forgotten, keeps the cache.
LEMMA FireKept ==
  ASSUME FireConstants, hookNow \in Int, NEW o \in Seq(FireMarks), NEW e \in FireCaches, NEW gone, NEW more,
         FireCached(o, e, gone), gone \subseteq more, NEW k \in 0..Len(o),
         \A i \in 1..k : o[i].at < hookNow - HookTTL \/ o[i].digest \in more
  PROVE  FireCached(F!Without(k, o, e).o, F!Without(k, o, e).e, more)
<1> DEFINE rest == F!Without(k, o, e)
<1>1. /\ rest.o \in Seq(FireMarks) /\ rest.e \in FireCaches
      /\ Len(rest.o) = Len(o) - k /\ \A i \in 1..Len(rest.o) : rest.o[i] = o[i + k]
      /\ \A d \in F!Digests : rest.e[d] = IF d \in F!Front(k, o) THEN None ELSE e[d]
  BY FireWithout
<1> HIDE DEF rest
<1>2. /\ Len(o) \in Nat /\ k \in Nat /\ k <= Len(o) /\ HookTTL \in Int
      /\ \A i \in 1..Len(o) : o[i].digest \in F!Digests /\ o[i].at \in Int
  <2>1. \A i \in 1..Len(o) : o[i] \in FireMarks
    OBVIOUS
  <2> QED
    BY <2>1 DEF FireMarks, FireConstants
<1>3. ASSUME NEW i \in 1..Len(rest.o) PROVE i + k \in 1..Len(o) /\ i + k > k /\ rest.o[i] = o[i + k]
  <2>1. rest.o[i] = o[i + k] /\ i \in 1..(Len(o) - k)
    BY <1>1
  <2> QED
    BY <1>2, <2>1
<1>4. FireOrdered(rest.o)
  <2>1. ASSUME NEW i \in 1..Len(rest.o)
        PROVE  rest.o[i].at <= hookNow /\ \E f \in admitted : f.digest = rest.o[i].digest /\ f.at = rest.o[i].at
    BY <1>3 DEF FireCached, FireOrdered
  <2>2. ASSUME NEW i \in 1..Len(rest.o), NEW j \in 1..Len(rest.o), i < j PROVE rest.o[i].at <= rest.o[j].at
    <3>1. i + k < j + k
      BY <1>1, <1>2, <2>2
    <3> QED
      BY <1>3, <3>1 DEF FireCached, FireOrdered
  <2> QED
    BY <2>1, <2>2 DEF FireOrdered
<1>5. FireHeld(rest.o, rest.e)
  <2>1. ASSUME NEW d \in F!Digests, rest.e[d] # None
        PROVE  \E i \in 1..Len(rest.o) : rest.o[i].digest = d /\ rest.o[i].at = rest.e[d]
    <3>1. e[d] # None /\ rest.e[d] = e[d] /\ ~ \E i \in 1..k : o[i].digest = d
      BY <1>1, <2>1 DEF F!Front
    <3>2. PICK i \in 1..Len(o) : o[i].digest = d /\ o[i].at = e[d]
      BY <3>1 DEF FireCached, FireHeld
    <3>3. i - k \in 1..Len(rest.o) /\ (i - k) + k = i
      BY <1>1, <1>2, <3>1, <3>2
    <3> QED
      BY <1>1, <3>1, <3>2, <3>3
  <2> QED
    BY <2>1 DEF FireHeld
<1>6. FireTwo(rest.o, rest.e, more)
  <2>1. ASSUME NEW i \in 1..Len(rest.o), NEW j \in 1..Len(rest.o), i < j, rest.o[i].digest = rest.o[j].digest,
               rest.o[i].digest \notin more
        PROVE  /\ rest.o[i].at < rest.o[j].at /\ rest.o[j].at <= rest.o[i].at + HookTTL
               /\ rest.e[rest.o[i].digest] = rest.o[j].at /\ FireExact(rest.o[i].digest)
    <3> DEFINE d == rest.o[i].digest
    <3>1. /\ i + k \in 1..Len(o) /\ j + k \in 1..Len(o) /\ i + k < j + k /\ rest.o[i] = o[i + k] /\ rest.o[j] = o[j + k]
          /\ d \in F!Digests /\ d \notin gone /\ d = o[i + k].digest /\ d = o[j + k].digest
      BY <1>1, <1>2, <1>3, <2>1
    <3>2. /\ o[i + k].at < o[j + k].at /\ o[j + k].at <= o[i + k].at + HookTTL
          /\ e[d] = o[j + k].at /\ FireExact(d)
      BY <3>1 DEF FireCached, FireTwo
    <3>3. d \notin F!Front(k, o)
      <4>1. ASSUME NEW m \in 1..k, o[m].digest = d PROVE FALSE
        <5>1. m \in 1..Len(o) /\ m < i + k
          BY <1>2, <1>3
        <5>2. e[d] = o[i + k].at
          BY <3>1, <4>1, <5>1 DEF FireCached, FireTwo
        <5> QED
          BY <1>2, <3>1, <3>2, <5>2
      <4> QED
        BY <4>1 DEF F!Front
    <3>4. rest.e[d] = e[d]
      BY <1>1, <3>1, <3>3
    <3> QED
      BY <3>1, <3>2, <3>4
  <2> QED
    BY <2>1 DEF FireTwo
<1>7. FireLost(rest.o, rest.e, more)
  <2>1. ASSUME NEW i \in 1..Len(rest.o), rest.o[i].digest \notin more, rest.e[rest.o[i].digest] = None
        PROVE  rest.o[i].at < hookNow /\ FireExact(rest.o[i].digest)
    <3> DEFINE d == rest.o[i].digest
    <3>1. i + k \in 1..Len(o) /\ rest.o[i] = o[i + k] /\ d \in F!Digests /\ d \notin gone /\ d = o[i + k].digest
      BY <1>2, <1>3, <2>1
    <3>2. CASE d \notin F!Front(k, o)
      <4>1. e[d] = None
        BY <1>1, <2>1, <3>1, <3>2
      <4> QED
        BY <3>1, <4>1 DEF FireCached, FireLost
    <3>3. CASE d \in F!Front(k, o)
      <4>1. PICK m \in 1..k : o[m].digest = d
        BY <3>3 DEF F!Front
      <4>2. m \in 1..Len(o) /\ m < i + k /\ o[m].at < hookNow - HookTTL
        BY <1>2, <1>3, <2>1, <4>1
      <4>3. o[i + k].at <= o[m].at + HookTTL /\ FireExact(d)
        BY <3>1, <4>1, <4>2 DEF FireCached, FireTwo
      <4> QED
        BY <1>2, <3>1, <4>2, <4>3
    <3> QED
      BY <3>2, <3>3
  <2> QED
    BY <2>1 DEF FireLost
<1> QED
  BY <1>4, <1>5, <1>6, <1>7 DEF FireCached, rest

\* evictExpired leaves no record whose time is over, and takes no other.
LEMMA FireEvicted ==
  ASSUME FireInv
  PROVE  \E k \in 0..Len(order) :
           LET kept == F!DropExpired(order, entries) IN
           /\ kept = F!Without(k, order, entries)
           /\ \A i \in 1..k : order[i].at < hookNow - HookTTL
           /\ \A i \in 1..Len(order) : i > k => order[i].at >= hookNow - HookTTL
<1> DEFINE S == {k \in 0..Len(order) : k = Len(order) \/ ~F!Expired(order[k + 1])}
           k == F!Min(S)
<1>1. order \in Seq(FireMarks) /\ Len(order) \in Nat /\ hookNow \in Int /\ HookTTL \in Int
  BY DEF FireInv, FireTyped, FireConstants
<1>2. k \in S /\ \A y \in S : k <= y
  <2>1. S \in SUBSET Nat /\ Len(order) \in S
    BY <1>1
  <2> QED
    BY <2>1, FireLeast
<1>3. F!DropExpired(order, entries) = F!Without(k, order, entries)
  BY DEF F!DropExpired
<1>4. \A i \in 1..Len(order) : order[i] \in FireMarks
  BY <1>1
<1>5. \A i \in 1..Len(order) : order[i].at \in Int
  BY <1>4 DEF FireMarks
<1> HIDE DEF k
<1>6. ASSUME NEW i \in 1..k PROVE order[i].at < hookNow - HookTTL
  <2>1. i - 1 \in 0..Len(order) /\ i - 1 < k /\ (i - 1) + 1 = i /\ k <= Len(order)
    BY <1>1, <1>2
  <2>2. i - 1 \notin S
    <3>1. i - 1 \in S => k <= i - 1
      BY <1>2
    <3>2. k \in Nat /\ i \in Nat
      BY <1>1, <1>2
    <3> QED
      BY <2>1, <3>1, <3>2
  <2>3. i - 1 # Len(order)
    BY <1>1, <1>2, <2>1
  <2> QED
    BY <2>1, <2>2, <2>3 DEF F!Expired
<1>7. ASSUME NEW i \in 1..Len(order), i > k PROVE order[i].at >= hookNow - HookTTL
  <2>1. k + 1 \in 1..Len(order) /\ k + 1 <= i /\ ~F!Expired(order[k + 1])
    BY <1>1, <1>2, <1>7
  <2>2. order[k + 1].at >= hookNow - HookTTL
    BY <1>1, <1>5, <2>1 DEF F!Expired
  <2>3. order[k + 1].at <= order[i].at
    BY <1>1, <1>5, <2>1 DEF FireInv, FireCache, FireCached, FireOrdered
  <2> QED
    BY <1>1, <1>5, <2>1, <2>2, <2>3
<1> QED
  BY <1>2, <1>3, <1>6, <1>7

\* The loop that makes room ends with room.
LEMMA FireRoomy ==
  ASSUME FireConstants, hookNow \in Int, NEW c, c.o \in Seq(FireMarks), c.e \in FireCaches, NEW gone,
         FireCached(c.o, c.e, gone)
  PROVE  \E k \in 0..Len(c.o) :
           /\ F!MakeRoom(c) = F!Without(k, c.o, c.e)
           /\ Cardinality(F!Held(F!MakeRoom(c).e)) < MaxEntries
<1> DEFINE S == {k \in 0..Len(c.o) : F!HasRoom(F!Without(k, c.o, c.e))}
           k == F!Min(S)
<1>1. Len(c.o) \in Nat
  OBVIOUS
<1>2. Len(c.o) \in S
  <2> DEFINE rest == F!Without(Len(c.o), c.o, c.e)
  <2>1. rest.o \in Seq(FireMarks) /\ Len(rest.o) = 0
    BY <1>1, FireWithout
  <2>2. rest.o = <<>>
    BY <2>1
  <2> QED
    BY <1>1, <2>2 DEF F!HasRoom
<1>3. k \in S
  <2>1. S \in SUBSET Nat
    BY <1>1
  <2> QED
    BY <1>2, <2>1, FireLeast
<1>4. F!MakeRoom(c) = F!Without(k, c.o, c.e)
  BY DEF F!MakeRoom
<1> HIDE DEF k
<1>5. k \in 0..Len(c.o) /\ F!HasRoom(F!Without(k, c.o, c.e))
  BY <1>3
<1>6. ASSUME F!Without(k, c.o, c.e).o = <<>> PROVE F!Held(F!Without(k, c.o, c.e).e) = {}
  <2>1. \A i \in 1..k : c.o[i].digest \in F!Digests
    <3>1. \A i \in 1..k : c.o[i] \in FireMarks
      BY <1>1, <1>5
    <3> QED
      BY <3>1 DEF FireMarks
  <2>2. FireCached(F!Without(k, c.o, c.e).o, F!Without(k, c.o, c.e).e, gone \cup F!Digests)
    BY <1>5, <2>1, FireKept
  <2> QED
    BY <1>6, <2>2 DEF FireCached, FireHeld, F!Held
<1>7. Cardinality(F!Held(F!Without(k, c.o, c.e).e)) < MaxEntries
  <2>1. Cardinality({}) = 0 /\ 0 < MaxEntries
    BY FS_EmptySet DEF FireConstants
  <2> DEFINE held == F!Held(F!Without(k, c.o, c.e).e)
  <2>2. F!Cardinality(held) < MaxEntries \/ F!Without(k, c.o, c.e).o = <<>>
    BY <1>5 DEF F!HasRoom
  <2>3. F!Cardinality(held) = Cardinality(held)
    BY FireCardinality
  <2> HIDE DEF held
  <2>4. F!Without(k, c.o, c.e).o = <<>> => held = {}
    BY <1>6 DEF held
  <2>5. Cardinality(held) < MaxEntries
    BY <2>1, <2>2, <2>3, <2>4
  <2> QED
    BY <2>5 DEF held
<1> QED
  BY <1>4, <1>5, <1>7

\* What a digest that is let through may still have in the order: one entry, and only if a copy
\* came at an age of exactly HookTTL.
LEMMA FireReadmits ==
  ASSUME FireTyped, NEW o \in Seq(FireMarks), NEW e \in FireCaches, NEW gone, FireCached(o, e, gone),
         \A i \in 1..Len(o) : o[i].at >= hookNow - HookTTL,
         NEW d \in F!Digests, d \notin gone, ~(e[d] # None /\ hookNow - e[d] < HookTTL)
  PROVE  /\ \A i, j \in 1..Len(o) : i < j => ~(o[i].digest = d /\ o[j].digest = d)
         /\ \A i \in 1..Len(o) : o[i].digest = d =>
              /\ o[i].at < hookNow
              /\ FireExact(d) \/ \E f \in admitted : f.digest = d /\ hookNow - f.at = HookTTL
<1>1. /\ hookNow \in Int /\ HookTTL \in Int /\ HookTTL > 0 /\ None \notin Int /\ Len(o) \in Nat
      /\ \A i \in 1..Len(o) : o[i].at \in Int
  <2>1. \A i \in 1..Len(o) : o[i] \in FireMarks
    OBVIOUS
  <2>2. None \notin Int
    BY DEF FireTyped, FireConstants
  <2> QED
    BY <2>1, <2>2, FireNumbers DEF FireMarks
<1>2. CASE e[d] = None
  <2>1. ASSUME NEW i \in 1..Len(o), NEW j \in 1..Len(o), i < j, o[i].digest = d, o[j].digest = d PROVE FALSE
    <3>1. e[d] = o[j].at
      BY <2>1 DEF FireCached, FireTwo
    <3> QED
      BY <1>1, <1>2, <3>1
  <2>2. \A i \in 1..Len(o) : o[i].digest = d => o[i].at < hookNow /\ FireExact(d)
    BY <1>2 DEF FireCached, FireLost
  <2> QED
    BY <2>1, <2>2
<1>3. CASE e[d] # None
  <2>1. PICK m \in 1..Len(o) : o[m].digest = d /\ o[m].at = e[d]
    BY <1>3 DEF FireCached, FireHeld
  <2>2. hookNow - o[m].at = HookTTL
    <3>1. ~(hookNow - o[m].at < HookTTL) /\ o[m].at >= hookNow - HookTTL
      BY <1>3, <2>1
    <3> QED
      BY <1>1, <3>1, FireInstants
  <2>3. ASSUME NEW i \in 1..Len(o), NEW j \in 1..Len(o), i < j, o[i].digest = d, o[j].digest = d PROVE FALSE
    <3>1. o[i].at < o[j].at /\ e[d] = o[j].at
      BY <2>3 DEF FireCached, FireTwo
    <3>2. o[i].at >= hookNow - HookTTL
      OBVIOUS
    <3> QED
      BY <1>1, <2>1, <2>2, <3>1, <3>2
  <2>4. PICK f \in admitted : f.digest = d /\ f.at = o[m].at
    BY <2>1 DEF FireCached, FireOrdered
  <2>5. ASSUME NEW i \in 1..Len(o), o[i].digest = d
        PROVE  o[i].at < hookNow /\ \E g \in admitted : g.digest = d /\ hookNow - g.at = HookTTL
    <3>1. i = m
      <4>1. i < m \/ i = m \/ m < i
        OBVIOUS
      <4> QED
        BY <2>1, <2>3, <2>5, <4>1
    <3>2. o[i].at < hookNow
      BY <1>1, <2>2, <3>1
    <3>3. f.digest = d /\ hookNow - f.at = HookTTL
      BY <2>2, <2>4
    <3> QED
      BY <3>2, <3>3
  <2> QED
    BY <2>3, <2>5
<1> QED
  BY <1>2, <1>3

LEMMA FireCacheAdded ==
  ASSUME FireTyped, hookNow' = hookNow, NEW o \in Seq(FireMarks), NEW e \in FireCaches, FireCached(o, e, forgotten'),
         NEW d \in F!Digests, NEW mark \in FireMarks, mark.digest = d, mark.at = hookNow,
         \A i \in 1..Len(o) : o[i].at >= hookNow - HookTTL,
         d \notin forgotten' => \A i \in 1..Len(o) : o[i].digest = d =>
           /\ o[i].at < hookNow
           /\ FireExact(d) \/ \E f \in admitted : f.digest = d /\ hookNow - f.at = HookTTL,
         d \notin forgotten' => \A i, j \in 1..Len(o) : i < j => ~(o[i].digest = d /\ o[j].digest = d),
         NEW new, new.digest = d, new.at = hookNow, admitted' = admitted \cup {new},
         order' = Append(o, mark), entries' = [e EXCEPT ![d] = hookNow]
  PROVE  FireCached(order, entries, forgotten)'
<1>1. /\ Len(o) \in Nat /\ Len(order') = Len(o) + 1 /\ order'[Len(o) + 1] = mark
      /\ \A i \in 1..Len(o) : order'[i] = o[i] /\ o[i] \in FireMarks
  OBVIOUS
<1>2. entries'[d] = hookNow /\ \A x \in F!Digests : x # d => entries'[x] = e[x]
  BY DEF FireCaches
<1>3. \A i \in 1..Len(order') : i = Len(o) + 1 \/ i \in 1..Len(o)
  BY <1>1
<1>4. /\ hookNow \in Int /\ HookTTL \in Int /\ None \notin Int
      /\ \A i \in 1..Len(o) : o[i].digest \in F!Digests /\ o[i].at \in Int
  <2>1. None \notin Int
    BY DEF FireTyped, FireConstants
  <2> QED
    BY <1>1, <2>1, FireNumbers DEF FireMarks
<1>5. \A x : FireExact(x) => FireExact(x)'
  BY DEF FireExact
<1>6. FireOrdered(order)'
  <2>1. ASSUME NEW i \in 1..Len(order')
        PROVE  order'[i].at <= hookNow' /\ \E f \in admitted' : f.digest = order'[i].digest /\ f.at = order'[i].at
    <3>1. CASE i \in 1..Len(o)
      BY <1>1, <3>1 DEF FireCached, FireOrdered
    <3>2. CASE i = Len(o) + 1
      BY <1>1, <1>4, <3>2
    <3> QED
      BY <1>3, <3>1, <3>2
  <2>2. ASSUME NEW i \in 1..Len(order'), NEW j \in 1..Len(order'), i < j PROVE order'[i].at <= order'[j].at
    <3>1. i \in 1..Len(o)
      BY <1>1, <1>3, <2>2
    <3>2. CASE j \in 1..Len(o)
      BY <1>1, <2>2, <3>1, <3>2 DEF FireCached, FireOrdered
    <3>3. CASE j = Len(o) + 1
      BY <1>1, <3>1, <3>3 DEF FireCached, FireOrdered
    <3> QED
      BY <1>3, <3>2, <3>3
  <2> QED
    BY <2>1, <2>2 DEF FireOrdered
<1>7. FireHeld(order, entries)'
  <2>1. ASSUME NEW x \in F!Digests, entries'[x] # None
        PROVE  \E i \in 1..Len(order') : order'[i].digest = x /\ order'[i].at = entries'[x]
    <3>1. CASE x = d
      <4>1. Len(o) + 1 \in 1..Len(order')
        BY <1>1
      <4> QED
        BY <1>1, <1>2, <3>1, <4>1
    <3>2. CASE x # d
      <4>1. PICK i \in 1..Len(o) : o[i].digest = x /\ o[i].at = e[x]
        BY <1>2, <2>1, <3>2 DEF FireCached, FireHeld
      <4>2. i \in 1..Len(order')
        BY <1>1
      <4> QED
        BY <1>1, <1>2, <3>2, <4>1, <4>2
    <3> QED
      BY <3>1, <3>2
  <2> QED
    BY <2>1 DEF FireHeld
<1>8. FireTwo(order, entries, forgotten)'
  <2>1. ASSUME NEW i \in 1..Len(order'), NEW j \in 1..Len(order'), i < j, order'[i].digest = order'[j].digest,
               order'[i].digest \notin forgotten'
        PROVE  /\ order'[i].at < order'[j].at /\ order'[j].at <= order'[i].at + HookTTL
               /\ entries'[order'[i].digest] = order'[j].at /\ FireExact(order[i].digest)'
    <3>1. i \in 1..Len(o) /\ order'[i] = o[i]
      BY <1>1, <1>3, <2>1
    <3>2. CASE j \in 1..Len(o)
      <4>1. order'[j] = o[j] /\ o[i].digest # d
        BY <1>1, <2>1, <3>1, <3>2
      <4>2. /\ o[i].at < o[j].at /\ o[j].at <= o[i].at + HookTTL
            /\ e[o[i].digest] = o[j].at /\ FireExact(o[i].digest)
        BY <2>1, <3>1, <3>2, <4>1 DEF FireCached, FireTwo
      <4> QED
        BY <1>2, <1>4, <1>5, <3>1, <4>1, <4>2
    <3>3. CASE j = Len(o) + 1
      <4>1. order'[j] = mark /\ o[i].digest = d /\ d \notin forgotten'
        BY <1>1, <2>1, <3>1, <3>3
      <4>2. o[i].at < hookNow /\ o[i].at >= hookNow - HookTTL
        BY <3>1, <4>1
      <4>3. FireExact(d)'
        <5>1. CASE FireExact(d)
          BY <1>5, <5>1
        <5>2. CASE \E f \in admitted : f.digest = d /\ hookNow - f.at = HookTTL
          BY <5>2 DEF FireExact
        <5> QED
          BY <3>1, <4>1, <5>1, <5>2
      <4> QED
        BY <1>2, <1>4, <3>1, <4>1, <4>2, <4>3
    <3> QED
      BY <1>3, <3>2, <3>3
  <2> QED
    BY <2>1 DEF FireTwo
<1>9. FireLost(order, entries, forgotten)'
  <2>1. ASSUME NEW i \in 1..Len(order'), order'[i].digest \notin forgotten', entries'[order'[i].digest] = None
        PROVE  order'[i].at < hookNow' /\ FireExact(order[i].digest)'
    <3>1. i \in 1..Len(o)
      BY <1>1, <1>2, <1>3, <1>4, <2>1
    <3>2. order'[i] = o[i] /\ o[i].digest # d /\ e[o[i].digest] = None
      BY <1>1, <1>2, <1>4, <2>1, <3>1
    <3>3. o[i].at < hookNow /\ FireExact(o[i].digest)
      BY <2>1, <3>1, <3>2 DEF FireCached, FireLost
    <3> QED
      BY <1>5, <3>2, <3>3
  <2> QED
    BY <2>1 DEF FireLost
<1> QED
  BY <1>6, <1>7, <1>8, <1>9 DEF FireCached

FireBusy == {"drain", "run"}

LEMMA FireHolders ==
  ASSUME FireTyped
  PROVE  /\ IsFiniteSet({q \in Ids : fireReqs[q].pc \in FireBusy})
         /\ F!SlotsReturn <=> sem = Cardinality({q \in Ids : fireReqs[q].pc \in FireBusy})
<1>1. IsFiniteSet({q \in Ids : fireReqs[q].pc \in FireBusy})
  BY FS_Subset DEF FireTyped, FireConstants
<1>2. {q \in Ids : fireReqs[q].pc \in {"drain", "run"}} = {q \in Ids : fireReqs[q].pc \in FireBusy}
  BY DEF FireBusy
<1> QED
  BY <1>1, <1>2, FireCardinality DEF F!SlotsReturn

\* A slot is taken, kept or given back together with the step of its request.
LEMMA FireSlotsMove ==
  ASSUME FireTyped, FireTyped', FireSlots, NEW q \in Ids, NEW r \in FireReqs, fireReqs' = [fireReqs EXCEPT ![q] = r],
         \/ sem' = sem /\ (r.pc \in FireBusy <=> fireReqs[q].pc \in FireBusy)
         \/ sem' = sem + 1 /\ sem < HookSlots /\ r.pc \in FireBusy /\ fireReqs[q].pc \notin FireBusy
         \/ sem' = sem - 1 /\ r.pc \notin FireBusy /\ fireReqs[q].pc \in FireBusy
  PROVE  FireSlots'
<1> DEFINE held == {x \in Ids : fireReqs[x].pc \in FireBusy}
           next == {x \in Ids : fireReqs'[x].pc \in FireBusy}
<1>1. /\ IsFiniteSet(held) /\ IsFiniteSet(next) /\ sem = Cardinality(held)
      /\ F!SlotsReturn' <=> sem' = Cardinality(next)
  <2>1. IsFiniteSet(held) /\ (F!SlotsReturn <=> sem = Cardinality(held))
    BY FireHolders
  <2>2. IsFiniteSet(next)
    BY FS_Subset DEF FireTyped, FireConstants
  <2>3. next = {x \in Ids : fireReqs'[x].pc \in {"drain", "run"}}
    BY DEF FireBusy
  <2>4. F!SlotsReturn' <=> sem' = Cardinality(next)
    BY <2>3, FireCardinality DEF F!SlotsReturn
  <2> QED
    BY <2>1, <2>2, <2>4 DEF FireSlots
<1>2. q \in Ids /\ q \in DOMAIN fireReqs /\ fireReqs'[q] = r /\ \A x \in Ids : x # q => fireReqs'[x] = fireReqs[x]
  BY DEF FireTyped
<1>3. HookSlots \in Nat /\ sem \in Int /\ sem <= HookSlots
  BY DEF FireTyped, FireConstants, FireSlots
<1>4. CASE sem' = sem /\ (r.pc \in FireBusy <=> fireReqs[q].pc \in FireBusy)
  <2>1. next = held
    BY <1>2, <1>4
  <2> QED
    BY <1>1, <1>3, <1>4, <2>1 DEF FireSlots
<1>5. CASE sem' = sem + 1 /\ sem < HookSlots /\ r.pc \in FireBusy /\ fireReqs[q].pc \notin FireBusy
  <2>1. next = held \cup {q} /\ q \notin held
    BY <1>2, <1>5
  <2>2. Cardinality(held \cup {q}) = Cardinality(held) + 1
    BY <1>1, <2>1, FS_AddElement
  <2> HIDE DEF held, next
  <2>3. sem' = Cardinality(next)
    BY <1>1, <1>5, <2>1, <2>2
  <2> QED
    BY <1>1, <1>3, <1>5, <2>3 DEF FireSlots
<1>6. CASE sem' = sem - 1 /\ r.pc \notin FireBusy /\ fireReqs[q].pc \in FireBusy
  <2>1. next = held \ {q} /\ q \in held
    BY <1>2, <1>6
  <2>2. Cardinality(held \ {q}) = Cardinality(held) - 1
    BY <1>1, <2>1, FS_RemoveElement
  <2> HIDE DEF held, next
  <2>3. sem' = Cardinality(next)
    BY <1>1, <1>6, <2>1, <2>2
  <2> QED
    BY <1>1, <1>3, <1>6, <2>3 DEF FireSlots
<1> QED
  BY <1>4, <1>5, <1>6

LEMMA FireIdle == F!Idle \in FireReqs /\ F!Idle.pc = "idle"
  BY DEF F!Idle, FireReqs

LEMMA FireInit == FireConstants /\ F!Init => FireInv
<1> SUFFICES ASSUME FireConstants, F!Init PROVE FireInv
  OBVIOUS
<1> DEFINE idle == F!Idle
<1>1. /\ hookNow = 0 /\ hookTask \in Versions /\ entries = [d \in F!Digests |-> None] /\ order = <<>> /\ sem = 0
      /\ fireReqs = [q \in Ids |-> idle] /\ admitted = {} /\ forgotten = {}
  BY DEF F!Init, FireConstants
<1>2. idle \in FireReqs /\ idle.pc = "idle"
  BY FireIdle
<1> HIDE DEF idle
<1>3. FireTyped
  BY <1>1, <1>2 DEF FireTyped, FireConstants, FireCaches
<1>5. FireCache
  <2>1. F!Held(entries) = {} /\ 0 <= MaxEntries
    BY <1>1 DEF F!Held, FireConstants
  <2>2. F!Cardinality(F!Held(entries)) <= MaxEntries
    BY <2>1, FS_EmptySet, FireCardinality
  <2> QED
    BY <1>1, <2>2 DEF FireCache, FireCached, FireOrdered, FireHeld, FireTwo, FireLost
<1>6. FireAdmitted /\ F!OncePerWindow
  BY <1>1, FS_EmptySet DEF FireAdmitted, FireWindow, F!OncePerWindow
<1>7. FireRights
  BY <1>1, <1>2 DEF FireRights
<1>8. FireSlots
  <2>1. {q \in Ids : fireReqs[q].pc \in FireBusy} = {}
    BY <1>1, <1>2 DEF FireBusy
  <2> QED
    BY <1>1, <1>3, <2>1, FireHolders, FS_EmptySet DEF FireSlots, FireConstants
<1> QED
  BY <1>3, <1>5, <1>6, <1>7, <1>8 DEF FireInv

LEMMA FireGuard == ASSUME NEW q \in Ids, NEW s \in Shapes, FireInv, F!Guard(q, s) PROVE FireInv'
<1> USE DEF FireInv
<1> DEFINE req == [pc |-> "handle", shape |-> s, guard |-> hookTask, spec |-> None, session |-> F!AuthOutcome(hookTask, s) = "session"]
<1>a. /\ req \in FireReqs /\ req.pc = "handle" /\ req.shape = s /\ req.guard = hookTask
      /\ req.session = (F!AuthOutcome(hookTask, s) = "session")
  <2>1. hookTask \in Versions
    BY DEF FireTyped
  <2> QED
    BY <2>1 DEF FireReqs
<1>b. /\ fireReqs[q] = F!Idle
      /\ UNCHANGED fireReqs \/ (fireReqs' = [fireReqs EXCEPT ![q] = req] /\ F!AuthOutcome(hookTask, s) # "deny")
      /\ UNCHANGED <<hookNow, hookTask, entries, order, sem, admitted, forgotten>>
  BY DEF F!Guard, F!cacheVars
<1> HIDE DEF req
<1>1. FireTyped'
  BY <1>a, <1>b DEF FireTyped
<1>2. FireCache'
  BY <1>a, <1>b DEF FireCache, FireCached, FireOrdered, FireHeld, FireTwo, FireLost, FireExact
<1>3. FireAdmitted'
  BY <1>a, <1>b DEF FireAdmitted, FireWindow
<1>4. F!OncePerWindow'
  BY <1>a, <1>b DEF F!OncePerWindow, F!Renewed
<1>5. FireRights'
  BY <1>a, <1>b DEF FireRights, FireTyped
<1>6. FireSlots'
  <2>1. CASE UNCHANGED fireReqs
    BY <1>b, <2>1 DEF FireSlots, F!SlotsReturn
  <2>2. CASE fireReqs' = [fireReqs EXCEPT ![q] = req]
    BY <1>a, <1>b, <1>1, <2>2, FireSlotsMove, FireIdle DEF FireBusy
  <2> QED
    BY <1>b, <2>1, <2>2
<1> QED
  BY <1>1, <1>2, <1>3, <1>4, <1>5, <1>6

LEMMA FireHandle == ASSUME NEW q \in Ids, FireInv, F!Handle(q) PROVE FireInv'
<1> USE DEF FireInv
<1> DEFINE idle == F!Idle
<1>a. idle \in FireReqs /\ idle.pc = "idle"
  <2> QED
    BY DEF FireReqs, F!Idle
<1> DEFINE req == [fireReqs[q] EXCEPT !.spec = hookTask, !.pc = "verify"]
<1>b. /\ req \in FireReqs /\ req.pc = "verify" /\ req.shape = fireReqs[q].shape
      /\ req.guard = fireReqs[q].guard /\ req.spec = hookTask /\ req.session = fireReqs[q].session
  <2>1. fireReqs[q] \in FireReqs
    BY DEF FireTyped
  <2>2. hookTask \in Versions
    BY DEF FireTyped
  <2> QED
    BY <2>1, <2>2 DEF FireReqs
<1>c. /\ fireReqs[q].pc = "handle" /\ hookTask \in Versions
      /\ fireReqs' = [fireReqs EXCEPT ![q] = idle] \/ fireReqs' = [fireReqs EXCEPT ![q] = req]
      /\ UNCHANGED <<hookNow, hookTask, entries, order, sem, admitted, forgotten>>
  BY DEF F!Handle, F!At, F!To, F!Answered, F!worldVars, F!cacheVars, FireTyped
<1> HIDE DEF idle, req
<1>1. FireTyped'
  BY <1>a, <1>b, <1>c DEF FireTyped
<1>2. FireCache'
  BY <1>a, <1>b, <1>c DEF FireCache, FireCached, FireOrdered, FireHeld, FireTwo, FireLost, FireExact
<1>3. FireAdmitted'
  BY <1>a, <1>b, <1>c DEF FireAdmitted, FireWindow
<1>4. F!OncePerWindow'
  BY <1>a, <1>b, <1>c DEF F!OncePerWindow, F!Renewed
<1>5. FireRights'
  BY <1>a, <1>b, <1>c DEF FireRights, FireTyped
<1>6. FireSlots'
  <2>1. CASE fireReqs' = [fireReqs EXCEPT ![q] = idle]
    BY <1>a, <1>b, <1>c, <1>1, <2>1, FireSlotsMove DEF FireBusy
  <2>2. CASE fireReqs' = [fireReqs EXCEPT ![q] = req]
    BY <1>a, <1>b, <1>c, <1>1, <2>2, FireSlotsMove DEF FireBusy
  <2> QED
    BY <1>a, <1>b, <1>c, <2>1, <2>2
<1> QED
  BY <1>1, <1>2, <1>3, <1>4, <1>5, <1>6

LEMMA FireVerify == ASSUME NEW q \in Ids, FireInv, F!Verify(q) PROVE FireInv'
<1> USE DEF FireInv
<1> DEFINE idle == F!Idle
<1>a. idle \in FireReqs /\ idle.pc = "idle"
  <2> QED
    BY DEF FireReqs, F!Idle
<1> DEFINE fire == [fireReqs[q] EXCEPT !.pc = "fire"]
<1>b. /\ fire \in FireReqs /\ fire.pc = "fire" /\ fire.shape = fireReqs[q].shape
      /\ fire.guard = fireReqs[q].guard /\ fire.spec = fireReqs[q].spec
      /\ fire.session = fireReqs[q].session
  <2>1. fireReqs[q] \in FireReqs
    BY DEF FireTyped
  <2> QED
    BY <2>1 DEF FireReqs
<1> DEFINE seen == [fireReqs[q] EXCEPT !.pc = "seen"]
<1>c. /\ seen \in FireReqs /\ seen.pc = "seen" /\ seen.shape = fireReqs[q].shape
      /\ seen.guard = fireReqs[q].guard /\ seen.spec = fireReqs[q].spec
      /\ seen.session = fireReqs[q].session
  <2>1. fireReqs[q] \in FireReqs
    BY DEF FireTyped
  <2> QED
    BY <2>1 DEF FireReqs
<1>d. /\ fireReqs[q].pc = "verify"
      /\ \/ fireReqs' = [fireReqs EXCEPT ![q] = idle]
         \/ fireReqs' = [fireReqs EXCEPT ![q] = fire] /\ (fireReqs[q].session \/ ~fireReqs[q].spec.secret \/ fireReqs[q].shape.signed)
         \/ /\ fireReqs' = [fireReqs EXCEPT ![q] = seen] /\ fireReqs[q].shape.signed
            /\ fireReqs[q].shape.ts # None => hookNow - fireReqs[q].shape.ts \in -HookTolerance..HookTolerance
      /\ UNCHANGED <<hookNow, hookTask, entries, order, sem, admitted, forgotten>>
  BY DEF F!Verify, F!At, F!To, F!Answered, F!worldVars, F!cacheVars, F!Genuine
<1> HIDE DEF idle, fire, seen
<1>1. FireTyped'
  BY <1>a, <1>b, <1>c, <1>d DEF FireTyped
<1>2. FireCache'
  BY <1>a, <1>b, <1>c, <1>d DEF FireCache, FireCached, FireOrdered, FireHeld, FireTwo, FireLost, FireExact
<1>3. FireAdmitted'
  BY <1>a, <1>b, <1>c, <1>d DEF FireAdmitted, FireWindow
<1>4. F!OncePerWindow'
  BY <1>a, <1>b, <1>c, <1>d DEF F!OncePerWindow, F!Renewed
<1>5. FireRights'
  BY <1>a, <1>b, <1>c, <1>d DEF FireRights, FireTyped
<1>6. FireSlots'
  <2>1. CASE fireReqs' = [fireReqs EXCEPT ![q] = idle]
    BY <1>a, <1>b, <1>c, <1>d, <1>1, <2>1, FireSlotsMove DEF FireBusy
  <2>2. CASE fireReqs' = [fireReqs EXCEPT ![q] = fire]
    BY <1>a, <1>b, <1>c, <1>d, <1>1, <2>2, FireSlotsMove DEF FireBusy
  <2>3. CASE fireReqs' = [fireReqs EXCEPT ![q] = seen]
    BY <1>a, <1>b, <1>c, <1>d, <1>1, <2>3, FireSlotsMove DEF FireBusy
  <2> QED
    BY <1>a, <1>b, <1>c, <1>d, <2>1, <2>2, <2>3
<1> QED
  BY <1>1, <1>2, <1>3, <1>4, <1>5, <1>6

LEMMA FireFireAsync == ASSUME NEW q \in Ids, FireInv, F!FireAsync(q) PROVE FireInv'
<1> USE DEF FireInv
<1> DEFINE idle == F!Idle
<1>a. idle \in FireReqs /\ idle.pc = "idle"
  <2> QED
    BY DEF FireReqs, F!Idle
<1>b. /\ fireReqs[q].pc = "fire"
      /\ fireReqs' = [fireReqs EXCEPT ![q] = idle]
      /\ UNCHANGED <<hookNow, hookTask, entries, order, sem, admitted, forgotten>>
  BY DEF F!FireAsync, F!At, F!To, F!Answered, F!worldVars, F!cacheVars
<1> HIDE DEF idle
<1>1. FireTyped'
  BY <1>a, <1>b DEF FireTyped
<1>2. FireCache'
  BY <1>a, <1>b DEF FireCache, FireCached, FireOrdered, FireHeld, FireTwo, FireLost, FireExact
<1>3. FireAdmitted'
  BY <1>a, <1>b DEF FireAdmitted, FireWindow
<1>4. F!OncePerWindow'
  BY <1>a, <1>b DEF F!OncePerWindow, F!Renewed
<1>5. FireRights'
  BY <1>a, <1>b DEF FireRights, FireTyped
<1>6. FireSlots'
  <2>1. CASE fireReqs' = [fireReqs EXCEPT ![q] = idle]
    BY <1>a, <1>b, <1>1, <2>1, FireSlotsMove DEF FireBusy
  <2> QED
    BY <1>a, <1>b, <2>1
<1> QED
  BY <1>1, <1>2, <1>3, <1>4, <1>5, <1>6

LEMMA FireTakeSlot == ASSUME NEW q \in Ids, FireInv, F!TakeSlot(q) PROVE FireInv'
<1> USE DEF FireInv
<1> DEFINE idle == F!Idle
<1>a. idle \in FireReqs /\ idle.pc = "idle"
  <2> QED
    BY DEF FireReqs, F!Idle
<1> DEFINE drain == [fireReqs[q] EXCEPT !.pc = "drain"]
<1>b. /\ drain \in FireReqs /\ drain.pc = "drain" /\ drain.shape = fireReqs[q].shape
      /\ drain.guard = fireReqs[q].guard /\ drain.spec = fireReqs[q].spec
      /\ drain.session = fireReqs[q].session
  <2>1. fireReqs[q] \in FireReqs
    BY DEF FireTyped
  <2> QED
    BY <2>1 DEF FireReqs
<1>c. /\ fireReqs[q].pc = "fire"
      /\ \/ sem < HookSlots /\ sem' = sem + 1 /\ fireReqs' = [fireReqs EXCEPT ![q] = drain]
         \/ sem' = sem /\ fireReqs' = [fireReqs EXCEPT ![q] = idle]
      /\ UNCHANGED <<hookNow, hookTask, entries, order, admitted, forgotten>>
  BY DEF F!TakeSlot, F!At, F!To, F!Answered, F!worldVars, F!cacheVars
<1> HIDE DEF idle, drain
<1>1. FireTyped'
  BY <1>a, <1>b, <1>c DEF FireTyped
<1>2. FireCache'
  BY <1>a, <1>b, <1>c DEF FireCache, FireCached, FireOrdered, FireHeld, FireTwo, FireLost, FireExact
<1>3. FireAdmitted'
  BY <1>a, <1>b, <1>c DEF FireAdmitted, FireWindow
<1>4. F!OncePerWindow'
  BY <1>a, <1>b, <1>c DEF F!OncePerWindow, F!Renewed
<1>5. FireRights'
  BY <1>a, <1>b, <1>c DEF FireRights, FireTyped
<1>6. FireSlots'
  <2>1. CASE fireReqs' = [fireReqs EXCEPT ![q] = idle]
    BY <1>a, <1>b, <1>c, <1>1, <2>1, FireSlotsMove DEF FireBusy
  <2>2. CASE fireReqs' = [fireReqs EXCEPT ![q] = drain]
    BY <1>a, <1>b, <1>c, <1>1, <2>2, FireSlotsMove DEF FireBusy
  <2> QED
    BY <1>a, <1>b, <1>c, <2>1, <2>2
<1> QED
  BY <1>1, <1>2, <1>3, <1>4, <1>5, <1>6

LEMMA FireFireSync == ASSUME NEW q \in Ids, FireInv, F!FireSync(q) PROVE FireInv'
<1> USE DEF FireInv
<1> DEFINE idle == F!Idle
<1>a. idle \in FireReqs /\ idle.pc = "idle"
  <2> QED
    BY DEF FireReqs, F!Idle
<1> DEFINE run == [fireReqs[q] EXCEPT !.pc = "run"]
<1>b. /\ run \in FireReqs /\ run.pc = "run" /\ run.shape = fireReqs[q].shape
      /\ run.guard = fireReqs[q].guard /\ run.spec = fireReqs[q].spec
      /\ run.session = fireReqs[q].session
  <2>1. fireReqs[q] \in FireReqs
    BY DEF FireTyped
  <2> QED
    BY <2>1 DEF FireReqs
<1>c. /\ fireReqs[q].pc = "drain"
      /\ \/ sem' = sem /\ fireReqs' = [fireReqs EXCEPT ![q] = run]
         \/ sem' = sem - 1 /\ fireReqs' = [fireReqs EXCEPT ![q] = idle]
      /\ UNCHANGED <<hookNow, hookTask, entries, order, admitted, forgotten>>
  BY DEF F!FireSync, F!At, F!To, F!Answered, F!worldVars, F!cacheVars
<1> HIDE DEF idle, run
<1>1. FireTyped'
  BY <1>a, <1>b, <1>c DEF FireTyped
<1>2. FireCache'
  BY <1>a, <1>b, <1>c DEF FireCache, FireCached, FireOrdered, FireHeld, FireTwo, FireLost, FireExact
<1>3. FireAdmitted'
  BY <1>a, <1>b, <1>c DEF FireAdmitted, FireWindow
<1>4. F!OncePerWindow'
  BY <1>a, <1>b, <1>c DEF F!OncePerWindow, F!Renewed
<1>5. FireRights'
  BY <1>a, <1>b, <1>c DEF FireRights, FireTyped
<1>6. FireSlots'
  <2>1. CASE fireReqs' = [fireReqs EXCEPT ![q] = idle]
    BY <1>a, <1>b, <1>c, <1>1, <2>1, FireSlotsMove DEF FireBusy
  <2>2. CASE fireReqs' = [fireReqs EXCEPT ![q] = run]
    BY <1>a, <1>b, <1>c, <1>1, <2>2, FireSlotsMove DEF FireBusy
  <2> QED
    BY <1>a, <1>b, <1>c, <2>1, <2>2
<1> QED
  BY <1>1, <1>2, <1>3, <1>4, <1>5, <1>6

LEMMA FireRunEnds == ASSUME NEW q \in Ids, FireInv, F!RunEnds(q) PROVE FireInv'
<1> USE DEF FireInv
<1> DEFINE idle == F!Idle
<1>a. idle \in FireReqs /\ idle.pc = "idle"
  <2> QED
    BY DEF FireReqs, F!Idle
<1>b. /\ fireReqs[q].pc = "run"
      /\ sem' = sem - 1
      /\ fireReqs' = [fireReqs EXCEPT ![q] = idle]
      /\ UNCHANGED <<hookNow, hookTask, entries, order, admitted, forgotten>>
  BY DEF F!RunEnds, F!At, F!To, F!Answered, F!worldVars, F!cacheVars
<1> HIDE DEF idle
<1>1. FireTyped'
  BY <1>a, <1>b DEF FireTyped
<1>2. FireCache'
  BY <1>a, <1>b DEF FireCache, FireCached, FireOrdered, FireHeld, FireTwo, FireLost, FireExact
<1>3. FireAdmitted'
  BY <1>a, <1>b DEF FireAdmitted, FireWindow
<1>4. F!OncePerWindow'
  BY <1>a, <1>b DEF F!OncePerWindow, F!Renewed
<1>5. FireRights'
  BY <1>a, <1>b DEF FireRights, FireTyped
<1>6. FireSlots'
  <2>1. CASE fireReqs' = [fireReqs EXCEPT ![q] = idle]
    BY <1>a, <1>b, <1>1, <2>1, FireSlotsMove DEF FireBusy
  <2> QED
    BY <1>a, <1>b, <2>1
<1> QED
  BY <1>1, <1>2, <1>3, <1>4, <1>5, <1>6

LEMMA FireSeen == ASSUME NEW q \in Ids, FireInv, F!Seen(q) PROVE FireInv'
<1> DEFINE d == F!Digest(q)
           kept == F!DropExpired(order, entries)
           room == F!MakeRoom(kept)
           mark == [digest |-> d, at |-> hookNow]
           let == [digest |-> d, at |-> hookNow, n |-> F!Cardinality(admitted)]
           idle == F!Idle
           fire == [fireReqs[q] EXCEPT !.pc = "fire"]
<1> USE DEF FireInv
<1>1. FireConstants /\ hookNow \in Int /\ HookTTL \in Nat /\ None \notin Int
  <2>1. FireConstants
    BY DEF FireTyped
  <2>2. None \notin Int
    BY <2>1 DEF FireConstants
  <2> QED
    BY <2>1, <2>2, FireNumbers
<1>2. fireReqs[q].pc = "seen" /\ fireReqs[q].shape \in Shapes
  BY DEF F!Seen, F!At, FireRights
<1>3. d \in F!Digests /\ (d[1] # None => hookNow - d[1] \in -HookTolerance..HookTolerance)
  BY <1>2 DEF F!Digest, F!Digests, FireRights
<1>4. /\ kept.o \in Seq(FireMarks) /\ kept.e \in FireCaches /\ FireCached(kept.o, kept.e, forgotten)
      /\ \A i \in 1..Len(kept.o) : kept.o[i].at >= hookNow - HookTTL
      /\ \A x \in F!Digests : kept.e[x] = entries[x] \/ kept.e[x] = None
      /\ FireWindow(kept.o, forgotten)
  <2>1. PICK k \in 0..Len(order) :
          /\ kept = F!Without(k, order, entries)
          /\ \A i \in 1..k : order[i].at < hookNow - HookTTL
          /\ \A i \in 1..Len(order) : i > k => order[i].at >= hookNow - HookTTL
    BY FireEvicted
  <2>2. order \in Seq(FireMarks) /\ entries \in FireCaches /\ FireCached(order, entries, forgotten)
    BY DEF FireTyped, FireCache
  <2>3. /\ kept.o \in Seq(FireMarks) /\ kept.e \in FireCaches
        /\ Len(kept.o) = Len(order) - k /\ \A i \in 1..Len(kept.o) : kept.o[i] = order[i + k]
        /\ \A x \in F!Digests : kept.e[x] = IF x \in F!Front(k, order) THEN None ELSE entries[x]
    BY <2>1, <2>2, FireWithout
  <2>4. FireCached(kept.o, kept.e, forgotten)
    BY <1>1, <2>1, <2>2, FireKept
  <2>5. Len(order) \in Nat /\ k \in Nat /\ k <= Len(order)
    BY <2>2
  <2> HIDE DEF kept
  <2>6. ASSUME NEW i \in 1..Len(kept.o) PROVE kept.o[i].at >= hookNow - HookTTL
    <3>1. kept.o[i] = order[i + k] /\ i \in 1..(Len(order) - k)
      BY <2>3
    <3>2. i + k \in 1..Len(order) /\ i + k > k
      BY <2>5, <3>1
    <3> QED
      BY <2>1, <3>1, <3>2
  <2>7. ASSUME NEW f \in admitted, f.digest \notin forgotten, ~(hookNow - f.at > HookTTL)
        PROVE  \E i \in 1..Len(kept.o) : kept.o[i].digest = f.digest /\ kept.o[i].at = f.at
    <3>1. PICK i \in 1..Len(order) : order[i].digest = f.digest /\ order[i].at = f.at
      BY <2>7 DEF FireAdmitted, FireWindow
    <3>2. f.at \in Int
      BY DEF FireTyped
    <3>3. ~(i \in 1..k)
      <4>1. i \in 1..k => f.at < hookNow - HookTTL
        BY <2>1, <3>1
      <4> QED
        BY <1>1, <2>7, <3>2, <4>1
    <3>4. i - k \in 1..Len(kept.o) /\ (i - k) + k = i
      BY <2>3, <2>5, <3>3
    <3>5. kept.o[i - k] = order[i]
      BY <2>3, <3>4
    <3> QED
      BY <3>1, <3>4, <3>5
  <2>8. FireWindow(kept.o, forgotten)
    BY <2>7 DEF FireWindow
  <2> QED
    BY <2>3, <2>4, <2>6, <2>8
<1> DEFINE gone == forgotten \cup F!Front(Len(kept.o) - Len(room.o), kept.o)
<1>5. /\ room.o \in Seq(FireMarks) /\ room.e \in FireCaches /\ FireCached(room.o, room.e, gone)
      /\ Cardinality(F!Held(room.e)) < MaxEntries
      /\ \A x \in F!Digests : room.e[x] = kept.e[x] \/ room.e[x] = None
      /\ Len(room.o) \in Nat /\ Len(kept.o) \in Nat /\ Len(room.o) <= Len(kept.o)
      /\ \A i \in 1..Len(room.o) : room.o[i] = kept.o[i + (Len(kept.o) - Len(room.o))]
  <2> HIDE DEF kept
  <2>1. PICK k \in 0..Len(kept.o) :
          room = F!Without(k, kept.o, kept.e) /\ Cardinality(F!Held(room.e)) < MaxEntries
    BY <1>1, <1>4, FireRoomy
  <2> HIDE DEF room
  <2>2. /\ room.o \in Seq(FireMarks) /\ room.e \in FireCaches
        /\ Len(room.o) = Len(kept.o) - k /\ \A i \in 1..Len(room.o) : room.o[i] = kept.o[i + k]
        /\ \A x \in F!Digests : room.e[x] = IF x \in F!Front(k, kept.o) THEN None ELSE kept.e[x]
    <3> DEFINE o == kept.o  e == kept.e  rest == F!Without(k, o, e)
    <3>1. o \in Seq(FireMarks) /\ e \in FireCaches /\ k \in 0..Len(o)
      BY <1>4
    <3>2. room = rest
      BY <2>1
    <3> HIDE DEF o, e
    <3>3. /\ rest.o \in Seq(FireMarks) /\ rest.e \in FireCaches
          /\ Len(rest.o) = Len(o) - k /\ \A i \in 1..Len(rest.o) : rest.o[i] = o[i + k]
          /\ \A x \in F!Digests : rest.e[x] = IF x \in F!Front(k, o) THEN None ELSE e[x]
      BY <3>1, FireWithout
    <3> HIDE DEF rest
    <3> QED
      BY <3>2, <3>3 DEF o, e
  <2>3. Len(kept.o) \in Nat /\ k \in Nat /\ k <= Len(kept.o) /\ Len(kept.o) - Len(room.o) = k
    BY <1>4, <2>2
  <2>4. FireCached(room.o, room.e, gone)
    <3>1. gone = forgotten \cup F!Front(k, kept.o)
      BY <2>3
    <3>2. \A i \in 1..k : kept.o[i].digest \in F!Front(k, kept.o)
      BY DEF F!Front
    <3> HIDE DEF gone
    <3> DEFINE o == kept.o  e == kept.e  rest == F!Without(k, o, e)
    <3>3. o \in Seq(FireMarks) /\ e \in FireCaches /\ k \in 0..Len(o) /\ FireCached(o, e, forgotten)
      BY <1>4
    <3>4. room = rest
      BY <2>1
    <3>5. forgotten \subseteq gone /\ \A i \in 1..k : o[i].digest \in gone
      BY <3>1, <3>2
    <3> HIDE DEF o, e
    <3>6. FireCached(rest.o, rest.e, gone)
      BY <1>1, <3>3, <3>5, FireKept
    <3> QED
      BY <3>4, <3>6
  <2> HIDE DEF gone
  <2> QED
    BY <2>1, <2>2, <2>3, <2>4
<1>6. idle \in FireReqs /\ idle.pc = "idle"
  BY FireIdle
<1>7. /\ fire \in FireReqs /\ fire.pc = "fire" /\ fire.shape = fireReqs[q].shape /\ fire.guard = fireReqs[q].guard
      /\ fire.spec = fireReqs[q].spec /\ fire.session = fireReqs[q].session
  <2>1. fireReqs[q] \in FireReqs
    BY DEF FireTyped
  <2> QED
    BY <2>1 DEF FireReqs
<1>8. /\ \/ /\ fireReqs' = [fireReqs EXCEPT ![q] = idle] /\ entries' = kept.e /\ order' = kept.o
            /\ UNCHANGED <<forgotten, admitted>>
         \/ /\ ~(kept.e[d] # None /\ hookNow - kept.e[d] < HookTTL)
            /\ fireReqs' = [fireReqs EXCEPT ![q] = fire]
            /\ entries' = [room.e EXCEPT ![d] = hookNow] /\ order' = Append(room.o, mark)
            /\ forgotten' = gone
            /\ admitted' = admitted \cup {let}
      /\ UNCHANGED <<sem, hookNow, hookTask>>
  BY DEF F!Seen, F!At, F!To, F!Answered, F!worldVars
<1>9. /\ mark \in FireMarks /\ mark.digest = d /\ mark.at = hookNow
      /\ let \in [digest : F!Digests, at : Int, n : Nat] /\ let.digest = d /\ let.at = hookNow
      /\ let.n = F!Cardinality(admitted)
  <2>1. F!Cardinality(admitted) \in Nat
    BY FS_CardinalityType, FireCardinality DEF FireAdmitted
  <2> QED
    BY <1>1, <1>3, <2>1 DEF FireMarks
<1>a. gone = forgotten \cup F!Front(Len(kept.o) - Len(room.o), kept.o)
  OBVIOUS
<1>b. /\ Len(room.o) \in Nat /\ Len(kept.o) \in Nat /\ Len(room.o) <= Len(kept.o)
      /\ \A i \in 1..Len(room.o) : /\ room.o[i] = kept.o[i + (Len(kept.o) - Len(room.o))]
                                  /\ i + (Len(kept.o) - Len(room.o)) \in 1..Len(kept.o)
      /\ \A i, j \in 1..Len(room.o) : i < j => i + (Len(kept.o) - Len(room.o)) < j + (Len(kept.o) - Len(room.o))
      /\ \A i \in 1..Len(kept.o) : i \notin 1..(Len(kept.o) - Len(room.o)) =>
           /\ i - (Len(kept.o) - Len(room.o)) \in 1..Len(room.o)
           /\ (i - (Len(kept.o) - Len(room.o))) + (Len(kept.o) - Len(room.o)) = i
  <2> DEFINE m == Len(kept.o)  n == Len(room.o)
  <2>1. m \in Nat /\ n \in Nat /\ n <= m /\ \A i \in 1..n : room.o[i] = kept.o[i + (m - n)]
    BY <1>5
  <2> HIDE DEF m, n
  <2>2. /\ \A i \in 1..n : i + (m - n) \in 1..m
        /\ \A i, j \in 1..n : i < j => i + (m - n) < j + (m - n)
        /\ \A i \in 1..m : i \notin 1..(m - n) => i - (m - n) \in 1..n /\ (i - (m - n)) + (m - n) = i
    BY <2>1, FireShift
  <2> QED
    BY <2>1, <2>2 DEF m, n
<1> HIDE DEF d, kept, room, mark, let, idle, fire, gone
<1>10. /\ F!Held(kept.e) \subseteq F!Held(entries) /\ F!Held(entries) \subseteq F!Digests
       /\ F!Held(room.e) \subseteq F!Digests /\ gone \subseteq F!Digests /\ forgotten \subseteq gone
  <2>1. \A i \in 1..Len(kept.o) : kept.o[i] \in FireMarks
    BY <1>4
  <2>2. F!Front(Len(kept.o) - Len(room.o), kept.o) \subseteq F!Digests
    <3>1. \A i \in 1..(Len(kept.o) - Len(room.o)) : i \in 1..Len(kept.o)
      BY <1>5
    <3> QED
      BY <2>1, <3>1 DEF F!Front, FireMarks
  <2> QED
    BY <1>a, <1>4, <2>2 DEF F!Held, FireTyped
<1>12. CASE fireReqs' = [fireReqs EXCEPT ![q] = idle] /\ entries' = kept.e /\ order' = kept.o
            /\ UNCHANGED <<forgotten, admitted>>
  <2>1. FireTyped'
    BY <1>4, <1>6, <1>8, <1>12 DEF FireTyped
  <2>3. FireCache'
    <3>1. F!Held(kept.e) \subseteq F!Held(entries)
      BY <1>10
    <3>2. F!Held(entries) \subseteq F!Digests /\ F!Held(entries)' = F!Held(kept.e) /\ MaxEntries \in Nat
      BY <1>12 DEF F!Held, FireTyped, FireConstants
    <3>3. Cardinality(F!Held(kept.e)) <= Cardinality(F!Held(entries)) /\ Cardinality(F!Held(kept.e)) \in Nat
          /\ Cardinality(F!Held(entries)) \in Nat
      BY <1>1, <3>1, <3>2, FireDigests, FS_Subset, FS_CardinalityType
    <3>4. Cardinality(F!Held(entries)) <= MaxEntries
      BY FireCardinality DEF FireCache
    <3>5. Cardinality(F!Held(kept.e)) <= MaxEntries
      BY <3>2, <3>3, <3>4
    <3> QED
      BY <1>4, <1>8, <1>12, <3>2, <3>5, FireCardinality
         DEF FireCache, FireCached, FireOrdered, FireHeld, FireTwo, FireLost, FireExact
  <2>4. FireAdmitted'
    BY <1>4, <1>8, <1>12 DEF FireAdmitted, FireWindow
  <2>5. F!OncePerWindow'
    BY <1>12 DEF F!OncePerWindow, F!Renewed
  <2>6. FireRights'
    BY <1>6, <1>8, <1>12 DEF FireRights, FireTyped
  <2>7. FireSlots'
    BY <1>2, <1>6, <1>8, <1>12, <2>1, FireSlotsMove DEF FireBusy
  <2> QED
    BY <2>1, <2>3, <2>4, <2>5, <2>6, <2>7
<1>13. CASE /\ ~(kept.e[d] # None /\ hookNow - kept.e[d] < HookTTL)
            /\ fireReqs' = [fireReqs EXCEPT ![q] = fire]
            /\ entries' = [room.e EXCEPT ![d] = hookNow] /\ order' = Append(room.o, mark)
            /\ forgotten' = gone
            /\ admitted' = admitted \cup {let}
  <2>1. /\ FireTyped' /\ \A f \in admitted : f.digest \in F!Digests /\ f.at \in Int /\ f.n \in Nat
        /\ F!Cardinality(admitted) = Cardinality(admitted) /\ Cardinality(admitted) \in Nat
    <3>1. entries' \in FireCaches /\ order' \in Seq(FireMarks)
      BY <1>1, <1>5, <1>9, <1>13 DEF FireCaches
    <3>2. forgotten' \subseteq F!Digests
      BY <1>10, <1>13 DEF FireTyped
    <3>3. admitted' \subseteq [digest : F!Digests, at : Int, n : Nat]
      BY <1>9, <1>13 DEF FireTyped
    <3>4. FireTyped'
      BY <1>7, <1>8, <1>13, <3>1, <3>2, <3>3 DEF FireTyped
    <3>5. \A f \in admitted : f.digest \in F!Digests /\ f.at \in Int /\ f.n \in Nat
      BY DEF FireTyped
    <3> QED
      BY <3>4, <3>5, FS_CardinalityType, FireCardinality DEF FireAdmitted
  <2>2. d \notin forgotten =>
          /\ \A i, j \in 1..Len(kept.o) : i < j => ~(kept.o[i].digest = d /\ kept.o[j].digest = d)
          /\ \A i \in 1..Len(kept.o) : kept.o[i].digest = d =>
               /\ kept.o[i].at < hookNow
               /\ FireExact(d) \/ \E f \in admitted : f.digest = d /\ hookNow - f.at = HookTTL
    <3> DEFINE o == kept.o  e == kept.e
    <3>1. /\ o \in Seq(FireMarks) /\ e \in FireCaches /\ FireCached(o, e, forgotten)
          /\ \A i \in 1..Len(o) : o[i].at >= hookNow - HookTTL
          /\ ~(e[d] # None /\ hookNow - e[d] < HookTTL)
      BY <1>4, <1>13
    <3> HIDE DEF o, e
    <3>2. d \notin forgotten =>
            /\ \A i, j \in 1..Len(o) : i < j => ~(o[i].digest = d /\ o[j].digest = d)
            /\ \A i \in 1..Len(o) : o[i].digest = d =>
                 /\ o[i].at < hookNow
                 /\ FireExact(d) \/ \E f \in admitted : f.digest = d /\ hookNow - f.at = HookTTL
      BY <1>3, <3>1, FireReadmits
    <3> QED
      BY <3>2 DEF o
  <2>3. ASSUME NEW f \in admitted, f.digest = d, d \notin forgotten, ~(hookNow - f.at > HookTTL)
        PROVE  /\ f.at < hookNow
               /\ FireExact(d) \/ \E a \in admitted : a.digest = d /\ hookNow - a.at = HookTTL
               /\ \A g \in admitted : g.digest = d /\ ~(hookNow - g.at > HookTTL) => g.at = f.at
    <3>1. PICK i \in 1..Len(kept.o) : kept.o[i].digest = d /\ kept.o[i].at = f.at
      BY <1>4, <2>3 DEF FireWindow
    <3>2. ASSUME NEW g \in admitted, g.digest = d, ~(hookNow - g.at > HookTTL) PROVE g.at = f.at
      <4>1. PICK j \in 1..Len(kept.o) : kept.o[j].digest = d /\ kept.o[j].at = g.at
        BY <1>4, <2>3, <3>2 DEF FireWindow
      <4>2. i < j \/ i = j \/ j < i
        BY <1>5
      <4> QED
        BY <2>2, <2>3, <3>1, <4>1, <4>2
    <3> QED
      BY <2>2, <2>3, <3>1, <3>2
  <2>4. FireCache'
    <3>1. FireCached(order, entries, forgotten)'
      <4> DEFINE o == room.o  e == room.e
      <4>1. ASSUME NEW i \in 1..Len(o)
            PROVE  /\ i + (Len(kept.o) - Len(o)) \in 1..Len(kept.o)
                   /\ o[i] = kept.o[i + (Len(kept.o) - Len(o))]
        BY <1>b
      <4>2. \A i \in 1..Len(o) : o[i].at >= hookNow - HookTTL
        BY <1>4, <4>1
      <4>3. d \notin forgotten' => \A i \in 1..Len(o) : o[i].digest = d =>
              /\ o[i].at < hookNow
              /\ FireExact(d) \/ \E f \in admitted : f.digest = d /\ hookNow - f.at = HookTTL
        BY <1>10, <1>13, <2>2, <4>1
      <4>4. d \notin forgotten' => \A i, j \in 1..Len(o) : i < j => ~(o[i].digest = d /\ o[j].digest = d)
        <5>1. ASSUME NEW i \in 1..Len(o), NEW j \in 1..Len(o), i < j
              PROVE  i + (Len(kept.o) - Len(o)) < j + (Len(kept.o) - Len(o))
          BY <1>b, <5>1
        <5> QED
          BY <1>10, <1>13, <2>2, <4>1, <5>1
      <4>5. o \in Seq(FireMarks) /\ e \in FireCaches /\ FireCached(o, e, forgotten')
        BY <1>5, <1>13
      <4>6. order' = Append(o, mark) /\ entries' = [e EXCEPT ![d] = hookNow]
        BY <1>13
      <4>7. /\ FireTyped /\ hookNow' = hookNow /\ d \in F!Digests /\ mark \in FireMarks /\ mark.digest = d
            /\ mark.at = hookNow /\ let.digest = d /\ let.at = hookNow /\ admitted' = admitted \cup {let}
        BY <1>3, <1>8, <1>9, <1>13
      <4> HIDE DEF o, e
      <4> QED
        BY <4>2, <4>3, <4>4, <4>5, <4>6, <4>7, FireCacheAdded, Zenon
    <3>2. F!Held(entries') \subseteq F!Held(room.e) \cup {d} /\ MaxEntries \in Nat
      BY <1>5, <1>13 DEF F!Held, FireCaches, FireTyped, FireConstants
    <3>3. IsFiniteSet(F!Held(room.e)) /\ Cardinality(F!Held(room.e)) \in Nat
      BY <1>1, <1>10, FireDigests, FS_Subset, FS_CardinalityType
    <3>4. IsFiniteSet(F!Held(room.e) \cup {d})
          /\ Cardinality(F!Held(room.e) \cup {d}) <= Cardinality(F!Held(room.e)) + 1
          /\ Cardinality(F!Held(room.e) \cup {d}) \in Nat
      BY <3>3, FireAddOne
    <3>5. Cardinality(F!Held(entries')) <= Cardinality(F!Held(room.e) \cup {d}) /\ Cardinality(F!Held(entries')) \in Nat
      BY <3>2, <3>4, FS_Subset, FS_CardinalityType
    <3>6. Cardinality(F!Held(entries')) <= MaxEntries
      BY <1>5, <3>2, <3>3, <3>4, <3>5
    <3> QED
      BY <3>1, <3>6, FireCardinality DEF FireCache, F!Held
  <2>6. FireAdmitted'
    <3>1. FireWindow(order, forgotten)'
      <4>0. /\ Len(order') = Len(room.o) + 1 /\ order'[Len(room.o) + 1] = mark
            /\ \A i \in 1..Len(room.o) : order'[i] = room.o[i]
        BY <1>5, <1>9, <1>13
      <4>1. ASSUME NEW f \in admitted', f.digest \notin forgotten', ~(hookNow' - f.at > HookTTL)
            PROVE  \E i \in 1..Len(order') : order'[i].digest = f.digest /\ order'[i].at = f.at
        <5>1. CASE f \in admitted
          <6>1. PICK i \in 1..Len(kept.o) : kept.o[i].digest = f.digest /\ kept.o[i].at = f.at
            BY <1>4, <1>8, <1>10, <1>13, <4>1, <5>1 DEF FireWindow
          <6> DEFINE k == Len(kept.o) - Len(room.o)
          <6>2. ~(i \in 1..k)
            BY <1>a, <1>13, <4>1, <6>1 DEF F!Front
          <6>3. i - k \in 1..Len(room.o) /\ (i - k) + k = i
            BY <1>b, <6>2
          <6>4. room.o[i - k] = kept.o[i]
            BY <1>b, <6>3
          <6>5. \A n \in Nat : \A j \in 1..n : j \in 1..(n + 1)
            OBVIOUS
          <6>6. i - k \in 1..Len(order') /\ order'[i - k] = kept.o[i]
            BY <1>b, <4>0, <6>3, <6>4, <6>5
          <6> QED
            BY <6>1, <6>6
        <5>2. CASE f = let
          <6>1. Len(room.o) + 1 \in 1..Len(order')
            BY <1>5, <4>0
          <6> QED
            BY <1>9, <4>0, <5>2, <6>1
        <5> QED
          BY <1>13, <5>1, <5>2
      <4> QED
        BY <4>1 DEF FireWindow
    <3>2. let \notin admitted
      BY <1>9, <2>1 DEF FireAdmitted
    <3>3. IsFiniteSet(admitted') /\ Cardinality(admitted') = Cardinality(admitted) + 1
      BY <1>13, <3>2, FS_AddElement DEF FireAdmitted
    <3>4. F!Cardinality(admitted') = Cardinality(admitted) + 1
      BY <3>3, FireCardinality
    <3>5. \A f \in admitted : f.n < Cardinality(admitted) + 1
      BY <2>1 DEF FireAdmitted
    <3>6. let.n < Cardinality(admitted) + 1
      BY <1>9, <2>1
    <3>7. \A f \in admitted' : f.n < F!Cardinality(admitted')
      BY <1>13, <3>4, <3>5, <3>6
    <3>8. \A f \in admitted' : f.digest[1] # None => f.at - f.digest[1] \in -HookTolerance..HookTolerance
      BY <1>3, <1>9, <1>13 DEF FireAdmitted
    <3>9. ASSUME NEW f \in admitted', NEW g \in admitted', f.digest = g.digest, f.digest \notin forgotten', f.n < g.n
          PROVE  f.at < g.at
      <4>1. f \in admitted /\ f.digest \notin forgotten
        <5>1. f # let
          BY <1>9, <1>13, <2>1, <3>9 DEF FireAdmitted
        <5> QED
          BY <1>10, <1>13, <3>9, <5>1
      <4>2. CASE g \in admitted
        BY <3>9, <4>1, <4>2 DEF FireAdmitted
      <4>3. CASE g = let
        <5>1. CASE hookNow - f.at > HookTTL
          BY <1>1, <1>9, <2>1, <4>1, <4>3, <5>1
        <5>2. CASE ~(hookNow - f.at > HookTTL)
          BY <1>9, <2>3, <3>9, <4>1, <4>3, <5>2
        <5> QED
          BY <5>1, <5>2
      <4> QED
        BY <1>13, <4>2, <4>3
    <3> QED
      BY <3>1, <3>3, <3>7, <3>8, <3>9 DEF FireAdmitted
  <2>5. ASSUME NEW f \in admitted, f.digest = d, d \notin forgotten
        PROVE  d[1] = None /\ (hookNow - f.at > HookTTL \/ \E a, b \in admitted' : a.digest = d /\ b.digest = d /\ b.at - a.at = HookTTL /\ b.n <= let.n)
    <3>1. ASSUME FireExact(d) \/ \E a \in admitted : a.digest = d /\ hookNow - a.at = HookTTL
          PROVE  \E a, b \in admitted' : a.digest = d /\ b.digest = d /\ b.at - a.at = HookTTL /\ b.n <= let.n
      <4>1. PICK a \in admitted', b \in admitted' : a.digest = d /\ b.digest = d /\ b.at - a.at = HookTTL
        <5>1. CASE FireExact(d)
          BY <1>13, <5>1 DEF FireExact
        <5>2. CASE \E a \in admitted : a.digest = d /\ hookNow - a.at = HookTTL
          BY <1>9, <1>13, <5>2
        <5> QED
          BY <3>1, <5>1, <5>2
      <4>2. b.n <= let.n
        <5>1. CASE b = let
          BY <1>9, <2>1, <5>1
        <5>2. CASE b \in admitted
          BY <1>9, <2>1, <5>2 DEF FireAdmitted
        <5> QED
          BY <1>13, <5>1, <5>2
      <4> QED
        BY <4>1, <4>2
    <3>2. d[1] = None
      <4>1. ASSUME d[1] # None PROVE FALSE
        <5>1. \A a \in admitted' : a.digest = d => a.at \in Int /\ a.at - d[1] \in -HookTolerance..HookTolerance
          BY <1>1, <1>3, <1>9, <1>13, <2>1, <4>1 DEF FireAdmitted
        <5>2. d[1] \in Int
          <6>1. \A s \in Shapes : s.ts \in Int \cup {None}
            BY <1>1 DEF FireConstants
          <6>2. PICK s \in Shapes : d = <<s.ts, s.body>>
            BY <1>3 DEF F!Digests
          <6> QED
            BY <4>1, <6>1, <6>2
        <5>3. HookTolerance \in Nat /\ 2 * HookTolerance < HookTTL
          BY DEF FireTyped, FireConstants
        <5>4. \A a, b \in admitted' : a.digest = d /\ b.digest = d => b.at - a.at < HookTTL
          BY <1>1, <5>1, <5>2, <5>3
        <5>5. let \in admitted' /\ f \in admitted'
          BY <1>13
        <5>6. hookNow - f.at < HookTTL
          BY <1>9, <2>5, <5>4, <5>5
        <5>7. FireExact(d) \/ \E a \in admitted : a.digest = d /\ hookNow - a.at = HookTTL
          BY <1>1, <2>1, <2>3, <2>5, <5>6
        <5>8. PICK a \in admitted', b \in admitted' : a.digest = d /\ b.digest = d /\ b.at - a.at = HookTTL
          BY <3>1, <5>7
        <5> QED
          BY <1>1, <5>4, <5>8
      <4> QED
        BY <4>1
    <3> QED
      BY <2>3, <2>5, <3>1, <3>2
  <2>7. F!OncePerWindow'
    <3> SUFFICES ASSUME NEW f \in admitted', NEW g \in admitted', f.digest \notin forgotten',
                        f.digest = g.digest, f.n < g.n
                 PROVE  /\ f.digest[1] = None
                        /\ g.at - f.at > HookTTL \/ F!Renewed(g)'
                        /\ \A h \in admitted' : h.digest \notin forgotten' /\ h.digest = f.digest /\ g.n < h.n =>
                             h.at - f.at > HookTTL
      BY DEF F!OncePerWindow
    <3>1. \A h \in admitted' : f.n < h.n => f # let
      BY <1>9, <1>13, <2>1 DEF FireAdmitted
    <3>2. f \in admitted /\ f.digest \notin forgotten /\ (g.digest = d => d \notin forgotten)
      BY <1>10, <1>13, <3>1
    <3>3. CASE g = let
      <4>1. \A h \in admitted' : ~(g.n < h.n)
        BY <1>9, <1>13, <2>1, <3>3 DEF FireAdmitted
      <4> QED
        <5>1. d[1] = None /\ (hookNow - f.at > HookTTL \/ \E a, b \in admitted' : a.digest = d /\ b.digest = d
                                                         /\ b.at - a.at = HookTTL /\ b.n <= let.n)
          BY <1>9, <2>5, <3>2, <3>3
        <5>2. F!Renewed(g)' <=> \E a, b \in admitted' : a.digest = g.digest /\ b.digest = g.digest
                                                       /\ b.at - a.at = HookTTL /\ b.n <= g.n
          BY DEF F!Renewed
        <5>3. g.digest = d /\ g.at = hookNow /\ g.n = let.n
          BY <1>9, <3>3
        <5> QED
          BY <4>1, <5>1, <5>2, <5>3
    <3>4. CASE g \in admitted
      <4>1. f.digest = g.digest /\ g.digest \notin forgotten
        BY <3>2
      <4>2. f.digest[1] = None /\ (g.at - f.at > HookTTL \/ F!Renewed(g))
        BY <3>2, <3>4, <4>1 DEF F!OncePerWindow
      <4>3. F!Renewed(g) => F!Renewed(g)'
        BY <1>13 DEF F!Renewed
      <4>4. ASSUME NEW h \in admitted', h.digest \notin forgotten', h.digest = f.digest, g.n < h.n
            PROVE  h.at - f.at > HookTTL
        <5>1. CASE h \in admitted
          BY <1>10, <1>13, <3>2, <3>4, <4>1, <4>4, <5>1 DEF F!OncePerWindow
        <5>2. CASE h = let
          <6>1. f.at < g.at
            BY <3>2, <3>4 DEF FireAdmitted
          <6>2. ASSUME ~(hookNow - f.at > HookTTL) PROVE FALSE
            <7>1. ~(hookNow - g.at > HookTTL)
              BY <1>1, <2>1, <3>2, <3>4, <6>1, <6>2
            <7>2. f.digest = d /\ d \notin forgotten
              BY <1>9, <3>2, <4>4, <5>2
            <7> QED
              <8>1. g.digest = d
                BY <7>2
              <8>2. g.at = f.at
                BY <2>3, <3>2, <3>4, <6>2, <7>1, <7>2, <8>1
              <8> QED
                BY <2>1, <3>2, <6>1, <8>2
          <6> QED
            BY <1>9, <5>2, <6>2
        <5> QED
          BY <1>13, <5>1, <5>2
      <4> QED
        BY <4>2, <4>3, <4>4
    <3> QED
      BY <1>13, <3>3, <3>4
  <2>8. FireRights'
    BY <1>2, <1>7, <1>8, <1>13 DEF FireRights, FireTyped
  <2>9. FireSlots'
    BY <1>2, <1>7, <1>8, <1>13, <2>1, FireSlotsMove DEF FireBusy
  <2> QED
    BY <2>1, <2>4, <2>6, <2>7, <2>8, <2>9
<1> QED
  BY <1>8, <1>12, <1>13

LEMMA FireTick == ASSUME FireInv, F!Tick PROVE FireInv'
<1> USE DEF FireInv
<1>a. /\ hookNow < MaxHookNow /\ hookNow' = hookNow + 1
      /\ \A q \in Ids : fireReqs[q].pc # "seen"
      /\ UNCHANGED <<hookTask, entries, order, sem, fireReqs, admitted, forgotten>>
  BY DEF F!Tick, F!cacheVars
<1>1. FireTyped'
  <2>1. hookNow' \in 0..MaxHookNow
    BY <1>a, FireNumbers
  <2> QED
    BY <1>a, <2>1 DEF FireTyped
<1>2. FireCache'
  <2>1. hookNow \in Int /\ hookNow' \in Int /\ hookNow <= hookNow'
    BY <1>a, FireNumbers
  <2>2. \A i \in 1..Len(order) : order[i].at \in Int
    <3>1. \A i \in 1..Len(order) : order[i] \in FireMarks
      BY DEF FireTyped
    <3> QED
      BY <3>1 DEF FireMarks
  <2>3. FireOrdered(order)' /\ FireHeld(order, entries)'
    BY <1>a, <2>1, <2>2 DEF FireCache, FireCached, FireOrdered, FireHeld
  <2>4. FireTwo(order, entries, forgotten)'
    BY <1>a DEF FireCache, FireCached, FireTwo, FireExact
  <2>5. FireLost(order, entries, forgotten)'
    BY <1>a, <2>1, <2>2 DEF FireCache, FireCached, FireLost, FireExact
  <2> QED
    BY <1>a, <2>3, <2>4, <2>5 DEF FireCache, FireCached, F!Held
<1>3. FireAdmitted'
  <2>1. hookNow \in Int /\ hookNow' \in Int /\ hookNow <= hookNow' /\ HookTTL \in Int
    BY <1>a, FireNumbers
  <2>2. \A f \in admitted : f.at \in Int
    BY DEF FireTyped
  <2>3. FireWindow(order, forgotten)'
    BY <1>a, <2>1, <2>2 DEF FireAdmitted, FireWindow
  <2> QED
    BY <1>a, <2>3 DEF FireAdmitted
<1>4. F!OncePerWindow'
  BY <1>a DEF F!OncePerWindow, F!Renewed
<1>5. FireRights'
  BY <1>a DEF FireRights, FireTyped
<1>6. FireSlots'
  BY <1>a DEF FireSlots, F!SlotsReturn
<1> QED
  BY <1>1, <1>2, <1>3, <1>4, <1>5, <1>6

LEMMA FireReload == ASSUME NEW v \in Versions, FireInv, F!Reload(v) PROVE FireInv'
<1> USE DEF FireInv
<1>a. /\ hookTask' = v
      /\ UNCHANGED <<hookNow, entries, order, sem, fireReqs, admitted, forgotten>>
  BY DEF F!Reload, F!cacheVars
<1>1. FireTyped'
  BY <1>a DEF FireTyped
<1>2. FireCache'
  BY <1>a DEF FireCache, FireCached, FireOrdered, FireHeld, FireTwo, FireLost, FireExact
<1>3. FireAdmitted'
  BY <1>a DEF FireAdmitted, FireWindow
<1>4. F!OncePerWindow'
  BY <1>a DEF F!OncePerWindow, F!Renewed
<1>5. FireRights'
  BY <1>a DEF FireRights, FireTyped
<1>6. FireSlots'
  BY <1>a DEF FireSlots, F!SlotsReturn
<1> QED
  BY <1>1, <1>2, <1>3, <1>4, <1>5, <1>6

LEMMA FireRestart == ASSUME FireInv, F!Restart PROVE FireInv'
<1> USE DEF FireInv
<1> DEFINE idle == F!Idle
<1>a. idle \in FireReqs /\ idle.pc = "idle"
  <2> QED
    BY DEF FireReqs, F!Idle
<1>b. /\ entries' = [d \in F!Digests |-> None] /\ order' = <<>> /\ forgotten' = forgotten \cup F!Front(Len(order), order)
      /\ sem' = 0 /\ fireReqs' = [q \in Ids |-> idle]
      /\ UNCHANGED <<hookNow, hookTask, admitted>>
  BY DEF F!Restart
<1> HIDE DEF idle
<1>1. FireTyped'
  <2>1. F!Front(Len(order), order) \subseteq F!Digests /\ [d \in F!Digests |-> None] \in FireCaches
    <3>1. \A i \in 1..Len(order) : order[i] \in FireMarks
      BY DEF FireTyped
    <3>2. \A i \in 1..Len(order) : order[i].digest \in F!Digests
      BY <3>1 DEF FireMarks
    <3> QED
      BY <3>2 DEF F!Front, FireCaches
  <2>2. <<>> \in Seq(FireMarks) /\ 0 \in Int
    OBVIOUS
  <2> QED
    BY <1>a, <1>b, <2>1, <2>2 DEF FireTyped
<1>2. FireCache'
  <2>1. F!Held(entries') = {} /\ 0 <= MaxEntries
    BY <1>b DEF F!Held, FireTyped, FireConstants
  <2>2. F!Cardinality(F!Held(entries')) <= MaxEntries
    BY <2>1, FS_EmptySet, FireCardinality
  <2>3. Len(order') = 0 /\ \A d \in F!Digests : entries'[d] = None
    BY <1>b
  <2>4. FireCached(order, entries, forgotten)'
    BY <2>3 DEF FireCached, FireOrdered, FireHeld, FireTwo, FireLost
  <2> QED
    BY <2>2, <2>4 DEF FireCache, F!Held
<1>3. FireAdmitted'
  <2>1. ASSUME NEW f \in admitted, f.digest \notin forgotten', ~(hookNow - f.at > HookTTL) PROVE FALSE
    <3>1. f.digest \notin forgotten /\ f.digest \notin F!Front(Len(order), order)
      BY <1>b, <2>1
    <3>2. PICK i \in 1..Len(order) : order[i].digest = f.digest
      BY <2>1, <3>1 DEF FireAdmitted, FireWindow
    <3> QED
      BY <3>1, <3>2 DEF F!Front
  <2>2. FireWindow(order, forgotten)'
    BY <1>b, <2>1 DEF FireWindow
  <2>3. \A d : d \notin forgotten' => d \notin forgotten
    BY <1>b
  <2> QED
    BY <1>b, <2>2, <2>3 DEF FireAdmitted
<1>4. F!OncePerWindow'
  BY <1>a, <1>b DEF F!OncePerWindow, F!Renewed
<1>5. FireRights'
  BY <1>a, <1>b DEF FireRights, FireTyped
<1>6. FireSlots'
  <2>1. {q \in Ids : fireReqs'[q].pc \in {"drain", "run"}} = {} /\ 0 <= HookSlots
    <3>1. \A q \in Ids : fireReqs'[q].pc = "idle"
      BY <1>a, <1>b
    <3> QED
      BY <3>1, FireNumbers
  <2>2. F!Cardinality({q \in Ids : fireReqs'[q].pc \in {"drain", "run"}}) = 0
    BY <2>1, FS_EmptySet, FireCardinality
  <2> QED
    BY <1>b, <2>1, <2>2 DEF FireSlots, F!SlotsReturn
<1> QED
  BY <1>1, <1>2, <1>3, <1>4, <1>5, <1>6

LEMMA FireNext == FireInv /\ [F!Next]_(F!vars) => FireInv'
<1> SUFFICES ASSUME FireInv, [F!Next]_(F!vars) PROVE FireInv'
  OBVIOUS
<1>1. CASE UNCHANGED F!vars
  <2>1. UNCHANGED <<hookNow, hookTask, entries, order, sem, fireReqs, admitted, forgotten, fireBegun, reloads, restarts>>
    BY <1>1 DEF F!vars
  <2>2. FireTyped'
    BY <2>1 DEF FireInv, FireTyped
  <2>3. FireCache'
    BY <2>1 DEF FireInv, FireCache, FireCached, FireOrdered, FireHeld, FireTwo, FireLost, FireExact
  <2>4. FireAdmitted'
    BY <2>1 DEF FireInv, FireAdmitted, FireWindow
  <2>5. F!OncePerWindow'
    BY <2>1 DEF FireInv, F!OncePerWindow, F!Renewed
  <2>6. FireRights'
    BY <2>1 DEF FireInv, FireRights, FireTyped
  <2>7. FireSlots'
    BY <2>1 DEF FireInv, FireSlots, F!SlotsReturn
  <2> QED
    BY <2>2, <2>3, <2>4, <2>5, <2>6, <2>7 DEF FireInv
<1>2. ASSUME NEW q \in Ids, NEW s \in Shapes, F!Guard(q, s) PROVE FireInv'
  BY <1>2, FireGuard
<1>3. ASSUME NEW q \in Ids,
             F!Handle(q) \/ F!Verify(q) \/ F!FireAsync(q) \/ F!TakeSlot(q) \/ F!FireSync(q) \/ F!RunEnds(q) \/ F!Seen(q)
      PROVE  FireInv'
  BY <1>3, FireHandle, FireVerify, FireFireAsync, FireTakeSlot, FireFireSync, FireRunEnds, FireSeen
<1>4. ASSUME NEW v \in Versions, F!Reload(v) PROVE FireInv'
  BY <1>4, FireReload
<1> QED
  BY <1>1, <1>2, <1>3, <1>4, FireTick, FireRestart DEF F!Next

LEMMA FireMeans == FireInv => F!TypeOK /\ F!OncePerWindow /\ F!FiredByRight /\ F!SlotsReturn
<1>1. FireInv => F!TypeOK
  <2> SUFFICES ASSUME FireInv PROVE F!TypeOK
    OBVIOUS
  <2>1. sem \in 0..HookSlots
    <3>1. sem = Cardinality({q \in Ids : fireReqs[q].pc \in FireBusy}) /\ IsFiniteSet({q \in Ids : fireReqs[q].pc \in FireBusy})
      BY FireHolders DEF FireInv, FireSlots
    <3>2. sem \in Nat
      BY <3>1, FS_CardinalityType
    <3> QED
      BY <3>2 DEF FireInv, FireSlots, FireTyped, FireConstants
  <2> QED
    BY <2>1 DEF FireInv, FireTyped, FireReqs, FireCache, F!TypeOK
<1>2. FireInv => F!FiredByRight
  <2> SUFFICES ASSUME FireInv, NEW q \in Ids, fireReqs[q].pc \in {"fire", "drain", "run"},
                      fireReqs[q].spec = fireReqs[q].guard
               PROVE  LET v == fireReqs[q].guard  s == fireReqs[q].shape IN
                      /\ v.mode # "off" => (s.session /\ ~s.relayed) \/ (v.mode = "any" /\ v.secret /\ s.signed)
                      /\ v.secret => s.signed \/ (v.mode = "any" /\ s.session /\ ~s.relayed)
    BY DEF F!FiredByRight
  <2>1. PICK v \in Versions : v = fireReqs[q].guard
    BY DEF FireInv, FireRights
  <2>2. PICK s \in Shapes : s = fireReqs[q].shape
    BY DEF FireInv, FireRights
  <2>3. /\ F!AuthOutcome(v, s) # "deny" /\ (fireReqs[q].session <=> F!AuthOutcome(v, s) = "session")
        /\ fireReqs[q].session \/ ~v.secret \/ s.signed
    BY <2>1, <2>2 DEF FireInv, FireRights
  <2>4. v.mode \in {"off", "any", "session"} /\ v.secret \in BOOLEAN /\ s.session \in BOOLEAN /\ s.relayed \in BOOLEAN
        /\ s.signed \in BOOLEAN
    BY <2>1, <2>2 DEF FireInv, FireTyped, FireConstants
  <2> QED
    BY <2>1, <2>2, <2>3, <2>4 DEF F!AuthOutcome, F!CanHMAC
<1>3. FireInv => F!OncePerWindow /\ F!SlotsReturn
  BY DEF FireInv, FireSlots
<1> QED
  BY <1>1, <1>2, <1>3

\* What the webhook guard, WebhookHandler and the replay cache promise.
THEOREM HooksFireByRight ==
  FireConstants => (F!Spec => [](F!TypeOK /\ F!OncePerWindow /\ F!FiredByRight /\ F!SlotsReturn))
  BY FireInit, FireNext, FireMeans, PTL DEF F!Spec

-----------------------------------------------------------------------------
(***************************************************************************)
(* The daemon and its commands: ControlSocket.                             *)
(***************************************************************************)

\* The names of the daemons differ.
CtlConstants ==
  /\ None \notin N!Procs /\ PeerCred \in BOOLEAN
  /\ Daemons \in Seq(N!Procs) /\ \A i, j \in 1..Len(Daemons) : Daemons[i] = Daemons[j] => i = j

CtlDaemons ==
  [pc : {"none", "boot", "web", "up", "stopping", "gone"},
   ctl : {"none", "remove", "bind", "listens", "closed", "done"}, ready : BOOLEAN, failed : BOOLEAN]
CtlCommands ==
  [pc : {"probe", "spawn", "wait", "dial", "connect", "shake", "ready", "send", "done", "failed"},
   kind : Kinds, tok : N!Procs \cup {None}, to : N!Procs \cup {None}]
CtlTyped ==
  /\ CtlConstants
  /\ None \notin N!Procs /\ PeerCred \in BOOLEAN
  /\ sockPath \in N!Procs \cup {None} /\ sockToken \in N!Procs \cup {None} /\ webPort \in N!Procs \cup {None}
  /\ dm \in [N!Procs -> CtlDaemons] /\ dmRows \in [N!Procs -> {"none", "running", "cancelled"}]
  /\ commands \in [Commands -> CtlCommands] /\ overlapped \in BOOLEAN

\* The daemons so far are the first names.
CtlFirst(k) == {Daemons[i] : i \in 1..k}
CtlOrder == \E k \in 0..Len(Daemons) : {e \in N!Procs : dm[e].pc # "none"} = CtlFirst(k)

\* Where a daemon is, its socket and its row agree.
CtlPlaces ==
  \A d \in N!Procs :
    /\ dm[d].pc = "none" => ~dm[d].ready
    /\ dm[d].pc \in {"none", "boot", "web"} => dmRows[d] = "none"
    /\ dm[d].pc \in {"none", "boot", "gone"} => dm[d].ctl = "none"
    /\ dm[d].pc \in {"web", "up"} => dm[d].ctl \in {"remove", "bind", "listens"}

\* The port is of a daemon that listens on it or is ending.
CtlPorts ==
  /\ \A d \in N!Procs : dm[d].pc = "up" => webPort = d
  /\ webPort # None => dm[webPort].pc \in {"up", "stopping"}

CtlAlone == ~overlapped => \A d, e \in N!Procs : N!Alive(d) /\ N!Alive(e) => d = e

\* A daemon alone finds its path free, and it and the token are its own until it closes.
CtlReached ==
  ~overlapped =>
    \A d \in N!Procs :
      /\ ~dm[d].failed
      /\ dm[d].ctl \in {"remove", "bind", "listens"} => PeerCred \/ sockToken = d
      /\ dm[d].ctl = "bind" => sockPath = None
      /\ dm[d].ctl = "listens" => sockPath = d

\* A command talks to a daemon that was started; one for a task sends when it is ready.
CtlTold ==
  \A c \in Commands :
    commands[c].pc \in {"shake", "ready", "send"} =>
      /\ commands[c].to \in N!Procs /\ dm[commands[c].to].pc # "none"
      /\ commands[c].pc = "send" /\ commands[c].kind = "task" /\ N!Alive(commands[c].to) => dm[commands[c].to].ready

CtlInv ==
  /\ CtlTyped /\ CtlOrder /\ CtlPlaces /\ CtlPorts /\ CtlAlone /\ CtlReached /\ CtlTold
  /\ N!RowsAreOfTheLiving /\ N!TasksAreThere

LEMMA CtlCardinality == \A S : N!Cardinality(S) = Cardinality(S)
  BY DEF N!Cardinality, Cardinality

LEMMA CtlInit == CtlConstants /\ N!Init => CtlInv
<1> SUFFICES ASSUME CtlConstants, N!Init PROVE CtlInv
  OBVIOUS
<1>1. CtlTyped
  <2>1. N!NoDaemon \in CtlDaemons
    BY DEF N!NoDaemon, CtlDaemons
  <2>2. \A k \in Kinds : [pc |-> "probe", kind |-> k, tok |-> None, to |-> None] \in CtlCommands
    BY DEF CtlCommands
  <2>3. dm \in [N!Procs -> CtlDaemons] /\ dmRows \in [N!Procs -> {"none", "running", "cancelled"}]
    BY <2>1 DEF N!Init
  <2>4. commands \in [Commands -> CtlCommands]
    BY <2>2 DEF N!Init
  <2> QED
    BY <2>3, <2>4 DEF N!Init, CtlTyped, CtlConstants
<1>2. CtlOrder
  <2>1. {e \in N!Procs : dm[e].pc # "none"} = CtlFirst(0)
    BY DEF N!Init, N!NoDaemon, CtlFirst
  <2>2. Len(Daemons) \in Nat
    BY DEF CtlConstants
  <2> QED
    BY <2>1, <2>2 DEF CtlOrder
<1>3. CtlPlaces /\ CtlPorts /\ CtlAlone /\ CtlReached
  BY DEF N!Init, N!NoDaemon, N!Alive, CtlPlaces, CtlPorts, CtlAlone, CtlReached
<1>4. CtlTold /\ N!TasksAreThere
  BY DEF N!Init, CtlTold, N!TasksAreThere
<1>5. N!RowsAreOfTheLiving
  BY DEF N!Init, N!RowsAreOfTheLiving
<1> QED
  BY <1>1, <1>2, <1>3, <1>4, <1>5 DEF CtlInv

\* The order of the names is that of their launches.
LEMMA CtlSame ==
  ASSUME CtlInv, \A e \in N!Procs : dm'[e].pc = "none" <=> dm[e].pc = "none"
  PROVE  CtlOrder'
<1>1. {e \in N!Procs : dm'[e].pc # "none"} = {e \in N!Procs : dm[e].pc # "none"}
  OBVIOUS
<1> QED
  BY <1>1 DEF CtlInv, CtlOrder

\* A process that is launched has the next name, which no daemon had.
LEMMA CtlLaunch ==
  ASSUME CtlInv, N!Launch
  PROVE  \E n \in N!Procs :
           /\ dm[n].pc = "none" /\ dm' = [dm EXCEPT ![n].pc = "boot"]
           /\ overlapped' = (overlapped \/ \E d \in N!Procs : N!Alive(d))
           /\ CtlOrder'
<1> DEFINE opened == {e \in N!Procs : dm[e].pc # "none"}
           n == N!Next1
<1>1. Daemons \in Seq(N!Procs) /\ Len(Daemons) \in Nat /\ DOMAIN Daemons = 1..Len(Daemons)
      /\ \A a, b \in 1..Len(Daemons) : Daemons[a] = Daemons[b] => a = b
  BY DEF CtlInv, CtlTyped, CtlConstants
<1>2. PICK k \in 0..Len(Daemons) : opened = CtlFirst(k)
  BY DEF CtlInv, CtlOrder
<1>3. Cardinality(opened) = k
  <2> DEFINE f == [j \in 1..k |-> Daemons[j]]
  <2>a. \A a \in 1..k : a \in 1..Len(Daemons)
    BY <1>1
  <2>b. f \in [1..k -> CtlFirst(k)] /\ \A y \in CtlFirst(k) : \E a \in 1..k : f[a] = y
    BY DEF CtlFirst
  <2>c. \A a, b \in 1..k : f[a] = f[b] => a = b
    BY <1>1, <2>a
  <2> HIDE DEF f
  <2>1. f \in Bijection(1..k, CtlFirst(k))
    BY <2>b, <2>c DEF Bijection, Injection, Surjection, IsInjective
  <2>2. IsFiniteSet(1..k) /\ Cardinality(1..k) = k
    BY <1>1, FS_Interval
  <2>3. ExistsBijection(1..k, CtlFirst(k))
    BY <2>1 DEF ExistsBijection
  <2> QED
    BY <1>2, <2>2, <2>3, FS_Bijection
<1>4. k + 1 \in 1..Len(Daemons)
  <2>1. PICK d \in N!Procs : dm[d].pc = "none"
    BY DEF N!Launch, N!MoreDaemons
  <2>2. PICK i \in 1..Len(Daemons) : d = Daemons[i]
    BY <1>1 DEF N!Procs
  <2>3. i \notin 1..k
    BY <1>2, <2>1, <2>2 DEF CtlFirst
  <2> QED
    BY <1>1, <2>2, <2>3
<1>5. n = Daemons[k + 1] /\ n \in N!Procs
  <2>1. N!Cardinality(opened) = k
    BY <1>3, CtlCardinality
  <2>2. \A d \in N!Procs : (\E i \in DOMAIN Daemons : d = Daemons[i] /\ i = N!Cardinality(opened) + 1) <=> d = Daemons[k + 1]
    BY <1>1, <1>4, <2>1
  <2>3. Daemons[k + 1] \in N!Procs
    BY <1>1, <1>4 DEF N!Procs
  <2>4. n = CHOOSE d \in N!Procs : \E i \in DOMAIN Daemons : d = Daemons[i] /\ i = N!Cardinality(opened) + 1
    BY DEF N!Next1
  <2> HIDE DEF opened, n
  <2> QED
    BY <2>2, <2>3, <2>4
<1> HIDE DEF n
<1>6. n \notin CtlFirst(k)
  BY <1>1, <1>4, <1>5 DEF CtlFirst
<1>7. dm[n].pc = "none"
  <2>1. n \notin opened
    BY <1>2, <1>6
  <2> QED
    BY <1>5, <2>1
<1>8. dm' = [dm EXCEPT ![n].pc = "boot"] /\ overlapped' = (overlapped \/ \E d \in N!Procs : N!Alive(d))
  BY DEF N!Launch, n
<1>9. CtlOrder'
  <2>1. CtlFirst(k + 1) = CtlFirst(k) \cup {n}
    <3>1. 1..(k + 1) = (1..k) \cup {k + 1}
      BY <1>1
    <3> QED
      BY <1>5, <3>1 DEF CtlFirst
  <2>2. {e \in N!Procs : dm'[e].pc # "none"} = opened \cup {n}
    BY <1>5, <1>8 DEF CtlInv, CtlTyped, CtlDaemons
  <2>3. k + 1 \in 0..Len(Daemons)
    BY <1>4
  <2> QED
    BY <1>2, <2>1, <2>2, <2>3 DEF CtlOrder
<1> QED
  BY <1>5, <1>7, <1>8, <1>9

LEMMA CtlForeground == ASSUME CtlInv, N!Foreground PROVE CtlInv'
<1> USE DEF CtlInv
<1>a. PICK n \in N!Procs :
        /\ dm[n].pc = "none" /\ dm' = [dm EXCEPT ![n].pc = "boot"]
        /\ overlapped' = (overlapped \/ \E d \in N!Procs : N!Alive(d))
        /\ CtlOrder'
  BY CtlLaunch DEF N!Foreground
<1>1. CtlTyped'
  BY <1>a DEF CtlTyped, CtlDaemons, CtlCommands, N!Foreground, N!Gone, N!NoDaemon
<1>2. CtlOrder'
  BY <1>a
<1>3. CtlPlaces'
  BY <1>a DEF CtlPlaces, CtlTyped, CtlDaemons, CtlCommands, N!Foreground, N!Gone, N!NoDaemon
<1>4. CtlPorts'
  BY <1>a DEF CtlPorts, CtlTyped, CtlDaemons, CtlCommands, N!Foreground, N!Gone, N!NoDaemon
<1>5. CtlAlone'
  BY <1>a DEF CtlAlone, N!Alive, CtlTyped, CtlDaemons, CtlCommands, N!Foreground, N!Gone, N!NoDaemon
<1>6. CtlReached'
  BY <1>a DEF CtlReached, N!Alive, CtlPlaces, CtlAlone, CtlPorts, CtlTyped, CtlDaemons, CtlCommands,
    N!Foreground, N!Gone, N!NoDaemon
<1>7. CtlTold'
  BY <1>a DEF CtlTold, N!Alive, CtlPlaces, CtlTyped, CtlDaemons, CtlCommands, N!Foreground, N!Gone, N!NoDaemon
<1>8. N!RowsAreOfTheLiving'
  BY <1>a DEF N!RowsAreOfTheLiving, N!Alive, CtlPlaces, CtlAlone, CtlTyped, CtlDaemons, CtlCommands,
    N!Foreground, N!Gone, N!NoDaemon
<1>9. N!TasksAreThere'
  BY <1>a DEF N!TasksAreThere, CtlTold, CtlTyped, CtlDaemons, CtlCommands, N!Foreground, N!Gone, N!NoDaemon
<1> QED
  BY <1>1, <1>2, <1>3, <1>4, <1>5, <1>6, <1>7, <1>8, <1>9

LEMMA CtlBoot == ASSUME NEW d \in N!Procs, CtlInv, N!Boot(d) PROVE CtlInv'
<1> USE DEF CtlInv
<1>a. /\ dm' \in [N!Procs -> CtlDaemons] /\ \A e \in N!Procs \ {d} : dm'[e] = dm[e]
      /\ dm[d].pc = "boot" /\ dm'[d].pc = "web" /\ dm'[d].ctl = "remove" /\ dm'[d].ready = dm[d].ready /\ dm'[d].failed = dm[d].failed
      /\ sockToken' \in N!Procs \cup {None} /\ (PeerCred \/ sockToken' = d)
      /\ dmRows' = [e \in N!Procs |-> IF dmRows[e] = "running" THEN "cancelled" ELSE dmRows[e]]
      /\ UNCHANGED <<sockPath, webPort, commands, carriedOut, overlapped>>
  BY DEF CtlTyped, CtlDaemons, N!Boot, N!SetupRegistry, N!Settled
<1>1. CtlTyped'
  BY <1>a DEF CtlTyped, CtlDaemons, CtlCommands
<1>2. CtlOrder'
  BY <1>a, CtlSame DEF CtlOrder, N!Alive
<1>3. CtlPlaces'
  BY <1>a DEF CtlPlaces, CtlTyped, CtlDaemons, CtlCommands
<1>4. CtlPorts'
  BY <1>a DEF CtlPorts, CtlTyped, CtlDaemons, CtlCommands
<1>5. CtlAlone'
  BY <1>a DEF CtlAlone, N!Alive, CtlTyped, CtlDaemons, CtlCommands
<1>6. CtlReached'
  BY <1>a DEF CtlReached, N!Alive, CtlPlaces, CtlAlone, CtlPorts, CtlTyped, CtlDaemons, CtlCommands
<1>7. CtlTold'
  BY <1>a DEF CtlTold, N!Alive, CtlPlaces, CtlTyped, CtlDaemons, CtlCommands
<1>8. N!RowsAreOfTheLiving'
  BY <1>a DEF N!RowsAreOfTheLiving, N!Alive, CtlPlaces, CtlAlone, CtlTyped, CtlDaemons, CtlCommands
<1>9. N!TasksAreThere'
  BY <1>a DEF N!TasksAreThere, CtlTold, CtlTyped, CtlDaemons, CtlCommands
<1> QED
  BY <1>1, <1>2, <1>3, <1>4, <1>5, <1>6, <1>7, <1>8, <1>9

LEMMA CtlBootFails == ASSUME NEW d \in N!Procs, CtlInv, N!BootFails(d) PROVE CtlInv'
<1> USE DEF CtlInv
<1>1. CtlTyped'
  BY DEF CtlTyped, CtlDaemons, CtlCommands, N!BootFails, N!Gone, N!NoDaemon
<1>2. CtlOrder'
  BY DEF CtlOrder, N!Alive, N!BootFails, N!Gone, N!NoDaemon
<1>3. CtlPlaces'
  BY DEF CtlPlaces, CtlTyped, CtlDaemons, CtlCommands, N!BootFails, N!Gone, N!NoDaemon
<1>4. CtlPorts'
  BY DEF CtlPorts, CtlTyped, CtlDaemons, CtlCommands, N!BootFails, N!Gone, N!NoDaemon
<1>5. CtlAlone'
  BY DEF CtlAlone, N!Alive, CtlTyped, CtlDaemons, CtlCommands, N!BootFails, N!Gone, N!NoDaemon
<1>6. CtlReached'
  BY DEF CtlReached, N!Alive, CtlPlaces, CtlAlone, CtlPorts, CtlTyped, CtlDaemons, CtlCommands, N!BootFails,
    N!Gone, N!NoDaemon
<1>7. CtlTold'
  BY DEF CtlTold, N!Alive, CtlPlaces, CtlTyped, CtlDaemons, CtlCommands, N!BootFails, N!Gone, N!NoDaemon
<1>8. N!RowsAreOfTheLiving'
  BY DEF N!RowsAreOfTheLiving, N!Alive, CtlPlaces, CtlAlone, CtlTyped, CtlDaemons, CtlCommands, N!BootFails,
    N!Gone, N!NoDaemon
<1>9. N!TasksAreThere'
  BY DEF N!TasksAreThere, CtlTold, CtlTyped, CtlDaemons, CtlCommands, N!BootFails, N!Gone, N!NoDaemon
<1> QED
  BY <1>1, <1>2, <1>3, <1>4, <1>5, <1>6, <1>7, <1>8, <1>9

LEMMA CtlStartWeb == ASSUME NEW d \in N!Procs, CtlInv, N!StartWeb(d) PROVE CtlInv'
<1> USE DEF CtlInv
<1>a. /\ dm' \in [N!Procs -> CtlDaemons] /\ \A e \in N!Procs \ {d} : dm'[e] = dm[e]
      /\ dm[d].pc = "web" /\ dm'[d].ctl = dm[d].ctl /\ dm'[d].ready = dm[d].ready
      /\ \/ webPort = None /\ webPort' = d /\ dm'[d].pc = "up" /\ dm'[d].failed = dm[d].failed
         \/ webPort # None /\ webPort' = webPort /\ dm'[d].pc = "stopping" /\ dm'[d].failed
      /\ UNCHANGED <<sockPath, sockToken, dmRows, commands, carriedOut, overlapped>>
  BY DEF CtlTyped, CtlDaemons, N!StartWeb, N!Cancel, N!Gone, N!NoDaemon
<1>1. CtlTyped'
  BY <1>a DEF CtlTyped, CtlDaemons, CtlCommands
<1>2. CtlOrder'
  BY <1>a, CtlSame DEF CtlOrder, N!Alive
<1>3. CtlPlaces'
  BY <1>a DEF CtlPlaces, CtlTyped, CtlDaemons, CtlCommands
<1>4. CtlPorts'
  BY <1>a DEF CtlPorts, CtlTyped, CtlDaemons, CtlCommands
<1>5. CtlAlone'
  BY <1>a DEF CtlAlone, N!Alive, CtlTyped, CtlDaemons, CtlCommands
<1>6. CtlReached'
  BY <1>a DEF CtlReached, N!Alive, CtlPlaces, CtlAlone, CtlPorts, CtlTyped, CtlDaemons, CtlCommands
<1>7. CtlTold'
  BY <1>a DEF CtlTold, N!Alive, CtlPlaces, CtlTyped, CtlDaemons, CtlCommands
<1>8. N!RowsAreOfTheLiving'
  BY <1>a DEF N!RowsAreOfTheLiving, N!Alive, CtlPlaces, CtlAlone, CtlTyped, CtlDaemons, CtlCommands
<1>9. N!TasksAreThere'
  BY <1>a DEF N!TasksAreThere, CtlTold, CtlTyped, CtlDaemons, CtlCommands
<1> QED
  BY <1>1, <1>2, <1>3, <1>4, <1>5, <1>6, <1>7, <1>8, <1>9

LEMMA CtlRemoveStale == ASSUME NEW d \in N!Procs, CtlInv, N!RemoveStale(d) PROVE CtlInv'
<1> USE DEF CtlInv
<1>a. /\ dm' \in [N!Procs -> CtlDaemons] /\ \A e \in N!Procs \ {d} : dm'[e] = dm[e]
      /\ N!Alive(d) /\ dm[d].ctl = "remove" /\ dm'[d].ctl = "bind" /\ dm'[d].pc = dm[d].pc /\ dm'[d].ready = dm[d].ready
      /\ dm'[d].failed = dm[d].failed /\ sockPath' = None
      /\ UNCHANGED <<sockToken, webPort, dmRows, commands, carriedOut, overlapped>>
  BY DEF CtlTyped, CtlDaemons, N!RemoveStale
<1>1. CtlTyped'
  BY <1>a DEF CtlTyped, CtlDaemons, CtlCommands
<1>2. CtlOrder'
  BY <1>a, CtlSame DEF CtlOrder, N!Alive
<1>3. CtlPlaces'
  BY <1>a DEF CtlPlaces, CtlTyped, CtlDaemons, CtlCommands
<1>4. CtlPorts'
  BY <1>a DEF CtlPorts, CtlTyped, CtlDaemons, CtlCommands
<1>5. CtlAlone'
  BY <1>a DEF CtlAlone, N!Alive, CtlTyped, CtlDaemons, CtlCommands
<1>6. CtlReached'
  BY <1>a DEF CtlReached, N!Alive, CtlPlaces, CtlAlone, CtlPorts, CtlTyped, CtlDaemons, CtlCommands
<1>7. CtlTold'
  BY <1>a DEF CtlTold, N!Alive, CtlPlaces, CtlTyped, CtlDaemons, CtlCommands
<1>8. N!RowsAreOfTheLiving'
  BY <1>a DEF N!RowsAreOfTheLiving, N!Alive, CtlPlaces, CtlAlone, CtlTyped, CtlDaemons, CtlCommands
<1>9. N!TasksAreThere'
  BY <1>a DEF N!TasksAreThere, CtlTold, CtlTyped, CtlDaemons, CtlCommands
<1> QED
  BY <1>1, <1>2, <1>3, <1>4, <1>5, <1>6, <1>7, <1>8, <1>9

LEMMA CtlBind == ASSUME NEW d \in N!Procs, CtlInv, N!Bind(d) PROVE CtlInv'
<1> USE DEF CtlInv
<1>a. /\ dm' \in [N!Procs -> CtlDaemons] /\ \A e \in N!Procs \ {d} : dm'[e] = dm[e]
      /\ dm[d].ctl = "bind" /\ N!Alive(d) /\ dm'[d].ready = dm[d].ready
      /\ \/ sockPath = None /\ sockPath' = d /\ dm'[d].ctl = "listens" /\ dm'[d].pc = dm[d].pc /\ dm'[d].failed = dm[d].failed
         \/ sockPath # None /\ sockPath' = sockPath /\ dm'[d].ctl = "done" /\ dm'[d].pc = "stopping" /\ dm'[d].failed
      /\ UNCHANGED <<sockToken, webPort, dmRows, commands, carriedOut, overlapped>>
  BY DEF CtlTyped, CtlDaemons, N!Bind, N!Cancel, N!Gone, N!NoDaemon
<1>1. CtlTyped'
  BY <1>a DEF CtlTyped, CtlDaemons, CtlCommands
<1>2. CtlOrder'
  BY <1>a, CtlSame DEF CtlOrder, N!Alive
<1>3. CtlPlaces'
  BY <1>a DEF CtlPlaces, CtlTyped, CtlDaemons, CtlCommands
<1>4. CtlPorts'
  BY <1>a DEF CtlPorts, CtlTyped, CtlDaemons, CtlCommands
<1>5. CtlAlone'
  BY <1>a DEF CtlAlone, N!Alive, CtlTyped, CtlDaemons, CtlCommands
<1>6. CtlReached'
  BY <1>a DEF CtlReached, N!Alive, CtlPlaces, CtlAlone, CtlPorts, CtlTyped, CtlDaemons, CtlCommands
<1>7. CtlTold'
  BY <1>a DEF CtlTold, N!Alive, CtlPlaces, CtlTyped, CtlDaemons, CtlCommands
<1>8. N!RowsAreOfTheLiving'
  BY <1>a DEF N!RowsAreOfTheLiving, N!Alive, CtlPlaces, CtlAlone, CtlTyped, CtlDaemons, CtlCommands
<1>9. N!TasksAreThere'
  BY <1>a DEF N!TasksAreThere, CtlTold, CtlTyped, CtlDaemons, CtlCommands
<1> QED
  BY <1>1, <1>2, <1>3, <1>4, <1>5, <1>6, <1>7, <1>8, <1>9

LEMMA CtlFirstSync == ASSUME NEW d \in N!Procs, CtlInv, N!FirstSync(d) PROVE CtlInv'
<1> USE DEF CtlInv
<1>1. CtlTyped'
  <2>1. \A x \in CtlDaemons : [x EXCEPT !.ready = TRUE] \in CtlDaemons
    BY DEF CtlDaemons
  <2> QED
    BY <2>1 DEF CtlTyped, N!FirstSync
<1>2. CtlOrder'
  BY DEF CtlOrder, N!Alive, N!FirstSync, N!Gone, N!NoDaemon
<1>3. CtlPlaces'
  BY DEF CtlPlaces, CtlTyped, CtlDaemons, CtlCommands, N!FirstSync, N!Gone, N!NoDaemon
<1>4. CtlPorts'
  BY DEF CtlPorts, CtlTyped, CtlDaemons, CtlCommands, N!FirstSync, N!Gone, N!NoDaemon
<1>5. CtlAlone'
  BY DEF CtlAlone, N!Alive, CtlTyped, CtlDaemons, CtlCommands, N!FirstSync, N!Gone, N!NoDaemon
<1>6. CtlReached'
  BY DEF CtlReached, N!Alive, CtlPlaces, CtlAlone, CtlPorts, CtlTyped, CtlDaemons, CtlCommands, N!FirstSync,
    N!Gone, N!NoDaemon
<1>7. CtlTold'
  BY DEF CtlTold, N!Alive, CtlPlaces, CtlTyped, CtlDaemons, CtlCommands, N!FirstSync, N!Gone, N!NoDaemon
<1>8. N!RowsAreOfTheLiving'
  BY DEF N!RowsAreOfTheLiving, N!Alive, CtlPlaces, CtlAlone, CtlTyped, CtlDaemons, CtlCommands, N!FirstSync,
    N!Gone, N!NoDaemon
<1>9. N!TasksAreThere'
  BY DEF N!TasksAreThere, CtlTold, CtlTyped, CtlDaemons, CtlCommands, N!FirstSync, N!Gone, N!NoDaemon
<1> QED
  BY <1>1, <1>2, <1>3, <1>4, <1>5, <1>6, <1>7, <1>8, <1>9

LEMMA CtlFireRun == ASSUME NEW d \in N!Procs, CtlInv, N!FireRun(d) PROVE CtlInv'
<1> USE DEF CtlInv
<1>1. CtlTyped'
  BY DEF CtlTyped, CtlDaemons, CtlCommands, N!FireRun, N!Gone, N!NoDaemon
<1>2. CtlOrder'
  BY DEF CtlOrder, N!Alive, N!FireRun, N!Gone, N!NoDaemon
<1>3. CtlPlaces'
  BY DEF CtlPlaces, CtlTyped, CtlDaemons, CtlCommands, N!FireRun, N!Gone, N!NoDaemon
<1>4. CtlPorts'
  BY DEF CtlPorts, CtlTyped, CtlDaemons, CtlCommands, N!FireRun, N!Gone, N!NoDaemon
<1>5. CtlAlone'
  BY DEF CtlAlone, N!Alive, CtlTyped, CtlDaemons, CtlCommands, N!FireRun, N!Gone, N!NoDaemon
<1>6. CtlReached'
  BY DEF CtlReached, N!Alive, CtlPlaces, CtlAlone, CtlPorts, CtlTyped, CtlDaemons, CtlCommands, N!FireRun,
    N!Gone, N!NoDaemon
<1>7. CtlTold'
  BY DEF CtlTold, N!Alive, CtlPlaces, CtlTyped, CtlDaemons, CtlCommands, N!FireRun, N!Gone, N!NoDaemon
<1>8. N!RowsAreOfTheLiving'
  BY DEF N!RowsAreOfTheLiving, N!Alive, CtlPlaces, CtlAlone, CtlTyped, CtlDaemons, CtlCommands, N!FireRun,
    N!Gone, N!NoDaemon
<1>9. N!TasksAreThere'
  BY DEF N!TasksAreThere, CtlTold, CtlTyped, CtlDaemons, CtlCommands, N!FireRun, N!Gone, N!NoDaemon
<1> QED
  BY <1>1, <1>2, <1>3, <1>4, <1>5, <1>6, <1>7, <1>8, <1>9

LEMMA CtlFinishRun == ASSUME NEW d \in N!Procs, CtlInv, N!FinishRun(d) PROVE CtlInv'
<1> USE DEF CtlInv
<1>1. CtlTyped'
  BY DEF CtlTyped, CtlDaemons, CtlCommands, N!FinishRun, N!Gone, N!NoDaemon
<1>2. CtlOrder'
  BY DEF CtlOrder, N!Alive, N!FinishRun, N!Gone, N!NoDaemon
<1>3. CtlPlaces'
  BY DEF CtlPlaces, CtlTyped, CtlDaemons, CtlCommands, N!FinishRun, N!Gone, N!NoDaemon
<1>4. CtlPorts'
  BY DEF CtlPorts, CtlTyped, CtlDaemons, CtlCommands, N!FinishRun, N!Gone, N!NoDaemon
<1>5. CtlAlone'
  BY DEF CtlAlone, N!Alive, CtlTyped, CtlDaemons, CtlCommands, N!FinishRun, N!Gone, N!NoDaemon
<1>6. CtlReached'
  BY DEF CtlReached, N!Alive, CtlPlaces, CtlAlone, CtlPorts, CtlTyped, CtlDaemons, CtlCommands, N!FinishRun,
    N!Gone, N!NoDaemon
<1>7. CtlTold'
  BY DEF CtlTold, N!Alive, CtlPlaces, CtlTyped, CtlDaemons, CtlCommands, N!FinishRun, N!Gone, N!NoDaemon
<1>8. N!RowsAreOfTheLiving'
  BY DEF N!RowsAreOfTheLiving, N!Alive, CtlPlaces, CtlAlone, CtlTyped, CtlDaemons, CtlCommands, N!FinishRun,
    N!Gone, N!NoDaemon
<1>9. N!TasksAreThere'
  BY DEF N!TasksAreThere, CtlTold, CtlTyped, CtlDaemons, CtlCommands, N!FinishRun, N!Gone, N!NoDaemon
<1> QED
  BY <1>1, <1>2, <1>3, <1>4, <1>5, <1>6, <1>7, <1>8, <1>9

LEMMA CtlStop == ASSUME NEW d \in N!Procs, CtlInv, N!Stop(d) PROVE CtlInv'
<1> USE DEF CtlInv
<1>a. /\ dm' \in [N!Procs -> CtlDaemons] /\ \A e \in N!Procs \ {d} : dm'[e] = dm[e]
      /\ dm[d].pc \in {"web", "up"} /\ dm'[d].pc = "stopping" /\ dm'[d].ctl = dm[d].ctl /\ dm'[d].ready = dm[d].ready /\ ~dm'[d].failed
      /\ UNCHANGED <<sockPath, sockToken, webPort, dmRows, commands, carriedOut, overlapped>>
  BY DEF CtlTyped, CtlDaemons, N!Stop, N!Cancel, N!Gone, N!NoDaemon
<1>1. CtlTyped'
  BY <1>a DEF CtlTyped, CtlDaemons, CtlCommands
<1>2. CtlOrder'
  BY <1>a, CtlSame DEF CtlOrder, N!Alive
<1>3. CtlPlaces'
  BY <1>a DEF CtlPlaces, CtlTyped, CtlDaemons, CtlCommands
<1>4. CtlPorts'
  BY <1>a DEF CtlPorts, CtlTyped, CtlDaemons, CtlCommands
<1>5. CtlAlone'
  BY <1>a DEF CtlAlone, N!Alive, CtlTyped, CtlDaemons, CtlCommands
<1>6. CtlReached'
  BY <1>a DEF CtlReached, N!Alive, CtlPlaces, CtlAlone, CtlPorts, CtlTyped, CtlDaemons, CtlCommands
<1>7. CtlTold'
  BY <1>a DEF CtlTold, N!Alive, CtlPlaces, CtlTyped, CtlDaemons, CtlCommands
<1>8. N!RowsAreOfTheLiving'
  BY <1>a DEF N!RowsAreOfTheLiving, N!Alive, CtlPlaces, CtlAlone, CtlTyped, CtlDaemons, CtlCommands
<1>9. N!TasksAreThere'
  BY <1>a DEF N!TasksAreThere, CtlTold, CtlTyped, CtlDaemons, CtlCommands
<1> QED
  BY <1>1, <1>2, <1>3, <1>4, <1>5, <1>6, <1>7, <1>8, <1>9

LEMMA CtlClose == ASSUME NEW d \in N!Procs, CtlInv, N!Close(d) PROVE CtlInv'
<1> USE DEF CtlInv
<1>1. CtlTyped'
  BY DEF CtlTyped, CtlDaemons, CtlCommands, N!Close, N!Gone, N!NoDaemon
<1>2. CtlOrder'
  BY DEF CtlOrder, N!Alive, N!Close, N!Gone, N!NoDaemon
<1>3. CtlPlaces'
  BY DEF CtlPlaces, CtlTyped, CtlDaemons, CtlCommands, N!Close, N!Gone, N!NoDaemon
<1>4. CtlPorts'
  BY DEF CtlPorts, CtlTyped, CtlDaemons, CtlCommands, N!Close, N!Gone, N!NoDaemon
<1>5. CtlAlone'
  BY DEF CtlAlone, N!Alive, CtlTyped, CtlDaemons, CtlCommands, N!Close, N!Gone, N!NoDaemon
<1>6. CtlReached'
  BY DEF CtlReached, N!Alive, CtlPlaces, CtlAlone, CtlPorts, CtlTyped, CtlDaemons, CtlCommands, N!Close,
    N!Gone, N!NoDaemon
<1>7. CtlTold'
  BY DEF CtlTold, N!Alive, CtlPlaces, CtlTyped, CtlDaemons, CtlCommands, N!Close, N!Gone, N!NoDaemon
<1>8. N!RowsAreOfTheLiving'
  BY DEF N!RowsAreOfTheLiving, N!Alive, CtlPlaces, CtlAlone, CtlTyped, CtlDaemons, CtlCommands, N!Close,
    N!Gone, N!NoDaemon
<1>9. N!TasksAreThere'
  BY DEF N!TasksAreThere, CtlTold, CtlTyped, CtlDaemons, CtlCommands, N!Close, N!Gone, N!NoDaemon
<1> QED
  BY <1>1, <1>2, <1>3, <1>4, <1>5, <1>6, <1>7, <1>8, <1>9

LEMMA CtlRemoveFiles == ASSUME NEW d \in N!Procs, CtlInv, N!RemoveFiles(d) PROVE CtlInv'
<1> USE DEF CtlInv
<1>a. /\ dm' \in [N!Procs -> CtlDaemons] /\ \A e \in N!Procs \ {d} : dm'[e] = dm[e]
      /\ dm[d].pc = "stopping" /\ dm[d].ctl = "closed" /\ dm'[d].ctl = "done" /\ dm'[d].pc = dm[d].pc /\ dm'[d].ready = dm[d].ready
      /\ dm'[d].failed = dm[d].failed /\ sockPath' = None /\ sockToken' = None
      /\ UNCHANGED <<webPort, dmRows, commands, carriedOut, overlapped>>
  BY DEF CtlTyped, CtlDaemons, N!RemoveFiles
<1>1. CtlTyped'
  BY <1>a DEF CtlTyped, CtlDaemons, CtlCommands
<1>2. CtlOrder'
  BY <1>a, CtlSame DEF CtlOrder, N!Alive
<1>3. CtlPlaces'
  BY <1>a DEF CtlPlaces, CtlTyped, CtlDaemons, CtlCommands
<1>4. CtlPorts'
  BY <1>a DEF CtlPorts, CtlTyped, CtlDaemons, CtlCommands
<1>5. CtlAlone'
  BY <1>a DEF CtlAlone, N!Alive, CtlTyped, CtlDaemons, CtlCommands
<1>6. CtlReached'
  BY <1>a DEF CtlReached, N!Alive, CtlPlaces, CtlAlone, CtlPorts, CtlTyped, CtlDaemons, CtlCommands
<1>7. CtlTold'
  BY <1>a DEF CtlTold, N!Alive, CtlPlaces, CtlTyped, CtlDaemons, CtlCommands
<1>8. N!RowsAreOfTheLiving'
  BY <1>a DEF N!RowsAreOfTheLiving, N!Alive, CtlPlaces, CtlAlone, CtlTyped, CtlDaemons, CtlCommands
<1>9. N!TasksAreThere'
  BY <1>a DEF N!TasksAreThere, CtlTold, CtlTyped, CtlDaemons, CtlCommands
<1> QED
  BY <1>1, <1>2, <1>3, <1>4, <1>5, <1>6, <1>7, <1>8, <1>9

LEMMA CtlExit == ASSUME NEW d \in N!Procs, CtlInv, N!Exit(d) PROVE CtlInv'
<1> USE DEF CtlInv
<1>1. CtlTyped'
  BY DEF CtlTyped, CtlDaemons, CtlCommands, N!Exit, N!Gone, N!NoDaemon
<1>2. CtlOrder'
  BY DEF CtlOrder, N!Alive, N!Exit, N!Gone, N!NoDaemon
<1>3. CtlPlaces'
  BY DEF CtlPlaces, CtlTyped, CtlDaemons, CtlCommands, N!Exit, N!Gone, N!NoDaemon
<1>4. CtlPorts'
  BY DEF CtlPorts, CtlTyped, CtlDaemons, CtlCommands, N!Exit, N!Gone, N!NoDaemon
<1>5. CtlAlone'
  BY DEF CtlAlone, N!Alive, CtlTyped, CtlDaemons, CtlCommands, N!Exit, N!Gone, N!NoDaemon
<1>6. CtlReached'
  BY DEF CtlReached, N!Alive, CtlPlaces, CtlAlone, CtlPorts, CtlTyped, CtlDaemons, CtlCommands, N!Exit,
    N!Gone, N!NoDaemon
<1>7. CtlTold'
  BY DEF CtlTold, N!Alive, CtlPlaces, CtlTyped, CtlDaemons, CtlCommands, N!Exit, N!Gone, N!NoDaemon
<1>8. N!RowsAreOfTheLiving'
  BY DEF N!RowsAreOfTheLiving, N!Alive, CtlPlaces, CtlAlone, CtlTyped, CtlDaemons, CtlCommands, N!Exit,
    N!Gone, N!NoDaemon
<1>9. N!TasksAreThere'
  BY DEF N!TasksAreThere, CtlTold, CtlTyped, CtlDaemons, CtlCommands, N!Exit, N!Gone, N!NoDaemon
<1> QED
  BY <1>1, <1>2, <1>3, <1>4, <1>5, <1>6, <1>7, <1>8, <1>9

LEMMA CtlCrash == ASSUME NEW d \in N!Procs, CtlInv, N!Crash(d) PROVE CtlInv'
<1> USE DEF CtlInv
<1>a. /\ dm' \in [N!Procs -> CtlDaemons] /\ \A e \in N!Procs \ {d} : dm'[e] = dm[e]
      /\ N!Alive(d) /\ dm'[d].pc = "gone" /\ dm'[d].ctl = "none" /\ ~dm'[d].ready /\ dm'[d].failed = dm[d].failed
      /\ webPort' = IF webPort = d THEN None ELSE webPort
      /\ UNCHANGED <<sockPath, sockToken, dmRows, commands, carriedOut, overlapped>>
  BY DEF CtlTyped, CtlDaemons, N!Gone, N!NoDaemon, N!Crash
<1>1. CtlTyped'
  BY <1>a DEF CtlTyped, CtlDaemons, CtlCommands
<1>2. CtlOrder'
  BY <1>a, CtlSame DEF CtlOrder, N!Alive
<1>3. CtlPlaces'
  BY <1>a DEF CtlPlaces, CtlTyped, CtlDaemons, CtlCommands
<1>4. CtlPorts'
  <2>1. CASE webPort = d
    BY <1>a, <2>1 DEF CtlPorts
  <2>2. CASE webPort # d
    <3>1. webPort' = webPort
      BY <1>a, <2>2
    <3>2. webPort # None => dm'[webPort] = dm[webPort]
      BY <1>a, <2>2 DEF CtlTyped
    <3> QED
      BY <1>a, <3>1, <3>2 DEF CtlPorts
  <2> QED
    BY <2>1, <2>2
<1>5. CtlAlone'
  BY <1>a DEF CtlAlone, N!Alive, CtlTyped, CtlDaemons, CtlCommands
<1>6. CtlReached'
  BY <1>a DEF CtlReached, N!Alive, CtlPlaces, CtlAlone, CtlPorts, CtlTyped, CtlDaemons, CtlCommands
<1>7. CtlTold'
  BY <1>a DEF CtlTold, N!Alive, CtlPlaces, CtlTyped, CtlDaemons, CtlCommands
<1>8. N!RowsAreOfTheLiving'
  BY <1>a DEF N!RowsAreOfTheLiving, N!Alive, CtlPlaces, CtlAlone, CtlTyped, CtlDaemons, CtlCommands
<1>9. N!TasksAreThere'
  BY <1>a DEF N!TasksAreThere, CtlTold, CtlTyped, CtlDaemons, CtlCommands
<1> QED
  BY <1>1, <1>2, <1>3, <1>4, <1>5, <1>6, <1>7, <1>8, <1>9

LEMMA CtlProbe == ASSUME NEW c \in Commands, CtlInv, N!Probe(c) PROVE CtlInv'
<1> USE DEF CtlInv
<1>1. CtlTyped'
  <2>1. \A x \in CtlCommands, p \in {"spawn", "wait", "done", "dial", "shake", "send", "failed"}, t \in N!Procs \cup {None} :
          [x EXCEPT !.pc = p] \in CtlCommands /\ [[x EXCEPT !.to = t] EXCEPT !.pc = p] \in CtlCommands
    BY DEF CtlCommands
  <2>2. commands' \in [Commands -> CtlCommands]
    BY <2>1 DEF CtlTyped, N!Probe, N!At, N!Found
  <2> QED
    BY <2>2 DEF CtlTyped, N!Probe, N!At, N!Same
<1>2. CtlOrder'
  BY DEF CtlOrder, N!Alive, N!Probe, N!At, N!Same, N!Reachable, N!Listens, N!Found, N!Gone, N!NoDaemon
<1>3. CtlPlaces'
  BY DEF CtlPlaces, CtlTyped, CtlDaemons, CtlCommands, N!Probe, N!At, N!Same, N!Reachable, N!Listens, N!Found,
    N!Gone, N!NoDaemon
<1>4. CtlPorts'
  BY DEF CtlPorts, CtlTyped, CtlDaemons, CtlCommands, N!Probe, N!At, N!Same, N!Reachable, N!Listens, N!Found,
    N!Gone, N!NoDaemon
<1>5. CtlAlone'
  BY DEF CtlAlone, N!Alive, CtlTyped, CtlDaemons, CtlCommands, N!Probe, N!At, N!Same, N!Reachable, N!Listens,
    N!Found, N!Gone, N!NoDaemon
<1>6. CtlReached'
  BY DEF CtlReached, N!Alive, CtlPlaces, CtlAlone, CtlPorts, CtlTyped, CtlDaemons, CtlCommands, N!Probe, N!At,
    N!Same, N!Reachable, N!Listens, N!Found, N!Gone, N!NoDaemon
<1>7. CtlTold'
  BY DEF CtlTold, N!Alive, CtlPlaces, CtlTyped, CtlDaemons, CtlCommands, N!Probe, N!At, N!Same, N!Reachable,
    N!Listens, N!Found, N!Gone, N!NoDaemon
<1>8. N!RowsAreOfTheLiving'
  BY DEF N!RowsAreOfTheLiving, N!Alive, CtlPlaces, CtlAlone, CtlTyped, CtlDaemons, CtlCommands, N!Probe, N!At,
    N!Same, N!Reachable, N!Listens, N!Found, N!Gone, N!NoDaemon
<1>9. N!TasksAreThere'
  BY DEF N!TasksAreThere, CtlTold, CtlTyped, CtlDaemons, CtlCommands, N!Probe, N!At, N!Same, N!Reachable,
    N!Listens, N!Found, N!Gone, N!NoDaemon
<1> QED
  BY <1>1, <1>2, <1>3, <1>4, <1>5, <1>6, <1>7, <1>8, <1>9

LEMMA CtlSpawn == ASSUME NEW c \in Commands, CtlInv, N!Spawn(c) PROVE CtlInv'
<1> USE DEF CtlInv
<1>a. PICK n \in N!Procs :
        /\ dm[n].pc = "none" /\ dm' = [dm EXCEPT ![n].pc = "boot"]
        /\ overlapped' = (overlapped \/ \E d \in N!Procs : N!Alive(d))
        /\ CtlOrder'
  BY CtlLaunch DEF N!Spawn
<1>1. CtlTyped'
  <2>1. \A x \in CtlCommands : [x EXCEPT !.pc = "wait"] \in CtlCommands
    BY DEF CtlCommands
  <2>2. commands' \in [Commands -> CtlCommands]
    BY <2>1 DEF CtlTyped, N!Spawn, N!At
  <2>3. dm' \in [N!Procs -> CtlDaemons] /\ overlapped' \in BOOLEAN
    BY <1>a DEF CtlTyped, CtlDaemons
  <2> QED
    BY <2>2, <2>3 DEF CtlTyped, N!Spawn
<1>2. CtlOrder'
  BY <1>a
<1>3. CtlPlaces'
  BY <1>a DEF CtlPlaces, CtlTyped, CtlDaemons, CtlCommands, N!Spawn, N!At, N!Gone, N!NoDaemon
<1>4. CtlPorts'
  BY <1>a DEF CtlPorts, CtlTyped, CtlDaemons, CtlCommands, N!Spawn, N!At, N!Gone, N!NoDaemon
<1>5. CtlAlone'
  BY <1>a DEF CtlAlone, N!Alive, CtlTyped, CtlDaemons, CtlCommands, N!Spawn, N!At, N!Gone, N!NoDaemon
<1>6. CtlReached'
  <2> SUFFICES ASSUME ~overlapped', NEW d \in N!Procs
               PROVE  /\ ~dm'[d].failed
                      /\ dm'[d].ctl \in {"remove", "bind", "listens"} => PeerCred \/ sockToken' = d
                      /\ dm'[d].ctl = "bind" => sockPath' = None
                      /\ dm'[d].ctl = "listens" => sockPath' = d
    BY DEF CtlReached
  <2>1. ~overlapped /\ ~N!Alive(d)
    BY <1>a
  <2>2. dm[d].ctl = "none" /\ ~dm[d].failed
    BY <2>1 DEF N!Alive, CtlReached, CtlPlaces
  <2>3. dm'[d].ctl = "none" /\ ~dm'[d].failed
    BY <1>a, <2>2 DEF CtlTyped, CtlDaemons
  <2> QED
    BY <2>3
<1>7. CtlTold'
  BY <1>a DEF CtlTold, N!Alive, CtlPlaces, CtlTyped, CtlDaemons, CtlCommands, N!Spawn, N!At, N!Gone, N!NoDaemon
<1>8. N!RowsAreOfTheLiving'
  BY <1>a DEF N!RowsAreOfTheLiving, N!Alive, CtlPlaces, CtlAlone, CtlTyped, CtlDaemons, CtlCommands, N!Spawn,
    N!At, N!Gone, N!NoDaemon
<1>9. N!TasksAreThere'
  BY <1>a DEF N!TasksAreThere, CtlTold, CtlTyped, CtlDaemons, CtlCommands, N!Spawn, N!At, N!Gone, N!NoDaemon
<1> QED
  BY <1>1, <1>2, <1>3, <1>4, <1>5, <1>6, <1>7, <1>8, <1>9

LEMMA CtlWaitDaemonUp == ASSUME NEW c \in Commands, CtlInv, N!WaitDaemonUp(c) PROVE CtlInv'
<1> USE DEF CtlInv
<1>1. CtlTyped'
  <2>1. \A x \in CtlCommands, p \in {"spawn", "wait", "done", "dial", "shake", "send", "failed"}, t \in N!Procs \cup {None} :
          [x EXCEPT !.pc = p] \in CtlCommands /\ [[x EXCEPT !.to = t] EXCEPT !.pc = p] \in CtlCommands
    BY DEF CtlCommands
  <2>2. commands' \in [Commands -> CtlCommands]
    BY <2>1 DEF CtlTyped, N!WaitDaemonUp, N!At, N!Found
  <2> QED
    BY <2>2 DEF CtlTyped, N!WaitDaemonUp, N!At, N!Same
<1>2. CtlOrder'
  BY DEF CtlOrder, N!Alive, N!WaitDaemonUp, N!At, N!Same, N!Reachable, N!Listens, N!Found, N!Gone, N!NoDaemon
<1>3. CtlPlaces'
  BY DEF CtlPlaces, CtlTyped, CtlDaemons, CtlCommands, N!WaitDaemonUp, N!At, N!Same, N!Reachable, N!Listens,
    N!Found, N!Gone, N!NoDaemon
<1>4. CtlPorts'
  BY DEF CtlPorts, CtlTyped, CtlDaemons, CtlCommands, N!WaitDaemonUp, N!At, N!Same, N!Reachable, N!Listens,
    N!Found, N!Gone, N!NoDaemon
<1>5. CtlAlone'
  BY DEF CtlAlone, N!Alive, CtlTyped, CtlDaemons, CtlCommands, N!WaitDaemonUp, N!At, N!Same, N!Reachable,
    N!Listens, N!Found, N!Gone, N!NoDaemon
<1>6. CtlReached'
  BY DEF CtlReached, N!Alive, CtlPlaces, CtlAlone, CtlPorts, CtlTyped, CtlDaemons, CtlCommands,
    N!WaitDaemonUp, N!At, N!Same, N!Reachable, N!Listens, N!Found, N!Gone, N!NoDaemon
<1>7. CtlTold'
  BY DEF CtlTold, N!Alive, CtlPlaces, CtlTyped, CtlDaemons, CtlCommands, N!WaitDaemonUp, N!At, N!Same,
    N!Reachable, N!Listens, N!Found, N!Gone, N!NoDaemon
<1>8. N!RowsAreOfTheLiving'
  BY DEF N!RowsAreOfTheLiving, N!Alive, CtlPlaces, CtlAlone, CtlTyped, CtlDaemons, CtlCommands,
    N!WaitDaemonUp, N!At, N!Same, N!Reachable, N!Listens, N!Found, N!Gone, N!NoDaemon
<1>9. N!TasksAreThere'
  BY DEF N!TasksAreThere, CtlTold, CtlTyped, CtlDaemons, CtlCommands, N!WaitDaemonUp, N!At, N!Same,
    N!Reachable, N!Listens, N!Found, N!Gone, N!NoDaemon
<1> QED
  BY <1>1, <1>2, <1>3, <1>4, <1>5, <1>6, <1>7, <1>8, <1>9

LEMMA CtlStartTimeout == ASSUME NEW c \in Commands, CtlInv, N!StartTimeout(c) PROVE CtlInv'
<1> USE DEF CtlInv
<1>1. CtlTyped'
  BY DEF CtlTyped, CtlDaemons, CtlCommands, N!StartTimeout, N!At, N!Same, N!Gone, N!NoDaemon
<1>2. CtlOrder'
  BY DEF CtlOrder, N!Alive, N!StartTimeout, N!At, N!Same, N!Gone, N!NoDaemon
<1>3. CtlPlaces'
  BY DEF CtlPlaces, CtlTyped, CtlDaemons, CtlCommands, N!StartTimeout, N!At, N!Same, N!Gone, N!NoDaemon
<1>4. CtlPorts'
  BY DEF CtlPorts, CtlTyped, CtlDaemons, CtlCommands, N!StartTimeout, N!At, N!Same, N!Gone, N!NoDaemon
<1>5. CtlAlone'
  BY DEF CtlAlone, N!Alive, CtlTyped, CtlDaemons, CtlCommands, N!StartTimeout, N!At, N!Same, N!Gone, N!NoDaemon
<1>6. CtlReached'
  BY DEF CtlReached, N!Alive, CtlPlaces, CtlAlone, CtlPorts, CtlTyped, CtlDaemons, CtlCommands,
    N!StartTimeout, N!At, N!Same, N!Gone, N!NoDaemon
<1>7. CtlTold'
  BY DEF CtlTold, N!Alive, CtlPlaces, CtlTyped, CtlDaemons, CtlCommands, N!StartTimeout, N!At, N!Same, N!Gone,
    N!NoDaemon
<1>8. N!RowsAreOfTheLiving'
  BY DEF N!RowsAreOfTheLiving, N!Alive, CtlPlaces, CtlAlone, CtlTyped, CtlDaemons, CtlCommands,
    N!StartTimeout, N!At, N!Same, N!Gone, N!NoDaemon
<1>9. N!TasksAreThere'
  BY DEF N!TasksAreThere, CtlTold, CtlTyped, CtlDaemons, CtlCommands, N!StartTimeout, N!At, N!Same, N!Gone,
    N!NoDaemon
<1> QED
  BY <1>1, <1>2, <1>3, <1>4, <1>5, <1>6, <1>7, <1>8, <1>9

LEMMA CtlReadToken == ASSUME NEW c \in Commands, CtlInv, N!ReadToken(c) PROVE CtlInv'
<1> USE DEF CtlInv
<1>1. CtlTyped'
  BY DEF CtlTyped, CtlDaemons, CtlCommands, N!ReadToken, N!Same, N!Gone, N!NoDaemon
<1>2. CtlOrder'
  BY DEF CtlOrder, N!Alive, N!ReadToken, N!Same, N!Gone, N!NoDaemon
<1>3. CtlPlaces'
  BY DEF CtlPlaces, CtlTyped, CtlDaemons, CtlCommands, N!ReadToken, N!Same, N!Gone, N!NoDaemon
<1>4. CtlPorts'
  BY DEF CtlPorts, CtlTyped, CtlDaemons, CtlCommands, N!ReadToken, N!Same, N!Gone, N!NoDaemon
<1>5. CtlAlone'
  BY DEF CtlAlone, N!Alive, CtlTyped, CtlDaemons, CtlCommands, N!ReadToken, N!Same, N!Gone, N!NoDaemon
<1>6. CtlReached'
  BY DEF CtlReached, N!Alive, CtlPlaces, CtlAlone, CtlPorts, CtlTyped, CtlDaemons, CtlCommands, N!ReadToken,
    N!Same, N!Gone, N!NoDaemon
<1>7. CtlTold'
  BY DEF CtlTold, N!Alive, CtlPlaces, CtlTyped, CtlDaemons, CtlCommands, N!ReadToken, N!Same, N!Gone, N!NoDaemon
<1>8. N!RowsAreOfTheLiving'
  BY DEF N!RowsAreOfTheLiving, N!Alive, CtlPlaces, CtlAlone, CtlTyped, CtlDaemons, CtlCommands, N!ReadToken,
    N!Same, N!Gone, N!NoDaemon
<1>9. N!TasksAreThere'
  BY DEF N!TasksAreThere, CtlTold, CtlTyped, CtlDaemons, CtlCommands, N!ReadToken, N!Same, N!Gone, N!NoDaemon
<1> QED
  BY <1>1, <1>2, <1>3, <1>4, <1>5, <1>6, <1>7, <1>8, <1>9

LEMMA CtlConnect == ASSUME NEW c \in Commands, CtlInv, N!Connect(c) PROVE CtlInv'
<1> USE DEF CtlInv
<1>1. CtlTyped'
  <2>1. \A x \in CtlCommands, p \in {"spawn", "wait", "done", "dial", "shake", "send", "failed"}, t \in N!Procs \cup {None} :
          [x EXCEPT !.pc = p] \in CtlCommands /\ [[x EXCEPT !.to = t] EXCEPT !.pc = p] \in CtlCommands
    BY DEF CtlCommands
  <2>2. commands' \in [Commands -> CtlCommands]
    BY <2>1 DEF CtlTyped, N!Connect, N!At, N!Found
  <2> QED
    BY <2>2 DEF CtlTyped, N!Connect, N!At, N!Same
<1>2. CtlOrder'
  BY DEF CtlOrder, N!Alive, N!Connect, N!Same, N!Reachable, N!Listens, N!Gone, N!NoDaemon
<1>3. CtlPlaces'
  BY DEF CtlPlaces, CtlTyped, CtlDaemons, CtlCommands, N!Connect, N!Same, N!Reachable, N!Listens, N!Gone,
    N!NoDaemon
<1>4. CtlPorts'
  BY DEF CtlPorts, CtlTyped, CtlDaemons, CtlCommands, N!Connect, N!Same, N!Reachable, N!Listens, N!Gone,
    N!NoDaemon
<1>5. CtlAlone'
  BY DEF CtlAlone, N!Alive, CtlTyped, CtlDaemons, CtlCommands, N!Connect, N!Same, N!Reachable, N!Listens,
    N!Gone, N!NoDaemon
<1>6. CtlReached'
  BY DEF CtlReached, N!Alive, CtlPlaces, CtlAlone, CtlPorts, CtlTyped, CtlDaemons, CtlCommands, N!Connect,
    N!Same, N!Reachable, N!Listens, N!Gone, N!NoDaemon
<1>7. CtlTold'
  BY DEF CtlTold, N!Alive, CtlPlaces, CtlTyped, CtlDaemons, CtlCommands, N!Connect, N!Same, N!Reachable,
    N!Listens, N!Gone, N!NoDaemon
<1>8. N!RowsAreOfTheLiving'
  BY DEF N!RowsAreOfTheLiving, N!Alive, CtlPlaces, CtlAlone, CtlTyped, CtlDaemons, CtlCommands, N!Connect,
    N!Same, N!Reachable, N!Listens, N!Gone, N!NoDaemon
<1>9. N!TasksAreThere'
  BY DEF N!TasksAreThere, CtlTold, CtlTyped, CtlDaemons, CtlCommands, N!Connect, N!Same, N!Reachable,
    N!Listens, N!Gone, N!NoDaemon
<1> QED
  BY <1>1, <1>2, <1>3, <1>4, <1>5, <1>6, <1>7, <1>8, <1>9

LEMMA CtlHandshake == ASSUME NEW c \in Commands, CtlInv, N!Handshake(c) PROVE CtlInv'
<1> USE DEF CtlInv
<1>1. CtlTyped'
  <2>1. \A x \in CtlCommands, p \in {"spawn", "wait", "done", "dial", "shake", "send", "failed", "ready"}, t \in N!Procs \cup {None} :
          [x EXCEPT !.pc = p] \in CtlCommands /\ [[x EXCEPT !.to = t] EXCEPT !.pc = p] \in CtlCommands
    BY DEF CtlCommands
  <2>2. commands' \in [Commands -> CtlCommands]
    BY <2>1 DEF CtlTyped, N!Handshake, N!At, N!Found
  <2> QED
    BY <2>2 DEF CtlTyped, N!Handshake, N!At, N!Same
<1>2. CtlOrder'
  BY DEF CtlOrder, N!Alive, N!Handshake, N!At, N!Same, N!Gone, N!NoDaemon
<1>3. CtlPlaces'
  BY DEF CtlPlaces, CtlTyped, CtlDaemons, CtlCommands, N!Handshake, N!At, N!Same, N!Gone, N!NoDaemon
<1>4. CtlPorts'
  BY DEF CtlPorts, CtlTyped, CtlDaemons, CtlCommands, N!Handshake, N!At, N!Same, N!Gone, N!NoDaemon
<1>5. CtlAlone'
  BY DEF CtlAlone, N!Alive, CtlTyped, CtlDaemons, CtlCommands, N!Handshake, N!At, N!Same, N!Gone, N!NoDaemon
<1>6. CtlReached'
  BY DEF CtlReached, N!Alive, CtlPlaces, CtlAlone, CtlPorts, CtlTyped, CtlDaemons, CtlCommands, N!Handshake,
    N!At, N!Same, N!Gone, N!NoDaemon
<1>7. CtlTold'
  BY DEF CtlTold, N!Alive, CtlPlaces, CtlTyped, CtlDaemons, CtlCommands, N!Handshake, N!At, N!Same, N!Gone,
    N!NoDaemon
<1>8. N!RowsAreOfTheLiving'
  BY DEF N!RowsAreOfTheLiving, N!Alive, CtlPlaces, CtlAlone, CtlTyped, CtlDaemons, CtlCommands, N!Handshake,
    N!At, N!Same, N!Gone, N!NoDaemon
<1>9. N!TasksAreThere'
  BY DEF N!TasksAreThere, CtlTold, CtlTyped, CtlDaemons, CtlCommands, N!Handshake, N!At, N!Same, N!Gone,
    N!NoDaemon
<1> QED
  BY <1>1, <1>2, <1>3, <1>4, <1>5, <1>6, <1>7, <1>8, <1>9

LEMMA CtlWaitReady == ASSUME NEW c \in Commands, CtlInv, N!WaitReady(c) PROVE CtlInv'
<1> USE DEF CtlInv
<1>1. CtlTyped'
  <2>1. \A x \in CtlCommands, p \in {"spawn", "wait", "done", "dial", "shake", "send", "failed"}, t \in N!Procs \cup {None} :
          [x EXCEPT !.pc = p] \in CtlCommands /\ [[x EXCEPT !.to = t] EXCEPT !.pc = p] \in CtlCommands
    BY DEF CtlCommands
  <2>2. commands' \in [Commands -> CtlCommands]
    BY <2>1 DEF CtlTyped, N!WaitReady, N!At, N!Found
  <2> QED
    BY <2>2 DEF CtlTyped, N!WaitReady, N!At, N!Same
<1>2. CtlOrder'
  BY DEF CtlOrder, N!Alive, N!WaitReady, N!At, N!Same, N!Gone, N!NoDaemon
<1>3. CtlPlaces'
  BY DEF CtlPlaces, CtlTyped, CtlDaemons, CtlCommands, N!WaitReady, N!At, N!Same, N!Gone, N!NoDaemon
<1>4. CtlPorts'
  BY DEF CtlPorts, CtlTyped, CtlDaemons, CtlCommands, N!WaitReady, N!At, N!Same, N!Gone, N!NoDaemon
<1>5. CtlAlone'
  BY DEF CtlAlone, N!Alive, CtlTyped, CtlDaemons, CtlCommands, N!WaitReady, N!At, N!Same, N!Gone, N!NoDaemon
<1>6. CtlReached'
  BY DEF CtlReached, N!Alive, CtlPlaces, CtlAlone, CtlPorts, CtlTyped, CtlDaemons, CtlCommands, N!WaitReady,
    N!At, N!Same, N!Gone, N!NoDaemon
<1>7. CtlTold'
  BY DEF CtlTold, N!Alive, CtlPlaces, CtlTyped, CtlDaemons, CtlCommands, N!WaitReady, N!At, N!Same, N!Gone,
    N!NoDaemon
<1>8. N!RowsAreOfTheLiving'
  BY DEF N!RowsAreOfTheLiving, N!Alive, CtlPlaces, CtlAlone, CtlTyped, CtlDaemons, CtlCommands, N!WaitReady,
    N!At, N!Same, N!Gone, N!NoDaemon
<1>9. N!TasksAreThere'
  BY DEF N!TasksAreThere, CtlTold, CtlTyped, CtlDaemons, CtlCommands, N!WaitReady, N!At, N!Same, N!Gone,
    N!NoDaemon
<1> QED
  BY <1>1, <1>2, <1>3, <1>4, <1>5, <1>6, <1>7, <1>8, <1>9

LEMMA CtlNotReady == ASSUME NEW c \in Commands, CtlInv, N!NotReady(c) PROVE CtlInv'
<1> USE DEF CtlInv
<1>1. CtlTyped'
  BY DEF CtlTyped, CtlDaemons, CtlCommands, N!NotReady, N!At, N!Same, N!Gone, N!NoDaemon
<1>2. CtlOrder'
  BY DEF CtlOrder, N!Alive, N!NotReady, N!At, N!Same, N!Gone, N!NoDaemon
<1>3. CtlPlaces'
  BY DEF CtlPlaces, CtlTyped, CtlDaemons, CtlCommands, N!NotReady, N!At, N!Same, N!Gone, N!NoDaemon
<1>4. CtlPorts'
  BY DEF CtlPorts, CtlTyped, CtlDaemons, CtlCommands, N!NotReady, N!At, N!Same, N!Gone, N!NoDaemon
<1>5. CtlAlone'
  BY DEF CtlAlone, N!Alive, CtlTyped, CtlDaemons, CtlCommands, N!NotReady, N!At, N!Same, N!Gone, N!NoDaemon
<1>6. CtlReached'
  BY DEF CtlReached, N!Alive, CtlPlaces, CtlAlone, CtlPorts, CtlTyped, CtlDaemons, CtlCommands, N!NotReady,
    N!At, N!Same, N!Gone, N!NoDaemon
<1>7. CtlTold'
  BY DEF CtlTold, N!Alive, CtlPlaces, CtlTyped, CtlDaemons, CtlCommands, N!NotReady, N!At, N!Same, N!Gone,
    N!NoDaemon
<1>8. N!RowsAreOfTheLiving'
  BY DEF N!RowsAreOfTheLiving, N!Alive, CtlPlaces, CtlAlone, CtlTyped, CtlDaemons, CtlCommands, N!NotReady,
    N!At, N!Same, N!Gone, N!NoDaemon
<1>9. N!TasksAreThere'
  BY DEF N!TasksAreThere, CtlTold, CtlTyped, CtlDaemons, CtlCommands, N!NotReady, N!At, N!Same, N!Gone,
    N!NoDaemon
<1> QED
  BY <1>1, <1>2, <1>3, <1>4, <1>5, <1>6, <1>7, <1>8, <1>9

LEMMA CtlDispatch == ASSUME NEW c \in Commands, CtlInv, N!Dispatch(c) PROVE CtlInv'
<1> USE DEF CtlInv
<1>1. CtlTyped'
  BY DEF CtlTyped, CtlDaemons, CtlCommands, N!Dispatch, N!At, N!Gone, N!NoDaemon
<1>2. CtlOrder'
  BY DEF CtlOrder, N!Alive, N!Dispatch, N!At, N!Gone, N!NoDaemon
<1>3. CtlPlaces'
  BY DEF CtlPlaces, CtlTyped, CtlDaemons, CtlCommands, N!Dispatch, N!At, N!Gone, N!NoDaemon
<1>4. CtlPorts'
  BY DEF CtlPorts, CtlTyped, CtlDaemons, CtlCommands, N!Dispatch, N!At, N!Gone, N!NoDaemon
<1>5. CtlAlone'
  BY DEF CtlAlone, N!Alive, CtlTyped, CtlDaemons, CtlCommands, N!Dispatch, N!At, N!Gone, N!NoDaemon
<1>6. CtlReached'
  BY DEF CtlReached, N!Alive, CtlPlaces, CtlAlone, CtlPorts, CtlTyped, CtlDaemons, CtlCommands, N!Dispatch,
    N!At, N!Gone, N!NoDaemon
<1>7. CtlTold'
  BY DEF CtlTold, N!Alive, CtlPlaces, CtlTyped, CtlDaemons, CtlCommands, N!Dispatch, N!At, N!Gone, N!NoDaemon
<1>8. N!RowsAreOfTheLiving'
  BY DEF N!RowsAreOfTheLiving, N!Alive, CtlPlaces, CtlAlone, CtlTyped, CtlDaemons, CtlCommands, N!Dispatch,
    N!At, N!Gone, N!NoDaemon
<1>9. N!TasksAreThere'
  BY DEF N!TasksAreThere, CtlTold, CtlTyped, CtlDaemons, CtlCommands, N!Dispatch, N!At, N!Gone, N!NoDaemon
<1> QED
  BY <1>1, <1>2, <1>3, <1>4, <1>5, <1>6, <1>7, <1>8, <1>9

LEMMA CtlLost == ASSUME NEW c \in Commands, CtlInv, N!Lost(c) PROVE CtlInv'
<1> USE DEF CtlInv
<1>1. CtlTyped'
  BY DEF CtlTyped, CtlDaemons, CtlCommands, N!Lost, N!Same, N!Gone, N!NoDaemon
<1>2. CtlOrder'
  BY DEF CtlOrder, N!Alive, N!Lost, N!Same, N!Gone, N!NoDaemon
<1>3. CtlPlaces'
  BY DEF CtlPlaces, CtlTyped, CtlDaemons, CtlCommands, N!Lost, N!Same, N!Gone, N!NoDaemon
<1>4. CtlPorts'
  BY DEF CtlPorts, CtlTyped, CtlDaemons, CtlCommands, N!Lost, N!Same, N!Gone, N!NoDaemon
<1>5. CtlAlone'
  BY DEF CtlAlone, N!Alive, CtlTyped, CtlDaemons, CtlCommands, N!Lost, N!Same, N!Gone, N!NoDaemon
<1>6. CtlReached'
  BY DEF CtlReached, N!Alive, CtlPlaces, CtlAlone, CtlPorts, CtlTyped, CtlDaemons, CtlCommands, N!Lost,
    N!Same, N!Gone, N!NoDaemon
<1>7. CtlTold'
  BY DEF CtlTold, N!Alive, CtlPlaces, CtlTyped, CtlDaemons, CtlCommands, N!Lost, N!Same, N!Gone, N!NoDaemon
<1>8. N!RowsAreOfTheLiving'
  BY DEF N!RowsAreOfTheLiving, N!Alive, CtlPlaces, CtlAlone, CtlTyped, CtlDaemons, CtlCommands, N!Lost,
    N!Same, N!Gone, N!NoDaemon
<1>9. N!TasksAreThere'
  BY DEF N!TasksAreThere, CtlTold, CtlTyped, CtlDaemons, CtlCommands, N!Lost, N!Same, N!Gone, N!NoDaemon
<1> QED
  BY <1>1, <1>2, <1>3, <1>4, <1>5, <1>6, <1>7, <1>8, <1>9

LEMMA CtlNext == CtlInv /\ [N!Next]_(N!vars) => CtlInv'
<1> SUFFICES ASSUME CtlInv, [N!Next]_(N!vars) PROVE CtlInv'
  OBVIOUS
<1>1. CASE UNCHANGED N!vars
  <2>1. UNCHANGED <<sockPath, sockToken, webPort, dm, dmRows, commands, carriedOut, overlapped, crashes>>
    BY <1>1 DEF N!vars
  <2>2. CtlTyped'
    BY <2>1 DEF CtlInv, CtlTyped, CtlDaemons, CtlCommands
  <2>3. CtlOrder'
    BY <2>1 DEF CtlInv, CtlOrder, N!Alive
  <2>4. CtlPlaces'
    BY <2>1 DEF CtlInv, CtlPlaces, CtlTyped, CtlDaemons, CtlCommands
  <2>5. CtlPorts'
    BY <2>1 DEF CtlInv, CtlPorts, CtlTyped, CtlDaemons, CtlCommands
  <2>6. CtlAlone'
    BY <2>1 DEF CtlInv, CtlAlone, N!Alive, CtlTyped, CtlDaemons, CtlCommands
  <2>7. CtlReached'
    BY <2>1 DEF CtlInv, CtlReached, N!Alive, CtlPlaces, CtlAlone, CtlPorts, CtlTyped, CtlDaemons, CtlCommands
  <2>8. CtlTold'
    BY <2>1 DEF CtlInv, CtlTold, N!Alive, CtlPlaces, CtlTyped, CtlDaemons, CtlCommands
  <2>9. N!RowsAreOfTheLiving'
    BY <2>1 DEF CtlInv, N!RowsAreOfTheLiving, N!Alive, CtlPlaces, CtlAlone, CtlTyped, CtlDaemons, CtlCommands
  <2>10. N!TasksAreThere'
    BY <2>1 DEF CtlInv, N!TasksAreThere, CtlTold, CtlTyped, CtlDaemons, CtlCommands
  <2> QED
    BY <2>2, <2>3, <2>4, <2>5, <2>6, <2>7, <2>8, <2>9, <2>10 DEF CtlInv
<1>2. ASSUME NEW d \in N!Procs,
             N!Boot(d) \/ N!BootFails(d) \/ N!StartWeb(d) \/ N!RemoveStale(d) \/ N!Bind(d) \/ N!FirstSync(d) \/ N!FireRun(d) \/ N!FinishRun(d) \/ N!Stop(d) \/ N!Close(d) \/ N!RemoveFiles(d) \/ N!Exit(d) \/ N!Crash(d)
      PROVE  CtlInv'
  BY <1>2, CtlBoot, CtlBootFails, CtlStartWeb, CtlRemoveStale, CtlBind, CtlFirstSync, CtlFireRun,
    CtlFinishRun, CtlStop, CtlClose, CtlRemoveFiles, CtlExit, CtlCrash
<1>3. ASSUME NEW c \in Commands,
             N!Probe(c) \/ N!Spawn(c) \/ N!WaitDaemonUp(c) \/ N!StartTimeout(c) \/ N!ReadToken(c) \/ N!Connect(c) \/ N!Handshake(c) \/ N!WaitReady(c) \/ N!NotReady(c) \/ N!Dispatch(c) \/ N!Lost(c)
      PROVE  CtlInv'
  BY <1>3, CtlProbe, CtlSpawn, CtlWaitDaemonUp, CtlStartTimeout, CtlReadToken, CtlConnect, CtlHandshake,
    CtlWaitReady, CtlNotReady, CtlDispatch, CtlLost
<1> QED
  BY <1>1, <1>2, <1>3, CtlForeground DEF N!Next

LEMMA CtlMeans == CtlInv => N!TypeOK /\ N!TasksAreThere /\ N!ServingIsReached /\ N!RowsAreOfTheLiving /\ N!OneStays
<1>1. CtlInv => N!TypeOK
  BY DEF CtlInv, CtlTyped, CtlDaemons, CtlCommands, N!TypeOK
<1>2. CtlInv => N!ServingIsReached
  BY DEF CtlInv, CtlReached, N!ServingIsReached, N!Serves
<1>3. CtlInv => N!OneStays
  BY DEF CtlInv, CtlPorts, N!OneStays
<1> QED
  BY <1>1, <1>2, <1>3 DEF CtlInv

\* What ensureDaemon, runServices and ControlServer promise: a task command waits for the first
\* sync; while daemons do not overlap, the one that serves is reached and its rows are its own;
\* and of two that do, one ends.
THEOREM CommandsReach ==
  CtlConstants =>
    (N!Spec => [](N!TypeOK /\ N!TasksAreThere /\ N!ServingIsReached /\ N!RowsAreOfTheLiving /\ N!OneStays))
  BY CtlInit, CtlNext, CtlMeans, PTL DEF N!Spec

-----------------------------------------------------------------------------
(***************************************************************************)
(* The follow loop of the commands: CliFollow.                             *)
(***************************************************************************)

\* The names of the runs differ, and None is no run and no result.
FolConstants ==
  /\ None \notin M!Runs \cup {"ended", "failure", "interrupted"}
  /\ RunIds \in Seq(M!Runs) /\ \A i, j \in 1..Len(RunIds) : RunIds[i] = RunIds[j] => i = j

FolForms == Forms \cup {M!NoForm}
FolFields == UNION {f.fields : f \in FolForms}
FolRows ==
  [status : {"none", "running", "suspended", "resumed", "success", "failure", "cancelled"},
   form : FolForms, of : M!Runs \cup {None}, input : SUBSET FolFields]
FolOver == {"ended", "failure", "interrupted"}
FolCommands ==
  [pc : {"start", "settle", "get", "collect", "submit", "wait", "parked", "exit"}, run : M!Runs \cup {None},
   form : FolForms, daemon : BOOLEAN, tty : BOOLEAN, batch : BOOLEAN, pool : SUBSET UNION Answers,
   pre : SUBSET FolFields, input : SUBSET FolFields, asked : BOOLEAN,
   result : {None, "shown", "error", "one-shot", "daemon"} \cup FolOver]
FolTyped ==
  /\ FolConstants
  /\ stepRows \in [M!Runs -> FolRows] /\ isDaemon \in BOOLEAN /\ followers \in [Followers -> FolCommands]

\* The runs so far are the first names.
FolFirst(n) == {RunIds[i] : i \in 1..n}
FolOrder == \E n \in 0..Len(RunIds) : {q \in M!Runs : stepRows[q].status # "none"} = FolFirst(n)

\* M!ResumedOnce, run by run.
FolOnce ==
  /\ \A q \in M!Runs : stepRows[q].status = "none" => stepRows[q].of = None
  /\ \A q \in M!Runs, r \in M!Runs :
       stepRows[q].of = r => stepRows[r].status = "resumed" /\ M!Valid(stepRows[r].form, stepRows[q].input)
  /\ \A q, p \in M!Runs : stepRows[q].of = stepRows[p].of /\ stepRows[q].of # None => q = p

\* A step that was sent was consented to, and what was sent is of a run that is resumed.
FolAgreed(k, form) == ~(k.batch \/ ~k.tty) => k.asked \/ (k.pre # {} /\ k.pre = form.fields)
FolSent ==
  /\ \A x \in stepsSent :
       /\ x.by \in Followers /\ x.run \in M!Runs /\ stepRows[x.run].status = "resumed"
       /\ ~M!nonInteractive(x.by) => x.asked \/ (x.pre # {} /\ x.pre = stepRows[x.run].form.fields)
  /\ \A x, y \in stepsSent : x.by = y.by /\ x.pre \cap y.pre # {} => x = y

\* What a command that is k knows: the form is its run's, what it sent left its pool, and it
\* waits for a run that continues one it resumed.
FolAt(c, k) ==
  /\ k.pc \notin {"start", "exit"} => k.run \in M!Runs /\ stepRows[k.run].status # "none"
  /\ k.pc \in {"collect", "submit"} => stepRows[k.run].status # "running" /\ stepRows[k.run].form = k.form
  /\ \A x \in stepsSent : x.by = c => x.pre \cap k.pool = {}
  /\ k.pc = "submit" =>
       /\ k.pre \cap k.pool = {} /\ FolAgreed(k, k.form)
       /\ \A x \in stepsSent : x.by = c => x.pre \cap k.pre = {}
  /\ k.pc \in {"wait", "parked"} \/ k.result \in FolOver =>
       k.run \in M!Runs /\ \E x \in stepsSent : x.by = c /\ x.run = stepRows[k.run].of
  /\ k.result # None => k.pc = "exit"
  /\ k.result \in FolOver => stepRows[k.run].status \notin {"none", "running"}
FolClients == \A c \in Followers : FolAt(c, followers[c])

FolInv == FolTyped /\ FolOrder /\ FolOnce /\ FolSent /\ FolClients

LEMMA FolCardinality == \A S : M!Cardinality(S) = Cardinality(S)
  BY DEF M!Cardinality, Cardinality

LEMMA FolForm == M!NoForm \in FolForms /\ M!NoForm.fields = {} /\ {} \in SUBSET FolFields
  BY DEF FolForms, M!NoForm

LEMMA FolInit == FolConstants /\ M!Init => FolInv
<1> SUFFICES ASSUME FolConstants, M!Init PROVE FolInv
  OBVIOUS
<1>1. M!NoRun \in FolRows /\ M!NoRun.status = "none" /\ M!NoRun.of = None
  BY FolForm DEF M!NoRun, FolRows
<1>2. \A a \in Answers, t, b \in BOOLEAN :
        /\ M!Command(a, t, b) \in FolCommands /\ M!Command(a, t, b).pc = "start" /\ M!Command(a, t, b).result = None
  BY FolForm DEF M!Command, FolCommands
<1>3. /\ stepRows = [r \in M!Runs |-> M!NoRun] /\ stepsSent = {} /\ isDaemon = FALSE
      /\ followers \in [Followers -> {M!Command(a, t, b) : a \in Answers, t \in BOOLEAN, b \in BOOLEAN}]
  BY DEF M!Init
<1>4. followers \in [Followers -> FolCommands] /\ \A c \in Followers : followers[c].pc = "start" /\ followers[c].result = None
  BY <1>2, <1>3
<1>5. FolTyped
  BY <1>1, <1>3, <1>4 DEF FolTyped
<1>6. FolOrder
  <2>1. {q \in M!Runs : stepRows[q].status # "none"} = FolFirst(0)
    BY <1>1, <1>3 DEF FolFirst
  <2>2. Len(RunIds) \in Nat
    BY DEF FolConstants
  <2> QED
    BY <2>1, <2>2 DEF FolOrder
<1>7. FolOnce
  BY <1>1, <1>3 DEF FolOnce, FolConstants
<1>8. FolSent /\ FolClients
  BY <1>3, <1>4 DEF FolSent, FolClients, FolAt, FolOver, FolConstants
<1> QED
  BY <1>5, <1>6, <1>7, <1>8 DEF FolInv

\* A run that is fresh has the next name.
LEMMA FolFresh ==
  ASSUME FolInv, NEW n \in M!Runs, M!Fresh(n)
  PROVE  /\ stepRows[n].status = "none"
         /\ \A new \in [M!Runs -> FolRows] :
              (\A q \in M!Runs : new[q].status # "none" <=> stepRows[q].status # "none" \/ q = n)
              => \E m \in 0..Len(RunIds) : {q \in M!Runs : new[q].status # "none"} = FolFirst(m)
<1> DEFINE opened == {q \in M!Runs : stepRows[q].status # "none"}
<1>1. RunIds \in Seq(M!Runs) /\ Len(RunIds) \in Nat /\ DOMAIN RunIds = 1..Len(RunIds)
      /\ \A a, b \in 1..Len(RunIds) : RunIds[a] = RunIds[b] => a = b
  BY DEF FolInv, FolTyped, FolConstants
<1>2. PICK k \in 0..Len(RunIds) : opened = FolFirst(k)
  BY DEF FolInv, FolOrder
<1>3. Cardinality(opened) = k
  <2> DEFINE f == [j \in 1..k |-> RunIds[j]]
  <2>a. \A a \in 1..k : a \in 1..Len(RunIds)
    BY <1>1
  <2>b. f \in [1..k -> FolFirst(k)] /\ \A y \in FolFirst(k) : \E a \in 1..k : f[a] = y
    BY DEF FolFirst
  <2>c. \A a, b \in 1..k : f[a] = f[b] => a = b
    BY <1>1, <2>a
  <2> HIDE DEF f
  <2>1. f \in Bijection(1..k, FolFirst(k))
    BY <2>b, <2>c DEF Bijection, Injection, Surjection, IsInjective
  <2>2. IsFiniteSet(1..k) /\ Cardinality(1..k) = k
    BY <1>1, FS_Interval
  <2>3. ExistsBijection(1..k, FolFirst(k))
    BY <2>1 DEF ExistsBijection
  <2> QED
    BY <1>2, <2>2, <2>3, FS_Bijection
<1>4. PICK i \in 1..Len(RunIds) : n = RunIds[i] /\ i = k + 1
  BY <1>1, <1>3, FolCardinality DEF M!Fresh
<1>5. n \notin FolFirst(k)
  BY <1>1, <1>4 DEF FolFirst
<1>6. stepRows[n].status = "none"
  <2>1. n \notin opened
    BY <1>2, <1>5
  <2> QED
    BY <2>1
<1>7. FolFirst(k + 1) = FolFirst(k) \cup {n}
  <2>1. 1..(k + 1) = (1..k) \cup {k + 1}
    BY <1>1
  <2> QED
    BY <1>4, <2>1 DEF FolFirst
<1>8. ASSUME NEW new \in [M!Runs -> FolRows], \A q \in M!Runs : new[q].status # "none" <=> stepRows[q].status # "none" \/ q = n
      PROVE  {q \in M!Runs : new[q].status # "none"} = FolFirst(k + 1)
  <2>1. {q \in M!Runs : new[q].status # "none"} = opened \cup {n}
    BY <1>8
  <2> QED
    BY <1>2, <1>7, <2>1
<1>9. k + 1 \in 0..Len(RunIds)
  BY <1>1, <1>4
<1> QED
  BY <1>6, <1>8, <1>9

\* What every step does to the rows.
FolMoved ==
  \A r \in M!Runs :
    /\ stepRows[r].status # "none" => stepRows'[r].status # "none" /\ stepRows'[r].of = stepRows[r].of
    /\ stepRows[r].status \notin {"none", "running"} =>
         stepRows'[r].status # "running" /\ stepRows'[r].form = stepRows[r].form
    /\ stepRows[r].status = "resumed" => stepRows'[r].status = "resumed"

LEMMA FolOthers ==
  ASSUME FolInv, FolMoved, UNCHANGED stepsSent, NEW c \in Followers, followers'[c] = followers[c]
  PROVE  FolAt(c, followers[c])'
<1>1. FolAt(c, followers[c])
  BY DEF FolInv, FolClients
<1>2. \A x \in stepsSent : x.run \in M!Runs
  BY DEF FolInv, FolSent
<1>3. followers[c].result \in FolOver => stepRows[followers[c].run].status # "none"
  BY <1>1 DEF FolAt
<1>4. followers[c].pc \in {"wait", "parked"} \/ followers[c].result \in FolOver =>
        followers[c].run \in M!Runs /\ stepRows'[followers[c].run].of = stepRows[followers[c].run].of
  BY <1>1, <1>3 DEF FolAt, FolMoved
<1>5. followers[c].pc \notin {"start", "exit"} =>
        followers[c].run \in M!Runs /\ stepRows'[followers[c].run].status # "none"
  BY <1>1 DEF FolAt, FolMoved
<1>6. followers[c].pc \in {"collect", "submit"} =>
        stepRows'[followers[c].run].status # "running" /\ stepRows'[followers[c].run].form = followers[c].form
  BY <1>1 DEF FolAt, FolMoved
<1>7. followers[c].result \in FolOver => stepRows'[followers[c].run].status \notin {"none", "running"}
  BY <1>1, <1>4 DEF FolAt, FolMoved
<1> QED
  BY <1>1, <1>4, <1>5, <1>6, <1>7 DEF FolAt, FolAgreed

LEMMA FolStaysSent ==
  ASSUME FolInv, FolMoved, UNCHANGED stepsSent,
         \A c \in Followers : followers'[c].tty = followers[c].tty /\ followers'[c].batch = followers[c].batch
  PROVE  FolSent'
<1>1. \A x \in stepsSent : stepRows'[x.run].form = stepRows[x.run].form /\ stepRows'[x.run].status = "resumed"
  BY DEF FolInv, FolSent, FolMoved
<1>2. \A x \in stepsSent : x.by \in Followers => (M!nonInteractive(x.by))' = M!nonInteractive(x.by)
  BY DEF M!nonInteractive
<1> QED
  BY <1>1, <1>2 DEF FolInv, FolSent

\* A step of a command alone.
LEMMA FolCommand ==
  ASSUME FolInv, NEW c \in Followers, NEW k \in FolCommands, followers' = [followers EXCEPT ![c] = k],
         k.tty = followers[c].tty, k.batch = followers[c].batch, FolAt(c, k),
         UNCHANGED <<stepRows, isDaemon, stepsSent>>
  PROVE  FolInv'
<1>1. FolMoved
  BY DEF FolMoved
<1>2. followers' \in [Followers -> FolCommands] /\ followers'[c] = k /\ \A e \in Followers \ {c} : followers'[e] = followers[e]
  BY DEF FolInv, FolTyped
<1>3. FolTyped' /\ FolOrder' /\ FolOnce'
  BY <1>2 DEF FolInv, FolTyped, FolOrder, FolOnce
<1>4. FolSent'
  <2>1. \A e \in Followers : followers'[e].tty = followers[e].tty /\ followers'[e].batch = followers[e].batch
    BY <1>2
  <2> QED
    BY <1>1, <2>1, FolStaysSent
<1>5. FolAt(c, k)'
  BY DEF FolAt
<1>6. FolClients'
  <2> SUFFICES ASSUME NEW e \in Followers PROVE FolAt(e, followers[e])'
    BY DEF FolClients
  <2>1. CASE e = c
    BY <1>2, <1>5, <2>1
  <2>2. CASE e # c
    BY <1>1, <1>2, <2>2, FolOthers
  <2> QED
    BY <2>1, <2>2
<1> QED
  BY <1>3, <1>4, <1>6 DEF FolInv

\* A step of the daemon alone, that makes no continuation.
LEMMA FolDaemon ==
  ASSUME FolInv, stepRows' \in [M!Runs -> FolRows], FolMoved, FolOrder',
         \A r \in M!Runs : stepRows'[r].of = stepRows[r].of,
         \A r \in M!Runs : stepRows'[r].status = "none" => stepRows[r].status = "none",
         \A r \in M!Runs : stepRows[r].of # None => stepRows'[r].input = stepRows[r].input,
         UNCHANGED <<isDaemon, stepsSent>>, followers' \in [Followers -> FolCommands],
         \A e \in Followers : followers'[e].tty = followers[e].tty /\ followers'[e].batch = followers[e].batch,
         \A e \in Followers : followers'[e] = followers[e] \/ FolAt(e, followers[e])'
  PROVE  FolInv'
<1>1. FolTyped'
  BY DEF FolInv, FolTyped
<1>2. FolOnce'
  <2>1. \A r \in M!Runs : stepRows[r].status = "resumed" => stepRows'[r].status = "resumed" /\ stepRows'[r].form = stepRows[r].form
    BY DEF FolMoved
  <2>2. None \notin M!Runs
    BY DEF FolInv, FolTyped, FolConstants
  <2> QED
    BY <2>1, <2>2 DEF FolInv, FolOnce
<1>3. FolSent'
  BY FolStaysSent
<1>4. FolClients'
  BY FolOthers DEF FolClients
<1> QED
  BY <1>1, <1>2, <1>3, <1>4 DEF FolInv

\* A run is resumed: it gets its one continuation.
LEMMA FolResumed ==
  ASSUME FolInv, NEW r \in M!Runs, NEW n \in M!Runs, NEW input \in SUBSET FolFields, M!handleResume(r, n, input)
  PROVE  /\ stepRows[r].status = "suspended" /\ stepRows[n].status = "none" /\ FolMoved
         /\ stepRows' \in [M!Runs -> FolRows] /\ FolOrder' /\ FolOnce'
         /\ stepRows'[r].status = "resumed" /\ stepRows'[r].form = stepRows[r].form
         /\ stepRows'[n].of = r /\ stepRows'[n].status = "running"
<1> USE DEF FolInv
<1> DEFINE row == [M!NoRun EXCEPT !.status = "running", !.of = r, !.input = input]
<1>1. /\ stepRows[r].status = "suspended" /\ M!Valid(stepRows[r].form, input) /\ M!Fresh(n)
      /\ stepRows' = [[stepRows EXCEPT ![n] = row] EXCEPT ![r].status = "resumed"]
  BY DEF M!handleResume, M!Accepts, M!ResumeRun, M!Started
<1>2. stepRows[n].status = "none" /\ n # r
  BY <1>1, FolFresh
<1>3. row \in FolRows /\ row.status = "running" /\ row.of = r /\ row.input = input
  BY FolForm DEF M!NoRun, FolRows
<1> HIDE DEF row
<1>4. /\ stepRows' \in [M!Runs -> FolRows] /\ stepRows'[n] = row
      /\ stepRows'[r].status = "resumed" /\ stepRows'[r].form = stepRows[r].form
      /\ stepRows'[r].of = stepRows[r].of /\ stepRows'[r].input = stepRows[r].input
      /\ \A q \in M!Runs \ {r, n} : stepRows'[q] = stepRows[q]
  BY <1>1, <1>2, <1>3 DEF FolTyped, FolRows
<1>5. FolMoved
  BY <1>1, <1>2, <1>3, <1>4 DEF FolMoved
<1>6. FolOrder'
  <2>1. \A q \in M!Runs : stepRows'[q].status # "none" <=> stepRows[q].status # "none" \/ q = n
    BY <1>1, <1>2, <1>3, <1>4
  <2>2. M!Fresh(n) /\ stepRows' \in [M!Runs -> FolRows]
    BY <1>1, <1>4
  <2>3. \E m \in 0..Len(RunIds) : {q \in M!Runs : stepRows'[q].status # "none"} = FolFirst(m)
    BY <2>1, <2>2, FolFresh
  <2> QED
    BY <2>3 DEF FolOrder
<1>7. FolOnce'
  <2>1. \A q \in M!Runs : stepRows[q].of # r
    BY <1>1 DEF FolOnce
  <2>2. \A q \in M!Runs : q # n => stepRows'[q].of = stepRows[q].of /\ stepRows'[q].input = stepRows[q].input
    BY <1>4
  <2>3. \A q \in M!Runs : stepRows[q].status = "resumed" => stepRows'[q] = stepRows[q]
    BY <1>1, <1>2, <1>4
  <2>4. stepRows[n].of = None /\ None \notin M!Runs
    BY <1>2 DEF FolOnce, FolTyped, FolConstants
  <2>5. \A q \in M!Runs : stepRows'[q].status = "none" => stepRows'[q].of = None
    BY <1>1, <1>2, <1>3, <1>4 DEF FolOnce
  <2>6. \A q, p \in M!Runs :
          stepRows'[q].of = p => stepRows'[p].status = "resumed" /\ M!Valid(stepRows'[p].form, stepRows'[q].input)
    <3> SUFFICES ASSUME NEW q \in M!Runs, NEW p \in M!Runs, stepRows'[q].of = p
                 PROVE  stepRows'[p].status = "resumed" /\ M!Valid(stepRows'[p].form, stepRows'[q].input)
      OBVIOUS
    <3>1. CASE q = n
      BY <1>1, <1>3, <1>4, <3>1
    <3>2. CASE q # n
      BY <2>2, <2>3, <3>2 DEF FolOnce
    <3> QED
      BY <3>1, <3>2
  <2>7. \A q, p \in M!Runs : stepRows'[q].of = stepRows'[p].of /\ stepRows'[q].of # None => q = p
    BY <1>3, <1>4, <2>1, <2>2 DEF FolOnce
  <2> QED
    BY <2>5, <2>6, <2>7 DEF FolOnce
<1> QED
  BY <1>1, <1>2, <1>3, <1>4, <1>5, <1>6, <1>7

\* A command that ends without having waited for its run.
LEMMA FolEnd ==
  ASSUME FolInv, NEW c \in Followers, NEW how \in {"shown", "error", "one-shot", "daemon"}
  PROVE  /\ M!End(c, how) \in FolCommands /\ FolAt(c, M!End(c, how))
         /\ M!End(c, how).tty = followers[c].tty /\ M!End(c, how).batch = followers[c].batch
<1>1. /\ M!End(c, how) \in FolCommands /\ M!End(c, how).pc = "exit" /\ M!End(c, how).result = how
      /\ M!End(c, how).pool = followers[c].pool
      /\ M!End(c, how).tty = followers[c].tty /\ M!End(c, how).batch = followers[c].batch
  BY DEF FolInv, FolTyped, FolCommands, M!End
<1>2. \A x \in stepsSent : x.by = c => x.pre \cap followers[c].pool = {}
  BY DEF FolInv, FolClients, FolAt
<1>3. FolAt(c, M!End(c, how))
  <2> DEFINE k == M!End(c, how)
  <2>1. k.pc = "exit" /\ k.result \notin FolOver /\ k.pool = followers[c].pool
    BY <1>1 DEF FolOver
  <2> HIDE DEF k
  <2>2. FolAt(c, k)
    BY <1>2, <2>1 DEF FolAt
  <2> QED
    BY <2>2 DEF k
<1> QED
  BY <1>1, <1>3

LEMMA FolReload == ASSUME FolInv, M!Reload PROVE FolInv'
<1>1. UNCHANGED <<stepRows, followers, stepsSent>> /\ isDaemon' \in BOOLEAN
  BY DEF FolInv, FolTyped, M!Reload
<1>2. FolMoved
  BY <1>1 DEF FolMoved
<1>3. FolSent'
  BY <1>1, <1>2, FolStaysSent
<1> QED
  BY <1>1, <1>2, <1>3, FolOthers DEF FolInv, FolTyped, FolOrder, FolOnce, FolClients

LEMMA FolBody == ASSUME NEW r \in M!Runs, FolInv, M!Body(r) \/ M!Cancelled(r) PROVE FolInv'
<1> USE DEF FolInv
<1>1. /\ stepRows[r].status \in {"running", "suspended"} /\ UNCHANGED <<isDaemon, followers, stepsSent>>
      /\ \/ \E f \in Forms : stepRows[r].status = "running" /\ stepRows' = [stepRows EXCEPT ![r].status = "suspended", ![r].form = f]
         \/ \E s \in {"success", "failure", "cancelled"} : stepRows' = [stepRows EXCEPT ![r].status = s]
  BY DEF M!Body, M!Cancelled
<1>2. /\ stepRows' \in [M!Runs -> FolRows] /\ \A q \in M!Runs \ {r} : stepRows'[q] = stepRows[q]
      /\ stepRows'[r].of = stepRows[r].of /\ stepRows'[r].input = stepRows[r].input
      /\ stepRows'[r].status \notin {"none", "running"}
      /\ stepRows[r].status = "suspended" => stepRows'[r].form = stepRows[r].form
  <2>1. stepRows[r] \in FolRows
    BY DEF FolTyped
  <2>2. CASE \E f \in Forms : stepRows[r].status = "running" /\ stepRows' = [stepRows EXCEPT ![r].status = "suspended", ![r].form = f]
    <3>1. PICK f \in Forms : stepRows[r].status = "running" /\ stepRows' = [stepRows EXCEPT ![r].status = "suspended", ![r].form = f]
      BY <2>2
    <3>2. f \in FolForms
      BY DEF FolForms
    <3>3. PICK row : row = [stepRows[r] EXCEPT !.status = "suspended", !.form = f]
      OBVIOUS
    <3>4. row \in FolRows /\ row.of = stepRows[r].of /\ row.input = stepRows[r].input /\ row.status = "suspended"
      BY <2>1, <3>2, <3>3 DEF FolRows
    <3>5. stepRows' = [stepRows EXCEPT ![r] = row]
      BY <2>1, <3>1, <3>3 DEF FolTyped, FolRows
    <3> QED
      BY <3>1, <3>4, <3>5 DEF FolTyped
  <2>3. CASE \E s \in {"success", "failure", "cancelled"} : stepRows' = [stepRows EXCEPT ![r].status = s]
    BY <2>1, <2>3 DEF FolTyped, FolRows
  <2> QED
    BY <1>1, <2>2, <2>3
<1>3. FolMoved
  BY <1>1, <1>2 DEF FolMoved
<1>4. FolOrder'
  <2>1. {q \in M!Runs : stepRows'[q].status # "none"} = {q \in M!Runs : stepRows[q].status # "none"}
    BY <1>1, <1>2
  <2> QED
    BY <2>1 DEF FolOrder
<1> QED
  BY <1>1, <1>2, <1>3, <1>4, FolDaemon DEF FolTyped

LEMMA FolOtherResume == ASSUME NEW r \in M!Runs, NEW n \in M!Runs, FolInv, M!OtherResume(r, n) PROVE FolInv'
<1> USE DEF FolInv
<1>1. PICK f \in SUBSET stepRows[r].form.fields : M!handleResume(r, n, f) /\ UNCHANGED <<isDaemon, followers, stepsSent>>
  BY DEF M!OtherResume
<1>2. f \in SUBSET FolFields
  BY DEF FolTyped, FolRows, FolFields
<1>3. FolMoved /\ stepRows' \in [M!Runs -> FolRows] /\ FolOrder' /\ FolOnce'
  BY <1>1, <1>2, FolResumed
<1>4. FolSent'
  BY <1>1, <1>3, FolStaysSent
<1> QED
  BY <1>1, <1>3, <1>4, FolOthers DEF FolTyped, FolClients

LEMMA FolRun == ASSUME NEW c \in Followers, NEW r \in M!Runs, FolInv, M!Run(c, r) PROVE FolInv'
<1> USE DEF FolInv
<1>0. PICK k : k = [followers[c] EXCEPT !.pc = "settle", !.run = r]
  OBVIOUS
<1> DEFINE row == [M!NoRun EXCEPT !.status = "running", !.of = None, !.input = {}]
<1>1. /\ followers[c].pc = "start" /\ followers' = [followers EXCEPT ![c] = k] /\ M!Fresh(r)
      /\ stepRows' = [stepRows EXCEPT ![r] = row] /\ UNCHANGED <<isDaemon, stepsSent>>
  BY <1>0 DEF M!Run, M!Step, M!Started
<1>2. row \in FolRows /\ row.status = "running" /\ row.of = None
  BY FolForm DEF M!NoRun, FolRows
<1>3. /\ k \in FolCommands /\ k.pc = "settle" /\ k.run = r /\ k.pool = followers[c].pool /\ k.result = followers[c].result
      /\ k.tty = followers[c].tty /\ k.batch = followers[c].batch
  BY <1>0 DEF FolTyped, FolCommands
<1> HIDE DEF row
<1>4. stepRows[r].status = "none" /\ stepRows[r].of = None
  BY <1>1, FolFresh DEF FolOnce
<1>5. /\ stepRows' \in [M!Runs -> FolRows] /\ stepRows'[r] = row /\ \A q \in M!Runs \ {r} : stepRows'[q] = stepRows[q]
  BY <1>1, <1>2 DEF FolTyped
<1>6. FolMoved
  BY <1>4, <1>5 DEF FolMoved
<1>7. FolOrder'
  <2>1. \A q \in M!Runs : stepRows'[q].status # "none" <=> stepRows[q].status # "none" \/ q = r
    BY <1>2, <1>4, <1>5
  <2> QED
    BY <1>1, <1>5, <2>1, FolFresh DEF FolOrder
<1>8. followers[c].result = None /\ \A x \in stepsSent : x.by = c => x.pre \cap followers[c].pool = {}
  BY <1>1 DEF FolClients, FolAt
<1>9. FolAt(c, k)'
  <2>1. None \notin FolOver
    BY DEF FolTyped, FolConstants, FolOver
  <2> QED
    BY <1>1, <1>2, <1>3, <1>5, <1>8, <2>1 DEF FolAt
<1>10. followers' \in [Followers -> FolCommands] /\ followers'[c] = k /\ \A e \in Followers \ {c} : followers'[e] = followers[e]
  BY <1>1, <1>3 DEF FolTyped
<1>11. \A e \in Followers : followers'[e] = followers[e] \/ FolAt(e, followers[e])'
  BY <1>9, <1>10
<1>12. \A e \in Followers : followers'[e].tty = followers[e].tty /\ followers'[e].batch = followers[e].batch
  BY <1>3, <1>10
<1> QED
  BY <1>1, <1>2, <1>4, <1>5, <1>6, <1>7, <1>10, <1>11, <1>12, FolDaemon

LEMMA FolInterrupt == ASSUME NEW c \in Followers, FolInv, M!Interrupt(c) PROVE FolInv'
<1> USE DEF FolInv
<1>0. PICK k : k = M!End(c, "interrupted")
  OBVIOUS
<1> DEFINE r == followers[c].run
<1>1. /\ followers[c].pc \in {"wait", "parked"} /\ followers' = [followers EXCEPT ![c] = k]
      /\ stepRows' = IF stepRows[r].status = "running" THEN [stepRows EXCEPT ![r].status = "cancelled"] ELSE stepRows
      /\ UNCHANGED <<isDaemon, stepsSent>>
  BY <1>0 DEF M!Interrupt, M!Killed
<1>2. /\ k \in FolCommands /\ k.pc = "exit" /\ k.run = r /\ k.pool = followers[c].pool /\ k.result = "interrupted"
      /\ k.tty = followers[c].tty /\ k.batch = followers[c].batch
  BY <1>0 DEF FolTyped, FolCommands, FolOver, M!End
<1>3. /\ r \in M!Runs /\ stepRows[r].status # "none" /\ \E x \in stepsSent : x.by = c /\ x.run = stepRows[r].of
      /\ \A x \in stepsSent : x.by = c => x.pre \cap followers[c].pool = {}
  BY <1>1 DEF FolClients, FolAt
<1>4. /\ stepRows' \in [M!Runs -> FolRows] /\ \A q \in M!Runs \ {r} : stepRows'[q] = stepRows[q]
      /\ stepRows'[r].of = stepRows[r].of /\ stepRows'[r].input = stepRows[r].input /\ stepRows'[r].form = stepRows[r].form
      /\ stepRows'[r].status = IF stepRows[r].status = "running" THEN "cancelled" ELSE stepRows[r].status
  <2>1. stepRows[r] \in FolRows
    BY <1>3 DEF FolTyped
  <2> QED
    BY <1>1, <1>3, <2>1 DEF FolTyped, FolRows
<1>5. FolMoved
  BY <1>3, <1>4 DEF FolMoved
<1>6. FolOrder'
  <2>1. {q \in M!Runs : stepRows'[q].status # "none"} = {q \in M!Runs : stepRows[q].status # "none"}
    BY <1>3, <1>4
  <2> QED
    BY <2>1 DEF FolOrder
<1>7. FolAt(c, k)'
  BY <1>1, <1>2, <1>3, <1>4 DEF FolAt
<1>10. followers' \in [Followers -> FolCommands] /\ followers'[c] = k /\ \A e \in Followers \ {c} : followers'[e] = followers[e]
  BY <1>1, <1>2 DEF FolTyped
<1>11. \A e \in Followers : followers'[e] = followers[e] \/ FolAt(e, followers[e])'
  BY <1>7, <1>10
<1>12. \A e \in Followers : followers'[e].tty = followers[e].tty /\ followers'[e].batch = followers[e].batch
  BY <1>2, <1>10
<1>13. \A q \in M!Runs : stepRows'[q].of = stepRows[q].of /\ stepRows'[q].input = stepRows[q].input
  BY <1>4
<1>14. \A q \in M!Runs : stepRows'[q].status = "none" => stepRows[q].status = "none"
  BY <1>4
<1> QED
  BY <1>1, <1>4, <1>5, <1>6, <1>10, <1>11, <1>12, <1>13, <1>14, FolDaemon

LEMMA FolOneShot == ASSUME NEW c \in Followers, FolInv, M!OneShot(c) PROVE FolInv'
<1> USE DEF FolInv
<1>1. PICK r \in M!Runs :
        /\ \/ \E n \in M!Runs, f \in SUBSET stepRows[r].form.fields :
                M!handleResume(r, n, f) /\ followers' = [followers EXCEPT ![c] = [M!End(c, "one-shot") EXCEPT !.run = r]]
           \/ followers' = [followers EXCEPT ![c] = M!End(c, "error")] /\ UNCHANGED stepRows
        /\ UNCHANGED <<isDaemon, stepsSent>>
  BY DEF M!OneShot
<1>2. CASE followers' = [followers EXCEPT ![c] = M!End(c, "error")] /\ UNCHANGED stepRows
  BY <1>1, <1>2, FolEnd, FolCommand
<1>3. ASSUME NEW n \in M!Runs, NEW f \in SUBSET stepRows[r].form.fields, M!handleResume(r, n, f),
             followers' = [followers EXCEPT ![c] = [M!End(c, "one-shot") EXCEPT !.run = r]]
      PROVE  FolInv'
  <2>1. f \in SUBSET FolFields
    BY DEF FolTyped, FolRows, FolFields
  <2>2. FolMoved /\ stepRows' \in [M!Runs -> FolRows] /\ FolOrder' /\ FolOnce'
    BY <1>3, <2>1, FolResumed
  <2>3. PICK k : k = [M!End(c, "one-shot") EXCEPT !.run = r]
    OBVIOUS
  <2>4. k \in FolCommands /\ k.pc = "exit" /\ k.result = "one-shot" /\ k.pool = followers[c].pool
        /\ k.tty = followers[c].tty /\ k.batch = followers[c].batch
    BY <2>3 DEF FolTyped, FolCommands, M!End
  <2>5. followers' \in [Followers -> FolCommands] /\ followers'[c] = k /\ \A e \in Followers \ {c} : followers'[e] = followers[e]
    BY <1>3, <2>3, <2>4 DEF FolTyped
  <2>6. FolSent'
    <3>1. \A e \in Followers : followers'[e].tty = followers[e].tty /\ followers'[e].batch = followers[e].batch
      BY <2>4, <2>5
    <3> QED
      BY <1>1, <2>2, <3>1, FolStaysSent
  <2>7. FolAt(c, k)'
    <3>1. \A x \in stepsSent : x.by = c => x.pre \cap followers[c].pool = {}
      BY DEF FolClients, FolAt
    <3> QED
      BY <1>1, <2>4, <3>1 DEF FolAt, FolOver
  <2> QED
    BY <1>1, <2>2, <2>5, <2>6, <2>7, FolOthers DEF FolTyped, FolClients
<1> QED
  BY <1>1, <1>2, <1>3

LEMMA FolSubmitInput == ASSUME NEW c \in Followers, NEW n \in M!Runs, FolInv, M!SubmitInput(c, n) PROVE FolInv'
<1> USE DEF FolInv
<1> DEFINE r == followers[c].run
<1>0. PICK k, x : /\ k = IF followers[c].daemon THEN [M!End(c, "daemon") EXCEPT !.run = n]
                         ELSE [followers[c] EXCEPT !.pc = "wait", !.run = n]
                  /\ x = [by |-> c, run |-> r, pre |-> followers[c].pre, asked |-> followers[c].asked]
  OBVIOUS
<1>1. /\ followers[c].pc = "submit" /\ followers' = [followers EXCEPT ![c] = k] /\ M!handleResume(r, n, followers[c].input)
      /\ stepsSent' = stepsSent \cup {x} /\ UNCHANGED isDaemon
  BY <1>0 DEF M!SubmitInput, M!Step
<1>2. r \in M!Runs /\ followers[c] \in FolCommands /\ FolAt(c, followers[c])
  BY <1>1 DEF FolClients, FolAt, FolTyped
<1>3. /\ followers[c].pre \cap followers[c].pool = {} /\ FolAgreed(followers[c], followers[c].form)
      /\ \A y \in stepsSent : y.by = c => y.pre \cap followers[c].pre = {} /\ y.pre \cap followers[c].pool = {}
      /\ stepRows[r].form = followers[c].form /\ followers[c].result = None
  BY <1>1, <1>2 DEF FolAt
<1>4. /\ k \in FolCommands /\ k.run = n /\ k.pool = followers[c].pool /\ k.tty = followers[c].tty /\ k.batch = followers[c].batch
      /\ \/ k.pc = "wait" /\ k.result = None
         \/ k.pc = "exit" /\ k.result = "daemon"
  BY <1>0, <1>2, <1>3 DEF FolCommands, M!End
<1>5. /\ FolMoved /\ stepRows' \in [M!Runs -> FolRows] /\ FolOrder' /\ FolOnce'
      /\ stepRows[r].status = "suspended" /\ stepRows'[r].status = "resumed" /\ stepRows'[r].form = stepRows[r].form
      /\ stepRows'[n].of = r /\ stepRows'[n].status = "running"
  BY <1>1, <1>2, FolResumed DEF FolCommands
<1>6. followers' \in [Followers -> FolCommands] /\ followers'[c] = k /\ \A e \in Followers \ {c} : followers'[e] = followers[e]
  BY <1>1, <1>4 DEF FolTyped
<1>7. x.by = c /\ x.run = r /\ x.pre = followers[c].pre /\ x.asked = followers[c].asked
  BY <1>0
<1>8. FolSent'
  <2>1. \A y \in stepsSent' : y.by \in Followers /\ y.run \in M!Runs /\ stepRows'[y.run].status = "resumed"
    BY <1>1, <1>2, <1>5, <1>7 DEF FolSent, FolMoved
  <2>2. \A e \in Followers : (M!nonInteractive(e))' <=> M!nonInteractive(e)
    BY <1>4, <1>6 DEF M!nonInteractive
  <2>3. ASSUME NEW y \in stepsSent', ~(M!nonInteractive(y.by))'
        PROVE  y.asked \/ (y.pre # {} /\ y.pre = stepRows'[y.run].form.fields)
    <3>1. CASE y = x
      BY <1>2, <1>3, <1>5, <1>7, <2>2, <2>3, <3>1 DEF FolAgreed, M!nonInteractive
    <3>2. CASE y \in stepsSent
      <4>1. stepRows'[y.run].form = stepRows[y.run].form
        BY <1>5, <3>2 DEF FolSent, FolMoved
      <4> QED
        BY <2>1, <2>2, <2>3, <3>2, <4>1 DEF FolSent
    <3> QED
      BY <1>1, <3>1, <3>2
  <2>4. \A y, z \in stepsSent' : y.by = z.by /\ y.pre \cap z.pre # {} => y = z
    BY <1>1, <1>3, <1>7 DEF FolSent
  <2> QED
    BY <2>1, <2>3, <2>4 DEF FolSent
<1>9. FolAt(c, k)'
  <2>1. None \notin FolOver
    BY DEF FolTyped, FolConstants, FolOver
  <2>2. \A y \in stepsSent' : y.by = c => y.pre \cap k.pool = {}
    BY <1>1, <1>3, <1>4, <1>7
  <2>3. \E y \in stepsSent' : y.by = c /\ y.run = stepRows'[n].of
    BY <1>1, <1>5, <1>7
  <2> QED
    BY <1>4, <1>5, <2>1, <2>2, <2>3 DEF FolAt, FolOver
<1>10. ASSUME NEW e \in Followers, e # c PROVE FolAt(e, followers[e])'
  <2>1. followers'[e] = followers[e] /\ FolAt(e, followers[e])
    BY <1>6, <1>10 DEF FolClients
  <2>2. FolAt(e, followers'[e]) <=> FolAt(e, followers[e])
    BY <2>1
  <2> DEFINE w == followers[e]
  <2>3. \A y \in stepsSent' : y.by = e => y \in stepsSent
    BY <1>1, <1>7, <1>10
  <2>4. w.pc \in {"wait", "parked"} \/ w.result \in FolOver =>
          w.run \in M!Runs /\ stepRows[w.run].status # "none" /\ stepRows'[w.run].of = stepRows[w.run].of
    BY <1>5, <2>1 DEF FolAt, FolMoved
  <2>5. w.pc \notin {"start", "exit"} => w.run \in M!Runs /\ stepRows'[w.run].status # "none"
    BY <1>5, <2>1 DEF FolAt, FolMoved
  <2>6. w.pc \in {"collect", "submit"} => stepRows'[w.run].status # "running" /\ stepRows'[w.run].form = w.form
    BY <1>5, <2>1 DEF FolAt, FolMoved
  <2>7. w.result \in FolOver => stepRows'[w.run].status \notin {"none", "running"}
    BY <1>5, <2>1, <2>4 DEF FolAt, FolMoved
  <2> QED
    BY <1>1, <2>1, <2>3, <2>4, <2>5, <2>6, <2>7 DEF FolAt, FolAgreed
<1> QED
  BY <1>1, <1>5, <1>6, <1>8, <1>9, <1>10 DEF FolTyped, FolClients

LEMMA FolAlone ==
  ASSUME NEW c \in Followers, FolInv,
         M!Settled(c) \/ M!Resume(c) \/ M!ResumeGet(c) \/ M!SubmitRefused(c) \/ M!HandleRunWait(c) \/ M!Waited(c)
  PROVE  FolInv'
<1> USE DEF FolInv
<1> DEFINE r == followers[c].run
<1>0. FolAt(c, followers[c]) /\ followers[c] \in FolCommands /\ None \notin FolOver /\ stepRows \in [M!Runs -> FolRows]
  BY DEF FolClients, FolTyped, FolConstants, FolOver
<1>1. UNCHANGED <<stepRows, isDaemon, stepsSent>>
  BY DEF M!Settled, M!Resume, M!ResumeGet, M!SubmitRefused, M!HandleRunWait, M!Waited
<1>2. ASSUME NEW how \in {"shown", "error"}, followers' = [followers EXCEPT ![c] = M!End(c, how)] PROVE FolInv'
  BY <1>1, <1>2, FolEnd, FolCommand
<1>3. CASE M!SubmitRefused(c)
  BY <1>2, <1>3 DEF M!SubmitRefused, M!Step
<1>4. CASE M!Settled(c)
  <2>1. CASE followers' = [followers EXCEPT ![c] = M!End(c, "shown")]
    BY <1>2, <2>1
  <2>2. PICK k : k = [followers[c] EXCEPT !.pc = "get"]
    OBVIOUS
  <2>3. k \in FolCommands /\ FolAt(c, k) /\ k.tty = followers[c].tty /\ k.batch = followers[c].batch
    BY <1>0, <1>4, <2>2 DEF FolCommands, FolAt, M!Settled
  <2>4. CASE followers' = [followers EXCEPT ![c] = k]
    BY <1>1, <2>3, <2>4, FolCommand
  <2> QED
    BY <1>4, <2>1, <2>2, <2>4 DEF M!Settled, M!Step
<1>5. CASE M!Resume(c)
  <2>1. PICK q \in M!Runs : stepRows[q].status # "none" /\ followers[c].pc = "start"
          /\ followers' = [followers EXCEPT ![c] = [followers[c] EXCEPT !.pc = "get", !.run = q]]
    BY <1>5 DEF M!Resume, M!Step
  <2>2. PICK k : k = [followers[c] EXCEPT !.pc = "get", !.run = q]
    OBVIOUS
  <2>3. k \in FolCommands /\ FolAt(c, k) /\ k.tty = followers[c].tty /\ k.batch = followers[c].batch
    BY <1>0, <2>1, <2>2 DEF FolCommands, FolAt
  <2> QED
    BY <1>1, <2>1, <2>2, <2>3, FolCommand
<1>6. CASE M!ResumeGet(c)
  <2>1. CASE followers' = [followers EXCEPT ![c] = M!End(c, "error")]
    BY <1>2, <2>1
  <2>2. PICK k : k = [followers[c] EXCEPT !.pc = "collect", !.form = stepRows[r].form, !.daemon = isDaemon]
    OBVIOUS
  <2>3. CASE stepRows[r].status = "suspended" /\ followers[c].pc = "get" /\ followers' = [followers EXCEPT ![c] = k]
    <3>1. r \in M!Runs /\ isDaemon \in BOOLEAN /\ stepRows[r].form \in FolForms
      BY <1>0, <2>3 DEF FolAt, FolTyped, FolRows
    <3>2. k \in FolCommands /\ k.tty = followers[c].tty /\ k.batch = followers[c].batch /\ k.pc = "collect" /\ k.run = r
          /\ k.form = stepRows[r].form /\ k.pool = followers[c].pool /\ k.result = followers[c].result
      BY <1>0, <2>2, <3>1 DEF FolCommands
    <3>3. FolAt(c, k)
      BY <1>0, <2>3, <3>1, <3>2 DEF FolAt
    <3> QED
      BY <1>1, <2>3, <3>2, <3>3, FolCommand
  <2> QED
    BY <1>6, <2>1, <2>2, <2>3 DEF M!ResumeGet, M!Step
<1>7. CASE M!HandleRunWait(c)
  <2>1. CASE followers' = [followers EXCEPT ![c] = M!End(c, "shown")]
    BY <1>2, <2>1
  <2>2. PICK k : k = [followers[c] EXCEPT !.pc = "parked"]
    OBVIOUS
  <2>3. k \in FolCommands /\ FolAt(c, k) /\ k.tty = followers[c].tty /\ k.batch = followers[c].batch
    BY <1>0, <1>7, <2>2 DEF FolCommands, FolAt, M!HandleRunWait, M!Step
  <2>4. CASE followers' = [followers EXCEPT ![c] = k]
    BY <1>1, <2>3, <2>4, FolCommand
  <2> QED
    BY <1>7, <2>1, <2>2, <2>4 DEF M!HandleRunWait, M!Step
<1>8. CASE M!Waited(c)
  <2>1. PICK k : k = IF stepRows[r].status = "suspended" THEN [followers[c] EXCEPT !.pc = "get"]
                     ELSE M!End(c, IF stepRows[r].status = "failure" THEN "failure" ELSE "ended")
    OBVIOUS
  <2>2. followers[c].pc = "parked" /\ stepRows[r].status # "running" /\ followers' = [followers EXCEPT ![c] = k]
    BY <1>8, <2>1 DEF M!Waited, M!Step
  <2>3. k \in FolCommands /\ k.tty = followers[c].tty /\ k.batch = followers[c].batch /\ k.run = r /\ k.pool = followers[c].pool
        /\ \/ k.pc = "get" /\ k.result = followers[c].result
           \/ k.pc = "exit" /\ k.result \in FolOver
    BY <1>0, <2>1 DEF FolCommands, FolOver, M!End
  <2>4. FolAt(c, k)
    BY <1>0, <2>2, <2>3 DEF FolAt
  <2> QED
    BY <1>1, <2>2, <2>3, <2>4, FolCommand
<1> QED
  BY <1>3, <1>4, <1>5, <1>6, <1>7, <1>8

LEMMA FolCollect == ASSUME NEW c \in Followers, FolInv, M!Collect(c) PROVE FolInv'
<1> USE DEF FolInv
<1> DEFINE form == followers[c].form
           taken == followers[c].pool \cap form.fields
<1>0. FolAt(c, followers[c]) /\ followers[c] \in FolCommands /\ None \notin FolOver
  BY DEF FolClients, FolTyped, FolConstants, FolOver
<1>1. UNCHANGED <<stepRows, isDaemon, stepsSent>> /\ followers[c].pc = "collect"
  BY DEF M!Collect, M!Step
<1>2. ASSUME NEW how \in {"shown", "error"}, followers' = [followers EXCEPT ![c] = M!End(c, how)] PROVE FolInv'
  BY <1>1, <1>2, FolEnd, FolCommand
<1>3. ASSUME NEW input \in SUBSET form.fields, NEW asked \in BOOLEAN,
             M!nonInteractive(c) \/ asked \/ (taken # {} /\ taken = form.fields),
             followers' = [followers EXCEPT ![c] = M!Submit(c, input, asked)]
      PROVE  FolInv'
  <2>1. PICK k : k = M!Submit(c, input, asked)
    OBVIOUS
  <2>2. form \in FolForms /\ form.fields \subseteq FolFields
    BY <1>0 DEF FolCommands, FolFields
  <2>3. /\ k \in FolCommands /\ k.pc = "submit" /\ k.run = followers[c].run /\ k.form = form /\ k.pool = followers[c].pool \ form.fields
        /\ k.pre = taken /\ k.asked = asked /\ k.result = followers[c].result
        /\ k.tty = followers[c].tty /\ k.batch = followers[c].batch
    BY <1>0, <2>1, <2>2 DEF FolCommands, M!Submit, M!Take
  <2>4. FolAgreed(k, form)
    BY <1>3, <2>3 DEF FolAgreed, M!nonInteractive
  <2>5. k.pre \cap k.pool = {} /\ \A x \in stepsSent : x.by = c => x.pre \cap k.pre = {} /\ x.pre \cap k.pool = {}
    BY <1>0, <2>3 DEF FolAt
  <2>6. FolAt(c, k)
    BY <1>0, <1>1, <2>3, <2>4, <2>5 DEF FolAt
  <2> QED
    BY <1>1, <1>3, <2>1, <2>3, <2>6, FolCommand
<1> DEFINE Chosen(input, asked) == followers' = [followers EXCEPT ![c] = IF M!Valid(form, input) THEN M!Submit(c, input, asked) ELSE M!End(c, "error")]
<1>4. \/ (M!nonInteractive(c) \/ (taken # {} /\ taken = form.fields)) /\ Chosen(taken, FALSE)
      \/ followers' = [followers EXCEPT ![c] = M!End(c, "error")]
      \/ form.fields = {} /\ Chosen({}, TRUE)
      \/ followers' = [followers EXCEPT ![c] = M!End(c, "shown")]
      \/ \E f \in SUBSET (form.fields \ taken) : Chosen(taken \cup f, TRUE)
  BY DEF M!Collect, M!Step
<1>5. ASSUME NEW input \in SUBSET form.fields, NEW asked \in BOOLEAN,
             M!nonInteractive(c) \/ asked \/ (taken # {} /\ taken = form.fields), Chosen(input, asked)
      PROVE  FolInv'
  BY <1>2, <1>3, <1>5
<1> HIDE DEF Chosen
<1> QED
  BY <1>2, <1>4, <1>5


LEMMA FolNext == FolInv /\ [M!Next]_(M!vars) => FolInv'
<1> SUFFICES ASSUME FolInv, [M!Next]_(M!vars) PROVE FolInv'
  OBVIOUS
<1>1. CASE UNCHANGED M!vars
  <2>1. UNCHANGED <<stepRows, isDaemon, followers, stepsSent>>
    BY <1>1 DEF M!vars
  <2>2. FolMoved
    BY <2>1 DEF FolMoved
  <2> QED
    BY <2>1, <2>2, FolStaysSent, FolOthers DEF FolInv, FolTyped, FolOrder, FolOnce, FolClients
<1>2. CASE M!Reload
  BY <1>2, FolReload
<1>3. ASSUME NEW r \in M!Runs, M!Body(r) \/ M!Cancelled(r) \/ \E q \in M!Runs : M!OtherResume(r, q) PROVE FolInv'
  BY <1>3, FolBody, FolOtherResume
<1>4. ASSUME NEW c \in Followers,
             \/ M!Settled(c) \/ M!Resume(c) \/ M!OneShot(c) \/ M!ResumeGet(c) \/ M!Collect(c) \/ M!SubmitRefused(c)
             \/ M!HandleRunWait(c) \/ M!Waited(c) \/ M!Interrupt(c)
             \/ \E r \in M!Runs : M!Run(c, r) \/ M!SubmitInput(c, r)
      PROVE  FolInv'
  BY <1>4, FolOneShot, FolCollect, FolAlone, FolInterrupt, FolRun, FolSubmitInput
<1> QED
  BY <1>1, <1>2, <1>3, <1>4 DEF M!Next

LEMMA FolMeans == FolInv => M!TypeOK /\ M!ResumedOnce /\ M!ConsentIsGiven /\ M!FollowsItsOwn
<1> SUFFICES ASSUME FolInv PROVE M!TypeOK /\ M!ResumedOnce /\ M!ConsentIsGiven /\ M!FollowsItsOwn
  OBVIOUS
<1>1. M!TypeOK
  BY DEF FolInv, FolTyped, FolRows, FolCommands, M!TypeOK
<1>2. M!ResumedOnce
  <2> SUFFICES ASSUME NEW r \in M!Runs
               PROVE  /\ M!Cardinality(M!Continuations(r)) <= 1
                      /\ \A q \in M!Continuations(r) : stepRows[r].status = "resumed" /\ M!Valid(stepRows[r].form, stepRows[q].input)
    BY DEF M!ResumedOnce
  <2>1. r # None
    BY DEF FolInv, FolTyped, FolConstants
  <2>2. \A q, p \in M!Continuations(r) : q = p
    BY <2>1 DEF FolInv, FolOnce, M!Continuations
  <2>3. M!Continuations(r) = {} \/ \E q : M!Continuations(r) = {q}
    BY <2>2
  <2>4. Cardinality(M!Continuations(r)) <= 1
    <3>1. Cardinality({}) = 0 /\ \A q : Cardinality({q}) = 1
      BY FS_EmptySet, FS_Singleton
    <3>2. CASE M!Continuations(r) = {}
      BY <3>1, <3>2
    <3>3. ASSUME NEW q, M!Continuations(r) = {q} PROVE Cardinality(M!Continuations(r)) <= 1
      BY <3>1, <3>3
    <3> QED
      BY <2>3, <3>2, <3>3
  <2> QED
    BY <2>4, FolCardinality DEF FolInv, FolOnce, M!Continuations
<1>3. M!ConsentIsGiven
  BY DEF FolInv, FolSent, M!ConsentIsGiven
<1>4. M!FollowsItsOwn
  BY DEF FolInv, FolClients, FolAt, FolOver, M!FollowsItsOwn
<1> QED
  BY <1>1, <1>2, <1>3, <1>4

\* What handleResume and the follow loop promise: a run is resumed once and with a valid input, a
\* step is sent with consent, and a command shows the end of the run it resumed to.
THEOREM StepsAreFollowed ==
  FolConstants => (M!Spec => [](M!TypeOK /\ M!ResumedOnce /\ M!ConsentIsGiven /\ M!FollowsItsOwn))
  BY FolInit, FolNext, FolMeans, PTL DEF M!Spec
=============================================================================
