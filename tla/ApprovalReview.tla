---------------------------- MODULE ApprovalReview ----------------------------
(***************************************************************************)
(* What an operator sees before approving: the review surface of a pending *)
(* task (Gate.State, StateFor), the marks of what moved since the last     *)
(* approval, approve links, and approvals bound to the hash on the screen. *)
(* The gate itself, with crashes and removals, is ApprovalGate; here are   *)
(* the reconciler, the source's pushes and several operators.              *)
(*                                                                         *)
(* A file is its version, 0 if it is not there, and "yaml" is the task's   *)
(* own.  Left out: pipelines, hash_include, symlinks and large files, a    *)
(* trusted task, a task that cannot be hashed, daemon.go's preview, the    *)
(* expiry of links.                                                        *)
(***************************************************************************)
EXTENDS Naturals, Sequences, FiniteSets

CONSTANTS
  Viewers, Tokens,
  Files,       \* the files of the task, "yaml" among them
  Contents,    \* what a push or an edit may put there: [Files -> versions]
  SpecOf,      \* [<<version of yaml, override>> -> resolved spec]
  Overs,       \* overrides dicode.yaml may hold
  Literals,    \* values written inline
  None,
  MaxChanges, MaxAdmits, MaxViews  \* bounds: pushes and edits, passes of the gate, screens

VARIABLES
  trees,      \* the commits of the source, oldest first; the last is checked out
  over,       \* the override in force
  rec,        \* reconciler: where Admit is, the spec, hash, commit and base it has
  registered, \* the spec the registry holds, or None
  pending,    \* Gate.pending: the entry, or None
  lock,       \* the lock's record: hash and commit
  statuses,   \* generation -> fileStatusCache: what its first reader computed, or None
  tokens,     \* link -> the hash it was minted for, or None; whether it was redeemed
  view,       \* viewer -> what it reads and shows
  grants,     \* history: approvals, with what was shown for them
  armed, edits, asked

\* The files that are there.
Disk == trees[Len(trees)]

vars == <<trees, over, rec, registered, pending, lock, statuses, tokens, view,
          grants, armed, edits, asked>>

Idle == [pc |-> "idle", how |-> None, spec |-> None, hash |-> None, from |-> 0, to |-> 0, gen |-> 0,
         names |-> {}, marks |-> {}, token |-> None, ent |-> None]
Rest == [pc |-> "idle", spec |-> None, hash |-> None, commit |-> 0, gen |-> 0]

-----------------------------------------------------------------------------
(* What is shown, and what the hash covers *)

\* envDeclsOf: the name and where the value comes from; what is inline is not shown.
EnvDecl(e) ==
  [name |-> e.name, optional |-> e.optional, hasDefault |-> e.default # None,
   from |-> IF e.secret # None THEN <<"secret", e.secret>>
            ELSE IF e.ref # None THEN e.ref
            ELSE IF e.value # None THEN <<"literal">> ELSE <<"host", e.name>>]
ParamDecl(p) == [name |-> p.name, required |-> p.required, hasDefault |-> p.default # None]
\* An edge shows the names it forwards, a webhook whether it is signed.
TriggerDecl(t) ==
  [kind |-> t.kind, at |-> t.at, auth |-> t.auth, restart |-> t.restart, params |-> DOMAIN t.params,
   signed |-> t.key # None]
\* stateFromSpec.
Rendered(s) ==
  [name |-> s.name, image |-> s.image, envNames |-> DOMAIN s.boxEnv, net |-> s.net, timeout |-> s.timeout,
   env |-> {EnvDecl(e) : e \in s.env}, params |-> {ParamDecl(p) : p \in s.params},
   trigger |-> TriggerDecl(s.trigger)]

Redacted(x) == IF x = None THEN None ELSE "redacted"
ResolvedFault(s) ==
  [net |-> s.net, timeout |-> s.timeout, params |-> s.params,
   env |-> {[e EXCEPT !.value = Redacted(@), !.default = Redacted(@)] : e \in s.env},
   trigger |-> [s.trigger EXCEPT !.key = None, !.restart = None]]
\* resolvedFieldsOf, with sanitizePermissions: what an override may change, values left out.
Resolved(s) ==
  [net |-> s.net, timeout |-> s.timeout, params |-> s.params,
   env |-> {[e EXCEPT !.value = Redacted(@), !.default = Redacted(@)] : e \in s.env},
   trigger |-> [s.trigger EXCEPT !.key = None]]
\* ContentHash: those fields and the files of now.
ContentHash(s, files) == <<Resolved(s), files>>

Init ==
  /\ \E c \in Contents : trees = <<c>>
  /\ over \in Overs /\ rec = Rest /\ registered = None /\ pending = None
  \* The lock of an earlier daemon may hold it.
  /\ lock \in {[hash |-> None, commit |-> 0], [hash |-> ContentHash(SpecOf[<<Disk["yaml"], over>>], Disk), commit |-> 1]}
  /\ statuses = [g \in 1..MaxAdmits |-> None] /\ tokens = [t \in Tokens |-> [hash |-> None, used |-> FALSE]]
  /\ view = [v \in Viewers |-> Idle] /\ grants = {} /\ armed = None /\ edits = 0 /\ asked = 0

-----------------------------------------------------------------------------
(* The source, and Admit *)

Push ==
  /\ edits < MaxChanges /\ edits' = edits + 1
  /\ \E c \in Contents \ {Disk} : trees' = Append(trees, c)
  /\ UNCHANGED <<over, rec, registered, pending, lock, statuses, tokens, view, grants, armed, asked>>
\* dicode.yaml gets another override.
Override ==
  /\ edits < MaxChanges /\ edits' = edits + 1
  /\ \E o \in Overs \ {over} : over' = o
  /\ UNCHANGED <<trees, rec, registered, pending, lock, statuses, tokens, view, grants, armed, asked>>

\* The source loads the task and the reconciler registers it and asks the gate.
Load ==
  /\ rec.pc = "idle" /\ rec.gen < MaxAdmits
  /\ registered' = SpecOf[<<Disk["yaml"], over>>]
  /\ rec' = [rec EXCEPT !.pc = "hash", !.spec = SpecOf[<<Disk["yaml"], over>>], !.gen = @ + 1]
  /\ UNCHANGED <<trees, over, pending, lock, statuses, tokens, view, grants, armed, edits, asked>>
\* hashFn reads the directory again.
Hash ==
  /\ rec.pc = "hash"
  /\ rec' = [rec EXCEPT !.pc = "decide", !.hash = ContentHash(rec.spec, Disk)]
  /\ UNCHANGED <<trees, over, registered, pending, lock, statuses, tokens, view, grants, armed, edits, asked>>
\* The lock holds the hash: armed, not held.
Decide ==
  /\ rec.pc = "decide"
  /\ IF lock.hash = rec.hash
       THEN pending' = None /\ armed' = rec.spec /\ rec' = [rec EXCEPT !.pc = "idle"]
       ELSE rec' = [rec EXCEPT !.pc = "commit"] /\ UNCHANGED <<pending, armed>>
  /\ UNCHANGED <<trees, over, registered, lock, statuses, tokens, view, grants, edits, asked>>
CommitOf ==
  /\ rec.pc = "commit"
  /\ rec' = [rec EXCEPT !.pc = "pend", !.commit = Len(trees)]
  /\ UNCHANGED <<trees, over, registered, pending, lock, statuses, tokens, view, grants, armed, edits, asked>>
\* The entry: a new generation, with caches of its own.
Entry == [spec |-> rec.spec, hash |-> rec.hash, from |-> lock.commit, to |-> rec.commit, gen |-> rec.gen]
EntryFault ==
  [spec |-> rec.spec, hash |-> rec.hash, from |-> lock.commit, to |-> rec.commit,
   gen |-> IF pending = None THEN rec.gen ELSE pending.gen]
Pend ==
  /\ rec.pc = "pend"
  /\ pending' = Entry /\ rec' = [rec EXCEPT !.pc = "idle"]
  /\ UNCHANGED <<trees, over, registered, lock, statuses, tokens, view, grants, armed, edits, asked>>

-----------------------------------------------------------------------------
(* The review surface *)

See(v, new) == view' = [view EXCEPT ![v] = new]

\* MintApproveLink: for the version pending now.
Mint(t) ==
  /\ tokens[t].hash = None /\ pending # None
  /\ tokens' = [tokens EXCEPT ![t].hash = pending.hash]
  /\ UNCHANGED <<trees, over, rec, registered, pending, lock, statuses, view, grants, armed, edits, asked>>
\* The pages of the task find it registered; the page of a link finds its token (Peek).
Open(v) ==
  /\ view[v].pc = "idle" /\ asked < MaxViews /\ asked' = asked + 1
  /\ registered # None /\ See(v, [Idle EXCEPT !.pc = "read", !.how = "page", !.spec = registered])
  /\ UNCHANGED <<trees, over, rec, registered, pending, lock, statuses, tokens, grants, armed, edits>>
Live(t) == tokens[t].hash # None /\ ~tokens[t].used
OpenLink(v) ==
  /\ view[v].pc = "idle" /\ asked < MaxViews /\ asked' = asked + 1
  /\ \E t \in {x \in Tokens : Live(x)} :
       See(v, [Idle EXCEPT !.pc = "read", !.how = "link", !.token = t, !.hash = tokens[t].hash])
  /\ UNCHANGED <<trees, over, rec, registered, pending, lock, statuses, tokens, grants, armed, edits>>
\* One read of the pending map decides what is shown and what it is shown of.
Read(v) ==
  /\ view[v].pc = "read"
  /\ LET p == pending
     IN IF p # None /\ (view[v].how = "link" => p.hash = view[v].hash)
          THEN See(v, [view[v] EXCEPT !.pc = IF view[v].how = "link" THEN "shown" ELSE "files",
                                      !.spec = p.spec, !.hash = p.hash, !.from = p.from, !.to = p.to, !.gen = p.gen])
          ELSE \/ See(v, Idle)
               \/ p = None /\ view[v].how = "page" /\ See(v, [view[v] EXCEPT !.pc = "files"])
  /\ UNCHANGED <<trees, over, rec, registered, pending, lock, statuses, tokens, grants, armed, edits, asked>>
\* inventoryOf: the files of now; marks only with both ends of the range.
List(v) ==
  /\ view[v].pc = "files"
  /\ See(v, [view[v] EXCEPT !.pc = IF view[v].from = 0 \/ view[v].to = 0 THEN "shown" ELSE "marks",
                            !.names = {f \in Files : Disk[f] # 0}])
  /\ UNCHANGED <<trees, over, rec, registered, pending, lock, statuses, tokens, grants, armed, edits, asked>>
\* fileStatusesOf, once for a generation: new, changed, or nothing to say.
Moved(from, to, names) ==
  {<<f, "new">> : f \in {x \in names : trees[to][x] # 0 /\ trees[from][x] = 0}}
  \cup {<<f, "changed">> : f \in {x \in names : trees[to][x] # 0 /\ trees[from][x] \notin {0, trees[to][x]}}}
Mark(v) ==
  /\ view[v].pc = "marks"
  /\ LET g == view[v].gen
     IN \E found \in IF statuses[g] # None THEN {statuses[g]}
                     ELSE {Moved(view[v].from, view[v].to, view[v].names), {}} :
          /\ statuses' = [statuses EXCEPT ![g] = found]
          /\ See(v, [view[v] EXCEPT !.pc = "shown", !.marks = {m \in found : m[1] \in view[v].names}])
  /\ UNCHANGED <<trees, over, rec, registered, pending, lock, tokens, grants, armed, edits, asked>>

-----------------------------------------------------------------------------
(* Approving *)

\* The button sends back the hash on the screen, if there is one.
Click(v) ==
  /\ view[v].pc = "shown"
  /\ \/ See(v, Idle)
     \/ view[v].how = "page" /\ view[v].hash # None /\ See(v, [view[v] EXCEPT !.pc = "approve"])
  /\ UNCHANGED <<trees, over, rec, registered, pending, lock, statuses, tokens, grants, armed, edits, asked>>
\* A link is consumed, whatever becomes of the approval.
Redeem(v) ==
  /\ view[v].pc = "shown" /\ view[v].how = "link"
  /\ See(v, IF Live(view[v].token) THEN [view[v] EXCEPT !.pc = "approve"] ELSE Idle)
  /\ tokens' = [tokens EXCEPT ![view[v].token].used = TRUE]
  /\ UNCHANGED <<trees, over, rec, registered, pending, lock, statuses, grants, armed, edits, asked>>
\* approve: what is pending now, if it is what was shown.
Matches(v) == pending # None /\ pending.hash = view[v].hash
MatchesFault(v) == pending # None
Check(v) ==
  /\ view[v].pc = "approve"
  /\ See(v, IF Matches(v) THEN [view[v] EXCEPT !.pc = "record", !.ent = pending] ELSE Idle)
  /\ UNCHANGED <<trees, over, rec, registered, pending, lock, statuses, tokens, grants, armed, edits, asked>>
\* Lock.Record keeps the record of a hash it has.
Record(v) ==
  /\ view[v].pc = "record"
  /\ lock' = IF lock.hash = view[v].ent.hash THEN lock ELSE [hash |-> view[v].ent.hash, commit |-> view[v].ent.to]
  /\ See(v, [view[v] EXCEPT !.pc = "arm"])
  /\ UNCHANGED <<trees, over, rec, registered, pending, statuses, tokens, grants, armed, edits, asked>>
Arm(v) ==
  /\ view[v].pc = "arm"
  /\ armed' = view[v].ent.spec
  /\ grants' = grants \cup {[shown |-> view[v].spec, hash |-> view[v].hash, spec |-> view[v].ent.spec,
                             recorded |-> view[v].ent.hash, token |-> view[v].token]}
  /\ See(v, [view[v] EXCEPT !.pc = "clear"])
  /\ UNCHANGED <<trees, over, rec, registered, pending, lock, statuses, tokens, edits, asked>>
Clear(v) ==
  /\ view[v].pc = "clear"
  /\ pending' = IF pending # None /\ pending.hash = view[v].ent.hash THEN None ELSE pending
  /\ See(v, Idle)
  /\ UNCHANGED <<trees, over, rec, registered, lock, statuses, tokens, grants, armed, edits, asked>>

Next ==
  \/ Push \/ Override \/ Load \/ Hash \/ Decide \/ CommitOf \/ Pend
  \/ \E t \in Tokens : Mint(t)
  \/ \E v \in Viewers :
       Open(v) \/ OpenLink(v) \/ Read(v) \/ List(v) \/ Mark(v) \/ Click(v) \/ Redeem(v) \/ Check(v) \/ Record(v) \/ Arm(v) \/ Clear(v)

Spec == Init /\ [][Next]_vars

-----------------------------------------------------------------------------
(* Properties *)

TypeOK ==
  /\ \A i \in DOMAIN trees : trees[i] \in Contents
  /\ over \in Overs
  /\ rec.pc \in {"idle", "hash", "decide", "commit", "pend"} /\ lock.commit \in 0..Len(trees)
  /\ \A v \in Viewers : view[v].pc \in
       {"idle", "read", "files", "marks", "shown", "approve", "record", "arm", "clear"}

\* What an approval bound to a screen arms may reach what the screen showed: the fields an
\* override can set are in the hash that ApproveIfHash compares.
Reach(s) ==
  LET r == Rendered(s)
  IN [net |-> r.net, timeout |-> r.timeout, env |-> r.env, params |-> r.params,
      trigger |-> [r.trigger EXCEPT !.signed = FALSE]]
ArmedAsShown ==
  \A g \in grants : g.recorded = g.hash /\ Reach(g.spec) = Reach(g.shown)

\* A mark on the screen is true of the range on the screen: the cached diff is of its own
\* generation (fileStatusCache).
Screens == {view[v] : v \in {x \in Viewers : view[x].pc = "shown"}}
MarksAreTrue ==
  \A s \in Screens : \A m \in s.marks :
    /\ trees[s.to][m[1]] \notin {0, trees[s.from][m[1]]}
    /\ trees[s.from][m[1]] = 0 <=> m[2] = "new"

\* Nothing written inline is on a screen (ADR-0003).
Atoms(s) ==
  LET r == Rendered(s)
  IN {r.name, r.image, r.net, r.timeout, r.trigger.at} \cup r.envNames \cup r.trigger.params
     \cup (UNION {{d.name} \cup {d.from[i] : i \in DOMAIN d.from} : d \in r.env}) \cup {p.name : p \in r.params}
NoLiteralShown == \A s \in Screens : s.spec # None => Atoms(s.spec) \cap Literals = {}

\* A link approves what it was minted for.
LinkIsExact == \A g \in grants : g.token # None => g.recorded = tokens[g.token].hash /\ tokens[g.token].used
================================================================================
