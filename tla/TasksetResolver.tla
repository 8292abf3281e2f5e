--------------------------- MODULE TasksetResolver ---------------------------
(***************************************************************************)
(* The resolver of one source (taskset/resolver.go, override.go): a pass   *)
(* walks the tree of tasksets from the root, stacks the override layers on *)
(* each task, and collects the tasks and the entries that failed.  Git     *)
(* refs are cloned once and found in the cache from then on, also by later *)
(* passes.  The entries of a taskset come in any order (a Go map), and dev *)
(* mode may be switched while a pass is at work.                           *)
(***************************************************************************)
EXTENDS Naturals, Sequences, FiniteSets, Functions, SequencesExt

CONSTANTS
  Trees,     \* contents the source can have: file -> taskset, None when it does not load
  Private,   \* git targets that are cloned with a token only
  None,
  MaxSpent   \* a bound on edits and dev mode switches

VARIABLES
  tree, devMode,
  clones,    \* the clone cache: repoKeys
  held,      \* repoKeys whose clone was fetched with a token
  stack,     \* taskset frames of the pass, the innermost last
  out, failed,  \* what the pass has collected: tasks, ids of failures
  mixed,     \* dev mode was switched, or a fetch failed, during the pass
  spent

vars == <<tree, devMode, clones, held, stack, out, failed, mixed, spent>>
passVars == <<stack, out, failed>>

Root == "root"

-----------------------------------------------------------------------------
(* Overrides: a layer is None or a record; 0, None and {} are unset fields. *)

\* Fields whose last layer wins are `timeout`; `env` is merged by name, `dicode` is a
\* set of permissions.  A task's `trigger` is the set of its trigger kinds; a layer's is a
\* patch, from the kinds it has a value for to whether that value switches the kind on
\* (`manual: false`, `daemon: false` and `cron: ""` do not).
Overlay(f, g) == [x \in DOMAIN f \cup DOMAIN g |-> IF x \in DOMAIN g THEN g[x] ELSE f[x]]

\* Trigger kinds in the order a patch is looked at.
KindOrder == <<"cron", "webhook", "manual", "chain", "daemon">>
TriggerPatchFault(kinds, patch) ==
  FoldLeft(LAMBDA acc, k : IF k \in DOMAIN patch THEN (IF patch[k] THEN {k} ELSE acc \ {k}) ELSE acc, kinds, KindOrder)
\* Any trigger kind a patch has a value for clears the others, also when it is switched off.
ApplyTriggerPatch(kinds, patch) ==
  FoldLeft(LAMBDA acc, k : IF k \in DOMAIN patch THEN {x \in {k} : patch[x]} ELSE acc, kinds, KindOrder)
ApplyLayer(spec, o) ==
  IF o = None THEN spec
  ELSE [timeout |-> IF o.timeout # 0 THEN o.timeout ELSE spec.timeout,
        env |-> Overlay(spec.env, o.env),
        dicode |-> spec.dicode \cup o.dicode,
        trigger |-> ApplyTriggerPatch(spec.trigger, o.trigger)]

\* The patch from above over the entry's own.
LayersFault(defaults, patch, own) == <<defaults, own, patch>>
\* A set's defaults have no permissions and no entries.
Layers(defaults, patch, own) == <<IF defaults = None THEN None ELSE [defaults EXCEPT !.dicode = {}], patch, own>>
Resolved(base, layers) == FoldLeft(ApplyLayer, base, layers)

\* A task has exactly one kind of trigger.
Valid(spec) == Cardinality(spec.trigger) = 1

PatchOf(o, name) == IF o # None /\ name \in DOMAIN o.entries THEN o.entries[name] ELSE None

\* b on top of a, for the entries of a nested set: one entry's patch in b replaces that
\* in a as a whole.  The other fields are not read again.
MergeOverrides(a, b) ==
  CASE a = None -> b
    [] b = None -> a
    [] OTHER -> [b EXCEPT !.entries = Overlay(a.entries, b.entries)]

Enabled(patch, own) ==
  CASE patch # None /\ patch.enabled # None -> patch.enabled
    [] own # None /\ own.enabled # None -> own.enabled
    [] OTHER -> TRUE
-----------------------------------------------------------------------------
Init ==
  /\ tree \in Trees /\ devMode = FALSE
  /\ clones = {} /\ held = {}
  /\ stack = <<>> /\ out = {} /\ failed = {} /\ mixed = FALSE
  /\ spent = 0

Frame(ns, file, over, off, auth) ==
  [ns |-> ns, file |-> file, over |-> over, off |-> off, auth |-> auth, left |-> DOMAIN tree[file].entries]

\* A root that does not load is an error of the pass, which then publishes nothing.
Begin ==
  /\ stack = <<>> /\ tree[Root] # None
  /\ stack' = <<Frame(<<>>, Root, None, FALSE, TRUE)>>
  /\ out' = {} /\ failed' = {} /\ mixed' = FALSE
  /\ UNCHANGED <<tree, devMode, clones, held, spent>>

\* The ref that counts: dev mode is read entry by entry.
RefOf(e) == IF devMode /\ e.dev # None THEN e.dev ELSE e.ref

\* A root ref and the entries of the root taskset are operator config: their clones are
\* kept apart from those of refs found further down, and only they carry a token.
RepoKey(f, ref) == [url |-> ref.url, auth |-> f.auth]
Token(key, ref) == key.auth /\ ref.token

\* The cases of resolveRef and ensureClone.  A fetch of what is not cached may fail.
Cached(f, ref) == ref.url = None \/ RepoKey(f, ref) \in clones
Fetch(f, ref) ==
  LET key == RepoKey(f, ref) IN
  /\ ~Cached(f, ref)
  /\ ref.url \in Private => Token(key, ref)
  /\ clones' = clones \cup {key}
  /\ held' = IF Token(key, ref) THEN held \cup {key} ELSE held \ {key}
Reach(f, ref) == (Cached(f, ref) /\ UNCHANGED <<clones, held>>) \/ Fetch(f, ref)

Top == Last(stack)
ID(f, name) == Append(f.ns, name)
Rest(name) == [stack EXCEPT ![Len(stack)].left = @ \ {name}]
Own(f, name) == tree[f.file].entries[name].over
Patch(f, name) == PatchOf(f.over, name)
On(f, name) == Enabled(Patch(f, name), Own(f, name)) /\ ~f.off

Fail(f, name) ==
  /\ failed' = failed \cup {ID(f, name)} /\ stack' = Rest(name)
  /\ UNCHANGED <<tree, devMode, out, spent>>

\* An inline task or the task a ref leads to: layers, then a second validation.
Loads(f, name) ==
  LET spec == Resolved(tree[f.file].entries[name].base,
                       Layers(tree[f.file].defaults, Patch(f, name), Own(f, name)))
  IN IF Valid(spec)
     THEN /\ out' = out \cup {[id |-> ID(f, name), spec |-> spec, enabled |-> On(f, name)]}
          /\ stack' = Rest(name)
          /\ UNCHANGED <<tree, devMode, failed, spent>>
     ELSE Fail(f, name)

Inline(f, name) ==
  /\ tree[f.file].entries[name].ref = None
  /\ Loads(f, name) /\ UNCHANGED <<clones, held, mixed>>

Task(f, name) ==
  LET e == tree[f.file].entries[name] IN
  /\ e.ref # None /\ RefOf(e).kind = "task" /\ Reach(f, RefOf(e))
  /\ Loads(f, name) /\ UNCHANGED mixed

\* Override layers do not reach a pipeline.
Pipeline(f, name) ==
  LET e == tree[f.file].entries[name] IN
  /\ e.ref # None /\ RefOf(e).kind = "pipeline" /\ Reach(f, RefOf(e))
  /\ out' = out \cup {[id |-> ID(f, name), spec |-> e.base, enabled |-> On(f, name)]}
  /\ stack' = Rest(name)
  /\ UNCHANGED <<tree, devMode, failed, mixed, spent>>

\* An entry fails alone: its file does not load, a task file declares a taskset, a path
\* leaves its clone, the nested taskset does not load.
Broken(f, name) ==
  LET e == tree[f.file].entries[name] IN
  /\ e.ref # None
  /\ RefOf(e).kind = "broken" \/ (RefOf(e).kind = "set" /\ tree[RefOf(e).file] = None)
  /\ Reach(f, RefOf(e))
  /\ Fail(f, name) /\ UNCHANGED mixed
FailedFetch(f, name) ==
  LET e == tree[f.file].entries[name] IN
  /\ e.ref # None /\ ~Cached(f, RefOf(e))
  /\ Fail(f, name) /\ mixed' = TRUE /\ UNCHANGED <<clones, held>>

\* A nested taskset is walked before the entries that are left here.
Nested(f, name) ==
  LET e == tree[f.file].entries[name] IN
  /\ e.ref # None /\ RefOf(e).kind = "set" /\ tree[RefOf(e).file] # None
  /\ Reach(f, RefOf(e))
  /\ stack' = Append(Rest(name),
                     Frame(ID(f, name), RefOf(e).file, MergeOverrides(Patch(f, name), Own(f, name)),
                           ~On(f, name), FALSE))
  /\ UNCHANGED <<tree, devMode, out, failed, mixed, spent>>

Entry(name) ==
  \/ Inline(Top, name) \/ Task(Top, name) \/ Pipeline(Top, name)
  \/ Broken(Top, name) \/ FailedFetch(Top, name) \/ Nested(Top, name)

\* The end of a taskset; the pass ends with the root's.
Leave ==
  /\ stack # <<>> /\ Top.left = {}
  /\ stack' = Front(stack)
  /\ UNCHANGED <<tree, devMode, clones, held, out, failed, mixed, spent>>

SetDevMode ==
  /\ spent < MaxSpent /\ spent' = spent + 1
  /\ devMode' = ~devMode /\ mixed' = TRUE
  /\ UNCHANGED <<tree, clones, held, passVars>>

\* The files change between passes.
Edit ==
  /\ spent < MaxSpent /\ spent' = spent + 1 /\ stack = <<>>
  /\ tree' \in Trees \ {tree}
  /\ out' = {} /\ failed' = {} /\ mixed' = TRUE
  /\ UNCHANGED <<devMode, clones, held, stack>>

Next ==
  \/ Begin \/ Leave \/ SetDevMode \/ Edit
  \/ stack # <<>> /\ \E name \in Top.left : Entry(name)

Spec == Init /\ [][Next]_vars

-----------------------------------------------------------------------------
TypeOK ==
  /\ \A k \in clones : k.auth \in BOOLEAN /\ k.url # None
  /\ held \subseteq clones
  /\ \A i \in 1..Len(stack) : stack[i].off \in BOOLEAN /\ (stack[i].auth <=> i = 1)

\* The paths of the tree, and what lies on them.
Names == UNION {DOMAIN tree[f].entries : f \in {g \in DOMAIN tree : tree[g] # None}}
Paths == UNION {[1..n -> Names] : n \in 1..Cardinality(DOMAIN tree)}
\* The file an entry's path goes through, None when there is no such entry.
FileAt[p \in Paths \cup {<<>>}] ==
  IF p = <<>> THEN Root
  ELSE LET g == FileAt[Front(p)] IN
       IF g = None \/ tree[g] = None \/ Last(p) \notin DOMAIN tree[g].entries THEN None
       ELSE LET e == tree[g].entries[Last(p)] IN
            IF e.ref = None \/ RefOf(e).kind # "set" THEN None ELSE RefOf(e).file
EntryAt(p) == tree[FileAt[Front(p)]].entries[Last(p)]
Exists(p) == LET g == FileAt[Front(p)] IN g # None /\ tree[g] # None /\ Last(p) \in DOMAIN tree[g].entries
Leaves == {p \in Paths : Exists(p) /\ (EntryAt(p).ref = None \/ RefOf(EntryAt(p)).kind # "set")}

Ended == stack = <<>> /\ ~mixed /\ (out # {} \/ failed # {})
Under(q, p) == Len(q) <= Len(p) /\ SubSeq(p, 1, Len(q)) = q

\* A pass accounts for each task of the tree: it is resolved, or it or a taskset above it
\* is among the failures, and not both ("these are omitted ... but are not silently
\* dropped").
NoneVanishes ==
  Ended => \A p \in Leaves :
    (\E o \in out : o.id = p) # (\E q \in failed : Under(q, p))

\* The patches that set a task's fields, by the level that declares them: level 0 is the
\* task's own taskset, level i the entry i levels above it.
Down(o, path) == FoldLeft(LAMBDA acc, n : PatchOf(acc, n), o, path)
Declared(p) == [i \in 1..Len(p) |-> Down(tree[FileAt[SubSeq(p, 1, i - 1)]].entries[p[i]].over, SubSeq(p, i + 1, Len(p)))]
\* "leaf wins": of the levels above, the innermost that patches the task at all.
Above(p) == LET is == {i \in 1..Len(p) - 1 : Declared(p)[i] # None} IN
            IF is = {} THEN None ELSE Declared(p)[CHOOSE i \in is : \A j \in is : j <= i]
FirstSet(s, unset) == IF \E i \in DOMAIN s : s[i] # unset
                      THEN s[CHOOSE i \in DOMAIN s : s[i] # unset /\ \A j \in 1..(i - 1) : s[j] = unset]
                      ELSE unset
Field(o, x, unset) == IF o = None THEN unset ELSE o[x]

\* The stack of layers gives each field the value the docs promise: the entry's own, else
\* that of the innermost patch from above, else that of the taskset's defaults, else the
\* task's.  Of a trigger patch the last kind counts, and alone: the task is left with that
\* one ("preserving the single-trigger invariant"), or, when it is switched off, with none,
\* and it is then that a task whose file can be read is a failure of the pass.
LayersOf(p) == <<EntryAt(p).over, Above(p), tree[FileAt[Front(p)]].defaults>>
Unnamed == [k \in {} |-> TRUE]
LastKind(patch) ==
  CHOOSE i \in DOMAIN KindOrder :
    KindOrder[i] \in DOMAIN patch /\ \A j \in DOMAIN KindOrder : KindOrder[j] \in DOMAIN patch => j <= i
TriggerOf(p) ==
  LET patch == FirstSet([i \in 1..3 |-> Field(LayersOf(p)[i], "trigger", Unnamed)], Unnamed)
  IN IF patch = Unnamed THEN EntryAt(p).base.trigger
     ELSE {k \in {KindOrder[LastKind(patch)]} : patch[k]}
IsTask(e) == e.ref = None \/ RefOf(e).kind = "task"
Readable(e) == IsTask(e) /\ (e.ref = None \/ RefOf(e).url = None)
LeafWins ==
  ~mixed =>
  /\ \A q \in failed : Readable(EntryAt(q)) => TriggerOf(q) = {}
  /\ \A o \in {x \in out : IsTask(EntryAt(x.id))} :
       LET base == EntryAt(o.id).base
           layers == LayersOf(o.id)
           EnvOf(i, n) == IF layers[i] # None /\ n \in DOMAIN layers[i].env THEN layers[i].env[n] ELSE None
       IN /\ o.spec.trigger = TriggerOf(o.id) /\ TriggerOf(o.id) # {}
          /\ o.spec.timeout = FirstSet([i \in 1..3 |-> Field(layers[i], "timeout", 0)] \o <<base.timeout>>, 0)
          /\ \A n \in DOMAIN o.spec.env \ DOMAIN base.env :
               o.spec.env[n] = FirstSet([i \in 1..3 |-> EnvOf(i, n)], None)

\* A task is off exactly when it or a taskset on the way to it is ("a disabled TaskSet entry
\* propagates disabled to all its children"), each of them as the innermost level above that
\* patches it says, or, if that one does not say, as its own entry does.  A level further up
\* has no say once one in between patches the same entry, whatever field that patches: this
\* is less than "parent-level override wins over child-level" (docs/concepts/sources.md).
OffStaysOff ==
  \A o \in out : mixed \/
    LET own == Field(EntryAt(o.id).over, "enabled", None)
        patch == Field(Above(o.id), "enabled", None)
    IN o.enabled <=>
         /\ FirstSet(<<patch, own>>, None) # FALSE
         /\ \A i \in 1..Len(o.id) - 1 :
              LET q == SubSeq(o.id, 1, i) IN
              FirstSet(<<Field(Above(q), "enabled", None), Field(EntryAt(q).over, "enabled", None)>>, None) # FALSE

\* A clone that was fetched with a token serves only the refs of operator config: no ref
\* from further down is answered from it, whatever earlier passes put in the cache.
TokensStayAtTheRoot ==
  /\ \A k \in held : k.auth
  /\ \A i \in 1..Len(stack) : \A n \in DOMAIN tree[stack[i].file].entries :
       LET e == tree[stack[i].file].entries[n] IN
       e.ref # None /\ RefOf(e).url # None /\ i > 1 => RepoKey(stack[i], RefOf(e)) \notin held

=============================================================================
