----------------------------- MODULE SourceConfig -----------------------------
(***************************************************************************)
(* Edits of the daemon's configuration while it runs: adding and removing  *)
(* a source, a setting, an override of a task, the raw editor              *)
(* (webui/server.go, config/persist.go).  Each handler works on the copy   *)
(* in memory, on dicode.yaml, on the reconciler's running sources and on   *)
(* the source manager, and only some of its steps are under cfgMu.         *)
(*                                                                         *)
(* All entries of a name refer to the same place, so that they share their *)
(* source ID.                                                              *)
(***************************************************************************)
EXTENDS Naturals, FiniteSets

CONSTANTS
  MaxCalls, \* a bound on the requests, which are numbered as they come
  Names,    \* names of sources
  Scratch,  \* ai-scratch, which every load of the file brings in
  None

VARIABLES
  mem,      \* s.cfg: entries: name -> [p: identity of the Entry, ov: overrides] or None, set: a setting
  file,     \* dicode.yaml: entries: name -> overrides or None, set, stamp: its mtime
  calls,    \* call -> [pc, kind, name, got and set: what it read or wrote, stamp]
  live,     \* instances whose context is not cancelled
  cancels,  \* rc.cancels: name -> instance
  mgr,      \* SourceManager.tasksets: name -> instance
  parentOv, \* instance -> the overrides it was given last
  nameOf,   \* instance -> name
  acked,    \* adds that were answered "ok" and whose source nobody removed since
  mixed,    \* an edit that replaces the entries overlapped with another, or changed their set
  again     \* names that were claimed while an earlier add or removal had steps to go

vars == <<mem, file, calls, live, cancels, mgr, parentOv, nameOf, acked, mixed, again>>
sourceVars == <<live, cancels, mgr, parentOv, nameOf>>
ghosts == <<acked, mixed, again>>

Calls == 1..MaxCalls
\* An instance is named for the request that made it; the one of the start is Boot, and the
\* entries of a load are Boot's too: no request claimed them.
Boot == 0
Instances == Calls \cup {Boot}
NoCall == [pc |-> "idle", kind |-> None, name |-> None, got |-> None, set |-> 0, stamp |-> 0]

\* Load: what a file becomes in memory.
Loaded(content) ==
  [n \in Names |-> IF content[n] = None /\ n # Scratch THEN None
                   ELSE [p |-> Boot, ov |-> IF content[n] = None THEN 0 ELSE content[n]]]
Written(entries) == [n \in Names |-> IF entries[n] = None THEN None ELSE entries[n].ov]

Init ==
  /\ file = [entries |-> [n \in Names |-> None], set |-> 0, stamp |-> 0]
  /\ mem = [entries |-> Loaded(file.entries), set |-> 0]
  /\ calls = [c \in Calls |-> NoCall]
  /\ live = {Boot} /\ nameOf = [i \in Instances |-> IF i = Boot THEN Scratch ELSE None]
  /\ cancels = [n \in Names |-> IF n = Scratch THEN Boot ELSE None] /\ mgr = cancels
  /\ parentOv = [i \in Instances |-> 0]
  /\ acked = {} /\ mixed = FALSE /\ again = {}

At(c, pc) == calls[c].pc = pc
To(c, pc) == [calls EXCEPT ![c].pc = pc]
Return(c) == calls' = To(c, "done")
Open == {c \in Calls : calls[c].pc \notin {"idle", "done"}}

\* Nothing is said of what follows an overlap: no request begins then (a bound).
Replaces(kind) == kind \in {"patch", "raw"}
Begin(c, kind, n) ==
  /\ At(c, "idle") /\ \A d \in 1..(c - 1) : ~At(d, "idle")
  /\ ~mixed /\ (kind = "set" => n = Scratch) /\ (kind = "patch" => mgr[n] # None)
  /\ calls' = [calls EXCEPT ![c] = [NoCall EXCEPT !.pc = kind, !.kind = kind, !.name = n, !.stamp = file.stamp]]
  /\ mixed' = (mixed \/ (Open # {} /\ (Replaces(kind) \/ \E d \in Open : Replaces(calls[d].kind))))
  /\ UNCHANGED <<mem, file, sourceVars, acked, again>>

\* persistConfigLocked: the file with memory's entries and settings in it, or an error,
\* which the sites that start or stop something only log.
Persist(m) ==
  \/ file' = [entries |-> Written(m.entries), set |-> m.set, stamp |-> file.stamp + 1] /\ UNCHANGED mixed
  \/ mixed' = TRUE /\ UNCHANGED file

-----------------------------------------------------------------------------
(* Settings: the AI task, the log level, a runtime's version. *)
Set(c) ==
  /\ At(c, "set")
  /\ mem' = [mem EXCEPT !.set = 1 - @]
  /\ Persist(mem')
  /\ Return(c)
  /\ UNCHANGED <<sourceVars, acked, again>>

-----------------------------------------------------------------------------
(* apiAddSource: claim the name, start the source, look at the claim again. *)
Claim(c) ==
  LET n == calls[c].name IN
  /\ At(c, "add")
  /\ IF mem.entries[n] # None
     THEN Return(c) /\ UNCHANGED <<mem, file, mixed>>
     ELSE /\ mem' = [mem EXCEPT !.entries[n] = [p |-> c, ov |-> 0]]
          /\ Persist(mem')
          /\ calls' = To(c, "start")
  /\ again' = IF \E d \in Calls : calls[d].name = n /\ calls[d].pc \in {"start", "enter", "recheck", "register", "stop"}
              THEN again \cup {n} ELSE again
  /\ UNCHANGED <<sourceVars, acked>>

Start(c) ==
  /\ At(c, "start")
  /\ \/ /\ live' = live \cup {c} /\ nameOf' = [nameOf EXCEPT ![c] = calls[c].name]
        /\ calls' = To(c, "enter")
     \/ calls' = To(c, "rollback") /\ UNCHANGED <<live, nameOf>>
  /\ UNCHANGED <<mem, file, cancels, mgr, parentOv, ghosts>>

Rollback(c) ==
  LET n == calls[c].name
      mine == mem.entries[n] # None /\ mem.entries[n].p = c
  IN
  /\ At(c, "rollback") /\ Return(c)
  /\ mem' = IF mine THEN [mem EXCEPT !.entries[n] = None] ELSE mem
  /\ Persist(mem')
  /\ UNCHANGED <<sourceVars, acked, again>>

\* startSource enters the cancel function after Start returned.
Enter(c) ==
  /\ At(c, "enter") /\ calls' = To(c, "recheck")
  /\ cancels' = [cancels EXCEPT ![calls[c].name] = c]
  /\ UNCHANGED <<mem, file, live, mgr, parentOv, nameOf, ghosts>>

RemoveSource(n) ==
  /\ live' = live \ {cancels[n]}
  /\ cancels' = [cancels EXCEPT ![n] = None]

RecheckFault(c) ==
  /\ At(c, "recheck") /\ calls' = To(c, "register")
  /\ UNCHANGED <<mem, file, sourceVars, ghosts>>
Recheck(c) ==
  LET n == calls[c].name IN
  /\ At(c, "recheck")
  /\ IF mem.entries[n] # None /\ mem.entries[n].p = c
     THEN calls' = To(c, "register") /\ UNCHANGED <<live, cancels>>
     ELSE Return(c) /\ RemoveSource(n)
  /\ UNCHANGED <<mem, file, mgr, parentOv, nameOf, ghosts>>

Register(c) ==
  LET n == calls[c].name IN
  /\ At(c, "register") /\ Return(c)
  /\ mgr' = [mgr EXCEPT ![n] = c]
  /\ acked' = IF mem.entries[n] # None /\ mem.entries[n].p = c THEN acked \cup {c} ELSE acked
  /\ UNCHANGED <<mem, file, live, cancels, parentOv, nameOf, mixed, again>>

\* apiRemoveSource leaves the source manager as it is.
Remove(c) ==
  LET n == calls[c].name IN
  /\ At(c, "remove")
  /\ IF mem.entries[n] = None
     THEN Return(c) /\ UNCHANGED <<mem, file, mixed, acked>>
     ELSE /\ mem' = [mem EXCEPT !.entries[n] = None]
          /\ Persist(mem')
          /\ calls' = To(c, "stop")
          /\ acked' = {a \in acked : nameOf[a] # n}
  /\ UNCHANGED <<sourceVars, again>>
Stop(c) ==
  /\ At(c, "stop") /\ Return(c)
  /\ RemoveSource(calls[c].name)
  /\ UNCHANGED <<mem, file, mgr, parentOv, nameOf, ghosts>>

-----------------------------------------------------------------------------
(* apiPatchTaskOverrides: the file is read, merged and written without cfgMu. *)
Merge(c) ==
  /\ At(c, "patch")
  /\ IF file.stamp # calls[c].stamp \/ file.entries[calls[c].name] = None
     THEN Return(c)
     ELSE calls' = [calls EXCEPT ![c].pc = "merged",
                                 ![c].got = [file.entries EXCEPT ![calls[c].name] = c]]
  /\ UNCHANGED <<mem, file, sourceVars, ghosts>>
WriteMerged(c) ==
  /\ At(c, "merged") /\ calls' = To(c, "load")
  /\ file' = [file EXCEPT !.entries = calls[c].got, !.stamp = @ + 1]
  /\ UNCHANGED <<mem, sourceVars, ghosts>>
Load(c) ==
  /\ At(c, "load")
  /\ calls' = [calls EXCEPT ![c].pc = "apply", ![c].got = file.entries]
  /\ UNCHANGED <<mem, file, sourceVars, ghosts>>
Apply(c) ==
  /\ At(c, "apply") /\ calls' = To(c, "signal")
  /\ mem' = [mem EXCEPT !.entries = Loaded(calls[c].got)]
  /\ UNCHANGED <<file, sourceVars, ghosts>>

\* SetParentOverrides: a patch signals its source, the editor every source it knows.
Signal(c) ==
  LET ns == IF calls[c].kind = "raw" THEN Names ELSE {calls[c].name}
      to == Loaded(calls[c].got)
      told == {n \in ns : to[n] # None /\ mgr[n] # None}
  IN
  /\ At(c, "signal") /\ Return(c)
  /\ parentOv' = [i \in Instances |->
       IF \E n \in told : mgr[n] = i THEN to[CHOOSE n \in told : mgr[n] = i].ov ELSE parentOv[i]]
  /\ UNCHANGED <<mem, file, live, cancels, mgr, nameOf, ghosts>>

\* apiSaveConfigRaw: the content was validated; it need not be an edit of what is there now.
WriteRaw(c) ==
  /\ At(c, "raw")
  /\ \E ov \in {None, c} :
       LET content == [file.entries EXCEPT ![calls[c].name] = ov] IN
       /\ file' = [entries |-> content, set |-> 1 - file.set, stamp |-> file.stamp + 1]
       /\ calls' = [calls EXCEPT ![c].pc = "applyRaw", ![c].got = content, ![c].set = file'.set]
       /\ mixed' = (mixed \/ \E n \in Names : (Loaded(content)[n] = None) # (mem.entries[n] = None))
  /\ UNCHANGED <<mem, sourceVars, acked, again>>
ApplyRaw(c) ==
  /\ At(c, "applyRaw") /\ calls' = To(c, "signal")
  /\ mem' = [entries |-> Loaded(calls[c].got), set |-> calls[c].set]
  /\ UNCHANGED <<file, sourceVars, ghosts>>

Step(c) ==
  \/ Set(c) \/ Claim(c) \/ Start(c) \/ Rollback(c) \/ Enter(c) \/ Recheck(c) \/ Register(c)
  \/ Remove(c) \/ Stop(c)
  \/ Merge(c) \/ WriteMerged(c) \/ Load(c) \/ Apply(c) \/ Signal(c) \/ WriteRaw(c) \/ ApplyRaw(c)
Next ==
  \E c \in Calls :
    \/ \E kind \in {"set", "add", "remove", "patch", "raw"}, n \in Names : Begin(c, kind, n)
    \/ Step(c)

Spec == Init /\ [][Next]_vars

-----------------------------------------------------------------------------
TypeOK ==
  /\ live \subseteq Instances /\ acked \subseteq Calls /\ again \subseteq Names
  /\ \A n \in Names : cancels[n] \in Instances \cup {None} /\ mgr[n] \in Instances \cup {None}

Quiet == Open = {} /\ ~mixed

\* A restart would run what runs now: the file, loaded, is what is in memory, except for a
\* removed ai-scratch, which every load brings back.
RestartKeeps ==
  Quiet => /\ file.set = mem.set \/ file.stamp = 0
           /\ \A n \in Names \ {Scratch} : Written(Loaded(file.entries))[n] = Written(mem.entries)[n]

\* "Only delete if cfg.Spec.Entries[name] is still THIS request's": a source whose add was
\* answered and that nobody removed is configured and runs, whatever adds of the name
\* failed or were undone meanwhile.
AddedStays ==
  ~mixed => \A a \in acked :
    /\ mem.entries[nameOf[a]] # None
    /\ nameOf[a] \notin again => a \in live

\* "instead of registering an orphan": when no request is open every source that runs is
\* configured, also when the removal came while the source was starting.
NoOrphan ==
  Quiet => \A i \in live : nameOf[i] \in again \/ mem.entries[nameOf[i]] # None

\* "a revoked permission elevation would otherwise keep running with the broader grant":
\* the running source has the overrides of the configuration.  An ai-scratch that a removal
\* left running is excepted: the next load enters it with no overrides and tells it nothing.
OverridesReach ==
  Quiet => \A n \in Names :
    (n # Scratch \/ n \notin again) /\ mgr[n] \in live /\ mem.entries[n] # None =>
      parentOv[mgr[n]] = mem.entries[n].ov
=============================================================================
