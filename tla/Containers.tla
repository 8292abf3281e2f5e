------------------------------ MODULE Containers ------------------------------
(***************************************************************************)
(* Runs in containers: the docker runtime, whose calls the run makes one   *)
(* by one (runtime/docker/docker.go), the podman runtime, whose client is  *)
(* a child process (runtime/podman/runtime.go), the policy both check, the *)
(* local images and their collection (runtime/imagegc), and the clean-up   *)
(* of what the last session left (docker/cleanup.go).                      *)
(*                                                                         *)
(* The runs are of one task and follow each other.  The engine has a run   *)
(* over when its row is settled; a crash ends a session.                   *)
(***************************************************************************)
EXTENDS Naturals, FiniteSets

CONSTANTS
  Runs, Configs,   \* [kind, asks, mode, net, ports, build]
  Policy,          \* what container_security allows
  MaxEdits, MaxFaults,  \* bounds: Dockerfile edits; failures and crashes
  None

VARIABLES
  phase,      \* of the session
  cfg,        \* the task's docker block
  file,       \* its Dockerfile: a version, or None while it cannot be read
  known,      \* the task is in the registry
  images, doomed,  \* local images of the task; those a collection is about to remove
  pc, tag, cancelled, watcher,  \* of a run
  box,        \* the container of a run
  orphans,    \* containers the clean-up has listed
  left,       \* runs whose container a failed call left behind
  edits, faults

vars == <<phase, cfg, file, known, images, doomed, pc, tag, cancelled, watcher, box, orphans, left, edits, faults>>
taskVars == <<cfg, file, known, edits>>
imageVars == <<images, doomed>>
runVars == <<pc, tag, cancelled, watcher>>

\* EffectiveNetworkMode; "" is the runtime's default.
Network(c) == IF c.mode # None THEN c.mode ELSE IF c.net \/ c.ports THEN "" ELSE "none"
\* What a build is tagged with, and what the collection expects (CurrentTags).
BuildTag(c, v) == [v |-> v, net |-> Network(c)]
Expected(v) == [v |-> v, net |-> None]

Init ==
  /\ phase = "up" /\ cfg \in Configs /\ file = 0 /\ known = TRUE
  /\ images = {} /\ doomed = {}
  /\ pc = [r \in Runs |-> "new"] /\ tag = [r \in Runs |-> None]
  /\ cancelled = {} /\ watcher = [r \in Runs |-> "idle"]
  /\ box = [r \in Runs |-> None] /\ orphans = {} /\ left = {}
  /\ edits = 0 /\ faults = 0

Fails == faults < MaxFaults /\ faults' = faults + 1
Fine == UNCHANGED faults
To(r, l) == pc' = [pc EXCEPT ![r] = l]
At(r, l) == pc[r] = l /\ UNCHANGED <<phase, taskVars, orphans, cancelled>>
Live(r) == pc[r] \notin {"new", "over"}
Docker == cfg.kind = "docker"

-----------------------------------------------------------------------------
(* What both runtimes do. *)

Begin(r) ==
  /\ phase = "up" /\ pc[r] = "new" /\ \A s \in Runs : ~Live(s)
  /\ To(r, "check")
  /\ UNCHANGED <<phase, taskVars, imageVars, tag, cancelled, watcher, box, orphans, left, faults>>
\* A kill or a timeout cancels the context of the run.
Cancel(r) ==
  /\ Live(r) /\ cancelled' = cancelled \cup {r}
  /\ UNCHANGED <<phase, taskVars, imageVars, pc, tag, watcher, box, orphans, left, faults>>

\* containersec.Validate: every request that the policy does not allow is refused.
Refused == cfg.asks \ Policy # {}
Check(r) ==
  /\ At(r, "check")
  /\ To(r, IF Refused THEN "over" ELSE IF cfg.build THEN "inspect" ELSE IF Docker THEN "create" ELSE "spawn")
  /\ UNCHANGED <<imageVars, tag, watcher, box, left, faults>>
\* buildImage: the tag is of the file as it is now.
Inspect(r) ==
  /\ At(r, "inspect")
  /\ IF file = None THEN To(r, "over") /\ UNCHANGED tag
     ELSE /\ tag' = [tag EXCEPT ![r] = BuildTag(cfg, file)]
          /\ To(r, IF BuildTag(cfg, file) \in images THEN IF Docker THEN "create" ELSE "spawn" ELSE "build")
  /\ UNCHANGED <<imageVars, watcher, box, left, faults>>
Build(r) ==
  /\ At(r, "build")
  /\ \/ images' = images \cup {tag[r]} /\ To(r, IF Docker THEN "create" ELSE "spawn") /\ r \notin cancelled /\ Fine
     \/ To(r, "over") /\ (IF r \in cancelled THEN Fine ELSE Fails) /\ UNCHANGED images
  /\ UNCHANGED <<doomed, tag, watcher, box, left>>
ImageThere(r) == cfg.build => tag[r] \in images

\* A container ends by itself; one of podman is removed with it (--rm).
ContainerExits(r) ==
  /\ box[r] = "running"
  /\ box' = [box EXCEPT ![r] = IF Docker THEN "exited" ELSE None]
  /\ UNCHANGED <<phase, taskVars, imageVars, runVars, orphans, left, faults>>

-----------------------------------------------------------------------------
(* docker: Run makes one call after the other. *)

\* A call that is cut off by the cancellation may have made the container.
Create(r) ==
  /\ At(r, "create")
  /\ \/ /\ ImageThere(r) /\ r \notin cancelled
        /\ box' = [box EXCEPT ![r] = "created"] /\ To(r, "start") /\ UNCHANGED left /\ Fine
     \/ /\ To(r, "over") /\ UNCHANGED <<box, left>>
        /\ IF r \in cancelled \/ ~ImageThere(r) THEN Fine ELSE Fails
     \/ /\ r \in cancelled /\ ImageThere(r) /\ To(r, "over")
        /\ box' = [box EXCEPT ![r] = "created"] /\ left' = left \cup {r} /\ Fine
  /\ UNCHANGED <<imageVars, tag, watcher>>
\* The deferred removal stands from here on.
Start(r) ==
  /\ At(r, "start")
  /\ \/ box' = [box EXCEPT ![r] = "running"] /\ To(r, "attach") /\ Fine
     \/ To(r, "remove") /\ (IF r \in cancelled THEN Fine ELSE Fails) /\ UNCHANGED box
  /\ UNCHANGED <<imageVars, tag, watcher, left>>
\* ContainerLogs; then the watcher of the context is started.
Attach(r) ==
  /\ At(r, "attach")
  /\ \/ To(r, "wait") /\ watcher' = [watcher EXCEPT ![r] = "armed"] /\ Fine
     \/ To(r, "remove") /\ Fails /\ UNCHANGED watcher
  /\ UNCHANGED <<imageVars, tag, box, left>>
\* ContainerWait is not tied to the context: a kill ends it by stopping the container.
Wait(r) ==
  /\ At(r, "wait") /\ (IF box[r] # "running" THEN Fine ELSE Fails)
  /\ To(r, "drain")
  /\ UNCHANGED <<imageVars, tag, watcher, box, left>>
\* The log reader ends with the container, or is closed by the watcher.
Drain(r) ==
  /\ At(r, "drain") /\ (box[r] # "running" \/ watcher[r] \in {"stop", "done"})
  /\ To(r, "remove")
  /\ UNCHANGED <<imageVars, tag, watcher, box, left, faults>>
\* ContainerRemove, by force; its error is dropped.
Remove(r) ==
  /\ At(r, "remove") /\ To(r, "over")
  /\ \/ box' = [box EXCEPT ![r] = None] /\ UNCHANGED left /\ Fine
     \/ left' = left \cup {r} /\ UNCHANGED box /\ Fails
  /\ UNCHANGED <<imageVars, tag, watcher>>

-----------------------------------------------------------------------------
(* podman: the client makes the container and stays with it. *)

Spawn(r) ==
  /\ At(r, "spawn")
  /\ \/ To(r, "client") /\ watcher' = [watcher EXCEPT ![r] = "armed"] /\ r \notin cancelled /\ Fine
     \/ To(r, "over") /\ (IF r \in cancelled THEN Fine ELSE Fails) /\ UNCHANGED watcher
  /\ UNCHANGED <<imageVars, tag, box, left>>
\* A container stays behind if the watcher of a killed run is done before it is made.
Made(r) ==
  /\ box' = [box EXCEPT ![r] = "running"]
  /\ left' = IF watcher[r] = "done" THEN left \cup {r} ELSE left
ClientRuns(r) ==
  /\ At(r, "client") /\ box[r] = None
  /\ IF ImageThere(r) THEN Made(r) /\ To(r, "attached") ELSE To(r, "over") /\ UNCHANGED <<box, left>>
  /\ UNCHANGED <<imageVars, tag, watcher, faults>>
\* The client returns when the container is gone.
ClientReturns(r) ==
  /\ At(r, "attached") /\ box[r] = None
  /\ To(r, "over")
  /\ UNCHANGED <<imageVars, tag, watcher, box, left, faults>>
\* exec.CommandContext kills the client; a container it was making may come to be.
ClientKilled(r) ==
  /\ r \in cancelled /\ \/ At(r, "client") \/ At(r, "attached")
  /\ To(r, "over")
  /\ \/ UNCHANGED <<box, left>>
     \/ /\ pc[r] = "client" /\ ImageThere(r) /\ Made(r)
  /\ UNCHANGED <<imageVars, tag, watcher, faults>>

-----------------------------------------------------------------------------
(* The goroutine that waits for the context of the run.                    *)

\* docker: the log reader is closed, then the container stopped.  podman: stop, then rm.
Watch(r) ==
  /\ r \in cancelled /\ watcher[r] \in {"armed", "stop"}
  /\ watcher' = [watcher EXCEPT ![r] = IF @ = "armed" THEN "stop" ELSE "done"]
  /\ box' = [box EXCEPT ![r] =
       IF Docker THEN IF watcher[r] = "stop" /\ @ = "running" THEN "exited" ELSE @ ELSE None]
  /\ UNCHANGED <<phase, taskVars, imageVars, pc, tag, cancelled, orphans, left, faults>>

-----------------------------------------------------------------------------
(* The collection of images: two minutes after the start, then daily. *)

\* SelectOrphans over the images that are there, for the tasks registered now.
CollectList ==
  /\ phase = "up" /\ doomed = {}
  /\ ~(known /\ cfg.build /\ file = None)
  /\ doomed' = images \ (IF known /\ cfg.build THEN {Expected(file)} ELSE {})
  /\ UNCHANGED <<phase, taskVars, images, runVars, box, orphans, left, faults>>
\* An image that a container uses is refused by the runtime.
CollectOne(i) ==
  /\ i \in doomed /\ doomed' = doomed \ {i}
  /\ images' = IF \E r \in Runs : box[r] # None /\ tag[r] = i THEN images ELSE images \ {i}
  /\ UNCHANGED <<phase, taskVars, runVars, box, orphans, left, faults>>

-----------------------------------------------------------------------------
(* The task and the session. *)

Edit ==
  /\ edits < MaxEdits /\ edits' = edits + 1
  /\ \E v \in (0..MaxEdits) \cup {None}, k \in BOOLEAN : file' = v /\ known' = k
  /\ UNCHANGED <<phase, cfg, imageVars, runVars, box, orphans, left, faults>>
\* The goroutines of the session are gone, its containers are not.
Crash ==
  /\ phase = "up" /\ Fails /\ phase' = "down"
  /\ pc' = [r \in Runs |-> IF Live(r) THEN "over" ELSE pc[r]]
  /\ watcher' = [r \in Runs |-> "idle"] /\ doomed' = {}
  /\ UNCHANGED <<taskVars, images, tag, cancelled, box, orphans, left>>
\* setupRegistry cleans up before anything can run; the list may fail.
BootList ==
  /\ phase = "down" /\ phase' = "boot"
  /\ \/ orphans' = {r \in Runs : box[r] # None} /\ left' = {} /\ Fine
     \/ orphans' = {} /\ left' = {r \in Runs : box[r] # None} /\ Fails
  /\ UNCHANGED <<taskVars, imageVars, runVars, box>>
BootRemove(r) ==
  /\ phase = "boot" /\ r \in orphans /\ orphans' = orphans \ {r}
  /\ \/ box' = [box EXCEPT ![r] = None] /\ UNCHANGED left /\ Fine
     \/ left' = left \cup {r} /\ UNCHANGED box /\ Fails
  /\ UNCHANGED <<phase, taskVars, imageVars, runVars>>
BootDone ==
  /\ phase = "boot" /\ orphans = {} /\ phase' = "up"
  /\ UNCHANGED <<taskVars, imageVars, runVars, box, orphans, left, faults>>

Next ==
  \/ \E r \in Runs :
       \/ Begin(r) \/ Cancel(r) \/ Check(r) \/ Inspect(r) \/ Build(r) \/ ContainerExits(r)
       \/ Create(r) \/ Start(r) \/ Attach(r) \/ Wait(r) \/ Drain(r) \/ Remove(r)
       \/ Spawn(r) \/ ClientRuns(r) \/ ClientReturns(r) \/ ClientKilled(r) \/ Watch(r) \/ BootRemove(r)
  \/ CollectList \/ (\E i \in images : CollectOne(i))
  \/ Edit \/ Crash \/ BootList \/ BootDone

Spec == Init /\ [][Next]_vars

-----------------------------------------------------------------------------
TypeOK ==
  /\ phase \in {"up", "down", "boot"} /\ cfg \in Configs
  /\ \A r \in Runs : box[r] \in {None, "created", "running", "exited"}
  /\ orphans \cup left \subseteq Runs

\* While the daemon is up, each container has someone who will remove it: its run, or
\* under podman the watcher of a killed run; but for those a failed call left behind.
EachHasAnOwner ==
  phase = "up" => \A r \in Runs \ left :
    box[r] # None => \/ pc[r] \in {"start", "attach", "wait", "drain", "remove", "attached"}
                     \/ ~Docker /\ r \in cancelled /\ watcher[r] \in {"armed", "stop"}

\* Two runs of a task never have their containers running at once, except that podman's
\* stop of a killed run overlaps with what follows.
OneContainer ==
  \A r, s \in Runs \ left :
    phase = "up" /\ r # s /\ box[r] = "running" /\ box[s] = "running" => ~Docker /\ {r, s} \cap cancelled # {}

\* No container was made for a configuration that the policy does not allow.
AllowedOnly == \A r \in Runs : box[r] # None => ~Refused
=============================================================================
