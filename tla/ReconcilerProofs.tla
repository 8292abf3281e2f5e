--------------------------- MODULE ReconcilerProofs ---------------------------
(***************************************************************************)
(* Proofs about Reconciler, for any tasks, sources, providers and          *)
(* capacities: Ready closes only when every initial scan has been applied, *)
(* and only a task that was removed from the disk leaves the registry.     *)
(***************************************************************************)
EXTENDS Reconciler, SequenceTheorems, FiniteSetTheorems, FunctionTheorems, TLAPS

-----------------------------------------------------------------------------
(* The inductive invariant.                                                *)

\* What a source reports is about a task; only the forwarder makes barriers.
Reports == [task : Tasks, version : MaybeVersion]

Carried ==
  /\ outbox \in [Sources -> Seq(Reports)]
  /\ plan \in [Passes -> Seq(Reports)]
  /\ \A p \in Passes : pc[p] = "emit" => plan[p] # <<>>
  /\ \A g \in Retriers : todo[g] \subseteq Reports /\ sending[g] \subseteq Reports

\* A removal that is reported or on its way was on the disk.
Gone(e) == e.task \in Tasks /\ e.version = NoVersion => e.task \in absent
Removals ==
  /\ \A t \in Tasks : disk[t] = NoVersion => t \in absent
  /\ \A p \in Passes, t \in Tasks :
       pc[p] = "diff" /\ SourceOf[t] = p[1] /\ scan[p][t] = NoVersion => t \in absent
  /\ \A p \in Passes : \A i \in DOMAIN plan[p] : Gone(plan[p][i])
  /\ \A s \in Sources : \A i \in DOMAIN outbox[s] : Gone(outbox[s][i])
  /\ \A i \in DOMAIN merged : Gone(merged[i])
  /\ \A g \in Retriers : \A e \in todo[g] \cup sending[g] : Gone(e)

\* The barriers that are still to come: one for each source that has not sent it,
\* and those in the channel.
Barriers(m) == {i \in DOMAIN m : m[i].task = NoTask}
BarriersCount == initPending = Cardinality(barred) + Cardinality(Barriers(merged))
ReadyAfterBarriers == ready => initPending = 0

\* The rest of an initial batch is in the source's channel, and its barrier is not
\* sent.
BatchesLead ==
  \A s \in Sources :
    /\ batch[s] <= Len(outbox[s])
    /\ batch[s] > 0 => s \in barred /\ s \in started
    /\ s \notin started => s \in barred

\* A task of an initial scan that is not applied yet is in the batch of a source,
\* or in the merged channel and followed by a barrier, now or later.
InBatch(t, s) == \E i \in 1..batch[s] : outbox[s][i].task = t
Followed(m, b, i) == b # {} \/ \E j \in Barriers(m) : j > i
InMerged(t, m, b) == \E i \in DOMAIN m : m[i].task = t /\ Followed(m, b, i)
InitialOnTheWay ==
  \A t \in initial : (\E s \in Sources : InBatch(t, s)) \/ InMerged(t, merged, barred)

IInv == TypeOK /\ Carried /\ Removals /\ BarriersCount /\ ReadyAfterBarriers /\ BatchesLead
        /\ InitialOnTheWay

-----------------------------------------------------------------------------
(* Sequences.                                                              *)

LEMMA Appended ==
  ASSUME NEW S, NEW s \in Seq(S), NEW e \in S
  PROVE  /\ Append(s, e) \in Seq(S) /\ Len(Append(s, e)) = Len(s) + 1
         /\ DOMAIN s = 1..Len(s) /\ DOMAIN Append(s, e) = 1..(Len(s) + 1)
         /\ \A i \in 1..Len(s) : Append(s, e)[i] = s[i]
         /\ Append(s, e)[Len(s) + 1] = e
         /\ \A i \in DOMAIN Append(s, e) : i \in DOMAIN s \/ Append(s, e)[i] = e
  BY AppendProperties, LenProperties

LEMMA Dequeued ==
  ASSUME NEW S, NEW s \in Seq(S), s # <<>>
  PROVE  /\ Head(s) \in S /\ Tail(s) \in Seq(S)
         /\ Len(s) \in Nat \ {0} /\ Len(Tail(s)) = Len(s) - 1
         /\ DOMAIN s = 1..Len(s) /\ DOMAIN Tail(s) = 1..(Len(s) - 1)
         /\ Head(s) = s[1]
         /\ \A i \in 1..(Len(s) - 1) : Tail(s)[i] = s[i + 1]
         /\ \A i \in DOMAIN Tail(s) : i + 1 \in DOMAIN s /\ Tail(s)[i] = s[i + 1]
<1>1. Len(s) \in Nat \ {0} /\ Head(s) = s[1]
  BY EmptySeq
<1> QED
  BY <1>1, HeadTailProperties, LenProperties

LEMMA FunctionIsSeq ==
  ASSUME NEW S, NEW n \in Nat, NEW f \in [1..n -> S]
  PROVE  f \in Seq(S)
<1>1. f \in UNION {[1..m -> S] : m \in Nat}
  OBVIOUS
<1> QED
  BY <1>1, SeqDef

-----------------------------------------------------------------------------
(* Types.                                                                  *)

LEMMA Typed ==
  ASSUME TypeOK, Carried
  PROVE  /\ Reports \subseteq Events /\ NoTask \notin Tasks
         /\ Passes = Sources \X {"watch", "api"}
         /\ \A s \in Sources : outbox[s] \in Seq(Reports) /\ Len(outbox[s]) \in Nat
         /\ \A p \in Passes : plan[p] \in Seq(Reports) /\ scan[p] \in [Tasks -> OnDisk] /\ p[1] \in Sources
         /\ merged \in Seq(Events) /\ Len(merged) \in Nat
         /\ \A s \in Sources : <<s, "watch">> \in Passes /\ <<s, "api">> \in Passes
         /\ Nothing \in [Tasks -> MaybeVersion] /\ Nothing \in [Tasks -> OnDisk]
         /\ Barrier \in Events
  BY SourceAssumption, LenProperties
     DEF TypeOK, SourceTypeOK, Carried, Reports, Events, Passes, MaybeVersion, OnDisk, Nothing, Barrier, Event

\* The types, and what is carried, are preserved.
LEMMA TypesStep ==
  ASSUME TypeOK, Carried, BarriersCount, [Next]_vars
  PROVE  TypeOK' /\ Carried'
<1>1. ASSUME SeeBarrier PROVE TypeOK' /\ Carried'
  <2>1. /\ Head(merged) \in Events /\ Tail(merged) \in Seq(Events)
        /\ Len(Tail(merged)) <= Capacity /\ merged # <<>>
    BY <1>1, Typed, Dequeued, ReconcilerAssumption DEF SeeBarrier, Next1, TypeOK
  <2>2. Head(merged).version \in MaybeVersion
    BY <2>1 DEF Events
  <2>3. initPending - 1 \in 0..Cardinality(Sources)
    <3>1. Barriers(merged) # {} /\ IsFiniteSet(Barriers(merged)) /\ IsFiniteSet(barred)
      <4>1. 1 \in DOMAIN merged /\ merged[1].task = NoTask
        BY <2>1, <1>1, Dequeued, Typed DEF SeeBarrier, Next1
      <4>2. IsFiniteSet(DOMAIN merged)
        BY Typed, LenProperties, FS_Interval
      <4> QED
        BY <4>1, <4>2, FS_Subset, SourceAssumption DEF Barriers, TypeOK
    <3>2. Cardinality(Barriers(merged)) \in Nat \ {0} /\ Cardinality(barred) \in Nat
      BY <3>1, FS_EmptySet, FS_CardinalityType
    <3> QED
      BY <3>2, FS_CardinalityType, SourceAssumption DEF TypeOK, BarriersCount
  <2> QED
    BY <2>1, <2>3, <1>1
       DEF SeeBarrier, Take, forwardVars, retryVars, sourceVars, diskVars, passVars, TypeOK,
       SourceTypeOK, Carried
<1>2. ASSUME NEW t \in Tasks, QueueTask(t) PROVE TypeOK' /\ Carried'
  <2>1. /\ Head(merged) \in Events /\ Tail(merged) \in Seq(Events)
        /\ Len(Tail(merged)) <= Capacity /\ merged # <<>>
    BY <1>2, Typed, Dequeued, ReconcilerAssumption DEF QueueTask, Next1, TypeOK
  <2>2. Head(merged).version \in MaybeVersion
    BY <2>1 DEF Events
  <2> QED
    BY <2>1, <2>2, <1>2, SourceAssumption
       DEF QueueTask, Take, retryVars, sourceVars, diskVars, passVars, TypeOK, SourceTypeOK, Carried,
       MaybeVersion
<1>3. ASSUME NEW t \in Tasks, RegisterTask(t) PROVE TypeOK' /\ Carried'
  <2>1. /\ Head(merged) \in Events /\ Tail(merged) \in Seq(Events)
        /\ Len(Tail(merged)) <= Capacity /\ merged # <<>>
    BY <1>3, Typed, Dequeued, ReconcilerAssumption DEF RegisterTask, Next1, TypeOK
  <2>2. Head(merged).version \in MaybeVersion
    BY <2>1 DEF Events
  <2>3. queued' \in [Tasks -> MaybeVersion]
    BY <1>3 DEF RegisterTask, Unqueue, TypeOK, MaybeVersion
  <2>4. /\ spawned' \in 0..MaxRetriers /\ sending' = sending
        /\ todo' \in [Retriers -> SUBSET Reports]
    <3> DEFINE events == {Event(u, queued'[u]) : u \in {w \in Tasks : queued'[w] # NoVersion}}
    <3>1. events \subseteq Reports
      BY <2>3 DEF Event, Reports
    <3>2. todo \in [Retriers -> SUBSET Reports]
      BY DEF TypeOK, Carried
    <3>3. \/ spawned' = spawned /\ todo' = todo /\ sending' = sending
          \/ /\ spawned < MaxRetriers /\ spawned' = spawned + 1 /\ sending' = sending
             /\ todo' = [todo EXCEPT ![spawned'] = events]
      BY <1>3 DEF RegisterTask, RetryQueued, retryVars
    <3> HIDE DEF events
    <3> QED
      BY <3>1, <3>2, <3>3, ReconcilerAssumption DEF TypeOK, Retriers
  <2> QED
    BY <2>1, <2>2, <2>3, <2>4, <1>3, Typed
       DEF RegisterTask, Take, sourceVars, diskVars, passVars, TypeOK, SourceTypeOK, Carried
<1>4. ASSUME NEW t \in Tasks, RemoveTask(t) PROVE TypeOK' /\ Carried'
  <2>1. /\ Head(merged) \in Events /\ Tail(merged) \in Seq(Events)
        /\ Len(Tail(merged)) <= Capacity /\ merged # <<>>
    BY <1>4, Typed, Dequeued, ReconcilerAssumption DEF RemoveTask, Next1, TypeOK
  <2>2. Head(merged).version \in MaybeVersion
    BY <2>1 DEF Events
  <2> QED
    BY <2>1, <2>2, <1>4, SourceAssumption
       DEF RemoveTask, Take, retryVars, sourceVars, diskVars, passVars, TypeOK, SourceTypeOK, Carried,
       MaybeVersion
<1>5. ASSUME NEW s \in Sources, Started(s) PROVE TypeOK' /\ Carried'
  <2>1. {outbox[s][i].task : i \in DOMAIN outbox[s]} \subseteq Tasks
    <3>1. outbox[s] \in [1..Len(outbox[s]) -> Reports]
      BY Typed, LenProperties
    <3> QED
      BY <3>1 DEF Reports
  <2> QED
    BY <2>1, <1>5, Typed
       DEF Started, diskVars, passVars, loopVars, retryVars, TypeOK, SourceTypeOK, Carried
<1>6. ASSUME NEW s \in Sources, Forward(s) PROVE TypeOK' /\ Carried'
  <2>1. /\ Head(outbox[s]) \in Reports /\ Tail(outbox[s]) \in Seq(Reports)
        /\ Len(Tail(outbox[s])) = Len(outbox[s]) - 1 /\ Len(outbox[s]) \in Nat
    BY <1>6, Typed, Dequeued DEF Forward
  <2>2. merged' \in Seq(Events) /\ Len(merged') <= Capacity
    BY <2>1, <1>6, Typed, Appended, ReconcilerAssumption DEF Forward, HasRoom
  <2>3. /\ outbox' \in [Sources -> Seq(Reports)] /\ outbox' \in [Sources -> Seq(Events)]
        /\ \A x \in Sources : Len(outbox'[x]) <= SourceCapacity
    <3>1. \A x \in Sources : outbox'[x] \in Seq(Reports) /\ outbox'[x] \in Seq(Events)
                            /\ Len(outbox'[x]) <= SourceCapacity
      BY <2>1, <1>6, Typed, SeqMonotonic, SourceAssumption DEF Forward, TypeOK, SourceTypeOK, Carried
    <3> QED
      BY <3>1, <1>6 DEF Forward, Carried
  <2> QED
    BY <2>2, <2>3, <1>6, Typed
       DEF Forward, diskVars, passVars, loopVars, retryVars, TypeOK, SourceTypeOK, Carried
<1>7. ASSUME NEW s \in Sources, SendBarrier(s) PROVE TypeOK' /\ Carried'
  <2>1. merged' \in Seq(Events) /\ Len(merged') <= Capacity
    BY <1>7, Typed, Appended, ReconcilerAssumption DEF SendBarrier, HasRoom
  <2> QED
    BY <2>1, <1>7
       DEF SendBarrier, loopVars, retryVars, sourceVars, diskVars, passVars, TypeOK, SourceTypeOK,
       Carried
<1>8. ASSUME NEW s \in Sources, SourceStep(BeginStart(s)) PROVE TypeOK' /\ Carried'
  BY <1>8, Typed, SourceAssumption, ReconcilerAssumption DEF BeginStart, SourceStep,
     forwardVars, loopVars, retryVars, diskVars, TypeOK, SourceTypeOK, Carried
<1>9. ASSUME NEW s \in Sources, SourceStep(FirstPass(s)) PROVE TypeOK' /\ Carried'
  <2>1. scan' \in [Passes -> [Tasks -> OnDisk]]
    BY <1>9, Typed DEF SourceStep, FirstPass, Resolve, TypeOK, SourceTypeOK, OnDisk, MaybeVersion
  <2>2. /\ pc' \in [Passes -> {"idle", "start", "diff", "emit"}]
        /\ \A p \in Passes : pc'[p] = "emit" => pc[p] = "emit"
    BY <1>9, Typed DEF SourceStep, FirstPass, Resolve, TypeOK, SourceTypeOK
  <2> QED
    BY <2>1, <2>2, <1>9, SourceAssumption
       DEF SourceStep, FirstPass, Resolve, forwardVars, loopVars, retryVars, diskVars, TypeOK,
       SourceTypeOK, Carried
<1>10. ASSUME NEW s \in Sources, SourceStep(Watch(s)) PROVE TypeOK' /\ Carried'
  <2>1. scan' \in [Passes -> [Tasks -> OnDisk]]
    BY <1>10, Typed DEF SourceStep, Watch, Resolve, TypeOK, SourceTypeOK, OnDisk, MaybeVersion
  <2>2. /\ pc' \in [Passes -> {"idle", "start", "diff", "emit"}]
        /\ \A p \in Passes : pc'[p] = "emit" => pc[p] = "emit"
    BY <1>10, Typed DEF SourceStep, Watch, Resolve, TypeOK, SourceTypeOK
  <2> QED
    BY <2>1, <2>2, <1>10, SourceAssumption
       DEF SourceStep, Watch, Resolve, forwardVars, loopVars, retryVars, diskVars, TypeOK,
       SourceTypeOK, Carried
<1>11. ASSUME NEW s \in Sources, SourceStep(Call(s)) PROVE TypeOK' /\ Carried'
  <2>1. scan' \in [Passes -> [Tasks -> OnDisk]]
    BY <1>11, Typed DEF SourceStep, Call, Resolve, TypeOK, SourceTypeOK, OnDisk, MaybeVersion
  <2>2. /\ pc' \in [Passes -> {"idle", "start", "diff", "emit"}]
        /\ \A p \in Passes : pc'[p] = "emit" => pc[p] = "emit"
    BY <1>11, Typed DEF SourceStep, Call, Resolve, TypeOK, SourceTypeOK
  <2> QED
    BY <2>1, <2>2, <1>11, SourceAssumption
       DEF SourceStep, Call, Resolve, forwardVars, loopVars, retryVars, diskVars, TypeOK,
       SourceTypeOK, Carried
<1>12. ASSUME NEW p \in Passes, SourceStep(Diff(p)) PROVE TypeOK' /\ Carried'
  <2> DEFINE cur == Current(p)
             differ == {t \in Tasks : cur[t] # snapshot[t]}
  <2>1. cur \in [Tasks -> MaybeVersion]
    BY Typed DEF Current, TypeOK, SourceTypeOK, OnDisk
  <2>2. /\ snapshot' = cur /\ scan' = [scan EXCEPT ![p] = Nothing]
        /\ pc' = [pc EXCEPT ![p] = IF differ = {} THEN "idle" ELSE "emit"]
        /\ \E order \in [1..Cardinality(differ) -> differ] :
             plan' = [plan EXCEPT ![p] = [i \in DOMAIN order |-> Event(order[i], cur[order[i]])]]
    BY <1>12 DEF SourceStep, Diff
  <2>3. PICK order \in [1..Cardinality(differ) -> differ] :
          plan' = [plan EXCEPT ![p] = [i \in DOMAIN order |-> Event(order[i], cur[order[i]])]]
    BY <2>2
  <2> DEFINE events == [i \in DOMAIN order |-> Event(order[i], cur[order[i]])]
  <2>4. IsFiniteSet(differ) /\ Cardinality(differ) \in Nat /\ (differ # {} => Cardinality(differ) > 0)
    BY SourceAssumption, FS_Subset, FS_CardinalityType, FS_EmptySet
  <2>5. DOMAIN order = 1..Cardinality(differ)
    OBVIOUS
  <2>6. events \in [1..Cardinality(differ) -> Reports]
    BY <2>1, <2>5 DEF Event, Reports
  <2>7. events \in Seq(Reports) /\ (differ # {} => events # <<>>)
    <3>1. events \in Seq(Reports)
      BY <2>4, <2>6, FunctionIsSeq
    <3>2. ASSUME differ # {}, events = <<>> PROVE FALSE
      <4>1. 1 \in DOMAIN events
        BY <2>4, <2>6, <3>2
      <4> QED
        BY <3>2, <4>1
    <3> QED
      BY <3>1, <3>2
  <2> HIDE DEF events, differ, cur
  <2>8. events \in Seq(Events) /\ plan' = [plan EXCEPT ![p] = events]
    BY <2>3, <2>7, Typed, SeqMonotonic DEF events
  <2>9. /\ plan' \in [Passes -> Seq(Reports)] /\ plan' \in [Passes -> Seq(Events)]
        /\ \A x \in Passes : pc'[x] = "emit" => plan'[x] # <<>>
    BY <2>2, <2>7, <2>8, Typed DEF Carried, TypeOK, SourceTypeOK
  <2>10. /\ scan' \in [Passes -> [Tasks -> OnDisk]]
         /\ pc' \in [Passes -> {"idle", "start", "diff", "emit"}]
    BY <2>2, Typed DEF TypeOK, SourceTypeOK
  <2> QED
    BY <2>1, <2>2, <2>9, <2>10, <1>12
       DEF SourceStep, Diff, forwardVars, loopVars, retryVars, diskVars, TypeOK, SourceTypeOK, Carried
<1>13. ASSUME NEW p \in Passes, SourceStep(Emit(p)) PROVE TypeOK' /\ Carried'
  <2>1. /\ plan[p] # <<>> /\ Head(plan[p]) \in Reports /\ Tail(plan[p]) \in Seq(Reports)
    BY <1>13, Typed, Dequeued DEF SourceStep, Emit, Carried
  <2>2. /\ outbox' \in [Sources -> Seq(Reports)] /\ outbox' \in [Sources -> Seq(Events)]
        /\ \A x \in Sources : Len(outbox'[x]) <= SourceCapacity
    <3>1. Append(outbox[p[1]], Head(plan[p])) \in Seq(Reports)
          /\ Len(Append(outbox[p[1]], Head(plan[p]))) = Len(outbox[p[1]]) + 1
      BY <2>1, Typed, Appended
    <3>2. \A x \in Sources : /\ outbox'[x] \in Seq(Reports) /\ outbox'[x] \in Seq(Events)
                            /\ Len(outbox'[x]) <= SourceCapacity
      BY <3>1, <1>13, Typed, SeqMonotonic, SourceAssumption
         DEF SourceStep, Emit, TypeOK, SourceTypeOK, Carried
    <3> QED
      BY <3>2, <1>13 DEF SourceStep, Emit, Carried
  <2>3. /\ plan' \in [Passes -> Seq(Reports)] /\ plan' \in [Passes -> Seq(Events)]
        /\ \A x \in Passes : pc'[x] = "emit" => plan'[x] # <<>>
    BY <2>1, <1>13, Typed, SeqMonotonic DEF SourceStep, Emit, Carried, TypeOK, SourceTypeOK
  <2> QED
    BY <2>2, <2>3, <1>13
       DEF SourceStep, Emit, forwardVars, loopVars, retryVars, diskVars, TypeOK, SourceTypeOK, Carried
<1>14. ASSUME NEW t \in Tasks, NEW v \in OnDisk, SourceStep(EditTask(t, v)) PROVE TypeOK' /\ Carried'
  BY <1>14, Typed, SourceAssumption, ReconcilerAssumption DEF EditTask, SourceStep,
     forwardVars, loopVars, retryVars, TypeOK, SourceTypeOK, Carried
<1>15. ASSUME NEW g \in Retriers, CheckQueued(g) PROVE TypeOK' /\ Carried'
  BY <1>15, Typed, SourceAssumption, ReconcilerAssumption DEF CheckQueued, forwardVars,
     loopVars, sourceVars, diskVars, passVars, TypeOK, SourceTypeOK, Carried
<1>16. ASSUME NEW g \in Retriers, SendAgain(g) PROVE TypeOK' /\ Carried'
  <2>1. merged' \in Seq(Events) /\ Len(merged') <= Capacity
    BY <1>16, Typed, Appended, ReconcilerAssumption DEF SendAgain, HasRoom, Carried
  <2> QED
    BY <2>1, <1>16
       DEF SendAgain, forwardVars, loopVars, sourceVars, diskVars, passVars, TypeOK, SourceTypeOK,
       Carried
<1>17. CASE UNCHANGED vars
  BY <1>17, Typed, SourceAssumption, ReconcilerAssumption DEF vars, sourceVars, diskVars,
     passVars, forwardVars, loopVars, retryVars, TypeOK, SourceTypeOK, Carried
<1> QED
  BY <1>1, <1>2, <1>3, <1>4, <1>5, <1>6, <1>7, <1>8, <1>9, <1>10, <1>11, <1>12, <1>13,
     <1>14, <1>15, <1>16, <1>17 DEF Next, Loop, Forwarder, Retrier, Pass, Source, SourceStep

\* Nothing is reported as removed that was not off the disk.
LEMMA RemovalsStep ==
  ASSUME TypeOK, Carried, Removals, [Next]_vars
  PROVE  Removals'
<1>1. ASSUME SeeBarrier PROVE Removals'
  <2>1. \A i \in DOMAIN merged' : \E j \in DOMAIN merged : merged'[i] = merged[j]
    BY <1>1, Typed, Dequeued DEF SeeBarrier, Next1, Take
  <2> QED
    BY <2>1, <1>1
       DEF SeeBarrier, forwardVars, retryVars, sourceVars, diskVars, passVars, Removals, Gone
<1>2. ASSUME NEW t \in Tasks, QueueTask(t) PROVE Removals'
  <2>1. \A i \in DOMAIN merged' : \E j \in DOMAIN merged : merged'[i] = merged[j]
    BY <1>2, Typed, Dequeued DEF QueueTask, Next1, Take
  <2> QED
    BY <2>1, <1>2
       DEF QueueTask, forwardVars, retryVars, sourceVars, diskVars, passVars, Removals, Gone
<1>3. ASSUME NEW t \in Tasks, RegisterTask(t) PROVE Removals'
  <2>1. \A i \in DOMAIN merged' : \E j \in DOMAIN merged : merged'[i] = merged[j]
    BY <1>3, Typed, Dequeued DEF RegisterTask, Next1, Take
  <2>2. \A g \in Retriers : \A e \in todo'[g] : e \in todo[g] \/ e.version # NoVersion
    <3> DEFINE events == {Event(u, queued'[u]) : u \in {w \in Tasks : queued'[w] # NoVersion}}
    <3>1. \A e \in events : e.version # NoVersion
      BY DEF Event
    <3>2. \/ todo' = todo
          \/ todo' = [todo EXCEPT ![spawned'] = events]
      BY <1>3 DEF RegisterTask, RetryQueued, retryVars
    <3> HIDE DEF events
    <3> QED
      BY <3>1, <3>2 DEF TypeOK
  <2>3. sending' = sending
    BY <1>3 DEF RegisterTask, RetryQueued, retryVars
  <2> QED
    BY <2>1, <2>2, <2>3, <1>3
       DEF RegisterTask, sourceVars, diskVars, passVars, Removals, Gone
<1>4. ASSUME NEW t \in Tasks, RemoveTask(t) PROVE Removals'
  <2>1. \A i \in DOMAIN merged' : \E j \in DOMAIN merged : merged'[i] = merged[j]
    BY <1>4, Typed, Dequeued DEF RemoveTask, Next1, Take
  <2> QED
    BY <2>1, <1>4
       DEF RemoveTask, forwardVars, retryVars, sourceVars, diskVars, passVars, Removals, Gone
<1>5. ASSUME NEW s \in Sources, Started(s) PROVE Removals'
  BY <1>5, Typed, SourceAssumption DEF Started, diskVars, passVars, loopVars, retryVars,
     Removals, Gone, TypeOK, SourceTypeOK, Carried
<1>6. ASSUME NEW s \in Sources, Forward(s) PROVE Removals'
  <2>1. /\ \A i \in DOMAIN Tail(outbox[s]) : i + 1 \in DOMAIN outbox[s]
                                         /\ Tail(outbox[s])[i] = outbox[s][i + 1]
        /\ 1 \in DOMAIN outbox[s] /\ Head(outbox[s]) = outbox[s][1] /\ Head(outbox[s]) \in Events
    BY <1>6, Typed, Dequeued DEF Forward
  <2>2. \A x \in Sources : \A i \in DOMAIN outbox'[x] : Gone(outbox'[x][i])
    BY <2>1, <1>6 DEF Forward, Removals, Carried
  <2>3. \A i \in DOMAIN merged' : Gone(merged'[i])
    <3>1. \A i \in DOMAIN merged' : (i \in DOMAIN merged /\ merged'[i] = merged[i])
                                  \/ merged'[i] = Head(outbox[s])
      BY <2>1, <1>6, Typed, Appended DEF Forward
    <3> QED
      BY <2>1, <3>1 DEF Removals
  <2>4. absent' = absent
    BY <1>6 DEF Forward, diskVars
  <2> QED
    BY <2>2, <2>3, <2>4, <1>6 DEF Forward, diskVars, passVars, loopVars, retryVars, Removals, Gone
<1>7. ASSUME NEW s \in Sources, SendBarrier(s) PROVE Removals'
  <2>1. \A i \in DOMAIN merged' : (i \in DOMAIN merged /\ merged'[i] = merged[i])
                                \/ merged'[i] = Barrier
    BY <1>7, Typed, Appended DEF SendBarrier
  <2>2. Gone(Barrier)
    BY Typed DEF Gone, Barrier, Event
  <2> QED
    BY <2>1, <2>2, <1>7
       DEF SendBarrier, loopVars, retryVars, sourceVars, diskVars, passVars, Removals, Gone
<1>8. ASSUME NEW s \in Sources, SourceStep(BeginStart(s)) PROVE Removals'
  BY <1>8, Typed, SourceAssumption DEF BeginStart, SourceStep, forwardVars, loopVars,
     retryVars, diskVars, Removals, Gone, TypeOK, SourceTypeOK, Carried
<1>9. ASSUME NEW s \in Sources, SourceStep(FirstPass(s)) PROVE Removals'
  <2>1. /\ scan' = [scan EXCEPT ![<<s, "watch">>] =
                  [t \in Tasks |-> IF SourceOf[t] = s THEN disk[t] ELSE NoVersion]]
        /\ pc' = [pc EXCEPT ![<<s, "watch">>] = "diff"]
    BY <1>9 DEF SourceStep, FirstPass, Resolve
  <2>2. \A x \in Passes, t \in Tasks :
          pc'[x] = "diff" /\ SourceOf[t] = x[1] /\ scan'[x][t] = NoVersion => t \in absent
    BY <2>1, Typed DEF Removals, TypeOK, SourceTypeOK
  <2> QED
    BY <2>2, <1>9
       DEF SourceStep, FirstPass, Resolve, forwardVars, loopVars, retryVars, diskVars, Removals, Gone
<1>10. ASSUME NEW s \in Sources, SourceStep(Watch(s)) PROVE Removals'
  <2>1. /\ scan' = [scan EXCEPT ![<<s, "watch">>] =
                  [t \in Tasks |-> IF SourceOf[t] = s THEN disk[t] ELSE NoVersion]]
        /\ pc' = [pc EXCEPT ![<<s, "watch">>] = "diff"]
    BY <1>10 DEF SourceStep, Watch, Resolve
  <2>2. \A x \in Passes, t \in Tasks :
          pc'[x] = "diff" /\ SourceOf[t] = x[1] /\ scan'[x][t] = NoVersion => t \in absent
    BY <2>1, Typed DEF Removals, TypeOK, SourceTypeOK
  <2> QED
    BY <2>2, <1>10
       DEF SourceStep, Watch, Resolve, forwardVars, loopVars, retryVars, diskVars, Removals, Gone
<1>11. ASSUME NEW s \in Sources, SourceStep(Call(s)) PROVE Removals'
  <2>1. /\ scan' = [scan EXCEPT ![<<s, "api">>] =
                  [t \in Tasks |-> IF SourceOf[t] = s THEN disk[t] ELSE NoVersion]]
        /\ pc' = [pc EXCEPT ![<<s, "api">>] = "diff"]
    BY <1>11 DEF SourceStep, Call, Resolve
  <2>2. \A x \in Passes, t \in Tasks :
          pc'[x] = "diff" /\ SourceOf[t] = x[1] /\ scan'[x][t] = NoVersion => t \in absent
    BY <2>1, Typed DEF Removals, TypeOK, SourceTypeOK
  <2> QED
    BY <2>2, <1>11
       DEF SourceStep, Call, Resolve, forwardVars, loopVars, retryVars, diskVars, Removals, Gone
<1>12. ASSUME NEW p \in Passes, SourceStep(Diff(p)) PROVE Removals'
  <2> DEFINE cur == Current(p)
             differ == {t \in Tasks : cur[t] # snapshot[t]}
  <2>1. \A t \in differ : cur[t] = NoVersion => t \in absent
    BY <1>12, SourceAssumption DEF SourceStep, Diff, Current, Removals, TypeOK, SourceTypeOK
  <2>2. PICK order \in [1..Cardinality(differ) -> differ] :
          plan' = [plan EXCEPT ![p] = [i \in DOMAIN order |-> Event(order[i], cur[order[i]])]]
    BY <1>12 DEF SourceStep, Diff
  <2>3. \A i \in DOMAIN plan'[p] : Gone(plan'[p][i])
    BY <2>1, <2>2, Typed DEF Gone, Event, Carried
  <2>4. \A x \in Passes : x # p => plan'[x] = plan[x]
    BY <2>2 DEF Carried
  <2>5. \A x \in Passes : pc'[x] = "diff" => pc[x] = "diff" /\ scan'[x] = scan[x]
    BY <1>12 DEF SourceStep, Diff, TypeOK, SourceTypeOK
  <2> HIDE DEF cur, differ
  <2> QED
    BY <2>3, <2>4, <2>5, <1>12
       DEF SourceStep, Diff, forwardVars, loopVars, retryVars, diskVars, Removals, Gone
<1>13. ASSUME NEW p \in Passes, SourceStep(Emit(p)) PROVE Removals'
  <2>1. /\ \A i \in DOMAIN Tail(plan[p]) : i + 1 \in DOMAIN plan[p]
                                       /\ Tail(plan[p])[i] = plan[p][i + 1]
        /\ 1 \in DOMAIN plan[p] /\ Head(plan[p]) = plan[p][1] /\ Head(plan[p]) \in Reports
    BY <1>13, Typed, Dequeued DEF SourceStep, Emit, Carried
  <2>2. \A x \in Passes : \A i \in DOMAIN plan'[x] : Gone(plan'[x][i])
    BY <2>1, <1>13 DEF SourceStep, Emit, Removals, Carried
  <2>3. \A x \in Sources : \A i \in DOMAIN outbox'[x] : Gone(outbox'[x][i])
    <3>1. \A i \in DOMAIN Append(outbox[p[1]], Head(plan[p])) :
            \/ i \in DOMAIN outbox[p[1]] /\ Append(outbox[p[1]], Head(plan[p]))[i] = outbox[p[1]][i]
            \/ Append(outbox[p[1]], Head(plan[p]))[i] = Head(plan[p])
      BY <2>1, Typed, Appended
    <3>2. Gone(Head(plan[p]))
      BY <2>1 DEF Removals
    <3> QED
      BY <3>1, <3>2, <1>13 DEF SourceStep, Emit, Removals, Carried
  <2>4. \A x \in Passes : pc'[x] = "diff" => pc[x] = "diff"
    BY <1>13 DEF SourceStep, Emit, TypeOK, SourceTypeOK
  <2> QED
    BY <2>2, <2>3, <2>4, <1>13
       DEF SourceStep, Emit, forwardVars, loopVars, retryVars, diskVars, Removals, Gone
<1>14. ASSUME NEW t \in Tasks, NEW v \in OnDisk, SourceStep(EditTask(t, v)) PROVE Removals'
  BY <1>14, Typed, SourceAssumption DEF EditTask, SourceStep, forwardVars, loopVars,
     retryVars, Removals, Gone, TypeOK, SourceTypeOK, Carried
<1>15. ASSUME NEW g \in Retriers, CheckQueued(g) PROVE Removals'
  BY <1>15, Typed, SourceAssumption DEF CheckQueued, forwardVars, loopVars, sourceVars,
     diskVars, passVars, Removals, Gone, TypeOK, SourceTypeOK, Carried
<1>16. ASSUME NEW g \in Retriers, SendAgain(g) PROVE Removals'
  <2>1. PICK e \in sending[g] : merged' = Append(merged, e)
    BY <1>16 DEF SendAgain
  <2>2. \A i \in DOMAIN merged' : (i \in DOMAIN merged /\ merged'[i] = merged[i]) \/ merged'[i] = e
    BY <2>1, Typed, Appended DEF Carried
  <2>3. sending' \in [Retriers -> SUBSET Events] /\ \A x \in Retriers : sending'[x] \subseteq sending[x]
    BY <1>16 DEF SendAgain, TypeOK
  <2> QED
    BY <2>1, <2>2, <2>3, <1>16
       DEF SendAgain, forwardVars, loopVars, sourceVars, diskVars, passVars, Removals, Gone
<1>17. CASE UNCHANGED vars
  BY <1>17, Typed, SourceAssumption DEF vars, sourceVars, diskVars, passVars, forwardVars,
     loopVars, retryVars, Removals, Gone, TypeOK, SourceTypeOK, Carried
<1> QED
  BY <1>1, <1>2, <1>3, <1>4, <1>5, <1>6, <1>7, <1>8, <1>9, <1>10, <1>11, <1>12, <1>13,
     <1>14, <1>15, <1>16, <1>17 DEF Next, Loop, Forwarder, Retrier, Pass, Source, SourceStep

-----------------------------------------------------------------------------
(* Barriers.                                                               *)

LEMMA BarriersFinite ==
  ASSUME NEW m \in Seq(Events)
  PROVE  IsFiniteSet(Barriers(m)) /\ Cardinality(Barriers(m)) \in Nat
<1>1. IsFiniteSet(DOMAIN m)
  BY LenProperties, FS_Interval
<1> QED
  BY <1>1, FS_Subset, FS_CardinalityType DEF Barriers

\* A barrier that is appended is one barrier more, and the last.
LEMMA BarriersAppended ==
  ASSUME NEW m \in Seq(Events), NEW e \in Events
  PROVE  /\ e.task = NoTask => /\ Cardinality(Barriers(Append(m, e))) = Cardinality(Barriers(m)) + 1
                               /\ Len(m) + 1 \in Barriers(Append(m, e))
         /\ e.task # NoTask => Barriers(Append(m, e)) = Barriers(m)
         /\ Barriers(m) \subseteq Barriers(Append(m, e))
<1>1. /\ DOMAIN m = 1..Len(m) /\ DOMAIN Append(m, e) = 1..(Len(m) + 1) /\ Len(m) \in Nat
      /\ \A i \in 1..Len(m) : Append(m, e)[i] = m[i]
      /\ Append(m, e)[Len(m) + 1] = e
  BY Appended, LenProperties
<1>2. e.task # NoTask => Barriers(Append(m, e)) = Barriers(m)
  BY <1>1 DEF Barriers
<1>3. e.task = NoTask => /\ Barriers(Append(m, e)) = Barriers(m) \cup {Len(m) + 1}
                         /\ Len(m) + 1 \notin Barriers(m)
  BY <1>1 DEF Barriers
<1>4. Barriers(m) \subseteq Barriers(Append(m, e))
  BY <1>1 DEF Barriers
<1> QED
  BY <1>2, <1>3, <1>4, BarriersFinite, FS_AddElement

\* Taking the head shifts the barriers by one.
LEMMA BarriersTaken ==
  ASSUME NEW m \in Seq(Events), m # <<>>
  PROVE  Cardinality(Barriers(Tail(m))) =
           IF Head(m).task = NoTask THEN Cardinality(Barriers(m)) - 1 ELSE Cardinality(Barriers(m))
<1> DEFINE T == Barriers(Tail(m))
           S == Barriers(m) \ {1}
           f == [i \in T |-> i + 1]
<1>1. /\ Tail(m) \in Seq(Events) /\ Head(m) = m[1] /\ Len(m) \in Nat \ {0}
      /\ DOMAIN m = 1..Len(m) /\ DOMAIN Tail(m) = 1..(Len(m) - 1)
      /\ \A i \in 1..(Len(m) - 1) : Tail(m)[i] = m[i + 1]
  BY Dequeued
<1>2. f \in Bijection(T, S)
  <2>1. \A i \in T : i \in Nat /\ i + 1 \in S
    BY <1>1 DEF Barriers
  <2>2. \A j \in S : j - 1 \in T /\ (j - 1) + 1 = j
    BY <1>1 DEF Barriers
  <2>3. f \in [T -> S]
    BY <2>1
  <2>4. \A a, b \in T : f[a] = f[b] => a = b
    BY <2>1
  <2>5. \A j \in S : \E i \in T : f[i] = j
    BY <2>2
  <2> HIDE DEF f, S, T
  <2>6. f \in Injection(T, S)
    BY <2>3, <2>4 DEF Injection, IsInjective
  <2>7. f \in Surjection(T, S)
    BY <2>3, <2>5 DEF Surjection
  <2> QED
    BY <2>6, <2>7 DEF Bijection
<1>3. Cardinality(S) = Cardinality(T)
  BY <1>1, <1>2, BarriersFinite, FS_Bijection DEF ExistsBijection
<1>4. 1 \in Barriers(m) <=> Head(m).task = NoTask
  BY <1>1 DEF Barriers
<1> QED
  BY <1>3, <1>4, BarriersFinite, FS_RemoveElement

\* Every source that has not sent its barrier, and every barrier in the channel, is one
\* that the loop waits for.
LEMMA BarriersStep ==
  ASSUME TypeOK, Carried, BarriersCount, ReadyAfterBarriers, [Next]_vars
  PROVE  BarriersCount' /\ ReadyAfterBarriers'
<1>1. ASSUME SeeBarrier PROVE BarriersCount' /\ ReadyAfterBarriers'
  <2>1. /\ barred' = barred /\ merged' = Tail(merged) /\ Head(merged).task = NoTask
        /\ merged # <<>> /\ initPending' = initPending - 1
        /\ ready' = (ready \/ initPending' = 0)
    BY <1>1 DEF SeeBarrier, forwardVars, Take, Next1
  <2>2. Cardinality(Barriers(merged)) \in Nat /\ Cardinality(Barriers(merged')) \in Nat
        /\ Cardinality(barred) \in Nat
    BY <2>1, Typed, Dequeued, BarriersFinite, FS_CardinalityType, FS_Subset, SourceAssumption DEF TypeOK
  <2>3. Cardinality(Barriers(merged')) = Cardinality(Barriers(merged)) - 1
    BY <2>1, Typed, BarriersTaken
  <2>4. ~ready
    BY <2>2, <2>3 DEF BarriersCount, ReadyAfterBarriers
  <2>5. ReadyAfterBarriers'
    BY <2>1, <2>4 DEF ReadyAfterBarriers
  <2>6. initPending' = Cardinality(barred) + Cardinality(Barriers(merged'))
    BY <2>1, <2>2, <2>3 DEF BarriersCount
  <2> QED
    BY <2>1, <2>5, <2>6 DEF BarriersCount
<1>2. ASSUME NEW t \in Tasks, QueueTask(t) PROVE BarriersCount' /\ ReadyAfterBarriers'
  <2>1. /\ barred' = barred /\ merged' = Tail(merged) /\ Head(merged).task = t
        /\ merged # <<>> /\ initPending' = initPending /\ ready' = ready
    BY <1>2 DEF QueueTask, forwardVars, Take, Next1
  <2> QED
    BY <2>1, Typed, BarriersTaken DEF BarriersCount, ReadyAfterBarriers
<1>3. ASSUME NEW t \in Tasks, RegisterTask(t) PROVE BarriersCount' /\ ReadyAfterBarriers'
  <2>1. /\ barred' = barred /\ merged' = Tail(merged) /\ Head(merged).task = t
        /\ merged # <<>> /\ initPending' = initPending /\ ready' = ready
    BY <1>3 DEF RegisterTask, forwardVars, Take, Next1
  <2> QED
    BY <2>1, Typed, BarriersTaken DEF BarriersCount, ReadyAfterBarriers
<1>4. ASSUME NEW t \in Tasks, RemoveTask(t) PROVE BarriersCount' /\ ReadyAfterBarriers'
  <2>1. /\ barred' = barred /\ merged' = Tail(merged) /\ Head(merged).task = t
        /\ merged # <<>> /\ initPending' = initPending /\ ready' = ready
    BY <1>4 DEF RemoveTask, forwardVars, Take, Next1
  <2> QED
    BY <2>1, Typed, BarriersTaken DEF BarriersCount, ReadyAfterBarriers
<1>5. ASSUME NEW s \in Sources, Started(s) PROVE BarriersCount' /\ ReadyAfterBarriers'
  BY <1>5 DEF Started, diskVars, passVars, loopVars, retryVars, BarriersCount,
     ReadyAfterBarriers
<1>6. ASSUME NEW s \in Sources, Forward(s) PROVE BarriersCount' /\ ReadyAfterBarriers'
  <2>1. /\ barred' = barred /\ initPending' = initPending /\ ready' = ready
        /\ Head(outbox[s]) \in Reports /\ merged' = Append(merged, Head(outbox[s]))
    BY <1>6, Typed, Dequeued DEF Forward, loopVars
  <2> QED
    BY <2>1, Typed, BarriersAppended DEF BarriersCount, ReadyAfterBarriers, Reports
<1>7. ASSUME NEW s \in Sources, SendBarrier(s) PROVE BarriersCount' /\ ReadyAfterBarriers'
  <2>1. /\ barred' = barred \ {s} /\ s \in barred /\ initPending' = initPending /\ ready' = ready
        /\ merged' = Append(merged, Barrier)
    BY <1>7 DEF SendBarrier, loopVars
  <2>2. Cardinality(Barriers(merged')) = Cardinality(Barriers(merged)) + 1
    BY <2>1, Typed, BarriersAppended DEF Barrier, Event
  <2>3. IsFiniteSet(barred)
    BY FS_Subset, SourceAssumption DEF TypeOK
  <2>4. Cardinality(barred') = Cardinality(barred) - 1 /\ Cardinality(barred) \in Nat
    BY <2>1, <2>3, FS_RemoveElement, FS_CardinalityType
  <2> QED
    BY <2>1, <2>2, <2>4, Typed, BarriersFinite DEF BarriersCount, ReadyAfterBarriers
<1>8. ASSUME NEW s \in Sources, SourceStep(BeginStart(s)) PROVE BarriersCount' /\ ReadyAfterBarriers'
  BY <1>8 DEF BeginStart, SourceStep, forwardVars, loopVars, retryVars, diskVars,
     BarriersCount, ReadyAfterBarriers
<1>9. ASSUME NEW s \in Sources, SourceStep(FirstPass(s)) PROVE BarriersCount' /\ ReadyAfterBarriers'
  BY <1>9 DEF FirstPass, SourceStep, Resolve, forwardVars, loopVars, retryVars, diskVars,
     BarriersCount, ReadyAfterBarriers
<1>10. ASSUME NEW s \in Sources, SourceStep(Watch(s)) PROVE BarriersCount' /\ ReadyAfterBarriers'
  BY <1>10 DEF Watch, SourceStep, Resolve, forwardVars, loopVars, retryVars, diskVars,
     BarriersCount, ReadyAfterBarriers
<1>11. ASSUME NEW s \in Sources, SourceStep(Call(s)) PROVE BarriersCount' /\ ReadyAfterBarriers'
  BY <1>11 DEF Call, SourceStep, Resolve, forwardVars, loopVars, retryVars, diskVars,
     BarriersCount, ReadyAfterBarriers
<1>12. ASSUME NEW p \in Passes, SourceStep(Diff(p)) PROVE BarriersCount' /\ ReadyAfterBarriers'
  BY <1>12 DEF Diff, SourceStep, forwardVars, loopVars, retryVars, diskVars, BarriersCount,
     ReadyAfterBarriers
<1>13. ASSUME NEW p \in Passes, SourceStep(Emit(p)) PROVE BarriersCount' /\ ReadyAfterBarriers'
  BY <1>13 DEF Emit, SourceStep, forwardVars, loopVars, retryVars, diskVars, BarriersCount,
     ReadyAfterBarriers
<1>14. ASSUME NEW t \in Tasks, NEW v \in OnDisk, SourceStep(EditTask(t, v)) PROVE BarriersCount' /\ ReadyAfterBarriers'
  BY <1>14 DEF EditTask, SourceStep, forwardVars, loopVars, retryVars, BarriersCount,
     ReadyAfterBarriers
<1>15. ASSUME NEW g \in Retriers, CheckQueued(g) PROVE BarriersCount' /\ ReadyAfterBarriers'
  BY <1>15 DEF CheckQueued, forwardVars, loopVars, sourceVars, diskVars, passVars,
     BarriersCount, ReadyAfterBarriers
<1>16. ASSUME NEW g \in Retriers, SendAgain(g) PROVE BarriersCount' /\ ReadyAfterBarriers'
  <2>1. PICK e \in sending[g] : merged' = Append(merged, e)
    BY <1>16 DEF SendAgain
  <2>2. /\ barred' = barred /\ initPending' = initPending /\ ready' = ready /\ e \in Reports
    BY <1>16 DEF SendAgain, loopVars, forwardVars, Carried
  <2> QED
    BY <2>1, <2>2, Typed, BarriersAppended DEF BarriersCount, ReadyAfterBarriers, Reports
<1>17. CASE UNCHANGED vars
  BY <1>17 DEF vars, sourceVars, diskVars, passVars, forwardVars, loopVars, retryVars,
     BarriersCount, ReadyAfterBarriers
<1> QED
  BY <1>1, <1>2, <1>3, <1>4, <1>5, <1>6, <1>7, <1>8, <1>9, <1>10, <1>11, <1>12, <1>13,
     <1>14, <1>15, <1>16, <1>17 DEF Next, Loop, Forwarder, Retrier, Pass, Source, SourceStep

\* A batch stays within its channel, and before its barrier.
LEMMA BatchesStep ==
  ASSUME TypeOK, Carried, BatchesLead, [Next]_vars
  PROVE  BatchesLead'
<1>1. ASSUME SeeBarrier PROVE BatchesLead'
  BY <1>1, Typed DEF SeeBarrier, Next1, Take, forwardVars, retryVars, sourceVars, diskVars,
     passVars, BatchesLead, TypeOK, SourceTypeOK
<1>2. ASSUME NEW t \in Tasks, QueueTask(t) PROVE BatchesLead'
  BY <1>2, Typed DEF QueueTask, Next1, Take, retryVars, sourceVars, diskVars, passVars,
     BatchesLead, TypeOK, SourceTypeOK
<1>3. ASSUME NEW t \in Tasks, RegisterTask(t) PROVE BatchesLead'
  BY <1>3, Typed DEF RegisterTask, Next1, Take, Unqueue, sourceVars, diskVars, passVars,
     BatchesLead, TypeOK, SourceTypeOK
<1>4. ASSUME NEW t \in Tasks, RemoveTask(t) PROVE BatchesLead'
  BY <1>4, Typed DEF RemoveTask, Next1, Take, retryVars, sourceVars, diskVars, passVars,
     BatchesLead, TypeOK, SourceTypeOK
<1>5. ASSUME NEW s \in Sources, Started(s) PROVE BatchesLead'
  BY <1>5, Typed DEF Started, diskVars, passVars, loopVars, retryVars, BatchesLead, TypeOK,
     SourceTypeOK
<1>6. ASSUME NEW s \in Sources, Forward(s) PROVE BatchesLead'
  <2>1. /\ Len(Tail(outbox[s])) = Len(outbox[s]) - 1 /\ Len(outbox[s]) \in Nat \ {0}
    BY <1>6, Typed, Dequeued DEF Forward
  <2> QED
    BY <2>1, <1>6, Typed
       DEF Forward, diskVars, passVars, loopVars, retryVars, BatchesLead, TypeOK, Carried
<1>7. ASSUME NEW s \in Sources, SendBarrier(s) PROVE BatchesLead'
  BY <1>7, Typed DEF SendBarrier, HasRoom, loopVars, retryVars, sourceVars, diskVars,
     passVars, BatchesLead, TypeOK, SourceTypeOK
<1>8. ASSUME NEW s \in Sources, SourceStep(BeginStart(s)) PROVE BatchesLead'
  BY <1>8, Typed DEF BeginStart, SourceStep, forwardVars, loopVars, retryVars, diskVars,
     BatchesLead, TypeOK, SourceTypeOK
<1>9. ASSUME NEW s \in Sources, SourceStep(FirstPass(s)) PROVE BatchesLead'
  BY <1>9, Typed DEF FirstPass, SourceStep, Resolve, forwardVars, loopVars, retryVars,
     diskVars, BatchesLead, TypeOK, SourceTypeOK
<1>10. ASSUME NEW s \in Sources, SourceStep(Watch(s)) PROVE BatchesLead'
  BY <1>10, Typed DEF Watch, SourceStep, Resolve, forwardVars, loopVars, retryVars,
     diskVars, BatchesLead, TypeOK, SourceTypeOK
<1>11. ASSUME NEW s \in Sources, SourceStep(Call(s)) PROVE BatchesLead'
  BY <1>11, Typed DEF Call, SourceStep, Resolve, forwardVars, loopVars, retryVars, diskVars,
     BatchesLead, TypeOK, SourceTypeOK
<1>12. ASSUME NEW p \in Passes, SourceStep(Diff(p)) PROVE BatchesLead'
  BY <1>12, Typed DEF Diff, SourceStep, forwardVars, loopVars, retryVars, diskVars,
     BatchesLead, TypeOK, SourceTypeOK
<1>13. ASSUME NEW p \in Passes, SourceStep(Emit(p)) PROVE BatchesLead'
  <2>1. \A x \in Sources : Len(outbox'[x]) \in Nat /\ Len(outbox'[x]) >= Len(outbox[x])
    <3>1. Head(plan[p]) \in Reports
      BY <1>13, Typed, Dequeued DEF SourceStep, Emit, Carried
    <3>2. Len(Append(outbox[p[1]], Head(plan[p]))) = Len(outbox[p[1]]) + 1
      BY <3>1, Typed, Appended
    <3> QED
      BY <3>2, <1>13, Typed DEF SourceStep, Emit, Carried
  <2> QED
    BY <2>1, <1>13, Typed DEF SourceStep, Emit, forwardVars, BatchesLead, TypeOK
<1>14. ASSUME NEW t \in Tasks, NEW v \in OnDisk, SourceStep(EditTask(t, v)) PROVE BatchesLead'
  BY <1>14, Typed DEF EditTask, SourceStep, forwardVars, loopVars, retryVars, BatchesLead,
     TypeOK, SourceTypeOK
<1>15. ASSUME NEW g \in Retriers, CheckQueued(g) PROVE BatchesLead'
  BY <1>15, Typed DEF CheckQueued, forwardVars, loopVars, sourceVars, diskVars, passVars,
     BatchesLead, TypeOK, SourceTypeOK
<1>16. ASSUME NEW g \in Retriers, SendAgain(g) PROVE BatchesLead'
  BY <1>16, Typed DEF SendAgain, HasRoom, forwardVars, loopVars, sourceVars, diskVars,
     passVars, BatchesLead, TypeOK, SourceTypeOK
<1>17. CASE UNCHANGED vars
  BY <1>17, Typed DEF vars, sourceVars, diskVars, passVars, forwardVars, loopVars,
     retryVars, BatchesLead, TypeOK, SourceTypeOK
<1> QED
  BY <1>1, <1>2, <1>3, <1>4, <1>5, <1>6, <1>7, <1>8, <1>9, <1>10, <1>11, <1>12, <1>13,
     <1>14, <1>15, <1>16, <1>17 DEF Next, Loop, Forwarder, Retrier, Pass, Source, SourceStep

\* What is on its way stays so when an event is appended, and when another one is
\* taken.
LEMMA StaysWhenAppended ==
  ASSUME NEW m \in Seq(Events), NEW e \in Events, NEW b, NEW u, InMerged(u, m, b)
  PROVE  InMerged(u, Append(m, e), b) /\ (e.task = NoTask => InMerged(u, Append(m, e), {}))
<1>1. PICK i \in DOMAIN m : m[i].task = u /\ Followed(m, b, i)
  BY DEF InMerged
<1>2. i \in DOMAIN Append(m, e) /\ Append(m, e)[i] = m[i] /\ i \in Nat /\ Len(m) \in Nat /\ i <= Len(m)
  BY Appended
<1>3. Followed(Append(m, e), b, i)
  BY <1>1, BarriersAppended DEF Followed
<1>4. e.task = NoTask => Followed(Append(m, e), {}, i)
  BY <1>2, BarriersAppended DEF Followed
<1> QED
  BY <1>1, <1>2, <1>3, <1>4 DEF InMerged

LEMMA StaysWhenTaken ==
  ASSUME NEW m \in Seq(Events), m # <<>>, NEW b, NEW u, Head(m).task # u, InMerged(u, m, b)
  PROVE  InMerged(u, Tail(m), b)
<1>1. PICK i \in DOMAIN m : m[i].task = u /\ Followed(m, b, i)
  BY DEF InMerged
<1>2. /\ Head(m) = m[1] /\ Len(m) \in Nat \ {0}
      /\ DOMAIN m = 1..Len(m) /\ DOMAIN Tail(m) = 1..(Len(m) - 1)
      /\ \A k \in 1..(Len(m) - 1) : Tail(m)[k] = m[k + 1]
  BY Dequeued
<1>3. i - 1 \in DOMAIN Tail(m) /\ Tail(m)[i - 1].task = u
  BY <1>1, <1>2
<1>4. ASSUME NEW j \in Barriers(m), j > i PROVE j - 1 \in Barriers(Tail(m)) /\ j - 1 > i - 1
  BY <1>1, <1>2, <1>4 DEF Barriers
<1>5. Followed(Tail(m), b, i - 1)
  BY <1>1, <1>4 DEF Followed
<1> QED
  BY <1>3, <1>5 DEF InMerged

\* A task of an initial scan is on its way, before a barrier, until it is applied.
LEMMA InitialStep ==
  ASSUME TypeOK, Carried, BatchesLead, InitialOnTheWay, [Next]_vars
  PROVE  InitialOnTheWay'
<1>1. ASSUME SeeBarrier PROVE InitialOnTheWay'
  <2>1. /\ barred' = barred /\ merged' = Tail(merged) /\ Head(merged).task = NoTask
        /\ merged # <<>> /\ initial' = initial /\ batch' = batch /\ outbox' = outbox
    BY <1>1 DEF SeeBarrier, forwardVars, sourceVars, Take, Next1
  <2>2. ASSUME NEW u \in initial', InMerged(u, merged, barred) PROVE InMerged(u, merged', barred')
    <3>1. u # NoTask
      BY <2>1, Typed DEF TypeOK
    <3> QED
      BY <2>1, <2>2, <3>1, Typed, StaysWhenTaken
  <2> QED
    BY <2>1, <2>2 DEF InitialOnTheWay, InBatch
<1>2. ASSUME NEW t \in Tasks, QueueTask(t) PROVE InitialOnTheWay'
  <2>1. /\ barred' = barred /\ merged' = Tail(merged) /\ Head(merged).task = t
        /\ merged # <<>> /\ initial' = initial \ {t} /\ batch' = batch /\ outbox' = outbox
    BY <1>2 DEF QueueTask, forwardVars, sourceVars, Take, Next1
  <2>2. ASSUME NEW u \in initial', InMerged(u, merged, barred) PROVE InMerged(u, merged', barred')
    <3>1. u # t
      BY <2>1, Typed DEF TypeOK
    <3> QED
      BY <2>1, <2>2, <3>1, Typed, StaysWhenTaken
  <2> QED
    BY <2>1, <2>2 DEF InitialOnTheWay, InBatch
<1>3. ASSUME NEW t \in Tasks, RegisterTask(t) PROVE InitialOnTheWay'
  <2>1. /\ barred' = barred /\ merged' = Tail(merged) /\ Head(merged).task = t
        /\ merged # <<>> /\ initial' = initial \ {t} /\ batch' = batch /\ outbox' = outbox
    BY <1>3 DEF RegisterTask, forwardVars, sourceVars, Take, Next1
  <2>2. ASSUME NEW u \in initial', InMerged(u, merged, barred) PROVE InMerged(u, merged', barred')
    <3>1. u # t
      BY <2>1, Typed DEF TypeOK
    <3> QED
      BY <2>1, <2>2, <3>1, Typed, StaysWhenTaken
  <2> QED
    BY <2>1, <2>2 DEF InitialOnTheWay, InBatch
<1>4. ASSUME NEW t \in Tasks, RemoveTask(t) PROVE InitialOnTheWay'
  <2>1. /\ barred' = barred /\ merged' = Tail(merged) /\ Head(merged).task = t
        /\ merged # <<>> /\ initial' = initial \ {t} /\ batch' = batch /\ outbox' = outbox
    BY <1>4 DEF RemoveTask, forwardVars, sourceVars, Take, Next1
  <2>2. ASSUME NEW u \in initial', InMerged(u, merged, barred) PROVE InMerged(u, merged', barred')
    <3>1. u # t
      BY <2>1, Typed DEF TypeOK
    <3> QED
      BY <2>1, <2>2, <3>1, Typed, StaysWhenTaken
  <2> QED
    BY <2>1, <2>2 DEF InitialOnTheWay, InBatch
<1>5. ASSUME NEW s \in Sources, Started(s) PROVE InitialOnTheWay'
  <2>1. ASSUME NEW u \in initial PROVE (\E x \in Sources : InBatch(u, x)') \/ InMerged(u, merged', barred')
    <3>1. /\ outbox' = outbox /\ merged' = merged /\ barred' = barred
          /\ batch' = [batch EXCEPT ![s] = Len(outbox[s])]
      BY <1>5 DEF Started
    <3>2. \A x \in Sources : InBatch(u, x) => InBatch(u, x)'
      BY <3>1, Typed DEF InBatch, BatchesLead, TypeOK
    <3> QED
      BY <3>1, <3>2 DEF InitialOnTheWay
  <2>2. ASSUME NEW i \in DOMAIN outbox[s] PROVE InBatch(outbox[s][i].task, s)'
    BY <1>5, Typed, LenProperties DEF Started, InBatch, TypeOK
  <2> QED
    BY <2>1, <2>2, <1>5 DEF Started, InitialOnTheWay
<1>6. ASSUME NEW s \in Sources, Forward(s) PROVE InitialOnTheWay'
  <2>1. /\ Head(outbox[s]) \in Events /\ Head(outbox[s]) = outbox[s][1]
        /\ Len(outbox[s]) \in Nat \ {0}
        /\ \A i \in 1..(Len(outbox[s]) - 1) : Tail(outbox[s])[i] = outbox[s][i + 1]
    BY <1>6, Typed, Dequeued DEF Forward
  <2>2. /\ merged' = Append(merged, Head(outbox[s])) /\ outbox' = [outbox EXCEPT ![s] = Tail(@)]
        /\ batch' = [batch EXCEPT ![s] = IF @ > 0 THEN @ - 1 ELSE 0]
        /\ barred' = barred /\ initial' = initial
    BY <1>6 DEF Forward
  <2>3. ASSUME NEW u \in initial, NEW x \in Sources, InBatch(u, x)
        PROVE  InBatch(u, x)' \/ InMerged(u, merged', barred')
    <3>1. PICK i \in 1..batch[x] : outbox[x][i].task = u
      BY <2>3 DEF InBatch
    <3>2. CASE x # s
      BY <2>2, <3>1, <3>2 DEF InBatch, Carried, TypeOK
    <3>3. CASE x = s /\ i = 1
      <4>1. barred # {}
        BY <3>1, <3>3 DEF BatchesLead, TypeOK
      <4>2. Len(merged) + 1 \in DOMAIN merged' /\ merged'[Len(merged) + 1].task = u
        BY <2>1, <2>2, <3>1, <3>3, Typed, Appended
      <4> QED
        BY <2>2, <4>1, <4>2 DEF InMerged, Followed
    <3>4. CASE x = s /\ i # 1
      <4>1. i - 1 \in 1..batch'[s] /\ i - 1 \in 1..(Len(outbox[s]) - 1)
        BY <2>1, <2>2, <3>1, <3>4 DEF BatchesLead, TypeOK
      <4>2. outbox'[s][i - 1] = outbox[s][i]
        BY <2>1, <2>2, <4>1 DEF Carried
      <4> QED
        BY <3>1, <3>4, <4>1, <4>2 DEF InBatch
    <3> QED
      BY <3>2, <3>3, <3>4
  <2>4. ASSUME NEW u, InMerged(u, merged, barred) PROVE InMerged(u, merged', barred')
    BY <2>1, <2>2, <2>4, Typed, StaysWhenAppended
  <2> QED
    BY <2>2, <2>3, <2>4 DEF InitialOnTheWay
<1>7. ASSUME NEW s \in Sources, SendBarrier(s) PROVE InitialOnTheWay'
  <2>1. /\ merged' = Append(merged, Barrier) /\ Barrier.task = NoTask
        /\ initial' = initial /\ batch' = batch /\ outbox' = outbox
    BY <1>7 DEF SendBarrier, sourceVars, Barrier, Event
  <2>2. ASSUME NEW u, InMerged(u, merged, barred) PROVE InMerged(u, merged', barred')
    <3>1. InMerged(u, merged', {})
      BY <2>1, <2>2, Typed, StaysWhenAppended
    <3> QED
      BY <3>1 DEF InMerged, Followed
  <2> QED
    BY <2>1, <2>2 DEF InitialOnTheWay, InBatch
<1>8. ASSUME NEW s \in Sources, SourceStep(BeginStart(s)) PROVE InitialOnTheWay'
  BY <1>8 DEF BeginStart, SourceStep, forwardVars, loopVars, retryVars, diskVars,
     InitialOnTheWay, InBatch
<1>9. ASSUME NEW s \in Sources, SourceStep(FirstPass(s)) PROVE InitialOnTheWay'
  BY <1>9 DEF FirstPass, SourceStep, Resolve, forwardVars, loopVars, retryVars, diskVars,
     InitialOnTheWay, InBatch
<1>10. ASSUME NEW s \in Sources, SourceStep(Watch(s)) PROVE InitialOnTheWay'
  BY <1>10 DEF Watch, SourceStep, Resolve, forwardVars, loopVars, retryVars, diskVars,
     InitialOnTheWay, InBatch
<1>11. ASSUME NEW s \in Sources, SourceStep(Call(s)) PROVE InitialOnTheWay'
  BY <1>11 DEF Call, SourceStep, Resolve, forwardVars, loopVars, retryVars, diskVars,
     InitialOnTheWay, InBatch
<1>12. ASSUME NEW p \in Passes, SourceStep(Diff(p)) PROVE InitialOnTheWay'
  BY <1>12 DEF Diff, SourceStep, forwardVars, loopVars, retryVars, diskVars,
     InitialOnTheWay, InBatch
<1>13. ASSUME NEW p \in Passes, SourceStep(Emit(p)) PROVE InitialOnTheWay'
  <2>1. /\ merged' = merged /\ barred' = barred /\ initial' = initial /\ batch' = batch
    BY <1>13 DEF SourceStep, forwardVars
  <2>2. \A x \in Sources : \A i \in 1..Len(outbox[x]) : outbox'[x][i] = outbox[x][i]
    <3>1. Head(plan[p]) \in Reports
      BY <1>13, Typed, Dequeued DEF SourceStep, Emit, Carried
    <3>2. \A i \in 1..Len(outbox[p[1]]) :
            Append(outbox[p[1]], Head(plan[p]))[i] = outbox[p[1]][i]
      BY <3>1, Typed, Appended
    <3> QED
      BY <3>2, <1>13, Typed DEF SourceStep, Emit, Carried
  <2>3. \A u \in initial, x \in Sources : InBatch(u, x) => InBatch(u, x)'
    BY <2>1, <2>2, Typed DEF InBatch, BatchesLead, TypeOK
  <2> QED
    BY <2>1, <2>3 DEF InitialOnTheWay
<1>14. ASSUME NEW t \in Tasks, NEW v \in OnDisk, SourceStep(EditTask(t, v)) PROVE InitialOnTheWay'
  BY <1>14 DEF EditTask, SourceStep, forwardVars, loopVars, retryVars, InitialOnTheWay,
     InBatch
<1>15. ASSUME NEW g \in Retriers, CheckQueued(g) PROVE InitialOnTheWay'
  BY <1>15 DEF CheckQueued, forwardVars, loopVars, sourceVars, diskVars, passVars,
     InitialOnTheWay, InBatch
<1>16. ASSUME NEW g \in Retriers, SendAgain(g) PROVE InitialOnTheWay'
  <2>1. PICK e \in sending[g] : merged' = Append(merged, e)
    BY <1>16 DEF SendAgain
  <2>2. /\ barred' = barred /\ e \in Events /\ initial' = initial /\ batch' = batch /\ outbox' = outbox
    BY <1>16, Typed DEF SendAgain, loopVars, forwardVars, sourceVars, Carried
  <2>3. ASSUME NEW u, InMerged(u, merged, barred) PROVE InMerged(u, merged', barred')
    BY <2>1, <2>2, <2>3, Typed, StaysWhenAppended
  <2> QED
    BY <2>2, <2>3 DEF InitialOnTheWay, InBatch
<1>17. CASE UNCHANGED vars
  BY <1>17 DEF vars, sourceVars, diskVars, passVars, forwardVars, loopVars, retryVars,
     InitialOnTheWay, InBatch
<1> QED
  BY <1>1, <1>2, <1>3, <1>4, <1>5, <1>6, <1>7, <1>8, <1>9, <1>10, <1>11, <1>12, <1>13,
     <1>14, <1>15, <1>16, <1>17 DEF Next, Loop, Forwarder, Retrier, Pass, Source, SourceStep

-----------------------------------------------------------------------------
(* Theorems.                                                               *)

LEMMA InvariantInit == Init => IInv
<1> SUFFICES ASSUME Init PROVE IInv
  OBVIOUS
<1>1. TypeOK
  <2>1. Cardinality(Sources) \in 0..Cardinality(Sources)
    BY SourceAssumption, FS_CardinalityType
  <2>2. /\ \A S : <<>> \in Seq(S)
        /\ Len(<<>>) = 0
    BY EmptySeq
  <2> QED
    BY <2>1, <2>2, SourceAssumption, ReconcilerAssumption
       DEF Init, SourceInit, TypeOK, SourceTypeOK, Nothing, OnDisk, MaybeVersion
<1>2. Carried
  BY EmptySeq DEF Init, SourceInit, Carried
<1>3. Removals
  BY DEF Init, SourceInit, Removals
<1>4. Barriers(merged) = {}
  BY DEF Init, Barriers
<1>5. BarriersCount /\ ReadyAfterBarriers
  <2>1. Cardinality(Barriers(merged)) = 0 /\ (Sources = {} => Cardinality(Sources) = 0)
    BY <1>4, FS_EmptySet
  <2>2. Cardinality(barred) \in Nat /\ initPending = Cardinality(barred) /\ barred = Sources
    BY SourceAssumption, FS_CardinalityType DEF Init
  <2>3. BarriersCount
    BY <2>1, <2>2 DEF BarriersCount
  <2>4. ready => Sources = {}
    BY DEF Init
  <2> QED
    BY <2>1, <2>2, <2>3, <2>4 DEF ReadyAfterBarriers
<1>6. BatchesLead /\ InitialOnTheWay
  BY DEF Init, SourceInit, BatchesLead, InitialOnTheWay
<1> QED
  BY <1>1, <1>2, <1>3, <1>5, <1>6 DEF IInv

\* The reconciler keeps its types, what is on its way, and the order of initial
\* scans and barriers.
THEOREM ReconcilerInvariant == Spec => []IInv
<1>1. IInv /\ [Next]_vars => IInv'
  BY TypesStep, RemovalsStep, BarriersStep, BatchesStep, InitialStep DEF IInv
<1> QED
  BY <1>1, InvariantInit, PTL DEF Spec

\* The ready channel closes only when every task that an initial scan reported was
\* registered, queued or removed, whatever else the sources sent meanwhile
\* (waitInitialSync, the barriers in Run).
THEOREM ReadyIsSynced == Spec => []ReadyMeansSynced
<1>1. IInv => ReadyMeansSynced
  <2> SUFFICES ASSUME IInv, ready PROVE initial = {}
    BY DEF IInv, ReadyMeansSynced
  <2>1. Cardinality(barred) = 0 /\ Cardinality(Barriers(merged)) = 0
    <3>1. IsFiniteSet(barred) /\ IsFiniteSet(Barriers(merged))
      BY Typed, BarriersFinite, FS_Subset, SourceAssumption DEF IInv, TypeOK
    <3> QED
      BY <3>1, FS_CardinalityType DEF IInv, BarriersCount, ReadyAfterBarriers
  <2>2. barred = {} /\ Barriers(merged) = {}
    BY <2>1, Typed, BarriersFinite, FS_Subset, FS_EmptySet, SourceAssumption DEF IInv, TypeOK
  <2>3. \A t : \A s \in Sources : ~InBatch(t, s)
    BY <2>2 DEF IInv, TypeOK, BatchesLead, InBatch
  <2>4. \A t : ~InMerged(t, merged, barred)
    BY <2>2 DEF InMerged, Followed
  <2> QED
    BY <2>3, <2>4 DEF IInv, InitialOnTheWay
<1> QED
  BY <1>1, ReconcilerInvariant, PTL

\* A registered task leaves the registry only if it was off the disk at some time:
\* no dropped or repeated event, no broken edit and no retry removes a task.
THEOREM OnlyRemoved == Spec => OnlyRemovedIsUnregistered
<1>1. IInv /\ [Next]_vars =>
        [\A t \in Tasks : registry[t] # NoVersion /\ registry'[t] = NoVersion => t \in absent]_vars
  <2> SUFFICES ASSUME IInv, Next, NEW t \in Tasks, registry[t] # NoVersion, registry'[t] = NoVersion
               PROVE  t \in absent
    OBVIOUS
  <2>1. PICK u \in Tasks : RegisterTask(u) \/ RemoveTask(u)
    <3>1. registry' # registry
      OBVIOUS
    <3> QED
      BY <3>1 DEF Next, Loop, Forwarder, Retrier, SourceStep, SeeBarrier, QueueTask, Started,
         Forward, SendBarrier, CheckQueued, SendAgain, loopVars
  <2>2. Head(merged).task = u /\ merged # <<>>
    BY <2>1 DEF RegisterTask, RemoveTask, Next1
  <2>3. Gone(Head(merged)) /\ Head(merged) = merged[1]
    BY <2>2, Typed, Dequeued DEF IInv, Removals
  <2>4. t = u /\ Head(merged).version = NoVersion
    BY <2>1, <2>2 DEF RegisterTask, RemoveTask, Next1, IInv, TypeOK
  <2> QED
    BY <2>2, <2>3, <2>4 DEF Gone
<1> QED
  BY <1>1, ReconcilerInvariant, PTL DEF Spec, OnlyRemovedIsUnregistered

=============================================================================
