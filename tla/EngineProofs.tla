---------------------------- MODULE EngineProofs ----------------------------
(***************************************************************************)
(* Proofs about Scheduler and, on top of it, about Engine.                 *)
(*                                                                         *)
(* The scheduler, for every set of tasks, jobs and artifact refs, every    *)
(* acyclic graph and every bound: dependencies come first, skips and       *)
(* exceptions have a reason, and scheduler and database implement the task *)
(* lifecycle.                                                              *)
(*                                                                         *)
(* The engine, for every set of plans, stages, refs and results and any    *)
(* number of commands, cancellations, silent workers, deletions and ends   *)
(* of the process: provenance is faithful from the inputs of a stage to what its manifest  *)
(* publishes, manifests tell what happened, and a cache hit can be told    *)
(* from a run.                                                             *)
(***************************************************************************)
EXTENDS Engine, NaturalsInduction, WellFoundedInduction, SequenceTheorems, TLAPS

-----------------------------------------------------------------------------
(* Types. *)

LEMMA FreshType == \A t \in Task : Fresh(t) \in TaskInstance
  BY RefAssumption, PolicyAssumption DEF Fresh, TaskInstance, Status

LEMMA ReconciledType == \A row \in TaskInstance : Reconciled(row) \in TaskInstance
  <1> SUFFICES ASSUME NEW row \in TaskInstance
               PROVE  Reconciled(row) \in TaskInstance
    OBVIOUS
  <1>1. CASE row.state = "running"
    <2>1. [row EXCEPT !.state = "pending"] \in TaskInstance
      BY DEF TaskInstance, Status
    <2>2. 0 \in 0..MaxAttempts
      BY PolicyAssumption
    <2>3. [[row EXCEPT !.state = "pending"] EXCEPT !.attempts = 0] \in TaskInstance
      BY <2>1, <2>2 DEF TaskInstance
    <2> QED
      BY <1>1, <2>3 DEF Reconciled
  <1>2. CASE row.state # "running"
    BY <1>2 DEF Reconciled
  <1> QED
    BY <1>1, <1>2

\* Mark keeps the two copies of the graph well typed.
LEMMA MarkType ==
  ASSUME TypeOK, NEW t \in Task, NEW instance \in TaskInstance, NEW next \in Location,
         Mark(t, instance, next)
  PROVE  /\ task' \in [Task -> TaskInstance]
         /\ db' \in [Task -> TaskInstance]
         /\ pc' \in Location
         /\ outcome' \in {"ok", "stalled", "illegal", "busy"}
  BY DEF TypeOK, Mark, Location

LEMMA ThreadedType ==
  ASSUME NEW inputs \in SUBSET Ref, NEW decl \in Seq(Ref), NEW prod \in Seq(Ref)
  PROVE  Threaded(inputs, decl, prod) \in SUBSET Ref
  <1>1. \A i \in DOMAIN prod : prod[i] \in Ref
    OBVIOUS
  <1>2. Refs(prod) \subseteq Ref
    BY <1>1 DEF Refs
  <1> QED
    BY <1>2 DEF Threaded

LEMMA InitType == Init => TypeOK
  <1> SUFFICES ASSUME Init PROVE TypeOK
    OBVIOUS
  <1>1. task \in [Task -> TaskInstance] /\ db \in [Task -> TaskInstance]
    BY FreshType DEF Init
  <1>2. runs \in [Task -> Seq(Run)]
    BY DEF Init
  <1>3. saved \subseteq Job /\ cache \subseteq CacheEntry /\ store \subseteq Ref
    BY RefAssumption DEF Init
  <1>4. /\ iter \in 0..MaxIterations /\ missed \in 0..MissLimit
        /\ crashes \in 0..MaxCrashes /\ cancels \in 0..MaxCancels
        /\ lost \in 0..MaxLost /\ silences \in 0..MaxSilences /\ raced \subseteq Job
    BY PolicyAssumption DEF Init
  <1>5. declared \in Seq(Ref) /\ produced \in Seq(Ref) /\ left \in Seq(Ref) /\ events \in Seq(WorkerEvent)
    BY DEF Init
  <1>6. progressed \in BOOLEAN /\ retryable \in BOOLEAN /\ cancelled \in BOOLEAN
    BY DEF Init
  <1>7. /\ job \in Job \cup {None} /\ cur \in Task \cup {None} /\ busy \in Task \cup {None}
        /\ todo \subseteq Task /\ served \subseteq Task
        /\ pc \in Location /\ outcome \in {"ok", "stalled", "illegal", "busy"}
    BY DEF Init, Location
  <1> QED
    BY <1>1, <1>2, <1>3, <1>4, <1>5, <1>6, <1>7, Zenon DEF TypeOK

\* The attempt counter stays within the policy when a failure is counted.
LEMMA FailedType ==
  ASSUME SchedulerInv, pc = "await", NEW recoverable \in BOOLEAN, Failed(recoverable)
  PROVE  /\ task' \in [Task -> TaskInstance]
         /\ runs' \in [Task -> Seq(Run)]
         /\ retryable' \in BOOLEAN
         /\ pc' \in Location
  <1>1. /\ cur \in Task /\ task[cur] \in TaskInstance
    BY DEF SchedulerInv, CurInv, InCall, TypeOK
  <1>2. task[cur].attempts < MaxAttempts /\ task[cur].attempts \in Nat /\ MaxAttempts \in Nat
    BY <1>1, PolicyAssumption DEF SchedulerInv, AttemptsInv, TaskInstance
  <1>3. [task[cur] EXCEPT !.attempts = @ + 1] \in TaskInstance
    BY <1>1, <1>2 DEF TaskInstance
  <1>4. RunOf([task[cur] EXCEPT !.attempts = @ + 1], "failed", <<>>) \in Run
    BY <1>3 DEF RunOf, Run, TaskInstance, Status
  <1>5. task' \in [Task -> TaskInstance]
    BY <1>1, <1>3 DEF Failed, SchedulerInv, TypeOK
  <1>6. runs' \in [Task -> Seq(Run)]
    <2>1. runs[cur] \in Seq(Run)
      BY <1>1 DEF SchedulerInv, TypeOK
    <2>2. Append(runs[cur], RunOf([task[cur] EXCEPT !.attempts = @ + 1], "failed", <<>>)) \in Seq(Run)
      BY <2>1, <1>4
    <2> QED
      BY <1>1, <2>2 DEF Failed, SchedulerInv, TypeOK
  <1>7. retryable' \in BOOLEAN
    BY DEF Failed
  <1> QED
    BY <1>5, <1>6, <1>7 DEF Failed, Location

\* Giving a task a new state keeps it well typed.
LEMMA StateType ==
  ASSUME NEW instance \in TaskInstance, NEW s \in Status
  PROVE  [instance EXCEPT !.state = s] \in TaskInstance
  BY DEF TaskInstance

LEMMA OutputsType ==
  ASSUME NEW instance \in TaskInstance, NEW s \in Status, NEW out \in Seq(Ref)
  PROVE  [instance EXCEPT !.state = s, !.outputs = out] \in TaskInstance
  <1>1. [instance EXCEPT !.state = s] \in TaskInstance
    BY StateType
  <1>2. [[instance EXCEPT !.state = s] EXCEPT !.outputs = out] \in TaskInstance
    BY <1>1 DEF TaskInstance
  <1> QED
    BY <1>2

\* Marking a task running and submitting it keeps all it touches well typed.
LEMMA SubmitType ==
  ASSUME TypeOK, NEW t \in Task, MarkRunningAndSubmit(t)
  PROVE  /\ task' \in [Task -> TaskInstance]
         /\ db' \in [Task -> TaskInstance]
         /\ pc' \in Location
         /\ outcome' \in {"ok", "stalled", "illegal", "busy"}
         /\ busy' \in Task \cup {None}
         /\ left' \in Seq(Ref)
         /\ cancelled' \in BOOLEAN
         /\ events' \in Seq(WorkerEvent)
         /\ cur' \in Task
         /\ produced' \in Seq(Ref)
         /\ missed' \in 0..MissLimit
  <1> DEFINE running == [task[t] EXCEPT !.state = "running"]
             accept == busy = None /\ (VerifiesInputs => task[t].inputs \subseteq store)
             started == IsLegal(task[t].state, "running") /\ busy = None
             refusal == [task |-> t, type |-> "failed", ref |-> None]
  <1>1. running \in TaskInstance
    BY StateType DEF TypeOK, Status
  <1>2. /\ task' \in [Task -> TaskInstance]
        /\ db' \in [Task -> TaskInstance]
        /\ pc' \in Location
        /\ outcome' \in {"ok", "stalled", "illegal", "busy"}
    <2>1. CASE IsLegal(task[t].state, "running") /\ busy # None
      BY <1>1, <2>1 DEF MarkRunningAndSubmit, TypeOK, Location
    <2>2. CASE ~(IsLegal(task[t].state, "running") /\ busy # None)
      <3>1. Mark(t, running, "await")
        BY <2>2 DEF MarkRunningAndSubmit
      <3> QED
        BY <1>1, <3>1, MarkType DEF Location
    <2> QED
      BY <2>1, <2>2
  <1>3. /\ busy' \in Task \cup {None}
        /\ left' \in Seq(Ref)
        /\ cancelled' \in BOOLEAN
        /\ events' \in Seq(WorkerEvent)
    <2>1. CASE started
      <3>1. /\ busy' = IF accept THEN t ELSE None
            /\ left' = IF accept THEN Result[KindOf[t]][task[t].inputs] ELSE <<>>
            /\ cancelled' = FALSE
            /\ events' = IF accept THEN events ELSE Append(events, refusal)
        BY <2>1 DEF MarkRunningAndSubmit
      <3>2. Result[KindOf[t]][task[t].inputs] \in Seq(Ref)
        BY RefAssumption DEF TypeOK, TaskInstance
      <3>3. refusal \in WorkerEvent
        BY DEF WorkerEvent, EventType
      <3>4. Append(events, refusal) \in Seq(WorkerEvent)
        BY <3>3 DEF TypeOK
      <3>5. left' \in Seq(Ref)
        BY <3>1, <3>2
      <3>6. events' \in Seq(WorkerEvent)
        BY <3>1, <3>4 DEF TypeOK
      <3>7. busy' \in Task \cup {None}
        BY <3>1
      <3> QED
        BY <3>1, <3>5, <3>6, <3>7
    <2>2. CASE ~started
      <3>1. UNCHANGED execVars
        BY <2>2 DEF MarkRunningAndSubmit
      <3> QED
        BY <3>1 DEF execVars, TypeOK
    <2> QED
      BY <2>1, <2>2
  <1>4. cur' \in Task /\ produced' \in Seq(Ref) /\ missed' \in 0..MissLimit
    BY PolicyAssumption DEF MarkRunningAndSubmit, NewAttempt
  <1> QED
    BY <1>2, <1>3, <1>4

\* Every step keeps every variable in its type.
LEMMA TypeStep == SchedulerInv /\ [Next]_vars => TypeOK'
  <1> SUFFICES ASSUME SchedulerInv, [Next]_vars
               PROVE  TypeOK'
    OBVIOUS
  <1>t. TypeOK
    BY DEF SchedulerInv
  <1>1. ASSUME NEW j \in Job, RunJob(j)
        PROVE  TypeOK'
    <2>1. task' \in [Task -> TaskInstance] /\ db' \in [Task -> TaskInstance]
      BY <1>1, <1>t, FreshType DEF RunJob, TypeOK
    <2>2. iter' \in 0..MaxIterations
      BY <1>1, PolicyAssumption DEF RunJob, Begin
    <2> QED
      BY <1>1, <1>t, <2>1, <2>2
      DEF RunJob, Begin, TypeOK, TasksOf, Location, execVars, envVars
  <1>2. ASSUME NEW j \in Job, Resume(j)
        PROVE  TypeOK'
    <2>1. task' \in [Task -> TaskInstance]
      BY <1>2, <1>t, ReconciledType DEF Resume, TypeOK
    <2>2. iter' \in 0..MaxIterations
      BY <1>2, PolicyAssumption DEF Resume, Begin
    <2> QED
      BY <1>2, <1>t, <2>1, <2>2
      DEF Resume, Begin, TypeOK, TasksOf, Location, execVars, envVars
  <1>3. ASSUME NEW t \in Task, PropagateFailures(t)
        PROVE  TypeOK'
    <2>1. [task[t] EXCEPT !.state = IF t \in Strict THEN "failed" ELSE "skipped"] \in TaskInstance
      BY <1>t, StateType DEF TypeOK, Status
    <2>2. /\ task' \in [Task -> TaskInstance] /\ db' \in [Task -> TaskInstance]
          /\ pc' \in Location /\ outcome' \in {"ok", "stalled", "illegal", "busy"}
          /\ progressed' \in BOOLEAN
      <3>1. CASE task[t].state = "pending" /\ DependencyFailed(t)
        BY <1>3, <1>t, <2>1, <3>1, MarkType DEF PropagateFailures, Location
      <3>2. CASE ~(task[t].state = "pending" /\ DependencyFailed(t))
        BY <1>3, <1>t, <3>2 DEF PropagateFailures, TypeOK
      <3> QED
        BY <3>1, <3>2
    <2> QED
      BY <1>3, <1>t, <2>2 DEF PropagateFailures, TypeOK, execVars, envVars
  <1>4. ASSUME EndPass
        PROVE  TypeOK'
    BY <1>4, <1>t DEF EndPass, Location, TypeOK, execVars, envVars
  <1>4a. ASSUME TakeSnapshot
         PROVE  TypeOK'
    BY <1>4a, <1>t DEF TakeSnapshot, ReadyTasks, TasksOf, Location, TypeOK, execVars, envVars
  <1>5. ASSUME EndIteration
        PROVE  TypeOK'
    <2>1. iter < MaxIterations /\ iter \in Nat /\ MaxIterations \in Nat
      BY <1>5, PolicyAssumption DEF EndIteration, SchedulerInv, JobInv, InExecute, TypeOK
    <2>2. iter' \in 0..MaxIterations
      BY <1>5, <2>1 DEF EndIteration
    <2>3. /\ pc' \in Location /\ outcome' \in {"ok", "stalled", "illegal", "busy"}
          /\ todo' \subseteq Task /\ job' \in Job \cup {None}
      BY <1>5, <1>t DEF EndIteration, TypeOK, Location, TasksOf
    <2> QED
      BY <1>5, <1>t, <2>2, <2>3 DEF EndIteration, TypeOK, execVars, envVars
  <1>6. ASSUME NEW t \in Task, DropStaleEntry(t)
        PROVE  TypeOK'
    BY <1>6, <1>t DEF DropStaleEntry, TypeOK, execVars, envVars
  <1>7. ASSUME NEW t \in Task, TryCacheHit(t)
        PROVE  TypeOK'
    <2>1. [task[t] EXCEPT !.state = "running"] \in TaskInstance
      BY <1>t, StateType DEF TypeOK, Status
    <2>2. /\ task' \in [Task -> TaskInstance] /\ db' \in [Task -> TaskInstance]
          /\ pc' \in Location /\ outcome' \in {"ok", "stalled", "illegal", "busy"}
      BY <1>7, <1>t, <2>1, MarkType DEF TryCacheHit, Location
    <2>3. produced' \in Seq(Ref)
      BY <1>7, <1>t DEF TryCacheHit, Entries, TypeOK, CacheEntry
    <2> QED
      BY <1>7, <1>t, <2>2, <2>3 DEF TryCacheHit, TypeOK, execVars, envVars
  <1>8. ASSUME FinishCacheHit
        PROVE  TypeOK'
    <2>1. cur \in Task
      BY <1>8 DEF FinishCacheHit, SchedulerInv, CurInv, InCall
    <2>2. [task[cur] EXCEPT !.state = "succeeded", !.outputs = produced] \in TaskInstance
      BY <1>t, <2>1, OutputsType DEF TypeOK, Status
    <2>3. /\ task' \in [Task -> TaskInstance] /\ db' \in [Task -> TaskInstance]
          /\ pc' \in Location /\ outcome' \in {"ok", "stalled", "illegal", "busy"}
      BY <1>8, <1>t, <2>1, <2>2, MarkType DEF FinishCacheHit, Location
    <2>4. declared' \in Seq(Ref)
      BY <1>8, <1>t, <2>1 DEF FinishCacheHit, TypeOK, TaskInstance
    <2> QED
      BY <1>8, <1>t, <2>1, <2>3, <2>4 DEF FinishCacheHit, TypeOK, execVars, envVars
  <1>9. ASSUME NEW t \in Task, Dispatch(t)
        PROVE  TypeOK'
    BY <1>9, <1>t, SubmitType DEF Dispatch, TypeOK, envVars
  <1>10. ASSUME Redispatch
         PROVE  TypeOK'
    <2>1. cur \in Task
      BY <1>10 DEF Redispatch, SchedulerInv, CurInv, InCall
    <2> QED
      BY <1>10, <1>t, <2>1, SubmitType DEF Redispatch, TypeOK, envVars
  <1>11. ASSUME OnArtifact
         PROVE  TypeOK'
    <2>1. Head(events) \in WorkerEvent /\ Tail(events) \in Seq(WorkerEvent)
      BY <1>11, <1>t DEF OnArtifact, TypeOK
    <2>2. Head(events).task = cur => Head(events).ref \in Ref
      BY <1>11, <2>1 DEF OnArtifact, WorkerEvent
    <2>3. produced' \in Seq(Ref)
      BY <1>11, <1>t, <2>2 DEF OnArtifact, TypeOK
    <2> QED
      BY <1>11, <1>t, <2>1, <2>3 DEF OnArtifact, TypeOK, envVars
  <1>12. ASSUME NEW type \in EventType, Consume(type)
         PROVE  events' \in Seq(WorkerEvent) /\ cur \in Task
    BY <1>12, <1>t DEF Consume, TypeOK, SchedulerInv, CurInv, InCall
  <1>13. ASSUME OnCompleted
         PROVE  TypeOK'
    <2>1. events' \in Seq(WorkerEvent) /\ cur \in Task
      BY <1>12, <1>13 DEF OnCompleted, EventType
    <2>2. [task[cur] EXCEPT !.state = "succeeded", !.outputs = produced] \in TaskInstance
      BY <1>t, <2>1, OutputsType DEF TypeOK, Status
    <2>3. /\ task' \in [Task -> TaskInstance] /\ db' \in [Task -> TaskInstance]
          /\ pc' \in Location /\ outcome' \in {"ok", "stalled", "illegal", "busy"}
      BY <1>13, <1>t, <2>1, <2>2, MarkType DEF OnCompleted, Location
    <2>4. declared' \in Seq(Ref)
      BY <1>13, <1>t, <2>1 DEF OnCompleted, TypeOK, TaskInstance
    <2> QED
      BY <1>13, <1>t, <2>1, <2>3, <2>4 DEF OnCompleted, Consume, TypeOK, envVars
  <1>14. ASSUME OnCancelled
         PROVE  TypeOK'
    <2>1. events' \in Seq(WorkerEvent) /\ cur \in Task
      BY <1>12, <1>14 DEF OnCancelled, EventType
    <2>2. [task[cur] EXCEPT !.state = "cancelled", !.outputs = <<>>] \in TaskInstance
      <3>1. <<>> \in Seq(Ref) /\ task[cur] \in TaskInstance /\ "cancelled" \in Status
        BY <1>t, <2>1 DEF TypeOK, Status
      <3> QED
        BY <3>1, OutputsType
    <2>3. /\ task' \in [Task -> TaskInstance] /\ db' \in [Task -> TaskInstance]
          /\ pc' \in Location /\ outcome' \in {"ok", "stalled", "illegal", "busy"}
      BY <1>14, <1>t, <2>1, <2>2, MarkType DEF OnCancelled, Location
    <2> QED
      BY <1>14, <1>t, <2>1, <2>3 DEF OnCancelled, Consume, TypeOK, envVars
  <1>15. ASSUME NEW recoverable \in BOOLEAN, OnFailed(recoverable)
         PROVE  TypeOK'
    <2>1. events' \in Seq(WorkerEvent)
      BY <1>12, <1>15 DEF OnFailed, EventType
    <2>2. /\ task' \in [Task -> TaskInstance] /\ runs' \in [Task -> Seq(Run)]
          /\ retryable' \in BOOLEAN /\ pc' \in Location
      BY <1>15, FailedType DEF OnFailed, Consume
    <2> QED
      BY <1>15, <1>t, <2>1, <2>2 DEF OnFailed, Consume, TypeOK, envVars
  <1>16. ASSUME OnTimeout
         PROVE  TypeOK'
    <2>1. missed' \in 0..MissLimit
      <3>1. missed' = 0 \/ (missed < MissLimit /\ missed' = missed + 1)
        BY <1>16 DEF OnTimeout
      <3>2. missed \in 0..MissLimit
        BY <1>t DEF TypeOK
      <3> QED
        BY <3>1, <3>2, PolicyAssumption
    <2>2. /\ task' \in [Task -> TaskInstance] /\ runs' \in [Task -> Seq(Run)]
          /\ retryable' \in BOOLEAN /\ pc' \in Location
      BY <1>16, <1>t, FailedType DEF OnTimeout, TypeOK
    <2>3. silences' \in 0..MaxSilences
      <3>1. silences' = silences \/ (silences < MaxSilences /\ silences' = silences + 1)
        BY <1>16 DEF OnTimeout
      <3>2. silences \in 0..MaxSilences
        BY <1>t DEF TypeOK
      <3> QED
        BY <3>1, <3>2, PolicyAssumption
    <2> QED
      BY <1>16, <1>t, <2>1, <2>2, <2>3 DEF OnTimeout, TypeOK, execVars
  <1>17. ASSUME MarkFailed
         PROVE  TypeOK'
    <2>1. cur \in Task
      BY <1>17 DEF MarkFailed, SchedulerInv, CurInv, InCall
    <2>2. [task[cur] EXCEPT !.state = "failed"] \in TaskInstance
      BY <1>t, <2>1, StateType DEF TypeOK, Status
    <2>3. /\ task' \in [Task -> TaskInstance] /\ db' \in [Task -> TaskInstance]
          /\ pc' \in Location /\ outcome' \in {"ok", "stalled", "illegal", "busy"}
      BY <1>17, <1>t, <2>1, <2>2, MarkType DEF MarkFailed, Location
    <2>4. progressed' \in BOOLEAN
      BY <1>17 DEF MarkFailed
    <2> QED
      BY <1>17, <1>t, <2>3, <2>4 DEF MarkFailed, TypeOK, execVars, envVars
  <1>18. ASSUME Retry
         PROVE  TypeOK'
    <2>1. cur \in Task
      BY <1>18 DEF Retry, SchedulerInv, CurInv, InCall
    <2>2. [task[cur] EXCEPT !.state = "pending"] \in TaskInstance
      BY <1>t, <2>1, StateType DEF TypeOK, Status
    <2>3. /\ task' \in [Task -> TaskInstance] /\ db' \in [Task -> TaskInstance]
          /\ pc' \in Location /\ outcome' \in {"ok", "stalled", "illegal", "busy"}
      BY <1>18, <1>t, <2>1, <2>2, MarkType DEF Retry, Location
    <2> QED
      BY <1>18, <1>t, <2>3 DEF Retry, TypeOK, execVars, envVars
  <1>19. ASSUME StoreOutput
         PROVE  TypeOK'
    <2>1. cur \in Task
      BY <1>19 DEF StoreOutput, SchedulerInv, CurInv, InCall
    <2>2. task[cur].outputs # <<>> =>
            [kind |-> KindOf[cur], inputs |-> task[cur].inputs,
             output |-> Head(task[cur].outputs)] \in CacheEntry
      <3>1. task[cur] \in TaskInstance
        BY <1>t, <2>1 DEF TypeOK
      <3>2. task[cur].inputs \in SUBSET Ref /\ task[cur].outputs \in Seq(Ref)
        BY <3>1 DEF TaskInstance
      <3>3. KindOf[cur] \in Kind
        BY <2>1, RefAssumption
      <3>4. task[cur].outputs # <<>> => Head(task[cur].outputs) \in Ref
        BY <3>2
      <3> QED
        BY <3>2, <3>3, <3>4 DEF CacheEntry
    <2>3. cache' \subseteq CacheEntry
      BY <1>19, <1>t, <2>2 DEF StoreOutput, TypeOK
    <2> QED
      BY <1>19, <1>t, <2>3 DEF StoreOutput, TypeOK, Location, execVars, envVars
  <1>20. ASSUME RecordRun
         PROVE  TypeOK'
    <2>1. cur \in Task
      BY <1>20 DEF RecordRun, SchedulerInv, CurInv, InCall
    <2>2. RunOf(task[cur], task[cur].state, task[cur].outputs) \in Run
      BY <1>t, <2>1, PolicyAssumption, SMTT(30) DEF TypeOK, TaskInstance, RunOf, Run
    <2>3. Append(runs[cur], RunOf(task[cur], task[cur].state, task[cur].outputs)) \in Seq(Run)
      BY <1>t, <2>1, <2>2 DEF TypeOK
    <2>4. runs' \in [Task -> Seq(Run)] /\ pc' \in Location /\ progressed' \in BOOLEAN
      BY <1>20, <1>t, <2>1, <2>3 DEF RecordRun, TypeOK, Location
    <2> QED
      BY <1>20, <1>t, <2>4 DEF RecordRun, TypeOK, execVars, envVars
  <1>21. ASSUME ThreadOutputsToDependents
         PROVE  TypeOK'
    <2>1. cur \in Task
      BY <1>21 DEF ThreadOutputsToDependents, SchedulerInv, CurInv, InCall
    <2>2. ASSUME NEW t \in Task
          PROVE  [task[t] EXCEPT !.inputs = Threaded(@, declared, task[cur].outputs)] \in TaskInstance
      <3>1. Threaded(task[t].inputs, declared, task[cur].outputs) \in SUBSET Ref
        BY <1>t, <2>1, ThreadedType DEF TypeOK, TaskInstance
      <3> QED
        BY <1>t, <3>1 DEF TypeOK, TaskInstance
    <2>3. task' \in [Task -> TaskInstance]
      BY <1>21, <1>t, <2>2 DEF ThreadOutputsToDependents, TypeOK
    <2> QED
      BY <1>21, <1>t, <2>3 DEF ThreadOutputsToDependents, TypeOK, Location, execVars, envVars
  <1>22. ASSUME NEW t \in Task, Cancel(t)
         PROVE  TypeOK'
    <2>1. [task[t] EXCEPT !.state = "cancelled"] \in TaskInstance
      BY <1>t, StateType DEF TypeOK, Status
    <2>2. /\ task' \in [Task -> TaskInstance] /\ db' \in [Task -> TaskInstance]
          /\ pc' \in Location /\ outcome' \in {"ok", "stalled", "illegal", "busy"}
          /\ cancelled' \in BOOLEAN /\ raced' \subseteq Job
      BY <1>22, <1>t, <2>1, MarkType DEF Cancel, TypeOK
    <2>3. cancels' \in 0..MaxCancels
      <3>1. cancels < MaxCancels /\ cancels' = cancels + 1
        BY <1>22 DEF Cancel
      <3>2. cancels \in 0..MaxCancels
        BY <1>t DEF TypeOK
      <3> QED
        BY <3>1, <3>2, PolicyAssumption
    <2> QED
      BY <1>22, <1>t, <2>2, <2>3 DEF Cancel, TypeOK
  <1>23. ASSUME WorkerArtifact
         PROVE  TypeOK'
    <2>1. Head(left) \in Ref /\ Tail(left) \in Seq(Ref) /\ busy \in Task
      BY <1>23, <1>t DEF WorkerArtifact, TypeOK
    <2>2. [task |-> busy, type |-> "artifact", ref |-> Head(left)] \in WorkerEvent
      BY <2>1 DEF WorkerEvent
    <2>3. events' \in Seq(WorkerEvent) /\ store' \subseteq Ref
      BY <1>23, <1>t, <2>1, <2>2 DEF WorkerArtifact, TypeOK
    <2> QED
      BY <1>23, <1>t, <2>1, <2>3 DEF WorkerArtifact, TypeOK, schedVars, envVars
  <1>24. ASSUME NEW type \in EventType \ {"artifact"}, WorkerTerminal(type)
         PROVE  TypeOK'
    <2>1. [task |-> busy, type |-> type, ref |-> None] \in WorkerEvent
      BY <1>24, <1>t DEF WorkerTerminal, WorkerEvent, TypeOK
    <2>2. events' \in Seq(WorkerEvent)
      BY <1>24, <1>t, <2>1 DEF WorkerTerminal, TypeOK
    <2>3. busy' \in Task \cup {None} /\ left' \in Seq(Ref)
      BY <1>24 DEF WorkerTerminal
    <2>4. cancelled' \in BOOLEAN
      BY <1>24 DEF WorkerTerminal
    <2> QED
      BY <1>24, <1>t, <2>2, <2>3, <2>4 DEF WorkerTerminal, TypeOK, schedVars, envVars
  <1>25. ASSUME NEW r \in Ref, LoseArtifact(r)
         PROVE  TypeOK'
    BY <1>25, <1>t, PolicyAssumption DEF LoseArtifact, TypeOK, schedVars, execVars
  <1>26. ASSUME Die, crashes' = crashes \/ (crashes < MaxCrashes /\ crashes' = crashes + 1)
         PROVE  TypeOK'
    <2>1. crashes' \in 0..MaxCrashes /\ missed' \in 0..MissLimit /\ iter' \in 0..MaxIterations
      BY <1>26, <1>t, PolicyAssumption DEF Die, TypeOK
    <2>2. declared' \in Seq(Ref) /\ produced' \in Seq(Ref) /\ left' \in Seq(Ref)
      BY <1>26 DEF Die
    <2>3. events' \in Seq(WorkerEvent)
      BY <1>26 DEF Die
    <2>4. progressed' \in BOOLEAN /\ retryable' \in BOOLEAN /\ cancelled' \in BOOLEAN
      BY <1>26 DEF Die
    <2> QED
      BY <1>26, <1>t, <2>1, <2>2, <2>3, <2>4 DEF Die, TypeOK, Location
  <1>27. CASE UNCHANGED vars
    BY <1>27, <1>t DEF vars, schedVars, execVars, envVars, TypeOK
  <1> QED
    BY <1>1, <1>2, <1>3, <1>4, <1>4a, <1>5, <1>6, <1>7, <1>8, <1>9, <1>10, <1>11, <1>13,
       <1>14, <1>15, <1>16, <1>17, <1>18, <1>19, <1>20, <1>21, <1>22, <1>23, <1>24, <1>25, <1>26, <1>27
    DEF Next, SchedulerStep, WorkerStep, Crash, ExitAfterException

-----------------------------------------------------------------------------
(* What a write to the tasks table does to the persisted statuses. *)

\* RunsOnSucceededDeps and SkipJustified in terms of the rows.
DepsInv ==
    \A t \in Task : JobOf[t] \in saved /\ db[t].state \in {"running", "succeeded"} =>
        \A d \in Deps[t] : db[d].state = "succeeded"

SkipInv ==
    \A t \in Task : JobOf[t] \in saved /\ db[t].state = "skipped" =>
        \E d \in Deps[t] : db[d].state \in Unsuccessful

LEMMA DepsInvEquiv == RunsOnSucceededDeps <=> DepsInv
  BY GraphAssumption DEF RunsOnSucceededDeps, Lifecycle!DepsSucceeded, DepsInv, PersistedStatus

LEMMA SkipInvEquiv == SkipJustified <=> SkipInv
  BY GraphAssumption
  DEF SkipJustified, Lifecycle!SkipJustified, Lifecycle!Justified, Lifecycle!Unsuccessful, SkipInv,
      PersistedStatus, Unsuccessful, Terminal

\* Dependencies are other tasks of the same job.
LEMMA DepsAreOthers ==
  \A u \in Task : \A d \in Deps[u] : d \in Task /\ JobOf[d] = JobOf[u] /\ d # u
  <1> SUFFICES ASSUME NEW u \in Task, NEW d \in Deps[u]
               PROVE  d \in Task /\ JobOf[d] = JobOf[u] /\ d # u
    OBVIOUS
  <1>1. d \in Task /\ JobOf[d] = JobOf[u]
    BY GraphAssumption
  <1>2. Rank[d] < Rank[u] /\ Rank[d] \in Nat /\ Rank[u] \in Nat
    BY <1>1, AcyclicAssumption
  <1> QED
    BY <1>1, <1>2

\* The effect of Mark(t, [task[t] EXCEPT !.state = s, ...]) when it does not throw.
StateStep(t, s) ==
    /\ \A u \in Task : task'[u].state = IF u = t THEN s ELSE task[u].state
    /\ \A u \in Task : db'[u].state = IF u = t THEN s ELSE db[u].state
    /\ \A u \in Task : task'[u].attempts = task[u].attempts
    /\ \A u \in Task : db'[u].attempts = IF u = t THEN task[t].attempts ELSE db[u].attempts

LEMMA MarkStateStep ==
  ASSUME TypeOK, NEW t \in Task, NEW instance \in TaskInstance,
         instance.attempts = task[t].attempts,
         task' = [task EXCEPT ![t] = instance], db' = [db EXCEPT ![t] = instance]
  PROVE  StateStep(t, instance.state)
  BY DEF StateStep, TypeOK, TaskInstance

\* What has to hold when task t of the active job takes state s.
MarkAllowed(t, s) ==
    /\ JobOf[t] = job
    /\ IsLegal(task[t].state, s)
    /\ s = "running" => \A d \in Deps[t] : task[d].state = "succeeded"
    /\ s = "skipped" \/ (s = "failed" /\ task[t].state = "pending") => DependencyFailed(t)
    /\ task[t].state = "failed" =>
          /\ \A d \in Deps[t] : task[d].state = "succeeded"
          /\ \A u \in Task : t \in Deps[u] /\ db[u].state = "skipped" =>
                \E d \in Deps[u] \ {t} : db[d].state \in Unsuccessful

\* A dependency in memory and in project.db: once terminal, they agree.
LEMMA AgreeOnTerminal ==
  ASSUME AgreeInv, NEW t \in Task, JobOf[t] = job
  PROVE  /\ task[t].state \in Terminal \cup {"running"} => db[t].state = task[t].state
         /\ db[t].state \in Terminal \cup {"pending"} => db[t].state = task[t].state
  BY DEF AgreeInv, Terminal

LEMMA MarkPreserves ==
  ASSUME AgreeInv, DepsInv, SkipInv, job \in saved, job' = job, saved' = saved,
         NEW t \in Task, NEW s \in Status, StateStep(t, s), MarkAllowed(t, s)
  PROVE  AgreeInv' /\ DepsInv' /\ SkipInv'
  <1>g. \A u \in Task : \A d \in Deps[u] : d \in Task /\ JobOf[d] = JobOf[u] /\ d # u
    BY DepsAreOthers
  <1>1. AgreeInv'
    BY DEF AgreeInv, StateStep
  <1>2. DepsInv'
    <2> SUFFICES ASSUME NEW u \in Task, JobOf[u] \in saved,
                        db'[u].state \in {"running", "succeeded"}, NEW d \in Deps[u]
                 PROVE  db'[d].state = "succeeded"
      BY DEF DepsInv
    <2>1. d \in Task /\ JobOf[d] = JobOf[u] /\ d # u
      BY <1>g
    <2>2. db[d].state = "succeeded" => db'[d].state = "succeeded"
      BY <2>1, AgreeOnTerminal DEF StateStep, MarkAllowed, IsLegal, Terminal
    <2>3. CASE u # t
      BY <2>1, <2>2, <2>3 DEF DepsInv, StateStep
    <2>4. CASE u = t
      <3>1. CASE s = "running"
        BY <2>1, <2>2, <2>4, <3>1, AgreeOnTerminal DEF MarkAllowed, Terminal
      <3>2. CASE s # "running"
        <4>1. s = "succeeded" /\ task[t].state = "running"
          BY <2>4, <3>2 DEF StateStep, MarkAllowed, IsLegal
        <4>2. db[t].state = "running"
          BY <4>1, AgreeOnTerminal DEF MarkAllowed
        <4> QED
          BY <2>1, <2>2, <2>4, <4>2 DEF DepsInv
      <3> QED
        BY <3>1, <3>2
    <2> QED
      BY <2>3, <2>4
  <1>3. SkipInv'
    <2> SUFFICES ASSUME NEW u \in Task, JobOf[u] \in saved, db'[u].state = "skipped"
                 PROVE  \E d \in Deps[u] : db'[d].state \in Unsuccessful
      BY DEF SkipInv
    <2>1. CASE u = t
      <3>1. s = "skipped"
        BY <2>1 DEF StateStep
      <3>2. PICK d \in Deps[t] : task[d].state \in Unsuccessful
        BY <3>1 DEF MarkAllowed, DependencyFailed
      <3>3. d \in Task /\ JobOf[d] = job /\ d # t
        BY <1>g DEF MarkAllowed
      <3>4. db[d].state \in Unsuccessful
        BY <3>2, <3>3, AgreeOnTerminal DEF Unsuccessful, Terminal
      <3> QED
        BY <2>1, <3>3, <3>4 DEF StateStep
    <2>2. CASE u # t
      <3>1. db[u].state = "skipped"
        BY <2>2 DEF StateStep
      <3>2. PICK d \in Deps[u] : db[d].state \in Unsuccessful
        BY <3>1 DEF SkipInv
      <3>3. d \in Task
        BY <1>g
      <3>4. CASE d # t
        BY <3>2, <3>3, <3>4 DEF StateStep
      <3>5. CASE d = t
        <4>1. task[t].state \in Unsuccessful
          BY <3>2, <3>5, AgreeOnTerminal DEF MarkAllowed, Unsuccessful, Terminal
        <4>2. task[t].state = "failed"
          BY <4>1 DEF MarkAllowed, IsLegal, Unsuccessful, Terminal
        <4>3. PICK e \in Deps[u] \ {t} : db[e].state \in Unsuccessful
          BY <3>1, <3>5, <4>2 DEF MarkAllowed
        <4> QED
          BY <1>g, <4>3 DEF StateStep
      <3> QED
        BY <3>4, <3>5
    <2> QED
      BY <2>1, <2>2
  <1> QED
    BY <1>1, <1>2, <1>3

\* A write to the tasks table is a step of the lifecycle, or leaves it alone.
LEMMA MarkIsLifecycleStep ==
  ASSUME TypeOK, TypeOK', AgreeInv, DepsInv, SkipInv, job \in saved, saved' = saved,
         NEW t \in Task, NEW s \in Status, StateStep(t, s), MarkAllowed(t, s)
  PROVE  Lifecycle!Next \/ PersistedStatus' = PersistedStatus
  <1>g. \A u \in Task : \A d \in Deps[u] : d \in Task /\ JobOf[d] = JobOf[u]
    BY GraphAssumption
  <1>1. PersistedStatus' = [PersistedStatus EXCEPT ![t] = s]
    BY DEF PersistedStatus, StateStep, MarkAllowed
  <1>2. \A u \in Task : JobOf[u] = job => PersistedStatus[u] = db[u].state
    BY DEF PersistedStatus
  <1>3. JobOf[t] = job /\ \A d \in Deps[t] : d \in Task /\ JobOf[d] = job
    BY <1>g DEF MarkAllowed
  <1>4. PersistedStatus[t] = task[t].state \/ (task[t].state = "pending" /\ PersistedStatus[t] = "running")
    BY <1>2, <1>3 DEF AgreeInv
  <1>5. CASE s = "running"
    <2>1. CASE PersistedStatus[t] = "pending"
      <3>1. \A d \in Deps[t] : PersistedStatus[d] = "succeeded"
        BY <1>2, <1>3, <1>5, AgreeOnTerminal DEF MarkAllowed, Terminal
      <3> QED
        BY <1>1, <1>5, <2>1, <3>1 DEF Lifecycle!Next, Lifecycle!Begin
    <2>2. CASE PersistedStatus[t] = "running"
      BY <1>1, <1>5, <2>2 DEF PersistedStatus
    <2> QED
      BY <1>4, <1>5, <2>1, <2>2 DEF MarkAllowed, IsLegal
  <1>6. CASE PersistedStatus[t] = "running" /\ s \in {"succeeded", "failed", "cancelled"}
    BY <1>1, <1>6 DEF Lifecycle!Next, Lifecycle!Finish
  <1>7. CASE s = "cancelled" /\ PersistedStatus[t] = "pending"
    BY <1>1, <1>7 DEF Lifecycle!Next, Lifecycle!Cancel
  <1>8. CASE task[t].state = "pending" /\ s \in {"skipped", "failed"}
    <2>1. PICK d \in Deps[t] : task[d].state \in Unsuccessful
      BY <1>8 DEF MarkAllowed, DependencyFailed
    <2>2. db[d].state \in Unsuccessful
      BY <1>3, <2>1, AgreeOnTerminal DEF Unsuccessful, Terminal
    <2>3. PersistedStatus[t] # "running"
      BY <1>2, <1>3, <2>2 DEF DepsInv, Unsuccessful, Terminal
    <2>4. Lifecycle!Justified(t, {})
      BY <1>2, <1>3, <2>2 DEF Lifecycle!Justified, Lifecycle!Unsuccessful, Unsuccessful, Terminal
    <2> QED
      BY <1>1, <1>4, <1>8, <2>3, <2>4 DEF Lifecycle!Next, Lifecycle!Propagate
  <1>9. CASE task[t].state = "failed"
    <2>1. s = "pending" /\ PersistedStatus[t] = "failed"
      BY <1>4, <1>9 DEF MarkAllowed, IsLegal
    <2>2. \A d \in Deps[t] : PersistedStatus[d] = "succeeded"
      BY <1>2, <1>3, <1>9, AgreeOnTerminal DEF MarkAllowed, Terminal
    <2>3. ASSUME NEW u \in Task, t \in Deps[u], PersistedStatus[u] = "skipped"
          PROVE  Lifecycle!Justified(u, {t})
      <3>1. JobOf[u] = job /\ db[u].state = "skipped"
        BY <1>g, <1>2, <1>3, <2>3
      <3>2. PICK d \in Deps[u] \ {t} : db[d].state \in Unsuccessful
        BY <1>9, <2>3, <3>1 DEF MarkAllowed
      <3>3. PersistedStatus[d] = db[d].state
        BY <1>g, <1>2, <3>1
      <3> QED
        BY <3>2, <3>3 DEF Lifecycle!Justified, Lifecycle!Unsuccessful, Unsuccessful, Terminal
    <2> QED
      BY <1>1, <2>1, <2>2, <2>3 DEF Lifecycle!Next, Lifecycle!Retry
  <1> QED
    BY <1>4, <1>5, <1>6, <1>7, <1>8, <1>9 DEF MarkAllowed, IsLegal

-----------------------------------------------------------------------------
(* The invariant of memory, project.db and the control state, and what each *)
(* kind of step does to it and to the persisted statuses.                  *)

CoreInv ==
    /\ JobInv
    /\ AgreeInv
    /\ CurInv
    /\ AttemptsInv
    /\ TodoInv
    /\ RunningInv
    /\ ProgressInv
    /\ RetryInv
    /\ DepsInv
    /\ SkipInv

\* A step of the scheduler seen through the refinement mapping.
RefinementStep == Lifecycle!Next \/ PersistedStatus' = PersistedStatus

LEMMA InvSplit == SchedulerInv <=> TypeOK /\ CoreInv /\ QuietInv /\ OutcomeInv
  BY DepsInvEquiv, SkipInvEquiv DEF SchedulerInv, CoreInv

LEMMA InvSplitNext == SchedulerInv' <=> TypeOK' /\ CoreInv' /\ QuietInv' /\ OutcomeInv'
  BY InvSplit, PTL

\* While Execute is at work it has a job, and that job is saved.
LEMMA ActiveJob ==
  ASSUME JobInv, pc \in InExecute \cup {"aborted"}
  PROVE  job # None /\ job \in saved
  BY DEF JobInv, InExecute, InCall

\* Steps that touch neither the tasks nor the control state.
LEMMA FrameStep ==
  ASSUME CoreInv,
         UNCHANGED <<task, db, saved, job, pc, iter, progressed, todo, cur, retryable, raced>>
  PROVE  CoreInv'
  BY DEF CoreInv, JobInv, AgreeInv, CurInv, AttemptsInv, TodoInv, RunningInv, ProgressInv, RetryInv,
         DepsInv, SkipInv, DependencyFailed, ReadyTasks, TasksOf

LEMMA FrameRefines ==
  ASSUME UNCHANGED <<db, saved>>
  PROVE  RefinementStep
  BY DEF RefinementStep, PersistedStatus

\* An exception leaves Execute and the statuses stay as they are.
LEMMA AbortStep ==
  ASSUME CoreInv, pc \in InExecute, pc' = "aborted",
         UNCHANGED <<task, db, saved, job>>
  PROVE  CoreInv'
  <1>1. job # None /\ job \in saved
    BY ActiveJob DEF CoreInv
  <1>2. JobInv' /\ CurInv' /\ TodoInv' /\ RunningInv' /\ RetryInv' /\ ProgressInv'
    BY <1>1 DEF JobInv, CurInv, TodoInv, RunningInv, RetryInv, ProgressInv, InExecute, InCall
  <1>3. AgreeInv' /\ DepsInv' /\ SkipInv'
    BY DEF CoreInv, AgreeInv, DepsInv, SkipInv
  <1>4. AttemptsInv'
    BY DEF CoreInv, AttemptsInv
  <1> QED
    BY <1>2, <1>3, <1>4 DEF CoreInv

\* The two ways Mark ends.
LEMMA MarkCases ==
  ASSUME TypeOK, NEW t \in Task, NEW instance \in TaskInstance,
         instance.attempts = task[t].attempts, NEW next, Mark(t, instance, next)
  PROVE  \/ /\ IsLegal(task[t].state, instance.state)
            /\ StateStep(t, instance.state)
            /\ pc' = next /\ outcome' = outcome
         \/ /\ ~IsLegal(task[t].state, instance.state)
            /\ pc' = "aborted" /\ outcome' = "illegal"
            /\ task' = task /\ db' = db
  BY MarkStateStep DEF Mark

\* The field values of the instances given to Mark.
LEMMA InstanceFields ==
  ASSUME NEW instance \in TaskInstance, NEW s \in Status, NEW out \in Seq(Ref)
  PROVE  /\ [instance EXCEPT !.state = s] \in TaskInstance
         /\ [instance EXCEPT !.state = s].state = s
         /\ [instance EXCEPT !.state = s].attempts = instance.attempts
         /\ [instance EXCEPT !.state = s, !.outputs = out] \in TaskInstance
         /\ [instance EXCEPT !.state = s, !.outputs = out].state = s
         /\ [instance EXCEPT !.state = s, !.outputs = out].attempts = instance.attempts
  BY StateType, OutputsType DEF TaskInstance

\* A legal Mark, with or without new outputs, is a step of the state alone.
LEMMA MarkLegal ==
  ASSUME TypeOK, NEW t \in Task, NEW s \in Status, NEW out \in Seq(Ref), NEW next,
         IsLegal(task[t].state, s),
         \/ Mark(t, [task[t] EXCEPT !.state = s], next)
         \/ Mark(t, [task[t] EXCEPT !.state = s, !.outputs = out], next)
  PROVE  StateStep(t, s) /\ pc' = next /\ outcome' = outcome
  <1>1. task[t] \in TaskInstance /\ <<>> \in Seq(Ref)
    BY DEF TypeOK
  <1>2. CASE Mark(t, [task[t] EXCEPT !.state = s], next)
    <2> DEFINE instance == [task[t] EXCEPT !.state = s]
    <2>1. instance \in TaskInstance /\ instance.state = s /\ instance.attempts = task[t].attempts
      BY <1>1, InstanceFields
    <2>2. Mark(t, instance, next)
      BY <1>2
    <2> HIDE DEF instance
    <2> QED
      BY <2>1, <2>2, MarkCases
  <1>3. CASE Mark(t, [task[t] EXCEPT !.state = s, !.outputs = out], next)
    <2> DEFINE instance == [task[t] EXCEPT !.state = s, !.outputs = out]
    <2>1. instance \in TaskInstance
      BY <1>1, OutputsType
    <2>2. instance.state = s /\ instance.attempts = task[t].attempts
      BY <1>1 DEF TaskInstance
    <2>3. Mark(t, instance, next)
      BY <1>3
    <2> HIDE DEF instance
    <2> QED
      BY <2>1, <2>2, <2>3, MarkCases
  <1> QED
    BY <1>2, <1>3

\* A dependency that has succeeded still has after a legal step of another
\* state: no edge leaves `succeeded`.
LEMMA SucceededStays ==
  ASSUME NEW t \in Task, NEW s \in Status, StateStep(t, s), IsLegal(task[t].state, s),
         NEW d \in Task, task[d].state = "succeeded"
  PROVE  task'[d].state = "succeeded" /\ d # t
  BY DEF StateStep, IsLegal

-----------------------------------------------------------------------------
(* One lemma per kind of status change. *)

\* A ready or retried task is marked running, from the cache or for dispatch;
\* a busy executor makes Submit throw after the mark.
LEMMA StartStep ==
  ASSUME TypeOK, TypeOK', CoreInv, NEW t \in Task, JobOf[t] = job,
         pc \in {"dispatch", "redispatch"},
         \A u \in Task : pc = "redispatch" /\ JobOf[u] = job => u = t \/ task[u].state # "running",
         \A d \in Deps[t] : task[d].state = "succeeded",
         IsLegal(task[t].state, "running"), StateStep(t, "running"),
         cur' = t, pc' \in {"hit", "await", "aborted"}, todo' \subseteq todo, t \notin todo',
         UNCHANGED <<saved, job, iter, raced>>
  PROVE  CoreInv' /\ RefinementStep
  <1>1. job # None /\ job \in saved
    BY ActiveJob DEF CoreInv, InExecute, InCall
  <1>2. task[t].state = "pending" /\ task[t].attempts < MaxAttempts
    BY DEF IsLegal, CoreInv, AttemptsInv
  <1>3. MarkAllowed(t, "running")
    BY <1>2 DEF MarkAllowed
  <1>4. AgreeInv' /\ DepsInv' /\ SkipInv'
    BY <1>1, <1>3, MarkPreserves DEF CoreInv, Status
  <1>5. RefinementStep
    BY <1>1, <1>3, MarkIsLifecycleStep DEF CoreInv, Status, RefinementStep
  <1>6. JobInv'
    BY <1>1 DEF CoreInv, JobInv, InExecute, InCall
  <1>7. \A u \in Task : \A d \in Deps[u] : task[d].state = "succeeded" => task'[d].state = "succeeded"
    BY SucceededStays, DepsAreOthers DEF Status
  <1>8. CurInv'
    BY <1>7 DEF CurInv, StateStep, StateAt, InCall
  <1>9. AttemptsInv'
    <2>1. ASSUME NEW u \in Task, db'[u].state \in {"pending", "running"}
          PROVE  db'[u].attempts < MaxAttempts
      BY <1>2, <2>1 DEF CoreInv, AttemptsInv, StateStep
    <2>2. ASSUME NEW u \in Task, task'[u].state \in {"pending", "running"}
          PROVE  task'[u].attempts < MaxAttempts
      BY <1>2, <2>2 DEF CoreInv, AttemptsInv, StateStep
    <2>3. task'[t].attempts < MaxAttempts
      BY <1>2 DEF StateStep
    <2> QED
      BY <2>1, <2>2, <2>3 DEF AttemptsInv
  <1>10. TodoInv'
    <2>1. \A u \in todo' :
            /\ u \in Task /\ u # t /\ JobOf[u] = job
            /\ \A d \in Deps[u] : task[d].state = "succeeded"
            /\ job \notin raced => task[u].state = "pending"
      <3>1. pc \in InExecute /\ pc # "propagate" /\ TodoInv /\ todo \subseteq Task
        BY DEF CoreInv, InExecute, InCall, TypeOK
      <3> QED
        BY <3>1 DEF TodoInv
    <2>2. \A u \in todo' : task'[u].state = task[u].state
      BY <2>1 DEF StateStep
    <2> QED
      BY <1>7, <2>1, <2>2 DEF TodoInv
  <1>11. RunningInv'
    BY DEF CoreInv, RunningInv, InExecute, InCall, StateStep
  <1>12. ProgressInv' /\ RetryInv'
    BY DEF ProgressInv, RetryInv
  <1> QED
    BY <1>4, <1>5, <1>6, <1>8, <1>9, <1>10, <1>11, <1>12 DEF CoreInv

\* A step of the call leaves the rest of the snapshot as it is.
LEMMA TodoAfter ==
  ASSUME TypeOK, TodoInv, CurInv, pc \in InCall, pc' \in InExecute \ {"propagate"},
         NEW s, StateStep(cur, s), UNCHANGED <<job, todo, cur, raced>>,
         \A u \in Task : \A d \in Deps[u] : task[d].state = "succeeded" => task'[d].state = "succeeded"
  PROVE  TodoInv'
  <1>1. \A u \in todo :
          /\ u \in Task /\ u # cur /\ JobOf[u] = job
          /\ \A d \in Deps[u] : task[d].state = "succeeded"
          /\ job \notin raced => task[u].state = "pending"
    BY DEF TodoInv, CurInv, InExecute, InCall, TypeOK
  <1>2. \A u \in todo : task'[u].state = task[u].state
    BY <1>1 DEF StateStep
  <1> QED
    BY <1>1, <1>2 DEF TodoInv

\* The running task of the call ends as succeeded or cancelled.
LEMMA EndStep ==
  ASSUME TypeOK, TypeOK', CoreInv, pc \in {"hit", "await"},
         NEW s \in {"succeeded", "cancelled"}, IsLegal(task[cur].state, s), StateStep(cur, s),
         pc' \in {"store", "record", "thread"}, s \in StateAt(pc'),
         UNCHANGED <<saved, job, iter, todo, cur, raced>>
  PROVE  CoreInv' /\ RefinementStep
  <1>1. job # None /\ job \in saved
    BY ActiveJob DEF CoreInv, InExecute, InCall
  <1>2. /\ cur \in Task /\ JobOf[cur] = job /\ task[cur].state = "running"
        /\ \A d \in Deps[cur] : task[d].state = "succeeded"
    BY DEF CoreInv, CurInv, InCall, StateAt, IsLegal
  <1>3. MarkAllowed(cur, s)
    BY <1>2 DEF MarkAllowed, IsLegal
  <1>4. AgreeInv' /\ DepsInv' /\ SkipInv'
    BY <1>1, <1>2, <1>3, MarkPreserves DEF CoreInv, Status
  <1>5. RefinementStep
    BY <1>1, <1>2, <1>3, MarkIsLifecycleStep DEF CoreInv, Status, RefinementStep
  <1>6. JobInv'
    BY <1>1 DEF CoreInv, JobInv, InExecute, InCall
  <1>7. \A u \in Task : \A d \in Deps[u] : task[d].state = "succeeded" => task'[d].state = "succeeded"
    BY <1>2, <1>3, SucceededStays, DepsAreOthers DEF Status, MarkAllowed
  <1>8. CurInv'
    BY <1>2, <1>7 DEF CoreInv, CurInv, StateStep, InCall
  <1>9. AttemptsInv'
    BY DEF CoreInv, AttemptsInv, StateStep
  <1>10. TodoInv'
    BY <1>7, TodoAfter DEF CoreInv, InExecute, InCall
  <1>11. RunningInv'
    BY <1>2 DEF CoreInv, RunningInv, InExecute, InCall, StateStep
  <1>12. ProgressInv' /\ RetryInv'
    BY DEF ProgressInv, RetryInv, CoreInv
  <1> QED
    BY <1>4, <1>5, <1>6, <1>8, <1>9, <1>10, <1>11, <1>12 DEF CoreInv

\* Steps of a call that change no status: the control moves on, the attempt of
\* the task is counted, refs are threaded.
LEMMA CallStep ==
  ASSUME TypeOK, TypeOK', CoreInv, pc \in InCall \ {"retry", "redispatch"},
         \A u \in Task : task'[u].state = task[u].state,
         \A u \in Task : u # cur => task'[u].attempts = task[u].attempts,
         task'[cur].attempts = task[cur].attempts \/ pc' = "markFailed",
         pc' = "markFailed" /\ retryable' => task'[cur].attempts < MaxAttempts,
         \/ pc' \in {"record", "thread", "markFailed"} /\ task[cur].state \in StateAt(pc')
         \/ pc' = "markFailed" /\ job \in raced /\ task[cur].state = "cancelled"
         \/ pc' = "dispatch" /\ task[cur].state \in Terminal /\ progressed',
         UNCHANGED <<db, saved, job, iter, todo, cur, raced>>
  PROVE  CoreInv' /\ RefinementStep
  <1>1. job # None /\ job \in saved
    BY ActiveJob DEF CoreInv, InExecute, InCall
  <1>2. cur \in Task /\ JobOf[cur] = job /\ \A d \in Deps[cur] : d \in Task
    BY DepsAreOthers DEF CoreInv, CurInv, InCall
  <1>3. JobInv'
    BY <1>1 DEF CoreInv, JobInv, InExecute, InCall
  <1>4. AgreeInv' /\ DepsInv' /\ SkipInv'
    BY DEF CoreInv, AgreeInv, DepsInv, SkipInv
  <1>5. CurInv'
    BY <1>2 DEF CoreInv, CurInv, InCall
  <1>6. AttemptsInv'
    <2>1. pc # "aborted" /\ pc' # "aborted" /\ pc' # "retry"
      BY DEF InCall
    <2>2. CASE pc' = "markFailed"
      BY <1>2, <2>1, <2>2 DEF CoreInv, AttemptsInv
    <2>3. CASE pc' # "markFailed"
      <3>1. pc # "markFailed" \/ task[cur].state \in Terminal \/ task[cur].state \in {"succeeded", "cancelled"}
        BY <2>3 DEF StateAt
      <3>2. ASSUME NEW u \in Task, task'[u].state \in {"pending", "running"}
            PROVE  task'[u].attempts < MaxAttempts
        BY <2>1, <2>3, <3>1, <3>2 DEF CoreInv, AttemptsInv, Terminal
      <3> QED
        BY <2>1, <2>3, <3>2 DEF CoreInv, AttemptsInv
    <2> QED
      BY <2>2, <2>3
  <1>7. TodoInv'
    <2>1. \A u \in todo : u \in Task /\ \A d \in Deps[u] : d \in Task
      BY DepsAreOthers DEF TypeOK
    <2> QED
      BY <2>1 DEF CoreInv, TodoInv, InExecute, InCall
  <1>8. RunningInv'
    BY DEF CoreInv, RunningInv, InExecute, InCall, Terminal
  <1>9. ProgressInv' /\ RetryInv'
    BY DEF ProgressInv, RetryInv, CoreInv
  <1>10. RefinementStep
    BY FrameRefines
  <1> QED
    BY <1>3, <1>4, <1>5, <1>6, <1>7, <1>8, <1>9, <1>10 DEF CoreInv

\* running -> failed, before the retry edge or as the end of the call.
LEMMA FailStep ==
  ASSUME TypeOK, TypeOK', CoreInv, pc = "markFailed", IsLegal(task[cur].state, "failed"),
         StateStep(cur, "failed"),
         pc' = IF retryable THEN "retry" ELSE "dispatch",
         progressed' = (progressed \/ ~retryable),
         UNCHANGED <<saved, job, iter, todo, cur, retryable, raced>>
  PROVE  CoreInv' /\ RefinementStep
  <1>1. job # None /\ job \in saved
    BY ActiveJob DEF CoreInv, InExecute, InCall
  <1>2. /\ cur \in Task /\ JobOf[cur] = job /\ task[cur].state = "running" /\ db[cur].state = "running"
        /\ \A d \in Deps[cur] : task[d].state = "succeeded"
    BY DEF CoreInv, CurInv, InCall, StateAt, IsLegal
  <1>3. MarkAllowed(cur, "failed")
    BY <1>2 DEF MarkAllowed, IsLegal
  <1>4. AgreeInv' /\ DepsInv' /\ SkipInv'
    BY <1>1, <1>2, <1>3, MarkPreserves DEF CoreInv, Status
  <1>5. RefinementStep
    BY <1>1, <1>2, <1>3, MarkIsLifecycleStep DEF CoreInv, Status, RefinementStep
  <1>6. JobInv'
    BY <1>1 DEF CoreInv, JobInv, InExecute, InCall
  <1>7. \A u \in Task : \A d \in Deps[u] : task[d].state = "succeeded" => task'[d].state = "succeeded"
    BY <1>2, <1>3, SucceededStays, DepsAreOthers DEF Status, MarkAllowed
  <1>8. CurInv'
    BY <1>2, <1>7 DEF CoreInv, CurInv, StateStep, StateAt, InCall
  <1>9. AttemptsInv'
    <2>1. \A u \in Task : task'[u].state \in {"pending", "running"} => task'[u].attempts < MaxAttempts
      BY <1>2 DEF CoreInv, AttemptsInv, StateStep
    <2>2. \A u \in Task : db'[u].state \in {"pending", "running"} => db'[u].attempts < MaxAttempts
      BY <1>2 DEF CoreInv, AttemptsInv, StateStep
    <2>3. pc' = "retry" => task'[cur].attempts < MaxAttempts
      BY <1>2 DEF CoreInv, AttemptsInv, StateStep
    <2> QED
      BY <2>1, <2>2, <2>3 DEF AttemptsInv
  <1>10. TodoInv'
    BY <1>7, TodoAfter DEF CoreInv, InExecute, InCall
  <1>11. RunningInv'
    BY <1>2 DEF CoreInv, RunningInv, InExecute, InCall, StateStep
  <1>12. ProgressInv'
    BY DEF ProgressInv, CoreInv
  <1>13. RetryInv'
    <2> SUFFICES ASSUME NEW u \in Task, cur \in Deps[u], db'[u].state = "skipped"
                 PROVE  \E d \in Deps[u] \ {cur} : db'[d].state \in Unsuccessful
      BY DEF RetryInv
    <2>1. JobOf[u] \in saved /\ db[u].state = "skipped"
      BY <1>1, <1>2, DepsAreOthers DEF StateStep
    <2>2. PICK d \in Deps[u] : db[d].state \in Unsuccessful
      BY <2>1 DEF CoreInv, SkipInv
    <2>3. d # cur /\ d \in Task
      BY <1>2, <2>2, DepsAreOthers DEF Unsuccessful, Terminal
    <2> QED
      BY <2>2, <2>3 DEF StateStep
  <1> QED
    BY <1>4, <1>5, <1>6, <1>8, <1>9, <1>10, <1>11, <1>12, <1>13 DEF CoreInv

\* failed -> pending, the retry edge.
LEMMA RetryStep ==
  ASSUME TypeOK, TypeOK', CoreInv, pc = "retry", StateStep(cur, "pending"),
         pc' = "redispatch",
         UNCHANGED <<saved, job, iter, todo, cur, raced>>
  PROVE  CoreInv' /\ RefinementStep
  <1>1. job # None /\ job \in saved
    BY ActiveJob DEF CoreInv, InExecute, InCall
  <1>2. /\ cur \in Task /\ JobOf[cur] = job /\ task[cur].state = "failed"
        /\ \A d \in Deps[cur] : task[d].state = "succeeded"
    BY DEF CoreInv, CurInv, InCall, StateAt
  <1>3. MarkAllowed(cur, "pending")
    BY <1>2 DEF MarkAllowed, IsLegal, CoreInv, RetryInv
  <1>4. AgreeInv' /\ DepsInv' /\ SkipInv'
    BY <1>1, <1>2, <1>3, MarkPreserves DEF CoreInv, Status
  <1>5. RefinementStep
    BY <1>1, <1>2, <1>3, MarkIsLifecycleStep DEF CoreInv, Status, RefinementStep
  <1>6. JobInv'
    BY <1>1 DEF CoreInv, JobInv, InExecute, InCall
  <1>7. \A u \in Task : \A d \in Deps[u] : task[d].state = "succeeded" => task'[d].state = "succeeded"
    BY <1>2, <1>3, SucceededStays, DepsAreOthers DEF Status, MarkAllowed
  <1>8. CurInv'
    BY <1>2, <1>7 DEF CoreInv, CurInv, StateStep, StateAt, InCall
  <1>9. AttemptsInv'
    <2>1. \A u \in Task : task'[u].state \in {"pending", "running"} => task'[u].attempts < MaxAttempts
      BY <1>2 DEF CoreInv, AttemptsInv, StateStep
    <2>2. \A u \in Task : db'[u].state \in {"pending", "running"} => db'[u].attempts < MaxAttempts
      BY <1>2 DEF CoreInv, AttemptsInv, StateStep
    <2> QED
      BY <2>1, <2>2 DEF AttemptsInv
  <1>10. TodoInv'
    BY <1>7, TodoAfter DEF CoreInv, InExecute, InCall
  <1>11. RunningInv'
    BY <1>2 DEF CoreInv, RunningInv, InExecute, InCall, StateStep
  <1>12. ProgressInv' /\ RetryInv'
    BY DEF ProgressInv, RetryInv, CoreInv
  <1> QED
    BY <1>4, <1>5, <1>6, <1>8, <1>9, <1>10, <1>11, <1>12 DEF CoreInv

\* A task is marked cancelled by another thread.
LEMMA CancelStep ==
  ASSUME TypeOK, TypeOK', CoreInv, job # None, NEW t \in Task, JobOf[t] = job,
         task[t].state \in {"pending", "running"}, StateStep(t, "cancelled"),
         raced' = IF task[t].state = "pending" /\ Timely(t) THEN raced ELSE raced \cup {job},
         UNCHANGED <<saved, job, pc, iter, progressed, todo, cur, retryable>>
  PROVE  CoreInv' /\ RefinementStep
  <1>1. job \in saved
    BY DEF CoreInv, JobInv
  <1>2. MarkAllowed(t, "cancelled")
    BY DEF MarkAllowed, IsLegal
  <1>3. AgreeInv' /\ DepsInv' /\ SkipInv'
    BY <1>1, <1>2, MarkPreserves DEF CoreInv, Status
  <1>4. RefinementStep
    BY <1>1, <1>2, MarkIsLifecycleStep DEF CoreInv, Status, RefinementStep
  <1>5. JobInv'
    BY DEF CoreInv, JobInv
  <1>6. \A u \in Task : \A d \in Deps[u] : task[d].state = "succeeded" => task'[d].state = "succeeded"
    BY <1>2, SucceededStays, DepsAreOthers DEF Status, MarkAllowed
  <1>7. CurInv'
    <2> SUFFICES ASSUME pc \in InCall
                 PROVE  CurInv'
      BY DEF CurInv
    <2>1. /\ cur \in Task /\ JobOf[cur] = job /\ cur \notin todo
          /\ db[cur].state = task[cur].state
          /\ \A d \in Deps[cur] : task[d].state = "succeeded"
          /\ \/ task[cur].state \in StateAt(pc)
             \/ /\ pc \in {"hit", "await", "markFailed", "redispatch"}
                /\ job \in raced /\ task[cur].state = "cancelled"
      BY DEF CoreInv, CurInv
    <2>2. /\ task'[cur].state = IF cur = t THEN "cancelled" ELSE task[cur].state
          /\ db'[cur].state = task'[cur].state
      BY <2>1 DEF StateStep
    <2>3. \A d \in Deps[cur] : task'[d].state = "succeeded"
      BY <1>6, <2>1
    <2>4. CASE cur = t
      <3>1. job \in raced'
        BY <2>4 DEF Timely
      <3>2. pc \in {"hit", "await", "markFailed", "redispatch"}
        BY <2>1, <2>4 DEF StateAt, InCall
      <3> QED
        BY <2>1, <2>2, <2>3, <2>4, <3>1, <3>2 DEF CurInv
    <2>5. CASE cur # t
      BY <2>1, <2>2, <2>3, <2>5 DEF CurInv
    <2> QED
      BY <2>4, <2>5
  <1>8. AttemptsInv'
    <2>1. \A u \in Task : task'[u].attempts = task[u].attempts
      BY DEF StateStep
    <2>2. pc \in InCall => cur \in Task
      BY DEF CoreInv, CurInv
    <2>3. \A u \in Task : db'[u].state \in {"pending", "running"} => db'[u].attempts < MaxAttempts
      BY DEF CoreInv, AttemptsInv, StateStep
    <2>4. \A u \in Task : task'[u].state \in {"pending", "running"} => task[u].state \in {"pending", "running"}
      BY DEF StateStep
    <2> QED
      BY <2>1, <2>2, <2>3, <2>4 DEF CoreInv, AttemptsInv, InCall
  <1>9. TodoInv'
    <2> SUFFICES ASSUME pc \in InExecute, NEW u \in todo
                 PROVE  /\ JobOf[u] = job
                        /\ pc # "propagate" => \A d \in Deps[u] : task'[d].state = "succeeded"
                        /\ pc # "propagate" /\ job \notin raced' => task'[u].state = "pending"
      BY DEF TodoInv
    <2>1. /\ u \in Task /\ JobOf[u] = job
          /\ pc # "propagate" => \A d \in Deps[u] : task[d].state = "succeeded"
          /\ pc # "propagate" /\ job \notin raced => task[u].state = "pending"
      BY DEF CoreInv, TodoInv, TypeOK
    <2>2. job \notin raced' => job \notin raced /\ u # t
      BY DEF Timely
    <2> QED
      BY <1>6, <2>1, <2>2 DEF StateStep
  <1>10. RunningInv'
    BY DEF CoreInv, RunningInv, StateStep
  <1>11. ProgressInv'
    <2> SUFFICES ASSUME job \notin raced', ~progressed
                 PROVE  pc = "dispatch" => todo # {}
      BY DEF ProgressInv, Timely
    <2>1. job \notin raced
      OBVIOUS
    <2> QED
      BY <2>1 DEF CoreInv, ProgressInv
  <1>12. RetryInv'
    <2> SUFFICES ASSUME pc = "retry", NEW u \in Task, cur \in Deps[u], db'[u].state = "skipped"
                 PROVE  \E d \in Deps[u] \ {cur} : db'[d].state \in Unsuccessful
      BY DEF RetryInv
    <2>1. db[u].state = "skipped"
      BY DEF StateStep
    <2>2. PICK d \in Deps[u] \ {cur} : db[d].state \in Unsuccessful
      BY <2>1 DEF CoreInv, RetryInv
    <2>3. d \in Task
      BY DepsAreOthers
    <2> QED
      BY <2>2, <2>3 DEF StateStep, Unsuccessful, Terminal
  <1> QED
    BY <1>3, <1>4, <1>5, <1>7, <1>8, <1>9, <1>10, <1>11, <1>12 DEF CoreInv

\* One task of the propagation pass.
LEMMA PropagateStep ==
  ASSUME TypeOK, TypeOK', CoreInv, NEW t \in Task, PropagateFailures(t)
  PROVE  CoreInv' /\ RefinementStep
  <1>1. pc = "propagate" /\ t \in todo /\ job # None /\ job \in saved /\ JobOf[t] = job
    BY ActiveJob DEF CoreInv, TodoInv, InExecute, InCall, PropagateFailures
  <1>2. todo' = todo \ {t} /\ UNCHANGED <<saved, job, iter, cur, retryable, raced>>
    BY DEF PropagateFailures, envVars
  <1>3. CASE task[t].state = "pending" /\ DependencyFailed(t)
    <2> DEFINE s == IF t \in Strict THEN "failed" ELSE "skipped"
    <2>1. s \in {"failed", "skipped"} /\ s \in Status
      BY DEF Status
    <2>2. Mark(t, [task[t] EXCEPT !.state = s], "propagate") /\ progressed' = TRUE
      BY <1>3 DEF PropagateFailures
    <2>3. /\ [task[t] EXCEPT !.state = s] \in TaskInstance
          /\ [task[t] EXCEPT !.state = s].state = s
          /\ [task[t] EXCEPT !.state = s].attempts = task[t].attempts
      <3>1. task[t] \in TaskInstance /\ <<>> \in Seq(Ref)
        BY DEF TypeOK
      <3> QED
        BY <2>1, <3>1, InstanceFields
    <2>4. IsLegal(task[t].state, s)
      BY <1>3, <2>1 DEF IsLegal
    <2>5. StateStep(t, s) /\ pc' = "propagate" /\ outcome' = outcome
      BY <2>2, <2>3, <2>4, MarkCases
    <2> HIDE DEF s
    <2>6. MarkAllowed(t, s)
      BY <1>1, <1>3, <2>1, <2>4 DEF MarkAllowed
    <2>7. AgreeInv' /\ DepsInv' /\ SkipInv'
      BY <1>1, <1>2, <2>1, <2>5, <2>6, MarkPreserves DEF CoreInv
    <2>8. RefinementStep
      BY <1>1, <1>2, <2>1, <2>5, <2>6, MarkIsLifecycleStep DEF CoreInv, RefinementStep
    <2>9. JobInv' /\ CurInv' /\ RetryInv'
      BY <1>1, <1>2, <2>5 DEF CoreInv, JobInv, CurInv, RetryInv, InExecute, InCall
    <2>10. AttemptsInv'
      BY <1>1, <2>1, <2>5 DEF CoreInv, AttemptsInv, StateStep
    <2>11. TodoInv' /\ RunningInv'
      BY <1>1, <1>2, <2>1, <2>5 DEF CoreInv, TodoInv, RunningInv, InExecute, InCall, StateStep
    <2>12. ProgressInv'
      BY <2>2, <2>5 DEF CoreInv, ProgressInv
    <2> QED
      BY <2>7, <2>8, <2>9, <2>10, <2>11, <2>12 DEF CoreInv
  <1>4. CASE ~(task[t].state = "pending" /\ DependencyFailed(t))
    <2>1. UNCHANGED <<task, db, pc, outcome, progressed>>
      BY <1>4 DEF PropagateFailures
    <2>2. RefinementStep
      BY <1>2, <2>1, FrameRefines
    <2>3. AgreeInv' /\ DepsInv' /\ SkipInv' /\ JobInv' /\ CurInv' /\ RetryInv' /\ AttemptsInv'
      BY <1>1, <1>2, <2>1
      DEF CoreInv, AgreeInv, DepsInv, SkipInv, JobInv, CurInv, RetryInv, AttemptsInv, InExecute, InCall
    <2>4. TodoInv' /\ RunningInv'
      BY <1>1, <1>2, <2>1 DEF CoreInv, TodoInv, RunningInv
    <2>5. ProgressInv'
      BY <1>1, <1>2, <1>4, <2>1 DEF CoreInv, ProgressInv, DependencyFailed
    <2> QED
      BY <2>2, <2>3, <2>4, <2>5 DEF CoreInv
  <1> QED
    BY <1>3, <1>4

\* A nonempty set of tasks has a member none of whose dependencies is in it.
LEMMA LowestTask ==
  ASSUME NEW S \in SUBSET Task, S # {}
  PROVE  \E t \in S : \A d \in Deps[t] : d \notin S
  <1> DEFINE R == {Rank[t] : t \in S}
  <1>1. R \subseteq Nat /\ R # {}
    BY AcyclicAssumption
  <1>2. PICK n \in R : \A m \in R : ~(<<m, n>> \in OpToRel(<, Nat))
    BY <1>1, NatLessThanWellFounded, WFMin
  <1>3. \A m \in R : ~(m < n)
    BY <1>1, <1>2 DEF OpToRel
  <1>4. PICK t \in S : n = Rank[t]
    OBVIOUS
  <1>5. ASSUME NEW d \in Deps[t], d \in S
        PROVE  FALSE
    BY <1>3, <1>4, <1>5, AcyclicAssumption
  <1> QED
    BY <1>5

\* A pass that found nothing to propagate leaves a ready task, unless all tasks
\* are terminal.
LEMMA ReadyAfterPass ==
  ASSUME TypeOK, CoreInv, pc = "propagate", todo = {}, ~progressed, ~AllTerminal, job \notin raced
  PROVE  ReadyTasks # {}
  <1> DEFINE S == {t \in TasksOf(job) : task[t].state = "pending"}
  <1>1. \A t \in TasksOf(job) : t \in Task /\ JobOf[t] = job /\ task[t].state \in Status
    BY DEF TasksOf, TypeOK, TaskInstance
  <1>2. \A t \in TasksOf(job) : task[t].state \in Terminal \cup {"pending"}
    BY <1>1 DEF CoreInv, RunningInv, InExecute, InCall, Status, Terminal
  <1>3. S # {} /\ S \in SUBSET Task
    BY <1>1, <1>2 DEF AllTerminal
  <1>4. PICK t \in S : \A d \in Deps[t] : d \notin S
    BY <1>3, LowestTask
  <1>5. ASSUME NEW d \in Deps[t]
        PROVE  task[d].state = "succeeded"
    <2>1. d \in TasksOf(job)
      BY <1>1, <1>4, DepsAreOthers DEF TasksOf
    <2>2. task[d].state \in Terminal
      BY <1>2, <1>4, <2>1
    <2>3. task[d].state \notin Unsuccessful
      BY <1>1, <1>4, <1>5 DEF CoreInv, ProgressInv, DependencyFailed
    <2> QED
      BY <2>2, <2>3 DEF Unsuccessful
  <1> QED
    BY <1>4, <1>5 DEF ReadyTasks

LEMMA EndPassStep ==
  ASSUME TypeOK, CoreInv, EndPass
  PROVE  CoreInv'
  <1>1. /\ pc = "propagate" /\ todo = {} /\ todo' = todo /\ job # None /\ job \in saved
        /\ UNCHANGED <<task, db, saved, outcome, iter, progressed, cur, retryable, raced>>
    BY ActiveJob DEF CoreInv, InExecute, InCall, EndPass, envVars
  <1>2. DepsInv' /\ SkipInv'
    BY <1>1 DEF CoreInv, DepsInv, SkipInv
  <1>3. pc' \in {"returned", "ready"}
    BY DEF EndPass
  <1>4. CurInv' /\ RetryInv' /\ AttemptsInv' /\ TodoInv'
    BY <1>1, <1>3 DEF CoreInv, CurInv, RetryInv, AttemptsInv, TodoInv, InCall
  <1>5. CASE AllTerminal
    <2>1. pc' = "returned" /\ job' = None
      BY <1>5 DEF EndPass
    <2>2. JobInv' /\ RunningInv' /\ ProgressInv'
      BY <1>1, <2>1 DEF CoreInv, JobInv, RunningInv, ProgressInv, InExecute, InCall
    <2>3. AgreeInv'
      BY <2>1, GraphAssumption, NoneAssumption DEF AgreeInv
    <2> QED
      BY <1>2, <1>4, <2>2, <2>3 DEF CoreInv
  <1>6. CASE ~AllTerminal
    <2>1. pc' = "ready" /\ job' = job
      BY <1>6 DEF EndPass
    <2>2. JobInv' /\ AgreeInv' /\ RunningInv'
      BY <1>1, <2>1 DEF CoreInv, JobInv, AgreeInv, RunningInv, InExecute, InCall
    <2>3. ReadyTasks' = ReadyTasks
      BY <1>1, <2>1 DEF ReadyTasks, TasksOf
    <2>4. ProgressInv'
      BY <1>1, <1>6, <2>1, <2>3, ReadyAfterPass DEF CoreInv, ProgressInv
    <2> QED
      BY <1>2, <1>4, <2>2, <2>4 DEF CoreInv
  <1> QED
    BY <1>5, <1>6

LEMMA TakeSnapshotStep ==
  ASSUME TypeOK, CoreInv, TakeSnapshot
  PROVE  CoreInv'
  <1>1. /\ pc = "ready" /\ pc' = "dispatch" /\ todo' = ReadyTasks
        /\ UNCHANGED <<task, db, saved, job, iter, progressed, cur, retryable, raced>>
    BY DEF TakeSnapshot, envVars
  <1>2. DepsInv' /\ SkipInv' /\ AgreeInv'
    BY <1>1 DEF CoreInv, DepsInv, SkipInv, AgreeInv
  <1>3. JobInv' /\ CurInv' /\ RetryInv' /\ AttemptsInv' /\ RunningInv'
    BY <1>1 DEF CoreInv, JobInv, CurInv, RetryInv, AttemptsInv, RunningInv, InExecute, InCall
  <1>4. TodoInv'
    BY <1>1 DEF TodoInv, ReadyTasks, TasksOf
  <1>5. ProgressInv'
    BY <1>1 DEF CoreInv, ProgressInv
  <1> QED
    BY <1>2, <1>3, <1>4, <1>5 DEF CoreInv

LEMMA EndIterationStep ==
  ASSUME TypeOK, CoreInv, EndIteration
  PROVE  CoreInv'
  <1>1. /\ pc = "dispatch" /\ todo = {} /\ job # None /\ job \in saved
        /\ UNCHANGED <<task, db, saved, cur, retryable, raced>>
    BY ActiveJob DEF CoreInv, InExecute, InCall, EndIteration, envVars
  <1>2. pc' \in {"aborted", "returned", "propagate"}
    BY DEF EndIteration
  <1>3. CASE pc' = "aborted"
    BY <1>1, <1>3, AbortStep DEF EndIteration, InExecute
  <1>4. DepsInv' /\ SkipInv'
    BY <1>1 DEF CoreInv, DepsInv, SkipInv
  <1>5. CurInv' /\ RetryInv' /\ AttemptsInv'
    BY <1>1, <1>2 DEF CoreInv, CurInv, RetryInv, AttemptsInv, InCall
  <1>6. CASE pc' = "returned"
    <2>1. job' = None
      BY <1>6 DEF EndIteration
    <2>2. JobInv' /\ TodoInv' /\ RunningInv' /\ ProgressInv'
      BY <1>1, <1>6, <2>1 DEF CoreInv, JobInv, TodoInv, RunningInv, ProgressInv, InExecute, InCall
    <2>3. AgreeInv'
      BY <2>1, GraphAssumption, NoneAssumption DEF AgreeInv
    <2> QED
      BY <1>4, <1>5, <2>2, <2>3 DEF CoreInv
  <1>7. CASE pc' = "propagate"
    <2>1. job' = job /\ todo' = TasksOf(job) /\ iter' = iter + 1 /\ iter + 1 < MaxIterations
      BY <1>7 DEF EndIteration
    <2>2. JobInv' /\ AgreeInv' /\ RunningInv'
      BY <1>1, <1>7, <2>1 DEF CoreInv, JobInv, AgreeInv, RunningInv, InExecute, InCall
    <2>3. TodoInv'
      BY <1>7, <2>1 DEF TodoInv, TasksOf
    <2>4. ProgressInv'
      BY <1>7, <2>1 DEF ProgressInv, TasksOf
    <2> QED
      BY <1>4, <1>5, <2>2, <2>3, <2>4 DEF CoreInv
  <1> QED
    BY <1>2, <1>3, <1>6, <1>7

LEMMA RunJobStep ==
  ASSUME TypeOK, CoreInv, NEW j \in Job, RunJob(j)
  PROVE  CoreInv' /\ RefinementStep
  <1>1. /\ pc \in {"idle", "returned"} /\ j \notin saved /\ saved' = saved \cup {j}
        /\ job' = j /\ pc' = "propagate" /\ outcome' = "ok" /\ iter' = 0
        /\ progressed' = FALSE /\ todo' = TasksOf(j)
    BY DEF RunJob, Begin
  <1>2. \A t \in Task : /\ JobOf[t] = j => task'[t] = Fresh(t) /\ db'[t] = Fresh(t)
                        /\ JobOf[t] # j => task'[t] = task[t] /\ db'[t] = db[t]
    BY DEF RunJob, TasksOf
  <1>3. \A t \in Task : JobOf[t] = j =>
          /\ task'[t].state = "pending" /\ db'[t].state = "pending"
          /\ task'[t].attempts = 0 /\ db'[t].attempts = 0
    <2>1. \A t \in Task : Fresh(t).state = "pending" /\ Fresh(t).attempts = 0
      BY DEF Fresh
    <2> QED
      BY <1>2, <2>1
  <1>4. JobInv'
    BY <1>1, NoneAssumption, PolicyAssumption DEF JobInv
  <1>5. AgreeInv' /\ RunningInv'
    BY <1>1, <1>3 DEF AgreeInv, RunningInv
  <1>6. CurInv' /\ RetryInv'
    BY <1>1 DEF CurInv, RetryInv, InCall
  <1>7. AttemptsInv'
    <2>1. 0 < MaxAttempts
      BY PolicyAssumption
    <2> QED
      BY <1>1, <1>2, <1>3, <2>1 DEF CoreInv, AttemptsInv
  <1>8. TodoInv' /\ ProgressInv'
    BY <1>1 DEF TodoInv, ProgressInv, TasksOf
  <1>9. DepsInv'
    BY <1>1, <1>2, <1>3, DepsAreOthers DEF CoreInv, DepsInv
  <1>10. SkipInv'
    BY <1>1, <1>2, <1>3, DepsAreOthers DEF CoreInv, SkipInv
  <1>11. RefinementStep
    <2>1. CASE \E t \in Task : JobOf[t] = j
      <3>1. PICK t \in Task : JobOf[t] = j
        BY <2>1
      <3>2. \A u \in Task : JobOf[u] = j => PersistedStatus[u] = "absent"
        BY <1>1 DEF PersistedStatus
      <3>3. PersistedStatus' = [u \in Task |-> IF JobOf[u] = j THEN "pending" ELSE PersistedStatus[u]]
        BY <1>1, <1>2, <1>3 DEF PersistedStatus
      <3> QED
        BY <3>1, <3>2, <3>3 DEF RefinementStep, Lifecycle!Next, Lifecycle!Submit
    <2>2. CASE \A t \in Task : JobOf[t] # j
      BY <1>1, <1>2, <2>2 DEF RefinementStep, PersistedStatus
    <2> QED
      BY <2>1, <2>2
  <1> QED
    BY <1>4, <1>5, <1>6, <1>7, <1>8, <1>9, <1>10, <1>11 DEF CoreInv

LEMMA ResumeStep ==
  ASSUME TypeOK, CoreInv, NEW j \in Job, Resume(j)
  PROVE  CoreInv'
  <1>1. /\ pc \in {"idle", "returned"} /\ j \in saved /\ UNCHANGED <<saved, db>>
        /\ job' = j /\ pc' = "propagate" /\ outcome' = "ok" /\ iter' = 0
        /\ progressed' = FALSE /\ todo' = TasksOf(j)
    BY DEF Resume, Begin
  <1>2. \A t \in Task : /\ JobOf[t] = j => task'[t] = Reconciled(db[t])
                        /\ JobOf[t] # j => task'[t] = task[t]
    BY DEF Resume, TasksOf
  <1>3. \A t \in Task : JobOf[t] = j =>
          \/ db[t].state = "running" /\ task'[t].state = "pending" /\ task'[t].attempts = 0
          \/ db[t].state # "running" /\ task'[t] = db[t]
    BY <1>2 DEF Reconciled, TypeOK, TaskInstance
  <1>4. JobInv'
    BY <1>1, NoneAssumption, PolicyAssumption DEF JobInv
  <1>5. AgreeInv' /\ RunningInv'
    BY <1>1, <1>3 DEF AgreeInv, RunningInv
  <1>6. CurInv' /\ RetryInv'
    BY <1>1 DEF CurInv, RetryInv, InCall
  <1>7. AttemptsInv'
    <2>1. 0 < MaxAttempts
      BY PolicyAssumption
    <2> QED
      BY <1>1, <1>2, <1>3, <2>1 DEF CoreInv, AttemptsInv
  <1>8. TodoInv' /\ ProgressInv'
    BY <1>1 DEF TodoInv, ProgressInv, TasksOf
  <1>9. DepsInv' /\ SkipInv'
    BY <1>1 DEF CoreInv, DepsInv, SkipInv
  <1> QED
    BY <1>4, <1>5, <1>6, <1>7, <1>8, <1>9 DEF CoreInv

LEMMA DieStep ==
  ASSUME TypeOK, CoreInv, Die
  PROVE  CoreInv'
  <1>1. /\ task' = db /\ job' = None /\ pc' = "idle" /\ outcome' = "ok"
        /\ UNCHANGED <<db, saved>>
    BY DEF Die
  <1>2. JobInv' /\ CurInv' /\ RetryInv' /\ TodoInv' /\ RunningInv' /\ ProgressInv'
    BY <1>1 DEF JobInv, CurInv, RetryInv, TodoInv, RunningInv, ProgressInv, InExecute, InCall
  <1>3. AgreeInv'
    BY <1>1, GraphAssumption, NoneAssumption DEF AgreeInv
  <1>4. AttemptsInv'
    BY <1>1 DEF CoreInv, AttemptsInv
  <1>5. DepsInv' /\ SkipInv'
    BY <1>1 DEF CoreInv, DepsInv, SkipInv
  <1> QED
    BY <1>2, <1>3, <1>4, <1>5 DEF CoreInv

\* MarkRunningAndSubmit from the loop over the ready tasks or from a retry.
LEMMA SubmitStep ==
  ASSUME TypeOK, TypeOK', CoreInv, NEW t \in Task, JobOf[t] = job,
         pc \in {"dispatch", "redispatch"},
         \A u \in Task : pc = "redispatch" /\ JobOf[u] = job => u = t \/ task[u].state # "running",
         \A d \in Deps[t] : task[d].state = "succeeded",
         MarkRunningAndSubmit(t), todo' \subseteq todo, t \notin todo',
         UNCHANGED <<saved, job, iter, raced>>
  PROVE  CoreInv' /\ RefinementStep
  <1> DEFINE running == [task[t] EXCEPT !.state = "running"]
  <1>1. running \in TaskInstance /\ running.state = "running" /\ running.attempts = task[t].attempts
    <2>1. task[t] \in TaskInstance /\ <<>> \in Seq(Ref) /\ "running" \in Status
      BY DEF TypeOK, Status
    <2> QED
      BY <2>1, InstanceFields
  <1>2. cur' = t
    BY DEF MarkRunningAndSubmit, NewAttempt
  <1>3. CASE IsLegal(task[t].state, "running")
    <2>1. StateStep(t, "running") /\ pc' \in {"await", "aborted"}
      <3>1. CASE busy # None
        <4>1. /\ task' = [task EXCEPT ![t] = running] /\ db' = [db EXCEPT ![t] = running]
              /\ pc' = "aborted"
          BY <1>3, <3>1 DEF MarkRunningAndSubmit
        <4>2. StateStep(t, running.state)
          BY <1>1, <4>1, MarkStateStep
        <4> QED
          BY <1>1, <4>1, <4>2
      <3>2. CASE busy = None
        <4>1. Mark(t, running, "await")
          BY <3>2 DEF MarkRunningAndSubmit
        <4>2. StateStep(t, running.state) /\ pc' = "await"
          BY <1>1, <1>3, <4>1, MarkCases
        <4> QED
          BY <1>1, <4>2
      <3> QED
        BY <3>1, <3>2
    <2> QED
      BY <1>2, <1>3, <2>1, StartStep
  <1>4. CASE ~IsLegal(task[t].state, "running")
    <2>1. Mark(t, running, "await")
      BY <1>4 DEF MarkRunningAndSubmit
    <2>2. pc' = "aborted" /\ task' = task /\ db' = db
      BY <1>1, <1>4, <2>1, MarkCases
    <2>3. CoreInv'
      BY <2>2, AbortStep DEF InExecute, InCall
    <2> QED
      BY <2>2, <2>3, FrameRefines
  <1> QED
    BY <1>3, <1>4

-----------------------------------------------------------------------------
(* Every step of the specification. *)

LEMMA InitInv == Init => SchedulerInv /\ Lifecycle!Init
  <1> SUFFICES ASSUME Init PROVE SchedulerInv /\ Lifecycle!Init
    OBVIOUS
  <1>1. TypeOK
    BY InitType
  <1>2. \A t \in Task : /\ task[t].state = "pending" /\ db[t].state = "pending"
                        /\ task[t].attempts = 0 /\ db[t].attempts = 0
    BY DEF Init, Fresh
  <1>3. JobInv /\ CurInv /\ TodoInv /\ RunningInv /\ ProgressInv /\ RetryInv /\ QuietInv /\ OutcomeInv
    BY DEF Init, JobInv, CurInv, TodoInv, RunningInv, ProgressInv, RetryInv, QuietInv, OutcomeInv,
           ThrowsExplained, InExecute, InCall
  <1>4. AgreeInv /\ DepsInv /\ SkipInv
    BY <1>2 DEF AgreeInv, DepsInv, SkipInv
  <1>5. AttemptsInv
    <2>1. 0 < MaxAttempts
      BY PolicyAssumption
    <2> QED
      BY <1>2, <2>1 DEF AttemptsInv, Init
  <1>6. Lifecycle!Init
    BY DEF Init, Lifecycle!Init, PersistedStatus
  <1> QED
    BY <1>1, <1>3, <1>4, <1>5, <1>6, InvSplit DEF CoreInv

\* Every step keeps memory, project.db and the control state together, and is a
\* step of the lifecycle or a stutter.
LEMMA CoreStep == SchedulerInv /\ [Next]_vars => CoreInv' /\ RefinementStep
  <1> SUFFICES ASSUME SchedulerInv, [Next]_vars
               PROVE  CoreInv' /\ RefinementStep
    OBVIOUS
  <1>t. TypeOK /\ TypeOK' /\ CoreInv
    BY TypeStep, InvSplit
  <1>e. <<>> \in Seq(Ref) /\ \A t \in Task : task[t] \in TaskInstance
    BY <1>t DEF TypeOK
  <1>c. pc \in InCall => /\ cur \in Task /\ JobOf[cur] = job /\ cur \notin todo
                         /\ task[cur] \in TaskInstance
                         /\ \/ task[cur].state \in StateAt(pc)
                            \/ /\ pc \in {"hit", "await", "markFailed", "redispatch"}
                               /\ job \in raced /\ task[cur].state = "cancelled"
                         /\ \A d \in Deps[cur] : task[d].state = "succeeded"
    BY <1>t, <1>e DEF CoreInv, CurInv
  <1>d. pc = "dispatch" => \A t \in todo : /\ t \in Task /\ JobOf[t] = job
                                           /\ \A d \in Deps[t] : task[d].state = "succeeded"
    BY <1>t DEF CoreInv, TodoInv, InExecute, TypeOK
  \* A Mark in a call either takes place or makes Execute throw.
  <1>m. ASSUME pc \in InCall, NEW s \in Status, NEW out \in Seq(Ref), NEW next,
               \/ Mark(cur, [task[cur] EXCEPT !.state = s], next)
               \/ Mark(cur, [task[cur] EXCEPT !.state = s, !.outputs = out], next),
               UNCHANGED <<saved, job>>
        PROVE  \/ IsLegal(task[cur].state, s) /\ StateStep(cur, s) /\ pc' = next
               \/ CoreInv' /\ RefinementStep
    <2>1. cur \in Task
      BY <1>c, <1>m
    <2>2. CASE IsLegal(task[cur].state, s)
      BY <1>t, <1>m, <2>1, <2>2, MarkLegal
    <2>3. CASE ~IsLegal(task[cur].state, s)
      <3>1. /\ [task[cur] EXCEPT !.state = s].state = s
            /\ [task[cur] EXCEPT !.state = s, !.outputs = out].state = s
        <4>1. task[cur] \in TaskInstance
          BY <1>e, <2>1
        <4> QED
          BY <1>m, <4>1, InstanceFields
      <3>2. pc' = "aborted" /\ task' = task /\ db' = db
        BY <1>m, <2>3, <3>1 DEF Mark
      <3> QED
        BY <1>t, <1>m, <3>2, AbortStep, FrameRefines DEF InExecute
    <2> QED
      BY <2>2, <2>3
  <1>1. ASSUME NEW j \in Job, RunJob(j)
        PROVE  CoreInv' /\ RefinementStep
    BY <1>1, <1>t, RunJobStep
  <1>2. ASSUME NEW j \in Job, Resume(j)
        PROVE  CoreInv' /\ RefinementStep
    BY <1>2, <1>t, ResumeStep, FrameRefines DEF Resume
  <1>3. ASSUME NEW t \in Task, PropagateFailures(t)
        PROVE  CoreInv' /\ RefinementStep
    BY <1>3, <1>t, PropagateStep
  <1>4. ASSUME EndPass
        PROVE  CoreInv' /\ RefinementStep
    BY <1>4, <1>t, EndPassStep, FrameRefines DEF EndPass
  <1>4a. ASSUME TakeSnapshot
         PROVE  CoreInv' /\ RefinementStep
    BY <1>4a, <1>t, TakeSnapshotStep, FrameRefines DEF TakeSnapshot
  <1>5. ASSUME EndIteration
        PROVE  CoreInv' /\ RefinementStep
    BY <1>5, <1>t, EndIterationStep, FrameRefines DEF EndIteration
  <1>6. ASSUME NEW t \in Task, DropStaleEntry(t)
        PROVE  CoreInv' /\ RefinementStep
    BY <1>6, <1>t, FrameStep, FrameRefines DEF DropStaleEntry, envVars
  <1>7. ASSUME NEW t \in Task, TryCacheHit(t)
        PROVE  CoreInv' /\ RefinementStep
    <2>1. /\ pc = "dispatch" /\ t \in todo /\ todo' \subseteq todo /\ t \notin todo' /\ cur' = t
          /\ Mark(t, [task[t] EXCEPT !.state = "running"], "hit")
          /\ UNCHANGED <<saved, job, iter, raced>>
      BY <1>7 DEF TryCacheHit, envVars
    <2>2. \/ /\ IsLegal(task[t].state, "running") /\ StateStep(t, "running")
             /\ pc' = "hit"
          \/ pc' = "aborted" /\ task' = task /\ db' = db
      <3>1. "running" \in Status
        BY DEF Status
      <3> QED
        BY <1>t, <1>e, <2>1, <3>1, InstanceFields, MarkCases
    <2>3. CASE pc' = "aborted" /\ task' = task /\ db' = db
      BY <1>t, <2>1, <2>3, AbortStep, FrameRefines DEF InExecute
    <2>4. CASE /\ IsLegal(task[t].state, "running") /\ StateStep(t, "running")
               /\ pc' = "hit"
      BY <1>t, <1>d, <2>1, <2>4, StartStep
    <2> QED
      BY <2>2, <2>3, <2>4
  <1>8. ASSUME FinishCacheHit
        PROVE  CoreInv' /\ RefinementStep
    <2>1. /\ pc = "hit" /\ UNCHANGED <<saved, job, iter, todo, cur, raced>>
          /\ Mark(cur, [task[cur] EXCEPT !.state = "succeeded", !.outputs = produced], "thread")
      BY <1>8 DEF FinishCacheHit, envVars
    <2>2. produced \in Seq(Ref) /\ "succeeded" \in Status /\ pc \in InCall
      BY <1>t, <2>1 DEF InCall, TypeOK, Status
    <2>3. CASE /\ IsLegal(task[cur].state, "succeeded") /\ StateStep(cur, "succeeded")
               /\ pc' = "thread"
      BY <1>t, <2>1, <2>3, EndStep DEF StateAt
    <2> QED
      BY <1>m, <2>1, <2>2, <2>3
  <1>9. ASSUME NEW t \in Task, Dispatch(t)
        PROVE  CoreInv' /\ RefinementStep
    <2>1. /\ pc = "dispatch" /\ t \in todo /\ todo' \subseteq todo /\ t \notin todo'
          /\ MarkRunningAndSubmit(t) /\ UNCHANGED <<saved, job, iter, raced>>
      BY <1>9 DEF Dispatch, envVars
    <2> QED
      BY <1>t, <1>d, <2>1, SubmitStep
  <1>10. ASSUME Redispatch
         PROVE  CoreInv' /\ RefinementStep
    <2>1. /\ pc = "redispatch" /\ todo' = todo /\ MarkRunningAndSubmit(cur)
          /\ UNCHANGED <<saved, job, iter, raced>>
      BY <1>10 DEF Redispatch, envVars
    <2>2. \A u \in Task : JobOf[u] = job => u = cur \/ task[u].state # "running"
      BY <1>t, <2>1 DEF CoreInv, RunningInv, InExecute, InCall
    <2> QED
      BY <1>t, <1>c, <2>1, <2>2, SubmitStep DEF InCall
  <1>11. ASSUME OnArtifact
         PROVE  CoreInv' /\ RefinementStep
    BY <1>11, <1>t, FrameStep, FrameRefines DEF OnArtifact, envVars
  <1>12. ASSUME OnCompleted
         PROVE  CoreInv' /\ RefinementStep
    <2>1. /\ pc = "await" /\ UNCHANGED <<saved, job, iter, todo, cur, raced>>
          /\ Mark(cur, [task[cur] EXCEPT !.state = "succeeded", !.outputs = produced], "store")
      BY <1>12 DEF OnCompleted, Consume, envVars
    <2>2. produced \in Seq(Ref) /\ "succeeded" \in Status /\ pc \in InCall
      BY <1>t, <2>1 DEF InCall, TypeOK, Status
    <2>3. CASE /\ IsLegal(task[cur].state, "succeeded") /\ StateStep(cur, "succeeded")
               /\ pc' = "store"
      BY <1>t, <2>1, <2>3, EndStep DEF StateAt
    <2> QED
      BY <1>m, <2>1, <2>2, <2>3
  <1>13. ASSUME OnCancelled
         PROVE  CoreInv' /\ RefinementStep
    <2>1. /\ pc = "await" /\ UNCHANGED <<saved, job, iter, todo, cur, raced>>
          /\ Mark(cur, [task[cur] EXCEPT !.state = "cancelled", !.outputs = <<>>], "record")
      BY <1>13 DEF OnCancelled, Consume, envVars
    <2>2. "cancelled" \in Status /\ pc \in InCall
      BY <2>1 DEF InCall, Status
    <2>3. CASE /\ IsLegal(task[cur].state, "cancelled") /\ StateStep(cur, "cancelled")
               /\ pc' = "record"
      BY <1>t, <2>1, <2>3, EndStep DEF StateAt
    <2> QED
      BY <1>e, <1>m, <2>1, <2>2, <2>3
  <1>14. ASSUME NEW recoverable \in BOOLEAN, pc = "await", Failed(recoverable),
                UNCHANGED <<db, saved, job, iter, todo, cur, raced>>
         PROVE  CoreInv' /\ RefinementStep
    <2>1. /\ cur \in Task /\ task[cur] \in TaskInstance
          /\ \/ task[cur].state = "running"
             \/ job \in raced /\ task[cur].state = "cancelled"
      BY <1>c, <1>14 DEF InCall, StateAt
    <2> DEFINE counted == [task[cur] EXCEPT !.attempts = @ + 1]
    <2>2. counted.state = task[cur].state
      BY <2>1 DEF TaskInstance
    <2>3. /\ task' = [task EXCEPT ![cur] = counted] /\ pc' = "markFailed"
          /\ retryable' => counted.attempts < MaxAttempts
      BY <1>14 DEF Failed
    <2>4. task'[cur] = counted /\ \A u \in Task : u # cur => task'[u] = task[u]
      BY <1>t, <2>1, <2>3 DEF TypeOK
    <2>5. task'[cur].state = task[cur].state /\ (retryable' => task'[cur].attempts < MaxAttempts)
      BY <2>2, <2>3, <2>4
    <2> HIDE DEF counted
    <2>6. \A u \in Task : task'[u].state = task[u].state
      BY <2>4, <2>5
    <2> QED
      BY <1>t, <1>14, <2>1, <2>3, <2>4, <2>5, <2>6, CallStep DEF InCall, StateAt
  <1>15. ASSUME NEW recoverable \in BOOLEAN, OnFailed(recoverable)
         PROVE  CoreInv' /\ RefinementStep
    BY <1>14, <1>15 DEF OnFailed, Consume, envVars
  <1>16. ASSUME OnTimeout
         PROVE  CoreInv' /\ RefinementStep
    <2>1. CASE missed < MissLimit /\ UNCHANGED <<task, runs, pc, retryable>>
      BY <1>16, <1>t, <2>1, FrameStep, FrameRefines DEF OnTimeout
    <2>2. CASE Failed(TRUE)
      BY <1>14, <1>16, <2>2 DEF OnTimeout
    <2> QED
      BY <1>16, <2>1, <2>2 DEF OnTimeout
  <1>17. ASSUME MarkFailed
         PROVE  CoreInv' /\ RefinementStep
    <2>1. /\ pc = "markFailed" /\ UNCHANGED <<saved, job, iter, todo, cur, retryable, raced>>
          /\ Mark(cur, [task[cur] EXCEPT !.state = "failed"],
                  IF retryable THEN "retry" ELSE "dispatch")
          /\ progressed' = (progressed \/ ~retryable)
      BY <1>17 DEF MarkFailed, envVars
    <2>2. "failed" \in Status /\ pc \in InCall
      BY <2>1 DEF InCall, Status
    <2>3. CASE /\ IsLegal(task[cur].state, "failed") /\ StateStep(cur, "failed")
               /\ pc' = IF retryable THEN "retry" ELSE "dispatch"
      BY <1>t, <2>1, <2>3, FailStep
    <2> QED
      BY <1>e, <1>m, <2>1, <2>2, <2>3
  <1>18. ASSUME Retry
         PROVE  CoreInv' /\ RefinementStep
    <2>1. /\ pc = "retry" /\ UNCHANGED <<saved, job, iter, todo, cur, raced>>
          /\ Mark(cur, [task[cur] EXCEPT !.state = "pending"], "redispatch")
      BY <1>18 DEF Retry, envVars
    <2>2. "pending" \in Status /\ pc \in InCall
      BY <2>1 DEF InCall, Status
    <2>3. CASE /\ IsLegal(task[cur].state, "pending") /\ StateStep(cur, "pending")
               /\ pc' = "redispatch"
      BY <1>t, <2>1, <2>3, RetryStep
    <2> QED
      BY <1>e, <1>m, <2>1, <2>2, <2>3
  <1>19. ASSUME StoreOutput
         PROVE  CoreInv' /\ RefinementStep
    <2>1. /\ pc = "store" /\ pc' = "record"
          /\ UNCHANGED <<task, db, saved, job, iter, todo, cur, raced>>
      BY <1>19 DEF StoreOutput, envVars
    <2> QED
      BY <1>t, <1>c, <2>1, CallStep DEF InCall, StateAt
  <1>20. ASSUME RecordRun
         PROVE  CoreInv' /\ RefinementStep
    <2>1. /\ pc = "record" /\ pc' = IF task[cur].state = "succeeded" THEN "thread" ELSE "dispatch"
          /\ progressed' = (progressed \/ task[cur].state # "succeeded")
          /\ UNCHANGED <<task, db, saved, job, iter, todo, cur, raced>>
      BY <1>20 DEF RecordRun, envVars
    <2>2. task[cur].state \in {"succeeded", "cancelled"}
      BY <1>c, <2>1 DEF InCall, StateAt
    <2> QED
      BY <1>t, <2>1, <2>2, CallStep DEF InCall, StateAt, Terminal
  <1>21. ASSUME ThreadOutputsToDependents
         PROVE  CoreInv' /\ RefinementStep
    <2>1. /\ pc = "thread" /\ pc' = "dispatch" /\ progressed' = TRUE
          /\ UNCHANGED <<db, saved, job, iter, todo, cur, raced>>
      BY <1>21 DEF ThreadOutputsToDependents, envVars
    <2>2. cur \in Task /\ task[cur].state = "succeeded"
      BY <1>c, <2>1 DEF InCall, StateAt
    <2>3. ASSUME NEW u \in Task
          PROVE  task'[u].state = task[u].state /\ task'[u].attempts = task[u].attempts
      BY <1>21, <1>e, <2>3 DEF ThreadOutputsToDependents, TaskInstance
    <2> QED
      BY <1>t, <2>1, <2>2, <2>3, CallStep DEF InCall, Terminal
  <1>22. ASSUME NEW t \in Task, Cancel(t)
         PROVE  CoreInv' /\ RefinementStep
    <2>1. /\ job # None /\ JobOf[t] = job
          /\ UNCHANGED <<saved, job, iter, progressed, todo, cur, retryable>>
      BY <1>22 DEF Cancel, TasksOf
    <2>2. CASE /\ task[t].state \in {"pending", "running"}
               /\ Mark(t, [task[t] EXCEPT !.state = "cancelled"], pc)
               /\ raced' = IF task[t].state = "pending" /\ Timely(t) THEN raced ELSE raced \cup {job}
      <3>1. "cancelled" \in Status
        BY DEF Status
      <3>2. StateStep(t, "cancelled") /\ pc' = pc
        BY <1>t, <1>e, <2>2, <3>1, MarkLegal DEF IsLegal
      <3> QED
        BY <1>t, <2>1, <2>2, <3>2, CancelStep
    <2>3. CASE UNCHANGED <<task, db, pc, raced>>
      BY <1>t, <2>1, <2>3, FrameStep, FrameRefines
    <2> QED
      BY <1>22, <2>2, <2>3 DEF Cancel
  <1>23. ASSUME UNCHANGED <<schedVars, raced>>
         PROVE  CoreInv' /\ RefinementStep
    BY <1>23, <1>t, FrameStep, FrameRefines DEF schedVars
  <1>24. ASSUME Die
         PROVE  CoreInv' /\ RefinementStep
    BY <1>24, <1>t, DieStep, FrameRefines DEF Die
  <1>25. WorkerStep \/ (\E r \in Ref : LoseArtifact(r)) \/ UNCHANGED vars
           => UNCHANGED <<schedVars, raced>>
    BY DEF WorkerStep, WorkerArtifact, WorkerTerminal, LoseArtifact, vars, envVars
  <1> QED
    BY <1>1, <1>2, <1>3, <1>4, <1>4a, <1>5, <1>6, <1>7, <1>8, <1>9, <1>10, <1>11, <1>12, <1>13, <1>15,
       <1>16, <1>17, <1>18, <1>19, <1>20, <1>21, <1>22, <1>23, <1>24, <1>25
    DEF Next, SchedulerStep, Crash, ExitAfterException

\* Every step keeps the executor quiet between two calls, until a worker is given
\* up for its silence.
LEMMA ExecutorQuietStep == SchedulerInv /\ [Next]_vars => QuietInv'
  <1> SUFFICES ASSUME SchedulerInv, [Next]_vars, silences' = 0
               PROVE  QuietInv'
    BY DEF QuietInv
  <1>t. /\ TypeOK /\ silences \in Nat /\ events \in Seq(WorkerEvent)
    BY PolicyAssumption DEF SchedulerInv, TypeOK
  <1>s. silences = 0 /\ ~(silences' = silences + 1)
    <2>1. CASE OnTimeout
      <3>1. UNCHANGED silences \/ silences' = silences + 1
        BY <2>1 DEF OnTimeout
      <3> QED
        BY <1>t, <3>1
    <2>2. CASE \E t \in Task : \/ PropagateFailures(t) \/ DropStaleEntry(t) \/ TryCacheHit(t)
                               \/ Dispatch(t) \/ Cancel(t)
      BY <2>2 DEF PropagateFailures, DropStaleEntry, TryCacheHit, Dispatch, Cancel, envVars
    <2>3. CASE \/ \E j \in Job : RunJob(j) \/ Resume(j)
               \/ EndPass \/ TakeSnapshot \/ EndIteration \/ FinishCacheHit \/ MarkFailed \/ Retry
               \/ Redispatch \/ StoreOutput \/ RecordRun \/ ThreadOutputsToDependents
      BY <2>3 DEF RunJob, Resume, Begin, EndPass, TakeSnapshot, EndIteration, FinishCacheHit,
             MarkFailed, Retry, Redispatch, StoreOutput, RecordRun, ThreadOutputsToDependents, envVars
    <2>4. CASE \/ OnArtifact \/ OnCompleted \/ OnCancelled
               \/ \E recoverable \in BOOLEAN : OnFailed(recoverable)
      BY <2>4 DEF OnArtifact, OnCompleted, OnCancelled, OnFailed, Consume, envVars
    <2>5. CASE WorkerStep \/ \E r \in Ref : LoseArtifact(r)
      <3>1. UNCHANGED silences
        BY <2>5, Zenon DEF WorkerStep, WorkerArtifact, WorkerTerminal, LoseArtifact, envVars
      <3> QED
        BY <3>1
    <2>6. CASE Crash \/ ExitAfterException
      BY <2>6 DEF Crash, ExitAfterException, Die
    <2>7. CASE UNCHANGED vars
      BY <2>7 DEF vars, envVars
    <2> QED
      BY <2>1, <2>2, <2>3, <2>4, <2>5, <2>6, <2>7 DEF Next, SchedulerStep
  <1>q. /\ pc # "await" => busy = None /\ events = <<>>
        /\ busy \in {None, cur}
        /\ \A i \in DOMAIN events : i < Len(events) \/ busy # None => events[i].type = "artifact"
        /\ \A i \in DOMAIN events : events[i].task = cur
    BY <1>s DEF SchedulerInv, QuietInv
  <1>1. ASSUME UNCHANGED <<busy, events>>, pc # "await", pc' # "await"
        PROVE  QuietInv'
    BY <1>q, <1>1 DEF QuietInv
  <1>2. ASSUME UNCHANGED <<busy, events, pc, cur>>
        PROVE  QuietInv'
    BY <1>q, <1>2 DEF QuietInv
  <1>3. ASSUME NEW t \in Task, MarkRunningAndSubmit(t), pc # "await"
        PROVE  QuietInv'
    <2>1. busy = None /\ events = <<>> /\ cur' = t /\ t # None
      BY <1>q, <1>3, NoneAssumption DEF MarkRunningAndSubmit, NewAttempt
    <2>2. CASE IsLegal(task[t].state, "running")
      <3>1. pc' = "await"
        BY <1>3, <2>1, <2>2 DEF MarkRunningAndSubmit, Mark
      <3>2. \/ busy' = t /\ events' = <<>>
            \/ /\ busy' = None
               /\ events' = Append(<<>>, [task |-> t, type |-> "failed", ref |-> None])
        BY <1>3, <2>1, <2>2 DEF MarkRunningAndSubmit
      <3>3. CASE busy' = t /\ events' = <<>>
        BY <2>1, <3>1, <3>3 DEF QuietInv
      <3>4. CASE /\ busy' = None
                 /\ events' = Append(<<>>, [task |-> t, type |-> "failed", ref |-> None])
        <4>1. DOMAIN events' = {1} /\ Len(events') = 1 /\ events'[1].task = t
          BY <3>4
        <4> QED
          BY <2>1, <3>1, <3>4, <4>1 DEF QuietInv
      <3> QED
        BY <3>2, <3>3, <3>4
    <2>3. CASE ~IsLegal(task[t].state, "running")
      <3>1. pc' = "aborted" /\ UNCHANGED <<busy, events>>
        BY <1>3, <2>3 DEF MarkRunningAndSubmit, Mark, execVars
      <3> QED
        BY <1>1, <1>3, <3>1
    <2> QED
      BY <2>2, <2>3
  <1>4. ASSUME OnArtifact
        PROVE  QuietInv'
    <2>1. pc = "await" /\ UNCHANGED <<busy, pc, cur>> /\ events # <<>> /\ events' = Tail(events)
      BY <1>4 DEF OnArtifact
    <2>2. /\ Len(events') = Len(events) - 1 /\ Len(events) \in Nat
          /\ \A i \in DOMAIN events' : i \in Nat /\ i + 1 \in DOMAIN events /\ events'[i] = events[i + 1]
      BY <1>t, <2>1
    <2>3. \A i \in DOMAIN events' : i < Len(events') => i + 1 < Len(events)
      BY <2>2
    <2> QED
      BY <1>q, <2>1, <2>2, <2>3 DEF QuietInv
  <1>5. ASSUME NEW type \in EventType \ {"artifact"}, Consume(type), pc' # "await"
        PROVE  QuietInv'
    <2>1. /\ events # <<>> /\ Head(events).type # "artifact"
          /\ events' = Tail(events) /\ UNCHANGED <<busy, cur>>
      BY <1>5 DEF Consume
    <2>2. 1 \in DOMAIN events /\ Head(events) = events[1] /\ Len(events) \in Nat
      BY <1>t, <2>1
    <2>3. busy = None /\ Len(events) = 1
      <3>1. ~(1 < Len(events) \/ busy # None) /\ Len(events) >= 1
        BY <1>q, <1>t, <2>1, <2>2
      <3> QED
        BY <2>2, <3>1
    <2>4. events' = <<>>
      BY <1>t, <2>1, <2>3
    <2> QED
      BY <1>5, <2>1, <2>3, <2>4 DEF QuietInv
  <1>6. ASSUME WorkerArtifact
        PROVE  QuietInv'
    <2>1. /\ busy # None /\ UNCHANGED <<busy, pc, cur>>
          /\ events' = Append(events, [task |-> busy, type |-> "artifact", ref |-> Head(left)])
      BY <1>6 DEF WorkerArtifact, schedVars
    <2>2. \A i \in DOMAIN events' : \/ i \in DOMAIN events /\ events'[i] = events[i]
                                    \/ events'[i].task = busy /\ events'[i].type = "artifact"
      BY <1>t, <2>1
    <2> QED
      BY <1>q, <2>1, <2>2 DEF QuietInv
  <1>7. ASSUME NEW type \in EventType \ {"artifact"}, WorkerTerminal(type)
        PROVE  QuietInv'
    <2>1. /\ busy # None /\ busy' = None /\ UNCHANGED <<pc, cur>>
          /\ events' = Append(events, [task |-> busy, type |-> type, ref |-> None])
      BY <1>7 DEF WorkerTerminal, schedVars
    <2>2. /\ Len(events') = Len(events) + 1 /\ Len(events) \in Nat
          /\ \A i \in DOMAIN events' : \/ i \in DOMAIN events /\ events'[i] = events[i]
                                       \/ i = Len(events') /\ events'[i].task = busy
      BY <1>t, <2>1
    <2> QED
      BY <1>q, <2>1, <2>2 DEF QuietInv
  <1>8. ASSUME Die
        PROVE  QuietInv'
    BY <1>8 DEF Die, QuietInv
  <1>9. ASSUME OnTimeout
        PROVE  QuietInv'
    BY <1>2, <1>9, <1>s DEF OnTimeout, execVars
  <1>10. ASSUME \/ \E j \in Job : RunJob(j) \/ Resume(j)
                \/ \E t \in Task : PropagateFailures(t) \/ DropStaleEntry(t) \/ TryCacheHit(t)
                \/ EndPass \/ TakeSnapshot \/ EndIteration \/ FinishCacheHit \/ MarkFailed \/ Retry
                \/ StoreOutput \/ RecordRun \/ ThreadOutputsToDependents
         PROVE  QuietInv'
    <2>1. pc # "await" /\ UNCHANGED <<busy, events>>
      BY <1>10 DEF RunJob, Resume, Begin, PropagateFailures, DropStaleEntry, TryCacheHit, EndPass,
             TakeSnapshot, EndIteration, FinishCacheHit, MarkFailed, Retry, StoreOutput, RecordRun,
             ThreadOutputsToDependents, execVars
    <2>2. pc' # "await"
      BY <1>10 DEF RunJob, Resume, Begin, PropagateFailures, DropStaleEntry, TryCacheHit, EndPass,
             TakeSnapshot, EndIteration, FinishCacheHit, MarkFailed, Retry, StoreOutput, RecordRun,
             ThreadOutputsToDependents, Mark
    <2> QED
      BY <1>1, <2>1, <2>2
  <1>11. ASSUME NEW t \in Task, Cancel(t)
         PROVE  QuietInv'
    <2>1. t \in Task /\ task[t].state \in {"pending", "running"} => IsLegal(task[t].state, "cancelled")
      BY DEF IsLegal
    <2>2. [task[t] EXCEPT !.state = "cancelled"].state = "cancelled"
      BY <1>t DEF TypeOK, TaskInstance
    <2>3. UNCHANGED <<busy, events, pc, cur>>
      BY <1>11, <2>1, <2>2 DEF Cancel, Mark
    <2> QED
      BY <1>2, <2>3
  <1>12. ASSUME (\E r \in Ref : LoseArtifact(r)) \/ UNCHANGED vars
         PROVE  QuietInv'
    BY <1>2, <1>12 DEF LoseArtifact, vars, schedVars, execVars
  <1>13. ASSUME Redispatch \/ \E t \in Task : Dispatch(t)
         PROVE  QuietInv'
    <2>1. pc \in {"dispatch", "redispatch"} /\ (pc = "redispatch" => cur \in Task)
      BY <1>13 DEF Redispatch, Dispatch, SchedulerInv, CurInv, InCall
    <2> QED
      BY <1>3, <1>13, <2>1 DEF Redispatch, Dispatch
  <1>14. ASSUME OnCompleted \/ OnCancelled \/ \E recoverable \in BOOLEAN : OnFailed(recoverable)
         PROVE  QuietInv'
    <2>1. pc' # "await"
      BY <1>14 DEF OnCompleted, OnCancelled, OnFailed, Failed, Mark
    <2> QED
      BY <1>5, <1>14, <2>1 DEF OnCompleted, OnCancelled, OnFailed, EventType
  <1> QED
    BY <1>4, <1>6, <1>7, <1>8, <1>9, <1>10, <1>11, <1>12, <1>13, <1>14
    DEF Next, SchedulerStep, WorkerStep, Crash, ExitAfterException

\* Every exception that leaves Execute is explained.
LEMMA OutcomeStep == SchedulerInv /\ [Next]_vars => OutcomeInv'
  <1> SUFFICES ASSUME SchedulerInv, [Next]_vars
               PROVE  OutcomeInv'
    OBVIOUS
  <1>t. TypeOK
    BY DEF SchedulerInv
  <1>o. pc # "aborted" => outcome = "ok"
    BY DEF SchedulerInv, OutcomeInv
  <1>f. \A t \in Task : \A s \in Status : /\ [task[t] EXCEPT !.state = s].state = s
                                          /\ \A out : [task[t] EXCEPT !.state = s, !.outputs = out].state = s
    BY <1>t DEF TypeOK, TaskInstance
  <1>1. ASSUME outcome' = "ok"
        PROVE  OutcomeInv'
    BY <1>1 DEF OutcomeInv, ThrowsExplained
  <1>2. ASSUME UNCHANGED <<outcome, pc, job, silences>>, raced \subseteq raced'
        PROVE  OutcomeInv'
    BY <1>2 DEF SchedulerInv, OutcomeInv, ThrowsExplained
  <1>3. ASSUME pc # "aborted", NEW t \in Task, NEW instance, NEW next, Mark(t, instance, next),
               IsLegal(task[t].state, instance.state) \/ (job \in raced /\ UNCHANGED <<job, raced>>)
        PROVE  OutcomeInv'
    BY <1>1, <1>3, <1>o DEF Mark, OutcomeInv, ThrowsExplained
  <1>4. ASSUME NEW t \in Task, MarkRunningAndSubmit(t), pc \in {"dispatch", "redispatch"},
               UNCHANGED <<job, raced, silences>>, task[t].state = "pending" \/ job \in raced
        PROVE  OutcomeInv'
    <2>1. CASE IsLegal(task[t].state, "running") /\ busy # None
      <3>1. silences # 0 /\ silences \in Nat
        BY <1>4, <1>t, <2>1, PolicyAssumption DEF SchedulerInv, QuietInv, TypeOK
      <3>2. pc' = "aborted" /\ outcome' = "busy" /\ silences' > 0
        BY <1>4, <2>1, <3>1 DEF MarkRunningAndSubmit
      <3> QED
        BY <3>2 DEF OutcomeInv, ThrowsExplained
    <2>2. CASE ~(IsLegal(task[t].state, "running") /\ busy # None)
      <3>1. Mark(t, [task[t] EXCEPT !.state = "running"], "await")
        BY <1>4, <2>2 DEF MarkRunningAndSubmit
      <3>2. IsLegal(task[t].state, "running") \/ (job \in raced /\ UNCHANGED <<job, raced>>)
        BY <1>4 DEF IsLegal
      <3>3. [task[t] EXCEPT !.state = "running"].state = "running"
        BY <1>f DEF Status
      <3> QED
        BY <1>3, <1>4, <3>1, <3>2, <3>3
    <2> QED
      BY <2>1, <2>2
  <1>d. pc = "dispatch" => \A t \in todo : task[t].state = "pending" \/ job \in raced
    BY DEF SchedulerInv, TodoInv, InExecute
  <1>c. pc \in InCall => /\ cur \in Task
                         /\ \/ task[cur].state \in StateAt(pc)
                            \/ job \in raced
    BY DEF SchedulerInv, CurInv
  <1>5. ASSUME pc \in InCall, NEW s \in Status, NEW out, NEW next,
               \/ Mark(cur, [task[cur] EXCEPT !.state = s], next)
               \/ Mark(cur, [task[cur] EXCEPT !.state = s, !.outputs = out], next),
               UNCHANGED <<job, raced>>,
               \A x \in StateAt(pc) : IsLegal(x, s)
        PROVE  OutcomeInv'
    <2>1. /\ cur \in Task /\ pc # "aborted"
          /\ IsLegal(task[cur].state, s) \/ (job \in raced /\ UNCHANGED <<job, raced>>)
      BY <1>c, <1>5 DEF InCall
    <2>2. /\ [task[cur] EXCEPT !.state = s].state = s
          /\ [task[cur] EXCEPT !.state = s, !.outputs = out].state = s
      BY <1>f, <1>5, <2>1
    <2> QED
      BY <1>3, <1>5, <2>1, <2>2
  <1>6. ASSUME NEW t \in Task, PropagateFailures(t)
        PROVE  OutcomeInv'
    <2>1. CASE task[t].state = "pending" /\ DependencyFailed(t)
      <3> DEFINE s == IF t \in Strict THEN "failed" ELSE "skipped"
      <3>1. Mark(t, [task[t] EXCEPT !.state = s], "propagate") /\ pc # "aborted"
        BY <1>6, <2>1 DEF PropagateFailures
      <3>2. s \in Status /\ IsLegal(task[t].state, s)
        BY <2>1 DEF Status, IsLegal
      <3>3. [task[t] EXCEPT !.state = s].state = s
        BY <1>f, <3>2
      <3> HIDE DEF s
      <3> QED
        BY <1>3, <3>1, <3>2, <3>3
    <2>2. CASE ~(task[t].state = "pending" /\ DependencyFailed(t))
      BY <1>2, <1>6, <2>2 DEF PropagateFailures, envVars
    <2> QED
      BY <2>1, <2>2
  <1>7. ASSUME NEW t \in Task, TryCacheHit(t)
        PROVE  OutcomeInv'
    <2>1. /\ pc = "dispatch" /\ t \in todo /\ UNCHANGED <<job, raced>>
          /\ Mark(t, [task[t] EXCEPT !.state = "running"], "hit")
      BY <1>7 DEF TryCacheHit, envVars
    <2>2. /\ [task[t] EXCEPT !.state = "running"].state = "running"
          /\ IsLegal(task[t].state, "running") \/ job \in raced
      BY <1>d, <1>f, <2>1 DEF Status, IsLegal
    <2> QED
      BY <1>3, <2>1, <2>2
  <1>8. ASSUME NEW t \in Task, Dispatch(t)
        PROVE  OutcomeInv'
    BY <1>4, <1>8, <1>d DEF Dispatch, envVars
  <1>9. ASSUME Redispatch
        PROVE  OutcomeInv'
    <2>1. pc = "redispatch" /\ MarkRunningAndSubmit(cur) /\ UNCHANGED <<job, raced, silences>>
      BY <1>9 DEF Redispatch, envVars
    <2> QED
      BY <1>4, <1>c, <2>1 DEF InCall, StateAt
  <1>10. ASSUME FinishCacheHit
         PROVE  OutcomeInv'
    <2>1. /\ pc = "hit" /\ UNCHANGED <<job, raced>>
          /\ Mark(cur, [task[cur] EXCEPT !.state = "succeeded", !.outputs = produced], "thread")
      BY <1>10 DEF FinishCacheHit, envVars
    <2> QED
      BY <1>5, <2>1 DEF InCall, StateAt, Status, IsLegal
  <1>11. ASSUME OnCompleted
         PROVE  OutcomeInv'
    <2>1. /\ pc = "await" /\ UNCHANGED <<job, raced>>
          /\ Mark(cur, [task[cur] EXCEPT !.state = "succeeded", !.outputs = produced], "store")
      BY <1>11 DEF OnCompleted, Consume, envVars
    <2> QED
      BY <1>5, <2>1 DEF InCall, StateAt, Status, IsLegal
  <1>12. ASSUME OnCancelled
         PROVE  OutcomeInv'
    <2>1. /\ pc = "await" /\ UNCHANGED <<job, raced>>
          /\ Mark(cur, [task[cur] EXCEPT !.state = "cancelled", !.outputs = <<>>], "record")
      BY <1>12 DEF OnCancelled, Consume, envVars
    <2> QED
      BY <1>5, <2>1 DEF InCall, StateAt, Status, IsLegal
  <1>13. ASSUME MarkFailed
         PROVE  OutcomeInv'
    <2>1. /\ pc = "markFailed" /\ UNCHANGED <<job, raced>>
          /\ Mark(cur, [task[cur] EXCEPT !.state = "failed"], IF retryable THEN "retry" ELSE "dispatch")
      BY <1>13 DEF MarkFailed, envVars
    <2> QED
      BY <1>5, <2>1 DEF InCall, StateAt, Status, IsLegal
  <1>14. ASSUME Retry
         PROVE  OutcomeInv'
    <2>1. /\ pc = "retry" /\ UNCHANGED <<job, raced>>
          /\ Mark(cur, [task[cur] EXCEPT !.state = "pending"], "redispatch")
      BY <1>14 DEF Retry, envVars
    <2> QED
      BY <1>5, <2>1 DEF InCall, StateAt, Status, IsLegal
  <1>15. ASSUME EndIteration
         PROVE  OutcomeInv'
    <2>1. CASE progressed
      BY <1>1, <1>15, <1>o, <2>1 DEF EndIteration
    <2>2. CASE ~progressed
      <3>1. job \in raced
        BY <1>15, <2>2 DEF EndIteration, SchedulerInv, ProgressInv
      <3>2. pc' = "aborted" /\ outcome' = "stalled" /\ UNCHANGED <<job, raced>>
        BY <1>15, <2>2 DEF EndIteration, envVars
      <3> QED
        BY <3>1, <3>2 DEF OutcomeInv, ThrowsExplained
    <2> QED
      BY <2>1, <2>2
  <1>16. ASSUME NEW t \in Task, Cancel(t)
         PROVE  OutcomeInv'
    <2>1. task[t].state \in {"pending", "running"} => IsLegal(task[t].state, "cancelled")
      BY DEF IsLegal
    <2>2. [task[t] EXCEPT !.state = "cancelled"].state = "cancelled"
      BY <1>f DEF Status
    <2>3. UNCHANGED <<outcome, pc, job, silences>> /\ raced \subseteq raced'
      BY <1>16, <2>1, <2>2 DEF Cancel, Mark
    <2> QED
      BY <1>2, <2>3
  <1>17. ASSUME \/ \E j \in Job : RunJob(j) \/ Resume(j)
                \/ Die
         PROVE  OutcomeInv'
    BY <1>1, <1>17 DEF RunJob, Resume, Begin, Die
  <1>18. ASSUME \/ EndPass \/ TakeSnapshot \/ OnArtifact \/ OnTimeout
                \/ \E t \in Task : DropStaleEntry(t)
                \/ \E recoverable \in BOOLEAN : OnFailed(recoverable)
                \/ StoreOutput \/ RecordRun \/ ThreadOutputsToDependents
         PROVE  OutcomeInv'
    <2>1. pc # "aborted" /\ UNCHANGED outcome
      BY <1>18 DEF EndPass, TakeSnapshot, OnArtifact, OnTimeout, DropStaleEntry, OnFailed, Consume,
             StoreOutput, RecordRun, ThreadOutputsToDependents
    <2> QED
      BY <1>1, <1>o, <2>1
  <1>19. ASSUME WorkerStep \/ (\E r \in Ref : LoseArtifact(r)) \/ UNCHANGED vars
         PROVE  OutcomeInv'
    BY <1>2, <1>19
    DEF WorkerStep, WorkerArtifact, WorkerTerminal, LoseArtifact, vars, schedVars, envVars
  <1> QED
    BY <1>6, <1>7, <1>8, <1>9, <1>10, <1>11, <1>12, <1>13, <1>14, <1>15, <1>16, <1>17, <1>18, <1>19
    DEF Next, SchedulerStep, Crash, ExitAfterException

\* Every step keeps the invariant and is a step of the lifecycle or a stutter.
LEMMA StepInv == SchedulerInv /\ [Next]_vars => SchedulerInv' /\ RefinementStep
  BY TypeStep, CoreStep, ExecutorQuietStep, OutcomeStep, InvSplitNext

-----------------------------------------------------------------------------
(* Theorems. *)

\* The inductive invariant of the scheduler: in every reachable state, whatever
\* the graph, the worker, the cancellations and the crashes, memory, project.db
\* and the control state of Execute fit together.
THEOREM Invariance == Spec => []SchedulerInv
  <1>1. Init => SchedulerInv
    BY InitInv
  <1>2. SchedulerInv /\ [Next]_vars => SchedulerInv'
    BY StepInv
  <1> QED
    BY <1>1, <1>2, PTL DEF Spec

\* Every variable keeps its type; in particular no attempt counter leaves the
\* range of RetryPolicy::max_attempts and no heartbeat count its limit.
THEOREM TypeCorrect == Spec => []TypeOK
  <1>1. SchedulerInv => TypeOK
    BY DEF SchedulerInv
  <1> QED
    BY <1>1, Invariance, PTL

\* A persisted task that runs or has succeeded rests on dependencies persisted
\* as succeeded (ReadyTasks and DispatchAndAwait, also after Resume).
THEOREM DependenciesFirst == Spec => []RunsOnSucceededDeps
  <1>1. SchedulerInv => RunsOnSucceededDeps
    BY DEF SchedulerInv
  <1> QED
    BY <1>1, Invariance, PTL

\* A persisted `skipped` always has a dependency that did not succeed, also
\* when the failed dependency was retried (PropagateFailures, the retry edge).
THEOREM SkipsExplained == Spec => []SkipJustified
  <1>1. SchedulerInv => SkipJustified
    BY DEF SchedulerInv
  <1> QED
    BY <1>1, Invariance, PTL

\* No exception leaves Execute without a reason: "scheduler stalled" and an illegal
\* transition need a Cancel that came in the way, WORKER_BUSY a worker that was given
\* up; on an acyclic graph a pass without progress leaves a ready task otherwise.
THEOREM ExceptionsExplained == Spec => []ThrowsExplained
  <1>1. SchedulerInv => ThrowsExplained
    BY DEF SchedulerInv, OutcomeInv
  <1> QED
    BY <1>1, Invariance, PTL

\* The scheduler implements the abstract task lifecycle: every write to the
\* tasks table is one of its steps, and everything else a stutter.
THEOREM LifecycleRefinement == Spec => ImplementsLifecycle
  <1>1. Init => Lifecycle!Init
    BY InitInv
  <1>2. SchedulerInv /\ [Next]_vars => [Lifecycle!Next]_PersistedStatus
    BY StepInv DEF RefinementStep
  <1> QED
    BY <1>1, <1>2, Invariance, PTL DEF Spec, ImplementsLifecycle, Lifecycle!Spec

-----------------------------------------------------------------------------
(* The engine: its inductive invariant, beginning with the scheduler as the *)
(* engine uses it.                                                         *)

\* Memory and table agree on states and outputs, not only those of the active job.
Alike == \A t \in Task : task[t].state = db[t].state /\ task[t].outputs = db[t].outputs

\* A plan the scheduler has not been given is as the compiler built it.
Untouched ==
    \A t \in Task : JobOf[t] \notin saved =>
        /\ task[t] = Fresh(t) /\ db[t] = Fresh(t)
        /\ runs[t] = <<>> /\ t \notin served

\* Before a task succeeds its output is its placeholder; a cancellation may drop it.
Undelivered ==
    \A t \in Task : db[t].state # "succeeded" =>
        \/ db[t].outputs = <<Placeholder[t]>>
        \/ db[t].state = "cancelled" /\ db[t].outputs = <<>>

\* What comes before a stage that has started has succeeded.
InOrder ==
    \A s, t \in Task :
        JobOf[s] = JobOf[t] /\ Rank[s] < Rank[t] /\ db[t].state \in {"running", "succeeded"}
            => db[s].state = "succeeded"

\* The snapshot holds no more than the one stage that is ready, taken at once.
OneReady ==
    /\ pc \in InCall => todo = {}
    /\ pc = "dispatch" => \A t \in todo : todo = {t}

\* The output of a dependency has not been handed on yet.
Unfed(t) == \E d \in Deps[t] : \/ db[d].state # "succeeded"
                               \/ d = cur /\ pc \in {"store", "record", "thread"}

\* In the active job a stage has its declared inputs until it is fed.
Fed ==
    pc \in InExecute => \A t \in Task : JobOf[t] = job =>
        task[t].inputs = IF Unfed(t) THEN DeclaredInputs[t] ELSE ResolvedInputs(t)

\* A stage that has started consumes what the stage before it produced.
Consuming ==
    \A t \in Task : db[t].state \in {"running", "succeeded"} =>
        task[t].inputs = ResolvedInputs(t) /\ db[t].inputs = ResolvedInputs(t)

\* While no worker was given up, what has succeeded has what its kind makes.
Made == silences = 0 => OutputsFaithful

\* What a task is to make of its inputs.
Due(t) == Result[KindOf[t]][task[t].inputs]

\* An entry of the cache is all its key makes, while no worker was given up.
CacheSound == silences = 0 => \A e \in cache : Result[e.kind][e.inputs] = <<e.output>>

\* What a location knows of the outputs of its task.
Located ==
    /\ silences = 0 /\ pc = "hit" => produced = Due(cur)
    /\ pc \in {"store", "record", "thread"} /\ task[cur].state = "succeeded" =>
          declared = <<Placeholder[cur]>>

\* The worker is at work on the task awaited: what was received, what is queued and
\* what it has still to emit make up what is due, and a terminal event comes last.
Delivering(due) ==
    /\ Len(produced) <= Len(due)
    /\ \A i \in 1..Len(produced) : produced[i] = due[i]
    /\ \A i \in 1..Len(events) :
          /\ events[i].task = cur
          /\ i < Len(events) => events[i].type = "artifact"
          /\ events[i].type = "artifact" => /\ Len(produced) + i <= Len(due)
                                            /\ events[i].ref = due[Len(produced) + i]
          /\ events[i].type = "completed" => Len(produced) + i = Len(due) + 1
    /\ busy = None => events # <<>> /\ events[Len(events)].type # "artifact"
    /\ busy # None =>
          /\ busy = cur
          /\ \A i \in 1..Len(events) : events[i].type = "artifact"
          /\ Len(produced) + Len(events) + Len(left) = Len(due)
          /\ \A i \in 1..Len(left) : left[i] = due[Len(produced) + Len(events) + i]

Answering ==
    silences = 0 =>
        /\ pc # "await" => busy = None /\ events = <<>>
        /\ pc = "await" => Delivering(Due(cur))

\* An exception that leaves Execute has a name.
Thrown == pc = "aborted" => outcome # "ok"

HasSucceededRun(t) == \E i \in DOMAIN runs[t] : runs[t][i].terminal = "succeeded"

\* A stage served from the cache has no run, any other succeeded one has.
Recorded ==
    /\ \A t \in served : runs[t] = <<>> /\ db[t].state = "succeeded"
    /\ \A t \in Task : JobOf[t] = job =>
          /\ db[t].state = "pending" => runs[t] = <<>> \/ (pc = "redispatch" /\ t = cur)
          /\ db[t].state = "succeeded" =>
                t \in served \/ HasSucceededRun(t) \/ (pc \in {"store", "record"} /\ t = cur)
    /\ pc = "hit" => runs[cur] = <<>>
    /\ pc \in {"store", "record"} => cur \notin served

\* Until something is deleted, what was produced is in the store; a placeholder never
\* is, nor will it be.
InStore ==
    /\ \A t \in Task : /\ Placeholder[t] \notin store
                       /\ \A i \in 1..Len(left) : left[i] # Placeholder[t]
    /\ lost = 0 =>
          /\ \A t \in Task : db[t].state = "succeeded" => Refs(db[t].outputs) \subseteq store
          /\ pc \in {"hit", "await"} => Refs(produced) \subseteq store
          /\ \A i \in 1..Len(events) : events[i].type = "artifact" => events[i].ref \in store

\* What is said of the two copies of the graph, of the locations of a call, and of
\* the records and the store.
TableInv == Alike /\ Untouched /\ Undelivered /\ InOrder /\ Consuming /\ Made
CallInv  == Thrown /\ OneReady /\ Fed /\ Located /\ Answering
KeptInv  == CacheSound /\ Recorded /\ InStore

ProvenanceInv == TableInv /\ CallInv /\ KeptInv

-----------------------------------------------------------------------------
(* The inductive invariant: the engine around it. *)

Announced == [status |-> "pending", hit |-> FALSE, outputs |-> <<>>]

\* Where RunPipeline is and what it has told the scheduler.
Steps ==
    /\ step = "idle" <=> plan = None
    /\ step # "run" => pc \in {"idle", "returned"}
    /\ step = "run" => pc # "idle" /\ (job = plan \/ pc = "returned")
    /\ step \in {"begin", "stages"} => plan \notin saved
    /\ step \in {"run", "mirror", "link"} => plan \in saved
    /\ step = "begin" => manifest[plan] = None
    /\ turn \subseteq {t \in Task : JobOf[t] = plan}
    /\ step \notin {"stages", "mirror"} => turn = {}
    /\ \A t \in turn, s \in Task : JobOf[s] = plan /\ s \notin turn => Rank[s] < Rank[t]

\* A manifest comes before its stages and before the job, and its rows are written
\* for all stages before the scheduler runs.
Opened ==
    /\ \A j \in Job : manifest[j] = None => j \notin saved
    /\ \A t \in Task : stage[t] # None => manifest[JobOf[t]] # None
    /\ step \notin {"idle", "begin"} =>
          /\ manifest[plan] # None
          /\ step # "link" => manifest[plan] = [status |-> "running", report |-> None]
          /\ step = "link" => manifest[plan].status # "running"
          /\ manifest[plan].report = None
    /\ step = "stages" => \A t \in Task : JobOf[t] = plan /\ t \notin turn => stage[t] # None
    /\ step \in {"run", "mirror", "link"} => \A t \in Task : JobOf[t] = plan => stage[t] # None

\* A stage is as announced or as the tasks table has it for good.
Shown(t) == JobOf[t] \in saved /\ JobOf[t] # job /\ stage[t] = Mirrored(t)
Mirroring ==
    /\ \A t \in Task : stage[t] # None =>
          \/ stage[t] = Announced
          \/ /\ Shown(t)
             /\ \A s \in Task : JobOf[s] = JobOf[t] /\ Rank[s] < Rank[t] => Shown(s)
    /\ step = "mirror" => \A t \in Task : JobOf[t] = plan /\ t \notin turn => Shown(t)
    /\ \A j \in Job : manifest[j] # None /\ manifest[j].status # "running" =>
          \A t \in TasksOf(j) : Shown(t)

\* Every succeeded stage of a plan that returned is accounted for.
Accounted ==
    step \in {"mirror", "link"} \/ (step = "run" /\ pc = "returned") =>
        \A t \in Task : JobOf[t] = plan /\ db[t].state = "succeeded" => t \in served \/ HasSucceededRun(t)

Closed ==
    \A j \in Job : manifest[j] # None =>
        /\ manifest[j].status \in {"running", AggregateStatus(j)}
        /\ manifest[j].status = "running" /\ plan # j => crashes > 0 \/ j \in raced \/ silences > 0
        /\ manifest[j].status = "running" => manifest[j].report = None
        /\ manifest[j].report # None =>
              /\ db[LastOf(TasksOf(j))].state = "succeeded"
              /\ manifest[j].report = Head(db[LastOf(TasksOf(j))].outputs)
        /\ (/\ j \in Validating /\ plan # j /\ manifest[j].status = "succeeded"
            /\ crashes = 0 /\ lost = 0 /\ silences = 0) =>
              manifest[j].report = Head(db[LastOf(TasksOf(j))].outputs)

PlanInv == Steps /\ Opened /\ Mirroring /\ Accounted /\ HitMeansServed /\ Closed

EngineInv == SchedulerInv /\ EngineTypeOK /\ ProvenanceInv /\ PlanInv

-----------------------------------------------------------------------------
(* Plans and the operators of the model. *)

USE DEF vars, schedVars, execVars, envVars

\* The stage before another one is its only dependency.
LEMMA OneDependency ==
    ASSUME NEW t \in Task, NEW d \in Deps[t]
    PROVE  d \in Task /\ JobOf[d] = JobOf[t] /\ d # t /\ Deps[t] = {d}
  <1>1. /\ d \in Task /\ JobOf[d] = JobOf[t] /\ d # t
        /\ \A e \in Deps[t] : e \in Task /\ JobOf[e] = JobOf[t] /\ Rank[e] + 1 = Rank[t]
    BY DepsAreOthers, PlanAssumption
  <1>2. \A e \in Deps[t] : Rank[e] = Rank[d]
    BY <1>1, AcyclicAssumption
  <1> QED
    BY <1>1, <1>2, EngineAssumption

\* What a stage ought to consume, for a plan that is a chain.
LEMMA Resolved ==
    ASSUME NEW t \in Task
    PROVE  /\ Deps[t] = {} => ResolvedInputs(t) = DeclaredInputs[t]
           /\ \A d \in Deps[t] :
                ResolvedInputs(t) = IF db[d].outputs = <<>> THEN DeclaredInputs[t]
                                    ELSE (DeclaredInputs[t] \ {Placeholder[d]}) \cup Refs(db[d].outputs)
  <1>1. Deps[t] = {} => ResolvedInputs(t) = DeclaredInputs[t]
    BY DEF ResolvedInputs
  <1>2. ASSUME NEW d \in Deps[t]
        PROVE  ResolvedInputs(t) = IF db[d].outputs = <<>> THEN DeclaredInputs[t]
                                   ELSE (DeclaredInputs[t] \ {Placeholder[d]}) \cup Refs(db[d].outputs)
    <2>1. Deps[t] = {d}
      BY <1>2, OneDependency
    <2>2. CASE db[d].outputs = <<>>
      BY <2>1, <2>2 DEF ResolvedInputs
    <2>3. CASE db[d].outputs # <<>>
      <3>1. {e \in Deps[t] : db[e].outputs # <<>>} = {d}
        BY <2>1, <2>3
      <3>2. UNION {Refs(db[e].outputs) : e \in {d}} = Refs(db[d].outputs)
        OBVIOUS
      <3>3. {Placeholder[e] : e \in {d}} = {Placeholder[d]}
        OBVIOUS
      <3> QED
        BY <2>3, <3>1, <3>2, <3>3, Zenon DEF ResolvedInputs
    <2> QED
      BY <2>2, <2>3
  <1> QED
    BY <1>1, <1>2

\* ResolvedInputs depends on the outputs of the dependencies alone.
LEMMA ResolvedStays ==
    ASSUME NEW t \in Task, \A d \in Deps[t] : db'[d].outputs = db[d].outputs
    PROVE  ResolvedInputs(t)' = ResolvedInputs(t)
  <1>1. {d \in Deps[t] : db'[d].outputs # <<>>} = {d \in Deps[t] : db[d].outputs # <<>>}
    OBVIOUS
  <1>2. ASSUME NEW S \in SUBSET Deps[t]
        PROVE  {Refs(db'[d].outputs) : d \in S} = {Refs(db[d].outputs) : d \in S}
    OBVIOUS
  <1>3. {Refs(db'[d].outputs) : d \in {e \in Deps[t] : db[e].outputs # <<>>}}
          = {Refs(db[d].outputs) : d \in {e \in Deps[t] : db[e].outputs # <<>>}}
    BY <1>2
  <1> QED
    BY <1>1, <1>3, Zenon DEF ResolvedInputs

\* No two stages of a plan are ready at once.
LEMMA ReadyUnique ==
    ASSUME InOrder, Alike, NEW s \in Task, NEW t \in Task, JobOf[s] = JobOf[t],
           task[s].state = "pending", \A d \in Deps[s] : task[d].state = "succeeded",
           task[t].state = "pending", \A d \in Deps[t] : task[d].state = "succeeded"
    PROVE  s = t
  <1>1. ASSUME NEW u \in Task, NEW v \in Task, JobOf[u] = JobOf[v], Rank[u] < Rank[v],
               task[u].state = "pending", \A d \in Deps[v] : task[d].state = "succeeded"
        PROVE  FALSE
    <2>1. Rank[u] \in Nat /\ Rank[v] \in Nat /\ Rank[v] # 0
      BY <1>1, AcyclicAssumption
    <2>2. PICK d \in Deps[v] : TRUE
      BY <2>1, PlanAssumption
    <2>3. d \in Task /\ JobOf[d] = JobOf[v] /\ Rank[d] + 1 = Rank[v] /\ Rank[d] \in Nat
      BY <2>2, PlanAssumption, AcyclicAssumption, GraphAssumption DEF TasksOf
    <2>4. db[d].state = "succeeded" /\ db[u].state = "pending"
      BY <1>1, <2>2, <2>3 DEF Alike
    <2>5. Rank[u] < Rank[d] \/ Rank[u] = Rank[d]
      BY <1>1, <2>1, <2>3
    <2> QED
      BY <1>1, <2>3, <2>4, <2>5, EngineAssumption DEF InOrder
  <1>2. Rank[s] \in Nat /\ Rank[t] \in Nat
    BY AcyclicAssumption
  <1>3. Rank[s] < Rank[t] \/ Rank[t] < Rank[s] \/ Rank[s] = Rank[t]
    BY <1>2
  <1> QED
    BY <1>1, <1>3, EngineAssumption

-----------------------------------------------------------------------------
(* The two copies of the graph. *)

LEMMA FreshFields ==
    \A t \in Task : /\ Fresh(t).state = "pending" /\ Fresh(t).inputs = DeclaredInputs[t]
                    /\ Fresh(t).outputs = <<Placeholder[t]>>
  BY DEF Fresh

\* The effect of a Mark that does not throw.
Written(t, s, out) ==
    /\ \A u \in Task : u # t => task'[u] = task[u] /\ db'[u] = db[u]
    /\ task'[t].state = s /\ db'[t].state = s
    /\ task'[t].outputs = out /\ db'[t].outputs = out
    /\ task'[t].inputs = task[t].inputs /\ db'[t].inputs = task[t].inputs

LEMMA MarkWrites ==
    ASSUME TypeOK, NEW t \in Task, NEW s \in Status, NEW out \in Seq(Ref), NEW next,
           IsLegal(task[t].state, s),
           \/ Mark(t, [task[t] EXCEPT !.state = s], next) /\ out = task[t].outputs
           \/ Mark(t, [task[t] EXCEPT !.state = s, !.outputs = out], next)
    PROVE  Written(t, s, out) /\ pc' = next /\ outcome' = outcome
  <1>1. task[t] \in TaskInstance
    BY DEF TypeOK
  <1>2. ASSUME NEW instance \in TaskInstance, instance.state = s, instance.outputs = out,
               instance.inputs = task[t].inputs, Mark(t, instance, next)
        PROVE  Written(t, s, out) /\ pc' = next /\ outcome' = outcome
    BY <1>2 DEF Mark, Written, TypeOK
  <1>3. CASE Mark(t, [task[t] EXCEPT !.state = s], next) /\ out = task[t].outputs
    <2> DEFINE instance == [task[t] EXCEPT !.state = s]
    <2>1. instance \in TaskInstance /\ instance.state = s
      BY <1>1, StateType DEF TaskInstance
    <2>2. instance.outputs = task[t].outputs /\ instance.inputs = task[t].inputs
      BY <1>1 DEF TaskInstance
    <2>3. Mark(t, instance, next)
      BY <1>3
    <2> HIDE DEF instance
    <2> QED
      BY <1>2, <1>3, <2>1, <2>2, <2>3
  <1>4. CASE Mark(t, [task[t] EXCEPT !.state = s, !.outputs = out], next)
    <2> DEFINE instance == [task[t] EXCEPT !.state = s, !.outputs = out]
    <2>1. instance \in TaskInstance /\ instance.state = s
      BY <1>1, OutputsType DEF TaskInstance
    <2>2. instance.outputs = out /\ instance.inputs = task[t].inputs
      BY <1>1 DEF TaskInstance
    <2>3. Mark(t, instance, next)
      BY <1>4
    <2> HIDE DEF instance
    <2> QED
      BY <1>2, <2>1, <2>2, <2>3
  <1> QED
    BY <1>3, <1>4

\* A step that leaves states, inputs and outputs alone.
LEMMA TableFrame ==
    ASSUME TableInv, UNCHANGED <<saved, db>>, silences' = 0 => silences = 0,
           \A u \in Task : /\ task'[u].state = task[u].state /\ task'[u].outputs = task[u].outputs
                           /\ task'[u].inputs = task[u].inputs,
           \A u \in Task : JobOf[u] \notin saved =>
               /\ task'[u] = task[u] /\ runs'[u] = runs[u]
               /\ u \in served' => u \in served
    PROVE  TableInv'
  <1>1. \A u \in Task : ResolvedInputs(u)' = ResolvedInputs(u)
    BY ResolvedStays
  <1>2. Alike' /\ Untouched' /\ Undelivered' /\ InOrder'
    BY DEF TableInv, Alike, Untouched, Undelivered, InOrder, Fresh
  <1>3. Consuming' /\ Made'
    BY <1>1 DEF TableInv, Consuming, Made, OutputsFaithful
  <1> QED
    BY <1>2, <1>3 DEF TableInv

\* A write of the scheduler to a task of the active job.
LEMMA TableWrite ==
    ASSUME TableInv, DepsInv, job \in saved, UNCHANGED <<saved, silences>>,
           NEW t \in Task, JobOf[t] = job, NEW s \in Status, NEW out,
           IsLegal(task[t].state, s), Written(t, s, out),
           s = "running" => /\ \A d \in Deps[t] : db[d].state = "succeeded"
                            /\ task[t].inputs = ResolvedInputs(t),
           s = "succeeded" /\ silences = 0 => out = Due(t),
           s # "succeeded" => out = task[t].outputs \/ (s = "cancelled" /\ out = <<>>),
           \A u \in Task : JobOf[u] \notin saved =>
               runs'[u] = runs[u] /\ (u \in served' => u \in served)
    PROVE  TableInv'
  <1> USE DEF TableInv
  <1>a. task[t].state = db[t].state /\ task[t].state # "succeeded"
    BY DEF Alike, IsLegal
  <1>1. Alike'
    BY DEF Alike, Written
  <1>2. Untouched'
    BY DEF Untouched, Written, Fresh
  <1>3. Undelivered'
    BY <1>a DEF Undelivered, Written, Alike, IsLegal
  <1>4. InOrder'
    <2> SUFFICES ASSUME NEW u \in Task, NEW v \in Task, JobOf[u] = JobOf[v], Rank[u] < Rank[v],
                        db'[v].state \in {"running", "succeeded"}
                 PROVE  db'[u].state = "succeeded"
      BY DEF InOrder
    <2>1. Rank[u] \in Nat /\ Rank[v] \in Nat /\ Rank[v] # 0
      BY AcyclicAssumption
    <2>2. db[u].state = "succeeded" => db'[u].state = "succeeded"
      BY <1>a DEF Written
    <2>3. CASE v # t \/ s = "succeeded"
      BY <1>a, <2>2, <2>3 DEF InOrder, Written, IsLegal
    <2>4. CASE v = t /\ s = "running"
      <3>1. PICK d \in Deps[v] : TRUE
        BY <2>1, PlanAssumption
      <3>2. d \in Task /\ JobOf[d] = JobOf[v] /\ Rank[d] + 1 = Rank[v] /\ Rank[d] \in Nat
        BY <3>1, PlanAssumption, AcyclicAssumption, GraphAssumption DEF TasksOf
      <3>3. Rank[u] < Rank[d] \/ Rank[u] = Rank[d]
        BY <2>1, <3>2
      <3>4. db[d].state = "succeeded"
        BY <2>4, <3>1
      <3> QED
        BY <2>2, <3>2, <3>3, <3>4, EngineAssumption DEF InOrder
    <2> QED
      BY <2>3, <2>4 DEF Written
  <1>5. ASSUME NEW u \in Task, db[u].state \in {"running", "succeeded"} \/ (u = t /\ s = "running")
        PROVE  ResolvedInputs(u)' = ResolvedInputs(u)
    <2>1. \A d \in Deps[u] : db[d].state = "succeeded"
      <3>1. CASE u = t /\ s = "running"
        BY <3>1
      <3>2. CASE db[u].state \in {"running", "succeeded"}
        <4>1. JobOf[u] \in saved
          BY <3>2, FreshFields DEF Untouched
        <4> QED
          BY <3>2, <4>1 DEF DepsInv
      <3> QED
        BY <1>5, <3>1, <3>2
    <2>2. \A d \in Deps[u] : d \in Task /\ d # t
      BY <1>a, <2>1, DepsAreOthers
    <2> QED
      BY <2>2, ResolvedStays DEF Written
  <1>6. task[t].state = "running" => task[t].inputs = ResolvedInputs(t)
    BY <1>a DEF Consuming
  <1>7. s = "succeeded" => task[t].state = "running"
    BY DEF IsLegal
  <1>8. Consuming'
    BY <1>5, <1>6, <1>7, <1>a DEF Consuming, Written
  <1>9. Made'
    BY <1>5, <1>6, <1>7, <1>a DEF Made, OutputsFaithful, Written, Due
  <1> QED
    BY <1>1, <1>2, <1>3, <1>4, <1>8, <1>9

\* The outputs of a dependency are handed on to the stage after it.
LEMMA ThreadedIsResolved ==
    ASSUME NEW t \in Task, NEW d \in Deps[t], task[d].outputs = db[d].outputs,
           task[d].outputs \in Seq(Ref)
    PROVE  Threaded(DeclaredInputs[t], <<Placeholder[d]>>, task[d].outputs) = ResolvedInputs(t)
  <1>1. ResolvedInputs(t) = IF db[d].outputs = <<>> THEN DeclaredInputs[t]
                            ELSE (DeclaredInputs[t] \ {Placeholder[d]}) \cup Refs(db[d].outputs)
    BY Resolved
  <1>2. CASE task[d].outputs = <<>>
    BY <1>1, <1>2 DEF Threaded
  <1>3. CASE task[d].outputs # <<>>
    <2>1. 1 \in DOMAIN task[d].outputs
      BY <1>3, EmptySeq, LenProperties
    <2>2. {<<Placeholder[d]>>[i] : i \in DOMAIN <<Placeholder[d]>> \cap DOMAIN task[d].outputs}
            = {Placeholder[d]}
      BY <2>1
    <2> QED
      BY <1>1, <1>3, <2>2, Zenon DEF Threaded
  <1> QED
    BY <1>2, <1>3

-----------------------------------------------------------------------------
(* What the locations of Execute rely on. *)

\* Locations between the success of a task and the hand-over of its outputs.
Handing == {"store", "record", "thread"}

\* Locations at which a Cancel may take the task of the call away.
Exposed == {"hit", "await", "markFailed", "redispatch"}

LEMMA Context ==
    ASSUME SchedulerInv, ProvenanceInv
    PROVE  /\ TypeOK /\ CoreInv /\ DepsInv /\ TableInv /\ CallInv /\ KeptInv
           /\ pc \in InExecute => job \in saved /\ job # None
           /\ pc \in InCall => /\ cur \in Task /\ JobOf[cur] = job /\ todo = {}
                               /\ task[cur] \in TaskInstance
                               /\ \/ task[cur].state \in StateAt(pc)
                                  \/ pc \in Exposed /\ task[cur].state = "cancelled"
                               /\ db[cur].state = task[cur].state
                               /\ \A d \in Deps[cur] : db[d].state = "succeeded"
           /\ pc = "dispatch" => \A t \in todo : /\ t \in Task /\ JobOf[t] = job /\ todo = {t}
                                                 /\ \A d \in Deps[t] : db[d].state = "succeeded"
           /\ \A t \in Task : /\ task[t] \in TaskInstance /\ task[t].outputs \in Seq(Ref)
                              /\ task[t].inputs \in SUBSET Ref /\ task[t].state \in Status
           /\ <<>> \in Seq(Ref)
  <1>1. TypeOK /\ CoreInv /\ DepsInv /\ TableInv /\ CallInv /\ KeptInv
    BY InvSplit DEF ProvenanceInv, CoreInv
  <1>2. pc \in InExecute => job \in saved /\ job # None
    BY <1>1, ActiveJob DEF CoreInv
  <1>3. \A t \in Task : \A d \in Deps[t] : d \in Task
    BY DepsAreOthers
  <1>4. \A t \in Task : /\ task[t] \in TaskInstance /\ task[t].outputs \in Seq(Ref)
                        /\ task[t].inputs \in SUBSET Ref /\ task[t].state \in Status
    BY <1>1 DEF TypeOK, TaskInstance
  <1>5. pc \in InCall => /\ cur \in Task /\ JobOf[cur] = job /\ todo = {}
                         /\ task[cur] \in TaskInstance
                         /\ \/ task[cur].state \in StateAt(pc)
                            \/ pc \in Exposed /\ task[cur].state = "cancelled"
                         /\ db[cur].state = task[cur].state
                         /\ \A d \in Deps[cur] : db[d].state = "succeeded"
    BY <1>1, <1>3, <1>4 DEF CoreInv, CurInv, CallInv, OneReady, TableInv, Alike, Exposed
  <1>6. pc = "dispatch" => \A t \in todo : /\ t \in Task /\ JobOf[t] = job /\ todo = {t}
                                           /\ \A d \in Deps[t] : db[d].state = "succeeded"
    BY <1>1, <1>3 DEF CoreInv, TodoInv, CallInv, OneReady, TableInv, Alike, InExecute, TypeOK
  <1> QED
    BY <1>1, <1>2, <1>4, <1>5, <1>6

\* A write feeds nobody: what has just succeeded is handed on later.
LEMMA FedWrite ==
    ASSUME Fed, Alike, pc \in InExecute, pc \notin Handing, job' = job,
           NEW t \in Task, NEW s \in Status, NEW out, Written(t, s, out),
           IsLegal(task[t].state, s),
           pc' \in Handing => cur' = t,
           s = "succeeded" => pc' \in Handing
    PROVE  Fed'
  <1> SUFFICES ASSUME NEW u \in Task, JobOf[u] = job
               PROVE  task'[u].inputs = IF Unfed(u)' THEN DeclaredInputs[u] ELSE ResolvedInputs(u)'
    BY DEF Fed
  <1>1. task'[u].inputs = task[u].inputs
    BY DEF Written
  <1>2. task[u].inputs = IF Unfed(u) THEN DeclaredInputs[u] ELSE ResolvedInputs(u)
    BY DEF Fed
  <1>3. db[t].state # "succeeded"
    BY DEF IsLegal, Alike
  <1>4. CASE t \in Deps[u]
    <2>1. Unfed(u)
      BY <1>3, <1>4 DEF Unfed
    <2>2. Unfed(u)'
      BY <1>4 DEF Unfed, Written, Handing
    <2> QED
      BY <1>1, <1>2, <2>1, <2>2
  <1>5. CASE t \notin Deps[u]
    <2>1. \A d \in Deps[u] : d \in Task /\ d # t /\ db'[d] = db[d]
      BY <1>5, DepsAreOthers DEF Written
    <2>2. Unfed(u)' <=> Unfed(u)
      BY <2>1 DEF Unfed, Handing
    <2>3. ResolvedInputs(u)' = ResolvedInputs(u)
      BY <2>1, ResolvedStays
    <2> QED
      BY <1>1, <1>2, <2>2, <2>3
  <1> QED
    BY <1>4, <1>5

\* A step that leaves the table alone feeds nobody, unless it hands outputs on.
LEMMA FedFrame ==
    ASSUME Fed, pc \in InExecute, pc' \in InExecute => job' = job /\ cur' = cur,
           db' = db, \A u \in Task : task'[u].inputs = task[u].inputs,
           db[cur].state = "succeeded" => (pc \in Handing <=> pc' \in Handing)
    PROVE  Fed'
  <1> SUFFICES ASSUME NEW u \in Task, JobOf[u] = job, job' = job, cur' = cur
               PROVE  task'[u].inputs = IF Unfed(u)' THEN DeclaredInputs[u] ELSE ResolvedInputs(u)'
    BY DEF Fed
  <1>1. task[u].inputs = IF Unfed(u) THEN DeclaredInputs[u] ELSE ResolvedInputs(u)
    BY DEF Fed
  <1>2. Unfed(u)' <=> Unfed(u)
    BY DEF Unfed, Handing
  <1>3. ResolvedInputs(u)' = ResolvedInputs(u)
    BY ResolvedStays
  <1> QED
    BY <1>1, <1>2, <1>3

\* A stage whose dependencies have succeeded, and were handed on, is fed.
LEMMA FedWhenReady ==
    ASSUME Fed, pc \in InExecute \ Handing, NEW t \in Task, JobOf[t] = job,
           \A d \in Deps[t] : db[d].state = "succeeded"
    PROVE  task[t].inputs = ResolvedInputs(t)
  BY DEF Fed, Unfed, Handing

\* No event of an artifact is new.
Queued ==
    \A i \in 1..Len(events') : events'[i].type = "artifact" => \E k \in 1..Len(events) : events'[i] = events[k]

\* A step that neither stores nor loses anything, and lets no task succeed.
LEMMA StoreFrame ==
    ASSUME InStore, UNCHANGED <<store, lost>>,
           events' = events \/ events' = <<>> \/ Queued,
           left' = left \/ left' = <<>>,
           pc' \in {"hit", "await"} => pc \in {"hit", "await"} /\ produced' = produced,
           \A u \in Task : db'[u].state = "succeeded" =>
               db[u].state = "succeeded" /\ db'[u].outputs = db[u].outputs
    PROVE  InStore'
  <1>1. /\ events' = <<>> => 1..Len(events') = {}
        /\ left' = <<>> => 1..Len(left') = {}
    OBVIOUS
  <1>2. \A i \in 1..Len(events') : events'[i].type = "artifact" => \E k \in 1..Len(events) : events'[i] = events[k]
    BY <1>1 DEF Queued
  <1> QED
    BY <1>1, <1>2 DEF InStore

\* Taking the first event leaves events that were there.
LEMMA TailQueued ==
    ASSUME TypeOK, events # <<>>, events' = Tail(events)
    PROVE  /\ Queued /\ Len(events) \in Nat \ {0} /\ Head(events) = events[1]
           /\ Head(events) \in WorkerEvent
  <1>1. events \in Seq(WorkerEvent)
    BY DEF TypeOK
  <1>2. /\ Len(events) \in Nat \ {0} /\ Head(events) = events[1] /\ Len(Tail(events)) = Len(events) - 1
        /\ \A i \in 1..(Len(events) - 1) : Tail(events)[i] = events[i + 1]
        /\ Head(events) \in WorkerEvent
    BY <1>1, EmptySeq, HeadTailProperties
  <1>3. \A i \in 1..Len(events') : i + 1 \in 1..Len(events) /\ events'[i] = events[i + 1]
    BY <1>2
  <1> QED
    BY <1>2, <1>3 DEF Queued

\* A transition that is refused leaves everything as it is, but for the location.
LEMMA RefusedKeeps ==
    ASSUME SchedulerInv, ProvenanceInv, NEW t \in Task, NEW s \in Status, NEW out, NEW next,
           pc \in InExecute \ {"store", "record"},
           pc = "redispatch" => task[cur].state # "pending",
           ~IsLegal(task[t].state, s),
           \/ Mark(t, [task[t] EXCEPT !.state = s], next)
           \/ Mark(t, [task[t] EXCEPT !.state = s, !.outputs = out], next),
           UNCHANGED <<saved, runs, cache, job, served, silences, lost, store, left>>,
           events' = events \/ Queued,
           silences = 0 => busy' = None /\ events' = <<>>
    PROVE  ProvenanceInv'
  <1>1. /\ TypeOK /\ TableInv /\ CallInv /\ KeptInv /\ task[t] \in TaskInstance
        /\ pc = "redispatch" => cur \in Task /\ db[cur].state = task[cur].state
    BY Context DEF InCall
  <1>2. pc' = "aborted" /\ outcome' = "illegal" /\ UNCHANGED <<task, db>>
    <2>1. /\ [task[t] EXCEPT !.state = s].state = s
          /\ [task[t] EXCEPT !.state = s, !.outputs = out].state = s
      BY <1>1 DEF TaskInstance
    <2> QED
      BY <2>1 DEF Mark
  <1>3. TableInv'
    BY <1>1, <1>2, TableFrame
  <1>4. CallInv'
    BY <1>2 DEF CallInv, Thrown, OneReady, Fed, Located, Answering, InExecute, InCall
  <1>5. Recorded'
    BY <1>1, <1>2 DEF KeptInv, Recorded, HasSucceededRun
  <1>6. InStore'
    BY <1>1, <1>2, StoreFrame DEF KeptInv
  <1> QED
    BY <1>1, <1>3, <1>4, <1>5, <1>6 DEF ProvenanceInv, KeptInv, CacheSound

-----------------------------------------------------------------------------
(* The loop of Execute. *)

LEMMA PropagateKeeps ==
    ASSUME SchedulerInv, ProvenanceInv, NEW t \in Task, PropagateFailures(t)
    PROVE  ProvenanceInv'
  <1>1. /\ pc = "propagate" /\ t \in todo /\ todo' = todo \ {t}
        /\ UNCHANGED <<saved, runs, cache, job, iter, cur, declared, produced, missed,
                       retryable, served, execVars, envVars, store>>
    BY DEF PropagateFailures
  <1>2. /\ TypeOK /\ CoreInv /\ DepsInv /\ TableInv /\ CallInv /\ KeptInv /\ JobOf[t] = job
        /\ job \in saved /\ task[t].outputs \in Seq(Ref)
    BY <1>1, Context DEF CoreInv, TodoInv, InExecute
  <1>3. CASE UNCHANGED <<task, db, pc, outcome>>
    <2>1. TableInv'
      BY <1>1, <1>2, <1>3, TableFrame
    <2>2. Fed'
      BY <1>1, <1>2, <1>3, FedFrame DEF CallInv, InExecute
    <2>3. CallInv'
      BY <1>1, <1>2, <1>3, <2>2
      DEF CallInv, Thrown, OneReady, Located, Answering, InCall
    <2>4. KeptInv'
      BY <1>1, <1>2, <1>3 DEF KeptInv, CacheSound, Recorded, HasSucceededRun, InStore
    <2> QED
      BY <2>1, <2>3, <2>4 DEF ProvenanceInv
  <1>4. ASSUME task[t].state = "pending", NEW s \in {"failed", "skipped"},
               Mark(t, [task[t] EXCEPT !.state = s], "propagate")
        PROVE  ProvenanceInv'
    <2>1. s \in Status /\ IsLegal(task[t].state, s)
      BY <1>4 DEF IsLegal, Status
    <2>2. Written(t, s, task[t].outputs) /\ pc' = "propagate"
      BY <1>2, <1>4, <2>1, MarkWrites
    <2>3. TableInv'
      BY <1>1, <1>2, <2>1, <2>2, TableWrite
    <2>4. Fed'
      BY <1>1, <1>2, <2>1, <2>2, FedWrite DEF CallInv, TableInv, InExecute, Handing
    <2>5. CallInv'
      BY <1>1, <1>2, <2>2, <2>4
      DEF CallInv, Thrown, OneReady, Located, Answering, InCall
    <2>6. KeptInv'
      <3>1. db[t].state = "pending"
        BY <1>2, <1>4 DEF TableInv, Alike
      <3>2. Recorded'
        BY <1>1, <1>2, <2>2, <3>1 DEF KeptInv, Recorded, HasSucceededRun, Written, TypeOK
      <3>3. InStore'
        BY <1>1, <1>2, <2>2, StoreFrame DEF KeptInv, Written
      <3> QED
        BY <1>1, <1>2, <3>2, <3>3 DEF KeptInv, CacheSound
    <2> QED
      BY <2>3, <2>5, <2>6 DEF ProvenanceInv
  <1> QED
    BY <1>3, <1>4 DEF PropagateFailures

LEMMA EndPassKeeps ==
    ASSUME SchedulerInv, ProvenanceInv, EndPass
    PROVE  ProvenanceInv'
  <1>1. /\ pc = "propagate" /\ pc' \in {"returned", "ready"}
        /\ pc' = "ready" => job' = job
        /\ pc' = "returned" => job' = None
        /\ UNCHANGED <<task, db, saved, runs, cache, outcome, iter, progressed, cur, declared,
                       produced, missed, retryable, served, execVars, envVars, store>>
    BY DEF EndPass
  <1>2. /\ TypeOK /\ CoreInv /\ DepsInv /\ TableInv /\ CallInv /\ KeptInv
    BY Context
  <1>3. TableInv'
    BY <1>1, <1>2, TableFrame
  <1>4. Fed'
    BY <1>1, <1>2, FedFrame DEF CallInv, InExecute, InCall, Handing
  <1>5. CallInv'
    BY <1>1, <1>2, <1>4 DEF CallInv, Thrown, OneReady, Located, Answering, InCall
  <1>6. KeptInv'
    <2>1. Recorded'
      BY <1>1, <1>2, GraphAssumption, NoneAssumption DEF KeptInv, Recorded, HasSucceededRun
    <2> QED
      BY <1>1, <1>2, <2>1 DEF KeptInv, CacheSound, InStore
  <1> QED
    BY <1>3, <1>5, <1>6 DEF ProvenanceInv

LEMMA TakeSnapshotKeeps ==
    ASSUME SchedulerInv, ProvenanceInv, TakeSnapshot
    PROVE  ProvenanceInv'
  <1>1. /\ pc = "ready" /\ pc' = "dispatch" /\ todo' = ReadyTasks
        /\ UNCHANGED <<task, db, saved, runs, cache, job, outcome, iter, progressed, cur, declared,
                       produced, missed, retryable, served, execVars, envVars, store>>
    BY DEF TakeSnapshot
  <1>2. /\ TypeOK /\ CoreInv /\ DepsInv /\ TableInv /\ CallInv /\ KeptInv
    BY Context
  <1>3. TableInv'
    BY <1>1, <1>2, TableFrame
  <1>4. Fed'
    BY <1>1, <1>2, FedFrame DEF CallInv, InExecute, InCall, Handing
  <1>5. OneReady'
    <2>1. ASSUME NEW t \in todo' PROVE todo' = {t}
      <3>1. \A u \in ReadyTasks : /\ u \in Task /\ JobOf[u] = job /\ task[u].state = "pending"
                                  /\ \A d \in Deps[u] : task[d].state = "succeeded"
        BY DEF ReadyTasks, TasksOf
      <3>2. \A u \in ReadyTasks : u = t
        BY <1>1, <1>2, <2>1, <3>1, ReadyUnique DEF TableInv
      <3> QED
        BY <1>1, <2>1, <3>2
    <2> QED
      BY <1>1, <2>1 DEF OneReady, InCall
  <1>6. CallInv'
    BY <1>1, <1>2, <1>4, <1>5 DEF CallInv, Thrown, Located, Answering
  <1>7. KeptInv'
    <2>1. Recorded'
      BY <1>1, <1>2 DEF KeptInv, Recorded, HasSucceededRun
    <2> QED
      BY <1>1, <1>2, <2>1 DEF KeptInv, CacheSound, InStore
  <1> QED
    BY <1>3, <1>6, <1>7 DEF ProvenanceInv

LEMMA EndIterationKeeps ==
    ASSUME SchedulerInv, ProvenanceInv, EndIteration
    PROVE  ProvenanceInv'
  <1>1. /\ pc = "dispatch" /\ todo = {}
        /\ UNCHANGED <<task, db, saved, runs, cache, cur, declared, produced, missed,
                       retryable, served, execVars, envVars, store>>
    BY DEF EndIteration
  <1>2. /\ TypeOK /\ CoreInv /\ DepsInv /\ TableInv /\ CallInv /\ KeptInv
    BY Context
  <1>4. /\ pc' \in {"returned", "propagate", "aborted"}
        /\ pc' # "returned" => job' = job
        /\ pc' = "returned" => job' = None
        /\ pc' = "aborted" => outcome' = "stalled"
    BY <1>1 DEF EndIteration
  <1>5. TableInv'
    BY <1>1, <1>2, TableFrame
  <1>6. Fed'
    BY <1>1, <1>2, <1>4, FedFrame DEF CallInv, InExecute, InCall, Handing
  <1>7. CallInv'
    BY <1>1, <1>2, <1>4, <1>6 DEF CallInv, Thrown, OneReady, Located, Answering, InCall
  <1>8. KeptInv'
    <2>1. Recorded'
      BY <1>1, <1>2, <1>4, GraphAssumption, NoneAssumption DEF KeptInv, Recorded, HasSucceededRun
    <2> QED
      BY <1>1, <1>2, <1>4, <2>1 DEF KeptInv, CacheSound, InStore
  <1> QED
    BY <1>5, <1>7, <1>8 DEF ProvenanceInv

-----------------------------------------------------------------------------
(* The cache. *)

LEMMA DropStaleKeeps ==
    ASSUME SchedulerInv, ProvenanceInv, NEW t \in Task, DropStaleEntry(t)
    PROVE  ProvenanceInv'
  <1>1. /\ pc = "dispatch" /\ cache' \subseteq cache
        /\ UNCHANGED <<task, db, saved, runs, job, pc, outcome, iter, progressed, todo, cur,
                       declared, produced, missed, retryable, served, execVars, envVars, store>>
    BY DEF DropStaleEntry
  <1>2. TypeOK /\ CoreInv /\ TableInv /\ CallInv /\ KeptInv
    BY Context
  <1>3. TableInv'
    BY <1>1, <1>2, TableFrame
  <1>4. Fed'
    BY <1>1, <1>2, FedFrame DEF CallInv, InExecute
  <1>5. CallInv'
    BY <1>1, <1>2, <1>4 DEF CallInv, Thrown, OneReady, Located, Answering, Due
  <1>6. Recorded' /\ InStore'
    BY <1>1, <1>2, StoreFrame DEF KeptInv, Recorded, HasSucceededRun
  <1> QED
    BY <1>1, <1>2, <1>3, <1>5, <1>6 DEF ProvenanceInv, KeptInv, CacheSound

\* The entry of a task is all the task would make of its inputs.
LEMMA EntryIsResult ==
    ASSUME CacheSound, silences = 0, NEW t \in Task, NEW e \in Entries(t)
    PROVE  Due(t) = <<e.output>>
  BY DEF CacheSound, Entries, Due

LEMMA TryCacheHitKeeps ==
    ASSUME SchedulerInv, ProvenanceInv, NEW t \in Task, TryCacheHit(t),
           IsLegal(task[t].state, "running")
    PROVE  ProvenanceInv'
  <1>1. /\ pc = "dispatch" /\ t \in todo /\ todo' = todo \ {t} /\ cur' = t
        /\ Mark(t, [task[t] EXCEPT !.state = "running"], "hit")
        /\ UNCHANGED <<saved, runs, cache, job, iter, progressed, declared, missed, retryable,
                       served, execVars, envVars, store>>
    BY DEF TryCacheHit
  <1>2. PICK e \in Entries(t) : e.output \in store /\ produced' = <<e.output>>
    BY DEF TryCacheHit
  <1>3. TypeOK /\ CoreInv /\ DepsInv /\ TableInv /\ CallInv /\ KeptInv /\ job \in saved
    BY <1>1, Context DEF InExecute
  <1>4. /\ JobOf[t] = job /\ todo = {t} /\ task[t].state = "pending"
        /\ \A d \in Deps[t] : db[d].state = "succeeded"
        /\ task[t].outputs \in Seq(Ref)
    BY <1>1, Context DEF IsLegal
  <1>5. "running" \in Status /\ IsLegal(task[t].state, "running")
    BY DEF Status
  <1>6. Written(t, "running", task[t].outputs) /\ pc' = "hit"
    BY <1>1, <1>3, <1>4, <1>5, MarkWrites
  <1>7. task[t].inputs = ResolvedInputs(t)
    BY <1>1, <1>3, <1>4, FedWhenReady DEF CallInv, InExecute, Handing
  <1>8. TableInv'
    BY <1>1, <1>3, <1>4, <1>5, <1>6, <1>7, TableWrite
  <1>9. Fed'
    BY <1>1, <1>3, <1>5, <1>6, FedWrite DEF CallInv, TableInv, InExecute, Handing
  <1>10. Located'
    <2>1. silences = 0 => Due(t) = <<e.output>>
      BY <1>3, EntryIsResult DEF KeptInv
    <2>2. Due(t)' = Due(t)
      BY <1>6 DEF Due, Written
    <2> QED
      BY <1>1, <1>2, <1>6, <2>1, <2>2 DEF Located
  <1>11. CallInv'
    BY <1>1, <1>3, <1>4, <1>6, <1>9, <1>10 DEF CallInv, Thrown, OneReady, Answering, InCall
  <1>12. db[t].state = "pending" /\ runs[t] = <<>>
    BY <1>1, <1>3, <1>4 DEF KeptInv, Recorded, TableInv, Alike
  <1>13. Recorded'
    BY <1>1, <1>3, <1>6, <1>12 DEF KeptInv, Recorded, HasSucceededRun, Written, TypeOK
  <1>14. InStore'
    <2>1. Refs(produced') \subseteq store
      BY <1>2 DEF Refs
    <2> QED
      BY <1>1, <1>3, <1>6, <2>1 DEF KeptInv, InStore, Written
  <1> QED
    BY <1>1, <1>3, <1>8, <1>11, <1>13, <1>14 DEF ProvenanceInv, KeptInv, CacheSound

LEMMA FinishCacheHitKeeps ==
    ASSUME SchedulerInv, ProvenanceInv, FinishCacheHit, task[cur].state = "running"
    PROVE  ProvenanceInv'
  <1>1. /\ pc = "hit" /\ declared' = task[cur].outputs /\ served' = served \cup {cur}
        /\ Mark(cur, [task[cur] EXCEPT !.state = "succeeded", !.outputs = produced], "thread")
        /\ UNCHANGED <<saved, runs, cache, job, iter, progressed, todo, cur, produced, missed,
                       retryable, execVars, envVars, store>>
    BY DEF FinishCacheHit
  <1>2. /\ TypeOK /\ CoreInv /\ DepsInv /\ TableInv /\ CallInv /\ KeptInv /\ job \in saved
        /\ cur \in Task /\ JobOf[cur] = job /\ todo = {} /\ task[cur].state = "running"
        /\ db[cur].state = "running" /\ produced \in Seq(Ref)
    BY <1>1, Context DEF InExecute, InCall, StateAt, TypeOK
  <1>3. "succeeded" \in Status /\ IsLegal(task[cur].state, "succeeded")
    BY <1>2 DEF Status, IsLegal
  <1>4. Written(cur, "succeeded", produced) /\ pc' = "thread"
    BY <1>1, <1>2, <1>3, MarkWrites
  <1>5. silences = 0 => produced = Due(cur)
    BY <1>1, <1>2 DEF CallInv, Located
  <1>6. TableInv'
    BY <1>1, <1>2, <1>3, <1>4, <1>5, TableWrite
  <1>7. Fed'
    BY <1>1, <1>2, <1>3, <1>4, FedWrite DEF CallInv, TableInv, InExecute, InCall, Handing
  <1>8. task[cur].outputs = <<Placeholder[cur]>>
    BY <1>2 DEF TableInv, Undelivered, Alike
  <1>9. CallInv'
    BY <1>1, <1>2, <1>4, <1>7, <1>8
    DEF CallInv, Thrown, OneReady, Answering, Located
  <1>10. Recorded'
    BY <1>1, <1>2, <1>4 DEF KeptInv, Recorded, HasSucceededRun, Written, TypeOK
  <1>11. InStore'
    BY <1>1, <1>2, <1>4 DEF KeptInv, InStore, Written
  <1> QED
    BY <1>1, <1>2, <1>6, <1>9, <1>10, <1>11 DEF ProvenanceInv, KeptInv, CacheSound

LEMMA StoreOutputKeeps ==
    ASSUME SchedulerInv, ProvenanceInv, StoreOutput
    PROVE  ProvenanceInv'
  <1>1. /\ pc = "store" /\ pc' = "record"
        /\ UNCHANGED <<task, db, saved, runs, job, outcome, iter, progressed, todo, cur, declared,
                       produced, missed, retryable, served, execVars, envVars, store>>
    BY DEF StoreOutput
  <1>2. /\ TypeOK /\ CoreInv /\ TableInv /\ CallInv /\ KeptInv /\ job \in saved
        /\ cur \in Task /\ JobOf[cur] = job /\ todo = {} /\ task[cur].state = "succeeded"
        /\ db[cur].state = "succeeded" /\ task[cur].inputs \in SUBSET Ref
    BY <1>1, Context DEF InExecute, InCall, StateAt, Exposed
  <1>3. TableInv'
    BY <1>1, <1>2, TableFrame
  <1>4. Fed'
    BY <1>1, <1>2, FedFrame DEF CallInv, InExecute, InCall, Handing
  <1>5. CallInv'
    BY <1>1, <1>2, <1>4 DEF CallInv, Thrown, OneReady, Answering, Located, InCall
  <1>6. Recorded' /\ InStore'
    BY <1>1, <1>2, StoreFrame DEF KeptInv, Recorded, HasSucceededRun
  <1>7. CacheSound'
    <2> DEFINE entry == [kind |-> KindOf[cur], inputs |-> task[cur].inputs,
                         output |-> Head(task[cur].outputs)]
    <2>1. cache' \subseteq cache \/ (cur \in Cacheable /\ cache' \subseteq cache \cup {entry})
      BY DEF StoreOutput
    <2>2. silences = 0 => task[cur].outputs = Due(cur)
      BY <1>2 DEF TableInv, Alike, Consuming, Made, OutputsFaithful, Due
    <2>3. cur \in Cacheable => Len(Due(cur)) = 1 /\ Due(cur) \in Seq(Ref)
      BY <1>2, ContentAssumption, RefAssumption DEF Due
    <2>4. cur \in Cacheable => Due(cur) = <<Head(Due(cur))>>
      BY <2>3
    <2>5. silences = 0 /\ cur \in Cacheable => Result[entry.kind][entry.inputs] = <<entry.output>>
      BY <2>2, <2>4 DEF Due
    <2> HIDE DEF entry
    <2> QED
      BY <1>1, <1>2, <2>1, <2>5 DEF KeptInv, CacheSound
  <1> QED
    BY <1>3, <1>5, <1>6, <1>7 DEF ProvenanceInv, KeptInv

-----------------------------------------------------------------------------
(* The end of an attempt. *)

LEMMA RecordRunKeeps ==
    ASSUME SchedulerInv, ProvenanceInv, RecordRun
    PROVE  ProvenanceInv'
  <1>1. /\ pc = "record"
        /\ runs' = [runs EXCEPT ![cur] = Append(runs[cur], RunOf(task[cur], task[cur].state, task[cur].outputs))]
        /\ pc' = IF task[cur].state = "succeeded" THEN "thread" ELSE "dispatch"
        /\ UNCHANGED <<task, db, saved, cache, job, outcome, iter, todo, cur, declared, produced,
                       missed, retryable, served, execVars, envVars, store>>
    BY DEF RecordRun
  <1>2. /\ TypeOK /\ CoreInv /\ TableInv /\ CallInv /\ KeptInv /\ job \in saved
        /\ cur \in Task /\ JobOf[cur] = job /\ todo = {}
        /\ task[cur].state \in {"succeeded", "cancelled"} /\ db[cur].state = task[cur].state
        /\ task[cur] \in TaskInstance
    BY <1>1, Context DEF InExecute, InCall, StateAt, Exposed
  <1>3. /\ runs'[cur] = Append(runs[cur], RunOf(task[cur], task[cur].state, task[cur].outputs))
        /\ \A u \in Task : u # cur => runs'[u] = runs[u]
    BY <1>1, <1>2 DEF TypeOK
  <1>4. TableInv'
    BY <1>1, <1>2, <1>3, TableFrame
  <1>5. Fed'
    BY <1>1, <1>2, FedFrame DEF CallInv, InExecute, InCall, Handing
  <1>6. CallInv'
    BY <1>1, <1>2, <1>5 DEF CallInv, Thrown, OneReady, Answering, Located, InCall
  <1>7. task[cur].state = "succeeded" => HasSucceededRun(cur)'
    <2> DEFINE r == RunOf(task[cur], task[cur].state, task[cur].outputs)
    <2>1. runs[cur] \in Seq(Run) /\ r \in Run /\ r.terminal = task[cur].state
      <3>1. /\ task[cur].attempts \in Nat /\ task[cur].state \in Status
            /\ task[cur].inputs \in SUBSET Ref /\ task[cur].outputs \in Seq(Ref)
        BY <1>2, PolicyAssumption DEF TaskInstance
      <3>2. task[cur].attempts + 1 \in Nat
        BY <3>1
      <3>3. r \in Run
        BY <3>1, <3>2 DEF RunOf, Run
      <3>4. r.terminal = task[cur].state
        BY DEF RunOf
      <3> QED
        BY <1>2, <3>3, <3>4 DEF TypeOK
    <2>2. runs'[cur] = Append(runs[cur], r)
      BY <1>3
    <2> HIDE DEF r
    <2>3. Len(runs[cur]) + 1 \in DOMAIN runs'[cur] /\ runs'[cur][Len(runs[cur]) + 1] = r
      BY <2>1, <2>2, AppendProperties, LenProperties
    <2>4. ASSUME task[cur].state = "succeeded"
          PROVE  \E i \in DOMAIN runs'[cur] : runs'[cur][i].terminal = "succeeded"
      BY <2>1, <2>3, <2>4
    <2> QED
      BY <1>1, <2>4 DEF HasSucceededRun
  <1>8. cur \notin served
    BY <1>1, <1>2 DEF KeptInv, Recorded
  <1>9. Recorded'
    BY <1>1, <1>2, <1>3, <1>7, <1>8 DEF KeptInv, Recorded, HasSucceededRun
  <1>10. InStore'
    BY <1>1, <1>2, StoreFrame DEF KeptInv
  <1> QED
    BY <1>1, <1>2, <1>4, <1>6, <1>9, <1>10 DEF ProvenanceInv, KeptInv, CacheSound

LEMMA ThreadKeeps ==
    ASSUME SchedulerInv, ProvenanceInv, ThreadOutputsToDependents
    PROVE  ProvenanceInv'
  <1>1. /\ pc = "thread" /\ pc' = "dispatch"
        /\ task' = [t \in Task |->
                      IF cur \in Deps[t]
                      THEN [task[t] EXCEPT !.inputs = Threaded(task[t].inputs, declared, task[cur].outputs)]
                      ELSE task[t]]
        /\ UNCHANGED <<db, saved, runs, cache, job, outcome, iter, todo, cur, declared, produced,
                       missed, retryable, served, execVars, envVars, store>>
    BY DEF ThreadOutputsToDependents
  <1>2. /\ TypeOK /\ CoreInv /\ DepsInv /\ TableInv /\ CallInv /\ KeptInv /\ job \in saved
        /\ cur \in Task /\ JobOf[cur] = job /\ todo = {}
        /\ task[cur].state = "succeeded" /\ db[cur].state = "succeeded"
        /\ \A u \in Task : task[u] \in TaskInstance /\ task[u].outputs \in Seq(Ref)
    BY <1>1, Context DEF InExecute, InCall, StateAt, Exposed
  <1>3. /\ declared = <<Placeholder[cur]>> /\ task[cur].outputs = db[cur].outputs
    BY <1>1, <1>2 DEF CallInv, Located, TableInv, Alike
  <1>4. ASSUME NEW u \in Task, cur \in Deps[u]
        PROVE  /\ task'[u].state = task[u].state /\ task'[u].outputs = task[u].outputs
               /\ task'[u].inputs = ResolvedInputs(u) /\ JobOf[u] = job
    <2>1. JobOf[u] = job /\ Unfed(u)
      BY <1>1, <1>2, <1>4, DepsAreOthers DEF Unfed
    <2>2. task[u].inputs = DeclaredInputs[u]
      BY <1>1, <1>2, <2>1 DEF CallInv, Fed, InExecute, InCall
    <2>3. Threaded(task[u].inputs, declared, task[cur].outputs) = ResolvedInputs(u)
      BY <1>2, <1>3, <1>4, <2>2, ThreadedIsResolved
    <2>4. task'[u] = [task[u] EXCEPT !.inputs = ResolvedInputs(u)]
      BY <1>1, <1>4, <2>3
    <2> QED
      BY <1>2, <2>1, <2>4 DEF TaskInstance
  <1>5. \A u \in Task : cur \notin Deps[u] => task'[u] = task[u]
    BY <1>1
  <1>6. \A u \in Task : ResolvedInputs(u)' = ResolvedInputs(u)
    BY <1>1, ResolvedStays
  <1>7. TableInv'
    <2>1. Alike' /\ Undelivered' /\ InOrder'
      BY <1>1, <1>2, <1>4, <1>5 DEF TableInv, Alike, Undelivered, InOrder
    <2>2. Untouched'
      BY <1>1, <1>2, <1>4, <1>5 DEF TableInv, Untouched, Fresh
    <2>3. Consuming' /\ Made'
      BY <1>1, <1>2, <1>4, <1>5, <1>6 DEF TableInv, Consuming, Made, OutputsFaithful
    <2> QED
      BY <2>1, <2>2, <2>3 DEF TableInv
  <1>8. Fed'
    <2> SUFFICES ASSUME NEW u \in Task, JobOf[u] = job
                 PROVE  task'[u].inputs = IF Unfed(u)' THEN DeclaredInputs[u] ELSE ResolvedInputs(u)'
      BY <1>1 DEF Fed
    <2>1. CASE cur \in Deps[u]
      <3>1. Deps[u] = {cur}
        BY <2>1, OneDependency
      <3>2. ~Unfed(u)'
        BY <1>1, <1>2, <3>1 DEF Unfed
      <3> QED
        BY <1>4, <1>6, <2>1, <3>2
    <2>2. CASE cur \notin Deps[u]
      <3>1. Unfed(u)' <=> Unfed(u)
        BY <1>1, <2>2 DEF Unfed
      <3> QED
        BY <1>1, <1>2, <1>5, <1>6, <2>2, <3>1 DEF CallInv, Fed, InExecute, InCall
    <2> QED
      BY <2>1, <2>2
  <1>9. CallInv'
    BY <1>1, <1>2, <1>8 DEF CallInv, Thrown, OneReady, Answering, Located, InCall
  <1>10. Recorded' /\ InStore'
    BY <1>1, <1>2, StoreFrame DEF KeptInv, Recorded, HasSucceededRun
  <1> QED
    BY <1>1, <1>2, <1>7, <1>9, <1>10 DEF ProvenanceInv, KeptInv, CacheSound

LEMMA MarkFailedKeeps ==
    ASSUME SchedulerInv, ProvenanceInv, MarkFailed, task[cur].state = "running"
    PROVE  ProvenanceInv'
  <1>1. /\ pc = "markFailed"
        /\ Mark(cur, [task[cur] EXCEPT !.state = "failed"], IF retryable THEN "retry" ELSE "dispatch")
        /\ UNCHANGED <<saved, runs, cache, job, iter, todo, cur, declared, produced, missed,
                       retryable, served, execVars, envVars, store>>
    BY DEF MarkFailed
  <1>2. /\ TypeOK /\ CoreInv /\ DepsInv /\ TableInv /\ CallInv /\ KeptInv /\ job \in saved
        /\ cur \in Task /\ JobOf[cur] = job /\ todo = {}
        /\ task[cur].state = "running" /\ db[cur].state = "running" /\ task[cur].outputs \in Seq(Ref)
    BY <1>1, Context DEF InExecute, InCall, StateAt
  <1>3. "failed" \in Status /\ IsLegal(task[cur].state, "failed")
    BY <1>2 DEF Status, IsLegal
  <1>4. Written(cur, "failed", task[cur].outputs) /\ pc' \in {"retry", "dispatch"}
    BY <1>1, <1>2, <1>3, MarkWrites
  <1>5. TableInv'
    BY <1>1, <1>2, <1>3, <1>4, TableWrite
  <1>6. Fed'
    BY <1>1, <1>2, <1>3, <1>4, FedWrite DEF CallInv, TableInv, InExecute, InCall, Handing
  <1>7. CallInv'
    BY <1>1, <1>2, <1>4, <1>6 DEF CallInv, Thrown, OneReady, Answering, Located
  <1>8. Recorded'
    BY <1>1, <1>2, <1>4 DEF KeptInv, Recorded, HasSucceededRun, Written, TypeOK
  <1>9. InStore'
    BY <1>1, <1>2, <1>4, StoreFrame DEF KeptInv, Written
  <1> QED
    BY <1>1, <1>2, <1>5, <1>7, <1>8, <1>9 DEF ProvenanceInv, KeptInv, CacheSound

LEMMA RetryKeeps ==
    ASSUME SchedulerInv, ProvenanceInv, Retry
    PROVE  ProvenanceInv'
  <1>1. /\ pc = "retry" /\ Mark(cur, [task[cur] EXCEPT !.state = "pending"], "redispatch")
        /\ UNCHANGED <<saved, runs, cache, job, iter, progressed, todo, cur, declared, produced,
                       missed, retryable, served, execVars, envVars, store>>
    BY DEF Retry
  <1>2. /\ TypeOK /\ CoreInv /\ DepsInv /\ TableInv /\ CallInv /\ KeptInv /\ job \in saved
        /\ cur \in Task /\ JobOf[cur] = job /\ todo = {}
        /\ task[cur].state = "failed" /\ db[cur].state = "failed" /\ task[cur].outputs \in Seq(Ref)
    BY <1>1, Context DEF InExecute, InCall, StateAt, Exposed
  <1>3. "pending" \in Status /\ IsLegal(task[cur].state, "pending")
    BY <1>2 DEF Status, IsLegal
  <1>4. Written(cur, "pending", task[cur].outputs) /\ pc' = "redispatch"
    BY <1>1, <1>2, <1>3, MarkWrites
  <1>5. TableInv'
    BY <1>1, <1>2, <1>3, <1>4, TableWrite
  <1>6. Fed'
    BY <1>1, <1>2, <1>3, <1>4, FedWrite DEF CallInv, TableInv, InExecute, InCall, Handing
  <1>7. CallInv'
    BY <1>1, <1>2, <1>4, <1>6 DEF CallInv, Thrown, OneReady, Answering, Located
  <1>8. Recorded'
    BY <1>1, <1>2, <1>4 DEF KeptInv, Recorded, HasSucceededRun, Written, TypeOK
  <1>9. InStore'
    BY <1>1, <1>2, <1>4, StoreFrame DEF KeptInv, Written
  <1> QED
    BY <1>1, <1>2, <1>5, <1>7, <1>8, <1>9 DEF ProvenanceInv, KeptInv, CacheSound

-----------------------------------------------------------------------------
(* An attempt. *)

\* What is due is a sequence of refs, and no placeholder.
LEMMA DueType ==
    ASSUME TypeOK, NEW t \in Task
    PROVE  /\ Due(t) \in Seq(Ref) /\ Len(Due(t)) \in Nat
           /\ \A i \in 1..Len(Due(t)) : Due(t)[i] \in Ref /\ \A s \in Task : Placeholder[s] # Due(t)[i]
  <1>1. task[t].inputs \in SUBSET Ref
    BY DEF TypeOK, TaskInstance
  <1>2. Due(t) \in Seq(Ref) /\ KindOf[t] \in Kind
    BY <1>1, RefAssumption DEF Due
  <1>3. Len(Due(t)) \in Nat /\ DOMAIN Due(t) = 1..Len(Due(t))
    BY <1>2, LenProperties
  <1>4. \A s \in Task : Placeholder[s] \notin Refs(Due(t))
    BY <1>1, ContentAssumption DEF Due
  <1> QED
    BY <1>2, <1>3, <1>4, ElementOfSeq DEF Refs

\* The queues and what they hold.
LEMMA QueueTypes ==
    ASSUME TypeOK
    PROVE  /\ events \in Seq(WorkerEvent) /\ produced \in Seq(Ref) /\ left \in Seq(Ref)
           /\ Len(events) \in Nat /\ Len(produced) \in Nat /\ Len(left) \in Nat
  BY LenProperties DEF TypeOK

LEMMA SubmitKeeps ==
    ASSUME SchedulerInv, ProvenanceInv, NEW t \in Task, JobOf[t] = job,
           pc \in {"dispatch", "redispatch"}, task[t].state = "pending",
           \A d \in Deps[t] : db[d].state = "succeeded", todo' = {},
           MarkRunningAndSubmit(t),
           UNCHANGED <<saved, runs, cache, job, iter, progressed, declared, retryable, served,
                       envVars, store>>
    PROVE  ProvenanceInv'
  <1> DEFINE refusal == [task |-> t, type |-> "failed", ref |-> None]
             accepted == busy' = t /\ left' = Due(t) /\ events' = events
             refused == busy' = None /\ left' = <<>> /\ events' = Append(events, refusal)
  <1>1. TypeOK /\ CoreInv /\ DepsInv /\ TableInv /\ CallInv /\ KeptInv /\ job \in saved
        /\ task[t].outputs \in Seq(Ref) /\ task[t] \in TaskInstance
    BY Context DEF InExecute, InCall
  <1>2. silences = 0 => busy = None /\ events = <<>>
    BY <1>1 DEF CallInv, Answering
  <1>3. "running" \in Status /\ IsLegal(task[t].state, "running")
    BY DEF Status, IsLegal
  <1>4. /\ cur' = t /\ produced' = <<>>
        /\ busy = None => /\ Mark(t, [task[t] EXCEPT !.state = "running"], "await")
                          /\ accepted \/ refused
        /\ busy # None => /\ task' = [task EXCEPT ![t] = [task[t] EXCEPT !.state = "running"]]
                          /\ db' = [db EXCEPT ![t] = [task[t] EXCEPT !.state = "running"]]
                          /\ pc' = "aborted" /\ outcome' = "busy"
                          /\ UNCHANGED <<busy, left, cancelled, events>>
    BY <1>3 DEF MarkRunningAndSubmit, NewAttempt, Due
  <1>5. /\ Written(t, "running", task[t].outputs)
        /\ busy = None => pc' = "await"
    <2>1. CASE busy = None
      BY <1>1, <1>3, <1>4, <2>1, MarkWrites
    <2>2. CASE busy # None
      <3>1. \A u \in Task : u # t => task'[u] = task[u] /\ db'[u] = db[u]
        BY <1>1, <1>4, <2>2 DEF TypeOK
      <3>2. /\ task'[t] = [task[t] EXCEPT !.state = "running"]
            /\ db'[t] = [task[t] EXCEPT !.state = "running"]
        BY <1>1, <1>4, <2>2 DEF TypeOK
      <3> QED
        BY <1>1, <2>2, <3>1, <3>2 DEF Written, TaskInstance
    <2> QED
      BY <2>1, <2>2
  <1>6. task[t].inputs = ResolvedInputs(t)
    BY <1>1, FedWhenReady DEF CallInv, InExecute, InCall, Handing
  <1>7. TableInv'
    BY <1>1, <1>3, <1>5, <1>6, TableWrite
  <1>8. Fed'
    BY <1>1, <1>3, <1>4, <1>5, FedWrite DEF CallInv, TableInv, InExecute, InCall, Handing
  <1>9. Due(t)' = Due(t) /\ Due(t) \in Seq(Ref) /\ Len(Due(t)) \in Nat
    <2>1. Due(t)' = Due(t)
      BY <1>5 DEF Due, Written
    <2> QED
      BY <1>1, <2>1, DueType
  <1>10. ASSUME silences = 0 PROVE Delivering(Due(t))'
    <2> DEFINE due == Due(t)
    <2>1. refusal.task = t /\ refusal.type = "failed"
      OBVIOUS
    <2>2. Len(<<>>) = 0 /\ 1..0 = {}
      OBVIOUS
    <2>3. due' = due /\ due \in Seq(Ref) /\ Len(due) \in Nat
      BY <1>9
    <2>4. CASE accepted
      <3>1. events' = <<>> /\ produced' = <<>> /\ busy' = cur' /\ busy' # None /\ left' = due
        BY <1>2, <1>4, <1>10, <2>4, NoneAssumption
      <3> HIDE DEF due
      <3>2. /\ Len(produced') <= Len(due) /\ \A i \in 1..Len(produced') : produced'[i] = due[i]
            /\ 1..Len(events') = {} /\ Len(produced') + Len(events') + Len(left') = Len(due)
            /\ \A i \in 1..Len(left') : left'[i] = due[Len(produced') + Len(events') + i]
        BY <2>2, <2>3, <3>1
      <3>3. Delivering(due)'
        BY <2>3, <3>1, <3>2 DEF Delivering
      <3> QED
        BY <3>3 DEF due
    <2>5. CASE refused
      <3>1. events' = <<refusal>> /\ Len(<<refusal>>) = 1 /\ <<refusal>>[1] = refusal
        BY <1>2, <1>10, <2>5
      <3>2. busy' = None /\ cur' = t /\ produced' = <<>>
        BY <1>4, <2>5
      <3> HIDE DEF due, refusal
      <3>3. Delivering(due)'
        BY <2>1, <2>2, <2>3, <3>1, <3>2 DEF Delivering
      <3> QED
        BY <3>3 DEF due
    <2> QED
      BY <1>2, <1>4, <1>10, <2>4, <2>5
  <1>11. CallInv'
    BY <1>2, <1>4, <1>5, <1>8, <1>10 DEF CallInv, Thrown, OneReady, Answering, Located
  <1>12. db[t].state = "pending"
    BY <1>1 DEF TableInv, Alike
  <1>13. Recorded'
    <2>1. \A u \in served : runs'[u] = <<>> /\ db'[u].state = "succeeded"
      BY <1>1, <1>5, <1>12 DEF KeptInv, Recorded, Written, TypeOK
    <2>2. \A u \in Task : u # t => db'[u] = db[u]
      BY <1>5 DEF Written
    <2>3. db'[t].state = "running" /\ pc' \in {"await", "aborted"}
      BY <1>4, <1>5 DEF Written
    <2>4. \A u \in Task : HasSucceededRun(u)' <=> HasSucceededRun(u)
      BY DEF HasSucceededRun
    <2>5. \A u \in Task : JobOf[u] = job /\ db[u].state = "pending" /\ u # t => runs[u] = <<>>
      <3> SUFFICES ASSUME NEW u \in Task, JobOf[u] = job, db[u].state = "pending", u # t,
                          runs[u] # <<>>
                   PROVE  FALSE
        OBVIOUS
      <3>1. pc = "redispatch" /\ u = cur
        BY <1>1 DEF KeptInv, Recorded
      <3>2. task[cur].state = "pending" /\ \A d \in Deps[cur] : db[d].state = "succeeded"
        BY <1>1, <3>1, Context DEF InCall, TableInv, Alike
      <3>3. \A v \in Task : \A d \in Deps[v] : d \in Task
        BY DepsAreOthers
      <3> QED
        BY <1>1, <3>1, <3>2, <3>3, ReadyUnique DEF TableInv, Alike
    <2> QED
      BY <1>1, <2>1, <2>2, <2>3, <2>4, <2>5 DEF KeptInv, Recorded
  <1>14. InStore'
    <2>1. refusal.type # "artifact" /\ events \in Seq(WorkerEvent) /\ Len(events) \in Nat
      BY <1>1, QueueTypes
    <2> HIDE DEF refusal
    <2>2. events' = events \/ Queued
      <3>1. CASE events' = Append(events, refusal)
        <4>1. \A i \in 1..Len(events') : (i \in 1..Len(events) /\ events'[i] = events[i]) \/ events'[i] = refusal
          BY <2>1, <3>1
        <4> QED
          BY <2>1, <4>1 DEF Queued
      <3> QED
        BY <1>4, <3>1
    <2>3. Refs(produced') = {}
      BY <1>4 DEF Refs
    <2>4. \A u \in Task : db'[u].state = "succeeded" =>
             db[u].state = "succeeded" /\ db'[u].outputs = db[u].outputs
      BY <1>5 DEF Written
    <2>5. \A i \in 1..Len(events') : events'[i].type = "artifact" => \E k \in 1..Len(events) : events'[i] = events[k]
      BY <2>2 DEF Queued
    <2>6. \A s \in Task : \A i \in 1..Len(left') : left'[i] # Placeholder[s]
      <3>1. CASE left' = left
        BY <1>1, <3>1 DEF KeptInv, InStore
      <3>2. CASE left' = <<>>
        BY <3>2
      <3>3. CASE left' = Due(t)
        BY <1>1, <3>3, DueType
      <3> QED
        BY <1>4, <3>1, <3>2, <3>3
    <2> QED
      BY <1>1, <2>3, <2>4, <2>5, <2>6 DEF KeptInv, InStore
  <1> QED
    BY <1>1, <1>7, <1>11, <1>13, <1>14 DEF ProvenanceInv, KeptInv, CacheSound

\* What the scheduler thread knows when it takes an event.
LEMMA Taking ==
    ASSUME SchedulerInv, ProvenanceInv, pc = "await"
    PROVE  /\ TypeOK /\ CoreInv /\ DepsInv /\ TableInv /\ CallInv /\ KeptInv /\ job \in saved
           /\ cur \in Task /\ JobOf[cur] = job /\ todo = {}
           /\ task[cur].state \in {"running", "cancelled"} /\ db[cur].state = task[cur].state
           /\ task[cur] \in TaskInstance /\ task[cur].outputs \in Seq(Ref)
           /\ task[cur].state = "running" => task[cur].outputs = <<Placeholder[cur]>>
           /\ silences = 0 => Delivering(Due(cur))
           /\ Due(cur) \in Seq(Ref) /\ Len(Due(cur)) \in Nat
           /\ events # <<>> =>
                 /\ Len(events) \in Nat \ {0} /\ Head(events) = events[1]
                 /\ Len(Tail(events)) = Len(events) - 1
                 /\ \A i \in 1..(Len(events) - 1) : Tail(events)[i] = events[i + 1]
  <1>1. /\ TypeOK /\ CoreInv /\ DepsInv /\ TableInv /\ CallInv /\ KeptInv /\ job \in saved
        /\ cur \in Task /\ JobOf[cur] = job /\ todo = {}
        /\ task[cur].state \in {"running", "cancelled"} /\ db[cur].state = task[cur].state
        /\ task[cur] \in TaskInstance /\ task[cur].outputs \in Seq(Ref)
    BY Context DEF InExecute, InCall, StateAt
  <1>2. task[cur].state = "running" => task[cur].outputs = <<Placeholder[cur]>>
    BY <1>1 DEF TableInv, Undelivered, Alike
  <1>3. /\ silences = 0 => Delivering(Due(cur))
        /\ Due(cur) \in Seq(Ref) /\ Len(Due(cur)) \in Nat
    BY <1>1, DueType DEF CallInv, Answering
  <1>4. ASSUME events # <<>>
        PROVE  /\ Len(events) \in Nat \ {0} /\ Head(events) = events[1]
               /\ Len(Tail(events)) = Len(events) - 1
               /\ \A i \in 1..(Len(events) - 1) : Tail(events)[i] = events[i + 1]
    <2>1. events \in Seq(WorkerEvent)
      BY <1>1 DEF TypeOK
    <2> QED
      BY <1>4, <2>1, EmptySeq, HeadTailProperties
  <1> QED
    BY <1>1, <1>2, <1>3, <1>4

LEMMA OnArtifactKeeps ==
    ASSUME SchedulerInv, ProvenanceInv, OnArtifact
    PROVE  ProvenanceInv'
  <1>1. /\ pc = "await" /\ events # <<>> /\ events' = Tail(events)
        /\ Head(events).task # cur \/ Head(events).type = "artifact"
        /\ produced' = IF Head(events).task = cur THEN Append(produced, Head(events).ref)
                                                   ELSE produced
        /\ UNCHANGED <<task, db, saved, runs, cache, job, pc, outcome, iter, progressed, todo, cur,
                       declared, missed, retryable, served, busy, left, cancelled, envVars, store>>
    BY DEF OnArtifact
  <1>2. TypeOK /\ CoreInv /\ TableInv /\ CallInv /\ KeptInv /\ cur \in Task /\ todo = {}
    BY <1>1, Taking
  <1>3. /\ silences = 0 => Delivering(Due(cur))
        /\ Due(cur) \in Seq(Ref) /\ Len(Due(cur)) \in Nat
        /\ Len(events) \in Nat \ {0} /\ Head(events) = events[1]
        /\ Len(Tail(events)) = Len(events) - 1
        /\ \A i \in 1..(Len(events) - 1) : Tail(events)[i] = events[i + 1]
    BY <1>1, Taking
  <1>4. /\ produced \in Seq(Ref) /\ left \in Seq(Ref) /\ events \in Seq(WorkerEvent)
        /\ Len(produced) \in Nat /\ Len(left) \in Nat
    BY <1>2, QueueTypes
  <1>5. silences = 0 =>
            /\ events[1].task = cur /\ events[1].type = "artifact"
            /\ Len(produced) + 1 <= Len(Due(cur)) /\ events[1].ref = Due(cur)[Len(produced) + 1]
    BY <1>1, <1>3 DEF Delivering
  <1>6. Head(events).task = cur =>
            events[1].type = "artifact" /\ events[1].ref \in Ref /\ produced' = Append(produced, events[1].ref)
    <2>1. Head(events) \in WorkerEvent /\ Head(events) = events[1]
      BY <1>1, <1>2, TailQueued
    <2> QED
      BY <1>1, <2>1 DEF WorkerEvent, EventType
  <1>7. ASSUME Head(events).task = cur
        PROVE  /\ Len(produced') = Len(produced) + 1 /\ produced'[Len(produced) + 1] = events[1].ref
               /\ \A i \in 1..Len(produced) : produced'[i] = produced[i]
               /\ produced' \in Seq(Ref)
    <2>1. events[1].ref \in Ref /\ produced' = Append(produced, events[1].ref)
      BY <1>6, <1>7
    <2> QED
      BY <1>4, <2>1, AppendProperties
  <1>8. ASSUME silences = 0 PROVE Delivering(Due(cur))'
    <2> DEFINE due == Due(cur)
    <2>0. /\ Head(events).task = cur
          /\ Len(produced') = Len(produced) + 1 /\ produced'[Len(produced) + 1] = events[1].ref
          /\ \A i \in 1..Len(produced) : produced'[i] = produced[i]
      <3>1. Head(events).task = cur
        BY <1>3, <1>5, <1>8, <1>1
      <3> QED
        BY <1>7, <3>1
    <2>1. due' = due
      BY <1>1 DEF Due
    <2>2. /\ Len(due) \in Nat /\ Len(produced) + 1 <= Len(due) /\ events[1].ref = due[Len(produced) + 1]
      BY <1>3, <1>5, <1>8
    <2>3. Delivering(due)
      BY <1>3, <1>8
    <2> HIDE DEF due
    <2>4. Len(produced') <= Len(due) /\ \A i \in 1..Len(produced') : produced'[i] = due[i]
      BY <1>4, <2>0, <2>2, <2>3 DEF Delivering
    <2>5. ASSUME NEW i \in 1..Len(events')
          PROVE  /\ events'[i].task = cur
                 /\ i < Len(events') => events'[i].type = "artifact"
                 /\ events'[i].type = "artifact" => /\ Len(produced') + i <= Len(due)
                                                    /\ events'[i].ref = due[Len(produced') + i]
                 /\ events'[i].type = "completed" => Len(produced') + i = Len(due) + 1
                 /\ busy # None => events'[i].type = "artifact"
      <3>1. /\ Len(events') = Len(events) - 1 /\ events'[i] = events[i + 1]
            /\ i + 1 \in 1..Len(events) /\ i \in Nat /\ (i < Len(events') <=> i + 1 < Len(events))
            /\ Len(produced') + i = Len(produced) + (i + 1)
        BY <1>1, <1>3, <1>4, <2>0
      <3> QED
        BY <2>3, <3>1 DEF Delivering
    <2>6. busy = None => events' # <<>> /\ events'[Len(events')].type # "artifact"
      <3>1. ASSUME busy = None PROVE events' # <<>> /\ events'[Len(events')].type # "artifact"
        <4>1. events[Len(events)].type # "artifact"
          BY <2>3, <3>1 DEF Delivering
        <4>2. Len(events) # 1
          BY <1>5, <1>8, <4>1
        <4>3. Len(events') \in 1..(Len(events) - 1) /\ Len(events') + 1 = Len(events)
          BY <1>1, <1>3, <4>2
        <4>4. events'[Len(events')] = events[Len(events') + 1]
          BY <1>1, <1>3, <4>3
        <4>5. Len(<<>>) = 0
          OBVIOUS
        <4> QED
          BY <4>1, <4>3, <4>4, <4>5
      <3> QED
        BY <3>1
    <2>7. busy # None =>
             /\ busy = cur
             /\ Len(produced') + Len(events') + Len(left) = Len(due)
             /\ \A i \in 1..Len(left) : left[i] = due[Len(produced') + Len(events') + i]
      <3>1. Len(produced') + Len(events') = Len(produced) + Len(events)
        BY <1>1, <1>3, <1>4, <2>0
      <3> QED
        BY <2>3, <3>1 DEF Delivering
    <2>8. Delivering(due)'
      BY <1>1, <2>1, <2>4, <2>5, <2>6, <2>7 DEF Delivering
    <2> QED
      BY <2>1, <2>8 DEF due
  <1>9. TableInv'
    BY <1>1, <1>2, TableFrame
  <1>10. Fed'
    BY <1>1, <1>2, FedFrame DEF CallInv, InExecute, InCall
  <1>11. CallInv'
    BY <1>1, <1>2, <1>8, <1>10 DEF CallInv, Thrown, OneReady, Answering, Located
  <1>12. Recorded'
    BY <1>1, <1>2 DEF KeptInv, Recorded, HasSucceededRun
  <1>13. InStore'
    <2>1. ASSUME lost = 0, Head(events).task = cur PROVE Refs(produced') \subseteq store
      <3>1. events[1].ref \in store /\ Refs(produced) \subseteq store
        BY <1>1, <1>2, <1>3, <1>6, <2>1 DEF KeptInv, InStore
      <3>2. DOMAIN produced' = 1..Len(produced') /\ DOMAIN produced = 1..Len(produced)
        BY <1>4, <1>6, <2>1, LenProperties, AppendProperties
      <3>3. ASSUME NEW i \in 1..Len(produced') PROVE produced'[i] \in store
        <4>1. i = Len(produced) + 1 \/ i \in 1..Len(produced)
          BY <1>4, <1>7, <2>1
        <4> QED
          BY <1>7, <2>1, <3>1, <3>2, <4>1 DEF Refs
      <3> QED
        BY <3>2, <3>3 DEF Refs
    <2>2. ASSUME lost = 0, NEW i \in 1..Len(events'), events'[i].type = "artifact"
          PROVE  events'[i].ref \in store
      <3>1. events'[i] = events[i + 1] /\ i + 1 \in 1..Len(events)
        BY <1>1, <1>3, <2>2
      <3> QED
        BY <1>2, <2>2, <3>1 DEF KeptInv, InStore
    <2> QED
      BY <1>1, <1>2, <2>1, <2>2 DEF KeptInv, InStore
  <1> QED
    BY <1>1, <1>2, <1>9, <1>11, <1>12, <1>13 DEF ProvenanceInv, KeptInv, CacheSound

\* A terminal event is the last one of its attempt, and one of completion comes
\* after everything that is due.
LEMMA TerminalLast ==
    ASSUME SchedulerInv, ProvenanceInv, pc = "await", events # <<>>,
           Head(events).type # "artifact", silences = 0
    PROVE  /\ busy = None /\ Tail(events) = <<>>
           /\ Head(events).type = "completed" => produced = Due(cur)
  <1>1. /\ Delivering(Due(cur)) /\ Due(cur) \in Seq(Ref) /\ Len(Due(cur)) \in Nat
        /\ Len(events) \in Nat \ {0} /\ Head(events) = events[1]
        /\ Len(Tail(events)) = Len(events) - 1 /\ TypeOK
    BY Taking
  <1>2. /\ produced \in Seq(Ref) /\ events \in Seq(WorkerEvent) /\ Len(produced) \in Nat
    BY <1>1, QueueTypes
  <1>3. 1 \in 1..Len(events) /\ events[1].type # "artifact"
    BY <1>1
  <1>4. Len(events) = 1 /\ busy = None
    BY <1>1, <1>3 DEF Delivering
  <1>5. Tail(events) = <<>>
    <2>1. Tail(events) \in Seq(WorkerEvent) /\ Len(Tail(events)) = 0
      BY <1>1, <1>2, <1>4, HeadTailProperties
    <2> QED
      BY <2>1, EmptySeq
  <1>6. ASSUME Head(events).type = "completed" PROVE produced = Due(cur)
    <2>1. Len(produced) + 1 = Len(Due(cur)) + 1 /\ \A i \in 1..Len(produced) : produced[i] = Due(cur)[i]
      BY <1>1, <1>3, <1>6 DEF Delivering
    <2> QED
      BY <1>1, <1>2, <2>1, SeqEqual
  <1> QED
    BY <1>4, <1>5, <1>6

LEMMA OnCompletedKeeps ==
    ASSUME SchedulerInv, ProvenanceInv, OnCompleted, task[cur].state = "running"
    PROVE  ProvenanceInv'
  <1>1. /\ pc = "await" /\ events # <<>> /\ events' = Tail(events)
        /\ Head(events).type = "completed" /\ declared' = task[cur].outputs
        /\ Mark(cur, [task[cur] EXCEPT !.state = "succeeded", !.outputs = produced], "store")
        /\ UNCHANGED <<saved, runs, cache, job, todo, cur, produced, served, busy, left, envVars, store>>
    BY DEF OnCompleted, Consume
  <1>2. /\ TypeOK /\ CoreInv /\ DepsInv /\ TableInv /\ CallInv /\ KeptInv /\ job \in saved
        /\ cur \in Task /\ JobOf[cur] = job /\ todo = {} /\ produced \in Seq(Ref)
        /\ task[cur].state = "running" /\ db[cur].state = "running"
        /\ task[cur].outputs = <<Placeholder[cur]>>
    BY <1>1, Taking DEF TypeOK
  <1>3. silences = 0 => busy = None /\ events' = <<>> /\ produced = Due(cur)
    BY <1>1, <1>2, TerminalLast
  <1>4. "succeeded" \in Status /\ IsLegal(task[cur].state, "succeeded")
    BY <1>2 DEF Status, IsLegal
  <1>5. Written(cur, "succeeded", produced) /\ pc' = "store"
    BY <1>1, <1>2, <1>4, MarkWrites
  <1>6. TableInv'
    BY <1>1, <1>2, <1>3, <1>4, <1>5, TableWrite
  <1>7. Fed'
    BY <1>1, <1>2, <1>4, <1>5, FedWrite DEF CallInv, TableInv, InExecute, InCall, Handing
  <1>8. CallInv'
    BY <1>1, <1>2, <1>3, <1>5, <1>7
    DEF CallInv, Thrown, OneReady, Answering, Located
  <1>9. Recorded'
    BY <1>1, <1>2, <1>5 DEF KeptInv, Recorded, HasSucceededRun, Written, TypeOK
  <1>10. InStore'
    <2>1. \A i \in 1..Len(events') : events'[i].type = "artifact" => \E k \in 1..Len(events) : events'[i] = events[k]
      BY <1>1, <1>2, TailQueued DEF Queued
    <2> QED
      BY <1>1, <1>2, <1>5, <2>1 DEF KeptInv, InStore, Written
  <1> QED
    BY <1>1, <1>2, <1>6, <1>8, <1>9, <1>10 DEF ProvenanceInv, KeptInv, CacheSound

LEMMA OnCancelledKeeps ==
    ASSUME SchedulerInv, ProvenanceInv, OnCancelled, task[cur].state = "running"
    PROVE  ProvenanceInv'
  <1>1. /\ pc = "await" /\ events # <<>> /\ events' = Tail(events)
        /\ Head(events).type = "cancelled"
        /\ Mark(cur, [task[cur] EXCEPT !.state = "cancelled", !.outputs = <<>>], "record")
        /\ UNCHANGED <<saved, runs, cache, job, todo, cur, produced, served, busy, left, envVars, store>>
    BY DEF OnCancelled, Consume
  <1>2. /\ TypeOK /\ CoreInv /\ DepsInv /\ TableInv /\ CallInv /\ KeptInv /\ job \in saved
        /\ cur \in Task /\ JobOf[cur] = job /\ todo = {} /\ <<>> \in Seq(Ref)
        /\ task[cur].state = "running" /\ db[cur].state = "running"
    BY <1>1, Taking
  <1>3. silences = 0 => busy = None /\ events' = <<>>
    BY <1>1, TerminalLast
  <1>4. "cancelled" \in Status /\ IsLegal(task[cur].state, "cancelled")
    BY <1>2 DEF Status, IsLegal
  <1>5. Written(cur, "cancelled", <<>>) /\ pc' = "record"
    BY <1>1, <1>2, <1>4, MarkWrites
  <1>6. TableInv'
    BY <1>1, <1>2, <1>4, <1>5, TableWrite
  <1>7. Fed'
    BY <1>1, <1>2, <1>4, <1>5, FedWrite DEF CallInv, TableInv, InExecute, InCall, Handing
  <1>8. CallInv'
    BY <1>1, <1>2, <1>3, <1>5, <1>7
    DEF CallInv, Thrown, OneReady, Answering, Located, Written
  <1>9. Recorded'
    BY <1>1, <1>2, <1>5 DEF KeptInv, Recorded, HasSucceededRun, Written, TypeOK
  <1>10. InStore'
    BY <1>1, <1>2, <1>5, TailQueued, StoreFrame DEF KeptInv, Written
  <1> QED
    BY <1>1, <1>2, <1>6, <1>8, <1>9, <1>10 DEF ProvenanceInv, KeptInv, CacheSound

LEMMA OnFailedKeeps ==
    ASSUME SchedulerInv, ProvenanceInv, NEW recoverable \in BOOLEAN, OnFailed(recoverable)
    PROVE  ProvenanceInv'
  <1> DEFINE counted == [task[cur] EXCEPT !.attempts = task[cur].attempts + 1]
             ended == RunOf(counted, "failed", <<>>)
  <1>1. /\ pc = "await" /\ pc' = "markFailed" /\ events # <<>> /\ events' = Tail(events)
        /\ Head(events).type # "artifact"
        /\ task' = [task EXCEPT ![cur] = counted]
        /\ runs' = [runs EXCEPT ![cur] = Append(runs[cur], ended)]
        /\ UNCHANGED <<db, saved, cache, job, todo, cur, declared, produced, served, busy, left,
                       envVars, store>>
    BY DEF OnFailed, Consume, Failed
  <1>2. /\ TypeOK /\ CoreInv /\ DepsInv /\ TableInv /\ CallInv /\ KeptInv /\ job \in saved
        /\ cur \in Task /\ JobOf[cur] = job /\ todo = {} /\ task[cur] \in TaskInstance
        /\ task[cur].state \in {"running", "cancelled"} /\ db[cur].state = task[cur].state
    BY <1>1, Taking
  <1>3. silences = 0 => busy = None /\ events' = <<>>
    BY <1>1, TerminalLast
  <1>4. /\ counted.state = task[cur].state /\ counted.inputs = task[cur].inputs
        /\ counted.outputs = task[cur].outputs
    BY <1>2 DEF TaskInstance
  <1> HIDE DEF counted, ended
  <1>5. /\ \A u \in Task : /\ task'[u].state = task[u].state /\ task'[u].outputs = task[u].outputs
                           /\ task'[u].inputs = task[u].inputs
        /\ \A u \in Task : u # cur => task'[u] = task[u] /\ runs'[u] = runs[u]
    BY <1>1, <1>2, <1>4 DEF TypeOK
  <1>6. TableInv'
    BY <1>1, <1>2, <1>5, TableFrame
  <1>7. Fed'
    BY <1>1, <1>2, <1>5, FedFrame DEF CallInv, InExecute, InCall, Handing
  <1>8. CallInv'
    BY <1>1, <1>2, <1>3, <1>7 DEF CallInv, Thrown, OneReady, Answering, Located
  <1>9. Recorded'
    <2>1. cur \notin served
      BY <1>2 DEF KeptInv, Recorded
    <2>2. \A u \in Task : u # cur => (HasSucceededRun(u)' <=> HasSucceededRun(u))
      BY <1>5 DEF HasSucceededRun
    <2>3. \A u \in served : u \in Task /\ runs'[u] = <<>> /\ db'[u].state = "succeeded"
      BY <1>1, <1>2, <1>5, <2>1 DEF KeptInv, Recorded, TypeOK
    <2> QED
      BY <1>1, <1>2, <1>5, <2>1, <2>2, <2>3 DEF KeptInv, Recorded
  <1>10. InStore'
    BY <1>1, <1>2, TailQueued, StoreFrame DEF KeptInv
  <1> QED
    BY <1>1, <1>2, <1>6, <1>8, <1>9, <1>10 DEF ProvenanceInv, KeptInv, CacheSound

\* The worker is given up for its silence: from then on nothing is claimed of it.
LEMMA OnTimeoutKeeps ==
    ASSUME SchedulerInv, ProvenanceInv, OnTimeout
    PROVE  ProvenanceInv'
  <1> DEFINE counted == [task[cur] EXCEPT !.attempts = task[cur].attempts + 1]
             ended == RunOf(counted, "failed", <<>>)
  <1>1. /\ pc = "await"
        /\ UNCHANGED <<db, saved, cache, job, outcome, todo, cur, declared, produced, served,
                       execVars, raced, lost, store>>
    BY DEF OnTimeout
  <1>2. /\ TypeOK /\ CoreInv /\ DepsInv /\ TableInv /\ CallInv /\ KeptInv /\ job \in saved
        /\ cur \in Task /\ JobOf[cur] = job /\ todo = {} /\ task[cur] \in TaskInstance
        /\ task[cur].state \in {"running", "cancelled"} /\ db[cur].state = task[cur].state
    BY <1>1, Taking
  <1>3. CASE UNCHANGED <<task, runs, pc, silences>>
    <2>1. TableInv'
      BY <1>1, <1>2, <1>3, TableFrame
    <2>2. Fed'
      BY <1>1, <1>2, <1>3, FedFrame DEF CallInv, InExecute, InCall
    <2>3. Delivering(Due(cur))' <=> Delivering(Due(cur))
      BY <1>1, <1>3 DEF Delivering, Due
    <2>4. CallInv'
      BY <1>1, <1>2, <1>3, <2>2, <2>3 DEF CallInv, Thrown, OneReady, Answering, Located
    <2>5. Recorded' /\ InStore'
      BY <1>1, <1>2, <1>3, StoreFrame DEF KeptInv, Recorded, HasSucceededRun
    <2> QED
      BY <1>1, <1>2, <1>3, <2>1, <2>4, <2>5 DEF ProvenanceInv, KeptInv, CacheSound
  <1>4. CASE silences' = silences + 1 /\ Failed(TRUE)
    <2>1. /\ pc' = "markFailed" /\ task' = [task EXCEPT ![cur] = counted]
          /\ runs' = [runs EXCEPT ![cur] = Append(runs[cur], ended)]
      BY <1>4 DEF Failed
    <2>2. silences' # 0
      BY <1>2, <1>4, PolicyAssumption DEF TypeOK
    <2>3. /\ counted.state = task[cur].state /\ counted.inputs = task[cur].inputs
          /\ counted.outputs = task[cur].outputs
      BY <1>2 DEF TaskInstance
    <2> HIDE DEF counted, ended
    <2>4. /\ \A u \in Task : /\ task'[u].state = task[u].state /\ task'[u].outputs = task[u].outputs
                             /\ task'[u].inputs = task[u].inputs
          /\ \A u \in Task : u # cur => task'[u] = task[u] /\ runs'[u] = runs[u]
      BY <1>2, <2>1, <2>3 DEF TypeOK
    <2>5. TableInv'
      BY <1>1, <1>2, <2>2, <2>4, TableFrame
    <2>6. Fed'
      BY <1>1, <1>2, <2>1, <2>4, FedFrame DEF CallInv, InExecute, InCall, Handing
    <2>7. CallInv'
      BY <1>1, <1>2, <2>1, <2>2, <2>6 DEF CallInv, Thrown, OneReady, Answering, Located
    <2>8. Recorded'
      <3>1. cur \notin served
        BY <1>2 DEF KeptInv, Recorded
      <3>2. \A u \in Task : u # cur => (HasSucceededRun(u)' <=> HasSucceededRun(u))
        BY <2>4 DEF HasSucceededRun
      <3>3. \A u \in served : u \in Task /\ runs'[u] = <<>> /\ db'[u].state = "succeeded"
        BY <1>1, <1>2, <2>4, <3>1 DEF KeptInv, Recorded, TypeOK
      <3> QED
        BY <1>1, <1>2, <2>1, <2>4, <3>1, <3>2, <3>3 DEF KeptInv, Recorded
    <2>9. InStore'
      BY <1>1, <1>2, <2>1, StoreFrame DEF KeptInv
    <2> QED
      BY <1>1, <1>2, <2>2, <2>5, <2>7, <2>8, <2>9 DEF ProvenanceInv, KeptInv, CacheSound
  <1> QED
    BY <1>3, <1>4 DEF OnTimeout

\* A cancellation feeds nobody either.
LEMMA FedCancel ==
    ASSUME Fed, Alike, UNCHANGED <<pc, job, cur>>,
           NEW t \in Task, NEW out, Written(t, "cancelled", out), task[t].state # "succeeded"
    PROVE  Fed'
  <1> SUFFICES ASSUME pc \in InExecute, NEW u \in Task, JobOf[u] = job
               PROVE  task'[u].inputs = IF Unfed(u)' THEN DeclaredInputs[u] ELSE ResolvedInputs(u)'
    BY DEF Fed
  <1>1. task'[u].inputs = task[u].inputs
    BY DEF Written
  <1>2. task[u].inputs = IF Unfed(u) THEN DeclaredInputs[u] ELSE ResolvedInputs(u)
    BY DEF Fed
  <1>3. CASE t \in Deps[u]
    <2>1. Unfed(u) /\ Unfed(u)'
      BY <1>3 DEF Unfed, Written, Alike
    <2> QED
      BY <1>1, <1>2, <2>1
  <1>4. CASE t \notin Deps[u]
    <2>1. \A d \in Deps[u] : d \in Task /\ d # t /\ db'[d] = db[d]
      BY <1>4, DepsAreOthers DEF Written
    <2>2. Unfed(u)' <=> Unfed(u)
      BY <2>1 DEF Unfed
    <2>3. ResolvedInputs(u)' = ResolvedInputs(u)
      BY <2>1, ResolvedStays
    <2> QED
      BY <1>1, <1>2, <2>2, <2>3
  <1> QED
    BY <1>3, <1>4

\* Another thread cancels a stage, wherever the scheduler is.
LEMMA CancelKeeps ==
    ASSUME SchedulerInv, ProvenanceInv, NEW t \in Task, Cancel(t)
    PROVE  ProvenanceInv'
  <1>1. /\ job # None /\ JobOf[t] = job
        /\ UNCHANGED <<saved, runs, cache, job, todo, cur, declared, produced, served, busy, left,
                       events, silences, lost, store>>
    BY DEF Cancel, TasksOf
  <1>2. /\ TypeOK /\ CoreInv /\ DepsInv /\ TableInv /\ CallInv /\ KeptInv /\ job \in saved
        /\ \A u \in Task : task[u].outputs \in Seq(Ref)
    BY <1>1, Context DEF CoreInv, JobInv
  <1>3. CASE UNCHANGED <<task, db, pc, outcome>>
    <2>1. TableInv'
      BY <1>1, <1>2, <1>3, TableFrame
    <2>2. Fed'
      <3>1. \A u \in Task : (Unfed(u)' <=> Unfed(u)) /\ ResolvedInputs(u)' = ResolvedInputs(u)
        BY <1>1, <1>3, ResolvedStays DEF Unfed
      <3> QED
        BY <1>1, <1>2, <1>3, <3>1 DEF CallInv, Fed
    <2>3. Delivering(Due(cur))' <=> Delivering(Due(cur))
      BY <1>1, <1>3 DEF Delivering, Due
    <2>4. CallInv'
      BY <1>1, <1>2, <1>3, <2>2, <2>3 DEF CallInv, Thrown, OneReady, Answering, Located, Due
    <2>5. Recorded' /\ InStore'
      BY <1>1, <1>2, <1>3, StoreFrame DEF KeptInv, Recorded, HasSucceededRun
    <2> QED
      BY <1>1, <1>2, <2>1, <2>4, <2>5 DEF ProvenanceInv, KeptInv, CacheSound
  <1>4. CASE /\ task[t].state \in {"pending", "running"}
             /\ Mark(t, [task[t] EXCEPT !.state = "cancelled"], pc)
    <2>1. "cancelled" \in Status /\ IsLegal(task[t].state, "cancelled")
      BY <1>4 DEF Status, IsLegal
    <2>2. Written(t, "cancelled", task[t].outputs) /\ pc' = pc /\ outcome' = outcome
      BY <1>2, <1>4, <2>1, MarkWrites
    <2>3. TableInv'
      BY <1>1, <1>2, <2>1, <2>2, TableWrite
    <2>4. Fed'
      BY <1>1, <1>2, <1>4, <2>2, FedCancel DEF CallInv, TableInv
    <2>5. pc \in {"hit", "await"} => Due(cur)' = Due(cur)
      <3>1. pc \in {"hit", "await"} => cur \in Task
        BY Context DEF InCall
      <3> QED
        BY <1>1, <2>2, <3>1 DEF Due, Written
    <2>6. pc = "await" => (Delivering(Due(cur))' <=> Delivering(Due(cur)))
      BY <1>1, <2>5 DEF Delivering
    <2>7. pc \in Handing /\ task'[cur].state = "succeeded" => task[cur].state = "succeeded"
      <3>1. pc \in Handing => cur \in Task
        BY Context DEF InCall, Handing
      <3> QED
        BY <1>1, <2>2, <3>1 DEF Written
    <2>8. CallInv'
      BY <1>1, <1>2, <2>2, <2>4, <2>5, <2>6, <2>7
      DEF CallInv, Thrown, OneReady, Answering, Located, Handing
    <2>9. db[t].state = task[t].state
      BY <1>2 DEF TableInv, Alike
    <2>10. Recorded'
      BY <1>1, <1>2, <1>4, <2>2, <2>9 DEF KeptInv, Recorded, HasSucceededRun, Written, TypeOK
    <2>11. InStore'
      BY <1>1, <1>2, <2>2, StoreFrame DEF KeptInv, Written
    <2> QED
      BY <1>1, <1>2, <2>3, <2>8, <2>10, <2>11 DEF ProvenanceInv, KeptInv, CacheSound
  <1> QED
    BY <1>3, <1>4 DEF Cancel

-----------------------------------------------------------------------------
(* The worker thread. *)

\* While no worker was given up, one is at work only when the scheduler awaits it.
LEMMA Working ==
    ASSUME SchedulerInv, ProvenanceInv, busy # None
    PROVE  /\ silences = 0 => /\ pc = "await" /\ busy = cur /\ Delivering(Due(cur))
                              /\ Due(cur) \in Seq(Ref) /\ Len(Due(cur)) \in Nat
           /\ busy \in Task /\ TypeOK /\ TableInv /\ CallInv /\ KeptInv
           /\ events \in Seq(WorkerEvent) /\ produced \in Seq(Ref) /\ left \in Seq(Ref)
           /\ Len(events) \in Nat /\ Len(produced) \in Nat /\ Len(left) \in Nat
  <1>1. TypeOK /\ TableInv /\ CallInv /\ KeptInv /\ busy \in Task
    BY Context DEF TypeOK
  <1>2. silences = 0 => pc = "await"
    BY <1>1 DEF CallInv, Answering
  <1>3. silences = 0 => /\ Delivering(Due(cur)) /\ Due(cur) \in Seq(Ref) /\ Len(Due(cur)) \in Nat
    BY <1>2, Taking
  <1> QED
    BY <1>1, <1>2, <1>3, QueueTypes DEF Delivering

\* A step of the worker changes what it delivers and the store, nothing else.
LEMMA WorkerFrame ==
    ASSUME TableInv, CallInv, KeptInv, UNCHANGED <<schedVars, envVars>>,
           silences = 0 => pc = "await" /\ Delivering(Due(cur))', InStore'
    PROVE  ProvenanceInv'
  <1>1. TableInv'
    BY TableFrame
  <1>2. Fed'
    <2>1. \A u \in Task : (Unfed(u)' <=> Unfed(u)) /\ ResolvedInputs(u)' = ResolvedInputs(u)
      BY ResolvedStays DEF Unfed
    <2> QED
      BY <2>1 DEF CallInv, Fed
  <1>3. CallInv'
    BY <1>2 DEF CallInv, Thrown, OneReady, Answering, Located, Due
  <1>4. Recorded' /\ CacheSound'
    BY DEF KeptInv, Recorded, HasSucceededRun, CacheSound
  <1> QED
    BY <1>1, <1>3, <1>4 DEF ProvenanceInv, KeptInv

LEMMA WorkerArtifactKeeps ==
    ASSUME SchedulerInv, ProvenanceInv, WorkerArtifact
    PROVE  ProvenanceInv'
  <1> DEFINE event == [task |-> busy, type |-> "artifact", ref |-> Head(left)]
  <1>1. /\ busy # None /\ left # <<>> /\ store' = store \cup {Head(left)}
        /\ events' = Append(events, event) /\ left' = Tail(left)
        /\ UNCHANGED <<schedVars, busy, envVars>>
    BY DEF WorkerArtifact
  <1>2. /\ busy \in Task /\ TypeOK /\ TableInv /\ CallInv /\ KeptInv
        /\ silences = 0 => /\ pc = "await" /\ busy = cur /\ Delivering(Due(cur))
                           /\ Due(cur) \in Seq(Ref) /\ Len(Due(cur)) \in Nat
        /\ events \in Seq(WorkerEvent) /\ produced \in Seq(Ref) /\ left \in Seq(Ref)
        /\ Len(events) \in Nat /\ Len(produced) \in Nat /\ Len(left) \in Nat
    BY <1>1, Working
  <1>3. /\ Len(left) \in Nat \ {0} /\ Head(left) = left[1] /\ left[1] \in Ref
        /\ Len(left') = Len(left) - 1 /\ \A i \in 1..Len(left') : left'[i] = left[i + 1]
    BY <1>1, <1>2, EmptySeq, HeadTailProperties, ElementOfSeq
  <1>4. event \in WorkerEvent /\ event.task = busy /\ event.type = "artifact" /\ event.ref = left[1]
    BY <1>2, <1>3 DEF WorkerEvent, EventType
  <1> HIDE DEF event
  <1>5. /\ Len(events') = Len(events) + 1 /\ events'[Len(events) + 1] = event
        /\ \A i \in 1..Len(events) : events'[i] = events[i]
    BY <1>1, <1>2, <1>4, AppendProperties
  <1> DEFINE due == Due(cur)
  <1>6. /\ due' = due
        /\ silences = 0 => Len(due) \in Nat /\ Delivering(due) /\ busy = cur
    BY <1>1, <1>2 DEF Due
  <1>7. ASSUME silences = 0
        PROVE  left[1] = due[Len(produced) + Len(events) + 1] /\ Len(produced) + Len(events) + Len(left) = Len(due)
    <2>1. 1 \in 1..Len(left) /\ busy # None
      BY <1>1, <1>3
    <2> HIDE DEF due
    <2> QED
      BY <1>6, <1>7, <2>1 DEF Delivering
  <1>8. \A s \in Task : Placeholder[s] # left[1]
    BY <1>2, <1>3 DEF KeptInv, InStore
  <1> HIDE DEF due
  <1>9. ASSUME silences = 0 PROVE Delivering(due)'
    <2>1. Len(produced') <= Len(due) /\ \A i \in 1..Len(produced') : produced'[i] = due[i]
      BY <1>1, <1>6, <1>9 DEF Delivering
    <2>2. ASSUME NEW i \in 1..Len(events')
          PROVE  /\ events'[i].task = cur /\ events'[i].type = "artifact"
                 /\ Len(produced) + i <= Len(due) /\ events'[i].ref = due[Len(produced) + i]
      <3>1. CASE i = Len(events) + 1
        <4>1. Len(produced) + i = Len(produced) + Len(events) + 1 /\ events'[i] = event
          BY <1>2, <1>5, <3>1
        <4> QED
          BY <1>2, <1>3, <1>4, <1>6, <1>7, <1>9, <4>1
      <3>2. CASE i # Len(events) + 1
        <4>1. i \in 1..Len(events) /\ events'[i] = events[i]
          BY <1>2, <1>5, <3>2
        <4> QED
          BY <1>1, <1>6, <1>9, <4>1 DEF Delivering
      <3> QED
        BY <3>1, <3>2
    <2>3. Len(produced) + Len(events') + Len(left') = Len(due)
      <3>1. /\ Len(produced) \in Nat /\ Len(events) \in Nat /\ Len(left) \in Nat
            /\ Len(events') = Len(events) + 1 /\ Len(left') = Len(left) - 1
        BY <1>2, <1>3, <1>5
      <3>2. Len(produced) + Len(events) + Len(left) = Len(produced) + Len(events') + Len(left')
        BY <3>1
      <3> QED
        BY <1>7, <1>9, <3>2
    <2>4. ASSUME NEW i \in 1..Len(left')
          PROVE  left'[i] = due[Len(produced) + Len(events') + i]
      <3>1. i + 1 \in 1..Len(left) /\ i \in Nat /\ left'[i] = left[i + 1]
        BY <1>3, <2>4
      <3>2. Len(produced) + Len(events) + (i + 1) = Len(produced) + Len(events') + i
        BY <1>2, <1>5, <3>1
      <3>3. left[i + 1] = due[Len(produced) + Len(events) + (i + 1)]
        BY <1>1, <1>6, <1>9, <3>1 DEF Delivering
      <3> QED
        BY <3>1, <3>2, <3>3
    <2> QED
      BY <1>1, <1>2, <1>6, <1>9, <2>1, <2>2, <2>3, <2>4 DEF Delivering
  <1>10. silences = 0 => pc = "await" /\ Delivering(Due(cur))'
    BY <1>2, <1>6, <1>9 DEF due
  <1>11. InStore'
    <2>1. lost = 0 => \A i \in 1..Len(events') : events'[i].type = "artifact" => events'[i].ref \in store'
      <3>1. ASSUME lost = 0, NEW i \in 1..Len(events'), events'[i].type = "artifact"
            PROVE  events'[i].ref \in store'
        <4>1. CASE i = Len(events) + 1
          BY <1>1, <1>3, <1>4, <1>5, <4>1
        <4>2. CASE i # Len(events) + 1
          <5>1. i \in 1..Len(events) /\ events'[i] = events[i]
            BY <1>2, <1>5, <4>2
          <5> QED
            BY <1>1, <1>2, <3>1, <5>1 DEF KeptInv, InStore
        <4> QED
          BY <4>1, <4>2
      <3> QED
        BY <3>1
    <2>2. \A i \in 1..Len(left') : i + 1 \in 1..Len(left) /\ left'[i] = left[i + 1]
      BY <1>3
    <2> QED
      BY <1>1, <1>2, <1>3, <1>8, <2>1, <2>2 DEF KeptInv, InStore
  <1> QED
    BY <1>1, <1>2, <1>10, <1>11, WorkerFrame

LEMMA WorkerTerminalKeeps ==
    ASSUME SchedulerInv, ProvenanceInv, NEW type \in EventType \ {"artifact"}, WorkerTerminal(type)
    PROVE  ProvenanceInv'
  <1> DEFINE event == [task |-> busy, type |-> type, ref |-> None]
  <1>1. /\ busy # None /\ (type = "completed" => left = <<>>)
        /\ events' = Append(events, event) /\ busy' = None /\ left' = <<>>
        /\ UNCHANGED <<schedVars, envVars, store>>
    BY DEF WorkerTerminal
  <1>2. /\ busy \in Task /\ TypeOK /\ TableInv /\ CallInv /\ KeptInv
        /\ silences = 0 => /\ pc = "await" /\ busy = cur /\ Delivering(Due(cur))
                           /\ Due(cur) \in Seq(Ref) /\ Len(Due(cur)) \in Nat
        /\ events \in Seq(WorkerEvent) /\ produced \in Seq(Ref) /\ left \in Seq(Ref)
        /\ Len(events) \in Nat /\ Len(produced) \in Nat /\ Len(left) \in Nat
    BY <1>1, Working
  <1>3. event \in WorkerEvent /\ event.task = busy /\ event.type = type
    BY <1>2 DEF WorkerEvent
  <1> HIDE DEF event
  <1>4. /\ Len(events') = Len(events) + 1 /\ events'[Len(events) + 1] = event /\ events' # <<>>
        /\ \A i \in 1..Len(events) : events'[i] = events[i]
    BY <1>1, <1>2, <1>3, AppendProperties
  <1> DEFINE due == Due(cur)
  <1>5. /\ due' = due
        /\ silences = 0 => Len(due) \in Nat /\ Delivering(due) /\ busy = cur
    BY <1>1, <1>2 DEF Due
  <1>6. silences = 0 /\ type = "completed" => Len(produced) + Len(events) = Len(due)
    <2>1. Len(<<>>) = 0
      OBVIOUS
    <2>2. silences = 0 => Len(produced) + Len(events) + Len(left) = Len(due)
      BY <1>1, <1>5 DEF Delivering
    <2> QED
      BY <1>1, <1>2, <2>1, <2>2
  <1> HIDE DEF due
  <1>7. ASSUME NEW i \in 1..Len(events')
        PROVE  \/ i = Len(events') /\ events'[i] = event
               \/ i \in 1..Len(events) /\ events'[i] = events[i] /\ i < Len(events')
    BY <1>2, <1>4
  <1>8. ASSUME silences = 0 PROVE Delivering(due)'
    <2>1. Len(produced') <= Len(due) /\ \A i \in 1..Len(produced') : produced'[i] = due[i]
      BY <1>1, <1>5, <1>8 DEF Delivering
    <2>2. ASSUME NEW i \in 1..Len(events')
          PROVE  /\ events'[i].task = cur
                 /\ i < Len(events') => events'[i].type = "artifact"
                 /\ events'[i].type = "artifact" => /\ Len(produced) + i <= Len(due)
                                                    /\ events'[i].ref = due[Len(produced) + i]
                 /\ events'[i].type = "completed" => Len(produced) + i = Len(due) + 1
      <3>1. CASE i = Len(events') /\ events'[i] = event
        <4>1. i \in Nat /\ i = Len(events) + 1
          BY <1>2, <1>4, <3>1
        <4>2. type = "completed" => Len(produced) + i = Len(due) + 1
          <5>1. Len(produced) \in Nat /\ Len(events) \in Nat
            BY <1>2
          <5> QED
            BY <1>6, <1>8, <4>1, <5>1
        <4> QED
          BY <1>3, <1>5, <1>8, <3>1, <4>1, <4>2
      <3>2. CASE i \in 1..Len(events) /\ events'[i] = events[i]
        BY <1>1, <1>5, <1>7, <1>8, <3>2 DEF Delivering
      <3> QED
        BY <1>7, <3>1, <3>2
    <2>3. events'[Len(events')].type # "artifact"
      BY <1>3, <1>4
    <2> QED
      BY <1>1, <1>4, <1>5, <1>8, <2>1, <2>2, <2>3 DEF Delivering
  <1>9. silences = 0 => pc = "await" /\ Delivering(Due(cur))'
    BY <1>2, <1>5, <1>8 DEF due
  <1>10. InStore'
    <2>1. lost = 0 => \A i \in 1..Len(events') : events'[i].type = "artifact" => events'[i].ref \in store
      BY <1>2, <1>3, <1>7 DEF KeptInv, InStore
    <2>2. 1..Len(left') = {}
      BY <1>1
    <2> QED
      BY <1>1, <1>2, <2>1, <2>2 DEF KeptInv, InStore
  <1> QED
    BY <1>1, <1>2, <1>9, <1>10, WorkerFrame

-----------------------------------------------------------------------------
(* Calls, deletions and the end of the process. *)

\* Between calls only the store changes.
LEMMA StoreKeeps ==
    ASSUME SchedulerInv, ProvenanceInv, pc \in {"idle", "returned"},
           UNCHANGED <<schedVars, execVars, silences>>,
           \A t \in Task : Placeholder[t] \notin store',
           lost' = 0 => lost = 0 /\ store \subseteq store'
    PROVE  ProvenanceInv'
  <1>1. TableInv /\ CallInv /\ KeptInv
    BY Context
  <1>2. TableInv'
    BY <1>1, TableFrame
  <1>3. CallInv'
    BY <1>1 DEF CallInv, Thrown, OneReady, Answering, Located, Fed, InExecute, InCall
  <1>4. Recorded' /\ CacheSound'
    BY <1>1 DEF KeptInv, Recorded, HasSucceededRun, CacheSound
  <1>5. InStore'
    BY <1>1 DEF KeptInv, InStore
  <1> QED
    BY <1>2, <1>3, <1>4, <1>5 DEF ProvenanceInv, KeptInv

LEMMA LoseKeeps ==
    ASSUME SchedulerInv, ProvenanceInv, NEW r \in Ref, LoseArtifact(r)
    PROVE  ProvenanceInv'
  <1>1. /\ pc \in {"idle", "returned"} /\ store' \subseteq store /\ lost' = lost + 1
        /\ UNCHANGED <<schedVars, execVars, silences>>
    BY DEF LoseArtifact
  <1>2. lost \in Nat /\ \A t \in Task : Placeholder[t] \notin store
    BY Context, PolicyAssumption DEF TypeOK, KeptInv, InStore
  <1>3. lost' # 0
    BY <1>1, <1>2
  <1> QED
    BY <1>1, <1>2, <1>3, StoreKeeps

\* Saving a plan changes no task: it is as the compiler built it.
LEMMA SavePlan ==
    ASSUME SchedulerInv, ProvenanceInv, NEW j \in Job, RunJob(j)
    PROVE  task' = task /\ db' = db
  <1>1. TypeOK /\ Untouched
    BY Context DEF TableInv
  <1>2. /\ j \notin saved
        /\ task' = [t \in Task |-> IF t \in TasksOf(j) THEN Fresh(t) ELSE task[t]]
        /\ db' = [t \in Task |-> IF t \in TasksOf(j) THEN Fresh(t) ELSE db[t]]
    BY DEF RunJob
  <1>3. \A t \in Task : (IF t \in TasksOf(j) THEN Fresh(t) ELSE task[t]) = task[t]
    BY <1>1, <1>2 DEF Untouched, TasksOf
  <1>4. \A t \in Task : (IF t \in TasksOf(j) THEN Fresh(t) ELSE db[t]) = db[t]
    BY <1>1, <1>2 DEF Untouched, TasksOf
  <1> QED
    BY <1>1, <1>2, <1>3, <1>4 DEF TypeOK

LEMMA RunJobKeeps ==
    ASSUME SchedulerInv, ProvenanceInv, NEW j \in Job, RunJob(j)
    PROVE  ProvenanceInv'
  <1>1. /\ pc \in {"idle", "returned"} /\ j \notin saved /\ saved' = saved \cup {j}
        /\ job' = j /\ pc' = "propagate" /\ task' = task /\ db' = db
        /\ UNCHANGED <<runs, cache, declared, produced, served, execVars, silences, crashes, cancels, lost, store>>
    BY SavePlan DEF RunJob, Begin
  <1>2. TableInv /\ CallInv /\ KeptInv
    BY Context
  <1>3. \A t \in Task : ResolvedInputs(t)' = ResolvedInputs(t)
    BY <1>1, ResolvedStays
  <1>4. \A t \in Task : JobOf[t] = j =>
            /\ task[t] = Fresh(t) /\ db[t] = Fresh(t) /\ runs[t] = <<>>
            /\ db[t].state = "pending" /\ task[t].inputs = DeclaredInputs[t]
    BY <1>1, <1>2, FreshFields DEF TableInv, Untouched
  <1>5. TableInv'
    <2>1. Alike' /\ Undelivered' /\ InOrder'
      BY <1>1, <1>2 DEF TableInv, Alike, Undelivered, InOrder
    <2>2. Untouched'
      BY <1>1, <1>2 DEF TableInv, Untouched, Fresh
    <2>3. Consuming'
      BY <1>1, <1>2, <1>3 DEF TableInv, Consuming
    <2>4. Made'
      BY <1>1, <1>2, <1>3, <1>4 DEF TableInv, Made, OutputsFaithful
    <2> QED
      BY <2>1, <2>2, <2>3, <2>4 DEF TableInv
  <1>6. Fed'
    <2> SUFFICES ASSUME NEW t \in Task, JobOf[t] = j
                 PROVE  task'[t].inputs = IF Unfed(t)' THEN DeclaredInputs[t] ELSE ResolvedInputs(t)'
      BY <1>1 DEF Fed
    <2>1. CASE Deps[t] = {}
      BY <1>1, <1>3, <1>4, <2>1, Resolved DEF Unfed
    <2>2. CASE Deps[t] # {}
      <3>1. PICK d \in Deps[t] : d \in Task /\ JobOf[d] = j
        BY <2>2, DepsAreOthers
      <3>2. Unfed(t)'
        BY <1>1, <1>4, <3>1 DEF Unfed
      <3> QED
        BY <1>1, <1>4, <3>2
    <2> QED
      BY <2>1, <2>2
  <1>7. CallInv'
    BY <1>1, <1>2, <1>6 DEF CallInv, Thrown, OneReady, Answering, Located, InCall
  <1>8. Recorded'
    BY <1>1, <1>2, <1>4 DEF KeptInv, Recorded, HasSucceededRun
  <1>9. InStore'
    BY <1>1, <1>2, StoreFrame DEF KeptInv
  <1> QED
    BY <1>1, <1>2, <1>5, <1>7, <1>8, <1>9 DEF ProvenanceInv, KeptInv, CacheSound

LEMMA DieKeeps ==
    ASSUME SchedulerInv, ProvenanceInv, Die
    PROVE  ProvenanceInv'
  <1>1. /\ task' = db /\ job' = None /\ pc' = "idle" /\ todo' = {} /\ busy' = None /\ events' = <<>>
        /\ left' = <<>>
        /\ UNCHANGED <<db, saved, runs, cache, served, silences, lost, store>>
    BY DEF Die
  <1>2. TableInv /\ CallInv /\ KeptInv
    BY Context
  <1>3. \A t \in Task : ResolvedInputs(t)' = ResolvedInputs(t)
    BY <1>1, ResolvedStays
  <1>4. TableInv'
    <2>1. Alike' /\ Undelivered' /\ InOrder'
      BY <1>1, <1>2 DEF TableInv, Alike, Undelivered, InOrder
    <2>2. Untouched'
      BY <1>1, <1>2 DEF TableInv, Untouched, Fresh
    <2>3. Consuming' /\ Made'
      BY <1>1, <1>2, <1>3 DEF TableInv, Consuming, Made, OutputsFaithful, Alike
    <2> QED
      BY <2>1, <2>2, <2>3 DEF TableInv
  <1>5. CallInv'
    BY <1>1 DEF CallInv, Thrown, OneReady, Answering, Located, Fed, InExecute, InCall
  <1>6. Recorded'
    BY <1>1, <1>2, GraphAssumption, NoneAssumption DEF KeptInv, Recorded, HasSucceededRun
  <1>7. InStore'
    BY <1>1, <1>2, StoreFrame DEF KeptInv
  <1> QED
    BY <1>1, <1>2, <1>4, <1>5, <1>6, <1>7 DEF ProvenanceInv, KeptInv, CacheSound

\* A transition that a Cancel made illegal, and the submissions it prevents.
LEMMA CancelledIsStuck ==
    /\ "running" \in Status /\ "succeeded" \in Status /\ "failed" \in Status /\ "cancelled" \in Status
    /\ \A s : /\ IsLegal(s, "running") <=> s = "pending"
              /\ s = "cancelled" => /\ ~IsLegal(s, "succeeded") /\ ~IsLegal(s, "failed")
                                    /\ ~IsLegal(s, "cancelled")
  BY DEF IsLegal, Status

LEMMA TryCacheHitAnyway ==
    ASSUME SchedulerInv, ProvenanceInv, NEW t \in Task, TryCacheHit(t)
    PROVE  ProvenanceInv'
  <1>1. CASE IsLegal(task[t].state, "running")
    BY <1>1, TryCacheHitKeeps
  <1>2. CASE ~IsLegal(task[t].state, "running")
    <2>1. /\ pc = "dispatch" /\ Mark(t, [task[t] EXCEPT !.state = "running"], "hit")
          /\ UNCHANGED <<saved, runs, cache, job, served, execVars, silences, lost, store>>
      BY DEF TryCacheHit
    <2>2. silences = 0 => busy = None /\ events = <<>>
      BY <2>1, Context DEF CallInv, Answering
    <2> QED
      BY <1>2, <2>1, <2>2, CancelledIsStuck, RefusedKeeps DEF InExecute
  <1> QED
    BY <1>1, <1>2

\* A dispatch, first or repeated, of a task that is still pending or not any more.
LEMMA DispatchAnyway ==
    ASSUME SchedulerInv, ProvenanceInv, NEW t \in Task, JobOf[t] = job,
           pc = "dispatch" \/ (pc = "redispatch" /\ t = cur),
           \A d \in Deps[t] : db[d].state = "succeeded", todo' = {},
           MarkRunningAndSubmit(t),
           UNCHANGED <<saved, runs, cache, job, iter, progressed, declared, retryable, served,
                       envVars, store>>
    PROVE  ProvenanceInv'
  <1>1. CASE task[t].state = "pending"
    BY <1>1, SubmitKeeps
  <1>2. CASE task[t].state # "pending"
    <2>1. ~IsLegal(task[t].state, "running")
      BY <1>2, CancelledIsStuck
    <2>2. Mark(t, [task[t] EXCEPT !.state = "running"], "await") /\ UNCHANGED execVars
      BY <2>1 DEF MarkRunningAndSubmit
    <2>3. silences = 0 => busy = None /\ events = <<>>
      BY Context DEF CallInv, Answering
    <2> QED
      BY <1>2, <2>1, <2>2, <2>3, CancelledIsStuck, RefusedKeeps DEF InExecute, InCall
  <1> QED
    BY <1>1, <1>2

LEMMA FinishCacheHitAnyway ==
    ASSUME SchedulerInv, ProvenanceInv, FinishCacheHit
    PROVE  ProvenanceInv'
  <1>1. /\ pc = "hit"
        /\ Mark(cur, [task[cur] EXCEPT !.state = "succeeded", !.outputs = produced], "thread")
        /\ served' = IF task[cur].state = "running" THEN served \cup {cur} ELSE served
        /\ UNCHANGED <<saved, runs, cache, job, execVars, silences, lost, store>>
    BY DEF FinishCacheHit
  <1>2. cur \in Task /\ task[cur].state \in {"running", "cancelled"}
    BY <1>1, Context DEF InCall, StateAt
  <1>3. CASE task[cur].state = "cancelled"
    <2>1. silences = 0 => busy = None /\ events = <<>>
      BY <1>1, Context DEF CallInv, Answering
    <2> QED
      BY <1>1, <1>2, <1>3, <2>1, CancelledIsStuck, RefusedKeeps DEF InExecute, InCall
  <1> QED
    BY <1>2, <1>3, FinishCacheHitKeeps

LEMMA MarkFailedAnyway ==
    ASSUME SchedulerInv, ProvenanceInv, MarkFailed
    PROVE  ProvenanceInv'
  <1>1. /\ pc = "markFailed"
        /\ \E next : Mark(cur, [task[cur] EXCEPT !.state = "failed"], next)
        /\ UNCHANGED <<saved, runs, cache, job, served, execVars, silences, lost, store>>
    BY DEF MarkFailed
  <1>2. cur \in Task /\ task[cur].state \in {"running", "cancelled"}
    BY <1>1, Context DEF InCall, StateAt
  <1>3. CASE task[cur].state = "cancelled"
    <2>1. silences = 0 => busy = None /\ events = <<>>
      BY <1>1, Context DEF CallInv, Answering
    <2> QED
      BY <1>1, <1>2, <1>3, <2>1, CancelledIsStuck, RefusedKeeps DEF InExecute, InCall
  <1> QED
    BY <1>2, <1>3, MarkFailedKeeps

\* The end of an attempt comes after its task was cancelled.
LEMMA OnTerminalAnyway ==
    ASSUME SchedulerInv, ProvenanceInv, OnCompleted \/ OnCancelled
    PROVE  ProvenanceInv'
  <1>1. /\ pc = "await" /\ events # <<>> /\ events' = Tail(events)
        /\ Head(events).type # "artifact"
        /\ UNCHANGED <<saved, runs, cache, job, served, busy, left, silences, lost, store>>
    BY DEF OnCompleted, OnCancelled, Consume
  <1>2. cur \in Task /\ task[cur].state \in {"running", "cancelled"}
    BY <1>1, Context DEF InCall, StateAt
  <1>3. CASE task[cur].state = "cancelled"
    <2>1. Queued
      BY <1>1, Context, TailQueued
    <2>2. silences = 0 => busy' = None /\ events' = <<>>
      BY <1>1, TerminalLast
    <2>3. PICK s \in {"succeeded", "cancelled"} :
              \E out, next : Mark(cur, [task[cur] EXCEPT !.state = s, !.outputs = out], next)
      BY DEF OnCompleted, OnCancelled
    <2>4. s \in Status /\ ~IsLegal(task[cur].state, s)
      BY <1>3, CancelledIsStuck
    <2> QED
      BY <1>1, <1>2, <2>1, <2>2, <2>3, <2>4, RefusedKeeps DEF InExecute, InCall
  <1> QED
    BY <1>2, <1>3, OnCompletedKeeps, OnCancelledKeeps

\* What happens while a call of Run is in progress.
LEMMA CallKeeps ==
    ASSUME SchedulerInv, ProvenanceInv,
           SchedulerStep \/ OnTimeout \/ WorkerStep \/ \E t \in Task : Cancel(t)
    PROVE  ProvenanceInv'
  <1>1. ASSUME NEW t \in Task, Dispatch(t) PROVE ProvenanceInv'
    <2>1. /\ pc = "dispatch" /\ t \in todo /\ todo' = todo \ {t} /\ MarkRunningAndSubmit(t)
          /\ UNCHANGED <<saved, runs, cache, job, iter, progressed, declared, retryable, served,
                         envVars, store>>
      BY <1>1 DEF Dispatch
    <2>2. JobOf[t] = job /\ todo = {t} /\ \A d \in Deps[t] : db[d].state = "succeeded"
      BY <2>1, Context
    <2> QED
      BY <2>1, <2>2, DispatchAnyway
  <1>2. ASSUME Redispatch PROVE ProvenanceInv'
    <2>1. /\ pc = "redispatch" /\ todo' = todo /\ MarkRunningAndSubmit(cur)
          /\ UNCHANGED <<saved, runs, cache, job, iter, progressed, declared, retryable, served,
                         envVars, store>>
      BY <1>2 DEF Redispatch
    <2>2. /\ cur \in Task /\ JobOf[cur] = job /\ todo = {}
          /\ \A d \in Deps[cur] : db[d].state = "succeeded"
      BY <2>1, Context DEF InCall
    <2> QED
      BY <2>1, <2>2, DispatchAnyway
  <1>3. CASE SchedulerStep
    BY <1>1, <1>2, <1>3, PropagateKeeps, DropStaleKeeps, TryCacheHitAnyway, EndPassKeeps,
       TakeSnapshotKeeps, EndIterationKeeps, FinishCacheHitAnyway, OnArtifactKeeps,
       OnTerminalAnyway, OnFailedKeeps, MarkFailedAnyway, RetryKeeps, StoreOutputKeeps,
       RecordRunKeeps, ThreadKeeps
    DEF SchedulerStep
  <1>4. CASE WorkerStep
    BY <1>4, WorkerArtifactKeeps, WorkerTerminalKeeps DEF WorkerStep
  <1> QED
    BY <1>3, <1>4, OnTimeoutKeeps, CancelKeeps

-----------------------------------------------------------------------------
(* A call of Run and the plans it does not run. *)

\* Whatever the step does, it does to the active job.
Elsewhere ==
    \A u \in Task : JobOf[u] # job =>
        /\ task'[u] = task[u] /\ db'[u] = db[u] /\ runs'[u] = runs[u]
        /\ u \in served' <=> u \in served

CallFrame ==
    /\ pc \in InExecute \cup {"aborted"} /\ pc' # "idle"
    /\ pc' = "returned" => pc \in {"propagate", "dispatch"} /\ UNCHANGED <<task, db, runs, served>>
    /\ job' = job \/ pc' = "returned"
    /\ UNCHANGED <<saved, crashes, lost>>
    /\ raced \subseteq raced'
    /\ silences' = silences \/ silences' > 0
    /\ served \subseteq served'
    /\ Elsewhere

LEMMA MarkFrame ==
    ASSUME TypeOK, NEW t \in Task, NEW instance, NEW next, Mark(t, instance, next)
    PROVE  /\ \A u \in Task : u # t => task'[u] = task[u] /\ db'[u] = db[u]
           /\ pc' \in {next, "aborted"}
  BY DEF Mark, TypeOK

\* A step that writes one task of the active job.
LEMMA OneTaskFrame ==
    ASSUME NEW t \in Task, JobOf[t] = job,
           \A u \in Task : u # t => /\ task'[u] = task[u] /\ db'[u] = db[u] /\ runs'[u] = runs[u]
                                    /\ u \in served' <=> u \in served
    PROVE  Elsewhere
  BY DEF Elsewhere

LEMMA SubmitFrame ==
    ASSUME TypeOK, NEW t \in Task, JobOf[t] = job, MarkRunningAndSubmit(t),
           UNCHANGED <<runs, served>>
    PROVE  Elsewhere /\ pc' \in {"await", "aborted"}
  <1>1. /\ \A u \in Task : u # t => task'[u] = task[u] /\ db'[u] = db[u]
        /\ pc' \in {"await", "aborted"}
    BY DEF MarkRunningAndSubmit, Mark, TypeOK
  <1> QED
    BY <1>1, OneTaskFrame

LEMMA CallFrames ==
    ASSUME SchedulerInv, ProvenanceInv, SchedulerStep \/ OnTimeout \/ \E t \in Task : Cancel(t)
    PROVE  CallFrame
  <1>1. TypeOK
    BY Context
  <1>2. pc \in InCall => cur \in Task /\ JobOf[cur] = job
    BY Context
  <1>3. ASSUME UNCHANGED <<task, db, runs, served>> PROVE Elsewhere
    BY <1>3 DEF Elsewhere
  <1>4. ASSUME NEW t \in Task,
               PropagateFailures(t) \/ DropStaleEntry(t) \/ TryCacheHit(t) \/ Dispatch(t)
        PROVE  CallFrame
    <2>1. /\ pc \in {"propagate", "dispatch"} /\ t \in todo /\ job' = job
          /\ UNCHANGED <<runs, served, saved, crashes, lost, raced, silences>>
      BY <1>4 DEF PropagateFailures, DropStaleEntry, TryCacheHit, Dispatch
    <2>2. JobOf[t] = job
      BY <2>1, Context DEF CoreInv, TodoInv, InExecute
    <2>3. CASE UNCHANGED <<task, db, pc>>
      BY <1>3, <2>1, <2>3 DEF CallFrame, InExecute
    <2>4. CASE \E instance : \E next \in {"propagate", "hit"} : Mark(t, instance, next)
      BY <1>1, <2>1, <2>2, <2>4, MarkFrame, OneTaskFrame DEF CallFrame, InExecute
    <2>5. CASE MarkRunningAndSubmit(t)
      BY <1>1, <2>1, <2>2, <2>5, SubmitFrame DEF CallFrame, InExecute
    <2> QED
      BY <1>4, <2>3, <2>4, <2>5 DEF PropagateFailures, DropStaleEntry, TryCacheHit, Dispatch
  <1>5. ASSUME EndPass \/ TakeSnapshot \/ EndIteration PROVE CallFrame
    <2>1. /\ pc \in {"propagate", "ready", "dispatch"} /\ pc' # "idle"
          /\ pc' = "returned" => pc # "ready"
          /\ job' = job \/ pc' = "returned"
          /\ UNCHANGED <<task, db, runs, served, saved, crashes, lost, raced, silences>>
      BY <1>5 DEF EndPass, TakeSnapshot, EndIteration
    <2> QED
      BY <1>3, <2>1 DEF CallFrame, InExecute
  <1>6. ASSUME FinishCacheHit \/ OnCompleted \/ OnCancelled \/ MarkFailed \/ Retry PROVE CallFrame
    <2>1. /\ pc \in InCall /\ job' = job /\ UNCHANGED <<runs, saved, crashes, lost, raced, silences>>
          /\ served' \in {served, served \cup {cur}}
      BY <1>6 DEF FinishCacheHit, OnCompleted, OnCancelled, MarkFailed, Retry, Consume, InCall
    <2>2. \E instance : \E next \in InExecute : Mark(cur, instance, next)
      BY <1>6 DEF FinishCacheHit, OnCompleted, OnCancelled, MarkFailed, Retry, InExecute, InCall
    <2>3. /\ \A u \in Task : u # cur => task'[u] = task[u] /\ db'[u] = db[u]
          /\ pc' \in InExecute \cup {"aborted"}
      BY <1>1, <1>2, <2>1, <2>2, MarkFrame
    <2>4. Elsewhere
      BY <1>2, <2>1, <2>3, OneTaskFrame
    <2> QED
      BY <2>1, <2>3, <2>4 DEF CallFrame, InExecute, InCall
  <1>7. ASSUME OnArtifact \/ StoreOutput PROVE CallFrame
    <2>1. /\ pc \in InCall /\ pc' \in InCall /\ job' = job
          /\ UNCHANGED <<task, db, runs, served, saved, crashes, lost, raced, silences>>
      BY <1>7 DEF OnArtifact, StoreOutput, InCall
    <2> QED
      BY <1>3, <2>1 DEF CallFrame, InExecute, InCall
  <1>8. ASSUME NEW recoverable \in BOOLEAN, OnFailed(recoverable) PROVE CallFrame
    <2>1. /\ pc = "await" /\ pc' = "markFailed" /\ job' = job
          /\ UNCHANGED <<db, served, saved, crashes, lost, raced, silences>>
      BY <1>8 DEF OnFailed, Consume, Failed
    <2>2. \A u \in Task : u # cur => task'[u] = task[u] /\ runs'[u] = runs[u]
      BY <1>1, <1>8 DEF OnFailed, Failed, TypeOK
    <2> QED
      BY <1>2, <2>1, <2>2, OneTaskFrame DEF CallFrame, InExecute, InCall
  <1>9. ASSUME Redispatch PROVE CallFrame
    <2>1. /\ pc = "redispatch" /\ job' = job /\ MarkRunningAndSubmit(cur)
          /\ UNCHANGED <<runs, served, saved, crashes, lost, raced, silences>>
      BY <1>9 DEF Redispatch
    <2> QED
      BY <1>1, <1>2, <2>1, SubmitFrame DEF CallFrame, InExecute, InCall
  <1>10. ASSUME RecordRun PROVE CallFrame
    <2>1. /\ pc = "record" /\ pc' \in {"thread", "dispatch"} /\ job' = job
          /\ UNCHANGED <<task, db, served, saved, crashes, lost, raced, silences>>
      BY <1>10 DEF RecordRun
    <2>2. \A u \in Task : u # cur => runs'[u] = runs[u]
      BY <1>1, <1>10 DEF RecordRun, TypeOK
    <2> QED
      BY <1>2, <2>1, <2>2, OneTaskFrame DEF CallFrame, InExecute, InCall
  <1>11. ASSUME ThreadOutputsToDependents PROVE CallFrame
    <2>1. /\ pc = "thread" /\ pc' = "dispatch" /\ job' = job
          /\ UNCHANGED <<db, runs, served, saved, crashes, lost, raced, silences>>
          /\ \A u \in Task : cur \notin Deps[u] => task'[u] = task[u]
      BY <1>11 DEF ThreadOutputsToDependents
    <2>2. \A u \in Task : cur \in Deps[u] => JobOf[u] = job
      BY <1>2, <2>1, DepsAreOthers DEF InCall
    <2> QED
      BY <2>1, <2>2 DEF CallFrame, Elsewhere, InExecute, InCall
  <1>12. ASSUME NEW t \in Task, Cancel(t) PROVE CallFrame
    <2>1. /\ job # None /\ JobOf[t] = job /\ job' = job /\ raced \subseteq raced'
          /\ UNCHANGED <<runs, served, saved, crashes, lost, silences>>
      BY <1>12 DEF Cancel, TasksOf
    <2>2. pc \in InExecute \cup {"aborted"}
      <3>1. pc \notin {"idle", "returned"} /\ pc \in Location
        BY <1>1, <2>1, Context DEF CoreInv, JobInv, TypeOK
      <3> QED
        BY <3>1 DEF Location, InExecute, InCall
    <2>3. UNCHANGED <<task, db, pc>> \/ \E instance : Mark(t, instance, pc)
      BY <1>12 DEF Cancel
    <2>4. CASE UNCHANGED <<task, db, pc>>
      BY <1>3, <2>1, <2>2, <2>4 DEF CallFrame, InExecute, InCall
    <2>5. CASE \E instance : Mark(t, instance, pc)
      BY <1>1, <2>1, <2>2, <2>5, MarkFrame, OneTaskFrame DEF CallFrame, InExecute, InCall
    <2> QED
      BY <2>3, <2>4, <2>5
  <1>13. ASSUME OnTimeout PROVE CallFrame
    <2>1. /\ pc = "await" /\ job' = job /\ UNCHANGED <<db, served, saved, crashes, lost, raced>>
          /\ pc' = pc \/ pc' = "markFailed"
          /\ silences' \in {silences, silences + 1}
      BY <1>13 DEF OnTimeout, Failed
    <2>2. silences' = silences \/ silences' > 0
      BY <1>1, <2>1, PolicyAssumption DEF TypeOK
    <2>3. \A u \in Task : u # cur => task'[u] = task[u] /\ runs'[u] = runs[u]
      BY <1>1, <1>13 DEF OnTimeout, Failed, TypeOK
    <2> QED
      BY <1>2, <2>1, <2>2, <2>3, OneTaskFrame DEF CallFrame, InExecute, InCall
  <1> QED
    BY <1>4, <1>5, <1>6, <1>7, <1>8, <1>9, <1>10, <1>11, <1>12, <1>13 DEF SchedulerStep

-----------------------------------------------------------------------------
(* The engine: its loops and what it shows of a task. *)

\* A plan has a last stage.
LEMMA LastStage ==
    ASSUME NEW j \in Job
    PROVE  LastOf(TasksOf(j)) \in TasksOf(j) /\ LastOf(TasksOf(j)) \in Task /\ JobOf[LastOf(TasksOf(j))] = j
  <1>1. \E t \in TasksOf(j) : \A s \in TasksOf(j) : Rank[s] <= Rank[t]
    BY PlanAssumption
  <1>2. LastOf(TasksOf(j)) \in TasksOf(j)
    BY <1>1, Zenon DEF LastOf
  <1> QED
    BY <1>2 DEF TasksOf

\* A loop over the stages visits them in order.
LEMMA FirstStage ==
    ASSUME NEW S \in SUBSET Task, S # {}
    PROVE  FirstOf(S) \in S /\ \A s \in S : Rank[FirstOf(S)] <= Rank[s]
  <1> DEFINE R == {Rank[t] : t \in S}
  <1>1. R \subseteq Nat /\ R # {}
    BY AcyclicAssumption
  <1>2. PICK n \in R : \A m \in R : ~(<<m, n>> \in OpToRel(<, Nat))
    BY <1>1, NatLessThanWellFounded, WFMin
  <1>3. \A m \in R : m \in Nat /\ n \in Nat /\ ~(m < n)
    BY <1>1, <1>2 DEF OpToRel
  <1>4. PICK t \in S : Rank[t] = n
    BY <1>2
  <1>5. \A s \in S : Rank[t] <= Rank[s]
    <2> SUFFICES ASSUME NEW s \in S PROVE Rank[t] <= Rank[s]
      OBVIOUS
    <2>1. Rank[s] \in R
      OBVIOUS
    <2> HIDE DEF R
    <2> QED
      BY <1>3, <1>4, <2>1
  <1> QED
    BY <1>5, Zenon DEF FirstOf

\* What the engine reads of the scheduler's state.
SameView ==
    /\ \A t \in Task : Mirrored(t)' = Mirrored(t)
    /\ \A j \in Job : AggregateStatus(j)' = AggregateStatus(j)
    /\ \A t \in Task : HasSucceededRun(t)' <=> HasSucceededRun(t)

LEMMA ViewFrame ==
    ASSUME \A t \in Task : task'[t].state = task[t].state /\ task'[t].outputs = task[t].outputs,
           runs' = runs
    PROVE  SameView
  <1>1. \A t \in Task : Mirrored(t)' = Mirrored(t)
    BY DEF Mirrored
  <1>2. \A j \in Job : AggregateStatus(j)' = AggregateStatus(j)
    BY DEF AggregateStatus, TasksOf
  <1>3. \A t \in Task : HasSucceededRun(t)' <=> HasSucceededRun(t)
    BY DEF HasSucceededRun
  <1> QED
    BY <1>1, <1>2, <1>3 DEF SameView

LEMMA MirroredType ==
    ASSUME TypeOK, NEW t \in Task
    PROVE  Mirrored(t) \in StageRow /\ Mirrored(t) # None
  <1>1. task[t].state \in Status /\ task[t].outputs \in Seq(Ref) /\ <<>> \in Seq(Ref)
    <2>1. task[t] \in TaskInstance
      BY DEF TypeOK
    <2>2. task[t].state \in Status /\ task[t].outputs \in Seq(Ref)
      BY <2>1 DEF TaskInstance
    <2> QED
      BY <2>2, EmptySeq
  <1>2. (IF task[t].state = "succeeded" THEN task[t].outputs ELSE <<>>) \in Seq(Ref)
    BY <1>1
  <1>3. (task[t].state = "succeeded" /\ runs[t] = <<>>) \in BOOLEAN
    OBVIOUS
  <1>4. Mirrored(t) \in StageRow
    BY <1>1, <1>2, <1>3 DEF Mirrored, StageRow
  <1> QED
    BY <1>4, NoRowAssumption

LEMMA AnnouncedType == Announced \in StageRow /\ Announced # None
  <1>1. <<>> \in Seq(Ref) /\ "pending" \in Status
    BY EmptySeq DEF Status
  <1>2. Announced \in StageRow
    BY <1>1 DEF Announced, StageRow
  <1> QED
    BY <1>2, NoRowAssumption

\* What holds whenever the engine is at work on a plan.
LEMMA AtWork ==
    ASSUME EngineInv
    PROVE  /\ SchedulerInv /\ ProvenanceInv /\ TypeOK /\ TableInv /\ CallInv /\ KeptInv /\ EngineTypeOK
           /\ Steps /\ Opened /\ Mirroring /\ Accounted /\ HitMeansServed /\ Closed
           /\ step # "idle" => plan \in Job
           /\ step # "run" => pc \in {"idle", "returned"} /\ job = None
           /\ \A t \in Task : JobOf[t] \in Job /\ JobOf[t] # None
           /\ pc \in {"idle", "returned"} <=> job = None
  <1>1. /\ SchedulerInv /\ ProvenanceInv /\ EngineTypeOK
        /\ Steps /\ Opened /\ Mirroring /\ Accounted /\ HitMeansServed /\ Closed
    BY DEF EngineInv, PlanInv
  <1>2. TypeOK /\ TableInv /\ CallInv /\ KeptInv
    BY <1>1, Context
  <1>3. step # "idle" => plan \in Job
    BY <1>1 DEF Steps, EngineTypeOK
  <1>4. pc \in {"idle", "returned"} <=> job = None
    BY <1>1, Context DEF CoreInv, JobInv
  <1>5. step # "run" => pc \in {"idle", "returned"} /\ job = None
    BY <1>1, <1>4 DEF Steps
  <1>6. \A t \in Task : JobOf[t] \in Job /\ JobOf[t] # None
    <2>1. \A t \in Task : JobOf[t] \in Job
      BY GraphAssumption
    <2>2. None \notin Job
      BY NoneAssumption
    <2> QED
      BY <2>1, <2>2
  <1> QED
    BY <1>1, <1>2, <1>3, <1>4, <1>5, <1>6

\* A step of the engine itself.
LEMMA QuietStep ==
    ASSUME EngineInv, UNCHANGED vars
    PROVE  SchedulerInv' /\ ProvenanceInv' /\ TypeOK' /\ SameView
  <1>1. SchedulerInv /\ ProvenanceInv /\ TypeOK /\ TableInv /\ CallInv /\ KeptInv
    BY AtWork
  <1>2. SchedulerInv'
    BY <1>1, StepInv
  <1>3. TableInv'
    BY <1>1, TableFrame
  <1>4. Fed'
    <2>1. CASE pc \in InExecute
      BY <1>1, <2>1, FedFrame DEF CallInv
    <2>2. CASE pc \notin InExecute
      BY <2>2 DEF Fed
    <2> QED
      BY <2>1, <2>2
  <1>5. Delivering(Due(cur))' <=> Delivering(Due(cur))
    BY DEF Delivering, Due
  <1>6. CallInv'
    BY <1>1, <1>4, <1>5 DEF CallInv, Thrown, OneReady, Answering, Located, Due
  <1>7. KeptInv'
    BY <1>1 DEF KeptInv, CacheSound, Recorded, HasSucceededRun, InStore
  <1>8. SameView
    BY ViewFrame
  <1> QED
    BY <1>2, <1>3, <1>6, <1>7, <1>8 DEF ProvenanceInv, SchedulerInv

-----------------------------------------------------------------------------
(* The steps of RunPipeline. *)

\* The command registers its inputs.
LEMMA RunCommandStep ==
    ASSUME EngineInv, NEW j \in Job, RunCommand(j)
    PROVE  EngineInv'
  <1>1. /\ step = "idle" /\ step' = "begin" /\ plan' = j /\ j \notin saved /\ manifest[j] = None
        /\ pc \in {"idle", "returned"} /\ store' = store \cup External(j)
        /\ UNCHANGED <<schedVars, execVars, envVars, manifest, stage, turn>>
    BY DEF RunCommand
  <1>2. /\ SchedulerInv /\ ProvenanceInv /\ TypeOK /\ KeptInv /\ EngineTypeOK
        /\ Steps /\ Opened /\ Mirroring /\ Accounted /\ HitMeansServed /\ Closed
    BY AtWork
  <1>3. plan = None /\ turn = {} /\ plan \notin Job /\ j # None
    BY <1>1, <1>2, NoneAssumption DEF Steps
  <1>4. SameView
    BY <1>1, ViewFrame
  <1>5. TypeOK'
    <2>1. \A t \in Task : DeclaredInputs[t] \subseteq Ref
      BY RefAssumption
    <2>2. External(j) \subseteq Ref
      BY <2>1 DEF External, TasksOf
    <2> QED
      BY <1>1, <1>2, <2>2 DEF TypeOK
  <1>6. SchedulerInv'
    <2>1. TypeOK /\ CoreInv /\ QuietInv /\ OutcomeInv
      BY <1>2, InvSplit
    <2>2. CoreInv'
      BY <1>1, <2>1, FrameStep
    <2>3. QuietInv' /\ OutcomeInv'
      BY <1>1, <2>1 DEF QuietInv, OutcomeInv, ThrowsExplained
    <2> QED
      BY <1>5, <2>2, <2>3, InvSplitNext
  <1>7. ProvenanceInv'
    <2>1. \A t \in Task : Placeholder[t] \notin store'
      BY <1>1, <1>2, ContentAssumption DEF KeptInv, InStore
    <2> QED
      BY <1>1, <1>2, <2>1, StoreKeeps
  <1>8. EngineTypeOK'
    BY <1>1, <1>2, <1>5 DEF EngineTypeOK
  <1>9. Steps'
    BY <1>1, <1>2, <1>3 DEF Steps
  <1>10. Opened'
    BY <1>1, <1>2 DEF Opened
  <1>11. Mirroring'
    BY <1>1, <1>2, <1>4 DEF Mirroring, Shown, SameView, TasksOf
  <1>12. Accounted' /\ HitMeansServed'
    BY <1>1, <1>2 DEF Accounted, HitMeansServed
  <1>13. Closed'
    BY <1>1, <1>2, <1>3, <1>4 DEF Closed, SameView
  <1> QED
    BY <1>6, <1>7, <1>8, <1>9, <1>10, <1>11, <1>12, <1>13 DEF EngineInv, PlanInv

LEMMA BeginManifestStep ==
    ASSUME EngineInv, BeginManifest
    PROVE  EngineInv'
  <1> DEFINE row == [status |-> "running", report |-> None]
  <1>1. /\ step = "begin" /\ step' = "stages" /\ turn' = TasksOf(plan)
        /\ manifest' = [manifest EXCEPT ![plan] = row]
        /\ UNCHANGED <<vars, stage, plan>>
    BY DEF BeginManifest
  <1>2. /\ EngineTypeOK /\ Steps /\ Opened /\ Mirroring /\ HitMeansServed /\ Closed
        /\ plan \in Job
    BY <1>1, AtWork
  <1>3. SchedulerInv' /\ ProvenanceInv' /\ TypeOK' /\ SameView
    BY <1>1, QuietStep
  <1>4. row \in Manifest /\ row # None
    <2>1. row \in Manifest
      BY DEF Manifest
    <2> QED
      BY <2>1, NoRowAssumption
  <1>5. row.status = "running" /\ row.report = None
    OBVIOUS
  <1>6. manifest'[plan] = row /\ \A j \in Job : j # plan => manifest'[j] = manifest[j]
    BY <1>1, <1>2 DEF EngineTypeOK
  <1>7. EngineTypeOK'
    BY <1>1, <1>2, <1>3, <1>4 DEF EngineTypeOK, TasksOf
  <1>8. Steps'
    BY <1>1, <1>2 DEF Steps, TasksOf
  <1>9. Opened'
    <2>1. \A t \in Task : JobOf[t] \in Job
      BY AtWork, GraphAssumption
    <2> QED
      BY <1>1, <1>2, <1>4, <1>5, <1>6, <2>1 DEF Opened, TasksOf
  <1>10. Mirroring'
    BY <1>1, <1>2, <1>3, <1>5, <1>6 DEF Mirroring, Shown, SameView, TasksOf
  <1>11. Accounted' /\ HitMeansServed'
    BY <1>1, <1>2 DEF Accounted, HitMeansServed
  <1> HIDE DEF row
  <1>12. Closed'
    BY <1>1, <1>2, <1>3, <1>5, <1>6 DEF Closed, SameView
  <1> QED
    BY <1>3, <1>7, <1>8, <1>9, <1>10, <1>11, <1>12 DEF EngineInv, PlanInv

\* The turn of a stage in one of the two loops.
LEMMA TurnStep ==
    ASSUME EngineInv, turn # {}, turn' = turn \ {FirstOf(turn)}, UNCHANGED <<vars, plan, step>>
    PROVE  /\ FirstOf(turn) \in turn /\ FirstOf(turn) \in Task /\ JobOf[FirstOf(turn)] = plan
           /\ \A s \in Task : JobOf[s] = plan /\ Rank[s] < Rank[FirstOf(turn)] => s \notin turn
           /\ (manifest' = manifest => Steps')
  <1> DEFINE t == FirstOf(turn)
  <1>1. turn \in SUBSET Task /\ Steps /\ EngineTypeOK
    BY AtWork DEF EngineTypeOK
  <1>2. t \in turn /\ \A s \in turn : Rank[t] <= Rank[s]
    BY <1>1, FirstStage
  <1>3. t \in Task /\ JobOf[t] = plan
    BY <1>1, <1>2 DEF Steps
  <1>4. \A s \in Task : Rank[s] \in Nat
    BY AcyclicAssumption
  <1> HIDE DEF t
  <1>5. \A s \in Task : JobOf[s] = plan /\ Rank[s] < Rank[t] => s \notin turn
    BY <1>2, <1>3, <1>4
  <1>6. ASSUME NEW u \in turn', NEW s \in Task, JobOf[s] = plan, s \notin turn'
        PROVE  Rank[s] < Rank[u]
    <2>1. u \in turn /\ u # t /\ u \in Task /\ JobOf[u] = plan
      BY <1>1, <1>6 DEF Steps, t
    <2>2. CASE s \notin turn
      BY <1>1, <1>6, <2>1, <2>2 DEF Steps
    <2>3. CASE s \in turn
      <3>1. s = t
        BY <1>6, <2>3 DEF t
      <3>2. Rank[s] <= Rank[u] /\ Rank[s] # Rank[u]
        BY <1>2, <1>6, <2>1, <3>1, EngineAssumption
      <3> QED
        BY <1>4, <2>1, <3>2
    <2> QED
      BY <2>2, <2>3
  <1>7. ASSUME manifest' = manifest PROVE Steps'
    BY <1>1, <1>6, <1>7 DEF Steps
  <1> QED
    BY <1>2, <1>3, <1>5, <1>7 DEF t

LEMMA InsertStageStep ==
    ASSUME EngineInv, InsertStage
    PROVE  EngineInv'
  <1> DEFINE t == FirstOf(turn)
  <1>1. /\ step = "stages" /\ turn # {} /\ turn' = turn \ {t}
        /\ stage' = [stage EXCEPT ![t] = Announced]
        /\ UNCHANGED <<vars, manifest, step, plan>>
    BY DEF InsertStage, Announced
  <1>2. /\ EngineTypeOK /\ Steps /\ Opened /\ Mirroring /\ Accounted /\ HitMeansServed /\ Closed
        /\ plan \in Job /\ plan \notin saved /\ manifest[plan].status = "running"
        /\ manifest[plan] # None
    <2>1. /\ EngineTypeOK /\ Steps /\ Opened /\ Mirroring /\ Accounted /\ HitMeansServed /\ Closed
          /\ plan \in Job
      BY <1>1, AtWork
    <2> QED
      BY <1>1, <2>1 DEF Steps, Opened
  <1>3. SchedulerInv' /\ ProvenanceInv' /\ TypeOK' /\ SameView
    BY <1>1, QuietStep
  <1>4. t \in turn /\ t \in Task /\ JobOf[t] = plan /\ Steps'
    BY <1>1, TurnStep
  <1> HIDE DEF t
  <1>5. stage'[t] = Announced /\ \A u \in Task : u # t => stage'[u] = stage[u]
    BY <1>1, <1>2, <1>4 DEF EngineTypeOK
  <1>6. EngineTypeOK'
    BY <1>1, <1>2, <1>3, AnnouncedType DEF EngineTypeOK
  <1>7. Opened'
    BY <1>1, <1>2, <1>4, <1>5, AnnouncedType DEF Opened
  <1>8. \A u \in Task : Shown(u) => u # t /\ Shown(u)'
    BY <1>1, <1>2, <1>3, <1>4, <1>5 DEF Shown, SameView
  <1>9. Mirroring'
    <2>1. ASSUME NEW u \in Task, stage'[u] # None, stage'[u] # Announced
          PROVE  Shown(u)' /\ \A s \in Task : JobOf[s] = JobOf[u] /\ Rank[s] < Rank[u] => Shown(s)'
      BY <1>2, <1>5, <1>8, <2>1 DEF Mirroring
    <2>2. ASSUME NEW j \in Job, manifest[j] # None, manifest[j].status # "running", NEW u \in TasksOf(j)
          PROVE  Shown(u)'
      BY <1>2, <1>8, <2>2 DEF Mirroring, TasksOf
    <2> QED
      BY <1>1, <2>1, <2>2 DEF Mirroring, Announced
  <1>10. Accounted' /\ Closed'
    BY <1>1, <1>2, <1>3 DEF Accounted, Closed, SameView
  <1>11. HitMeansServed'
    <2>1. Announced.hit = FALSE /\ Announced.status = "pending"
      BY DEF Announced
    <2> QED
      BY <1>1, <1>2, <1>5, <2>1 DEF HitMeansServed
  <1> QED
    BY <1>3, <1>4, <1>6, <1>7, <1>9, <1>10, <1>11 DEF EngineInv, PlanInv

LEMMA CallSchedulerStep ==
    ASSUME EngineInv, CallScheduler
    PROVE  EngineInv'
  <1>1. /\ step = "stages" /\ step' = "run" /\ turn = {} /\ RunJob(plan)
        /\ UNCHANGED <<manifest, stage, plan, turn>>
    BY DEF CallScheduler
  <1>2. /\ SchedulerInv /\ ProvenanceInv /\ EngineTypeOK
        /\ Steps /\ Opened /\ Mirroring /\ Accounted /\ HitMeansServed /\ Closed
        /\ plan \in Job
    BY <1>1, AtWork
  <1>3. task' = task /\ db' = db
    BY <1>1, <1>2, SavePlan
  <1>4. /\ saved' = saved \cup {plan} /\ plan \notin saved /\ job' = plan /\ pc' = "propagate"
        /\ raced' = raced \ {plan} /\ UNCHANGED <<runs, served, silences, crashes, lost>>
    BY <1>1 DEF RunJob, Begin
  <1>5. SameView
    BY <1>3, <1>4, ViewFrame
  <1>6. SchedulerInv' /\ TypeOK'
    <2>1. [Next]_vars
      BY <1>1, <1>2 DEF Next
    <2> QED
      BY <1>2, <2>1, StepInv, TypeStep
  <1>7. ProvenanceInv'
    BY <1>1, <1>2, RunJobKeeps
  <1>8. EngineTypeOK'
    BY <1>1, <1>2, <1>6 DEF EngineTypeOK
  <1>9. Steps'
    BY <1>1, <1>2, <1>4 DEF Steps
  <1>10. Opened'
    BY <1>1, <1>2, <1>4 DEF Opened
  <1>11. \A t \in Task : Shown(t) => Shown(t)'
    BY <1>1, <1>4, <1>5 DEF Shown, SameView
  <1>12. Mirroring'
    BY <1>1, <1>2, <1>11 DEF Mirroring, TasksOf, Announced
  <1>13. Accounted' /\ HitMeansServed'
    BY <1>1, <1>2, <1>4 DEF Accounted, HitMeansServed
  <1>14. Closed'
    BY <1>1, <1>2, <1>3, <1>4, <1>5 DEF Closed, SameView
  <1> QED
    BY <1>6, <1>7, <1>8, <1>9, <1>10, <1>12, <1>13, <1>14 DEF EngineInv, PlanInv

\* The scheduler, the worker and cancelling threads, while RunPipeline waits.
LEMMA WhileRunningStep ==
    ASSUME EngineInv, WhileRunning, ~WorkerStep
    PROVE  EngineInv'
  <1>1. /\ step = "run" /\ UNCHANGED engineVars
        /\ SchedulerStep \/ OnTimeout \/ \E t \in Task : Cancel(t)
    BY DEF WhileRunning
  <1>2. /\ SchedulerInv /\ ProvenanceInv /\ EngineTypeOK /\ TableInv /\ KeptInv
        /\ Steps /\ Opened /\ Mirroring /\ HitMeansServed /\ Closed
        /\ plan \in Job /\ \A t \in Task : JobOf[t] \in Job /\ JobOf[t] # None
        /\ TypeOK
    BY <1>1, AtWork
  <1>3. CallFrame
    BY <1>1, <1>2, CallFrames
  <1>4. SchedulerInv' /\ TypeOK'
    <2>1. [Next]_vars
      BY <1>1 DEF Next
    <2> QED
      BY <1>2, <2>1, StepInv, TypeStep
  <1>5. ProvenanceInv'
    BY <1>1, <1>2, CallKeeps
  <1>6. pc' \in {"idle", "returned"} <=> job' = None
    BY <1>4 DEF SchedulerInv, JobInv
  <1>7. /\ job = plan /\ job' \in {job, None} /\ raced \subseteq raced'
        /\ silences' = silences \/ silences' > 0
        /\ UNCHANGED <<step, plan, turn, manifest, stage, saved, crashes, lost>>
    BY <1>1, <1>2, <1>3, <1>6 DEF CallFrame, Steps, engineVars, InExecute, InCall
  <1>8. EngineTypeOK'
    BY <1>2, <1>4, <1>7 DEF EngineTypeOK
  <1>9. Steps'
    BY <1>1, <1>2, <1>3, <1>6, <1>7 DEF Steps, CallFrame
  <1>10. Opened'
    BY <1>2, <1>7 DEF Opened
  <1>11. \A t \in Task : Shown(t) => JobOf[t] # job /\ Shown(t)'
    BY <1>2, <1>3, <1>7 DEF Shown, Mirrored, CallFrame, Elsewhere
  <1>12. Mirroring'
    <2>1. ASSUME NEW u \in Task, stage[u] # None, stage[u] # Announced
          PROVE  Shown(u)' /\ \A s \in Task : JobOf[s] = JobOf[u] /\ Rank[s] < Rank[u] => Shown(s)'
      BY <1>2, <1>11, <2>1 DEF Mirroring
    <2>2. ASSUME NEW j \in Job, manifest[j] # None, manifest[j].status # "running", NEW u \in TasksOf(j)
          PROVE  Shown(u)'
      BY <1>2, <1>11, <2>2 DEF Mirroring, TasksOf
    <2> QED
      BY <1>1, <1>7, <2>1, <2>2 DEF Mirroring, Announced
  <1>13. Accounted'
    <2> SUFFICES ASSUME pc' = "returned", NEW t \in Task, JobOf[t] = plan, db'[t].state = "succeeded"
                 PROVE  t \in served' \/ HasSucceededRun(t)'
      BY <1>1, <1>7 DEF Accounted
    <2>1. pc \in {"propagate", "dispatch"}
      BY <1>3 DEF CallFrame
    <2>2. UNCHANGED <<db, runs, served>>
      BY <1>3 DEF CallFrame
    <2> QED
      BY <1>2, <1>7, <2>1, <2>2 DEF KeptInv, Recorded, HasSucceededRun
  <1>14. HitMeansServed'
    <2> SUFFICES ASSUME NEW t \in Task, stage[t] # None
                 PROVE  /\ stage[t].hit => t \in served'
                        /\ t \in served' /\ stage[t].status = "succeeded" => stage[t].hit
      BY <1>7 DEF HitMeansServed
    <2>1. stage[t].hit => t \in served'
      BY <1>2, <1>3 DEF HitMeansServed, CallFrame
    <2>2. CASE JobOf[t] # job
      BY <1>2, <1>3, <2>1, <2>2 DEF HitMeansServed, CallFrame, Elsewhere
    <2>3. CASE JobOf[t] = job
      <3>1. stage[t] = Announced
        BY <1>2, <2>3 DEF Mirroring, Shown
      <3>2. Announced.status = "pending"
        BY DEF Announced
      <3> QED
        BY <2>1, <3>1, <3>2
    <2> QED
      BY <2>2, <2>3
  <1>15. Closed'
    <2>1. manifest[plan].status = "running" /\ manifest[plan].report = None
      BY <1>1, <1>2 DEF Opened
    <2>2. ASSUME NEW j \in Job, j # plan
          PROVE  /\ AggregateStatus(j)' = AggregateStatus(j)
                 /\ db'[LastOf(TasksOf(j))] = db[LastOf(TasksOf(j))]
      <3>1. \A t \in TasksOf(j) : t \in Task /\ task'[t] = task[t] /\ db'[t] = db[t]
        BY <1>3, <1>7, <2>2 DEF CallFrame, Elsewhere, TasksOf
      <3>2. AggregateStatus(j)' = AggregateStatus(j)
        BY <3>1 DEF AggregateStatus
      <3> QED
        BY <3>1, <3>2, LastStage
    <2>3. ASSUME NEW j \in Job, j # plan, manifest[j] # None
          PROVE  /\ manifest'[j].status \in {"running", AggregateStatus(j)'}
                 /\ manifest'[j].status = "running" /\ plan' # j => crashes' > 0 \/ j \in raced' \/ silences' > 0
                 /\ manifest'[j].status = "running" => manifest'[j].report = None
                 /\ manifest'[j].report # None =>
                       /\ db'[LastOf(TasksOf(j))].state = "succeeded"
                       /\ manifest'[j].report = Head(db'[LastOf(TasksOf(j))].outputs)
                 /\ (/\ j \in Validating /\ plan' # j /\ manifest'[j].status = "succeeded"
                     /\ crashes' = 0 /\ lost' = 0 /\ silences' = 0) =>
                       manifest'[j].report = Head(db'[LastOf(TasksOf(j))].outputs)
      <3>1. silences' = 0 => silences = 0
        BY <1>7
      <3> QED
        BY <1>2, <1>7, <2>2, <2>3, <3>1 DEF Closed
    <2> QED
      BY <1>7, <2>1, <2>3 DEF Closed
  <1> QED
    BY <1>4, <1>5, <1>8, <1>9, <1>10, <1>12, <1>13, <1>14, <1>15 DEF EngineInv, PlanInv

\* The worker goes on whatever became of its task.
LEMMA WorkerMeanwhile ==
    ASSUME EngineInv, step = "run", WorkerStep, UNCHANGED engineVars
    PROVE  EngineInv'
  <1>1. UNCHANGED <<schedVars, envVars>> /\ UNCHANGED <<manifest, stage, step, plan, turn>>
    BY DEF WorkerStep, WorkerArtifact, WorkerTerminal, engineVars
  <1>2. /\ SchedulerInv /\ ProvenanceInv /\ EngineTypeOK
        /\ Steps /\ Opened /\ Mirroring /\ Accounted /\ HitMeansServed /\ Closed
    BY AtWork
  <1>3. SchedulerInv' /\ TypeOK'
    <2>1. [Next]_vars
      BY DEF Next
    <2> QED
      BY <1>2, <2>1, StepInv, TypeStep
  <1>4. ProvenanceInv'
    BY <1>2, CallKeeps
  <1>5. SameView
    BY <1>1, ViewFrame
  <1>6. EngineTypeOK'
    BY <1>1, <1>2, <1>3 DEF EngineTypeOK
  <1>7. Steps' /\ Opened'
    BY <1>1, <1>2 DEF Steps, Opened
  <1>8. \A t \in Task : Shown(t)' <=> Shown(t)
    BY <1>1, <1>5 DEF Shown, SameView
  <1>9. Mirroring'
    BY <1>1, <1>2, <1>8 DEF Mirroring, Announced, TasksOf
  <1>10. Accounted' /\ HitMeansServed' /\ Closed'
    BY <1>1, <1>2, <1>5 DEF Accounted, HitMeansServed, Closed, SameView
  <1> QED
    BY <1>3, <1>4, <1>6, <1>7, <1>9, <1>10 DEF EngineInv, PlanInv

LEMMA SchedulerReturnedStep ==
    ASSUME EngineInv, SchedulerReturned
    PROVE  EngineInv'
  <1>1. /\ step = "run" /\ pc = "returned" /\ step' = "mirror" /\ turn' = TasksOf(plan)
        /\ UNCHANGED <<vars, manifest, stage, plan>>
    BY DEF SchedulerReturned
  <1>2. /\ EngineTypeOK /\ Steps /\ Opened /\ Mirroring /\ Accounted /\ HitMeansServed /\ Closed
        /\ plan \in Job
    BY <1>1, AtWork
  <1>3. SchedulerInv' /\ ProvenanceInv' /\ TypeOK' /\ SameView
    BY <1>1, QuietStep
  <1>4. EngineTypeOK'
    BY <1>1, <1>2, <1>3 DEF EngineTypeOK, TasksOf
  <1>5. Steps' /\ Opened'
    BY <1>1, <1>2 DEF Steps, Opened, TasksOf
  <1>6. \A t \in Task : Shown(t)' <=> Shown(t)
    BY <1>1, <1>3 DEF Shown, SameView
  <1>7. Mirroring'
    BY <1>1, <1>2, <1>6 DEF Mirroring, TasksOf, Announced
  <1>8. Accounted' /\ HitMeansServed' /\ Closed'
    BY <1>1, <1>2, <1>3 DEF Accounted, HitMeansServed, Closed, SameView
  <1> QED
    BY <1>3, <1>4, <1>5, <1>7, <1>8 DEF EngineInv, PlanInv

LEMMA UpdateStageStep ==
    ASSUME EngineInv, UpdateStage
    PROVE  EngineInv'
  <1> PICK t : t = FirstOf(turn)
    OBVIOUS
  <1>1. /\ step = "mirror" /\ turn # {} /\ turn' = turn \ {t}
        /\ stage' = [stage EXCEPT ![t] = Mirrored(t)]
        /\ UNCHANGED <<vars, manifest, step, plan>>
    BY DEF UpdateStage
  <1>2. /\ TypeOK /\ EngineTypeOK /\ TableInv /\ KeptInv
        /\ Steps /\ Opened /\ Mirroring /\ Accounted /\ HitMeansServed /\ Closed
        /\ plan \in Job /\ plan # None /\ job = None
    BY <1>1, AtWork, NoneAssumption
  <1>3. SchedulerInv' /\ ProvenanceInv' /\ TypeOK' /\ SameView
    BY <1>1, QuietStep
  <1>4. /\ t \in turn /\ t \in Task /\ JobOf[t] = plan /\ Steps'
        /\ \A s \in Task : JobOf[s] = plan /\ Rank[s] < Rank[t] => s \notin turn
    BY <1>1, TurnStep
  <1>5. stage'[t] = Mirrored(t) /\ \A u \in Task : u # t => stage'[u] = stage[u]
    BY <1>1, <1>2, <1>4 DEF EngineTypeOK
  <1>6. Mirrored(t) \in StageRow /\ Mirrored(t) # None
    BY <1>2, <1>4, MirroredType
  <1>7. EngineTypeOK'
    BY <1>1, <1>2, <1>3, <1>6 DEF EngineTypeOK
  <1>8. Opened'
    BY <1>1, <1>2, <1>4, <1>5, <1>6 DEF Opened
  <1>9. Shown(t)' /\ \A u \in Task : Shown(u) => Shown(u)'
    <2>1. JobOf[t] \in saved /\ JobOf[t] # job
      BY <1>1, <1>2, <1>4 DEF Steps
    <2> QED
      BY <1>1, <1>3, <1>4, <1>5, <2>1 DEF Shown, SameView
  <1>10. Mirroring'
    <2>1. ASSUME NEW u \in Task, stage'[u] # None, stage'[u] # Announced
          PROVE  Shown(u)' /\ \A s \in Task : JobOf[s] = JobOf[u] /\ Rank[s] < Rank[u] => Shown(s)'
      <3>1. CASE u = t
        <4>1. \A s \in Task : JobOf[s] = plan /\ Rank[s] < Rank[t] => Shown(s)
          BY <1>1, <1>2, <1>4 DEF Mirroring
        <4> QED
          BY <1>4, <1>9, <3>1, <4>1
      <3>2. CASE u # t
        BY <1>2, <1>5, <1>9, <2>1, <3>2 DEF Mirroring
      <3> QED
        BY <3>1, <3>2
    <2>2. ASSUME NEW j \in Job, manifest[j] # None, manifest[j].status # "running", NEW u \in TasksOf(j)
          PROVE  Shown(u)'
      BY <1>2, <1>9, <2>2 DEF Mirroring, TasksOf
    <2>3. ASSUME NEW u \in Task, JobOf[u] = plan, u \notin turn'
          PROVE  Shown(u)'
      BY <1>1, <1>2, <1>9, <2>3 DEF Mirroring
    <2> QED
      BY <1>1, <2>1, <2>2, <2>3 DEF Mirroring, Announced
  <1>11. Accounted' /\ Closed'
    BY <1>1, <1>2, <1>3 DEF Accounted, Closed, SameView
  <1>12. HitMeansServed'
    <2>1. /\ Mirrored(t).status = task[t].state
          /\ Mirrored(t).hit <=> task[t].state = "succeeded" /\ runs[t] = <<>>
      BY DEF Mirrored
    <2>2. task[t].state = db[t].state
      BY <1>2, <1>4 DEF TableInv, Alike
    <2>3. t \in served => runs[t] = <<>>
      BY <1>2 DEF KeptInv, Recorded
    <2>4. db[t].state = "succeeded" => t \in served \/ runs[t] # <<>>
      <3>1. db[t].state = "succeeded" => t \in served \/ HasSucceededRun(t)
        BY <1>1, <1>2, <1>4 DEF Accounted
      <3>2. HasSucceededRun(t) => runs[t] # <<>>
        <4>1. DOMAIN <<>> = {}
          OBVIOUS
        <4> QED
          BY <4>1, Zenon DEF HasSucceededRun
      <3> QED
        BY <3>1, <3>2
    <2>5. /\ Mirrored(t).hit => t \in served
          /\ t \in served /\ Mirrored(t).status = "succeeded" => Mirrored(t).hit
      BY <2>1, <2>2, <2>3, <2>4
    <2> QED
      BY <1>1, <1>2, <1>5, <2>5 DEF HitMeansServed
  <1> QED
    BY <1>3, <1>4, <1>7, <1>8, <1>10, <1>11, <1>12 DEF EngineInv, PlanInv

LEMMA FinishStep ==
    ASSUME EngineInv, Finish
    PROVE  EngineInv'
  <1> DEFINE row == [manifest[plan] EXCEPT !.status = AggregateStatus(plan)]
  <1>1. /\ step = "mirror" /\ turn = {} /\ step' = "link"
        /\ manifest' = [manifest EXCEPT ![plan] = row]
        /\ UNCHANGED <<vars, stage, plan, turn>>
    BY DEF Finish
  <1>2. /\ EngineTypeOK /\ Steps /\ Opened /\ Mirroring /\ Accounted /\ HitMeansServed /\ Closed
        /\ plan \in Job
    BY <1>1, AtWork
  <1>3. SchedulerInv' /\ ProvenanceInv' /\ TypeOK' /\ SameView
    BY <1>1, QuietStep
  <1>4. manifest[plan] \in Manifest /\ manifest[plan].report = None
    <2>1. manifest[plan] # None /\ manifest[plan].report = None
      BY <1>1, <1>2 DEF Opened
    <2> QED
      BY <1>2, <2>1 DEF EngineTypeOK
  <1>5. AggregateStatus(plan) \in {"succeeded", "failed", "cancelled"}
    BY DEF AggregateStatus
  <1>6. row \in Manifest /\ row.status = AggregateStatus(plan) /\ row.report = None
    BY <1>4, <1>5 DEF Manifest
  <1>7. row # None
    BY <1>6, NoRowAssumption
  <1> HIDE DEF row
  <1>8. manifest'[plan] = row /\ \A j \in Job : j # plan => manifest'[j] = manifest[j]
    BY <1>1, <1>2 DEF EngineTypeOK
  <1>9. EngineTypeOK'
    BY <1>1, <1>2, <1>3, <1>6 DEF EngineTypeOK
  <1>10. Steps'
    BY <1>1, <1>2 DEF Steps
  <1>11. Opened'
    <2>1. \A t \in Task : JobOf[t] \in Job
      BY GraphAssumption
    <2> QED
      BY <1>1, <1>2, <1>5, <1>6, <1>7, <1>8, <2>1 DEF Opened
  <1>12. \A t \in Task : Shown(t)' <=> Shown(t)
    BY <1>1, <1>3 DEF Shown, SameView
  <1>13. Mirroring'
    <2>1. \A t \in Task : JobOf[t] = plan => Shown(t)
      BY <1>1, <1>2 DEF Mirroring
    <2>2. ASSUME NEW j \in Job, manifest'[j] # None, manifest'[j].status # "running", NEW u \in TasksOf(j)
          PROVE  Shown(u)'
      BY <1>2, <1>8, <1>12, <2>1, <2>2 DEF Mirroring, TasksOf
    <2> QED
      BY <1>1, <1>2, <1>12, <2>2 DEF Mirroring, Announced
  <1>14. Accounted' /\ HitMeansServed'
    BY <1>1, <1>2, <1>3 DEF Accounted, HitMeansServed, SameView
  <1>15. Closed'
    <2>1. AggregateStatus(plan)' = AggregateStatus(plan)
      BY <1>1, <1>2, <1>3 DEF SameView
    <2>2. ASSUME NEW j \in Job, j # plan, manifest'[j] # None
          PROVE  /\ manifest'[j].status \in {"running", AggregateStatus(j)'}
                 /\ manifest'[j].status = "running" /\ plan' # j => crashes' > 0 \/ j \in raced' \/ silences' > 0
                 /\ manifest'[j].status = "running" => manifest'[j].report = None
                 /\ manifest'[j].report # None =>
                       /\ db'[LastOf(TasksOf(j))].state = "succeeded"
                       /\ manifest'[j].report = Head(db'[LastOf(TasksOf(j))].outputs)
                 /\ (/\ j \in Validating /\ plan' # j /\ manifest'[j].status = "succeeded"
                     /\ crashes' = 0 /\ lost' = 0 /\ silences' = 0) =>
                       manifest'[j].report = Head(db'[LastOf(TasksOf(j))].outputs)
      BY <1>1, <1>2, <1>3, <1>8, <2>2 DEF Closed, SameView
    <2> QED
      BY <1>1, <1>6, <1>8, <2>1, <2>2 DEF Closed
  <1> QED
    BY <1>3, <1>9, <1>10, <1>11, <1>13, <1>14, <1>15 DEF EngineInv, PlanInv

\* A succeeded stage has outputs, and they can be printed until something is deleted.
LEMMA SucceededOutputs ==
    ASSUME EngineInv, NEW t \in Task, db[t].state = "succeeded"
    PROVE  /\ db[t].outputs \in Seq(Ref)
           /\ silences = 0 => db[t].outputs # <<>>
           /\ silences = 0 /\ lost = 0 => Head(db[t].outputs) \in store
  <1>1. TypeOK /\ TableInv /\ KeptInv
    BY AtWork
  <1>2. JobOf[t] \in saved
    BY <1>1, FreshFields DEF TableInv, Untouched
  <1>3. db[t].inputs \in SUBSET Ref /\ db[t].outputs \in Seq(Ref)
    <2>1. db[t] \in TaskInstance
      BY <1>1 DEF TypeOK
    <2> QED
      BY <2>1 DEF TaskInstance
  <1>4. silences = 0 => db[t].outputs = Result[KindOf[t]][db[t].inputs]
    BY <1>1, <1>2 DEF TableInv, Made, OutputsFaithful, Consuming
  <1>5. silences = 0 => db[t].outputs # <<>>
    BY <1>3, <1>4, ContentAssumption
  <1>6. db[t].outputs # <<>> => 1 \in DOMAIN db[t].outputs /\ Head(db[t].outputs) = db[t].outputs[1]
    BY <1>3, EmptySeq, LenProperties
  <1>7. ASSUME silences = 0, lost = 0 PROVE Head(db[t].outputs) \in store
    <2>1. Refs(db[t].outputs) \subseteq store
      BY <1>1, <1>7 DEF KeptInv, InStore
    <2> QED
      BY <1>5, <1>6, <1>7, <2>1 DEF Refs
  <1> QED
    BY <1>3, <1>5, <1>7

LEMMA LinkReportStep ==
    ASSUME EngineInv, LinkReport
    PROVE  EngineInv'
  <1> PICK p, last : p = plan /\ last = LastOf(TasksOf(plan))
    OBVIOUS
  <1> DEFINE linked == plan \in Validating /\ task[last].outputs # <<>> /\ Head(task[last].outputs) \in store
             row == IF linked THEN [manifest[plan] EXCEPT !.report = Head(task[last].outputs)]
                              ELSE manifest[plan]
  <1>1. /\ step = "link" /\ step' = "idle" /\ plan' = None
        /\ manifest' = IF linked THEN [manifest EXCEPT ![plan].report = Head(task[last].outputs)]
                                 ELSE manifest
        /\ UNCHANGED <<vars, stage, turn>>
    BY DEF LinkReport
  <1>2. /\ TypeOK /\ EngineTypeOK /\ TableInv /\ KeptInv
        /\ Steps /\ Opened /\ Mirroring /\ Accounted /\ HitMeansServed /\ Closed
        /\ plan \in Job /\ None \notin Job
    BY <1>1, AtWork, NoneAssumption
  <1>3. SchedulerInv' /\ ProvenanceInv' /\ TypeOK' /\ SameView
    BY <1>1, QuietStep
  <1>4. last \in Task /\ JobOf[last] = plan /\ last \in TasksOf(plan)
    BY <1>2, LastStage
  <1>5. /\ manifest[plan] # None /\ manifest[plan] \in Manifest
        /\ manifest[plan].report = None /\ manifest[plan].status # "running"
        /\ manifest[plan].status = AggregateStatus(plan)
    <2>1. manifest[plan] # None /\ manifest[plan].report = None /\ manifest[plan].status # "running"
      BY <1>1, <1>2 DEF Opened
    <2>2. manifest[plan].status = AggregateStatus(plan)
      BY <1>2, <2>1 DEF Closed
    <2> QED
      BY <1>2, <2>1, <2>2 DEF EngineTypeOK
  <1>6. task[last].outputs = db[last].outputs /\ task[last].state = db[last].state
    BY <1>2, <1>4 DEF TableInv, Alike
  <1>7. linked => Head(task[last].outputs) \in Ref /\ db[last].state = "succeeded"
    <2>1. linked => Head(task[last].outputs) \in Ref
      BY <1>2 DEF TypeOK
    <2>2. ASSUME linked, db[last].state # "succeeded" PROVE FALSE
      <3>1. db[last].outputs = <<Placeholder[last]>>
        BY <1>2, <1>4, <1>6, <2>2 DEF TableInv, Undelivered
      <3>2. Head(task[last].outputs) = Placeholder[last]
        BY <1>6, <3>1
      <3> QED
        BY <1>2, <1>4, <2>2, <3>2 DEF KeptInv, InStore
    <2> QED
      BY <2>1, <2>2
  <1>8. manifest[plan].status = "succeeded" => task[last].state = "succeeded"
    BY <1>4, <1>5 DEF AggregateStatus
  <1>9. /\ row \in Manifest /\ row.status = manifest[plan].status
        /\ linked => row.report = Head(task[last].outputs)
        /\ ~linked => row.report = None
    <2>1. CASE linked
      <3>1. row = [manifest[plan] EXCEPT !.report = Head(task[last].outputs)]
        BY <2>1
      <3>2. Head(task[last].outputs) \in Ref \cup {None}
        BY <1>7, <2>1
      <3> HIDE DEF row, linked
      <3> QED
        BY <1>5, <2>1, <3>1, <3>2 DEF Manifest
    <2>2. CASE ~linked
      BY <1>5, <2>2
    <2> QED
      BY <2>1, <2>2
  <1>10. manifest'[p] = row /\ \A j \in Job : j # p => manifest'[j] = manifest[j]
    <2>1. manifest \in [Job -> Manifest \cup {None}]
      BY <1>2 DEF EngineTypeOK
    <2>2. CASE linked
      BY <1>1, <1>2, <2>1, <2>2
    <2>3. CASE ~linked
      BY <1>1, <2>3
    <2> QED
      BY <2>2, <2>3
  <1>11. manifest' \in [Job -> Manifest \cup {None}]
    <2>1. manifest \in [Job -> Manifest \cup {None}]
      BY <1>2 DEF EngineTypeOK
    <2>2. CASE linked
      <3>1. manifest' = [manifest EXCEPT ![plan] = row]
        BY <1>1, <2>2
      <3> HIDE DEF row, linked
      <3> QED
        BY <1>2, <1>9, <2>1, <3>1
    <2>3. CASE ~linked
      BY <1>1, <2>1, <2>3
    <2> QED
      BY <2>2, <2>3
  <1>12. row # None
    BY <1>9, NoRowAssumption
  <1>13. EngineTypeOK'
    BY <1>1, <1>2, <1>3, <1>11 DEF EngineTypeOK
  <1>14. linked \/ ~(/\ manifest[plan].status = "succeeded" /\ plan \in Validating
                     /\ lost = 0 /\ silences = 0)
    BY <1>4, <1>6, <1>8, SucceededOutputs
  <1> HIDE DEF row, linked
  <1>15. Steps'
    BY <1>1, <1>2 DEF Steps
  <1>16. Opened'
    <2>1. \A t \in Task : JobOf[t] \in Job
      BY GraphAssumption
    <2>2. ASSUME NEW j \in Job, manifest'[j] = None PROVE j \notin saved
      BY <1>2, <1>10, <1>12, <2>2 DEF Opened
    <2>3. ASSUME NEW t \in Task, stage[t] # None PROVE manifest'[JobOf[t]] # None
      BY <1>2, <1>10, <1>12, <2>1, <2>3 DEF Opened
    <2> QED
      BY <1>1, <2>2, <2>3 DEF Opened
  <1>17. \A t \in Task : Shown(t)' <=> Shown(t)
    BY <1>1, <1>3 DEF Shown, SameView
  <1>18. Mirroring'
    <2>1. ASSUME NEW j \in Job, manifest'[j] # None, manifest'[j].status # "running", NEW u \in TasksOf(j)
          PROVE  Shown(u)'
      BY <1>2, <1>5, <1>10, <1>17, <2>1 DEF Mirroring, TasksOf
    <2> QED
      BY <1>1, <1>2, <1>17, <2>1 DEF Mirroring, Announced
  <1>19. Accounted' /\ HitMeansServed'
    BY <1>1, <1>2 DEF Accounted, HitMeansServed
  <1>20. Closed'
    <2>1. \A j \in Job : AggregateStatus(j)' = AggregateStatus(j)
      BY <1>3 DEF SameView
    <2>2. ASSUME NEW j \in Job, j # p, manifest'[j] # None
          PROVE  /\ manifest'[j].status \in {"running", AggregateStatus(j)'}
                 /\ manifest'[j].status = "running" /\ plan' # j => crashes' > 0 \/ j \in raced' \/ silences' > 0
                 /\ manifest'[j].status = "running" => manifest'[j].report = None
                 /\ manifest'[j].report # None =>
                       /\ db'[LastOf(TasksOf(j))].state = "succeeded"
                       /\ manifest'[j].report = Head(db'[LastOf(TasksOf(j))].outputs)
                 /\ (/\ j \in Validating /\ plan' # j /\ manifest'[j].status = "succeeded"
                     /\ crashes' = 0 /\ lost' = 0 /\ silences' = 0) =>
                       manifest'[j].report = Head(db'[LastOf(TasksOf(j))].outputs)
      BY <1>1, <1>2, <1>10, <2>1, <2>2 DEF Closed
    <2>3. /\ manifest'[p].status = AggregateStatus(p)' /\ manifest'[p].status # "running"
          /\ manifest'[p].report # None =>
                /\ db[last].state = "succeeded" /\ manifest'[p].report = Head(db[last].outputs)
          /\ p \in Validating /\ manifest'[p].status = "succeeded" /\ lost = 0 /\ silences = 0 =>
                manifest'[p].report = Head(db[last].outputs)
      BY <1>2, <1>5, <1>6, <1>7, <1>9, <1>10, <1>14, <2>1
    <2> QED
      BY <1>1, <1>2, <2>2, <2>3 DEF Closed
  <1> QED
    BY <1>3, <1>13, <1>15, <1>16, <1>18, <1>19, <1>20 DEF EngineInv, PlanInv

\* The process ends: what the manifest says stays, and is still what the table has.
LEMMA ProcessEnds ==
    ASSUME EngineInv, Die,
           step' = "idle", plan' = None, turn' = {}, UNCHANGED <<manifest, stage>>,
           \/ crashes < MaxCrashes /\ crashes' = crashes + 1
           \/ step = "run" /\ crashes' = crashes /\ (plan \in raced \/ silences > 0)
    PROVE  EngineInv'
  <1>1. /\ SchedulerInv /\ ProvenanceInv /\ TypeOK /\ EngineTypeOK /\ TableInv
        /\ Steps /\ Opened /\ Mirroring /\ HitMeansServed /\ Closed
        /\ \A t \in Task : JobOf[t] \in Job /\ JobOf[t] # None
    BY AtWork
  <1>2. /\ task' = db /\ db' = db /\ job' = None /\ pc' = "idle"
        /\ UNCHANGED <<runs, saved, served, raced, silences, lost>>
    BY DEF Die
  <1>3. SameView
    BY <1>1, <1>2, ViewFrame DEF TableInv, Alike
  <1>4. TypeOK'
    <2>1. crashes' \in 0..MaxCrashes
      BY <1>1, PolicyAssumption DEF TypeOK
    <2>2. /\ <<>> \in Seq(Ref) /\ <<>> \in Seq(WorkerEvent) /\ 0 \in 0..MissLimit
          /\ 0 \in 0..MaxIterations
      BY PolicyAssumption
    <2> QED
      BY <1>1, <2>1, <2>2 DEF TypeOK, Die, Location
  <1>5. SchedulerInv'
    <2>1. CoreInv'
      BY <1>1, InvSplit, DieStep
    <2>2. QuietInv' /\ OutcomeInv'
      BY DEF Die, QuietInv, OutcomeInv, ThrowsExplained
    <2> QED
      BY <1>4, <2>1, <2>2, InvSplitNext
  <1>6. ProvenanceInv'
    BY <1>1, DieKeeps
  <1>7. EngineTypeOK'
    BY <1>1, <1>4 DEF EngineTypeOK
  <1>8. Steps' /\ Opened'
    BY <1>1, <1>2 DEF Steps, Opened
  <1>9. \A t \in Task : Shown(t) => Shown(t)'
    BY <1>1, <1>2, <1>3 DEF Shown, SameView
  <1>10. Mirroring'
    BY <1>1, <1>9 DEF Mirroring, TasksOf, Announced
  <1>11. Accounted' /\ HitMeansServed'
    BY <1>1, <1>2 DEF Accounted, HitMeansServed
  <1>12. Closed'
    <2>1. CASE crashes < MaxCrashes /\ crashes' = crashes + 1
      <3>1. crashes' > 0
        BY <1>1, <2>1, PolicyAssumption DEF TypeOK
      <3> QED
        BY <1>1, <1>2, <1>3, <3>1 DEF Closed, SameView
    <2>2. CASE step = "run" /\ crashes' = crashes /\ (plan \in raced \/ silences > 0)
      <3>1. manifest[plan].status = "running"
        BY <1>1, <2>2 DEF Opened
      <3> QED
        BY <1>1, <1>2, <1>3, <2>2, <3>1 DEF Closed, SameView
    <2> QED
      BY <2>1, <2>2
  <1> QED
    BY <1>5, <1>6, <1>7, <1>8, <1>10, <1>11, <1>12 DEF EngineInv, PlanInv

LEMMA EngineDiesStep ==
    ASSUME EngineInv, EngineDies
    PROVE  EngineInv'
  BY ProcessEnds DEF EngineDies, Crash

LEMMA LeaveByExceptionStep ==
    ASSUME EngineInv, LeaveByException
    PROVE  EngineInv'
  <1>1. /\ step = "run" /\ pc = "aborted" /\ Die /\ crashes' = crashes
        /\ step' = "idle" /\ plan' = None /\ turn' = {} /\ UNCHANGED <<manifest, stage>>
    BY DEF LeaveByException, ExitAfterException
  <1>2. job = plan /\ outcome \in {"stalled", "illegal", "busy"}
    BY <1>1, AtWork DEF Steps, CallInv, Thrown, TypeOK
  <1>3. plan \in raced \/ silences > 0
    BY <1>2, AtWork DEF SchedulerInv, OutcomeInv, ThrowsExplained
  <1> QED
    BY <1>1, <1>3, ProcessEnds

\* Nothing the manifest says depends on what is deleted.
LEMMA LoseStep ==
    ASSUME EngineInv, Lose
    PROVE  EngineInv'
  <1>1. PICK r \in Ref : LoseArtifact(r)
    BY DEF Lose
  <1>2. /\ UNCHANGED <<schedVars, execVars, raced, silences, crashes>> /\ UNCHANGED engineVars /\ lost' = lost + 1
    BY <1>1 DEF Lose, LoseArtifact
  <1>3. /\ SchedulerInv /\ ProvenanceInv /\ TypeOK /\ EngineTypeOK
        /\ Steps /\ Opened /\ Mirroring /\ Accounted /\ HitMeansServed /\ Closed
    BY AtWork
  <1>4. SchedulerInv' /\ TypeOK'
    <2>1. [Next]_vars
      BY <1>1 DEF Next
    <2> QED
      BY <1>3, <2>1, StepInv, TypeStep
  <1>5. ProvenanceInv'
    BY <1>1, <1>3, LoseKeeps
  <1>6. SameView
    BY <1>2, ViewFrame
  <1>7. lost' # 0
    <2>1. lost \in Nat
      BY <1>3, PolicyAssumption DEF TypeOK
    <2> QED
      BY <1>2, <2>1
  <1>8. EngineTypeOK'
    BY <1>2, <1>3, <1>4 DEF EngineTypeOK, engineVars
  <1>9. Steps' /\ Opened'
    BY <1>2, <1>3 DEF Steps, Opened, engineVars
  <1>10. \A t \in Task : Shown(t)' <=> Shown(t)
    BY <1>2, <1>6 DEF Shown, SameView, engineVars
  <1>11. Mirroring'
    BY <1>2, <1>3, <1>10 DEF Mirroring, engineVars, Announced, TasksOf
  <1>12. Accounted' /\ HitMeansServed' /\ Closed'
    BY <1>2, <1>3, <1>6, <1>7 DEF Accounted, HitMeansServed, Closed, SameView, engineVars
  <1> QED
    BY <1>4, <1>5, <1>8, <1>9, <1>11, <1>12 DEF EngineInv, PlanInv

LEMMA EngineStutter ==
    ASSUME EngineInv, UNCHANGED allVars
    PROVE  EngineInv'
  <1>1. UNCHANGED vars /\ UNCHANGED <<manifest, stage, step, plan, turn>>
    BY DEF allVars, engineVars
  <1>2. /\ EngineTypeOK /\ Steps /\ Opened /\ Mirroring /\ Accounted /\ HitMeansServed /\ Closed
    BY AtWork
  <1>3. SchedulerInv' /\ ProvenanceInv' /\ TypeOK' /\ SameView
    BY <1>1, QuietStep
  <1>4. EngineTypeOK'
    BY <1>1, <1>2, <1>3 DEF EngineTypeOK
  <1>5. Steps' /\ Opened'
    BY <1>1, <1>2 DEF Steps, Opened
  <1>6. \A t \in Task : Shown(t)' <=> Shown(t)
    BY <1>1, <1>3 DEF Shown, SameView
  <1>7. Mirroring'
    BY <1>1, <1>2, <1>6 DEF Mirroring, Announced, TasksOf
  <1>8. Accounted' /\ HitMeansServed' /\ Closed'
    BY <1>1, <1>2, <1>3 DEF Accounted, HitMeansServed, Closed, SameView
  <1> QED
    BY <1>3, <1>4, <1>5, <1>7, <1>8 DEF EngineInv, PlanInv

LEMMA EngineInitInv ==
    ASSUME EngineInit
    PROVE  EngineInv
  <1>1. /\ Init /\ manifest = [j \in Job |-> None] /\ stage = [t \in Task |-> None]
        /\ step = "idle" /\ plan = None /\ turn = {}
    BY DEF EngineInit
  <1>2. SchedulerInv /\ TypeOK
    BY <1>1, InitInv DEF SchedulerInv
  <1>3. /\ \A t \in Task : /\ task[t] = Fresh(t) /\ db[t] = Fresh(t) /\ runs[t] = <<>>
                           /\ db[t].state = "pending" /\ db[t].outputs = <<Placeholder[t]>>
        /\ saved = {} /\ cache = {} /\ store = Stored /\ job = None /\ pc = "idle"
        /\ busy = None /\ left = <<>> /\ events = <<>> /\ served = {}
    BY <1>1, FreshFields DEF Init
  <1>4. TableInv
    BY <1>3 DEF TableInv, Alike, Untouched, Undelivered, InOrder, Consuming, Made, OutputsFaithful
  <1>5. CallInv
    BY <1>3 DEF CallInv, Thrown, OneReady, Fed, Located, Answering, InExecute, InCall
  <1>6. KeptInv
    <2>1. \A t \in Task : JobOf[t] # job
      <3>1. \A t \in Task : JobOf[t] \in Job
        BY GraphAssumption
      <3> QED
        BY <1>3, <3>1, NoneAssumption
    <2>2. Recorded /\ CacheSound
      BY <1>3, <2>1 DEF Recorded, CacheSound
    <2>3. InStore
      <3>1. \A t \in Task : Placeholder[t] \notin store
        BY <1>3, ContentAssumption
      <3>2. 1..Len(events) = {} /\ 1..Len(left) = {}
        BY <1>3
      <3> QED
        BY <1>3, <3>1, <3>2 DEF InStore
    <2> QED
      BY <2>2, <2>3 DEF KeptInv
  <1>7. EngineTypeOK
    BY <1>1, <1>2 DEF EngineTypeOK
  <1>8. Steps /\ Opened /\ Mirroring /\ Accounted /\ HitMeansServed /\ Closed
    BY <1>1, <1>3 DEF Steps, Opened, Mirroring, Accounted, HitMeansServed, Closed
  <1> QED
    BY <1>2, <1>4, <1>5, <1>6, <1>7, <1>8 DEF EngineInv, PlanInv, ProvenanceInv

LEMMA EngineStepInv ==
    ASSUME EngineInv, [EngineNext]_allVars
    PROVE  EngineInv'
  <1>1. WhileRunning => EngineInv'
    BY WhileRunningStep, WorkerMeanwhile DEF WhileRunning
  <1> QED
    BY <1>1, RunCommandStep, BeginManifestStep, InsertStageStep, CallSchedulerStep,
       SchedulerReturnedStep, UpdateStageStep, FinishStep, LinkReportStep, LeaveByExceptionStep,
       EngineDiesStep, LoseStep, EngineStutter
    DEF EngineNext

-----------------------------------------------------------------------------
(* What the manifests say. *)

\* A stage that publishes something has been mirrored, and so have those before it.
LEMMA PublishedStage ==
    ASSUME EngineInv, NEW t \in Task, stage[t] # None, stage[t].outputs # <<>>
    PROVE  /\ JobOf[t] \in saved /\ db[t].state = "succeeded" /\ stage[t].outputs = db[t].outputs
           /\ \A s \in Task : JobOf[s] = JobOf[t] /\ Rank[s] < Rank[t] => Shown(s)
  <1>1. Mirroring /\ TableInv
    BY AtWork
  <1>2. stage[t] # Announced
    BY DEF Announced
  <1>3. /\ Shown(t) /\ \A s \in Task : JobOf[s] = JobOf[t] /\ Rank[s] < Rank[t] => Shown(s)
    BY <1>1, <1>2 DEF Mirroring
  <1>4. stage[t].outputs = IF task[t].state = "succeeded" THEN task[t].outputs ELSE <<>>
    BY <1>3 DEF Shown, Mirrored
  <1> QED
    BY <1>1, <1>3, <1>4 DEF Shown, TableInv, Alike

LEMMA PublishedFaithful == EngineInv /\ silences = 0 => PublishedReproducible
  <1> SUFFICES ASSUME EngineInv, silences = 0, NEW t \in Task, stage[t] # None, stage[t].outputs # <<>>
               PROVE  stage[t].outputs =
                        Result[KindOf[t]][IF Deps[t] = {} THEN DeclaredInputs[t]
                                          ELSE UNION {Refs(stage[d].outputs) : d \in Deps[t]}]
    BY DEF PublishedReproducible
  <1>1. /\ JobOf[t] \in saved /\ db[t].state = "succeeded" /\ stage[t].outputs = db[t].outputs
        /\ \A s \in Task : JobOf[s] = JobOf[t] /\ Rank[s] < Rank[t] => Shown(s)
    BY PublishedStage
  <1>2. TableInv
    BY AtWork
  <1>3. stage[t].outputs = Result[KindOf[t]][ResolvedInputs(t)]
    BY <1>1, <1>2 DEF TableInv, Made, OutputsFaithful
  <1>4. CASE Deps[t] = {}
    BY <1>3, <1>4, Resolved
  <1>5. CASE Deps[t] # {}
    <2>1. PICK d \in Deps[t] : TRUE
      BY <1>5
    <2>2. d \in Task /\ JobOf[d] = JobOf[t] /\ Deps[t] = {d} /\ Rank[d] < Rank[t]
      BY <2>1, OneDependency, AcyclicAssumption
    <2>3. db[d].state = "succeeded" /\ Shown(d)
      BY <1>1, <1>2, <2>2 DEF TableInv, InOrder
    <2>4. stage[d].outputs = db[d].outputs
      BY <1>2, <2>2, <2>3 DEF Shown, Mirrored, TableInv, Alike
    <2>5. db[d].outputs # <<>>
      BY <2>2, <2>3, SucceededOutputs
    <2>6. DeclaredInputs[t] = {Placeholder[d]}
      BY <1>5, <2>2, PlanAssumption
    <2>7. ResolvedInputs(t) = Refs(db[d].outputs)
      <3>1. ResolvedInputs(t) = (DeclaredInputs[t] \ {Placeholder[d]}) \cup Refs(db[d].outputs)
        BY <2>1, <2>5, Resolved
      <3>2. DeclaredInputs[t] \ {Placeholder[d]} = {}
        BY <2>6
      <3> QED
        BY <3>1, <3>2
    <2>8. UNION {Refs(stage[e].outputs) : e \in Deps[t]} = Refs(db[d].outputs)
      BY <2>2, <2>4
    <2> QED
      BY <1>3, <1>5, <2>7, <2>8
  <1> QED
    BY <1>4, <1>5

\* What Load finds of a mirrored last stage.
LEMMA LoadLast ==
    ASSUME EngineInv, NEW j \in Job, manifest[j] # None, manifest[j].status # "running"
    PROVE  /\ Load(j).row = manifest[j]
           /\ Load(j).stages[Rank[LastOf(TasksOf(j))]] = Mirrored(LastOf(TasksOf(j)))
  <1> DEFINE last == LastOf(TasksOf(j))
             ranks == {Rank[t] : t \in {s \in TasksOf(j) : stage[s] # None}}
  <1>1. last \in TasksOf(j) /\ last \in Task /\ JobOf[last] = j
    BY LastStage
  <1>2. TypeOK /\ Mirroring
    BY AtWork
  <1>3. stage[last] = Mirrored(last) /\ stage[last] # None
    BY <1>1, <1>2, MirroredType DEF Mirroring, Shown
  <1>4. Rank[last] \in ranks
    BY <1>1, <1>3
  <1>5. (CHOOSE t \in TasksOf(j) : Rank[t] = Rank[last]) = last
    <2>1. \A t \in TasksOf(j) : Rank[t] = Rank[last] => t = last
      BY <1>1, EngineAssumption DEF TasksOf
    <2>2. \E t \in TasksOf(j) : Rank[t] = Rank[last]
      BY <1>1
    <2> HIDE DEF last
    <2> QED
      BY <2>1, <2>2
  <1>6. Load(j) = [row |-> manifest[j],
                   stages |-> [n \in ranks |-> stage[CHOOSE t \in TasksOf(j) : Rank[t] = n]]]
    BY DEF Load
  <1> HIDE DEF last, ranks
  <1>7. Load(j).stages = [n \in ranks |-> stage[CHOOSE t \in TasksOf(j) : Rank[t] = n]]
        /\ Load(j).row = manifest[j]
    BY <1>6
  <1>8. Load(j).stages[Rank[last]] = stage[last]
    BY <1>4, <1>5, <1>7
  <1> QED
    BY <1>3, <1>7, <1>8 DEF last

LEMMA ReportFaithful == EngineInv => ReportIsResult
  <1> SUFFICES ASSUME EngineInv, NEW j \in Validating, manifest[j] # None, plan # j
               PROVE  LET last == Load(j).stages[Rank[LastOf(TasksOf(j))]]
                      IN  /\ manifest[j].report # None =>
                                  last.status = "succeeded" /\ Head(last.outputs) = manifest[j].report
                          /\ manifest[j].status = "succeeded" /\ crashes = 0 /\ lost = 0 /\ silences = 0 =>
                                  ReportCommand(j) = Head(last.outputs)
    BY DEF ReportIsResult
  <1> DEFINE last == LastOf(TasksOf(j))
             shown == Load(j).stages[Rank[last]]
  <1>1. j \in Job /\ last \in Task /\ JobOf[last] = j /\ last \in TasksOf(j)
    BY EngineAssumption, LastStage
  <1>2. TableInv /\ KeptInv /\ Closed /\ Mirroring
    BY AtWork
  <1>3. task[last].state = db[last].state /\ task[last].outputs = db[last].outputs
    BY <1>1, <1>2 DEF TableInv, Alike
  <1>4. ASSUME manifest[j].status # "running", db[last].state = "succeeded"
        PROVE  shown.status = "succeeded" /\ shown.outputs = db[last].outputs
    <2>1. shown = Mirrored(last)
      BY <1>1, <1>4, LoadLast
    <2> QED
      BY <1>3, <1>4, <2>1 DEF Mirrored
  <1>5. ASSUME manifest[j].report # None
        PROVE  shown.status = "succeeded" /\ Head(shown.outputs) = manifest[j].report
    <2>1. /\ manifest[j].status # "running" /\ db[last].state = "succeeded"
          /\ manifest[j].report = Head(db[last].outputs)
      BY <1>1, <1>2, <1>5 DEF Closed
    <2> QED
      BY <1>4, <2>1
  <1>6. ASSUME manifest[j].status = "succeeded", crashes = 0, lost = 0, silences = 0
        PROVE  ReportCommand(j) = Head(shown.outputs)
    <2>1. manifest[j].report = Head(db[last].outputs) /\ manifest[j].status = AggregateStatus(j)
      BY <1>1, <1>2, <1>6 DEF Closed
    <2>2. db[last].state = "succeeded"
      BY <1>1, <1>3, <1>6, <2>1 DEF AggregateStatus
    <2>3. Head(db[last].outputs) \in store
      BY <1>1, <1>6, <2>2, SucceededOutputs
    <2>4. Load(j).row = manifest[j]
      BY <1>1, <1>6, LoadLast
    <2>5. ReportCommand(j) = Head(db[last].outputs)
      BY <2>1, <2>3, <2>4 DEF ReportCommand
    <2> QED
      BY <1>4, <1>6, <2>2, <2>5
  <1> QED
    BY <1>5, <1>6

\* A closed manifest is what the tasks table has, and says how the plan ended.
LEMMA ManifestFaithful == EngineInv => ManifestMirrors
  <1> SUFFICES ASSUME EngineInv, NEW j \in Job, manifest[j] # None, manifest[j].status # "running"
               PROVE  /\ \A t \in TasksOf(j) :
                          /\ stage[t] # None /\ stage[t].status = db[t].state
                          /\ stage[t].outputs # <<>> => stage[t].status = "succeeded"
                      /\ (manifest[j].status = "succeeded")
                           <=> (\A t \in TasksOf(j) : stage[t].status = "succeeded")
                      /\ manifest[j].status = "cancelled"
                           => \E t \in TasksOf(j) : stage[t].status = "cancelled"
    BY AtWork DEF ManifestMirrors
  <1>1. TypeOK /\ TableInv /\ Mirroring /\ Closed
    BY AtWork
  <1>2. ASSUME NEW t \in TasksOf(j)
        PROVE  /\ stage[t] # None /\ stage[t].status = task[t].state /\ task[t].state = db[t].state
               /\ stage[t].outputs # <<>> => task[t].state = "succeeded"
    <2>1. t \in Task
      BY DEF TasksOf
    <2>2. stage[t] = Mirrored(t) /\ stage[t] # None
      BY <1>1, <2>1, MirroredType DEF Mirroring, Shown
    <2>3. /\ Mirrored(t).status = task[t].state
          /\ Mirrored(t).outputs # <<>> => task[t].state = "succeeded"
      BY DEF Mirrored
    <2> QED
      BY <1>1, <2>1, <2>2, <2>3 DEF TableInv, Alike
  <1>3. manifest[j].status = AggregateStatus(j)
    BY <1>1 DEF Closed
  <1>4. /\ AggregateStatus(j) = "succeeded" <=> \A t \in TasksOf(j) : task[t].state = "succeeded"
        /\ AggregateStatus(j) = "cancelled" => \E t \in TasksOf(j) : task[t].state = "cancelled"
    BY DEF AggregateStatus
  <1> QED
    BY <1>2, <1>3, <1>4

LEMMA OrphansExplained == EngineInv => OrphanExplained
  BY AtWork DEF Closed, OrphanExplained

-----------------------------------------------------------------------------
(* Theorems. *)

\* The engine keeps its invariant: the two copies of a plan, the worker's events, the
\* cache, the task runs and the manifests stay consistent through every step of
\* RunPipeline and of the scheduler it calls, through cancellation, and across the end
\* of the process.
THEOREM EngineInvariance == EngineSpec => []EngineInv
  <1>1. EngineInit => EngineInv
    BY EngineInitInv
  <1>2. EngineInv /\ [EngineNext]_allVars => EngineInv'
    BY EngineStepInv
  <1> QED
    BY <1>1, <1>2, PTL DEF EngineSpec

\* Provenance holds together for every plan: a dispatched stage consumes exactly what the
\* stage before it produced (ThreadOutputsToDependents).  As long as no worker was given up
\* for its silence, a succeeded one has what its kind makes of that, whether it ran, was
\* retried or came from the cache, and what a manifest publishes can be recomputed from what
\* it publishes of the stage before (engine.cpp:95-114).
THEOREM ProvenanceKept == EngineSpec => []ProvenanceFaithful
  <1>1. ASSUME EngineInv PROVE ProvenanceFaithful
    <2>1. TableInv
      BY <1>1, AtWork
    <2>2. InputsThreaded /\ (silences = 0 => OutputsFaithful)
      BY <2>1 DEF TableInv, Alike, Consuming, Made, InputsThreaded
    <2> QED
      BY <1>1, <2>2, PublishedFaithful DEF ProvenanceFaithful
  <1> QED
    BY <1>1, EngineInvariance, PTL

\* What the manifest of a run says is what happened: a closed one mirrors the tasks table, a
\* stage is shown as a cache hit exactly if the cache answered, and the report it links is
\* the output of its own validation.  An exception that leaves the scheduler, and with it a
\* manifest that stays open, is explained: WORKER_BUSY by a worker given up for its silence,
\* a stall or a refused transition by a Cancel that came between two steps of the scheduler,
\* and any other open manifest by a kill (engine.cpp:83-131, cli/main.cpp:309-351).
THEOREM RecordsTell == EngineSpec => []RecordsTruthful
  <1>1. ASSUME EngineInv PROVE RecordsTruthful
    <2>1. HitMeansServed /\ ThrowsExplained
      BY <1>1, AtWork DEF SchedulerInv, OutcomeInv
    <2> QED
      BY <1>1, <2>1, ManifestFaithful, OrphansExplained, ReportFaithful DEF RecordsTruthful
  <1> QED
    BY <1>1, EngineInvariance, PTL

\* When Run returns to the engine, a succeeded stage without a succeeded run is exactly one
\* the cache satisfied: the inference of engine.cpp:101-103 from the absence of a run is
\* right, retries and cancellation included (TryCacheHit, RecordRun).
THEOREM HitsTold == EngineSpec => CacheHitDetectable
  <1> DEFINE Told == pc' = "returned" /\ pc # "returned" =>
                       \A t \in TasksOf(job) : task[t].state = "succeeded" =>
                           ((t \in served) <=>
                              ~\E i \in DOMAIN runs[t] : runs[t][i].terminal = "succeeded")
  <1>1. ASSUME EngineInv, [EngineNext]_allVars PROVE [Told]_vars
    <2> SUFFICES ASSUME pc' = "returned", pc # "returned", NEW t \in TasksOf(job),
                        task[t].state = "succeeded"
                 PROVE  (t \in served) <=> ~\E i \in DOMAIN runs[t] : runs[t][i].terminal = "succeeded"
      OBVIOUS
    <2>1. SchedulerInv /\ ProvenanceInv /\ TableInv /\ KeptInv
      BY <1>1, AtWork
    <2>2. SchedulerStep \/ OnTimeout \/ \E u \in Task : Cancel(u)
      BY <1>1
      DEF EngineNext, RunCommand, BeginManifest, InsertStage, CallScheduler, RunJob, Begin,
          WhileRunning, SchedulerReturned, UpdateStage, Finish, LinkReport, EngineDies, Crash,
          LeaveByException, ExitAfterException, Die, Lose, LoseArtifact, WorkerStep,
          WorkerArtifact, WorkerTerminal, allVars
    <2>3. pc \in {"propagate", "dispatch"}
      BY <2>1, <2>2, CallFrames DEF CallFrame
    <2>4. t \in Task /\ JobOf[t] = job /\ db[t].state = "succeeded"
      BY <2>1 DEF TasksOf, TableInv, Alike
    <2>5. t \in served \/ HasSucceededRun(t)
      BY <2>1, <2>3, <2>4 DEF KeptInv, Recorded
    <2>6. t \in served => ~HasSucceededRun(t)
      <3>1. t \in served => runs[t] = <<>>
        BY <2>1 DEF KeptInv, Recorded
      <3>2. DOMAIN <<>> = {}
        OBVIOUS
      <3> QED
        BY <3>1, <3>2, Zenon DEF HasSucceededRun
    <2> QED
      BY <2>5, <2>6 DEF HasSucceededRun
  <1>2. EngineInv /\ [EngineNext]_allVars => [Told]_vars
    BY <1>1
  <1> QED
    BY <1>2, EngineInvariance, PTL DEF EngineSpec, CacheHitDetectable
=============================================================================
