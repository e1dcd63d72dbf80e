----------------------------- MODULE Scheduler -----------------------------
(***************************************************************************)
(* engine/scheduler/scheduler.cpp with the state it keeps in memory and in *)
(* project.db, the cache of engine/cache/task_cache.cpp and the executor   *)
(* contract of engine/workers/worker_handle.h.                             *)
(*                                                                         *)
(* One scheduler thread drives one job at a time; a worker thread runs the *)
(* submitted task and queues events; a third thread may call Cancel, which *)
(* takes no lock, between any two steps of the others.  Every write to     *)
(* project.db is a step of its own, because each is its own SQLite         *)
(* transaction, and the process may die between any two steps.             *)
(*                                                                         *)
(* A loop over graph.Order() visits the members of a set in any order: the *)
(* insertion order is one of them, and LoadTasks has no ORDER BY.          *)
(***************************************************************************)
EXTENDS Naturals, Sequences

CONSTANTS
    Task, Job,      \* all tasks, all jobs
    JobOf,          \* [Task -> Job]
    Deps,           \* [Task -> SUBSET Task], TaskGraph::DependenciesOf
    Rank,           \* [Task -> Nat], a topological numbering of the tasks
    Kind,           \* what a cache key holds besides the inputs: task type,
                    \* configuration hash, producer version, git commit
    KindOf,         \* [Task -> Kind]
    Ref,            \* artifact refs: content hashes and placeholders
    Placeholder,    \* [Task -> Ref], the declared output before it exists
    DeclaredInputs, \* [Task -> SUBSET Ref], external refs and placeholders
    Stored,         \* the refs in the artifact store at the start
    Result,         \* [Kind -> [SUBSET Ref -> Seq(Ref)]], what a worker makes
    Cacheable,      \* SUBSET Task, deterministic and CachePolicy::kCacheable
    Strict,         \* SUBSET Task with FailurePolicy::kFailed
    MaxAttempts,    \* RetryPolicy::max_attempts
    MaxIterations,  \* 10000 in Execute
    MissLimit,      \* 10 in DispatchAndAwait
    MaxSilences,    \* bound on workers given up for their silence
    VerifiesInputs, \* the executor refuses inputs that are not in the store
    MaxCrashes,     \* bound on ends of the process
    MaxCancels,     \* bound on calls of Cancel
    MaxLost,        \* bound on artifacts deleted by hand
    MaxIncidents,   \* bound on all of these together
    None            \* no task, no job, no ref

ASSUME GraphAssumption ==
    /\ JobOf \in [Task -> Job]
    /\ Deps \in [Task -> SUBSET Task]
    /\ \A t \in Task : \A d \in Deps[t] : JobOf[d] = JobOf[t]

ASSUME AcyclicAssumption ==
    /\ Rank \in [Task -> Nat]
    /\ \A t \in Task : \A d \in Deps[t] : Rank[d] < Rank[t]

ASSUME RefAssumption ==
    /\ KindOf \in [Task -> Kind]
    /\ Placeholder \in [Task -> Ref]
    /\ DeclaredInputs \in [Task -> SUBSET Ref]
    /\ Stored \subseteq Ref
    /\ \A k \in Kind : \A I \in SUBSET Ref : Result[k][I] \in Seq(Ref)

ASSUME PolicyAssumption ==
    /\ Cacheable \subseteq Task
    /\ Strict \subseteq Task
    /\ MaxAttempts \in Nat \ {0}
    /\ MaxIterations \in Nat \ {0}
    /\ MissLimit \in Nat
    /\ VerifiesInputs \in BOOLEAN
    /\ MaxSilences \in Nat /\ MaxCrashes \in Nat /\ MaxCancels \in Nat /\ MaxLost \in Nat
    /\ MaxIncidents \in Nat

ASSUME NoneAssumption == None \notin Task /\ None \notin Job /\ None \notin Ref

VARIABLES
    task,       \* [Task -> TaskInstance], the graph in memory
    db,         \* [Task -> TaskInstance], the tasks table
    saved,      \* SUBSET Job, the jobs whose graph SaveGraph has written
    runs,       \* [Task -> Seq(Run)], the task_runs table
    cache,      \* set of CacheEntry, the cache_entries table
    store,      \* SUBSET Ref, artifacts with an index row and a manifest
    job,        \* active_graph_, or None
    pc,         \* where the scheduler thread is
    outcome,    \* why Execute threw
    iter,       \* `iteration` of Execute
    progressed, \* `progressed` of Execute
    todo,       \* what is left of the loop over graph.Order() or ReadyTasks()
    cur,        \* task_id of the call in progress
    declared,   \* `declared` of TryCacheHit and DispatchAndAwait
    produced,   \* `produced` of DispatchAndAwait
    missed,     \* missed_heartbeats
    retryable,  \* `retryable` of DispatchAndAwait
    busy,       \* the task the executor holds, or None
    left,       \* artifacts the worker has still to emit for it
    cancelled,  \* its cancellation flag
    events,     \* the executor's event queue
    served,     \* history: tasks satisfied from the cache
    raced,      \* history: jobs a Cancel came in the way of
    silences,   \* history: workers given up, and a bound
    crashes, cancels, lost   \* bounds

schedVars == <<task, db, saved, runs, cache, job, pc, outcome, iter, progressed,
               todo, cur, declared, produced, missed, retryable, served>>
execVars  == <<busy, left, cancelled, events>>
envVars   == <<raced, silences, crashes, cancels, lost>>
vars      == <<schedVars, execVars, envVars, store>>

Status == {"pending", "running", "succeeded", "failed", "cancelled", "skipped"}

TaskInstance == [state : Status, attempts : 0..MaxAttempts,
                 inputs : SUBSET Ref, outputs : Seq(Ref)]

Run == [attempt : Nat, terminal : Status, inputs : SUBSET Ref, outputs : Seq(Ref)]

CacheEntry == [kind : Kind, inputs : SUBSET Ref, output : Ref]

EventType == {"artifact", "completed", "crashed", "failed", "cancelled"}

WorkerEvent == [task : Task, type : {"artifact"}, ref : Ref]
                 \cup [task : Task, type : EventType \ {"artifact"}, ref : {None}]

Location == {"idle", "propagate", "ready", "dispatch", "hit", "await", "store", "record",
             "thread", "markFailed", "retry", "redispatch", "returned", "aborted"}

TypeOK ==
    /\ task \in [Task -> TaskInstance]
    /\ db \in [Task -> TaskInstance]
    /\ saved \subseteq Job
    /\ runs \in [Task -> Seq(Run)]
    /\ cache \subseteq CacheEntry
    /\ store \subseteq Ref
    /\ job \in Job \cup {None}
    /\ pc \in Location
    /\ outcome \in {"ok", "stalled", "illegal", "busy"}
    /\ iter \in 0..MaxIterations
    /\ progressed \in BOOLEAN
    /\ todo \subseteq Task
    /\ cur \in Task \cup {None}
    /\ declared \in Seq(Ref)
    /\ produced \in Seq(Ref)
    /\ missed \in 0..MissLimit
    /\ retryable \in BOOLEAN
    /\ busy \in Task \cup {None}
    /\ left \in Seq(Ref)
    /\ cancelled \in BOOLEAN
    /\ events \in Seq(WorkerEvent)
    /\ served \subseteq Task
    /\ raced \subseteq Job
    /\ silences \in 0..MaxSilences
    /\ crashes \in 0..MaxCrashes
    /\ cancels \in 0..MaxCancels
    /\ lost \in 0..MaxLost

-----------------------------------------------------------------------------
(* The graph and the state machine. *)

\* The bound all incidents share.
Bounded == crashes + cancels + lost + silences < MaxIncidents

TasksOf(j) == {t \in Task : JobOf[t] = j}

Terminal == {"succeeded", "failed", "cancelled", "skipped"}

Unsuccessful == Terminal \ {"succeeded"}

IsLegal(from, to) ==
    \/ from = "pending" /\ to \in {"running", "cancelled", "skipped", "failed"}
    \/ from = "running" /\ to \in {"succeeded", "failed", "cancelled"}
    \/ from = "failed"  /\ to = "pending"

\* The task as the pipeline compiler builds it.
Fresh(t) == [state |-> "pending", attempts |-> 0,
             inputs |-> DeclaredInputs[t], outputs |-> <<Placeholder[t]>>]

\* Faulty variant: failures are given another chance too.
ReconciledFailures(row) ==
    IF row.state \in {"running", "failed"} THEN [row EXCEPT !.state = "pending", !.attempts = 0]
                                          ELSE row

\* A task of a job found in project.db: what ran when the process died starts
\* over.
Reconciled(row) ==
    IF row.state = "running" THEN [row EXCEPT !.state = "pending", !.attempts = 0]
                             ELSE row

\* Faulty variant: a dependency that is over is enough.
ReadyOnTerminal == {t \in TasksOf(job) : /\ task[t].state = "pending"
                                         /\ \A d \in Deps[t] : task[d].state \in Terminal}

ReadyTasks == {t \in TasksOf(job) : /\ task[t].state = "pending"
                                    /\ \A d \in Deps[t] : task[d].state = "succeeded"}

AllTerminal == \A t \in TasksOf(job) : task[t].state \in Terminal

\* Faulty variant: IsTerminal is not asked.
DependencyNotDone(t) == \E d \in Deps[t] : task[d].state # "succeeded"

DependencyFailed(t) == \E d \in Deps[t] : task[d].state \in Unsuccessful

\* The refs a sequence holds.
Refs(s) == {s[i] : i \in DOMAIN s}

\* Faulty variant: the produced refs are appended, the placeholders stay.
Appended(inputs, decl, prod) == inputs \cup Refs(prod)

\* The first refs of decl give way to what was produced in their place, and
\* what was produced without having been declared is appended.
Threaded(inputs, decl, prod) ==
    IF prod = <<>> THEN inputs
    ELSE (inputs \ {decl[i] : i \in DOMAIN decl \cap DOMAIN prod}) \cup Refs(prod)

\* The cache entry of a task, as a set of at most one member.
Entries(t) ==
    {e \in cache : t \in Cacheable /\ e.kind = KindOf[t] /\ e.inputs = task[t].inputs}

-----------------------------------------------------------------------------
(* Steps of the scheduler thread. *)

\* Mark: the transition is checked, applied in memory and written to the tasks
\* table; an illegal one throws out of Execute.
Mark(t, instance, next) ==
    \/ /\ IsLegal(task[t].state, instance.state)
       /\ task' = [task EXCEPT ![t] = instance]
       /\ db' = [db EXCEPT ![t] = instance]
       /\ pc' = next
       /\ UNCHANGED outcome
    \/ /\ ~IsLegal(task[t].state, instance.state)
       /\ pc' = "aborted"
       /\ outcome' = "illegal"
       /\ UNCHANGED <<task, db>>

\* The loop of Execute starts for job j.
Begin(j) ==
    /\ job' = j
    /\ pc' = "propagate"
    /\ outcome' = "ok"
    /\ iter' = 0
    /\ progressed' = FALSE
    /\ todo' = TasksOf(j)
    /\ cur' = None
    /\ raced' = raced \ {j}
    /\ UNCHANGED <<runs, cache, declared, produced, missed, retryable, served,
                   execVars, silences, crashes, cancels, lost, store>>

\* Run, with SaveGraph as one transaction.  A graph saved before is refused by
\* the primary key of the tasks table.
RunJob(j) ==
    /\ pc \in {"idle", "returned"}
    /\ j \notin saved
    /\ saved' = saved \cup {j}
    /\ task' = [t \in Task |-> IF t \in TasksOf(j) THEN Fresh(t) ELSE task[t]]
    /\ db' = [t \in Task |-> IF t \in TasksOf(j) THEN Fresh(t) ELSE db[t]]
    /\ Begin(j)

\* Resume: the graph is loaded from project.db and `running` reconciled, in
\* memory only.
Resume(j) ==
    /\ pc \in {"idle", "returned"}
    /\ j \in saved
    /\ task' = [t \in Task |-> IF t \in TasksOf(j) THEN Reconciled(db[t]) ELSE task[t]]
    /\ Begin(j)
    /\ UNCHANGED <<saved, db>>

\* Faulty variant: a propagated failure does not count as progress.
PropagateQuietly(t) ==
    /\ pc = "propagate"
    /\ t \in todo
    /\ todo' = todo \ {t}
    /\ IF task[t].state = "pending" /\ DependencyFailed(t)
       THEN Mark(t, [task[t] EXCEPT !.state = IF t \in Strict THEN "failed" ELSE "skipped"],
                 "propagate")
       ELSE UNCHANGED <<task, db, pc, outcome>>
    /\ UNCHANGED <<saved, runs, cache, job, iter, progressed, cur, declared, produced, missed,
                   retryable, served, execVars, envVars, store>>

\* One task of the pass of PropagateFailures.
PropagateFailures(t) ==
    /\ pc = "propagate"
    /\ t \in todo
    /\ todo' = todo \ {t}
    /\ IF task[t].state = "pending" /\ DependencyFailed(t)
       THEN /\ Mark(t, [task[t] EXCEPT !.state = IF t \in Strict THEN "failed" ELSE "skipped"],
                    "propagate")
            /\ progressed' = TRUE
       ELSE UNCHANGED <<task, db, pc, outcome, progressed>>
    /\ UNCHANGED <<saved, runs, cache, job, iter, cur, declared, produced, missed,
                   retryable, served, execVars, envVars, store>>

\* After the pass: return when all tasks are terminal.
EndPass ==
    /\ pc = "propagate"
    /\ todo = {}
    /\ pc' = IF AllTerminal THEN "returned" ELSE "ready"
    /\ job' = IF AllTerminal THEN None ELSE job
    /\ UNCHANGED <<task, db, saved, runs, cache, outcome, iter, progressed, todo, cur, declared,
                   produced, missed, retryable, served, execVars, envVars, store>>

\* The loop over the tasks that are ready now.
TakeSnapshot ==
    /\ pc = "ready"
    /\ pc' = "dispatch"
    /\ todo' = ReadyTasks
    /\ UNCHANGED <<task, db, saved, runs, cache, job, outcome, iter, progressed, cur, declared,
                   produced, missed, retryable, served, execVars, envVars, store>>

\* The end of one iteration of Execute.
EndIteration ==
    /\ pc = "dispatch"
    /\ todo = {}
    /\ iter' = IF progressed THEN iter + 1 ELSE iter
    /\ progressed' = FALSE
    /\ \/ /\ ~progressed
          /\ pc' = "aborted" /\ outcome' = "stalled"
          /\ UNCHANGED <<todo, job>>
       \/ /\ progressed /\ iter + 1 < MaxIterations
          /\ pc' = "propagate" /\ todo' = TasksOf(job)
          /\ UNCHANGED <<outcome, job>>
       \/ /\ progressed /\ iter + 1 = MaxIterations
          /\ pc' = "returned" /\ job' = None
          /\ UNCHANGED <<outcome, todo>>
    /\ UNCHANGED <<task, db, saved, runs, cache, cur, declared, produced, missed,
                   retryable, served, execVars, envVars, store>>

\* TryCacheHit on an entry whose artifact is gone: the key is dropped, and the
\* task remains to be dispatched.
DropStaleEntry(t) ==
    /\ pc = "dispatch"
    /\ t \in todo
    /\ \E e \in Entries(t) : e.output \notin store /\ cache' = cache \ {e}
    /\ UNCHANGED <<task, db, saved, runs, job, pc, outcome, iter, progressed, todo, cur,
                   declared, produced, missed, retryable, served, execVars, envVars, store>>

\* TryCacheHit on a live entry: pending -> running is written first.
TryCacheHit(t) ==
    /\ pc = "dispatch"
    /\ t \in todo
    /\ \E e \in Entries(t) : e.output \in store /\ produced' = <<e.output>>
    /\ Mark(t, [task[t] EXCEPT !.state = "running"], "hit")
    /\ todo' = todo \ {t}
    /\ cur' = t
    /\ UNCHANGED <<saved, runs, cache, job, iter, progressed, declared, missed, retryable,
                   served, execVars, envVars, store>>

\* Faulty variant: a run is recorded for a cache hit.
FinishCacheHitRecorded ==
    /\ pc = "hit"
    /\ declared' = task[cur].outputs
    /\ Mark(cur, [task[cur] EXCEPT !.state = "succeeded", !.outputs = produced], "record")
    /\ served' = served \cup {cur}
    /\ UNCHANGED <<saved, runs, cache, job, iter, progressed, todo, cur, produced, missed,
                   retryable, execVars, envVars, store>>

\* Then running -> succeeded with the cached output; no run is recorded.
FinishCacheHit ==
    /\ pc = "hit"
    /\ declared' = task[cur].outputs
    /\ Mark(cur, [task[cur] EXCEPT !.state = "succeeded", !.outputs = produced], "thread")
    /\ served' = IF task[cur].state = "running" THEN served \cup {cur} ELSE served
    /\ UNCHANGED <<saved, runs, cache, job, iter, progressed, todo, cur, produced, missed,
                   retryable, execVars, envVars, store>>

\* The locals of one turn of the outer loop of DispatchAndAwait.
NewAttempt(t) ==
    /\ cur' = t
    /\ produced' = <<>>
    /\ missed' = 0

\* WorkerExecutor::Submit, after the task was marked running.  An executor that
\* still holds a task throws WORKER_BUSY; one that verifies its inputs answers
\* refs it cannot materialise with a permanent failure.
MarkRunningAndSubmit(t) ==
    LET running == [task[t] EXCEPT !.state = "running"]
        accept == busy = None /\ (VerifiesInputs => task[t].inputs \subseteq store)
    IN  /\ IF IsLegal(task[t].state, "running") /\ busy # None
           THEN /\ task' = [task EXCEPT ![t] = running]
                /\ db' = [db EXCEPT ![t] = running]
                /\ pc' = "aborted" /\ outcome' = "busy"
           ELSE Mark(t, running, "await")
        /\ IF IsLegal(task[t].state, "running") /\ busy = None
           THEN /\ busy' = IF accept THEN t ELSE None
                /\ left' = IF accept THEN Result[KindOf[t]][task[t].inputs] ELSE <<>>
                /\ cancelled' = FALSE
                /\ events' = IF accept THEN events
                             ELSE Append(events, [task |-> t, type |-> "failed", ref |-> None])
           ELSE UNCHANGED execVars
        /\ NewAttempt(t)

\* DispatchAndAwait on a cache miss.
Dispatch(t) ==
    /\ pc = "dispatch"
    /\ t \in todo
    /\ Entries(t) = {}
    /\ todo' = todo \ {t}
    /\ MarkRunningAndSubmit(t)
    /\ UNCHANGED <<saved, runs, cache, job, iter, progressed, declared, retryable, served,
                   envVars, store>>

\* The outer loop of DispatchAndAwait after a retryable failure.
Redispatch ==
    /\ pc = "redispatch"
    /\ MarkRunningAndSubmit(cur)
    /\ UNCHANGED <<saved, runs, cache, job, iter, progressed, todo, declared, retryable,
                   served, envVars, store>>

\* The run recorded for an instance of a task.
RunOf(instance, terminal, outputs) ==
    [attempt |-> instance.attempts + 1, terminal |-> terminal,
     inputs |-> instance.inputs, outputs |-> outputs]

\* kArtifactProduced, and the events of another task, which are dropped.
OnArtifact ==
    /\ pc = "await"
    /\ events # <<>>
    /\ Head(events).task # cur \/ Head(events).type = "artifact"
    /\ events' = Tail(events)
    /\ produced' = IF Head(events).task = cur THEN Append(produced, Head(events).ref)
                                              ELSE produced
    /\ UNCHANGED <<task, db, saved, runs, cache, job, pc, outcome, iter, progressed, todo, cur,
                   declared, missed, retryable, served, busy, left, cancelled, envVars, store>>

Consume(type) ==
    /\ pc = "await"
    /\ events # <<>>
    /\ Head(events).task = cur
    /\ Head(events).type = type
    /\ events' = Tail(events)
    /\ UNCHANGED <<saved, cache, job, iter, progressed, todo, cur, produced, served,
                   busy, left, cancelled, envVars, store>>

\* kCompleted: the terminal state is written before the cache entry and the run.
OnCompleted ==
    /\ Consume("completed")
    /\ declared' = task[cur].outputs
    /\ Mark(cur, [task[cur] EXCEPT !.state = "succeeded", !.outputs = produced], "store")
    /\ UNCHANGED <<runs, missed, retryable>>

\* kCancelled: partial outputs are dropped.
OnCancelled ==
    /\ Consume("cancelled")
    /\ Mark(cur, [task[cur] EXCEPT !.state = "cancelled", !.outputs = <<>>], "record")
    /\ UNCHANGED <<runs, declared, missed, retryable>>

\* kFailed: the attempt is counted in memory and its run recorded.
Failed(recoverable) ==
    LET counted == [task[cur] EXCEPT !.attempts = @ + 1]
    IN  /\ task' = [task EXCEPT ![cur] = counted]
        /\ retryable' = (recoverable /\ counted.attempts < MaxAttempts)
        /\ runs' = [runs EXCEPT ![cur] = Append(@, RunOf(counted, "failed", <<>>))]
        /\ pc' = "markFailed"

OnFailed(recoverable) ==
    /\ Consume(IF recoverable THEN "crashed" ELSE "failed")
    /\ Failed(recoverable)
    /\ UNCHANGED <<db, outcome, declared, missed>>

\* WaitForEvent times out; past the limit the scheduler makes up a recoverable
\* WORKER_CRASHED for a worker that may still be at work.
OnTimeout ==
    /\ pc = "await"
    /\ silences < MaxSilences /\ Bounded
    /\ events = <<>>
    /\ \/ /\ missed < MissLimit
          /\ missed' = missed + 1
          /\ UNCHANGED <<task, runs, pc, retryable, silences>>
       \/ /\ missed = MissLimit
          /\ missed' = 0
          /\ silences' = silences + 1
          /\ Failed(TRUE)
    /\ UNCHANGED <<db, saved, cache, job, outcome, iter, progressed, todo, cur, declared,
                   produced, served, execVars, raced, crashes, cancels, lost, store>>

\* running -> failed, written after the run.
MarkFailed ==
    /\ pc = "markFailed"
    /\ Mark(cur, [task[cur] EXCEPT !.state = "failed"],
            IF retryable THEN "retry" ELSE "dispatch")
    /\ progressed' = (progressed \/ ~retryable)
    /\ UNCHANGED <<saved, runs, cache, job, iter, todo, cur, declared, produced, missed,
                   retryable, served, execVars, envVars, store>>

\* failed -> pending, the retry edge.
Retry ==
    /\ pc = "retry"
    /\ Mark(cur, [task[cur] EXCEPT !.state = "pending"], "redispatch")
    /\ UNCHANGED <<saved, runs, cache, job, iter, progressed, todo, cur, declared, produced,
                   missed, retryable, served, execVars, envVars, store>>

\* TaskCache::StoreOutput of the first output, when the index knows it.
StoreOutput ==
    /\ pc = "store"
    /\ pc' = "record"
    /\ LET outputs == task[cur].outputs
       IN  cache' = IF cur \in Cacheable /\ outputs # <<>> /\ Head(outputs) \in store
                    THEN (cache \ Entries(cur))
                           \cup {[kind |-> KindOf[cur], inputs |-> task[cur].inputs,
                                  output |-> Head(outputs)]}
                    ELSE cache
    /\ UNCHANGED <<task, db, saved, runs, job, outcome, iter, progressed, todo, cur, declared,
                   produced, missed, retryable, served, execVars, envVars, store>>

\* RecordRun of a succeeded or cancelled task.
RecordRun ==
    /\ pc = "record"
    /\ runs' = [runs EXCEPT ![cur] = Append(@, RunOf(task[cur], task[cur].state, task[cur].outputs))]
    /\ pc' = IF task[cur].state = "succeeded" THEN "thread" ELSE "dispatch"
    /\ progressed' = (progressed \/ task[cur].state # "succeeded")
    /\ UNCHANGED <<task, db, saved, cache, job, outcome, iter, todo, cur, declared, produced,
                   missed, retryable, served, execVars, envVars, store>>

\* The produced refs replace the placeholders of the dependents, in memory: a
\* dependent is written on its next Mark.
ThreadOutputsToDependents ==
    /\ pc = "thread"
    /\ task' = [t \in Task |->
                  IF cur \in Deps[t]
                  THEN [task[t] EXCEPT !.inputs = Threaded(@, declared, task[cur].outputs)]
                  ELSE task[t]]
    /\ pc' = "dispatch"
    /\ progressed' = TRUE
    /\ UNCHANGED <<db, saved, runs, cache, job, outcome, iter, todo, cur, declared, produced,
                   missed, retryable, served, execVars, envVars, store>>

-----------------------------------------------------------------------------
(* Steps of the other threads and of the environment. *)

\* Once the snapshot is taken, the scheduler does not count on a pending task
\* that is neither in the snapshot nor the one it deals with.
Timely(t) == pc \notin {"propagate", "ready", "aborted"} /\ t # cur /\ t \notin todo

\* Cancel from another thread, at any moment at which there is an active graph.
\* A task seen pending is marked cancelled, also when the scheduler thread has
\* just marked it running; for one seen running the executor is asked.
Cancel(t) ==
    /\ job # None
    /\ cancels < MaxCancels /\ Bounded
    /\ t \in TasksOf(job)
    /\ \/ /\ task[t].state \in {"pending", "running"}
          /\ Mark(t, [task[t] EXCEPT !.state = "cancelled"], pc)
          /\ raced' = IF task[t].state = "pending" /\ Timely(t) THEN raced ELSE raced \cup {job}
          /\ UNCHANGED cancelled
       \/ /\ task[t].state = "running"
          /\ cancelled' = (cancelled \/ busy = t)
          /\ UNCHANGED <<task, db, pc, outcome, raced>>
    /\ cancels' = cancels + 1
    /\ UNCHANGED <<saved, runs, cache, job, iter, progressed, todo, cur, declared, produced,
                   missed, retryable, served, busy, left, events, silences, crashes, lost, store>>

\* The worker stores an artifact and reports it.
WorkerArtifact ==
    /\ busy # None
    /\ left # <<>>
    /\ store' = store \cup {Head(left)}
    /\ events' = Append(events, [task |-> busy, type |-> "artifact", ref |-> Head(left)])
    /\ left' = Tail(left)
    /\ UNCHANGED <<schedVars, busy, cancelled, envVars>>

\* Faulty variant: a cancelled worker ends without a word.
SilentOnCancel(type) ==
    /\ busy # None
    /\ type = "completed" => left = <<>>
    /\ type = "cancelled" => cancelled
    /\ events' = IF type = "cancelled" THEN events
                 ELSE Append(events, [task |-> busy, type |-> type, ref |-> None])
    /\ busy' = None
    /\ left' = <<>>
    /\ cancelled' = FALSE
    /\ UNCHANGED <<schedVars, envVars, store>>

\* The worker ends the task: it may fail at any point, complete once everything
\* is emitted, and stop early only when cancelled.
WorkerTerminal(type) ==
    /\ busy # None
    /\ type = "completed" => left = <<>>
    /\ type = "cancelled" => cancelled
    /\ events' = Append(events, [task |-> busy, type |-> type, ref |-> None])
    /\ busy' = None
    /\ left' = <<>>
    /\ cancelled' = FALSE
    /\ UNCHANGED <<schedVars, envVars, store>>

\* The directory of an artifact is deleted by hand while no job is active; the
\* cache has to find out.  No call of ArtifactStore does that to an indexed one.
LoseArtifact(r) ==
    /\ pc \in {"idle", "returned"}
    /\ lost < MaxLost /\ Bounded
    /\ r \in store \ Stored
    /\ store' = store \ {r}
    /\ lost' = lost + 1
    /\ UNCHANGED <<schedVars, execVars, raced, silences, crashes, cancels>>

\* The process ends: project.db and the store survive.
Die ==
    /\ task' = db
    /\ job' = None
    /\ pc' = "idle"
    /\ outcome' = "ok"
    /\ iter' = 0
    /\ progressed' = FALSE
    /\ todo' = {}
    /\ cur' = None
    /\ declared' = <<>> /\ produced' = <<>>
    /\ missed' = 0 /\ retryable' = FALSE
    /\ busy' = None /\ left' = <<>> /\ cancelled' = FALSE /\ events' = <<>>
    /\ UNCHANGED <<db, saved, runs, cache, served, raced, silences, cancels, lost, store>>

\* It is killed at any point of a run, ...
Crash ==
    /\ pc \notin {"idle", "returned", "aborted"}
    /\ crashes < MaxCrashes /\ Bounded
    /\ crashes' = crashes + 1
    /\ Die

\* ... or it exits because an exception left Execute.
ExitAfterException ==
    /\ pc = "aborted"
    /\ Die
    /\ UNCHANGED crashes

-----------------------------------------------------------------------------
Init ==
    /\ task = [t \in Task |-> Fresh(t)]
    /\ db = [t \in Task |-> Fresh(t)]
    /\ saved = {}
    /\ runs = [t \in Task |-> <<>>]
    /\ cache = {}
    /\ store = Stored
    /\ job = None
    /\ pc = "idle"
    /\ outcome = "ok"
    /\ iter = 0
    /\ progressed = FALSE
    /\ todo = {}
    /\ cur = None
    /\ declared = <<>> /\ produced = <<>>
    /\ missed = 0 /\ retryable = FALSE
    /\ busy = None /\ left = <<>> /\ cancelled = FALSE /\ events = <<>>
    /\ served = {}
    /\ raced = {} /\ silences = 0
    /\ crashes = 0 /\ cancels = 0 /\ lost = 0

SchedulerStep ==
    \/ \E t \in Task : PropagateFailures(t) \/ DropStaleEntry(t) \/ TryCacheHit(t) \/ Dispatch(t)
    \/ EndPass \/ TakeSnapshot \/ EndIteration
    \/ FinishCacheHit
    \/ OnArtifact \/ OnCompleted \/ OnCancelled
    \/ \E recoverable \in BOOLEAN : OnFailed(recoverable)
    \/ MarkFailed \/ Retry \/ Redispatch
    \/ StoreOutput \/ RecordRun \/ ThreadOutputsToDependents

WorkerStep ==
    \/ WorkerArtifact
    \/ \E type \in EventType \ {"artifact"} : WorkerTerminal(type)

Next ==
    \/ \E j \in Job : RunJob(j) \/ Resume(j)
    \/ SchedulerStep
    \/ OnTimeout
    \/ WorkerStep
    \/ \E t \in Task : Cancel(t)
    \/ \E r \in Ref : LoseArtifact(r)
    \/ Crash
    \/ ExitAfterException

Spec == Init /\ [][Next]_vars

\* The two threads keep running while they have something to do; nothing makes a
\* caller start, resume or cancel a job, and nothing makes the process die.
FairSpec == Spec /\ WF_vars(SchedulerStep) /\ WF_vars(WorkerStep)
-----------------------------------------------------------------------------
(* Properties. *)

\* The status column of the tasks table.
PersistedStatus ==
    [t \in Task |-> IF JobOf[t] \in saved THEN db[t].state ELSE "absent"]

Lifecycle == INSTANCE TaskLifecycle WITH status <- PersistedStatus

\* Every write of the scheduler to the tasks table is a step of the task
\* lifecycle, across retries, cancellations, crashes and Resume: no task starts
\* before its dependencies succeeded, a terminal status is left only by the
\* retry edge, and a retry never takes back a failure others were skipped for.
ImplementsLifecycle == Lifecycle!Spec

\* A persisted task that runs or has succeeded rests on dependencies persisted
\* as succeeded (ReadyTasks, DispatchAndAwait, Resume).
RunsOnSucceededDeps == Lifecycle!DepsSucceeded

\* A persisted `skipped` is explained by a dependency persisted as failed,
\* cancelled or skipped (PropagateFailures), also after a crash in mid-retry.
SkipJustified == Lifecycle!SkipJustified

\* Run "executes it to completion. Throws SchedulerError on validation failure"
\* (scheduler.h): any other exception has its reason.  "scheduler stalled" and an
\* illegal transition need a Cancel that took a task the scheduler was about to
\* rely on; WORKER_BUSY needs a worker that was given up for its silence.
ThrowsExplained ==
    /\ outcome \in {"stalled", "illegal"} => job \in raced
    /\ outcome = "busy" => silences > 0

\* When Run or Resume returns, every task of the job is terminal and what the
\* caller sees in memory is what project.db holds; in particular the iteration
\* limit of Execute is never what ended the loop.
ReturnsComplete ==
    [][pc' = "returned" /\ pc # "returned" =>
         \A t \in TasksOf(job) : /\ task[t].state \in Terminal
                                 /\ db[t].state = task[t].state
                                 /\ db[t].outputs = task[t].outputs]_vars

\* What a task ought to consume: its declared inputs, with the placeholder of
\* each dependency that produced something replaced by what it produced.
ResolvedInputs(t) ==
    LET producers == {d \in Deps[t] : db[d].outputs # <<>>}
    IN  (DeclaredInputs[t] \ {Placeholder[d] : d \in producers})
          \cup UNION {Refs(db[d].outputs) : d \in producers}

\* The inputs of a dispatched task, hence its cache key and its recorded inputs,
\* are content hashes of what its dependencies produced, never placeholders
\* (ThreadOutputsToDependents).
InputsThreaded ==
    \A t \in Task : task[t].state = "running" => task[t].inputs = ResolvedInputs(t)

\* A succeeded task has the outputs its kind makes from what its dependencies
\* really produced, whether a worker ran, a retry followed a failure or the
\* cache answered.
OutputsFaithful ==
    \A t \in Task : JobOf[t] \in saved /\ db[t].state = "succeeded" =>
        db[t].outputs = Result[KindOf[t]][ResolvedInputs(t)]

\* When Run or Resume returns, a succeeded task without a succeeded run is
\* exactly one the cache satisfied: "the absence of a run row is how pipeline
\* consumers detect a cache hit" (TryCacheHit).
CacheHitDetectable ==
    [][pc' = "returned" /\ pc # "returned" =>
         \A t \in TasksOf(job) : task[t].state = "succeeded" =>
             ((t \in served) <=>
                ~\E i \in DOMAIN runs[t] : runs[t][i].terminal = "succeeded")]_vars

\* A run that started comes to an end: it returns, throws, or dies.
Terminates == (job # None) ~> (pc \in {"returned", "aborted", "idle"})

\* Every call of Run or Resume ends, and what it returns is a complete job: the
\* iteration limit of Execute and the silence limit of DispatchAndAwait never
\* leave a task that could still run (scheduler.cpp:88-113, 241-250).
CallsComplete == Terminates /\ ReturnsComplete

-----------------------------------------------------------------------------
(* The inductive invariant behind these properties, proved in               *)
(* EngineProofs.tla.                                                        *)

\* Locations inside a call for one task, `cur`, and locations inside Execute.
InCall == {"hit", "await", "store", "record", "thread", "markFailed", "retry", "redispatch"}
InExecute == {"propagate", "ready", "dispatch"} \cup InCall

\* The state of `cur` at each location of a call.
StateAt(loc) ==
    CASE loc \in {"hit", "await", "markFailed"} -> {"running"}
      [] loc \in {"store", "thread"}            -> {"succeeded"}
      [] loc = "record"                         -> {"succeeded", "cancelled"}
      [] loc = "retry"                          -> {"failed"}
      [] OTHER                                  -> {"pending"}

\* Execute works on a saved job, within the iteration limit.
JobInv ==
    /\ pc \in {"idle", "returned"} <=> job = None
    /\ job # None => job \in saved
    /\ pc \in InExecute => iter < MaxIterations

\* Memory and project.db agree on the states of the active job, but for a task
\* that Resume put back to pending and has not dispatched yet.
AgreeInv ==
    \A t \in Task : JobOf[t] = job =>
        \/ task[t].state = db[t].state
        \/ task[t].state = "pending" /\ db[t].state = "running"

\* The task of a call is in the state its location says, in memory and in
\* project.db, unless a Cancel came in the way, and its dependencies have
\* succeeded.
CurInv ==
    pc \in InCall =>
        /\ cur \in Task /\ JobOf[cur] = job /\ cur \notin todo
        /\ \/ task[cur].state \in StateAt(pc)
           \/ /\ pc \in {"hit", "await", "markFailed", "redispatch"}
              /\ job \in raced /\ task[cur].state = "cancelled"
        /\ db[cur].state = task[cur].state
        /\ \A d \in Deps[cur] : task[d].state = "succeeded"

\* A task that may still run has an attempt left.
AttemptsInv ==
    /\ \A t \in Task : db[t].state \in {"pending", "running"} => db[t].attempts < MaxAttempts
    /\ \A t \in Task : task[t].state \in {"pending", "running"} =>
          task[t].attempts < MaxAttempts \/ (pc = "markFailed" /\ cur = t) \/ pc = "aborted"
    /\ pc = "markFailed" /\ retryable => task[cur].attempts < MaxAttempts
    /\ pc \in {"await", "retry"} => task[cur].attempts < MaxAttempts

\* The snapshot of ready tasks stays ready, unless a Cancel comes in the way.
TodoInv ==
    pc \in InExecute =>
        \A t \in todo :
            /\ JobOf[t] = job
            /\ pc # "propagate" => \A d \in Deps[t] : task[d].state = "succeeded"
            /\ pc # "propagate" /\ job \notin raced => task[t].state = "pending"

\* At most the task of the call is running.
RunningInv ==
    pc \in InExecute =>
        \A t \in Task : JobOf[t] = job /\ task[t].state = "running" => pc \in InCall /\ t = cur

\* A pass without progress leaves no failure to propagate, so that a task is
\* ready after it.
ProgressInv ==
    job \notin raced /\ ~progressed =>
        /\ pc = "propagate" =>
              \A t \in Task \ todo :
                  JobOf[t] = job => ~(task[t].state = "pending" /\ DependencyFailed(t))
        /\ pc = "ready" => ReadyTasks # {}
        /\ pc = "dispatch" => todo # {}

\* While no worker was given up, the executor serves the task of the call and
\* nothing else, and its terminal event is the last one.
QuietInv ==
    silences = 0 =>
        /\ pc # "await" => busy = None /\ events = <<>>
        /\ busy \in {None, cur}
        /\ \A i \in DOMAIN events : i < Len(events) \/ busy # None => events[i].type = "artifact"
        /\ \A i \in DOMAIN events : events[i].task = cur

\* An exception leaves Execute for a reason.
OutcomeInv ==
    /\ outcome # "ok" => pc = "aborted"
    /\ ThrowsExplained

\* Nothing was skipped on account of the task about to be retried alone.
RetryInv ==
    pc = "retry" =>
        \A u \in Task : cur \in Deps[u] /\ db[u].state = "skipped" =>
            \E d \in Deps[u] \ {cur} : db[d].state \in Unsuccessful

SchedulerInv ==
    /\ TypeOK
    /\ JobInv
    /\ AgreeInv
    /\ CurInv
    /\ AttemptsInv
    /\ TodoInv
    /\ RunningInv
    /\ ProgressInv
    /\ QuietInv
    /\ OutcomeInv
    /\ RetryInv
    /\ RunsOnSucceededDeps
    /\ SkipJustified

=============================================================================
