------------------------------- MODULE Engine -------------------------------
(***************************************************************************)
(* Engine::RunPipeline (engine/engine.cpp) around the scheduler, with the   *)
(* execution manifests it keeps in project.db                               *)
(* (engine/pipeline/execution_manifest.cpp) and the `run` command that      *)
(* calls it (cli/main.cpp).                                                 *)
(*                                                                          *)
(* A job is one compiled plan: its tasks are the stages, a chain in the     *)
(* order of Rank.  The manifest is written before the scheduler runs, one   *)
(* row for the plan and one per stage, and brought up to date after it      *)
(* returned; each write is a transaction of its own.  The command line      *)
(* never calls Resume: a job that a crash interrupted stays as it is.       *)
(***************************************************************************)
EXTENDS Scheduler

CONSTANTS
    Validating    \* SUBSET Job, the plans whose last stage is a validation

ASSUME EngineAssumption ==
    /\ Validating \subseteq Job
    /\ \A s, t \in Task : JobOf[s] = JobOf[t] /\ Rank[s] = Rank[t] => s = t

VARIABLES
    manifest,     \* [Job -> row of execution_manifests, or None]
    stage,        \* [Task -> row of execution_stages, or None]
    step,         \* where RunPipeline is
    plan,         \* the job it runs
    turn          \* the stages the current loop has still to visit

engineVars == <<manifest, stage, step, plan, turn>>
allVars    == <<vars, engineVars>>

Manifest == [status : {"running", "succeeded", "failed", "cancelled"}, report : Ref \cup {None}]
StageRow == [status : Status, hit : BOOLEAN, outputs : Seq(Ref)]

ASSUME NoRowAssumption == None \notin Manifest \cup StageRow

EngineInit ==
    /\ Init
    /\ manifest = [j \in Job |-> None] /\ stage = [t \in Task |-> None]
    /\ step = "idle" /\ plan = None /\ turn = {}

\* The refs a plan takes from outside: the inputs of its first stage.
External(j) == UNION {DeclaredInputs[t] : t \in {s \in TasksOf(j) : Deps[s] = {}}}

\* What PipelineCompiler::Compile makes: a chain of at least one stage, ranked by
\* position, in which a stage after the first declares the placeholder of the one
\* before it.
ASSUME PlanAssumption ==
    /\ \A j \in Job : \E t \in TasksOf(j) : \A s \in TasksOf(j) : Rank[s] <= Rank[t]
    /\ \A t \in Task :
          /\ Deps[t] = {d \in TasksOf(JobOf[t]) : Rank[d] + 1 = Rank[t]}
          /\ Rank[t] # 0 => Deps[t] # {}
          /\ Deps[t] # {} => DeclaredInputs[t] = {Placeholder[d] : d \in Deps[t]}

\* A placeholder ("pipeline/stage/output") is no content hash.  A stage makes
\* something, and a cacheable one a single artifact: the cache keeps only the first.
ASSUME ContentAssumption ==
    \A t \in Task :
        /\ Placeholder[t] \notin Stored
        /\ \A j \in Job : Placeholder[t] \notin External(j)
        /\ \A I \in SUBSET Ref :
              /\ Result[KindOf[t]][I] # <<>>
              /\ t \in Cacheable => Len(Result[KindOf[t]][I]) = 1
              /\ \A s \in Task : Placeholder[s] \notin Refs(Result[KindOf[t]][I])

FirstOf(tasks) == CHOOSE t \in tasks : \A s \in tasks : Rank[t] <= Rank[s]

LastOf(tasks) == CHOOSE t \in tasks : \A s \in tasks : Rank[s] <= Rank[t]

-----------------------------------------------------------------------------

\* RegisterInput of every --input file: Put finds them or stores them.
RunCommand(j) ==
    /\ step = "idle" /\ pc \in {"idle", "returned"} /\ j \notin saved /\ manifest[j] = None
    /\ store' = store \cup External(j)
    /\ step' = "begin" /\ plan' = j
    /\ UNCHANGED <<schedVars, execVars, envVars, manifest, stage, turn>>

BeginManifest ==
    /\ step = "begin" /\ step' = "stages" /\ turn' = TasksOf(plan)
    /\ manifest' = [manifest EXCEPT ![plan] = [status |-> "running", report |-> None]]
    /\ UNCHANGED <<vars, stage, plan>>

InsertStage ==
    /\ step = "stages" /\ turn # {}
    /\ LET t == FirstOf(turn)
       IN  /\ stage' = [stage EXCEPT ![t] = [status |-> "pending", hit |-> FALSE,
                                             outputs |-> <<>>]]
           /\ turn' = turn \ {t}
    /\ UNCHANGED <<vars, manifest, step, plan>>

\* scheduler_->Run: the call, the steps of the threads it waits for, its return.
CallScheduler ==
    /\ step = "stages" /\ turn = {}
    /\ RunJob(plan)
    /\ step' = "run" /\ UNCHANGED <<manifest, stage, plan, turn>>

WhileRunning ==
    /\ step = "run"
    /\ SchedulerStep \/ OnTimeout \/ WorkerStep \/ \E t \in Task : Cancel(t)
    /\ UNCHANGED engineVars

SchedulerReturned ==
    /\ step = "run" /\ pc = "returned"
    /\ step' = "mirror" /\ turn' = TasksOf(plan)
    /\ UNCHANGED <<vars, manifest, stage, plan>>

\* A succeeded task without a run came from the cache; only a succeeded task
\* publishes outputs.
Mirrored(t) ==
    [status |-> task[t].state, hit |-> task[t].state = "succeeded" /\ runs[t] = <<>>,
     outputs |-> IF task[t].state = "succeeded" THEN task[t].outputs ELSE <<>>]

UpdateStage ==
    /\ step = "mirror" /\ turn # {}
    /\ LET t == FirstOf(turn)
       IN  stage' = [stage EXCEPT ![t] = Mirrored(t)] /\ turn' = turn \ {t}
    /\ UNCHANGED <<vars, manifest, step, plan>>

AggregateStatus(j) ==
    IF \E t \in TasksOf(j) : task[t].state = "cancelled" THEN "cancelled"
    ELSE IF \E t \in TasksOf(j) : task[t].state # "succeeded" THEN "failed" ELSE "succeeded"

\* Faulty variant: the manifest is closed before its stages are.
FinishEarly ==
    /\ step = "mirror" /\ step' = "link"
    /\ manifest' = [manifest EXCEPT ![plan].status = AggregateStatus(plan)]
    /\ UNCHANGED <<vars, stage, plan, turn>>

Finish ==
    /\ step = "mirror" /\ turn = {} /\ step' = "link"
    /\ manifest' = [manifest EXCEPT ![plan].status = AggregateStatus(plan)]
    /\ UNCHANGED <<vars, stage, plan, turn>>

\* The quality report of a validating plan is linked when the index has it, and
\* the manifest is read back; the command ends.
LinkReport ==
    LET outputs == task[LastOf(TasksOf(plan))].outputs IN
    /\ step = "link" /\ step' = "idle" /\ plan' = None
    /\ manifest' = IF plan \in Validating /\ outputs # <<>> /\ Head(outputs) \in store
                   THEN [manifest EXCEPT ![plan].report = Head(outputs)] ELSE manifest
    /\ UNCHANGED <<vars, stage, turn>>

\* What ExecutionManifestStore::Load finds: the manifest with its stages in order.
Load(j) ==
    IF manifest[j] = None THEN None
    ELSE [row |-> manifest[j],
          stages |-> [n \in {Rank[t] : t \in {s \in TasksOf(j) : stage[s] # None}} |->
                         stage[CHOOSE t \in TasksOf(j) : Rank[t] = n]]]

\* The report of a run the `report` command prints, None when it prints an error.
ReportCommand(j) ==
    IF manifest[j] = None THEN None
    ELSE IF Load(j).row.report \in store THEN Load(j).row.report ELSE None

\* The process is killed: what the manifest says stays.
EngineDies ==
    /\ \/ step # "idle" /\ step # "run" /\ crashes < MaxCrashes /\ Bounded
          /\ crashes' = crashes + 1 /\ Die
       \/ step = "run" /\ Crash
    /\ step' = "idle" /\ plan' = None /\ turn' = {}
    /\ UNCHANGED <<manifest, stage>>

\* An exception of the scheduler leaves RunPipeline, and the manifest open; the
\* command prints it and the process ends.
LeaveByException ==
    /\ step = "run" /\ ExitAfterException
    /\ step' = "idle" /\ plan' = None /\ turn' = {}
    /\ UNCHANGED <<manifest, stage>>

Lose == step = "idle" /\ (\E r \in Ref : LoseArtifact(r)) /\ UNCHANGED engineVars

EngineStep ==
    \/ BeginManifest \/ InsertStage \/ CallScheduler \/ SchedulerReturned
    \/ UpdateStage \/ Finish \/ LinkReport
    \/ step = "run" /\ SchedulerStep /\ UNCHANGED engineVars
    \/ step = "run" /\ WorkerStep /\ UNCHANGED engineVars
    \/ LeaveByException

EngineNext ==
    \/ \E j \in Job : RunCommand(j)
    \/ BeginManifest \/ InsertStage \/ CallScheduler \/ WhileRunning \/ SchedulerReturned
    \/ UpdateStage \/ Finish \/ LinkReport
    \/ LeaveByException
    \/ EngineDies
    \/ Lose

\* The process, its scheduler and its worker keep going; nobody must start a
\* command, cancel a task or kill the process.
EngineSpec == EngineInit /\ [][EngineNext]_allVars /\ WF_allVars(EngineStep)

-----------------------------------------------------------------------------
(* Properties. *)

EngineTypeOK ==
    /\ TypeOK
    /\ manifest \in [Job -> Manifest \cup {None}] /\ stage \in [Task -> StageRow \cup {None}]
    /\ step \in {"idle", "begin", "stages", "run", "mirror", "link"}
    /\ plan \in Job \cup {None} /\ turn \subseteq Task

\* A manifest that is not running any more agrees with the tasks table for good:
\* every stage has the state the task ended with, an unsuccessful stage publishes
\* nothing, and the manifest succeeded exactly if all stages did (engine.cpp:95-114).
ManifestMirrors ==
    /\ EngineTypeOK
    /\ \A j \in Job : manifest[j] # None /\ manifest[j].status # "running" =>
        /\ \A t \in TasksOf(j) :
            /\ stage[t] # None /\ stage[t].status = db[t].state
            /\ stage[t].outputs # <<>> => stage[t].status = "succeeded"
        /\ (manifest[j].status = "succeeded")
             <=> (\A t \in TasksOf(j) : stage[t].status = "succeeded")
        /\ manifest[j].status = "cancelled"
             => \E t \in TasksOf(j) : stage[t].status = "cancelled"

\* What a manifest publishes can be recomputed from what it says went in: the
\* outputs of a stage are what its kind makes from the outputs published by the
\* stage before it, or from the external inputs, through cache hits, retries and
\* artifacts lost in between.
PublishedReproducible ==
    \A t \in Task : stage[t] # None /\ stage[t].outputs # <<>> =>
        \* while the stages are being mirrored, those before t already are
        LET in == IF Deps[t] = {} THEN DeclaredInputs[t]
                  ELSE UNION {Refs(stage[d].outputs) : d \in Deps[t]}
        IN  stage[t].outputs = Result[KindOf[t]][in]

\* A stage is shown as a cache hit exactly if the cache answered, though the
\* engine only infers it from the absence of runs (engine.cpp:101-103).
HitMeansServed ==
    \A t \in Task : stage[t] # None => (stage[t].hit => t \in served)
                                       /\ (t \in served /\ stage[t].status = "succeeded" => stage[t].hit)

\* RunPipeline has no handler around the scheduler (engine.cpp:83-114): a manifest
\* says "running" for a job nobody runs only after the process was killed, a Cancel
\* came in the way of the scheduler, or a worker was given up for its silence.
OrphanExplained ==
    \A j \in Job : manifest[j] # None /\ manifest[j].status = "running" /\ plan # j
                        => crashes > 0 \/ j \in raced \/ silences > 0

\* A linked quality report is the output of a validation that succeeded, never a
\* placeholder; and the report of a validated run can be printed as long as
\* nothing was killed, given up or deleted (engine.cpp:116-131, cli/main.cpp:309-351).
ReportIsResult ==
    \A j \in Validating : manifest[j] # None /\ plan # j =>
        LET last == Load(j).stages[Rank[LastOf(TasksOf(j))]]
        IN  /\ manifest[j].report # None =>
                    last.status = "succeeded" /\ Head(last.outputs) = manifest[j].report
            /\ manifest[j].status = "succeeded" /\ crashes = 0 /\ lost = 0 /\ silences = 0 =>
                    ReportCommand(j) = Head(last.outputs)

\* The provenance of a run holds together from the inputs of a dispatched task to
\* the outputs its manifest publishes, across retries, cache hits, cancellation and
\* the end of the process.  A worker given up for its silence may still answer, and
\* the next attempt of its task takes the answer for its own: from then on nothing
\* is claimed of what a task made (scheduler.cpp:241-262).
ProvenanceFaithful ==
    /\ InputsThreaded
    /\ silences = 0 => OutputsFaithful /\ PublishedReproducible

\* What the manifest of a run says is what happened to it: it mirrors the tasks,
\* tells cache hits apart and links the report of this very run; and when the
\* scheduler throws, or a manifest stays open, a kill, a Cancel that came in the way
\* or a silent worker is the reason.
RecordsTruthful ==
    /\ ThrowsExplained
    /\ ManifestMirrors
    /\ HitMeansServed
    /\ OrphanExplained
    /\ ReportIsResult

\* Every command that runs a pipeline comes to an end.
RunEnds == step # "idle" ~> step = "idle"

=============================================================================
