# Verification of the spatial engine

TLA+ models of this repository: the scheduler and the engine that run
reconstruction pipelines, the executors and worker processes behind them, the
artifact store with the task cache, the project with its importers, the sparse
correction of a scene, and the photo-to-cloud desktop application. TLC checks
them on small instances; TLAPS proves the central results for every instance.

## 1. The system

| Component | Source | State | Operations | Interacts with |
|---|---|---|---|---|
| Scheduler | `engine/scheduler/` | task graph in memory; tables `tasks`, `task_runs`, `task_dependencies` | `Run`, `Resume`, `Cancel`, dispatch loop, retry, failure propagation | calls executor, cache, state store |
| Engine, execution manifests | `engine/engine.cpp`, `engine/pipeline/execution_manifest.cpp` | tables of manifests and stages | `RunPipeline`: compile, begin, run, mirror, finish, link the report | scheduler, cache, store; started by the command line |
| Task cache | `engine/cache/` | table `cache_entries` | `Lookup`, `ResolveOutput`, `StoreOutput` | manifests and rows of the artifact store |
| Executor contract | `engine/workers/worker_handle.h` | - | `Submit`, `WaitForEvent`, `Cancel`, `Shutdown` | between scheduler and executors |
| In-process executor | `engine/workers/in_process_executor.cpp` | mutex, condition variable, event queue, flags, one thread | the four operations, `RunTask` | runs a callback on its own thread |
| Process executor | `engine/workers/process_executor.cpp` | child process, flags without a lock | the four operations, `NextEvent`, `IngestArtifact` | protobuf frames over pipes; ingests into the store |
| Framing, child processes | `engine/workers/protocol_framing.cpp`, `child_process_*` | byte streams, process handles, signal mask | read and write frames, start, wait, terminate, kill | under the process executor |
| Worker processes | `engine/workers/python/demo_worker.py`, `adapters/colmap/colmap_worker*.cpp` | active task, cancellation flag, threads | receive, run, answer, heartbeat, acknowledge a cancellation | the pipes |
| COLMAP adapter, process runner | `adapters/colmap/colmap_adapter.cpp`, `colmap_cli.cpp`, `colmap_config.cpp`, `adapters/process/` | workspace, backend process, two reader threads | plan, run stages, time out, cancel, discover the model | inside the COLMAP worker |
| Artifact store | `core/artifacts/` | payload files, manifest files, quarantine, tables `artifacts`, `artifact_dependencies` | `Put`, `PutInstance`, `Get`, `GarbageCollect` | `MetadataDb`, file system |
| Project, metadata database | `core/project/`, `core/storage/` | project directory, `project.json`, writer lock, all tables | create, open, migrate, close, row operations | under everything |
| Importers, feature extraction | `importers/`, `engine/pipeline/feature_extraction.cpp` | sessions, frames, observations, trajectories, calibrations | import images, import trajectories, extract features | store and database |
| Sparse correction | `engine/pipeline/sparse_correction_runner.cpp` with verification, optimisation, bundle adjustment | revisions of a scene's reconstruction, closures, pose graphs, results | reconstruct, verify, optimise, apply, re-triangulate, adjust | a runner of the in-process executor; a nested worker |
| Photo-to-cloud | `python/research/photo_to_cloud/` | window, one worker process, cancel file, results, installations | start, stop, close, detect, install; reconstruct, mesh, texture | external programs, file system |
| Cloud viewer | `viewer_host.py` | a PLY, its backup, one session per window | load, save | pages in a browser, programs outside |
| Frame graph, quality report, geometry | `core/coordinates/`, `engine/pipeline/quality/`, `core/geometry/` | - | sequential floating-point algorithms | tasks of a pipeline |

What is hard in it:

* **Crashes.** Every `Mark`, `RecordRun`, `UpsertArtifact`, `InsertFrame`,
  `InsertReconstruction` is a SQLite transaction of its own, every file an atomic
  rename of its own. A job, a `Put`, an import or a correction is therefore many
  durable steps, and whatever comes after has to make sense of any prefix.
* **Threads.** The in-process executor joins, waits and notifies between two or
  three threads; cancellation comes from another thread than the one that waits;
  workers write frames from two threads; the desktop window shares its fields
  with a detection thread and its file with request handlers.
* **Processes.** Two commands race for one project; a worker, its backend and the
  engine die independently; pipes fill up.
* **Messages.** The process executor credits each frame to the task it submitted
  last, so late and doubled frames matter; a frame is bytes that may be cut.
* **Timeouts and retries.** A silent worker is declared dead but may live on; a
  retry reuses the workspace of the attempt before it.
* **Stale state.** Deduplication, cache hits, collections, "the newest revision"
  and a window's snapshot of a file decide on what may have changed since.

What makes each component correct: the scheduler runs a task only on succeeded
dependencies, explains every skip, throws only for a reason and otherwise returns a
complete job; a manifest says what happened; an executor answers each submission exactly once,
with what was made for it, and neither deadlocks nor loses a wake-up; a channel
delivers what was written and never hangs; an adapter leaves no backend behind
and answers for its own attempt; the store's rows lead to manifests and payloads,
it deletes nothing that has a row and collects all that has none; a project has
one scene with one history; a correction leaves the scene correctable; the
desktop runs one job, cleans up, reports truthfully and keeps a way back to every
cloud.
`PROJECT.json` lists each hazard at its line with the properties that would catch
it.

## 2. Modules

* `TaskLifecycle` - the abstract lifecycle of persisted tasks: what any observer
  of the `tasks` table may see, ends of the process included.
* `ExecutorContract` - what the scheduler relies on from a `WorkerExecutor`.
* `Scheduler` - `scheduler.cpp` with its database, the cache and an executor. A
  location `pc` marks the points between two durable writes (`hit`, `await`,
  `store`, `record`, `thread`, `markFailed`, `retry`, `redispatch`), and the
  process may end at each. `task` is the graph in memory, `db` the table: what
  is written when is explicit. `Cancel` may come at every moment at which a job is
  active, between the test of `AllTerminal` and the snapshot of ready tasks and
  between the snapshot and `Mark(kRunning)` too (`raced` remembers the jobs in which
  it took a task the scheduler was about to rely on), and a worker may be given up
  for its silence (`OnTimeout`, counted by `silences`) while it works on. Artifact
  refs are abstract; a task declares placeholders, and `Result` says what a worker
  makes of its inputs. The steps of the executor are those of `ExecutorContract`
  over the scheduler's variables, so that a comparison of the two would say
  nothing; what is shown is that `InProcessExecutor` implements the contract.
* `Engine` - extends `Scheduler` by `RunPipeline` and the manifest tables, one
  row at a time, and by the `report` command; the cache lives on between runs. An
  exception of the scheduler leaves `RunPipeline` and its manifest open
  (`LeaveByException`).
* `InProcessExecutor` - caller, worker thread and stopper at the granularity of
  critical sections, waits, notifications and joins.
* `ProcessExecutor` - host, pipes and one of the two workers, chosen in the
  initial state (`Racing` names the workers with which `Cancel` is called from
  another thread than the waiting one). Frames carry the
  number of the submission they were made for as a history the host does not
  see. Frames without effect on the host's state (accepted, progress, log,
  heartbeat) are left out.
* `WorkerChannel` - the layer below: a frame is a prefix and a body of bytes, the
  pipe is bounded, a worker has a main and a heartbeat thread (with a lock in the
  demo worker, without in the COLMAP one), a read has a deadline and is cut into
  slices. Handshake (with a hello of either version), shutdown and destructor on both
  platforms, with zombies, handles and `SIGPIPE`. A frame is known by its number; the contents are those
  of `ProcessExecutor`.
* `ColmapAdapter` - `WorkerRunTask` with the adapter and `RunSubprocess`: two
  attempts at a task in one workspace, stages whose backend writes to two bounded
  pipes, exits, is timed out or cancelled, or outlives a killed worker.
* `ArtifactStore` - `Put`, `PutInstance`, `Get` write by write, and
  `GarbageCollect` step by step, the rename into quarantine and the removal there
  included. There is one row per content because
  `content_hash` is `UNIQUE` and rows are written with `INSERT OR REPLACE`.
* `TaskCache` - composes the cache with `ArtifactStore`: which content, and is it
  still there.
* `MetadataTables` - the scene tables of `metadata_db.cpp` as operators on one
  database value: inserts with their constraints, and the look-ups.
* `SceneImport` - processes that create, open, read and import into one project;
  each insert a step, a write transaction a private copy until its commit, while
  a project row from another connection is refused.
* `LoopClosure` - the tables and the algorithms around loop closures as operators:
  candidate generation with its window, separation, score and top-k, the vote of
  the essential verifier, the rows of candidates, closures, pose graphs and
  optimization results with the look-ups that order them.
* `SparseCorrection` - extends `LoopClosure` by detection, both tasks of the
  correction runner and the optimize pipeline, with every refusal of a stage an
  input decides, every write, the gate, cancellation and crashes. The nested worker
  may report progress or send heartbeats (`heard`), fall silent, fail, or answer. A
  revision has a kind (`v1` to `v4`), a status and a clock.
* `PhotoWorker`, `PhotoCloud` - the three kinds of worker process with their
  external programs, and the window around them: commands, dialogs, the event
  loop, detection, installers.
* `CloudSave` - the viewer's request handlers over one PLY, which is binary or ASCII.
  A body is whole, or has all its points but not what follows them (`bare`), or less.
* `MC*` - instances for TLC. `*Proofs` - theorems about the module they are named
  after (`FoundationProofs` about `WorkerChannel`, `ArtifactStore` and `TaskCache`,
  `EngineProofs` about `Scheduler` too, `PhotoCloudProofs` about `PhotoWorker` and `CloudSave`).

Definitions called "Faulty variant" or "Mutant" are not part of any
specification: each is a plausible mistake in the definition after it, and
`PROJECT.json` says which property notices it.

## 3. Runs

All runs have `CHECK_DEADLOCK FALSE`: a scheduler whose jobs have returned, an
executor that was shut down, a store with no call to serve and a window that was
closed may stop.

| Run | Instance | Shows |
|---|---|---|
| `scheduler` | chain of 3 tasks, the last strict and a cache hit for the first, 2 attempts, 1 silent worker, 1 cancel, 1 crash, 1 deleted artifact | dependencies first, justified skips, every exception with its reason, refinement of `TaskLifecycle`; every call ends, and a return means a complete job |
| `engine` | 2 runs of a 2-stage pipeline on one input, 1 silent worker, 1 cancel, 1 crash, 1 deleted artifact, at most 2 of these together | inputs are threaded and, while no worker was given up, outputs reproducible up to the manifest; manifests mirror tasks, tell hits, link their own report, and stay open only for a reason; every command ends |
| `in_process_executor` | 2 tasks, 3 submissions, 2 cancels | contract, no `WORKER_BUSY` once answered, no thread after shutdown; joins, waits and shutdowns end |
| `process_workers` | either worker, 2 tasks, 3 submissions, 1 cancel, 1 death | host flags stay consistent; answers belong to their submissions (with the COLMAP worker, up to the first one after a cancellation); the COLMAP worker has every submission answered |
| `process_colmap_cancel` | COLMAP worker, 2 submissions, 1 cancel | violation: the second frame of an acknowledgement completes the next task, which never ran |
| `worker_channel` | either worker, either platform, 2 threads, frames of 4 bytes, pipe of 3 | frames arrive whole and in order, the last ones too; no process, handle or signal is left, except on Win32 by a worker that has exited when its handshake fails; handshake and shutdown end |
| `colmap_adapter` | 2 platforms, several documents, 2 attempts, 1 death | no backend outlives an attempt whose worker lives, both streams are captured, stages in order, truthful answers, own models; every attempt ends |
| `task_cache` | 2 contents, 3 instances, 2 keys, 2 crashes, 2 rotten files, 1 instance deleted by hand | a hit leads to the right content and its payload or quarantine; referenced payloads stay; collections are complete, but for one `.gc` file for each end of the process in the middle of one; until the first crash the index tells the history |
| `correction` | 2 documents, one of them without points and left by an earlier session, 3 frames, 3 runs of which the second may be a detection, 1 crash | the newest revision is always a succeeded one; chains compact, evidence is complete, the closures of a trajectory are one story (candidates within their limits, verdicts of candidates, graphs of verdicts), history is append-only; every task ends once its nested worker has fallen silent |
| `project_import` | 2 processes, 3 commands, 1 crash | one scene with one linear history and agreeing look-ups; rows lead to content, trajectories are whole, calibrations unique, at most one frame incomplete for each kill; the lock is released |
| `photo_cloud` | one dense mode, one installation, 3 commands | one job at a time, clean when idle but for what a terminated mesher leaves, whole installations; truthful reports, unmixed matches, readable textures; foreign files and user paths kept; a stop ends the job |
| `cloud_save` | 2 windows, 3 requests, 3 contents, binary or ASCII | the cloud has its points, a binary one all it declares, and a backup the original; windows do not overwrite each other; every request is answered |

A listed property that is a conjunction of named ones (`RecordsTruthful`,
`CorrectionWhole`, `SceneConsistent`, ...) asks one question about one component;
the parts are stated and commented one by one in the module.

What the repository says and the code does not do. The violation run shows the
first; TLC refutes each of the others when the restriction named is lifted, and
the hazards of `PROJECT.json` quote the sentences:

* The host takes one frame of a cancellation's acknowledgement for the end of the
  task and the other for the completion of the next one
  (`process_colmap_cancel`).
* After `Scheduler::Resume` a stage runs on the placeholder of a dependency that
  finished before the restart (`InputsThreaded`; `RunPipeline` never resumes).
* The retry of a silent worker throws `WORKER_BUSY` out of `Run` (the second part of
  `ThrowsExplained`).
* The demo worker drops a request that comes too early, and its caller waits for
  ever (hence `ColmapAnswers`).
* The cache goes on answering with a payload that was quarantined (the exception
  in `CacheHitBacked`).
* A retry may emit the model of the attempt before it (the exception in
  `EmittedOwn`).
* With the COLMAP bundle adjuster a corrected scene can never be corrected again
  (`SceneStaysCorrectable` with `Backend = "colmap"`).
* Importing a content again under another context takes the artifact row an earlier
  observation refers to (image-import.md:204 and :208 say every `artifact_ref`
  resolves). `ContentReachable` asks for less: the content has a row under its hash,
  and the instance the observation names keeps its manifest.
* An import killed between frame and observation can never be completed, although
  image-import.md:183 has it resume: `RecordsComplete` allows one such frame for
  each kill.
* A mesher stopped between report and mesh leaves a report that says succeeded
  (README.md:109-110 of the application says otherwise; the exception in
  `MeshReported`).

Other behaviours the models contain, met while stating the properties. Each
explains a restriction of a passing run:

* A `Cancel` that takes the one ready task between `AllTerminal` and `ReadyTasks`
  makes `Execute` throw "scheduler stalled"; one that takes a task between the
  snapshot, or a retry, and `Mark(kRunning)` makes it throw for
  `cancelled -> running`, in a chain as well. `ThrowsExplained` says that these
  exceptions have no other cause, and `OrphanExplained` that the manifest they leave
  open has none.
* A retry is credited with artifacts of a silent attempt before it, so what a task
  made is claimed in `ProvenanceFaithful` only while no worker was given up.
* A failed run is recorded one attempt too high. `active_graph_` is left pointing
  at the caller's graph when `Execute` throws.
* `ProcessExecutor` gives the next task to a worker that has died, and ignores
  an acknowledgement read between the two halves of `Cancel`.
* A read that gives up inside a frame, or two threads of the COLMAP worker that
  write at once, break the stream for good (the premises of `FramesFaithful`).
* A crash in the middle of `Get` or `Put` leaves a row that says valid over a
  quarantined payload, or an artifact without edges; `Put` deduplicates on such a
  row, so that content cannot be stored again, and takes a rotten payload an
  earlier call left behind for its own.
* With `GcDuringWrite = TRUE` a collection deletes a payload that has just got
  its row. The constant is `FALSE`, as the writer lock of a project has it
  between processes; within one process nothing enforces it.
* A collection that ends between the rename and the removal of a payload leaves
  `quarantine/<hash>.gc`, which no later collection looks at.
* A worker on Win32 that has exited when the engine rejects its handshake (the end of
  its stream, a frame that does not parse, a hello of another version) leaves its
  process and stdin handles behind: `~ChildProcess` waits only for a worker that runs
  (the exception in `NothingLeftOpen`).
* The runner of a correction waits as long as its nested worker reports anything:
  every event begins the 15 seconds anew, and a cancellation is not passed on.
  `TaskEnds` is about workers that fall silent at some time.
* An ASCII cloud may lose its faces to a save, as only a line for every point is
  asked for; the backup made before has them.
* A stop during the last copy of a mesher leaves its `.metadata` file (the exception
  in `IdleIsClean`).
* The pose graphs of the optimize pipeline keep the trajectory's `created_at`
  while their results carry the closure's clock, so "the latest pose graph"
  prefers a graph of the correction runner, and two of the pipeline's tie.
* A correction without observations always fails its gate; one of a document
  without points then leaves two succeeded revisions.
* An edit from outside between the viewer's last comparison and its replacement
  is lost; the loser of two installations fails although a whole one is there.

**Bounds.** `MaxCrashes`, `MaxCancels`, `MaxLost`, `MaxSilences`, `MaxFlips`, `MaxSubmits`,
`MaxDeaths`, `MaxRuns`, `MaxCommands`, `MaxRequests`, `MaxTimeouts` bound events
of the environment; one or two of each are enough for an event to meet the
consequences of another one (two crashes: one leaves an orphan, one interrupts
its collection; three commands: create, import, import again). `MaxIncidents` bounds
the ends, cancels, deletions and silences of a run together; in `scheduler` it is
high enough for one of each, in `engine` any two of them meet.
`MaxAttempts = 2` is the code's default. `MissLimit` (10 in the code),
`MaxIterations` (10000), the sizes of frames and pipes and the outputs of a
backend are parameters: every value passes through the same branches as long as a
frame does not fit into the pipe and an output overfills it, which the instances
see to. Three submissions let a late frame of the first meet the second, and a
reuse of the first task id meet the third. Joins of a task graph are left to the
proofs, which hold for every graph.

**Fairness.** Weak fairness on what an operating system or an interpreter keeps
running: the scheduler thread and the worker (`FairSpec` of `Scheduler`; the miss
limit makes even a silent worker come to an end), the engine's process, each
thread of `InProcessExecutor` (assuming the runner callback returns), the host's
reader, the second half of `Cancel` and a living worker in `ProcessExecutor`, the
host's reader in `WorkerChannel` (never the worker), the runner and its reader
threads in `ColmapAdapter` (never the backend), the task in `SparseCorrection` (its
nested worker may fall silent, and is then given up; that its reports come to an end
is the premise of `TaskEnds`), a command of `SceneImport`, the window's event
loop and, once its job was cancelled, the worker in `PhotoCloud` (never an external
program), a request handler in `CloudSave`. Strong fairness is used where a clock
or a flag is polled and other steps keep disabling the branch in between: the five
seconds after which `Shutdown` releases a worker (`Release`), and the branches of
the COLMAP adapter's poll that see a deadline or a token (`PollTimedOut`,
`PollCancelled`); a deadline that has passed and a token that is set stay so, and
the code looks at them on every round. Nothing is assumed of users, cancels,
crashes, deletions or silence. `ArtifactStore` and `TaskCache` state safety only.

## 4. Proofs

The `*Proofs` modules are checked by TLAPS. They assume no more than the named
`ASSUME`s of the modules, which every run evaluates (among them that `None` is no
value of the sets it is told apart from, and that there is a document), and what
a theorem states after its own `ASSUME`.

* **Scheduler** (in `EngineProofs`, as the engine's proof rests on it). None of the promises is inductive. `RunsOnSucceededDeps` needs
  to know that the snapshot `todo` still holds tasks with succeeded dependencies
  although a cancel may have touched it; `ThrowsExplained` needs a minimal
  non-terminal task, which exists because `Rank` numbers an acyclic graph, and to
  follow what a `Cancel` at each moment may have taken away; the
  refinement needs memory and table to agree but for the task being worked on.
  `SchedulerInv` is the conjunction of one named part for each: what the call in
  progress is about (`JobInv`, `CurInv`), agreement of memory and table
  (`AgreeInv`), the snapshot (`TodoInv`), running tasks (`RunningInv`), attempts
  and retries (`AttemptsInv`, `RetryInv`), progress (`ProgressInv`), what the executor
  holds while no worker was given up (`QuietInv`), the reason of an exception
  (`OutcomeInv`), and the two dependency rules. `Invariance` proves it inductive, one step per action;
  `DependenciesFirst`, `SkipsExplained` and `ExceptionsExplained` follow from it, and
  `LifecycleRefinement` maps every step to a step or a stutter of `TaskLifecycle`.
* **In-process executor.** `ExecutorInv` ties the flags to the thread
  (`ThreadInv`), the join to the thread it waits for (`JoinInv`) and the queue to
  what was answered (`QueueInv`). From it: `NeverBusyOnceAnswered`,
  `NothingRunsAfterShutdown`, and `ContractRefinement`, so that the scheduler's
  results carry over to it.
* **Engine.** That a manifest can be recomputed is a statement about everything
  below it, so `EngineInv` joins `SchedulerInv` with four groups. `TableInv`: the
  two copies of a plan agree, nothing succeeds before the stage before it, and an
  unfinished stage still has its placeholder. `CallInv`: in a chain one stage is
  ready at a time (`OneReady`), it has been fed exactly when its dependency is done
  and threaded (`Fed`), and while a worker is awaited what was received, what is
  queued and what it has left make up what is due (`Delivering`, as long as no worker
  was given up; the same premise is in `Made` and `CacheSound`). `KeptInv`: an
  entry of the cache is all its key makes (`CacheSound`), a served stage has no run
  and any other succeeded one has (`Recorded`), and a placeholder is never in the
  store (`InStore`). `PlanInv`: a manifest precedes its stages and its job, the
  loop mirrors stages in order, and a row is as announced or as the tasks table has
  it for good (`Opened`, `Mirroring`, `Accounted`, `Closed`). `ProvenanceKept`,
  `RecordsTell` and `HitsTold` follow, for every set of plans and any number of
  retries, cancellations at any moment, silent workers, deleted artifacts and crashes. Resume is no step of
  `EngineSpec`: `RunPipeline` does not call it. The assumptions are what
  `PipelineCompiler::Compile` builds (`PlanAssumption`: at least one stage, each
  after the first declaring the placeholder of the one before it), that a
  placeholder is no content hash, and that a cacheable stage makes one artifact
  (`ContentAssumption`). The last one is needed: the compiler declares one output
  per stage and `TaskCache` keeps one reference per key, so a hit on a stage that
  made two would restore only the first.
* **Process executor.** The host never looks at the task a frame names, so
  `FaithfulUntilCancelled` rests on where the one request can be: in the pipe
  (`Written`), with the reader thread (`Read`), claimed (`Claimed`), being served
  (`Served`), between the two frames of an acknowledgement (`Stopping`) or
  answered, while what was read, what is in the pipe and what the worker has left
  make up the task's output (`Frames`, `Collected`). This is `InStep`. It cannot
  hold after a cancelled submission of the COLMAP worker, whose second frame is
  left over (the violation run), so the invariant `ExecInv` is `Host`, `Past` (the
  answers given so far) and `Clean => InStep`. `AnswersBelong` proves the property
  for every set of tasks, outputs, submissions, cancellations and deaths, with the
  hypothesis that the COLMAP worker is not cancelled from a second thread
  (`"colmap" \notin Racing`, as in both runs): between the two halves of such a
  `Cancel` the host can read the empty completion of an acknowledgement before
  it has noted that one is due.
* **Worker channel.** The frames are numbered, so every byte has a position (`Pos`)
  in the stream the worker writes, and `InPlace` lays that stream out: what
  `ReadFrame` holds begins the next frame, the pipe goes on from there, and the
  thread that writes goes on from the pipe. `Stream` says so until a read gives up
  inside a frame or a frame is begun inside another; after either of them nothing
  can be said of what follows, which is why it is conditional. `Holding` and
  `OneByOne` derive the single writer from the demo worker's lock. `NothingLeftOpen`
  needs one fact that survives both accidents: the first frame of a handshake is
  the hello (`Hello`), for nothing else is written before it is whole. `ChannelInv`
  joins these with quotas and counts (`Kept`), the end of the executor (`Gone`) and
  the two signal states (`Signals`). `HostHearsAll` and `NoLeak` follow, for every
  size of prefix, body and pipe and any number of frames, diagnostics and timeouts.
  The one arithmetic fact underneath is `Positions`: a position belongs to one byte
  of one frame.
* **COLMAP adapter.** What a mapper leaves of its model depends on whether its
  subprocess is still alive when the attempt moves on, so `AdapterInv` says first
  where the attempt is: the stages run so far are the first of its plan (`InOrder`)
  and the mapper is the last of them (`MapperLast`). `Counted` accounts for every
  unit of output: written, in the pipe or captured. From it `Child`: the thread that
  drains the pipe ends only when the pipe is empty and nobody holds its other end,
  and the child is reaped before that thread is joined. Only a worker that died
  leaves a running backend behind (`Orphans`), and each model file was written by
  this attempt's mapper or by such a leftover (`Models`). `SubprocessesEndClean` and
  `AttemptsTellTheTruth` follow, for any documents, output, pipe capacity and number
  of attempts and deaths. `BuildAssumption` and `BoundAssumption` type the constants.
* **Artifact store and task cache.** `StoreInv` adds to the two promises about rows
  what each location of a call relies on (`MidCallInv`) and that a collection's
  lists hold all the garbage and nothing else (`MidGcInv`), and that each end of the
  process leaves at most one payload renamed and not removed (`TrashBounded`). `StoreInvariance`,
  `ReferencedPayloadsStay` and `CollectionComplete` hold when collections do not
  overlap with writes (`GcDuringWrite = FALSE`), for any number of crashes and
  rotten files; TLC refutes them with `GcDuringWrite = TRUE`. `IndexHonest` adds
  that a quarantined content is flagged or about to be (`Flagged`). Over the cache,
  where a user may delete an instance, the promise that every row leads to a
  manifest fails; `StoreCore` is what remains, and `CacheInv` says the rest of the
  instances that are still there (`LostAreGone`, `RowsLead`, `EntriesLead`). From
  it `HitsBacked`, and `CacheKeepsReferenced`, `CacheCollectionComplete`,
  `CacheIndexHonest`: the properties of the `task_cache` run for its own
  specification.
* **Project and importers.** `ImportInv` says of the tables and files: types
  (`Typed`), a manifest only over a migrated database (`Migrated`), rows under their
  project (`Rooted`), versions in one chain that the current one ends (`Chained`),
  records that agree with the records they name (`Recorded`), artifacts that lead to
  their content (`Known`), trajectories with document and provenance (`Whole`),
  disjoint calibrations (`Calibrated`), and no more incomplete frames than processes
  were killed (`Parted`). Of each process (`Held`) it says what its
  command has decided (`CourseAt`), has found and still relies on (`Local`), and that
  it holds the lock when it may write (`AloneAt`). The argument is that only the
  holder of the lock writes, so that what another process keeps for its next step
  stays true; the exception is `Create`, which takes no lock and touches nothing but
  the layout, the manifest, the schema and the project row. A trajectory is written in a
  transaction: `Transacting` follows its three artifacts through the private copy,
  where one row of a trajectory may be ahead of its trajectory (`WholeBut`,
  `Pending`), until the commit closes the gap. `SceneStaysConsistent` and
  `RecordsStayWhole` follow for any processes, sensors, imports, trajectories and
  intervals and any number of commands and ends of a process. `ImportConstants` says
  only that a file's content is an image, that time stamps are natural numbers and
  that `None` is a value of its own.
  What the proof needed of the model was checked in the code: the foreign key that
  refuses a scene without its project (`CanCreateScene`), and the project row
  that SQLite refuses while another process is in a transaction. One condition could not be removed:
  two racing `Create` calls leave two projects in one database (project.cpp:66-83
  takes no lock), and `ImageImporter` accepts an explicit session of the other one
  (image_importer_main.cpp:118-127), which `ImportTumCameraTrajectory` refuses
  (trajectory_importer.cpp:232-239). Frames of one project's scene are then found
  under a session of the other. `ViewsAgree` therefore compares look-ups by session
  only where there is one project; every other part holds without that condition.
* **Sparse correction.** `CorrectionInv` has fifteen parts: what a run knows of
  itself and its closure (`Locals`, `KnownClosure`), numbers, clocks and keys
  (`Numbered`, `ClosureKeys`, `RevisionKeys`), the evidence behind each row and
  gathered by the run in progress (`GraphEvidence`, `ResultEvidence`,
  `RevisionEvidence`, `Gathered`, `Detected`), and the chains (`Overtaken`,
  `Chains`, `ChainSoFar`, `HandedOn`). `CorrectionInvariance` proves it inductive
  for either backend and any number of documents, frames, runs and crashes;
  `SpecAppendsOnly` follows. `SpecStaysCorrectable` and `SpecStaysWhole` need
  `Backend = "gtsam"`: a superseded revision has to be overtaken by a later clock
  (`Overtaken`), and the COLMAP bundle adjuster stamps its revision with the clock
  0. `VoteHasOneWinner` characterises the running tally of `VoteCheirality` by the
  strict majority it is meant to find.
* **Photo-to-cloud application.** `PhotoInv` has nine parts. `Held`: the window
  knows the one worker process, and nothing begins while an installation runs, a
  dialog is open or the window is gone. `Announced`: a queued event says what still
  holds when it is read, with at most one end of a job and one of an installation
  queued. `Placed` and `Owned` say where the worker is in its commands and who
  removes each temporary file. `Copied`: the copy of the database is empty, and
  there only while a COLMAP-CL attempt may still be undone. `Reported` reads report
  and clouds off the place in the reconstruction, `Packed` and `Whole` say what a
  GLB and an installation hold at each step. `PhotoInvariance` proves it for any
  camera models, candidates, installations and number of commands;
  `JobsStayApart`, `ResultsStayTruthful` and `SpecKeepsOthers` follow.
  `WorkerAssumption` types the constants. The offsets of packed images are a
  recursive function: that it exists and grows is shown from the least image where
  it would not (`OffsetsDefined`, `OffsetsGrow`).
* **Cloud viewer** (in `PhotoCloudProofs`; its specification is `SaveSpec`, so that
  one module can extend both). Contents are numbered as they are written, so that an overtaken
  snapshot never equals the file again (`Numbered`); a handler inside `save` holds
  the lock (`Locked`); the backup holds the original or the session will never
  replace the file (`BackupHolds`); a body that passes the check has its points, and
  all that is declared in a binary file (`Locked`, `Backed`); a page whose snapshot is somebody else's file
  posts what was made from it (`MadeFromSnapshot`). `SpecKeepsCloud` and
  `SpecKeepsSaves` follow, for any number of windows, contents and requests.

Each inductive invariant was checked by TLC on the instance of its run before it
was proved.

Only model-checked: all liveness (`CallsComplete`, `RunEnds`, `CallsReturn`,
`ColmapAnswers`, `ChannelEnds`, `AttemptEnds`, `TaskEnds`, `LockReleased`,
`StopHonoured`, `PostAnswered`), which the prover cannot do under fairness. Every
safety invariant of a passing run has a theorem. What `GenerateLoopClosureCandidates`
selects is a sort with ties; the proofs use only that its members are valid pairs.

## 5. Not modelled, and the plan

Abstracted for good: floating-point geometry and optimisation
(`core/geometry/`, `core/trajectory/`, `adapters/visual_geometry/`, the solvers of
`adapters/gtsam/`), the frame graph and the quality report built on them, image and
model formats (`colmap_converter.cpp`, `colmap_model_writer.cpp`), hashing, JSON
and SQL text, command lines, the pages of the viewer. They keep no state between
calls, and what they compute is a real number TLC cannot enumerate. Three details
are left out too: `colmap_cl_backend.run_program` does not ask for a stop any more
once the program has closed its output and is about to exit, a page that stops
sending in the middle of a save is given up without an answer
(viewer_host.py:255-258), and the temporary file of a save stays behind when the
application ends. `AtomicWrite`
and a SQLite statement are single steps; a disk that loses acknowledged writes is
out of scope. `image_importer.cpp` is not built. Validation and ordering of task
graphs and the parsing of pipeline definitions are assumptions on the constants of
`Scheduler`.
