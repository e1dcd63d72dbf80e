--------------------------- MODULE ColmapAdapter ---------------------------
(***************************************************************************)
(* One COLMAP task inside the worker: WorkerRunTask of colmap_worker.cpp   *)
(* calls ColmapAdapter::CreatePlan and Execute, which runs the stages of   *)
(* the plan through RunSubprocess (adapters/process/process_runner_*.cpp)  *)
(* and turns the native model the mapper leaves behind into an artifact.   *)
(*                                                                         *)
(* RunSubprocess is three threads: the caller that polls the child, and    *)
(* one reader per output stream.  Every attempt of the task works in the   *)
(* same directory, temp/<job>/<task>, so what an earlier attempt left      *)
(* there, or a backend that outlived its worker still writes there, is     *)
(* there for the next one.  Output is counted in units of a full pipe      *)
(* write; the three files of a model carry the attempt that wrote them.    *)
(***************************************************************************)
EXTENDS Naturals, FiniteSets, Sequences, Functions

CONSTANTS
    Build,        \* the pairs of a platform and a document (config_json) to consider
    PipeCapacity, \* units of output a pipe holds
    MaxOutput,    \* [Stream -> Nat], units a stage writes to each stream at most
    MaxAttempts,  \* dispatches of the task (RetryPolicy::max_attempts)
    MaxDeaths     \* deaths of the worker process

Stream  == {"stdout", "stderr"}

ASSUME BoundAssumption ==
    PipeCapacity \in Nat \ {0} /\ MaxAttempts \in Nat \ {0} /\ MaxDeaths \in Nat
    /\ MaxOutput \in [Stream -> Nat]
ASSUME BuildAssumption == \A b \in Build : b = <<b[1], b[2]>> /\ b[1] \in {"posix", "win32"}

VARIABLES
    platform,   \* which of the two RunSubprocess is built
    doc,        \* config_json
    attempt,    \* dispatches so far
    phase,      \* where the task thread of the worker is
    stage,      \* index into the plan
    token,      \* CancelToken::cancelled_
    backend,    \* attempt -> the process it spawned last
    pipe,       \* stream -> units written and not yet read
    wrote,      \* stream -> units the process of this stage has written
    captured,   \* stream -> units the reader has appended
    reader,     \* stream -> the thread in DrainPipe
    outcome,    \* ProcessResult::outcome
    sparse,     \* sparse/0: file -> the attempt that wrote it, 0 if absent
    answer,     \* what the worker has told the host of this attempt
    ran,        \* history: the stages of this attempt, and how each ended
    emitted,    \* history: the models handed to ArtifactProduced
    lingering,  \* history: attempts that ended while their mapper had not returned
    deaths

runVars  == <<pipe, wrote, captured, reader, outcome>>
taskVars == <<attempt, phase, stage, token, answer, ran>>
vars == <<platform, doc, taskVars, backend, runVars, sparse, emitted, lingering, deaths>>

File    == {"cameras", "images", "points3D"}
Attempt == 1..MaxAttempts
Native  == [File -> 0..MaxAttempts]

ColmapStage == <<"feature_extractor", "matcher", "mapper", "bundle_adjuster">>

-----------------------------------------------------------------------------
(* The configuration document: its top-level keys, the keys of its sections, *)
(* whether every value has the type and range asked for, and the values that *)
(* later code branches on.                                                   *)

CalibrationKeys == {"fx", "fy", "cx", "cy", "distortion", "intrinsics", "extrinsics",
                    "calibration"}
TopLevelKeys == {"threads", "seed", "enabled_stages"} \cup Range(ColmapStage)

SectionKeys ==
    [feature_extractor |-> {"max_image_size", "max_num_features", "detector", "descriptor",
                            "sift_scale_space_octaves", "sift_domain_size_pooling"},
     matcher           |-> {"guided_matching", "max_ratio", "max_distance", "cross_check"},
     mapper            |-> {"min_num_matches", "ba_refine_principal_point",
                            "ba_min_num_residuals_for_multithreading"},
     bundle_adjuster   |-> {"loss_function", "loss_scale_px", "max_num_iterations",
                            "refine_focal_length", "refine_principal_point",
                            "refine_extra_params", "refine_extrinsics", "refine_intrinsics"}]

RejectCalibrationVocabulary(d) ==
    CalibrationKeys \cap (d.keys \cup UNION {d.section[s] : s \in DOMAIN d.section}) # {}

RejectUnknownKeys(d) ==
    \/ ~(d.keys \subseteq TopLevelKeys)
    \/ \E s \in DOMAIN d.section : ~(d.section[s] \subseteq SectionKeys[s])

\* The values: each of its type and in its range, and no intrinsics refinement.
ValuesAccepted(d) == d.typed /\ ~d.refinesIntrinsics

\* The stage list: known names, none twice, and a seed for a bundle adjuster.
StagesAccepted(d) ==
    /\ Range(d.stages) \subseteq Range(ColmapStage)
    /\ IsInjective(d.stages)
    /\ "bundle_adjuster" \in Range(d.stages) => d.seed

\* FromJson.  A blank document is the default configuration; the envelope of the
\* pipeline compiler is unwrapped before anything is validated, so what the
\* document says is what the envelope holds.
FromJson(d) ==
    \/ d.form = "blank"
    \/ /\ d.form \in {"bare", "envelope"}
       /\ ~RejectCalibrationVocabulary(d)
       /\ ~RejectUnknownKeys(d)
       /\ ValuesAccepted(d)
       /\ StagesAccepted(d)

\* The canonical order, whatever the order of the list.
Plan(d) ==
    LET IfListed(s) == IF s \in Range(d.stages) THEN <<s>> ELSE <<>>
    IN  IF d.stages = <<>> THEN <<ColmapStage[1], ColmapStage[2], ColmapStage[3]>>
        ELSE IfListed(ColmapStage[1]) \o IfListed(ColmapStage[2])
             \o IfListed(ColmapStage[3]) \o IfListed(ColmapStage[4])

\* The stages Execute knows: the bundle adjuster has a seam of its own.
KnownStages == {"feature_extractor", "matcher", "mapper"}

-----------------------------------------------------------------------------
None == [state |-> "none", stage |-> "none", code |-> "none"]
NothingRead == [s \in Stream |-> 0]

Init ==
    /\ \E b \in Build : platform = b[1] /\ doc = b[2]
    /\ attempt = 0 /\ phase = "idle" /\ stage = 1 /\ token = FALSE
    /\ backend = [a \in Attempt |-> None]
    /\ pipe = NothingRead /\ wrote = NothingRead /\ captured = NothingRead
    /\ reader = [s \in Stream |-> "none"]
    /\ outcome = "none"
    /\ sparse = [f \in File |-> 0]
    /\ answer = "none" /\ ran = <<>> /\ emitted = {} /\ lingering = {} /\ deaths = 0

Mine == backend[attempt]
Name == Plan(doc)[stage]

\* WorkerRunTask answers the host: TaskCompleted, the two frames of a
\* cancellation, or TaskFailed with the error's own recoverable flag.
Answer(a) ==
    /\ answer' = a
    /\ phase' = "answered"

\* The scheduler dispatches the task: the first time, or because the last attempt
\* failed recoverably, or because its worker died.  The workspace is the same.
Dispatch ==
    /\ \/ phase = "idle"
       \/ phase = "answered" /\ answer = "recoverable"
       \/ phase = "dead"
    /\ attempt < MaxAttempts
    /\ attempt' = attempt + 1
    /\ stage' = 1 /\ token' = FALSE /\ ran' = <<>> /\ answer' = "none"
    /\ phase' = "plan"
    /\ UNCHANGED <<platform, doc, backend, runVars, sparse, emitted, lingering, deaths>>

\* CreatePlan, then the checks of Execute that come before any side effect.
CreatePlan ==
    /\ phase = "plan"
    /\ IF FromJson(doc) /\ Range(Plan(doc)) \subseteq KnownStages
       THEN phase' = "stage_inputs" /\ UNCHANGED answer
       ELSE Answer("failed")
    /\ UNCHANGED <<platform, doc, attempt, stage, token, backend, runVars, sparse, ran, emitted,
                   lingering, deaths>>

\* CreateWorkspace keeps whatever is there; MaterializeInputs fails closed when an
\* input the host should have put there is missing.
MaterializeInputs ==
    /\ phase = "stage_inputs"
    /\ \/ phase' = "boundary" /\ UNCHANGED answer
       \/ Answer("failed")
    /\ UNCHANGED <<platform, doc, attempt, stage, token, backend, runVars, sparse, ran, emitted,
                   lingering, deaths>>

\* The boundary before a stage.
Cancelled ==
    /\ phase = "boundary" /\ stage <= Len(Plan(doc)) /\ token
    /\ Answer("cancelled")
    /\ UNCHANGED <<platform, doc, attempt, stage, token, backend, runVars, sparse, ran, emitted,
                   lingering, deaths>>

-----------------------------------------------------------------------------
(* RunSubprocess. *)

Spawned ==
    /\ backend' = [backend EXCEPT ![attempt] =
                      [state |-> "running", stage |-> Name, code |-> "none"]]
    /\ pipe' = NothingRead /\ wrote' = NothingRead /\ captured' = NothingRead
    /\ reader' = [s \in Stream |-> "draining"]
    /\ outcome' = "none"
    /\ phase' = "poll"
    /\ ran' = Append(ran, [stage |-> Name, end |-> "running"])
    /\ UNCHANGED answer

Starts == phase = "boundary" /\ stage <= Len(Plan(doc)) /\ ~token

\* Pipes, environment, file actions and the exec itself fail before a process
\* exists, on either platform; posix_spawnp reports a failed exec synchronously.
SpawnPosix ==
    /\ platform = "posix" /\ Starts
    /\ \/ Spawned
       \/ Answer("failed") /\ UNCHANGED <<backend, runVars, ran>>
    /\ UNCHANGED <<platform, doc, attempt, stage, token, sparse, emitted, lingering, deaths>>

SpawnWin32 ==
    /\ platform = "win32" /\ Starts
    /\ \/ Spawned
       \/ Answer("failed") /\ UNCHANGED <<backend, runVars, ran>>
    /\ UNCHANGED <<platform, doc, attempt, stage, token, sparse, emitted, lingering, deaths>>

Dead(b) == b.state \in {"zombie", "reaped"}

\* Mutant: stderr is not read.
DrainStdoutOnly(s) ==
    /\ s = "stdout" /\ reader[s] = "draining"
    /\ pipe[s] > 0
    /\ pipe' = [pipe EXCEPT ![s] = 0]
    /\ captured' = [captured EXCEPT ![s] = @ + pipe[s]]
    /\ UNCHANGED <<platform, doc, taskVars, backend, wrote, reader, outcome, sparse, emitted,
                   lingering, deaths>>

\* DrainPipe appends what is there ...
Drain(s) ==
    /\ reader[s] = "draining"
    /\ pipe[s] > 0
    /\ pipe' = [pipe EXCEPT ![s] = 0]
    /\ captured' = [captured EXCEPT ![s] = @ + pipe[s]]
    /\ UNCHANGED <<platform, doc, taskVars, backend, wrote, reader, outcome, sparse, emitted,
                   lingering, deaths>>

\* ... and ends when the pipe is empty and its last writer is gone.
DrainEnds(s) ==
    /\ reader[s] = "draining"
    /\ pipe[s] = 0 /\ Dead(Mine)
    /\ reader' = [reader EXCEPT ![s] = "done"]
    /\ UNCHANGED <<platform, doc, taskVars, backend, pipe, wrote, captured, outcome, sparse,
                   emitted, lingering, deaths>>

Break(how) ==
    /\ outcome' = how
    /\ phase' = "join"

Reaped == backend' = [backend EXCEPT ![attempt].state = "reaped"]

\* waitpid(WNOHANG): the child is there to be reaped, or it is still running.
PollPosix ==
    /\ platform = "posix" /\ phase = "poll"
    /\ IF Mine.state = "zombie"
       THEN Reaped /\ Break("completed")
       ELSE phase' = "alive" /\ UNCHANGED <<backend, outcome>>
    /\ UNCHANGED <<platform, doc, attempt, stage, token, answer, ran, pipe, wrote, captured,
                   reader, sparse, emitted, lingering, deaths>>

\* WaitForSingleObject for 25 ms.
PollWin32 ==
    /\ platform = "win32" /\ phase = "poll"
    /\ IF Mine.state = "zombie"
       THEN Reaped /\ Break("completed")
       ELSE phase' = "alive" /\ UNCHANGED <<backend, outcome>>
    /\ UNCHANGED <<platform, doc, attempt, stage, token, answer, ran, pipe, wrote, captured,
                   reader, sparse, emitted, lingering, deaths>>

\* SIGKILL or TerminateProcess, and the wait for it: the child is gone after it,
\* even if it had exited by itself since the poll.
KillAndReap(how) ==
    /\ Reaped
    /\ Break(how)
    /\ UNCHANGED <<platform, doc, attempt, stage, token, answer, ran, pipe, wrote, captured,
                   reader, sparse, emitted, lingering, deaths>>

PollCancelled == phase = "alive" /\ token /\ KillAndReap("cancelled")
\* Mutant: the deadline is noted, the child left alone and its output abandoned.
TimedOutUnkilled ==
    /\ phase = "alive" /\ ~token
    /\ Break("timedOut")
    /\ pipe' = NothingRead /\ reader' = [s \in Stream |-> "done"]
    /\ UNCHANGED <<platform, doc, attempt, stage, token, answer, ran, backend, wrote,
                   captured, sparse, emitted, lingering, deaths>>

PollTimedOut  == phase = "alive" /\ ~token /\ KillAndReap("timedOut")

PollAgain ==
    /\ phase = "alive" /\ ~token
    /\ phase' = "poll"
    /\ UNCHANGED <<platform, doc, attempt, stage, token, answer, ran, backend, runVars, sparse,
                   emitted, lingering, deaths>>

\* The two joins, and the exit code of a child that ended by itself.
Joined == \A s \in Stream : reader[s] = "done"

Join ==
    /\ phase = "join"
    /\ Joined
    /\ phase' = "returned"
    /\ UNCHANGED <<platform, doc, attempt, stage, token, answer, ran, backend, runVars, sparse,
                   emitted, lingering, deaths>>

-----------------------------------------------------------------------------
(* Execute goes on with the result. *)

Ended(how) == ran' = [ran EXCEPT ![Len(ran)].end = how]

NextStage ==
    /\ phase = "returned" /\ outcome = "completed" /\ Mine.code = "zero"
    /\ Ended("ok")
    /\ stage' = stage + 1
    /\ phase' = "boundary"
    /\ UNCHANGED <<platform, doc, attempt, token, answer, backend, runVars, sparse, emitted,
                   lingering, deaths>>

\* Linger notes an attempt whose mapper was stopped or failed on its way.
Linger == lingering' = IF Name = "mapper" THEN lingering \cup {attempt} ELSE lingering

StageFails ==
    /\ phase = "returned"
    /\ ~(outcome = "completed" /\ Mine.code = "zero")
    /\ Ended("bad")
    /\ Linger
    /\ Answer(CASE outcome = "timedOut"  -> "recoverable"
                [] outcome = "cancelled" -> "cancelled"
                [] outcome = "completed" -> "failed")
    /\ UNCHANGED <<platform, doc, attempt, stage, token, backend, runVars, sparse, emitted,
                   deaths>>

Present == {f \in File : sparse[f] # 0}

\* Mutant: the cameras file stands for the model.
DiscoverByCameras ==
    /\ phase = "boundary" /\ stage > Len(Plan(doc))
    /\ \/ "cameras" \notin Present /\ Answer("completed") /\ UNCHANGED emitted
       \/ /\ "cameras" \in Present
          /\ emitted' = emitted \cup {[attempt |-> attempt, files |-> sparse]}
          /\ Answer("completed")
    /\ UNCHANGED <<platform, doc, attempt, stage, token, ran, backend, runVars, sparse,
                   lingering, deaths>>

\* DiscoverNativeModelFiles and the conversion: no model is a completion without
\* an artifact, a whole one is emitted unless it cannot be read or converted, and
\* a part of one fails the task.
Discover ==
    /\ phase = "boundary" /\ stage > Len(Plan(doc))
    /\ \/ Present = {} /\ Answer("completed") /\ UNCHANGED emitted
       \/ /\ Present = File
          /\ emitted' = emitted \cup {[attempt |-> attempt, files |-> sparse]}
          /\ Answer("completed")
       \/ Present # {} /\ Answer("failed") /\ UNCHANGED emitted
    /\ UNCHANGED <<platform, doc, attempt, stage, token, ran, backend, runVars, sparse,
                   lingering, deaths>>

-----------------------------------------------------------------------------
(* The backend, the canceller and death. *)

\* A backend whose worker is alive writes into the pipes and blocks when one is
\* full; one that has lost its worker has nobody to read it.
BackendPrints(s) ==
    /\ phase # "dead" /\ attempt > 0 /\ Mine.state = "running"
    /\ wrote[s] < MaxOutput[s] /\ pipe[s] < PipeCapacity
    /\ wrote' = [wrote EXCEPT ![s] = @ + 1]
    /\ pipe' = [pipe EXCEPT ![s] = @ + 1]
    /\ UNCHANGED <<platform, doc, taskVars, backend, captured, reader, outcome, sparse, emitted,
                   lingering, deaths>>

BackendWritesModel(a, f) ==
    /\ backend[a].state = "running" /\ backend[a].stage = "mapper"
    /\ sparse[f] # a
    /\ sparse' = [sparse EXCEPT ![f] = a]
    /\ UNCHANGED <<platform, doc, taskVars, backend, runVars, emitted, lingering, deaths>>

\* An orphan is reaped by init.
BackendExits(a, code) ==
    /\ backend[a].state = "running"
    /\ backend' = [backend EXCEPT ![a].code = code,
                                  ![a].state = IF a = attempt /\ phase # "dead"
                                               THEN "zombie" ELSE "reaped"]
    /\ UNCHANGED <<platform, doc, taskVars, runVars, sparse, emitted, lingering, deaths>>

\* ReaderLoop finds a TaskCancelled for the active task.
Cancel ==
    /\ phase \notin {"idle", "answered", "dead"} /\ ~token
    /\ token' = TRUE
    /\ UNCHANGED <<platform, doc, attempt, phase, stage, answer, ran, backend, runVars, sparse,
                   emitted, lingering, deaths>>

\* The worker is killed (ChildProcess::Terminate) or crashes.  Only the worker:
\* its backend goes on.
WorkerDies ==
    /\ phase \notin {"idle", "answered", "dead"}
    /\ deaths < MaxDeaths
    /\ deaths' = deaths + 1
    /\ phase' = "dead"
    /\ lingering' = IF \E i \in DOMAIN ran : ran[i].stage = "mapper"
                    THEN lingering \cup {attempt} ELSE lingering
    /\ backend' = [backend EXCEPT ![attempt].state = IF @ = "zombie" THEN "reaped" ELSE @]
    /\ pipe' = NothingRead /\ wrote' = NothingRead /\ captured' = NothingRead
    /\ reader' = [s \in Stream |-> "none"] /\ outcome' = "none"
    /\ UNCHANGED <<platform, doc, attempt, stage, token, answer, ran, sparse, emitted>>

WorkerStep ==
    \/ CreatePlan \/ MaterializeInputs \/ Cancelled
    \/ SpawnPosix \/ SpawnWin32 \/ PollPosix \/ PollWin32
    \/ PollCancelled \/ Join \/ NextStage \/ StageFails \/ Discover

Next ==
    \/ Dispatch \/ WorkerStep \/ PollTimedOut \/ PollAgain
    \/ \E s \in Stream : Drain(s) \/ DrainEnds(s) \/ BackendPrints(s)
    \/ \E a \in Attempt : \/ \E f \in File : BackendWritesModel(a, f)
                          \/ \E code \in {"zero", "other"} : BackendExits(a, code)
    \/ Cancel \/ WorkerDies

\* The worker's threads run on.  A deadline that has passed has passed at every
\* later check of it, and a token that is set stays set: PollTimedOut and
\* PollCancelled are not missed for ever.  Nothing is asked of the backend.
Fairness ==
    /\ WF_vars(WorkerStep) /\ WF_vars(PollAgain)
    /\ SF_vars(PollCancelled) /\ SF_vars(PollTimedOut)
    /\ \A s \in Stream : WF_vars(Drain(s)) /\ WF_vars(DrainEnds(s))

Spec == Init /\ [][Next]_vars /\ Fairness

-----------------------------------------------------------------------------
(* Properties. *)

AdapterTypeOK ==
    /\ <<platform, doc>> \in Build
    /\ attempt \in 0..MaxAttempts /\ deaths \in 0..MaxDeaths
    /\ phase \in {"idle", "plan", "stage_inputs", "boundary", "poll", "alive", "join",
                  "returned", "answered", "dead"}
    /\ token \in BOOLEAN
    /\ backend \in [Attempt -> [state : {"none", "running", "zombie", "reaped"},
                                stage : {"none"} \cup KnownStages,
                                code : {"none", "zero", "other"}]]
    /\ pipe \in [Stream -> 0..PipeCapacity]
    /\ \A s \in Stream : wrote[s] \in 0..MaxOutput[s] /\ captured[s] \in 0..wrote[s]
    /\ reader \in [Stream -> {"none", "draining", "done"}]
    /\ outcome \in {"none", "completed", "timedOut", "cancelled"}
    /\ sparse \in Native
    /\ answer \in {"none", "completed", "cancelled", "failed", "recoverable"}
    /\ lingering \subseteq Attempt

\* Whenever RunSubprocess has returned, and until it is called again, its child is
\* reaped and nothing of it is left in a pipe, however the wait ended; so an attempt
\* whose worker lives never leaves a backend behind ("no orphan process, no stale
\* pipe", process_runner.h).
ReturnsClean ==
    /\ AdapterTypeOK
    /\ phase \in {"returned", "boundary", "answered"} /\ attempt > 0 =>
          /\ Mine.state \in {"none", "reaped"}
          /\ \A s \in Stream : pipe[s] = 0 /\ reader[s] # "draining"
    /\ \A a \in Attempt : backend[a].state = "running" /\ a # attempt => deaths > 0

\* What a stage that ended by itself printed is captured to the last unit, on both
\* streams, although the process may exit with full pipes (RunSubprocess joins the
\* readers after the wait).
CaptureComplete ==
    phase = "returned" => captured = wrote

\* A backend only runs for a document that FromJson accepts, in the canonical order
\* of the stages whatever the document's order, and only after every stage before it
\* has exited with zero in this very attempt (ColmapAdapter::Execute).
StagesInOrder ==
    ran # <<>> =>
      /\ FromJson(doc)
      /\ \A i \in DOMAIN ran : i < Len(ran) => ran[i].end = "ok"
      /\ \A i, j \in DOMAIN ran : i < j =>
            \E m, n \in DOMAIN ColmapStage :
               m < n /\ ColmapStage[m] = ran[i].stage /\ ColmapStage[n] = ran[j].stage

\* The host is told the truth: a completion means the whole plan ran, a cancellation
\* that somebody asked for it, and a failure the scheduler may retry that a stage ran
\* out of time (WorkerRunTask, with the errors of Execute).
AnswerTruthful ==
    /\ answer = "completed" => /\ Len(ran) = Len(Plan(doc))
                               /\ \A i \in DOMAIN ran : ran[i].end = "ok"
    /\ answer = "cancelled" => token
    /\ answer = "recoverable" => outcome = "timedOut" /\ ran[Len(ran)].end = "bad"

\* The model an attempt emits is whole, and its files are those its own mapper wrote,
\* unless an earlier attempt ended with its mapper on the way: then the files of that
\* attempt may still be there, or still be written.  The scheduler gives every attempt
\* of a task the same temp/<job>/<task> (scheduler.cpp:236), and CreateWorkspace keeps
\* what it finds there, though worker-protocol.md:92-94 says "Retried tasks are re-run
\* from scratch with a fresh deterministic workspace."
EmittedOwn ==
    \A e \in emitted :
      \A f \in File : \/ e.files[f] = e.attempt
                      \/ e.files[f] \in lingering

\* Every attempt is answered or dies with its worker: a full pipe, a silent backend or
\* one that never ends cannot keep WorkerRunTask (stage_timeout_ms, the reader threads).
AttemptEnds ==
    (phase \notin {"idle", "answered", "dead"}) ~> (phase \in {"answered", "dead"})

\* RunSubprocess leaves nothing behind and nothing out, however the wait for the
\* backend ended.
SubprocessClean == ReturnsClean /\ CaptureComplete

\* What the host is told and given is what this attempt did: its stages in order, its
\* outcome, its model.
AttemptTruthful == StagesInOrder /\ AnswerTruthful /\ EmittedOwn
=============================================================================
