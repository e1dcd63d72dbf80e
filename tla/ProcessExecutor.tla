-------------------------- MODULE ProcessExecutor --------------------------
(***************************************************************************)
(* engine/workers/process_executor.cpp and the worker process behind it:   *)
(* workers/python/demo_worker.py or adapters/colmap/colmap_worker*.cpp.    *)
(* The two are joined by FIFO pipes of frames; the host reads frames only  *)
(* inside WaitForEvent and credits each to the task it submitted last,     *)
(* whatever task the frame names.                                          *)
(*                                                                         *)
(* The executor has no mutex: when Cancel comes from a thread other than   *)
(* the one in WaitForEvent, its two effects are two steps.  Frames without *)
(* effect on the host (accepted, progress, log, heartbeat) are left out;   *)
(* because heartbeats keep coming, WaitForEvent does not time out while    *)
(* the worker lives.                                                       *)
(***************************************************************************)
EXTENDS Naturals, Sequences

CONSTANTS
    Task, Ref,
    Output,        \* [Task -> Seq(Ref)], what the worker makes of a task
    None,
    Workers,       \* the worker programs to consider, of "demo" and "colmap"
    Racing,        \* those that Cancel is used with from another thread
    IngestMayFail, \* a payload or manifest may be rejected by IngestArtifact
    MaxSubmits, MaxCancels, MaxDeaths

ASSUME OutputAssumption ==
    /\ Output \in [Task -> Seq(Ref)]
    /\ \A t \in Task : Output[t] # <<>>
ASSUME WorkerAssumption ==
    Workers \subseteq {"demo", "colmap"} /\ Racing \subseteq Workers /\ IngestMayFail \in BOOLEAN
ASSUME BoundAssumption == MaxSubmits \in Nat /\ MaxCancels \in Nat /\ MaxDeaths \in Nat

VARIABLES
    worker,         \* the worker program
    caller,         \* the scheduler thread: "idle" or "wait" in DispatchAndAwait
    got,            \* the artifacts it has collected for this submission
    log,            \* history: how each submission ended
    attached,       \* child_ is not null
    running,        \* running_
    current,        \* task_uuid_
    cancelPending,  \* cancel_pending_
    pendingFailure, \* pending_failure_
    canceller,      \* the thread in Cancel
    asked,          \* history: Cancel was called for this submission
    toWorker,       \* frames in the worker's stdin
    toHost,         \* frames in its stdout
    alive,          \* the worker process runs
    incoming,       \* colmap: state.incoming
    active,         \* the request being served (active_task, active_task_id)
    token,          \* its cancellation flag
    left,           \* the artifacts it has still to send
    stage,          \* how far the worker is with it
    submits, cancels, deaths

hostVars   == <<caller, got, log, attached, running, current, cancelPending,
                pendingFailure>>
cancelVars == <<canceller, asked>>
workVars   == <<incoming, active, token, left, stage>>
pipes      == <<toWorker, toHost>>
bounds     == <<submits, cancels, deaths>>
vars == <<worker, hostVars, cancelVars, workVars, pipes, alive, bounds>>

Request == [of : 1..MaxSubmits, task : Task]

ASSUME NoneAssumption == None \notin Task \cup Ref \cup Request

\* A submission is numbered by the requests before it, which frames carry along
\* as a history.
ToWorker == [type : {"request", "cancel"}, req : Request]
ToHost == [type : {"stopped", "artifact", "completed", "empty", "failed", "crashed"},
           of : 1..MaxSubmits, ref : Ref \cup {None}]
Answer == [task : Task, of : 1..MaxSubmits, asked : BOOLEAN, outputs : Seq(Ref),
           type : {"completed", "cancelled", "failed", "crashed"}]

TypeOK ==
    /\ worker \in Workers
    /\ caller \in {"idle", "wait"}
    /\ got \in Seq(Ref)
    /\ log \in Seq(Answer)
    /\ attached \in BOOLEAN /\ running \in BOOLEAN /\ alive \in BOOLEAN
    /\ cancelPending \in BOOLEAN /\ pendingFailure \in BOOLEAN
    /\ current \in Task \cup {None}
    /\ canceller \in {"no", "wrote"} /\ asked \in BOOLEAN
    /\ toWorker \in Seq(ToWorker) /\ toHost \in Seq(ToHost)
    /\ incoming \in Request \cup {None}
    /\ active \in Request \cup {None}
    /\ token \in BOOLEAN
    /\ left \in Seq(Ref)
    /\ stage \in {"idle", "claimed", "work", "stopping", "ended"}
    /\ submits \in 0..MaxSubmits /\ cancels \in 0..MaxCancels /\ deaths \in 0..MaxDeaths

-----------------------------------------------------------------------------
(* The host. *)

\* Submit.  Inputs that cannot be materialised are kept as a pending failure; a
\* broken pipe goes unnoticed until the next read.
Submit(t, materialized) ==
    /\ caller = "idle"
    /\ attached /\ ~running
    /\ submits < MaxSubmits
    /\ submits' = submits + 1
    /\ running' = TRUE
    /\ current' = t
    /\ IF materialized
       THEN /\ toWorker' = IF alive
                           THEN Append(toWorker, [type |-> "request",
                                                  req |-> [of |-> submits + 1, task |-> t]])
                           ELSE toWorker
            /\ cancelPending' = FALSE
            /\ UNCHANGED pendingFailure
       ELSE /\ pendingFailure' = TRUE
            /\ UNCHANGED <<toWorker, cancelPending>>
    /\ caller' = "wait"
    /\ got' = <<>>
    /\ asked' = FALSE
    /\ UNCHANGED <<worker, log, attached, canceller, workVars, toHost, alive, cancels, deaths>>

\* Cancel writes its frame ...
CancelWrite ==
    /\ canceller = "no"
    /\ caller = "wait" /\ running /\ attached
    /\ cancels < MaxCancels
    /\ cancels' = cancels + 1
    /\ asked' = TRUE
    /\ canceller' = IF alive /\ worker \in Racing THEN "wrote" ELSE "no"
    /\ cancelPending' = (cancelPending \/ (alive /\ worker \notin Racing))
    /\ toWorker' = IF alive
                   THEN Append(toWorker, [type |-> "cancel",
                                          req |-> [of |-> submits, task |-> current]])
                   ELSE toWorker
    /\ UNCHANGED <<worker, caller, got, log, attached, running, current, pendingFailure,
                   workVars, toHost, alive, submits, deaths>>

\* ... and then notes that it did.
CancelNote ==
    /\ canceller = "wrote"
    /\ canceller' = "no"
    /\ cancelPending' = TRUE
    /\ UNCHANGED <<worker, caller, got, log, attached, running, current, pendingFailure, asked,
                   workVars, pipes, alive, bounds>>

\* A terminal event reaches the scheduler; `of` is the submission it was made for.
Conclude(type, of) ==
    /\ log' = Append(log, [task |-> current, of |-> of, asked |-> asked,
                           outputs |-> got, type |-> type])
    /\ caller' = "idle"
    /\ running' = FALSE
    /\ cancelPending' = FALSE
    /\ UNCHANGED <<got, current>>

\* WaitForEvent after a failed materialisation.
ReportPendingFailure ==
    /\ caller = "wait" /\ attached /\ pendingFailure
    /\ pendingFailure' = FALSE
    /\ Conclude("failed", submits)
    /\ UNCHANGED <<worker, attached, cancelVars, workVars, pipes, alive, bounds>>

\* The frame NextEvent reads.
Reads(types) ==
    /\ caller = "wait" /\ attached /\ ~pendingFailure
    /\ toHost # <<>>
    /\ Head(toHost).type \in types

\* TaskArtifactProduced, verified and ingested.
ReadArtifact ==
    /\ Reads({"artifact"})
    /\ got' = Append(got, Head(toHost).ref)
    /\ toHost' = Tail(toHost)
    /\ UNCHANGED <<worker, caller, log, attached, running, current, cancelPending, pendingFailure,
                   cancelVars, workVars, toWorker, alive, bounds>>

\* Faulty variant: the worker is left running after a rejected artifact.
RejectArtifactOnly ==
    /\ Reads({"artifact"})
    /\ IngestMayFail
    /\ Conclude("failed", Head(toHost).of)
    /\ toHost' = Tail(toHost)
    /\ UNCHANGED <<worker, attached, pendingFailure, cancelVars, workVars, toWorker, alive, bounds>>

\* IngestArtifact fails: the task fails and TerminateWorker drops the child.
RejectArtifact ==
    /\ Reads({"artifact"})
    /\ IngestMayFail
    /\ Conclude("failed", Head(toHost).of)
    /\ attached' = FALSE
    /\ alive' = FALSE
    /\ toHost' = <<>> /\ toWorker' = <<>>
    /\ incoming' = None /\ active' = None /\ token' = FALSE /\ left' = <<>> /\ stage' = "idle"
    /\ UNCHANGED <<worker, pendingFailure, cancelVars, bounds>>

\* TaskProgress "cancelled" ends the task, if a cancellation is known to be
\* pending.
ReadStopped ==
    /\ Reads({"stopped"})
    /\ IF cancelPending THEN Conclude("cancelled", Head(toHost).of)
       ELSE UNCHANGED <<log, caller, running, cancelPending, got, current>>
    /\ toHost' = Tail(toHost)
    /\ UNCHANGED <<worker, attached, pendingFailure, cancelVars, workVars, toWorker, alive, bounds>>

\* TaskCompleted; without outputs and with a cancellation pending it is the
\* acknowledgement of that.
ReadCompleted ==
    /\ Reads({"completed", "empty"})
    /\ Conclude(IF cancelPending /\ Head(toHost).type = "empty" THEN "cancelled"
                                                                 ELSE "completed",
                Head(toHost).of)
    /\ toHost' = Tail(toHost)
    /\ UNCHANGED <<worker, attached, pendingFailure, cancelVars, workVars, toWorker, alive, bounds>>

\* TaskFailed, as permanent ("failed") or recoverable ("crashed").
ReadFailed ==
    /\ Reads({"failed", "crashed"})
    /\ Conclude(Head(toHost).type, Head(toHost).of)
    /\ toHost' = Tail(toHost)
    /\ UNCHANGED <<worker, attached, pendingFailure, cancelVars, workVars, toWorker, alive, bounds>>

\* Faulty variant: the end of the stream passes for a timeout.
ReadEofAsTimeout ==
    /\ caller = "wait" /\ attached /\ ~pendingFailure
    /\ toHost = <<>> /\ ~alive
    /\ UNCHANGED vars

\* The end of the stream: MarkCrashed, with the dead child still attached.
ReadEof ==
    /\ caller = "wait" /\ attached /\ ~pendingFailure
    /\ toHost = <<>> /\ ~alive
    /\ Conclude("crashed", submits)
    /\ UNCHANGED <<worker, attached, pendingFailure, cancelVars, workVars, pipes, alive, bounds>>

\* Shutdown, from the thread that drives the executor: the worker exits or is
\* terminated, and what it still wrote is thrown away.
Shutdown ==
    /\ caller = "idle" /\ attached
    /\ attached' = FALSE
    /\ alive' = FALSE
    /\ toHost' = <<>> /\ toWorker' = <<>>
    /\ incoming' = None /\ active' = None /\ token' = FALSE /\ left' = <<>> /\ stage' = "idle"
    /\ UNCHANGED <<worker, caller, got, log, running, current, cancelPending, pendingFailure,
                   cancelVars, bounds>>

-----------------------------------------------------------------------------
(* The worker process. *)

Send(type, ref) ==
    toHost' = Append(toHost, [type |-> type, of |-> active.of, ref |-> ref])

Serve(req) == active' = req /\ token' = FALSE /\ left' = Output[req.task] /\ stage' = "work"

\* demo_worker.py, main loop: a request that finds a task active is dropped.
DemoReceive ==
    /\ worker = "demo" /\ alive
    /\ toWorker # <<>>
    /\ toWorker' = Tail(toWorker)
    /\ LET f == Head(toWorker)
       IN  \/ /\ f.type = "request" /\ active = None
              /\ Serve(f.req)
           \/ /\ f.type = "request" /\ active # None
              /\ UNCHANGED <<active, token, left, stage>>
           \/ /\ f.type = "cancel"
              /\ token' = (token \/ (active # None /\ active.task = f.req.task))
              /\ UNCHANGED <<active, left, stage>>
    /\ UNCHANGED <<worker, hostVars, cancelVars, incoming, toHost, alive, bounds>>

\* Only a loop turn without a frame notices that the task's thread has ended.
DemoIdle ==
    /\ worker = "demo" /\ alive
    /\ toWorker = <<>>
    /\ stage = "ended"
    /\ active' = None /\ token' = FALSE /\ stage' = "idle"
    /\ UNCHANGED <<worker, hostVars, cancelVars, incoming, left, pipes, alive, bounds>>

\* colmap_worker_main.cpp, ReaderLoop.
ColmapReceive ==
    /\ worker = "colmap" /\ alive
    /\ toWorker # <<>>
    /\ toWorker' = Tail(toWorker)
    /\ LET f == Head(toWorker)
       IN  \/ /\ f.type = "request"
              /\ incoming' = f.req
              /\ UNCHANGED token
           \/ /\ f.type = "cancel"
              /\ token' = (token \/ (/\ active # None /\ stage # "claimed"
                                     /\ active.task = f.req.task))
              /\ UNCHANGED incoming
    /\ UNCHANGED <<worker, hostVars, cancelVars, active, left, stage, toHost, alive, bounds>>

\* The main loop takes a request, then publishes its token, then runs it.
ColmapTake ==
    /\ worker = "colmap" /\ alive
    /\ stage = "idle" /\ incoming # None
    /\ active' = incoming /\ incoming' = None
    /\ stage' = "claimed"
    /\ UNCHANGED <<worker, hostVars, cancelVars, token, left, pipes, alive, bounds>>

ColmapActivate ==
    /\ worker = "colmap" /\ alive
    /\ stage = "claimed"
    /\ Serve(active)
    /\ UNCHANGED <<worker, hostVars, cancelVars, incoming, pipes, alive, bounds>>

ColmapRelease ==
    /\ worker = "colmap" /\ alive
    /\ stage = "ended"
    /\ active' = None /\ token' = FALSE /\ stage' = "idle"
    /\ UNCHANGED <<worker, hostVars, cancelVars, incoming, left, pipes, alive, bounds>>

\* The task body of either worker.
SendArtifact ==
    /\ alive /\ stage = "work"
    /\ left # <<>>
    /\ Send("artifact", Head(left))
    /\ left' = Tail(left)
    /\ UNCHANGED <<worker, hostVars, cancelVars, incoming, active, token, stage, toWorker, alive, bounds>>

Finish(type) ==
    /\ alive /\ stage = "work"
    /\ Send(type, None)
    /\ left' = <<>>
    /\ stage' = "ended"
    /\ UNCHANGED <<worker, hostVars, cancelVars, incoming, active, token, toWorker, alive, bounds>>

SendCompleted == left = <<>> /\ Finish("completed")

\* The demo worker fails on missing inputs only; the adapter of the colmap
\* worker may fail anywhere, recoverably on a timeout of its process.
SendFailed(type) ==
    /\ worker = "demo" => type = "failed" /\ stage = "work" /\ left = Output[active.task]
    /\ Finish(type)

\* demo_worker.py looks at the flag before each progress step, hence before it
\* makes the artifact, and answers with one frame.
DemoStop ==
    /\ worker = "demo" /\ stage = "work"
    /\ token /\ left = Output[active.task]
    /\ Finish("stopped")

\* colmap_worker.cpp answers with two.
ColmapStop ==
    /\ worker = "colmap" /\ alive /\ stage = "work"
    /\ token
    /\ Send("stopped", None)
    /\ left' = <<>>
    /\ stage' = "stopping"
    /\ UNCHANGED <<worker, hostVars, cancelVars, incoming, active, token, toWorker, alive, bounds>>

ColmapStopped ==
    /\ worker = "colmap" /\ alive /\ stage = "stopping"
    /\ Send("empty", None)
    /\ stage' = "ended"
    /\ UNCHANGED <<worker, hostVars, cancelVars, incoming, active, token, left, toWorker, alive, bounds>>

\* The process dies; what it wrote can still be read.
Die ==
    /\ alive
    /\ deaths < MaxDeaths
    /\ deaths' = deaths + 1
    /\ alive' = FALSE
    /\ toWorker' = <<>>
    /\ incoming' = None /\ active' = None /\ token' = FALSE /\ left' = <<>> /\ stage' = "idle"
    /\ UNCHANGED <<worker, hostVars, cancelVars, toHost, submits, cancels>>

-----------------------------------------------------------------------------
Init ==
    /\ worker \in Workers
    /\ caller = "idle" /\ got = <<>> /\ log = <<>>
    /\ attached = TRUE /\ running = FALSE /\ current = None
    /\ cancelPending = FALSE /\ pendingFailure = FALSE
    /\ canceller = "no" /\ asked = FALSE
    /\ toWorker = <<>> /\ toHost = <<>>
    /\ alive = TRUE
    /\ incoming = None /\ active = None /\ token = FALSE /\ left = <<>> /\ stage = "idle"
    /\ submits = 0 /\ cancels = 0 /\ deaths = 0

HostStep ==
    \/ ReportPendingFailure \/ ReadArtifact \/ ReadStopped
    \/ ReadCompleted \/ ReadFailed \/ ReadEof

WorkerStep ==
    \/ DemoReceive \/ DemoIdle \/ DemoStop
    \/ ColmapReceive \/ ColmapTake \/ ColmapActivate \/ ColmapRelease
    \/ ColmapStop \/ ColmapStopped
    \/ SendArtifact \/ SendCompleted
    \/ \E type \in {"failed", "crashed"} : SendFailed(type)

Next ==
    \/ \E t \in Task, materialized \in BOOLEAN : Submit(t, materialized)
    \/ CancelWrite \/ CancelNote
    \/ HostStep
    \/ RejectArtifact
    \/ Shutdown
    \/ WorkerStep
    \/ Die

Spec == Init /\ [][Next]_vars

\* Every thread of the host and of the worker keeps running.
FairSpec == Spec /\ WF_vars(HostStep) /\ WF_vars(WorkerStep) /\ WF_vars(CancelNote)

-----------------------------------------------------------------------------
(* Properties. *)

\* The host's flags go together: a scheduler that waits has a task in flight, a
\* pending failure belongs to it, every other submission was answered exactly
\* once, and a worker that serves nothing has nothing to say.
HostInv ==
    /\ TypeOK
    /\ running <=> caller = "wait"
    /\ pendingFailure => running
    /\ running => attached
    /\ ~attached => ~alive /\ toHost = <<>>
    /\ Len(log) + (IF running THEN 1 ELSE 0) = submits
    /\ stage = "idle" <=> active = None

\* How a submission ends for the scheduler is what the worker made of that very
\* submission, although NextEvent never looks at the task a frame names: success
\* comes with all of the task's artifacts and no others, cancellation only after
\* Cancel was called for it.
Faithful(n) ==
    /\ log[n].of = n
    /\ log[n].type = "completed" => log[n].outputs = Output[log[n].task]
    /\ log[n].type = "cancelled" => log[n].asked

\* "TaskProgress(cancelled) then an empty TaskCompleted; the host maps exactly
\* this to kCancelled" (colmap_worker.cpp): so every answer is faithful.
AnswersFaithful == \A n \in DOMAIN log : Faithful(n)

\* The host stays consistent, and its answers are faithful whatever dies, is
\* rejected or is cancelled by a racing thread; with the colmap worker, up to the
\* first submission after a cancelled one.
FaithfulUntilCancelled ==
    /\ HostInv
    /\ \A n \in DOMAIN log :
          (worker = "demo" \/ \A m \in 1..(n - 1) : ~log[m].asked) => Faithful(n)

\* "After TaskCompleted or TaskFailed the worker returns to idle and may be given
\* another task" (worker-protocol.md, section 4): with the colmap worker, cancelled
\* or not, dead or alive, every submission is answered.  The demo worker drops a
\* request that comes before its main loop saw the end of the last task's thread
\* (demo_worker.py:184), and its caller waits for ever.
ColmapAnswers == (worker = "colmap" /\ caller = "wait") ~> caller = "idle"
=============================================================================
