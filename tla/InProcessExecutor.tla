------------------------- MODULE InProcessExecutor -------------------------
(***************************************************************************)
(* engine/workers/in_process_executor.cpp: a mutex, a condition variable,  *)
(* an event queue and one worker thread, used by three other threads: the  *)
(* scheduler thread (`caller`: Submit, WaitForEvent), a thread that calls  *)
(* Cancel and a thread that calls Shutdown.                                *)
(*                                                                         *)
(* A section under the mutex is one step, guarded by the mutex being free; *)
(* the one exception is Submit, which joins the previous worker thread     *)
(* while it holds the mutex.  Notifications of the condition variable are  *)
(* steps of their own, after the mutex was released.                       *)
(***************************************************************************)
EXTENDS Naturals, Sequences

CONSTANTS
    Task, Ref,
    Output,     \* [Task -> Seq(Ref)], the artifacts the task body emits
    None,       \* no task, no event
    MaxSubmits, \* bound on calls of Submit
    MaxCancels  \* bound on calls of Cancel

Terminals == {"completed", "crashed", "failed", "cancelled"}

ASSUME OutputAssumption == Output \in [Task -> Seq(Ref)]
ASSUME BoundAssumption == MaxSubmits \in Nat /\ MaxCancels \in Nat
ASSUME NoneAssumption == None \notin Task /\ None \notin Ref /\ None \notin Terminals

VARIABLES
    mutex,     \* mutex_: held by Submit while it joins
    events,    \* events_
    busy,      \* busy_
    running,   \* running_task_
    cancelled, \* cancelled_
    shutdown,  \* shutdown_
    joinable,  \* worker_thread_ holds a thread
    runner,    \* where that thread is
    request,   \* its `request`, the task it works for
    left,      \* what its task body has still to emit
    terminal,  \* its `terminal`
    caller,    \* where the scheduler thread is
    next,      \* the task it submits or waits for
    sent,      \* history: the number of accepted submissions
    answered,  \* history: the submissions whose terminal event was delivered
    refusal,   \* what the last call of Submit threw
    stopper,   \* where the thread that calls Shutdown is
    toJoin,    \* `to_join` of Shutdown holds a thread
    submits, cancels

queueVars  == <<mutex, events, busy, running, cancelled, shutdown, joinable>>
runnerVars == <<runner, request, left, terminal>>
callerVars == <<caller, next, sent, answered, refusal>>
stopVars   == <<stopper, toJoin>>
bounds     == <<submits, cancels>>
vars == <<queueVars, runnerVars, callerVars, stopVars, bounds>>

WorkerEvent ==
    [of : Nat, task : Task, type : {"artifact"}, ref : Ref]
      \cup [of : Nat, task : Task, type : Terminals, ref : {None}]

FlagsOK ==
    /\ busy \in BOOLEAN /\ cancelled \in BOOLEAN /\ shutdown \in BOOLEAN
    /\ joinable \in BOOLEAN /\ toJoin \in BOOLEAN

TypeOK ==
    /\ FlagsOK
    /\ mutex \in {"free", "caller"}
    /\ events \in Seq(WorkerEvent)
    /\ running \in Task \cup {None}
    /\ runner \in {"none", "body", "signal", "publish", "notify", "ended"}
    /\ request \in Task \cup {None}
    /\ left \in Seq(Ref)
    /\ terminal \in Terminals \cup {None}
    /\ caller \in {"idle", "join", "wait", "asleep"}
    /\ next \in Task \cup {None}
    /\ sent \in Nat
    /\ answered \subseteq Nat
    /\ refusal \in {"none", "busy", "terminated"}
    /\ stopper \in {"no", "notify", "join", "done"}
    /\ submits \in 0..MaxSubmits
    /\ cancels \in 0..MaxCancels

-----------------------------------------------------------------------------
(* The scheduler thread. *)

\* Faulty variant: the request to cancel the previous task is kept.
StartKeepingCancel(t) ==
    /\ busy' = TRUE /\ running' = t /\ joinable' = TRUE
    /\ UNCHANGED cancelled
    /\ runner' = "body" /\ request' = t /\ left' = Output[t] /\ terminal' = None
    /\ caller' = "wait" /\ sent' = sent + 1 /\ refusal' = "none"
    /\ mutex' = "free"
    /\ UNCHANGED <<events, shutdown, answered>>

\* The end of Submit: a fresh worker thread starts on the request.
Start(t) ==
    /\ busy' = TRUE /\ running' = t /\ joinable' = TRUE
    /\ cancelled' = FALSE
    /\ runner' = "body" /\ request' = t /\ left' = Output[t] /\ terminal' = None
    /\ caller' = "wait" /\ sent' = sent + 1 /\ refusal' = "none"
    /\ mutex' = "free"
    /\ UNCHANGED <<events, shutdown, answered>>

Refused(why) ==
    /\ refusal' = why
    /\ UNCHANGED <<queueVars, runnerVars, caller, sent, answered>>

\* Faulty variant: an executor that was shut down still accepts a task.
SubmitAfterShutdown(t) ==
    /\ caller = "idle" /\ mutex = "free"
    /\ submits < MaxSubmits
    /\ submits' = submits + 1
    /\ next' = t
    /\ \/ busy /\ Refused("busy")
       \/ /\ ~busy /\ joinable
          /\ mutex' = "caller" /\ caller' = "join"
          /\ UNCHANGED <<events, busy, running, cancelled, shutdown, joinable, runnerVars,
                         sent, answered, refusal>>
       \/ ~busy /\ ~joinable /\ Start(t)
    /\ UNCHANGED <<stopVars, cancels>>

\* Submit up to the join of the previous worker thread, under the mutex.
Submit(t) ==
    /\ caller = "idle" /\ mutex = "free"
    /\ submits < MaxSubmits
    /\ submits' = submits + 1
    /\ next' = t
    /\ \/ shutdown /\ Refused("terminated")
       \/ ~shutdown /\ busy /\ Refused("busy")
       \/ /\ ~shutdown /\ ~busy /\ joinable
          /\ mutex' = "caller" /\ caller' = "join"
          /\ UNCHANGED <<events, busy, running, cancelled, shutdown, joinable, runnerVars,
                         sent, answered, refusal>>
       \/ ~shutdown /\ ~busy /\ ~joinable /\ Start(t)
    /\ UNCHANGED <<stopVars, cancels>>

\* join() returns once the thread function has returned.
Join ==
    /\ caller = "join"
    /\ runner = "ended"
    /\ Start(next)
    /\ UNCHANGED <<next, stopVars, bounds>>

\* WaitForEvent with an event in the queue; the scheduler waits on until the
\* terminal event of its task, told by the task's id.
WaitForEvent ==
    /\ caller = "wait" /\ mutex = "free"
    /\ events # <<>>
    /\ LET e == Head(events)
           last == e.task = next /\ e.type # "artifact"
       IN  /\ caller' = IF last THEN "idle" ELSE "wait"
           /\ answered' = IF e.type # "artifact" THEN answered \cup {e.of} ELSE answered
    /\ events' = Tail(events)
    /\ UNCHANGED <<mutex, busy, running, cancelled, shutdown, joinable, runnerVars, next, sent,
                   refusal, stopVars, bounds>>

\* WaitForEvent with an empty queue goes to sleep, unless shut down.
Sleep ==
    /\ caller = "wait" /\ mutex = "free"
    /\ events = <<>> /\ ~shutdown
    /\ caller' = "asleep"
    /\ UNCHANGED <<queueVars, runnerVars, next, sent, answered, refusal, stopVars, bounds>>

\* WaitForEvent returns false, on timeout or at once after Shutdown: the
\* scheduler counts it and waits again, or gives the attempt up.
WaitInVain(giveUp) ==
    /\ \/ caller = "asleep" /\ mutex = "free" /\ events = <<>>
       \/ caller = "wait" /\ mutex = "free" /\ events = <<>> /\ shutdown
    /\ caller' = IF giveUp THEN "idle" ELSE "wait"
    /\ UNCHANGED <<queueVars, runnerVars, next, sent, answered, refusal, stopVars, bounds>>

-----------------------------------------------------------------------------
(* The worker thread. *)

Wake == caller' = IF caller = "asleep" THEN "wait" ELSE caller

Emit(type, ref) == Append(events, [of |-> sent, task |-> request, type |-> type, ref |-> ref])

\* The task body emits an artifact: queued under the mutex, then signalled.
EmitArtifact ==
    /\ runner = "body" /\ mutex = "free"
    /\ left # <<>>
    /\ events' = Emit("artifact", Head(left))
    /\ left' = Tail(left)
    /\ runner' = "signal"
    /\ UNCHANGED <<mutex, busy, running, cancelled, shutdown, joinable, request, terminal,
                   callerVars, stopVars, bounds>>

Signal ==
    /\ runner = "signal"
    /\ runner' = "body"
    /\ Wake
    /\ UNCHANGED <<queueVars, request, left, terminal, next, sent, answered, refusal,
                   stopVars, bounds>>

\* Faulty variant: `emit` queues a terminal event like any other.
ReturnEagerly(type) ==
    /\ runner = "body" /\ mutex = "free"
    /\ type = "completed" => left = <<>>
    /\ type = "cancelled" => cancelled
    /\ events' = Emit(type, None)
    /\ runner' = "publish"
    /\ UNCHANGED <<mutex, busy, running, cancelled, shutdown, joinable, request, left, terminal,
                   callerVars, stopVars, bounds>>

\* The task body comes to its end: it completed, it saw the cancellation, or it
\* threw, at any point.  `emit` keeps a terminal event back.
Return(type) ==
    /\ runner = "body" /\ mutex = "free"
    /\ type = "completed" => left = <<>>
    /\ type = "cancelled" => cancelled
    /\ terminal' = type
    /\ runner' = "publish"
    /\ UNCHANGED <<queueVars, request, left, callerVars, stopVars, bounds>>

\* Faulty variant: nobody is told.
PublishSilently ==
    /\ runner = "publish" /\ mutex = "free"
    /\ busy' = FALSE /\ running' = None
    /\ events' = IF terminal # None THEN Emit(terminal, None) ELSE events
    /\ runner' = "ended"
    /\ UNCHANGED <<mutex, cancelled, shutdown, joinable, request, left, terminal, callerVars,
                   stopVars, bounds>>

\* busy_ is cleared and the terminal event queued in one section.
Publish ==
    /\ runner = "publish" /\ mutex = "free"
    /\ busy' = FALSE /\ running' = None
    /\ events' = IF terminal # None THEN Emit(terminal, None) ELSE events
    /\ runner' = "notify"
    /\ UNCHANGED <<mutex, cancelled, shutdown, joinable, request, left, terminal, callerVars,
                   stopVars, bounds>>

NotifyAndExit ==
    /\ runner = "notify"
    /\ runner' = "ended"
    /\ Wake
    /\ UNCHANGED <<queueVars, request, left, terminal, next, sent, answered, refusal,
                   stopVars, bounds>>

-----------------------------------------------------------------------------
(* The threads that cancel and shut down. *)

Cancel(t) ==
    /\ mutex = "free"
    /\ cancels < MaxCancels
    /\ cancels' = cancels + 1
    /\ cancelled' = (cancelled \/ (busy /\ running = t))
    /\ UNCHANGED <<mutex, events, busy, running, shutdown, joinable, runnerVars, callerVars,
                   stopVars, submits>>

Shutdown ==
    /\ stopper = "no" /\ mutex = "free"
    /\ shutdown' = TRUE /\ cancelled' = TRUE
    /\ toJoin' = joinable /\ joinable' = FALSE
    /\ stopper' = "notify"
    /\ UNCHANGED <<mutex, events, busy, running, runnerVars, callerVars, bounds>>

ShutdownNotify ==
    /\ stopper = "notify"
    /\ stopper' = "join"
    /\ Wake
    /\ UNCHANGED <<queueVars, runnerVars, next, sent, answered, refusal, toJoin, bounds>>

\* Shutdown joins without the mutex.
ShutdownJoin ==
    /\ stopper = "join"
    /\ toJoin => runner = "ended"
    /\ toJoin' = FALSE
    /\ stopper' = "done"
    /\ UNCHANGED <<queueVars, runnerVars, callerVars, bounds>>

-----------------------------------------------------------------------------
Init ==
    /\ mutex = "free" /\ events = <<>>
    /\ busy = FALSE /\ running = None /\ cancelled = FALSE /\ shutdown = FALSE
    /\ joinable = FALSE
    /\ runner = "none" /\ request = None /\ left = <<>> /\ terminal = None
    /\ caller = "idle" /\ next = None /\ sent = 0 /\ answered = {} /\ refusal = "none"
    /\ stopper = "no" /\ toJoin = FALSE
    /\ submits = 0 /\ cancels = 0

CallerStep == Join \/ WaitForEvent \/ Sleep
RunnerStep ==
    \/ EmitArtifact \/ Signal \/ Publish \/ NotifyAndExit
    \/ \E type \in Terminals : Return(type)
StopperStep == ShutdownNotify \/ ShutdownJoin

Next ==
    \/ \E t \in Task : Submit(t) \/ Cancel(t)
    \/ CallerStep
    \/ \E giveUp \in BOOLEAN : WaitInVain(giveUp)
    \/ RunnerStep
    \/ Shutdown
    \/ StopperStep

Spec == Init /\ [][Next]_vars

\* Threads run and task bodies end.  No timeout is relied upon.
FairSpec ==
    Spec /\ WF_vars(CallerStep) /\ WF_vars(RunnerStep) /\ WF_vars(StopperStep)

-----------------------------------------------------------------------------
(* Properties. *)

\* A queue as the scheduler sees it, without the history field.
Seen(queue) == [i \in DOMAIN queue |-> [task |-> queue[i].task, type |-> queue[i].type,
                                        ref |-> queue[i].ref]]

Contract == INSTANCE ExecutorContract WITH
    held      <- running,
    left      <- IF busy THEN left ELSE <<>>,
    cancelled <- busy /\ cancelled,
    events    <- Seen(events)

\* busy_, running_task_ and the worker thread agree: the flag is up exactly
\* while the thread is in the task body or has not published its end.
ThreadInv ==
    /\ busy <=> runner \in {"body", "signal", "publish"}
    /\ busy => running = request /\ request \in Task
    /\ ~busy => running = None
    /\ runner = "publish" => /\ terminal # None
                             /\ terminal = "completed" => left = <<>>
                             /\ terminal = "cancelled" => cancelled

\* Who may join: Submit only a thread that is past its last critical section,
\* and Shutdown every thread that Submit can no longer see.
JoinInv ==
    /\ mutex = "caller" <=> caller = "join"
    /\ caller = "join" => ~busy /\ joinable /\ ~shutdown /\ next \in Task
    /\ joinable <=> ~shutdown /\ runner # "none"
    /\ shutdown <=> stopper # "no"
    /\ shutdown => toJoin \/ runner \in {"none", "ended"}
    /\ stopper = "done" => ~toJoin

\* A terminal event, queued or delivered, never runs ahead of the flag.
QueueInv ==
    /\ \A i \in DOMAIN events :
          /\ events[i].of <= sent
          /\ events[i].of = sent /\ events[i].type # "artifact" => ~busy
    /\ \A n \in answered : n <= sent
    /\ sent \in answered => ~busy

\* The inductive invariant of Submit, RunTask, WaitForEvent and Shutdown: their
\* critical sections leave flag, thread, queue and joins in agreement, whatever
\* the interleaving.
ExecutorInv == TypeOK /\ ThreadInv /\ JoinInv /\ QueueInv

\* The executor keeps the contract the scheduler relies on: at the instant a
\* terminal event is in the queue the executor is free, a cancelled event
\* answers a request made for this very submission, and a completed one follows
\* all artifacts.
ImplementsContract == Contract!Spec

\* A scheduler that has been given the terminal event of its last submission is
\* never refused the next one as WORKER_BUSY (RunTask: "Publish it only after
\* the runner returns and busy_ is cleared, in the same lock").
FreeOnceAnswered == sent \in answered => ~busy

\* Submit joins the previous thread while it holds the mutex; that thread never
\* needs the mutex again, so the join comes to an end.
JoinReturns == caller = "join" ~> caller # "join"

\* A waiting scheduler is given the end of its task without the help of a
\* timeout: no notification is lost.
WaitEnds == caller \in {"wait", "asleep"} ~> caller \in {"idle", "join"}

\* Once Shutdown has returned no task body runs, now or later.
QuietAfterShutdown == stopper = "done" => runner \in {"none", "ended"}

\* Shutdown comes to an end, also while Submit or WaitForEvent is under way.
ShutdownReturns == stopper = "notify" ~> stopper = "done"

\* No call of the executor waits for ever: not the join of Submit, not a wait for
\* the end of a task, not Shutdown.
CallsReturn == JoinReturns /\ WaitEnds /\ ShutdownReturns
=============================================================================
