-------------------------- MODULE ExecutorContract --------------------------
(***************************************************************************)
(* What the scheduler relies on when it talks to a WorkerExecutor          *)
(* (engine/workers/worker_handle.h), whatever is behind it: one task at a  *)
(* time, its artifacts in the order they were made, then exactly one       *)
(* terminal event, queued in the same instant as the executor becomes free *)
(* for the next task.  Scheduler.tla drives an executor of this kind and   *)
(* InProcessExecutor.tla implements it.  An executor that talks to a       *)
(* worker process does not: see ProcessExecutor.tla.                       *)
(***************************************************************************)
EXTENDS Sequences

CONSTANTS Task, Ref, None

VARIABLES held,      \* the task being executed, or None
          left,      \* the artifacts it has still to produce
          cancelled, \* its cancellation was requested
          events     \* queued events, oldest first

vars == <<held, left, cancelled, events>>

TerminalType == {"completed", "crashed", "failed", "cancelled"}

Init == held = None /\ left = <<>> /\ cancelled = FALSE /\ events = <<>>

\* An idle executor accepts a task ...
Submit(t) ==
    /\ held = None
    /\ held' = t
    /\ left' \in Seq(Ref)
    /\ cancelled' = FALSE
    /\ UNCHANGED events

\* ... or answers at once that its inputs cannot be had.
Refuse(t) ==
    /\ held = None
    /\ events' = Append(events, [task |-> t, type |-> "failed", ref |-> None])
    /\ left' = <<>>
    /\ cancelled' = FALSE
    /\ UNCHANGED held

Produce ==
    /\ held # None
    /\ left # <<>>
    /\ events' = Append(events, [task |-> held, type |-> "artifact", ref |-> Head(left)])
    /\ left' = Tail(left)
    /\ UNCHANGED <<held, cancelled>>

\* Success only when everything was produced, cancellation only on request.
End(type) ==
    /\ held # None
    /\ type = "completed" => left = <<>>
    /\ type = "cancelled" => cancelled
    /\ events' = Append(events, [task |-> held, type |-> type, ref |-> None])
    /\ held' = None
    /\ left' = <<>>
    /\ cancelled' = FALSE

Cancel ==
    /\ held # None
    /\ cancelled' = TRUE
    /\ UNCHANGED <<held, left, events>>

Deliver ==
    /\ events # <<>>
    /\ events' = Tail(events)
    /\ UNCHANGED <<held, left, cancelled>>

\* The process that owns the executor ends.
Vanish == held' = None /\ left' = <<>> /\ cancelled' = FALSE /\ events' = <<>>

Next ==
    \/ \E t \in Task : Submit(t) \/ Refuse(t)
    \/ Produce
    \/ \E type \in TerminalType : End(type)
    \/ Cancel
    \/ Deliver
    \/ Vanish

Spec == Init /\ [][Next]_vars
=============================================================================
