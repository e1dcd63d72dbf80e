--------------------------- MODULE TaskLifecycle ---------------------------
(***************************************************************************)
(* What the scheduler promises about the persisted status of the tasks of  *)
(* a job, whatever the interleaving of workers, cancellations, crashes and *)
(* restarts: the six-state machine of engine/scheduler/task_state_machine  *)
(* joined with the dependency rules of engine/scheduler/scheduler.cpp.     *)
(* Scheduler.tla implements this specification.                            *)
(***************************************************************************)
CONSTANTS Task,   \* every task of every job
          JobOf,  \* [Task -> job]
          Deps    \* [Task -> SUBSET Task], dependencies within the same job

VARIABLE status   \* [Task -> Status], the status column of the tasks table

Status == {"absent", "pending", "running", "succeeded", "failed",
           "cancelled", "skipped"}

Unsuccessful == {"failed", "cancelled", "skipped"}

\* t can still be explained as not run when the tasks in Blame are its
\* dependencies that did not succeed.
Justified(t, Blame) == \E d \in Deps[t] \ Blame : status[d] \in Unsuccessful

Init == status = [t \in Task |-> "absent"]

\* A job becomes visible all at once.
Submit(j) ==
    /\ \A t \in Task : JobOf[t] = j => status[t] = "absent"
    /\ status' = [t \in Task |-> IF JobOf[t] = j THEN "pending" ELSE status[t]]

\* A task starts only when all it depends on has succeeded.
Begin(t) ==
    /\ status[t] = "pending"
    /\ \A d \in Deps[t] : status[d] = "succeeded"
    /\ status' = [status EXCEPT ![t] = "running"]

Finish(t, to) ==
    /\ status[t] = "running"
    /\ status' = [status EXCEPT ![t] = to]

\* A failure is taken back only while nothing has been decided because of it:
\* no task was skipped on account of t alone.
Retry(t) ==
    /\ status[t] = "failed"
    /\ \A d \in Deps[t] : status[d] = "succeeded"
    /\ \A u \in Task : t \in Deps[u] /\ status[u] = "skipped" => Justified(u, {t})
    /\ status' = [status EXCEPT ![t] = "pending"]

Cancel(t) ==
    /\ status[t] = "pending"
    /\ status' = [status EXCEPT ![t] = "cancelled"]

\* A task that can never start ends as skipped, or as failed on a strict path.
Propagate(t, to) ==
    /\ status[t] = "pending"
    /\ Justified(t, {})
    /\ status' = [status EXCEPT ![t] = to]

Next ==
    \/ \E t \in Task : Submit(JobOf[t])
    \/ \E t \in Task :
          \/ Begin(t)
          \/ \E to \in {"succeeded", "failed", "cancelled"} : Finish(t, to)
          \/ Retry(t)
          \/ Cancel(t)
          \/ \E to \in {"skipped", "failed"} : Propagate(t, to)

Spec == Init /\ [][Next]_status

-----------------------------------------------------------------------------
TypeOK == status \in [Task -> Status]

\* A task that runs or has succeeded rests on dependencies that succeeded, and
\* stay so: no worker is ever given the output of a task that is not finished.
DepsSucceeded ==
    \A t \in Task : status[t] \in {"running", "succeeded"} =>
        \A d \in Deps[t] : status[d] = "succeeded"

\* A task is skipped only on account of a dependency that did not succeed,
\* also after that dependency was retried.
SkipJustified == \A t \in Task : status[t] = "skipped" => Justified(t, {})
=============================================================================
