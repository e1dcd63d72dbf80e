---------------------- MODULE InProcessExecutorProofs ----------------------
(***************************************************************************)
(* Machine-checked proofs about InProcessExecutor.tla, for every set of    *)
(* tasks, every output of the task bodies and every number of calls.       *)
(***************************************************************************)
EXTENDS InProcessExecutor, TLAPS, SequenceTheorems

-----------------------------------------------------------------------------
(* The event queue. *)

\* What the worker thread queues is a well-formed event, at the end.
LEMMA EmitType ==
  ASSUME TypeOK, request \in Task, NEW type, NEW ref,
         (type = "artifact" /\ ref \in Ref) \/ (type \in Terminals /\ ref = None)
  PROVE  /\ Emit(type, ref) \in Seq(WorkerEvent)
         /\ Len(Emit(type, ref)) = Len(events) + 1
         /\ \A i \in 1..Len(events) : Emit(type, ref)[i] = events[i]
         /\ Emit(type, ref)[Len(events) + 1] =
              [of |-> sent, task |-> request, type |-> type, ref |-> ref]
  <1> DEFINE e == [of |-> sent, task |-> request, type |-> type, ref |-> ref]
  <1>1. e \in WorkerEvent
    BY DEF TypeOK, WorkerEvent
  <1>2. events \in Seq(WorkerEvent) /\ Emit(type, ref) = Append(events, e)
    BY DEF TypeOK, Emit
  <1> HIDE DEF e
  <1>3. /\ Append(events, e) \in Seq(WorkerEvent)
        /\ Len(Append(events, e)) = Len(events) + 1
        /\ \A i \in 1..Len(events) : Append(events, e)[i] = events[i]
        /\ Append(events, e)[Len(events) + 1] = e
    BY <1>1, <1>2, AppendProperties
  <1> QED
    BY <1>2, <1>3 DEF e

\* Taking the head off the queue moves the others up.
LEMMA TailType ==
  ASSUME TypeOK, events # <<>>
  PROVE  /\ Tail(events) \in Seq(WorkerEvent)
         /\ Len(events) \in Nat \ {0}
         /\ Len(Tail(events)) = Len(events) - 1
         /\ \A i \in 1..Len(Tail(events)) : Tail(events)[i] = events[i + 1]
         /\ Head(events) = events[1]
         /\ Head(events) \in WorkerEvent
  <1>1. events \in Seq(WorkerEvent)
    BY DEF TypeOK
  <1>2. Len(events) \in Nat \ {0}
    BY <1>1, EmptySeq
  <1> QED
    BY <1>1, <1>2

-----------------------------------------------------------------------------
(* The inductive invariant. *)

LEMMA InitInv == Init => ExecutorInv
  <1> SUFFICES ASSUME Init PROVE ExecutorInv
    OBVIOUS
  <1>1. FlagsOK
    BY DEF Init, FlagsOK
  <1>2. TypeOK
    BY <1>1, BoundAssumption DEF Init, TypeOK
  <1>3. ThreadInv /\ JoinInv
    BY DEF Init, ThreadInv, JoinInv
  <1>4. QueueInv
    BY DEF Init, QueueInv
  <1> QED
    BY <1>2, <1>3, <1>4 DEF ExecutorInv

\* Emitting keeps QueueInv: an artifact at any time, a terminal event only
\* together with the end of `busy`.
LEMMA EmitQueue ==
  ASSUME TypeOK, QueueInv, request \in Task, NEW type, NEW ref,
         (type = "artifact" /\ ref \in Ref) \/ (type \in Terminals /\ ref = None),
         events' = Emit(type, ref), UNCHANGED <<sent, answered>>,
         busy' => busy /\ type = "artifact", busy' \in BOOLEAN
  PROVE  QueueInv'
  <1>1. /\ events' \in Seq(WorkerEvent)
        /\ Len(events') = Len(events) + 1
        /\ \A i \in 1..Len(events) : events'[i] = events[i]
        /\ events'[Len(events) + 1] = [of |-> sent, task |-> request, type |-> type, ref |-> ref]
    BY EmitType
  <1>2. DOMAIN events' = 1..(Len(events) + 1) /\ DOMAIN events = 1..Len(events)
    BY <1>1 DEF TypeOK
  <1>3. Len(events) \in Nat /\ sent \in Nat
    BY DEF TypeOK
  <1>4. ASSUME NEW i \in DOMAIN events'
        PROVE  /\ events'[i].of <= sent
               /\ events'[i].of = sent /\ events'[i].type # "artifact" => ~busy'
    <2>1. CASE i \in 1..Len(events)
      BY <1>1, <1>2, <2>1 DEF QueueInv
    <2>2. CASE i = Len(events) + 1
      BY <1>1, <1>3, <2>2
    <2> QED
      BY <1>2, <1>3, <2>1, <2>2
  <1> QED
    BY <1>4 DEF QueueInv

\* A fresh worker thread: every queued and every delivered event is of an
\* earlier submission.
LEMMA StartInv ==
  ASSUME ExecutorInv, NEW t \in Task, Start(t), ~shutdown, ~busy,
         next' = t, submits' \in 0..MaxSubmits, UNCHANGED <<stopVars, cancels>>
  PROVE  ExecutorInv'
  <1> USE DEF ExecutorInv
  <1>0. FlagsOK'
    BY DEF TypeOK, FlagsOK, Start, stopVars
  <1>1. TypeOK'
    BY <1>0, OutputAssumption, BoundAssumption DEF TypeOK, Start, stopVars
  <1>2. ThreadInv'
    BY DEF ThreadInv, Start
  <1>3. JoinInv'
    BY DEF JoinInv, Start, stopVars
  <1>4. QueueInv'
    <2>1. sent \in Nat /\ sent' = sent + 1 /\ events' = events /\ answered' = answered
      BY DEF TypeOK, Start
    <2>2. ASSUME NEW i \in DOMAIN events
          PROVE  events[i].of <= sent /\ events[i].of \in Nat
      BY DEF QueueInv, TypeOK, WorkerEvent
    <2>3. ASSUME NEW n \in answered
          PROVE  n \in Nat /\ n <= sent
      BY DEF QueueInv, TypeOK
    <2> QED
      BY <2>1, <2>2, <2>3 DEF QueueInv
  <1> QED
    BY <1>1, <1>2, <1>3, <1>4

LEMMA StepInv == ExecutorInv /\ [Next]_vars => ExecutorInv'
  <1> SUFFICES ASSUME ExecutorInv, [Next]_vars
               PROVE  ExecutorInv'
    OBVIOUS
  <1>t. TypeOK /\ ThreadInv /\ JoinInv /\ QueueInv
    BY DEF ExecutorInv
  <1> USE DEF ExecutorInv
  <1>1. ASSUME NEW t \in Task, Submit(t)
        PROVE  ExecutorInv'
    <2>0. submits' \in 0..MaxSubmits /\ UNCHANGED <<stopVars, cancels>> /\ next' = t
      BY <1>1, BoundAssumption DEF Submit, TypeOK
    <2>1. ASSUME NEW why \in {"busy", "terminated"}, Refused(why)
          PROVE  ExecutorInv'
      <3>1. TypeOK'
        BY <2>0, <2>1 DEF FlagsOK, TypeOK, Refused, queueVars, runnerVars, stopVars
      <3>2. ThreadInv' /\ JoinInv' /\ QueueInv'
        BY <2>0, <2>1, <1>1
        DEF Submit, ThreadInv, JoinInv, QueueInv, Refused, queueVars, runnerVars, stopVars
      <3> QED
        BY <3>1, <3>2
    <2>2. CASE /\ ~shutdown /\ ~busy /\ joinable
               /\ mutex' = "caller" /\ caller' = "join"
               /\ UNCHANGED <<events, busy, running, cancelled, shutdown, joinable, runnerVars,
                              sent, answered, refusal>>
      <3>1. TypeOK'
        BY <2>0, <2>2 DEF FlagsOK, TypeOK, runnerVars, stopVars
      <3>2. ThreadInv' /\ JoinInv' /\ QueueInv'
        BY <2>0, <2>2 DEF ThreadInv, JoinInv, QueueInv, runnerVars, stopVars
      <3> QED
        BY <3>1, <3>2
    <2>3. CASE ~shutdown /\ ~busy /\ ~joinable /\ Start(t)
      BY <2>0, <2>3, StartInv
    <2> QED
      BY <1>1, <2>1, <2>2, <2>3 DEF Submit
  <1>2. ASSUME NEW t \in Task, Cancel(t)
        PROVE  ExecutorInv'
    <2>1. TypeOK'
      BY <1>2, BoundAssumption DEF FlagsOK, Cancel, TypeOK, runnerVars, callerVars, stopVars
    <2>2. ThreadInv' /\ JoinInv' /\ QueueInv'
      BY <1>2 DEF Cancel, ThreadInv, JoinInv, QueueInv, runnerVars, callerVars, stopVars
    <2> QED
      BY <2>1, <2>2
  <1>3. ASSUME Join
        PROVE  ExecutorInv'
    <2>1. ~shutdown /\ ~busy /\ next \in Task /\ next' = next
      BY <1>3 DEF Join, JoinInv
    <2>2. submits' \in 0..MaxSubmits /\ UNCHANGED <<stopVars, cancels>> /\ Start(next)
      BY <1>3 DEF Join, TypeOK, bounds
    <2> QED
      BY <2>1, <2>2, StartInv
  <1>4. ASSUME WaitForEvent
        PROVE  ExecutorInv'
    <2>1. /\ Tail(events) \in Seq(WorkerEvent)
          /\ Len(events) \in Nat \ {0}
          /\ Len(Tail(events)) = Len(events) - 1
          /\ \A i \in 1..Len(Tail(events)) : Tail(events)[i] = events[i + 1]
          /\ Head(events) = events[1]
          /\ Head(events) \in WorkerEvent
      BY <1>4, TailType DEF WaitForEvent
    <2>2. /\ events' = Tail(events)
          /\ answered' = IF Head(events).type # "artifact" THEN answered \cup {Head(events).of}
                         ELSE answered
          /\ caller' \in {"idle", "wait"} /\ caller = "wait"
          /\ UNCHANGED <<mutex, busy, running, cancelled, shutdown, joinable, runnerVars, next,
                         sent, refusal, stopVars, bounds>>
      BY <1>4 DEF WaitForEvent
    <2>3. Head(events).of \in Nat
      BY <2>1 DEF WorkerEvent
    <2>4. TypeOK'
      <3>1. FlagsOK'
        BY <2>2 DEF TypeOK, FlagsOK, stopVars
      <3>2. answered' \subseteq Nat
        BY <2>2, <2>3 DEF TypeOK
      <3>3. events' \in Seq(WorkerEvent)
        BY <2>1, <2>2
      <3>4. caller' \in {"idle", "join", "wait", "asleep"}
        BY <2>2
      <3> QED
        BY <2>2, <3>1, <3>2, <3>3, <3>4 DEF TypeOK, runnerVars, stopVars, bounds
    <2>5. ThreadInv' /\ JoinInv'
      BY <2>2 DEF ThreadInv, JoinInv, runnerVars, stopVars
    <2>6. QueueInv'
      <3>1. DOMAIN events = 1..Len(events) /\ DOMAIN events' = 1..(Len(events) - 1)
        BY <2>1, <2>2 DEF TypeOK
      <3>2. ASSUME NEW i \in DOMAIN events'
            PROVE  i + 1 \in DOMAIN events /\ events'[i] = events[i + 1]
        BY <2>1, <2>2, <3>1
      <3>3. \A i \in DOMAIN events' :
               /\ events'[i].of <= sent'
               /\ events'[i].of = sent' /\ events'[i].type # "artifact" => ~busy'
        BY <2>2, <3>2 DEF QueueInv
      <3>4. /\ Head(events).of <= sent
            /\ Head(events).of = sent /\ Head(events).type # "artifact" => ~busy
        BY <2>1, <3>1 DEF QueueInv
      <3>5. \A n \in answered' : n <= sent'
        BY <2>2, <3>4 DEF QueueInv
      <3>6. sent' \in answered' => ~busy'
        BY <2>2, <3>4 DEF QueueInv
      <3> QED
        BY <3>3, <3>5, <3>6 DEF QueueInv
    <2> QED
      BY <2>4, <2>5, <2>6
  <1>5. ASSUME caller' \in {"idle", "wait", "asleep"}, caller # "join",
               UNCHANGED <<queueVars, runnerVars, next, sent, answered, refusal, stopVars, bounds>>
        PROVE  ExecutorInv'
    <2>1. TypeOK'
      BY <1>5 DEF FlagsOK, TypeOK, queueVars, runnerVars, stopVars, bounds
    <2>2. ThreadInv' /\ JoinInv' /\ QueueInv'
      BY <1>5 DEF ThreadInv, JoinInv, QueueInv, queueVars, runnerVars, stopVars
    <2> QED
      BY <2>1, <2>2
  <1>6. ASSUME EmitArtifact
        PROVE  ExecutorInv'
    <2>1. request \in Task /\ Head(left) \in Ref /\ Tail(left) \in Seq(Ref)
      BY <1>6 DEF EmitArtifact, ThreadInv, TypeOK
    <2>2. events' = Emit("artifact", Head(left))
      BY <1>6 DEF EmitArtifact
    <2>3. TypeOK'
      <3>1. events' \in Seq(WorkerEvent)
        BY <2>1, <2>2, EmitType
      <3> QED
        BY <1>6, <2>1, <3>1 DEF EmitArtifact, FlagsOK, TypeOK, callerVars, stopVars, bounds
    <2>4. ThreadInv' /\ JoinInv'
      BY <1>6 DEF EmitArtifact, ThreadInv, JoinInv, callerVars, stopVars
    <2>5. QueueInv'
      <3>1. UNCHANGED <<sent, answered>> /\ busy' = busy /\ busy \in BOOLEAN
        BY <1>6 DEF EmitArtifact, callerVars, TypeOK, FlagsOK
      <3> QED
        BY <2>1, <2>2, <3>1, EmitQueue
    <2> QED
      BY <2>3, <2>4, <2>5
  <1>7. ASSUME Signal
        PROVE  ExecutorInv'
    <2>1. TypeOK'
      BY <1>7 DEF FlagsOK, Signal, Wake, TypeOK, queueVars, stopVars, bounds
    <2>2. ThreadInv' /\ JoinInv' /\ QueueInv'
      BY <1>7 DEF Signal, Wake, TypeOK, ThreadInv, JoinInv, QueueInv, queueVars, stopVars
    <2> QED
      BY <2>1, <2>2
  <1>8. ASSUME NEW type \in Terminals, Return(type)
        PROVE  ExecutorInv'
    <2>1. TypeOK'
      BY <1>8 DEF FlagsOK, Return, TypeOK, queueVars, callerVars, stopVars, bounds
    <2>2. type # None
      BY NoneAssumption, <1>8 DEF Terminals
    <2>3. ThreadInv' /\ JoinInv' /\ QueueInv'
      BY <1>8, <2>2 DEF Return, ThreadInv, JoinInv, QueueInv, queueVars, callerVars, stopVars
    <2> QED
      BY <2>1, <2>3
  <1>9. ASSUME Publish
        PROVE  ExecutorInv'
    <2>1. request \in Task /\ terminal \in Terminals
      BY <1>9 DEF Publish, ThreadInv, TypeOK
    <2>2. events' = Emit(terminal, None)
      BY <1>9 DEF Publish, ThreadInv
    <2>3. TypeOK'
      <3>1. events' \in Seq(WorkerEvent)
        BY <2>1, <2>2, EmitType
      <3>2. FlagsOK'
        BY <1>9 DEF Publish, TypeOK, FlagsOK, stopVars
      <3> QED
        BY <1>9, <3>1, <3>2 DEF Publish, TypeOK, callerVars, stopVars, bounds
    <2>4. ThreadInv' /\ JoinInv'
      BY <1>9 DEF Publish, ThreadInv, JoinInv, callerVars, stopVars
    <2>5. QueueInv'
      <3>1. UNCHANGED <<sent, answered>> /\ busy' = FALSE
        BY <1>9 DEF Publish, callerVars
      <3> QED
        BY <2>1, <2>2, <3>1, EmitQueue
    <2> QED
      BY <2>3, <2>4, <2>5
  <1>10. ASSUME NotifyAndExit
         PROVE  ExecutorInv'
    <2>1. TypeOK'
      BY <1>10 DEF FlagsOK, NotifyAndExit, Wake, TypeOK, queueVars, stopVars, bounds
    <2>2. ThreadInv' /\ JoinInv' /\ QueueInv'
      BY <1>10 DEF NotifyAndExit, Wake, TypeOK, ThreadInv, JoinInv, QueueInv, queueVars, stopVars
    <2> QED
      BY <2>1, <2>2
  <1>11. ASSUME Shutdown
         PROVE  ExecutorInv'
    <2>1. TypeOK'
      <3>1. FlagsOK'
        BY <1>11 DEF Shutdown, TypeOK, FlagsOK
      <3> QED
        BY <1>11, <3>1 DEF Shutdown, TypeOK, runnerVars, callerVars, bounds
    <2>2. ThreadInv' /\ JoinInv' /\ QueueInv'
      BY <1>11 DEF Shutdown, ThreadInv, JoinInv, QueueInv, TypeOK, runnerVars, callerVars
    <2> QED
      BY <2>1, <2>2
  <1>12. ASSUME ShutdownNotify
         PROVE  ExecutorInv'
    <2>1. TypeOK'
      BY <1>12 DEF FlagsOK, ShutdownNotify, Wake, TypeOK, queueVars, runnerVars, bounds
    <2>2. ThreadInv' /\ JoinInv' /\ QueueInv'
      BY <1>12
      DEF ShutdownNotify, Wake, TypeOK, ThreadInv, JoinInv, QueueInv, queueVars, runnerVars
    <2> QED
      BY <2>1, <2>2
  <1>13. ASSUME ShutdownJoin
         PROVE  ExecutorInv'
    <2>1. TypeOK'
      <3>1. FlagsOK'
        BY <1>13 DEF ShutdownJoin, TypeOK, FlagsOK, queueVars
      <3> QED
        BY <1>13, <3>1 DEF ShutdownJoin, TypeOK, queueVars, runnerVars, callerVars, bounds
    <2>2. ThreadInv' /\ JoinInv' /\ QueueInv'
      BY <1>13
      DEF ShutdownJoin, ThreadInv, JoinInv, QueueInv, queueVars, runnerVars, callerVars
    <2> QED
      BY <2>1, <2>2
  <1>14. ASSUME UNCHANGED vars
         PROVE  ExecutorInv'
    <2>1. TypeOK'
      BY <1>14 DEF FlagsOK, vars, TypeOK, queueVars, runnerVars, callerVars, stopVars, bounds
    <2>2. ThreadInv' /\ JoinInv' /\ QueueInv'
      BY <1>14
      DEF vars, ThreadInv, JoinInv, QueueInv, queueVars, runnerVars, callerVars, stopVars
    <2> QED
      BY <2>1, <2>2
  <1>15. Sleep => ExecutorInv'
    BY <1>5 DEF Sleep
  <1>16. ASSUME NEW giveUp \in BOOLEAN, WaitInVain(giveUp)
         PROVE  ExecutorInv'
    BY <1>5, <1>16 DEF WaitInVain
  <1> QED
    BY <1>1, <1>2, <1>3, <1>4, <1>6, <1>7, <1>8, <1>9, <1>10, <1>11, <1>12, <1>13, <1>14,
       <1>15, <1>16 DEF Next, CallerStep, RunnerStep, StopperStep

-----------------------------------------------------------------------------
(* The executor contract. *)

SeenEvent(e) == [task |-> e.task, type |-> e.type, ref |-> e.ref]

SeenEvents == [task : Task, type : {"artifact"} \cup Terminals, ref : Ref \cup {None}]

LEMMA SeenType ==
  ASSUME NEW q \in Seq(WorkerEvent)
  PROVE  /\ Seen(q) \in Seq(SeenEvents)
         /\ Len(Seen(q)) = Len(q)
         /\ \A i \in 1..Len(q) : Seen(q)[i] = SeenEvent(q[i])
  <1>1. \A e \in WorkerEvent : SeenEvent(e) \in SeenEvents
    BY DEF WorkerEvent, SeenEvent, SeenEvents
  <1>2. DOMAIN q = 1..Len(q) /\ Len(q) \in Nat
    OBVIOUS
  <1>3. Seen(q) = [i \in 1..Len(q) |-> SeenEvent(q[i])]
    BY <1>2 DEF Seen, SeenEvent
  <1>4. \A i \in 1..Len(q) : SeenEvent(q[i]) \in SeenEvents
    BY <1>1
  <1> QED
    BY <1>2, <1>3, <1>4

\* The view of the queue commutes with queueing and with taking the head.
LEMMA SeenAppend ==
  ASSUME NEW q \in Seq(WorkerEvent), NEW e \in WorkerEvent
  PROVE  Seen(Append(q, e)) = Append(Seen(q), SeenEvent(e))
  <1>1. SeenEvent(e) \in SeenEvents
    BY DEF WorkerEvent, SeenEvent, SeenEvents
  <1>2. Len(q) \in Nat /\ Append(q, e) \in Seq(WorkerEvent) /\ Len(Append(q, e)) = Len(q) + 1
    OBVIOUS
  <1>3. /\ Append(Seen(q), SeenEvent(e)) \in Seq(SeenEvents)
        /\ Len(Append(Seen(q), SeenEvent(e))) = Len(q) + 1
    BY <1>1, SeenType
  <1>4. /\ Seen(Append(q, e)) \in Seq(SeenEvents)
        /\ Len(Seen(Append(q, e))) = Len(q) + 1
        /\ \A i \in 1..(Len(q) + 1) : Seen(Append(q, e))[i] = SeenEvent(Append(q, e)[i])
    BY <1>2, SeenType
  <1>5. ASSUME NEW i \in 1..(Len(q) + 1)
        PROVE  Seen(Append(q, e))[i] = Append(Seen(q), SeenEvent(e))[i]
    <2>1. CASE i = Len(q) + 1
      BY <1>1, <1>4, <2>1, SeenType
    <2>2. CASE i \in 1..Len(q)
      <3>1. Append(q, e)[i] = q[i]
        BY <2>2
      <3>2. Append(Seen(q), SeenEvent(e))[i] = Seen(q)[i]
        BY <1>1, <2>2, SeenType
      <3> QED
        BY <1>4, <2>2, <3>1, <3>2, SeenType
    <2>3. i = Len(q) + 1 \/ i \in 1..Len(q)
      BY <1>2
    <2> QED
      BY <2>1, <2>2, <2>3
  <1> QED
    BY <1>3, <1>4, <1>5, SeqEqual

LEMMA SeenTail ==
  ASSUME NEW q \in Seq(WorkerEvent), q # <<>>
  PROVE  Seen(q) # <<>> /\ Seen(Tail(q)) = Tail(Seen(q))
  <1>1. /\ Len(q) \in Nat \ {0} /\ Tail(q) \in Seq(WorkerEvent) /\ Len(Tail(q)) = Len(q) - 1
        /\ \A i \in 1..Len(Tail(q)) : Tail(q)[i] = q[i + 1]
    BY EmptySeq, HeadTailProperties
  <1>2. Seen(q) # <<>>
    BY <1>1, SeenType
  <1>3. /\ Tail(Seen(q)) \in Seq(SeenEvents) /\ Len(Tail(Seen(q))) = Len(q) - 1
        /\ \A i \in 1..(Len(q) - 1) : Tail(Seen(q))[i] = Seen(q)[i + 1]
    BY <1>1, <1>2, SeenType, HeadTailProperties
  <1>4. /\ Seen(Tail(q)) \in Seq(SeenEvents) /\ Len(Seen(Tail(q))) = Len(q) - 1
        /\ \A i \in 1..(Len(q) - 1) : Seen(Tail(q))[i] = SeenEvent(Tail(q)[i])
    BY <1>1, SeenType
  <1>5. \A i \in 1..(Len(q) - 1) : Seen(q)[i + 1] = SeenEvent(Tail(q)[i])
    BY <1>1, SeenType
  <1>6. \A i \in 1..(Len(q) - 1) : Seen(Tail(q))[i] = Tail(Seen(q))[i]
    BY <1>3, <1>4, <1>5
  <1> QED
    BY <1>2, <1>3, <1>4, <1>6, SeqEqual

ContractVars == <<running, IF busy THEN left ELSE <<>>, busy /\ cancelled, Seen(events)>>

\* Every step of the four threads is a step of the contract or invisible to it.
LEMMA StepContract ==
  ASSUME ExecutorInv, [Next]_vars
  PROVE  Contract!Next \/ UNCHANGED ContractVars
  <1>t. TypeOK /\ ThreadInv /\ JoinInv /\ QueueInv
    BY DEF ExecutorInv
  <1>n. \A t \in Task : t # None
    BY NoneAssumption
  <1>1. ASSUME NEW t \in Task, Start(t), ~busy
        PROVE  Contract!Next
    <2>1. running = None /\ running' = t /\ busy' = TRUE /\ cancelled' = FALSE /\ events' = events
      BY <1>t, <1>1 DEF Start, ThreadInv
    <2>2. left' \in Seq(Ref)
      BY <1>1, OutputAssumption DEF Start
    <2>3. Contract!Submit(t)
      BY <2>1, <2>2 DEF Contract!Submit
    <2> QED
      BY <2>3 DEF Contract!Next
  <1>2. ASSUME UNCHANGED <<running, busy, left, cancelled, events>>
        PROVE  UNCHANGED ContractVars
    BY <1>2 DEF ContractVars
  <1>3. ASSUME UNCHANGED <<running, busy, left, events>>, cancelled' = TRUE, busy
        PROVE  Contract!Next
    <2>1. running # None
      BY <1>t, <1>n, <1>3 DEF ThreadInv
    <2>2. Contract!Cancel
      BY <1>3, <2>1 DEF Contract!Cancel
    <2> QED
      BY <2>2 DEF Contract!Next
  <1>4. ASSUME UNCHANGED <<running, busy, left, events>>, ~busy
        PROVE  UNCHANGED ContractVars
    BY <1>4 DEF ContractVars
  <1>5. ASSUME NEW t \in Task, Submit(t)
        PROVE  Contract!Next \/ UNCHANGED ContractVars
    <2>1. (~busy /\ Start(t)) \/ UNCHANGED <<running, busy, left, cancelled, events>>
      BY <1>5 DEF Submit, Refused, queueVars, runnerVars
    <2> QED
      BY <1>1, <1>2, <2>1
  <1>6. ASSUME NEW t \in Task, Cancel(t)
        PROVE  Contract!Next \/ UNCHANGED ContractVars
    <2>1. UNCHANGED <<running, busy, left, events>>
      BY <1>6 DEF Cancel, runnerVars
    <2>2. CASE busy /\ running = t
      <3>1. cancelled' = TRUE
        BY <1>6, <2>2 DEF Cancel
      <3> QED
        BY <1>3, <2>1, <2>2, <3>1
    <2>3. CASE ~(busy /\ running = t)
      <3>1. cancelled' = cancelled
        BY <1>t, <1>6, <2>3 DEF Cancel, TypeOK, FlagsOK
      <3> QED
        BY <1>2, <2>1, <3>1
    <2> QED
      BY <2>2, <2>3
  <1>7. ASSUME Join
        PROVE  Contract!Next
    BY <1>t, <1>1, <1>7 DEF Join, JoinInv
  <1>8. ASSUME WaitForEvent
        PROVE  Contract!Next
    <2>1. events \in Seq(WorkerEvent) /\ events # <<>> /\ events' = Tail(events)
      BY <1>t, <1>8 DEF WaitForEvent, TypeOK
    <2>2. UNCHANGED <<running, busy, left, cancelled>>
      BY <1>8 DEF WaitForEvent, runnerVars
    <2>3. Seen(events) # <<>> /\ Seen(events)' = Tail(Seen(events))
      BY <2>1, SeenTail
    <2>4. Contract!Deliver
      BY <2>2, <2>3 DEF Contract!Deliver
    <2> QED
      BY <2>4 DEF Contract!Next
  <1>9. ASSUME EmitArtifact
        PROVE  Contract!Next
    <2> DEFINE e == [of |-> sent, task |-> request, type |-> "artifact", ref |-> Head(left)]
    <2>1. busy /\ left # <<>> /\ running = request /\ request \in Task /\ left \in Seq(Ref)
      BY <1>t, <1>9 DEF EmitArtifact, ThreadInv, TypeOK
    <2>2. e \in WorkerEvent
      BY <1>t, <2>1 DEF TypeOK, WorkerEvent
    <2>3. events \in Seq(WorkerEvent) /\ events' = Append(events, e)
      BY <1>t, <1>9 DEF EmitArtifact, Emit, TypeOK
    <2>4. Seen(events)' = Append(Seen(events), SeenEvent(e))
      BY <2>2, <2>3, SeenAppend
    <2>5. SeenEvent(e) = [task |-> running, type |-> "artifact", ref |-> Head(left)]
      BY <2>1 DEF SeenEvent
    <2>6. left' = Tail(left) /\ UNCHANGED <<running, busy, cancelled>>
      BY <1>9 DEF EmitArtifact
    <2>7. Contract!Produce
      BY <1>n, <2>1, <2>4, <2>5, <2>6 DEF Contract!Produce
    <2> QED
      BY <2>7 DEF Contract!Next
  <1>10. ASSUME Publish
         PROVE  Contract!Next
    <2> DEFINE e == [of |-> sent, task |-> request, type |-> terminal, ref |-> None]
    <2>1. /\ busy /\ running = request /\ request \in Task /\ terminal \in Terminals
          /\ terminal = "completed" => left = <<>>
          /\ terminal = "cancelled" => cancelled
      BY <1>t, <1>10 DEF Publish, ThreadInv, TypeOK
    <2>2. e \in WorkerEvent
      BY <1>t, <2>1 DEF TypeOK, WorkerEvent
    <2>3. events \in Seq(WorkerEvent) /\ events' = Append(events, e)
      BY <1>t, <1>10 DEF Publish, Emit, ThreadInv, TypeOK
    <2>4. Seen(events)' = Append(Seen(events), SeenEvent(e))
      BY <2>2, <2>3, SeenAppend
    <2>5. SeenEvent(e) = [task |-> running, type |-> terminal, ref |-> None]
      BY <2>1 DEF SeenEvent
    <2>6. running' = None /\ busy' = FALSE
      BY <1>10 DEF Publish
    <2>7. Contract!End(terminal)
      BY <1>n, <2>1, <2>4, <2>5, <2>6 DEF Contract!End
    <2>8. terminal \in Contract!TerminalType
      BY <2>1 DEF Contract!TerminalType, Terminals
    <2> QED
      BY <2>7, <2>8 DEF Contract!Next
  <1>11. ASSUME Shutdown
         PROVE  Contract!Next \/ UNCHANGED ContractVars
    BY <1>3, <1>4, <1>11 DEF Shutdown, runnerVars
  <1>12. \/ Sleep \/ Signal \/ NotifyAndExit \/ ShutdownNotify \/ ShutdownJoin
         \/ (\E giveUp \in BOOLEAN : WaitInVain(giveUp))
         \/ (\E type \in Terminals : Return(type))
         \/ UNCHANGED vars
         => UNCHANGED <<running, busy, left, cancelled, events>>
    BY DEF Sleep, Signal, NotifyAndExit, ShutdownNotify, ShutdownJoin, WaitInVain, Return, vars,
           queueVars, runnerVars
  <1> QED
    BY <1>2, <1>5, <1>6, <1>7, <1>8, <1>9, <1>10, <1>11, <1>12
    DEF Next, CallerStep, RunnerStep, StopperStep

-----------------------------------------------------------------------------
(* Theorems. *)

\* The inductive invariant of the in-process executor: whatever the
\* interleaving of Submit, RunTask, WaitForEvent, Cancel and Shutdown, the busy
\* flag, the worker thread, the queue and the two joins agree.
THEOREM Invariance == Spec => []ExecutorInv
  <1> QED
    BY InitInv, StepInv, PTL DEF Spec

\* A scheduler that was given the terminal event of its last submission is not
\* refused the next one as WORKER_BUSY (RunTask publishes under one lock).
THEOREM NeverBusyOnceAnswered == Spec => []FreeOnceAnswered
  <1>1. ExecutorInv => FreeOnceAnswered
    BY DEF ExecutorInv, QueueInv, FreeOnceAnswered
  <1> QED
    BY <1>1, Invariance, PTL

\* Once Shutdown has returned no task body runs, now or later: Submit and
\* Shutdown never lose sight of a worker thread between them.
THEOREM NothingRunsAfterShutdown == Spec => []QuietAfterShutdown
  <1>1. ExecutorInv => QuietAfterShutdown
    BY DEF ExecutorInv, JoinInv, QuietAfterShutdown
  <1> QED
    BY <1>1, Invariance, PTL

\* The in-process executor implements the contract that the scheduler relies
\* on, for every interleaving of its four threads.
THEOREM ContractRefinement == Spec => ImplementsContract
  <1>1. Init => Contract!Init
    <2>1. Init => Seen(events) = <<>>
      BY DEF Init, Seen
    <2> QED
      BY <2>1 DEF Init, Contract!Init
  <1>2. ExecutorInv /\ [Next]_vars => [Contract!Next]_(Contract!vars)
    BY StepContract DEF ContractVars, Contract!vars
  <1> QED
    BY <1>1, <1>2, Invariance, PTL DEF Spec, ImplementsContract, Contract!Spec
=============================================================================
