----------------------- MODULE ProcessExecutorProofs -----------------------
(***************************************************************************)
(* Proofs about ProcessExecutor for every set of tasks and artifacts, any  *)
(* outputs and any number of submissions, cancellations and deaths, when   *)
(* nobody cancels the COLMAP worker from another thread.                   *)
(*                                                                         *)
(* The host credits a frame to the submission it waits for without looking *)
(* at the task the frame names.  The invariant says why that is right: at  *)
(* most one request is anywhere between Submit and its terminal frame, it  *)
(* is the one waited for, and what was read, what is in the pipe and what  *)
(* the worker has left make up the task's output.                          *)
(***************************************************************************)
EXTENDS ProcessExecutor, SequenceTheorems, TLAPS

\* Cancel reached this submission, and a host that must tell the worker's
\* acknowledgement from a success knows.
Asked == asked /\ (worker = "colmap" => cancelPending)

\* A request is that of the submission in progress.
Mine(r) == r.of = submits /\ r.task = current

NoRequest == \A i \in 1..Len(toWorker) : toWorker[i].type # "request"

NotStarted == toHost = <<>> /\ got = <<>> /\ stage \in {"idle", "ended"}

\* No request is on its way or being served, and no frame is unread.
Quiet == toHost = <<>> /\ NoRequest /\ incoming = None /\ stage \in {"idle", "ended"}

\* The worker has taken the request out of the pipe.
Taken == Mine(active) /\ incoming = None /\ NoRequest

QuietUnlessWaiting == ~running \/ pendingFailure => Quiet

\* The request is in the pipe, ...
Written ==
    \A i \in 1..Len(toWorker) : toWorker[i].type = "request" =>
        /\ Mine(toWorker[i].req) /\ NotStarted /\ incoming = None
        /\ \A j \in 1..Len(toWorker) : toWorker[j].type = "request" => j = i
        /\ i < Len(toWorker) => Asked

\* ... or with the reader thread, ...
Read == incoming # None => /\ Mine(incoming) /\ NotStarted /\ NoRequest
                           /\ toWorker # <<>> => Asked

\* ... or claimed by the main loop, ...
Claimed == stage = "claimed" => /\ Taken /\ toHost = <<>> /\ got = <<>>
                                /\ toWorker # <<>> => Asked

\* ... or being served: then nothing but artifacts was sent for it.
Served ==
    stage = "work" =>
        /\ Taken
        /\ toWorker # <<>> \/ token => Asked
        /\ \A i \in 1..Len(toHost) : toHost[i].type = "artifact"
        /\ Len(got) + Len(toHost) + Len(left) = Len(Output[current])
        /\ \A i \in 1..Len(left) : left[i] = Output[current][Len(got) + Len(toHost) + i]

\* Between the two frames of an acknowledgement.
Stopping ==
    stage = "stopping" => /\ worker = "colmap" /\ Taken /\ Asked
                          /\ toHost # <<>> /\ toHost[Len(toHost)].type = "stopped"

\* What is in the pipe belongs to the submission: artifacts in the order of the
\* output, and a terminal frame after all of them.
Frames ==
    \A i \in 1..Len(toHost) :
        /\ toHost[i].of = submits
        /\ toHost[i].type = "artifact" => /\ Len(got) + i <= Len(Output[current])
                                          /\ toHost[i].ref = Output[current][Len(got) + i]
        /\ toHost[i].type = "completed" => Len(got) + i = Len(Output[current]) + 1
        /\ toHost[i].type \in {"stopped", "empty"} => Asked
        /\ toHost[i].type = "empty" => worker = "colmap"
        /\ i < Len(toHost) =>
              \/ toHost[i].type = "artifact"
              \/ /\ worker = "colmap" /\ toHost[i].type = "stopped"
                 /\ i + 1 = Len(toHost) /\ toHost[Len(toHost)].type = "empty"

Collected ==
    running => /\ Len(got) <= Len(Output[current])
               /\ \A i \in 1..Len(got) : got[i] = Output[current][i]

InStep == QuietUnlessWaiting /\ Written /\ Read /\ Claimed /\ Served /\ Stopping /\ Frames /\ Collected

\* Nothing is left over from a cancelled submission.
Clean == worker = "demo" \/ \A m \in 1..Len(log) : ~log[m].asked

\* A dead worker holds nothing, a task that runs is a task, and an artifact frame
\* carries an artifact.
Host == /\ HostInv
        /\ ~alive => toWorker = <<>> /\ incoming = None /\ stage = "idle"
        /\ running => current \in Task
        /\ \A i \in 1..Len(toHost) : toHost[i].type = "artifact" => toHost[i].ref \in Ref

Past == \A n \in DOMAIN log : (worker = "demo" \/ \A m \in 1..(n - 1) : ~log[m].asked) => Faithful(n)

ExecInv == Host /\ Past /\ (Clean => InStep)

-----------------------------------------------------------------------------
(* The host and the worker stay well typed and in agreement. *)

USE DEF vars, hostVars, cancelVars, workVars, pipes, bounds

\* The variables that are not flags, and the flags.
Shapes ==
    /\ worker \in Workers
    /\ caller \in {"idle", "wait"}
    /\ got \in Seq(Ref)
    /\ log \in Seq(Answer)
    /\ current \in Task \cup {None}
    /\ canceller \in {"no", "wrote"}
    /\ toWorker \in Seq(ToWorker) /\ toHost \in Seq(ToHost)
    /\ incoming \in Request \cup {None}
    /\ active \in Request \cup {None}
    /\ left \in Seq(Ref)
    /\ stage \in {"idle", "claimed", "work", "stopping", "ended"}
    /\ submits \in 0..MaxSubmits /\ cancels \in 0..MaxCancels /\ deaths \in 0..MaxDeaths

Flags ==
    /\ attached \in BOOLEAN /\ running \in BOOLEAN /\ alive \in BOOLEAN
    /\ cancelPending \in BOOLEAN /\ pendingFailure \in BOOLEAN
    /\ asked \in BOOLEAN /\ token \in BOOLEAN

\* What the flags say of one another.
Agree ==
    /\ running <=> caller = "wait"
    /\ pendingFailure => running
    /\ running => attached
    /\ ~attached => ~alive /\ toHost = <<>>
    /\ Len(log) + (IF running THEN 1 ELSE 0) = submits
    /\ stage = "idle" <=> active = None
    /\ ~alive => toWorker = <<>> /\ incoming = None /\ stage = "idle"
    /\ running => current \in Task
    /\ \A i \in 1..Len(toHost) : toHost[i].type = "artifact" => toHost[i].ref \in Ref

\* The three parts of Host.
LEMMA HostParts == Host <=> Shapes /\ Flags /\ Agree
  BY Zenon DEF Host, HostInv, TypeOK, Shapes, Flags, Agree

\* The flags are only ever set to truth values.
LEMMA FlagsPreserved == Flags /\ [Next]_vars => Flags'
  BY ZenonT(60) DEF Flags, Next, HostStep, WorkerStep, Submit, CancelWrite, CancelNote, Conclude,
     ReportPendingFailure, Reads, ReadArtifact, RejectArtifact, ReadStopped, ReadCompleted,
     ReadFailed, ReadEof, Shutdown, Send, Serve, DemoReceive, DemoIdle, ColmapReceive, ColmapTake,
     ColmapActivate, ColmapRelease, SendArtifact, Finish, SendCompleted, SendFailed, DemoStop,
     ColmapStop, ColmapStopped, Die

\* The answer Conclude appends to the log.
LEMMA Concluded ==
    ASSUME Host, caller = "wait", NEW type \in {"completed", "cancelled", "failed", "crashed"},
           NEW of \in 1..MaxSubmits, Conclude(type, of)
    PROVE  /\ log' \in Seq(Answer) /\ Len(log') = Len(log) + 1
           /\ \A n \in 1..Len(log) : log'[n] = log[n]
           /\ log'[submits].of = of /\ log'[submits].type = type
           /\ log'[submits].task = current /\ log'[submits].outputs = got
           /\ log'[submits].asked = asked
           /\ Len(log) + 1 = submits /\ running /\ attached
           /\ caller' = "idle" /\ running' = FALSE /\ got' = got /\ current' = current
  <1> DEFINE a == [task |-> current, of |-> of, asked |-> asked, outputs |-> got, type |-> type]
  <1>1. Shapes /\ Agree /\ asked \in BOOLEAN
    BY HostParts, Zenon DEF Flags
  <1>2. running /\ current \in Task /\ Len(log) \in Nat /\ Len(log) + 1 = submits /\ attached
    BY <1>1 DEF Agree, Shapes
  <1>3. a \in Answer
    BY <1>1, <1>2 DEF Answer, Shapes
  <1>4. a.of = of /\ a.type = type /\ a.task = current /\ a.outputs = got /\ a.asked = asked
    OBVIOUS
  <1>5. log' = Append(log, a) /\ caller' = "idle" /\ running' = FALSE /\ got' = got /\ current' = current
    BY DEF Conclude
  <1> HIDE DEF a
  <1>6. log' \in Seq(Answer) /\ Len(log') = Len(log) + 1 /\ log'[submits] = a
        /\ \A n \in 1..Len(log) : log'[n] = log[n]
    BY <1>1, <1>2, <1>3, <1>5, AppendProperties DEF Shapes
  <1> QED
    BY <1>2, <1>4, <1>5, <1>6

\* What the host knows of the frame it reads.
LEMMA HeadFrame ==
    ASSUME Shapes, toHost # <<>>
    PROVE  /\ Head(toHost) \in ToHost /\ Head(toHost) = toHost[1] /\ Len(toHost) \in Nat \ {0}
           /\ Head(toHost).of \in 1..MaxSubmits /\ Head(toHost).ref \in Ref \cup {None}
           /\ Tail(toHost) \in Seq(ToHost) /\ Len(Tail(toHost)) = Len(toHost) - 1
           /\ \A i \in 1..Len(Tail(toHost)) : Tail(toHost)[i] = toHost[i + 1]
  <1>1. toHost \in Seq(ToHost)
    BY DEF Shapes
  <1>2. Head(toHost) \in ToHost /\ Len(toHost) \in Nat \ {0} /\ Head(toHost) = toHost[1]
    BY <1>1, HeadTailProperties, EmptySeq
  <1>3. /\ Tail(toHost) \in Seq(ToHost) /\ Len(Tail(toHost)) = Len(toHost) - 1
        /\ \A i \in 1..Len(Tail(toHost)) : Tail(toHost)[i] = toHost[i + 1]
    BY <1>1, HeadTailProperties
  <1> QED
    BY <1>2, <1>3 DEF ToHost

\* What the worker knows of the frame it receives.
LEMMA HeadRequest ==
    ASSUME Shapes, toWorker # <<>>
    PROVE  /\ Head(toWorker) = toWorker[1] /\ Len(toWorker) \in Nat \ {0}
           /\ Head(toWorker).type \in {"request", "cancel"} /\ Head(toWorker).req \in Request
           /\ Tail(toWorker) \in Seq(ToWorker) /\ Len(Tail(toWorker)) = Len(toWorker) - 1
           /\ \A i \in 1..Len(Tail(toWorker)) : Tail(toWorker)[i] = toWorker[i + 1]
  <1>1. toWorker \in Seq(ToWorker)
    BY DEF Shapes
  <1>2. Head(toWorker) \in ToWorker /\ Len(toWorker) \in Nat \ {0} /\ Head(toWorker) = toWorker[1]
    BY <1>1, HeadTailProperties, EmptySeq
  <1>3. /\ Tail(toWorker) \in Seq(ToWorker) /\ Len(Tail(toWorker)) = Len(toWorker) - 1
        /\ \A i \in 1..Len(Tail(toWorker)) : Tail(toWorker)[i] = toWorker[i + 1]
    BY <1>1, HeadTailProperties
  <1> QED
    BY <1>2, <1>3 DEF ToWorker

\* A frame the host writes.
LEMMA Wrote ==
    ASSUME Shapes, NEW type \in {"request", "cancel"}, NEW n \in 1..MaxSubmits, NEW t \in Task,
           toWorker' = Append(toWorker, [type |-> type, req |-> [of |-> n, task |-> t]])
    PROVE  /\ toWorker' \in Seq(ToWorker) /\ Len(toWorker') = Len(toWorker) + 1 /\ Len(toWorker) \in Nat
           /\ \A i \in 1..Len(toWorker) : toWorker'[i] = toWorker[i]
           /\ toWorker'[Len(toWorker) + 1].type = type
           /\ toWorker'[Len(toWorker) + 1].req.of = n /\ toWorker'[Len(toWorker) + 1].req.task = t
  <1> DEFINE f == [type |-> type, req |-> [of |-> n, task |-> t]]
  <1>1. f \in ToWorker /\ f.type = type /\ f.req.of = n /\ f.req.task = t
    BY DEF ToWorker, Request
  <1>2. toWorker' = Append(toWorker, f)
    OBVIOUS
  <1> HIDE DEF f
  <1>3. /\ toWorker' \in Seq(ToWorker) /\ Len(toWorker') = Len(toWorker) + 1
        /\ toWorker'[Len(toWorker) + 1] = f
        /\ \A i \in 1..Len(toWorker) : toWorker'[i] = toWorker[i]
    <2>1. toWorker \in Seq(ToWorker) /\ f \in ToWorker
      BY <1>1 DEF Shapes
    <2> QED
      BY <1>2, <2>1, AppendProperties
  <1> QED
    BY <1>1, <1>3, LenProperties DEF Shapes

\* A frame the worker sends.
LEMMA Sent ==
    ASSUME Shapes, active \in Request, NEW ref \in Ref \cup {None},
           NEW type \in {"stopped", "artifact", "completed", "empty", "failed", "crashed"}, Send(type, ref)
    PROVE  /\ toHost' \in Seq(ToHost) /\ Len(toHost') = Len(toHost) + 1 /\ Len(toHost) \in Nat
           /\ \A i \in 1..Len(toHost) : toHost'[i] = toHost[i]
           /\ toHost'[Len(toHost) + 1].type = type /\ toHost'[Len(toHost) + 1].of = active.of
           /\ toHost'[Len(toHost) + 1].ref = ref /\ toHost' # <<>>
  <1> DEFINE f == [type |-> type, of |-> active.of, ref |-> ref]
  <1>1. f \in ToHost /\ f.type = type /\ f.of = active.of /\ f.ref = ref
    BY DEF ToHost, Request
  <1>2. toHost' = Append(toHost, f)
    BY DEF Send
  <1> HIDE DEF f
  <1>3. /\ toHost' \in Seq(ToHost) /\ Len(toHost') = Len(toHost) + 1 /\ toHost' # <<>>
        /\ toHost'[Len(toHost) + 1] = f
        /\ \A i \in 1..Len(toHost) : toHost'[i] = toHost[i]
    <2>1. toHost \in Seq(ToHost) /\ f \in ToHost
      BY <1>1 DEF Shapes
    <2> QED
      BY <1>2, <2>1, AppendProperties
  <1> QED
    BY <1>1, <1>3, LenProperties DEF Shapes

\* Every action keeps the host and the worker well typed and in agreement.
LEMMA HostPreserved == ASSUME Host, [Next]_vars PROVE Host'
  <1> USE BoundAssumption, NoneAssumption, OutputAssumption
  <1> DEFINE Refs == \A i \in 1..Len(toHost) : toHost[i].type = "artifact" => toHost[i].ref \in Ref
  <1>1. Shapes /\ Flags /\ Agree
    BY HostParts
  <1>2. Flags'
    BY <1>1, FlagsPreserved
  <1>3. Len(log) \in Nat
    BY <1>1, LenProperties DEF Shapes
  <1> SUFFICES Shapes' /\ Agree'
    BY <1>2, Zenon DEF Host, HostInv, TypeOK, Shapes, Flags, Agree
  <1>4. ASSUME NEW t \in Task, NEW m \in BOOLEAN, Submit(t, m) PROVE Shapes' /\ Agree'
    <2>1. submits + 1 \in 1..MaxSubmits
      BY <1>1, <1>4 DEF Submit, Shapes
    <2>2. toWorker' \in Seq(ToWorker)
      BY <1>1, <1>4, <2>1, Wrote DEF Submit, Shapes
    <2>3. Shapes'
      BY <1>1, <1>4, <2>1, <2>2 DEF Submit, Shapes
    <2>4. Agree'
      BY <1>1, <1>3, <1>4 DEF Submit, Agree, Shapes
    <2> QED
      BY <2>3, <2>4
  <1>5. CASE CancelWrite
    <2>1. submits \in 1..MaxSubmits /\ current \in Task
      BY <1>1, <1>3, <1>5 DEF CancelWrite, Agree, Shapes
    <2>2. toWorker' \in Seq(ToWorker)
      BY <1>1, <1>5, <2>1, Wrote DEF CancelWrite, Shapes
    <2>3. Shapes'
      BY <1>1, <1>5, <2>2 DEF CancelWrite, Shapes
    <2>4. Agree'
      BY <1>1, <1>5 DEF CancelWrite, Agree
    <2> QED
      BY <2>3, <2>4
  <1>6. CASE CancelNote
    BY <1>1, <1>6 DEF CancelNote, Shapes, Agree
  <1>7. ASSUME NEW type \in {"completed", "cancelled", "failed", "crashed"},
               NEW of \in 1..MaxSubmits, caller = "wait", Conclude(type, of),
               UNCHANGED <<worker, cancelVars, toWorker, bounds, attached, alive, workVars>>,
               toHost' \in Seq(ToHost), Refs', ~pendingFailure'
        PROVE  Shapes' /\ Agree'
    <2>1. /\ log' \in Seq(Answer) /\ Len(log') = Len(log) + 1 /\ Len(log) + 1 = submits /\ running /\ attached
          /\ caller' = "idle" /\ running' = FALSE /\ got' = got /\ current' = current
      BY <1>7, Concluded
    <2>2. Shapes'
      BY <1>1, <1>7, <2>1 DEF Shapes
    <2>3. Agree'
      BY <1>1, <1>3, <1>7, <2>1 DEF Agree
    <2> QED
      BY <2>2, <2>3
  <1>8. CASE ReportPendingFailure
    <2>1. submits \in 1..MaxSubmits /\ toHost' \in Seq(ToHost) /\ Refs'
      BY <1>1, <1>3, <1>8 DEF ReportPendingFailure, Agree, Shapes
    <2> QED
      BY <1>7, <1>8, <2>1 DEF ReportPendingFailure
  <1>9. CASE ReadEof
    <2>1. submits \in 1..MaxSubmits /\ toHost' \in Seq(ToHost) /\ Refs'
      BY <1>1, <1>3, <1>9 DEF ReadEof, Agree, Shapes
    <2> QED
      BY <1>7, <1>9, <2>1 DEF ReadEof
  <1>10. ASSUME toHost # <<>>, toHost' = Tail(toHost)
         PROVE  toHost' \in Seq(ToHost) /\ Refs'
    <2>1. toHost' \in Seq(ToHost) /\ Len(toHost') = Len(toHost) - 1 /\ Len(toHost) \in Nat \ {0}
          /\ \A i \in 1..Len(toHost') : toHost'[i] = toHost[i + 1]
      BY <1>1, <1>10, HeadFrame
    <2>2. ASSUME NEW i \in 1..Len(toHost'), toHost'[i].type = "artifact" PROVE toHost'[i].ref \in Ref
      <3>1. i + 1 \in 1..Len(toHost) /\ toHost'[i] = toHost[i + 1]
        BY <2>1
      <3> QED
        BY <1>1, <2>2, <3>1 DEF Agree
    <2> QED
      BY <2>1, <2>2
  <1>11. CASE ReadArtifact
    <2>1. toHost # <<>> /\ got' = Append(got, Head(toHost).ref) /\ Head(toHost).type = "artifact"
      BY <1>11 DEF ReadArtifact, Reads
    <2>2. Head(toHost).ref \in Ref
      BY <1>1, <2>1, HeadFrame DEF Agree
    <2>3. got' \in Seq(Ref)
      BY <1>1, <2>1, <2>2, AppendProperties DEF Shapes
    <2>4. toHost' \in Seq(ToHost) /\ Refs'
      BY <1>10, <1>11, <2>1 DEF ReadArtifact
    <2> QED
      BY <1>1, <1>11, <2>3, <2>4 DEF ReadArtifact, Reads, Shapes, Agree
  <1>12. CASE RejectArtifact
    <2>1. caller = "wait" /\ toHost # <<>> /\ ~pendingFailure
      BY <1>12 DEF RejectArtifact, Reads
    <2>2. Head(toHost).of \in 1..MaxSubmits
      BY <1>1, <2>1, HeadFrame
    <2>3. /\ log' \in Seq(Answer) /\ Len(log') = Len(log) + 1 /\ Len(log) + 1 = submits
          /\ caller' = "idle" /\ running' = FALSE /\ got' = got /\ current' = current
      BY <1>12, <2>1, <2>2, Concluded DEF RejectArtifact
    <2>4. Shapes'
      BY <1>1, <1>12, <2>3 DEF RejectArtifact, Shapes
    <2>5. Agree'
      BY <1>1, <1>3, <1>12, <2>1, <2>3 DEF RejectArtifact, Agree
    <2> QED
      BY <2>4, <2>5
  <1>13. CASE ReadStopped
    <2>1. caller = "wait" /\ toHost # <<>> /\ ~pendingFailure /\ toHost' = Tail(toHost)
      BY <1>13 DEF ReadStopped, Reads
    <2>2. Head(toHost).of \in 1..MaxSubmits /\ toHost' \in Seq(ToHost) /\ Refs'
      BY <1>1, <1>10, <2>1, HeadFrame
    <2>3. CASE cancelPending
      BY <1>7, <1>13, <2>1, <2>2, <2>3 DEF ReadStopped
    <2>4. CASE ~cancelPending
      BY <1>1, <1>13, <2>1, <2>2, <2>4 DEF ReadStopped, Reads, Shapes, Agree
    <2> QED
      BY <2>3, <2>4
  <1>14. CASE ReadCompleted
    <2>1. caller = "wait" /\ toHost # <<>> /\ ~pendingFailure /\ toHost' = Tail(toHost)
      BY <1>14 DEF ReadCompleted, Reads
    <2>2. Head(toHost).of \in 1..MaxSubmits /\ toHost' \in Seq(ToHost) /\ Refs'
      BY <1>1, <1>10, <2>1, HeadFrame
    <2> QED
      BY <1>7, <1>14, <2>1, <2>2 DEF ReadCompleted
  <1>15. CASE ReadFailed
    <2>1. caller = "wait" /\ toHost # <<>> /\ ~pendingFailure /\ toHost' = Tail(toHost)
      BY <1>15 DEF ReadFailed, Reads
    <2>2. Head(toHost).of \in 1..MaxSubmits /\ toHost' \in Seq(ToHost) /\ Refs'
      BY <1>1, <1>10, <2>1, HeadFrame
    <2>3. Head(toHost).type \in {"failed", "crashed"}
      BY <1>15 DEF ReadFailed, Reads
    <2> QED
      BY <1>7, <1>15, <2>1, <2>2, <2>3 DEF ReadFailed
  <1>16. CASE Shutdown
    BY <1>1, <1>16 DEF Shutdown, Shapes, Agree
  <1>17. CASE Die
    BY <1>1, <1>17 DEF Die, Shapes, Agree
  <1>18. CASE DemoReceive \/ ColmapReceive
    <2>1. toWorker # <<>> /\ toWorker' = Tail(toWorker) /\ alive
      BY <1>18 DEF DemoReceive, ColmapReceive
    <2>2. Head(toWorker).req \in Request /\ toWorker' \in Seq(ToWorker)
      BY <1>1, <2>1, HeadRequest
    <2>3. Output[Head(toWorker).req.task] \in Seq(Ref)
      BY <2>2 DEF Request
    <2>4. Shapes'
      BY <1>1, <1>18, <2>2, <2>3 DEF DemoReceive, ColmapReceive, Serve, Shapes
    <2>5. CASE DemoReceive
      <3>1. stage' = "idle" <=> active' = None
        BY <1>1, <2>2, <2>5 DEF DemoReceive, Serve, Agree
      <3> QED
        BY <1>1, <2>1, <2>4, <2>5, <3>1 DEF DemoReceive, Agree
    <2>6. CASE ColmapReceive
      BY <1>1, <2>1, <2>4, <2>6 DEF ColmapReceive, Agree
    <2> QED
      BY <1>18, <2>4, <2>5, <2>6
  <1>19. CASE DemoIdle \/ ColmapRelease
    <2>1. Shapes'
      BY <1>1, <1>19 DEF DemoIdle, ColmapRelease, Shapes
    <2>2. CASE DemoIdle
      BY <1>1, <2>1, <2>2 DEF DemoIdle, Agree
    <2>3. CASE ColmapRelease
      BY <1>1, <2>1, <2>3 DEF ColmapRelease, Agree
    <2> QED
      BY <1>19, <2>1, <2>2, <2>3
  <1>20. CASE ColmapTake
    BY <1>1, <1>20 DEF ColmapTake, Shapes, Agree
  <1>21. CASE ColmapActivate
    <2>1. active \in Request
      BY <1>1, <1>21 DEF ColmapActivate, Shapes, Agree
    <2>2. Output[active.task] \in Seq(Ref)
      BY <2>1 DEF Request
    <2> QED
      BY <1>1, <1>21, <2>1, <2>2 DEF ColmapActivate, Serve, Shapes, Agree
  <1>22. ASSUME NEW type \in {"stopped", "artifact", "completed", "empty", "failed", "crashed"},
                NEW ref \in Ref \cup {None}, Send(type, ref), stage \in {"work", "stopping"},
                type = "artifact" => ref \in Ref, left' \in Seq(Ref), alive,
                stage' \in {"work", "stopping", "ended"},
                UNCHANGED <<worker, hostVars, cancelVars, incoming, active, token, toWorker, alive, bounds>>
         PROVE  Shapes' /\ Agree'
    <2>1. active \in Request
      BY <1>1, <1>22 DEF Shapes, Agree
    <2>2. /\ toHost' \in Seq(ToHost) /\ Len(toHost') = Len(toHost) + 1 /\ Len(toHost) \in Nat
          /\ \A i \in 1..Len(toHost) : toHost'[i] = toHost[i]
          /\ toHost'[Len(toHost) + 1].type = type /\ toHost'[Len(toHost) + 1].ref = ref
      BY <1>1, <1>22, <2>1, Sent
    <2>3. Refs'
      BY <1>1, <1>22, <2>2 DEF Agree
    <2> QED
      BY <1>1, <1>22, <2>1, <2>2, <2>3 DEF Shapes, Agree
  <1>23. CASE SendArtifact
    <2>1. left # <<>> /\ Head(left) \in Ref /\ Tail(left) \in Seq(Ref)
      BY <1>1, <1>23, HeadTailProperties DEF SendArtifact, Shapes
    <2> QED
      BY <1>22, <1>23, <2>1 DEF SendArtifact
  <1>24. ASSUME NEW type \in {"completed", "stopped", "failed", "crashed"}, Finish(type)
         PROVE  Shapes' /\ Agree'
    <2>1. left' \in Seq(Ref)
      BY <1>24 DEF Finish
    <2> QED
      BY <1>22, <1>24, <2>1 DEF Finish
  <1>25. CASE ColmapStop
    <2>1. left' \in Seq(Ref)
      BY <1>25 DEF ColmapStop
    <2> QED
      BY <1>22, <1>25, <2>1 DEF ColmapStop
  <1>26. CASE ColmapStopped
    <2>1. left' \in Seq(Ref)
      BY <1>1, <1>26 DEF ColmapStopped, Shapes
    <2> QED
      BY <1>22, <1>26, <2>1 DEF ColmapStopped
  <1>27. CASE SendCompleted \/ DemoStop \/ \E type \in {"failed", "crashed"} : SendFailed(type)
    BY <1>24, <1>27 DEF SendCompleted, DemoStop, SendFailed
  <1>28. CASE UNCHANGED vars
    BY <1>1, <1>28 DEF Shapes, Agree
  <1> QED
    BY <1>4, <1>5, <1>6, <1>8, <1>9, <1>11, <1>12, <1>13, <1>14, <1>15, <1>16, <1>17, <1>18, <1>19,
       <1>20, <1>21, <1>23, <1>25, <1>26, <1>27, <1>28 DEF Next, HostStep, WorkerStep

-----------------------------------------------------------------------------
(* Answers are what the worker made of their submissions. *)

\* The first unread frame of a submission in step; a frame that ends the task is
\* the last one, but for the first half of an acknowledgement.
LEMMA FirstFrame ==
    ASSUME Host, InStep, toHost # <<>>
    PROVE  /\ running /\ ~pendingFailure /\ NoRequest /\ incoming = None /\ stage # "claimed"
           /\ Head(toHost).of = submits
           /\ Head(toHost).type = "artifact" => Head(toHost).ref = Output[current][Len(got) + 1]
                                                /\ Len(got) + 1 <= Len(Output[current])
           /\ Head(toHost).type = "completed" => Len(got) = Len(Output[current])
           /\ Head(toHost).type \in {"stopped", "empty"} => Asked
           /\ Head(toHost).type = "empty" => worker = "colmap"
           /\ Head(toHost).type # "artifact" =>
                 \/ Len(toHost) = 1 /\ Tail(toHost) = <<>>
                 \/ worker = "colmap" /\ Head(toHost).type = "stopped"
           /\ Head(toHost).type \notin {"artifact", "stopped"} => stage \in {"idle", "ended"}
           /\ Head(toHost).type = "stopped" /\ worker = "demo" => stage \in {"idle", "ended"}
  <1>1. Shapes /\ Agree
    BY HostParts
  <1>2. /\ Head(toHost) = toHost[1] /\ Len(toHost) \in Nat \ {0} /\ 1 \in 1..Len(toHost)
        /\ Tail(toHost) \in Seq(ToHost) /\ Len(Tail(toHost)) = Len(toHost) - 1
    BY <1>1, HeadFrame
  <1>3. running /\ ~pendingFailure
    BY DEF InStep, QuietUnlessWaiting, Quiet
  <1>4. NoRequest /\ incoming = None /\ stage # "claimed"
    BY DEF InStep, Written, Read, Claimed, NotStarted, NoRequest
  <1>5. Len(got) \in Nat /\ current \in Task
    BY <1>1, <1>3, LenProperties DEF Shapes, Agree
  <1>6. Output[current] \in Seq(Ref)
    BY <1>5, OutputAssumption
  <1>7. Len(Output[current]) \in Nat
    BY <1>6, LenProperties
  <1>8. Head(toHost).of = submits
    BY <1>2 DEF InStep, Frames
  <1>9. Head(toHost).type = "artifact" => Head(toHost).ref = Output[current][Len(got) + 1]
                                          /\ Len(got) + 1 <= Len(Output[current])
    BY <1>2 DEF InStep, Frames
  <1>10. Head(toHost).type = "completed" => Len(got) = Len(Output[current])
    <2>1. Head(toHost).type = "completed" => Len(got) + 1 = Len(Output[current]) + 1
      BY <1>2 DEF InStep, Frames
    <2> QED
      BY <1>5, <1>7, <2>1
  <1>11. /\ Head(toHost).type \in {"stopped", "empty"} => Asked
         /\ Head(toHost).type = "empty" => worker = "colmap"
    BY <1>2 DEF InStep, Frames
  <1>12. Head(toHost).type # "artifact" =>
            Len(toHost) = 1 \/ (worker = "colmap" /\ Head(toHost).type = "stopped")
    <2>1. 1 < Len(toHost) => toHost[1].type = "artifact" \/ (worker = "colmap" /\ toHost[1].type = "stopped")
      BY <1>2 DEF InStep, Frames
    <2> QED
      BY <1>2, <2>1
  <1>13. Len(toHost) = 1 => Tail(toHost) = <<>>
    <2>1. Tail(toHost) # <<>> => Len(Tail(toHost)) \in Nat \ {0}
      BY <1>2, EmptySeq
    <2> QED
      BY <1>2, <2>1
  <1>14. Head(toHost).type # "artifact" => stage # "work"
    BY <1>2 DEF InStep, Served
  <1>15. stage = "stopping" => worker = "colmap" /\ toHost[Len(toHost)].type = "stopped"
    BY DEF InStep, Stopping
  <1>16. /\ Head(toHost).type \notin {"artifact", "stopped"} => stage \in {"idle", "ended"}
         /\ Head(toHost).type = "stopped" /\ worker = "demo" => stage \in {"idle", "ended"}
    BY <1>1, <1>2, <1>4, <1>12, <1>14, <1>15 DEF Shapes
  <1> QED
    BY <1>3, <1>4, <1>8, <1>9, <1>10, <1>11, <1>12, <1>13, <1>16

\* An answer that is faithful, if nothing was left over, keeps the log faithful.
LEMMA FaithfulEnd ==
    ASSUME ExecInv, caller = "wait", NEW type \in {"completed", "cancelled", "failed", "crashed"},
           NEW of \in 1..MaxSubmits, Conclude(type, of), UNCHANGED worker,
           Clean => /\ of = submits
                    /\ type = "completed" => got = Output[current]
                    /\ type = "cancelled" => asked
    PROVE  Past'
  <1>1. Host /\ Past /\ Shapes
    BY HostParts DEF ExecInv
  <1>2. /\ log' \in Seq(Answer) /\ Len(log') = Len(log) + 1
        /\ \A n \in 1..Len(log) : log'[n] = log[n]
        /\ log'[submits].of = of /\ log'[submits].type = type
        /\ log'[submits].task = current /\ log'[submits].outputs = got
        /\ log'[submits].asked = asked
        /\ Len(log) + 1 = submits
    BY <1>1, Concluded
  <1>3. Len(log) \in Nat /\ DOMAIN log = 1..Len(log) /\ DOMAIN log' = 1..Len(log')
    BY <1>1, <1>2, LenProperties DEF Shapes
  <1> SUFFICES ASSUME NEW n \in 1..Len(log'), worker = "demo" \/ \A m \in 1..(n - 1) : ~log'[m].asked
               PROVE  Faithful(n)'
    BY <1>3 DEF Past
  <1>4. CASE n \in 1..Len(log)
    <2>1. \A m \in 1..(n - 1) : log'[m] = log[m]
      BY <1>2, <1>3, <1>4
    <2>2. Faithful(n)
      BY <1>1, <1>3, <1>4, <2>1 DEF Past
    <2> QED
      BY <1>2, <1>4, <2>2 DEF Faithful
  <1>5. CASE n = submits
    <2>1. Clean
      BY <1>2, <1>3, <1>5 DEF Clean
    <2> QED
      BY <1>2, <1>5, <2>1 DEF Faithful
  <1> QED
    BY <1>2, <1>3, <1>4, <1>5

\* Each way in which a submission ends, and the steps that end none.
LEMMA PastPreserved == ASSUME ExecInv, [Next]_vars PROVE Past'
  <1>1. Host /\ Past /\ Shapes /\ Agree /\ (Clean => InStep)
    BY HostParts DEF ExecInv
  <1>2. running => submits \in 1..MaxSubmits
    BY <1>1, LenProperties, BoundAssumption DEF Shapes, Agree
  <1>3. running => Output[current] \in Seq(Ref)
    BY <1>1, OutputAssumption DEF Agree
  <1>4. CASE ReportPendingFailure
    BY <1>1, <1>2, <1>4, FaithfulEnd DEF ReportPendingFailure, Agree
  <1>5. CASE ReadEof
    BY <1>1, <1>2, <1>5, FaithfulEnd DEF ReadEof, Agree
  <1>6. toHost # <<>> => Head(toHost).of \in 1..MaxSubmits /\ (Clean => Head(toHost).of = submits)
    BY <1>1, HeadFrame, FirstFrame
  <1>7. CASE RejectArtifact
    BY <1>6, <1>7, FaithfulEnd DEF RejectArtifact, Reads
  <1>8. CASE ReadFailed
    <2>1. Head(toHost).type \in {"failed", "crashed"} /\ toHost # <<>>
      BY <1>8 DEF ReadFailed, Reads
    <2> QED
      BY <1>6, <1>8, <2>1, FaithfulEnd DEF ReadFailed, Reads
  <1>9. CASE ReadStopped
    <2>1. Head(toHost).type = "stopped" /\ toHost # <<>> /\ caller = "wait"
      BY <1>9 DEF ReadStopped, Reads
    <2>2. Clean => asked
      BY <1>1, <2>1, FirstFrame DEF Asked
    <2>3. CASE cancelPending
      BY <1>6, <1>9, <2>1, <2>2, <2>3, FaithfulEnd DEF ReadStopped
    <2>4. CASE ~cancelPending
      BY <1>1, <1>9, <2>4 DEF ReadStopped, Past, Faithful
    <2> QED
      BY <2>3, <2>4
  <1>10. CASE ReadCompleted
    <2> DEFINE type == IF cancelPending /\ Head(toHost).type = "empty" THEN "cancelled" ELSE "completed"
    <2>1. Head(toHost).type \in {"completed", "empty"} /\ toHost # <<>> /\ caller = "wait"
      BY <1>10 DEF ReadCompleted, Reads
    <2>2. Clean /\ Head(toHost).type = "empty" => asked /\ cancelPending
      BY <1>1, <2>1, FirstFrame DEF Asked
    <2>3. ASSUME Clean, Head(toHost).type = "completed" PROVE got = Output[current]
      <3>1. Len(got) = Len(Output[current]) /\ running
        BY <1>1, <2>1, <2>3, FirstFrame
      <3>2. \A i \in 1..Len(got) : got[i] = Output[current][i]
        BY <1>1, <2>3, <3>1 DEF InStep, Collected
      <3> QED
        BY <1>1, <1>3, <3>1, <3>2, SeqEqual DEF Shapes
    <2>4. Conclude(type, Head(toHost).of) /\ UNCHANGED worker
      BY <1>10 DEF ReadCompleted
    <2>5. Clean => /\ type = "completed" => got = Output[current]
                   /\ type = "cancelled" => asked
      BY <2>1, <2>2, <2>3
    <2>6. type \in {"completed", "cancelled"}
      OBVIOUS
    <2> HIDE DEF type
    <2> QED
      BY <1>6, <2>1, <2>4, <2>5, <2>6, FaithfulEnd
  <1>11. CASE UNCHANGED <<worker, log>>
    BY <1>1, <1>11 DEF Past, Faithful
  <1>12. \/ ReportPendingFailure \/ ReadEof \/ RejectArtifact \/ ReadFailed \/ ReadStopped \/ ReadCompleted
         \/ UNCHANGED <<worker, log>>
    BY DEF Next, HostStep, WorkerStep, Submit, CancelWrite, CancelNote, ReadArtifact, Shutdown, Send, Serve,
       DemoReceive, DemoIdle, ColmapReceive, ColmapTake, ColmapActivate, ColmapRelease, SendArtifact,
       Finish, SendCompleted, SendFailed, DemoStop, ColmapStop, ColmapStopped, Die
  <1> QED
    BY <1>4, <1>5, <1>7, <1>8, <1>9, <1>10, <1>11, <1>12

-----------------------------------------------------------------------------
(* The request, the pipes and the worker stay in step. *)

\* The log only grows, by the answer to a submission that then no longer runs.
LEMMA LogStep ==
    ASSUME Host, [Next]_vars
    PROVE  /\ worker' = worker
           /\ \/ log' = log
              \/ /\ Len(log') = Len(log) + 1 /\ log'[Len(log) + 1].asked = asked
                 /\ \A n \in 1..Len(log) : log'[n] = log[n]
  <1>1. Shapes /\ Agree
    BY HostParts
  <1>2. running => submits \in 1..MaxSubmits
    BY <1>1, LenProperties, BoundAssumption DEF Shapes, Agree
  <1>3. toHost # <<>> => Head(toHost).of \in 1..MaxSubmits
    BY <1>1, HeadFrame
  <1>4. ASSUME NEW type \in {"completed", "cancelled", "failed", "crashed"}, caller = "wait",
               NEW of \in 1..MaxSubmits, Conclude(type, of)
        PROVE  /\ Len(log') = Len(log) + 1 /\ log'[Len(log) + 1].asked = asked
               /\ \A n \in 1..Len(log) : log'[n] = log[n]
    BY <1>4, Concluded
  <1>5. CASE ReportPendingFailure
    BY <1>1, <1>2, <1>4, <1>5 DEF ReportPendingFailure, Agree
  <1>6. CASE ReadEof
    BY <1>1, <1>2, <1>4, <1>6 DEF ReadEof, Agree
  <1>7. CASE RejectArtifact
    BY <1>3, <1>4, <1>7 DEF RejectArtifact, Reads
  <1>8. CASE ReadFailed
    <2>1. Head(toHost).type \in {"failed", "crashed"}
      BY <1>8 DEF ReadFailed, Reads
    <2> QED
      BY <1>3, <1>4, <1>8, <2>1 DEF ReadFailed, Reads
  <1>9. CASE ReadStopped
    BY <1>3, <1>4, <1>9 DEF ReadStopped, Reads
  <1>10. CASE ReadCompleted
    BY <1>3, <1>4, <1>10 DEF ReadCompleted, Reads
  <1>11. \/ ReportPendingFailure \/ ReadEof \/ RejectArtifact \/ ReadFailed \/ ReadStopped \/ ReadCompleted
         \/ UNCHANGED <<worker, log>>
    BY DEF Next, HostStep, WorkerStep, Submit, CancelWrite, CancelNote, ReadArtifact, Shutdown, Send, Serve,
       DemoReceive, DemoIdle, ColmapReceive, ColmapTake, ColmapActivate, ColmapRelease, SendArtifact,
       Finish, SendCompleted, SendFailed, DemoStop, ColmapStop, ColmapStopped, Die
  <1> QED
    BY <1>5, <1>6, <1>7, <1>8, <1>9, <1>10, <1>11

\* What is clean after a step was clean before it, and no cancelled submission of
\* the COLMAP worker ended in the step.
LEMMA CleanBefore ==
    ASSUME Host, [Next]_vars, Clean'
    PROVE  Clean /\ (log' # log /\ asked => worker = "demo")
  <1>1. Len(log) \in Nat
    BY HostParts, LenProperties DEF Shapes
  <1> QED
    BY <1>1, LogStep DEF Clean

\* A quiet worker is in step with whatever is collected.
LEMMA QuietIsInStep == ASSUME Quiet', Collected' PROVE InStep'
  <1>1. toHost' = <<>> /\ Len(toHost') = 0
    BY EmptySeq DEF Quiet
  <1>2. Written' /\ Read' /\ Claimed' /\ Served' /\ Stopping'
    BY DEF Quiet, Written, NoRequest, Read, Claimed, Served, Stopping
  <1>3. Frames'
    BY <1>1 DEF Frames
  <1> QED
    BY <1>2, <1>3 DEF InStep, QuietUnlessWaiting

\* Steps of the host.
LEMMA HostKeepsStep ==
    ASSUME "colmap" \notin Racing, Host, Clean', InStep, [Next]_vars,
           \/ \E t \in Task, m \in BOOLEAN : Submit(t, m)
           \/ CancelWrite \/ CancelNote \/ HostStep \/ RejectArtifact \/ Shutdown
    PROVE  InStep'
  <1> USE BoundAssumption, NoneAssumption
  <1>1. Shapes /\ Agree
    BY HostParts
  <1>2. Clean /\ (log' # log /\ asked => worker = "demo")
    BY CleanBefore
  <1>3. worker \in {"demo", "colmap"}
    BY <1>1, WorkerAssumption DEF Shapes
  <1>4. Len(got) \in Nat /\ Len(toHost) \in Nat /\ Len(toWorker) \in Nat /\ Len(log) \in Nat
    BY <1>1, LenProperties DEF Shapes
  <1>5. ASSUME NEW t \in Task, NEW m \in BOOLEAN, Submit(t, m) PROVE InStep'
    <2>1. Quiet
      BY <1>5 DEF Submit, InStep, QuietUnlessWaiting
    <2>2. got' = <<>> /\ Len(got') = 0 /\ UNCHANGED <<toHost, incoming, stage>>
      BY <1>5, EmptySeq DEF Submit
    <2>3. Output[t] \in Seq(Ref) /\ Len(Output[t]) \in Nat /\ current' = t
      BY <1>5, OutputAssumption, LenProperties DEF Submit
    <2>4. Collected'
      BY <2>2, <2>3 DEF Collected
    <2>5. CASE UNCHANGED toWorker
      <3>1. Quiet'
        BY <2>1, <2>2, <2>5 DEF Quiet, NoRequest
      <3> QED
        BY <2>4, <3>1, QuietIsInStep
    <2>6. CASE m /\ alive
      <3>1. submits + 1 \in 1..MaxSubmits /\ submits' = submits + 1
        BY <1>1, <1>5 DEF Submit, Shapes
      <3>2. /\ Len(toWorker') = Len(toWorker) + 1
            /\ \A i \in 1..Len(toWorker) : toWorker'[i] = toWorker[i]
            /\ toWorker'[Len(toWorker) + 1].type = "request"
            /\ toWorker'[Len(toWorker) + 1].req.of = submits + 1
            /\ toWorker'[Len(toWorker) + 1].req.task = t
        BY <1>1, <1>5, <2>6, <3>1, Wrote DEF Submit
      <3>3. Written'
        <4> SUFFICES ASSUME NEW i \in 1..Len(toWorker'), toWorker'[i].type = "request"
                     PROVE  /\ toWorker'[i].req.of = submits' /\ toWorker'[i].req.task = current'
                            /\ NotStarted' /\ incoming' = None
                            /\ \A j \in 1..Len(toWorker') : toWorker'[j].type = "request" => j = i
                            /\ i < Len(toWorker') => Asked'
          BY DEF Written, Mine
        <4>1. \A j \in 1..Len(toWorker') : toWorker'[j].type = "request" => j = Len(toWorker) + 1
          BY <1>4, <2>1, <3>2 DEF Quiet, NoRequest
        <4>2. i = Len(toWorker) + 1
          BY <4>1
        <4>3. toWorker'[i].req.of = submits' /\ toWorker'[i].req.task = current'
          BY <2>3, <3>1, <3>2, <4>2
        <4>4. NotStarted' /\ incoming' = None
          BY <2>1, <2>2 DEF Quiet, NotStarted
        <4> QED
          BY <1>4, <3>2, <4>1, <4>2, <4>3, <4>4
      <3>4. Read' /\ Claimed' /\ Served' /\ Stopping'
        BY <2>1, <2>2 DEF Quiet, Read, Claimed, Served, Stopping
      <3>5. Frames'
        BY <2>1, <2>2, EmptySeq DEF Quiet, Frames
      <3>6. QuietUnlessWaiting'
        <4>1. running' /\ pendingFailure' = pendingFailure /\ ~running
          BY <1>5, <2>6 DEF Submit
        <4>2. ~pendingFailure
          BY <1>1, <4>1 DEF Agree
        <4> QED
          BY <4>1, <4>2 DEF QuietUnlessWaiting
      <3> QED
        BY <2>4, <3>3, <3>4, <3>5, <3>6 DEF InStep
    <2> QED
      BY <1>5, <2>5, <2>6 DEF Submit
  <1>6. ASSUME NEW type \in {"completed", "cancelled", "failed", "crashed"}, NEW of, Conclude(type, of), Quiet'
        PROVE  InStep'
    <2>1. Collected'
      BY <1>6 DEF Conclude, Collected
    <2> QED
      BY <1>6, <2>1, QuietIsInStep
  <1>7. CASE ReportPendingFailure
    <2>1. Quiet'
      BY <1>7 DEF ReportPendingFailure, InStep, QuietUnlessWaiting, Quiet, NoRequest
    <2> QED
      BY <1>6, <1>7, <2>1 DEF ReportPendingFailure
  <1>8. CASE ReadEof
    <2>1. Quiet'
      BY <1>1, <1>8, EmptySeq DEF ReadEof, Agree, Quiet, NoRequest
    <2> QED
      BY <1>6, <1>8, <2>1 DEF ReadEof
  <1>9. CASE RejectArtifact
    <2>1. Quiet'
      BY <1>9, EmptySeq DEF RejectArtifact, Quiet, NoRequest
    <2> QED
      BY <1>6, <1>9, <2>1 DEF RejectArtifact
  <1>10. CASE Shutdown
    <2>1. Quiet'
      BY <1>10, EmptySeq DEF Shutdown, Quiet, NoRequest
    <2>2. Collected'
      BY <1>1, <1>10 DEF Shutdown, Agree, Collected
    <2> QED
      BY <2>1, <2>2, QuietIsInStep
  <1>11. CASE ReadFailed \/ ReadCompleted
    <2>1. toHost # <<>> /\ Head(toHost).type \in {"failed", "crashed", "completed", "empty"}
      BY <1>11 DEF ReadFailed, ReadCompleted, Reads
    <2>2. Tail(toHost) = <<>> /\ NoRequest /\ incoming = None /\ stage \in {"idle", "ended"}
      BY <2>1, FirstFrame
    <2>3. Quiet'
      BY <1>11, <2>2 DEF ReadFailed, ReadCompleted, Quiet, NoRequest
    <2>4. ~running'
      BY <1>11 DEF ReadFailed, ReadCompleted, Conclude
    <2> QED
      BY <2>3, <2>4, QuietIsInStep DEF Collected
  <1>12. CASE ReadStopped
    <2>1. toHost # <<>> /\ Head(toHost).type = "stopped"
      BY <1>12 DEF ReadStopped, Reads
    <2>2. Asked
      BY <2>1, FirstFrame
    <2>3. CASE worker = "demo"
      <3>1. Tail(toHost) = <<>> /\ NoRequest /\ incoming = None /\ stage \in {"idle", "ended"}
        BY <2>1, <2>3, FirstFrame
      <3>2. Quiet'
        BY <1>12, <3>1 DEF ReadStopped, Quiet, NoRequest
      <3>3. Collected'
        BY <1>12 DEF ReadStopped, Conclude, InStep, Collected
      <3> QED
        BY <3>2, <3>3, QuietIsInStep
    <2>4. CASE worker = "colmap"
      <3>1. cancelPending /\ asked
        BY <2>2, <2>4 DEF Asked
      <3>2. log' # log
        <4>1. log \in Seq(Answer) /\ log' = Append(log, [task |-> current, of |-> Head(toHost).of,
                 asked |-> asked, outputs |-> got, type |-> "cancelled"])
          BY <1>1, <1>12, <3>1 DEF ReadStopped, Conclude, Shapes
        <4> QED
          BY <4>1
      <3> QED
        BY <1>2, <2>4, <3>1, <3>2
    <2> QED
      BY <1>3, <2>3, <2>4
  <1>13. ASSUME UNCHANGED <<worker, submits, current, toHost, got, left, stage, active, incoming, token, running,
                            pendingFailure>>,
                Asked => Asked',
                \/ toWorker' = toWorker
                \/ /\ Asked' /\ Len(toWorker') = Len(toWorker) + 1
                   /\ \A i \in 1..Len(toWorker) : toWorker'[i] = toWorker[i]
                   /\ toWorker'[Len(toWorker) + 1].type = "cancel"
         PROVE  InStep'
    <2>1. /\ toWorker' # toWorker => Asked'
          /\ Len(toWorker') \in {Len(toWorker), Len(toWorker) + 1}
          /\ \A i \in 1..Len(toWorker) : toWorker'[i] = toWorker[i]
          /\ \A i \in 1..Len(toWorker') : toWorker'[i].type = "request" => i \in 1..Len(toWorker)
          /\ Len(toWorker') # Len(toWorker) => Asked'
      BY <1>4, <1>13
    <2>2. NoRequest => NoRequest'
      BY <2>1 DEF NoRequest
    <2>3. (Quiet => Quiet') /\ (NotStarted => NotStarted') /\ (Taken => Taken')
      BY <1>13, <2>2 DEF Quiet, NotStarted, Taken, Mine
    <2>4. Written'
      <3> SUFFICES ASSUME NEW i \in 1..Len(toWorker'), toWorker'[i].type = "request"
                   PROVE  /\ toWorker'[i].req.of = submits' /\ toWorker'[i].req.task = current'
                          /\ NotStarted' /\ incoming' = None
                          /\ \A j \in 1..Len(toWorker') : toWorker'[j].type = "request" => j = i
                          /\ i < Len(toWorker') => Asked'
        BY DEF Written, Mine
      <3>1. i \in 1..Len(toWorker) /\ toWorker[i].type = "request" /\ toWorker'[i] = toWorker[i]
        BY <2>1
      <3>2. /\ toWorker[i].req.of = submits /\ toWorker[i].req.task = current
            /\ NotStarted /\ incoming = None
            /\ \A j \in 1..Len(toWorker) : toWorker[j].type = "request" => j = i
            /\ i < Len(toWorker) => Asked
        BY <3>1 DEF InStep, Written, Mine
      <3> QED
        BY <1>4, <1>13, <2>1, <2>3, <3>1, <3>2
    <2>5. Read' /\ Claimed'
      BY <1>13, <2>1, <2>2, <2>3 DEF InStep, Read, Claimed, Mine
    <2>6. Served'
      BY <1>13, <2>1, <2>3 DEF InStep, Served
    <2>7. Stopping' /\ QuietUnlessWaiting' /\ Collected'
      BY <1>13, <2>3 DEF InStep, Stopping, QuietUnlessWaiting, Collected
    <2>8. Frames'
      BY <1>13 DEF InStep, Frames
    <2> QED
      BY <2>4, <2>5, <2>6, <2>7, <2>8 DEF InStep
  <1>14. CASE CancelNote
    <2>1. Asked => Asked'
      BY <1>14 DEF CancelNote, Asked
    <2> QED
      BY <1>13, <1>14, <2>1 DEF CancelNote
  <1>15. CASE CancelWrite
    <2>1. Asked => Asked'
      BY <1>15 DEF CancelWrite, Asked
    <2>2. CASE ~alive
      BY <1>13, <1>15, <2>1, <2>2 DEF CancelWrite
    <2>3. CASE alive
      <3>1. submits \in 1..MaxSubmits /\ current \in Task
        BY <1>1, <1>4, <1>15 DEF CancelWrite, Agree, Shapes
      <3>2. /\ Len(toWorker') = Len(toWorker) + 1
            /\ \A i \in 1..Len(toWorker) : toWorker'[i] = toWorker[i]
            /\ toWorker'[Len(toWorker) + 1].type = "cancel"
        BY <1>1, <1>15, <2>3, <3>1, Wrote DEF CancelWrite
      <3>3. Asked'
        BY <1>15, <2>3 DEF CancelWrite, Asked
      <3> QED
        BY <1>13, <1>15, <2>1, <3>2, <3>3 DEF CancelWrite
    <2> QED
      BY <2>2, <2>3
  <1>16. CASE ReadArtifact
    <2>1. /\ toHost # <<>> /\ Head(toHost).type = "artifact" /\ got' = Append(got, Head(toHost).ref)
          /\ toHost' = Tail(toHost)
          /\ UNCHANGED <<worker, submits, current, left, stage, active, incoming, token, running,
                         pendingFailure, toWorker, asked, cancelPending>>
      BY <1>16 DEF ReadArtifact, Reads
    <2>2. /\ running /\ ~pendingFailure /\ NoRequest /\ incoming = None /\ stage # "claimed"
          /\ Head(toHost).ref = Output[current][Len(got) + 1]
          /\ Len(got) + 1 <= Len(Output[current])
      BY <2>1, FirstFrame
    <2>3. /\ Head(toHost) = toHost[1] /\ Len(toHost) \in Nat \ {0}
          /\ Len(toHost') = Len(toHost) - 1
          /\ \A i \in 1..Len(toHost') : toHost'[i] = toHost[i + 1] /\ i + 1 \in 1..Len(toHost)
      <3>1. /\ Head(toHost) = toHost[1] /\ Len(toHost) \in Nat \ {0}
            /\ Len(toHost') = Len(toHost) - 1
            /\ \A i \in 1..Len(toHost') : toHost'[i] = toHost[i + 1]
        BY <1>1, <2>1, HeadFrame
      <3> QED
        BY <3>1
    <2>4. Head(toHost).ref \in Ref
      <3>1. 1 \in 1..Len(toHost)
        BY <2>3
      <3>2. toHost[1].type = "artifact"
        BY <2>1, <2>3
      <3> QED
        BY <1>1, <2>3, <3>1, <3>2 DEF Agree
    <2>5. /\ Len(got') = Len(got) + 1 /\ got'[Len(got) + 1] = Head(toHost).ref
          /\ \A i \in 1..Len(got) : got'[i] = got[i]
      BY <1>1, <2>1, <2>4, AppendProperties DEF Shapes
    <2>6. /\ Asked' <=> Asked
          /\ NoRequest'
          /\ Taken => Taken'
      BY <2>1, <2>2 DEF Asked, NoRequest, Taken, Mine
    <2>7. Collected'
      BY <1>4, <2>1, <2>2, <2>5 DEF InStep, Collected
    <2>8. QuietUnlessWaiting' /\ Written' /\ Read' /\ Claimed'
      BY <2>1, <2>2, <2>6 DEF QuietUnlessWaiting, Written, NoRequest, Read, Claimed
    <2>9. current \in Task /\ Len(left) \in Nat
      BY <1>1, <2>2, LenProperties DEF Agree, Shapes
    <2>10. Len(Output[current]) \in Nat
      BY <2>9, OutputAssumption, LenProperties
    <2>11. Served'
      <3> SUFFICES ASSUME stage = "work" PROVE Served'
        BY <2>1 DEF Served
      <3>1. /\ Taken /\ (toWorker # <<>> \/ token => Asked)
            /\ \A i \in 1..Len(toHost) : toHost[i].type = "artifact"
            /\ Len(got) + Len(toHost) + Len(left) = Len(Output[current])
            /\ \A i \in 1..Len(left) : left[i] = Output[current][Len(got) + Len(toHost) + i]
        BY DEF InStep, Served
      <3>2. Len(got') + Len(toHost') = Len(got) + Len(toHost)
        BY <1>4, <2>3, <2>5
      <3>3. \A i \in 1..Len(toHost') : toHost'[i].type = "artifact"
        BY <2>3, <3>1
      <3> QED
        BY <2>1, <2>6, <3>1, <3>2, <3>3 DEF Served
    <2>12. Stopping'
      <3> SUFFICES ASSUME stage = "stopping" PROVE Stopping'
        BY <2>1 DEF Stopping
      <3>1. worker = "colmap" /\ Taken /\ Asked /\ toHost[Len(toHost)].type = "stopped"
        BY DEF InStep, Stopping
      <3>2. Len(toHost) # 1
        BY <2>1, <2>3, <3>1
      <3>3. Len(toHost') \in 1..Len(toHost') /\ toHost'[Len(toHost')].type = "stopped"
        BY <2>3, <3>1, <3>2
      <3>4. toHost' # <<>>
        BY <3>3, EmptySeq
      <3> QED
        BY <2>1, <2>6, <3>1, <3>3, <3>4 DEF Stopping
    <2>13. Frames'
      <3> SUFFICES ASSUME NEW i \in 1..Len(toHost')
                   PROVE  /\ toHost'[i].of = submits'
                          /\ toHost'[i].type = "artifact" => /\ Len(got') + i <= Len(Output[current'])
                                                             /\ toHost'[i].ref = Output[current'][Len(got') + i]
                          /\ toHost'[i].type = "completed" => Len(got') + i = Len(Output[current']) + 1
                          /\ toHost'[i].type \in {"stopped", "empty"} => Asked'
                          /\ toHost'[i].type = "empty" => worker' = "colmap"
                          /\ i < Len(toHost') =>
                                \/ toHost'[i].type = "artifact"
                                \/ /\ worker' = "colmap" /\ toHost'[i].type = "stopped"
                                   /\ i + 1 = Len(toHost') /\ toHost'[Len(toHost')].type = "empty"
        BY DEF Frames
      <3> DEFINE j == i + 1
      <3>1. /\ j \in 1..Len(toHost) /\ toHost'[i] = toHost[j] /\ i \in Nat
            /\ Len(got') + i = Len(got) + j /\ (i < Len(toHost') => j < Len(toHost))
            /\ (j + 1 = Len(toHost) => i + 1 = Len(toHost'))
            /\ toHost'[Len(toHost')] = toHost[Len(toHost)]
        <4>1. Len(toHost') \in 1..Len(toHost') /\ Len(toHost') + 1 = Len(toHost)
          BY <2>3
        <4>2. toHost'[Len(toHost')] = toHost[Len(toHost)]
          BY <2>3, <4>1
        <4> QED
          BY <1>4, <2>3, <2>5, <4>1, <4>2
      <3>2. /\ toHost[j].of = submits
            /\ toHost[j].type = "artifact" => /\ Len(got) + j <= Len(Output[current])
                                              /\ toHost[j].ref = Output[current][Len(got) + j]
            /\ toHost[j].type = "completed" => Len(got) + j = Len(Output[current]) + 1
            /\ toHost[j].type \in {"stopped", "empty"} => Asked
            /\ toHost[j].type = "empty" => worker = "colmap"
            /\ j < Len(toHost) =>
                  \/ toHost[j].type = "artifact"
                  \/ /\ worker = "colmap" /\ toHost[j].type = "stopped"
                     /\ j + 1 = Len(toHost) /\ toHost[Len(toHost)].type = "empty"
        BY <3>1 DEF InStep, Frames
      <3> HIDE DEF j
      <3> QED
        BY <2>1, <2>6, <3>1, <3>2
    <2> QED
      BY <2>7, <2>8, <2>11, <2>12, <2>13 DEF InStep
  <1> QED
    BY <1>5, <1>7, <1>8, <1>9, <1>10, <1>11, <1>12, <1>14, <1>15, <1>16 DEF HostStep

\* Steps of the worker, and its death.
LEMMA WorkerKeepsStep ==
    ASSUME Host, InStep, WorkerStep \/ Die
    PROVE  InStep'
  <1> USE NoneAssumption
  <1>1. Shapes /\ Agree
    BY HostParts
  <1>2. Len(got) \in Nat /\ Len(toHost) \in Nat /\ Len(toWorker) \in Nat /\ Len(left) \in Nat
    BY <1>1, LenProperties DEF Shapes
  <1>3. UNCHANGED <<worker, submits, current, got, running, pendingFailure, asked, cancelPending>>
    BY DEF WorkerStep, Die, DemoReceive, DemoIdle, ColmapReceive, ColmapTake, ColmapActivate, ColmapRelease,
       SendArtifact, Finish, SendCompleted, SendFailed, DemoStop, ColmapStop, ColmapStopped
  <1>4. (Asked' <=> Asked) /\ Collected'
    BY <1>3 DEF Asked, InStep, Collected
  <1>5. ~running \/ pendingFailure => Quiet
    BY DEF InStep, QuietUnlessWaiting
  <1>6. UNCHANGED toHost => Frames'
    BY <1>3, <1>4 DEF InStep, Frames
  <1>7. UNCHANGED <<toWorker, incoming>> /\ (NotStarted => NotStarted') => Written' /\ Read'
    BY <1>3, <1>4 DEF InStep, Written, Read, Mine, NoRequest
  <1>8. CASE Die
    <2>1. /\ toWorker' = <<>> /\ Len(toWorker') = 0 /\ incoming' = None /\ stage' = "idle" /\ UNCHANGED toHost
      BY <1>8, EmptySeq DEF Die
    <2>2. Written' /\ Read' /\ Claimed' /\ Served' /\ Stopping'
      BY <2>1 DEF Written, Read, Claimed, Served, Stopping
    <2>3. QuietUnlessWaiting'
      BY <1>3, <1>5, <2>1 DEF QuietUnlessWaiting, Quiet, NoRequest
    <2> QED
      BY <1>4, <1>6, <2>1, <2>2, <2>3 DEF InStep
  <1>9. CASE DemoIdle \/ ColmapRelease
    <2>1. /\ stage' = "idle" /\ stage = "ended" /\ UNCHANGED <<toHost, toWorker, incoming>>
      BY <1>9 DEF DemoIdle, ColmapRelease
    <2>2. Written' /\ Read'
      BY <1>3, <1>7, <2>1 DEF NotStarted
    <2>3. Claimed' /\ Served' /\ Stopping'
      BY <2>1 DEF Claimed, Served, Stopping
    <2>4. QuietUnlessWaiting'
      BY <1>3, <1>5, <2>1 DEF QuietUnlessWaiting, Quiet, NoRequest
    <2> QED
      BY <1>4, <1>6, <2>1, <2>2, <2>3, <2>4 DEF InStep
  <1>10. CASE DemoReceive \/ ColmapReceive
    <2> DEFINE f == Head(toWorker)
    <2>1. toWorker # <<>> /\ toWorker' = Tail(toWorker) /\ UNCHANGED toHost
      BY <1>10 DEF DemoReceive, ColmapReceive
    <2>2. /\ f = toWorker[1] /\ Len(toWorker) \in Nat \ {0} /\ f.type \in {"request", "cancel"}
          /\ f.req \in Request /\ Len(toWorker') = Len(toWorker) - 1 /\ toWorker' \in Seq(ToWorker)
          /\ \A i \in 1..Len(toWorker') : toWorker'[i] = toWorker[i + 1]
      BY <1>1, <2>1, HeadRequest
    <2>3. \A i \in 1..Len(toWorker') : i + 1 \in 1..Len(toWorker) /\ i \in Nat
      BY <2>2
    <2>4. NoRequest => NoRequest'
      BY <2>2, <2>3 DEF NoRequest
    <2>5. 1 \in 1..Len(toWorker)
      BY <2>2
    <2>6. toWorker' # <<>> => Len(toWorker') \in Nat \ {0}
      BY <2>2, EmptySeq
    <2>7. ASSUME f.type = "request"
          PROVE  /\ Mine(f.req) /\ NotStarted /\ incoming = None /\ NoRequest'
                 /\ toWorker' # <<>> => Asked
                 /\ running /\ ~pendingFailure
      <3>1. /\ Mine(f.req) /\ NotStarted /\ incoming = None
            /\ \A j \in 1..Len(toWorker) : toWorker[j].type = "request" => j = 1
            /\ 1 < Len(toWorker) => Asked
        BY <2>2, <2>5, <2>7 DEF InStep, Written
      <3>2. NoRequest'
        BY <2>2, <2>3, <3>1 DEF NoRequest
      <3>3. toWorker' # <<>> => Asked
        BY <2>2, <2>6, <3>1
      <3>4. running /\ ~pendingFailure
        BY <1>5, <2>2, <2>5, <2>7 DEF Quiet, NoRequest
      <3> QED
        BY <3>1, <3>2, <3>3, <3>4
    <2>8. NoRequest' => Written'
      BY DEF NoRequest, Written
    <2>9. CASE f.type = "request" /\ DemoReceive /\ active = None
      <3>1. /\ active' = f.req /\ token' = FALSE /\ left' = Output[f.req.task] /\ stage' = "work" /\ UNCHANGED incoming
        BY <2>9 DEF DemoReceive, Serve
      <3>2. Mine(f.req) /\ NotStarted /\ incoming = None /\ NoRequest' /\ (toWorker' # <<>> => Asked)
            /\ running /\ ~pendingFailure
        BY <2>7, <2>9
      <3>3. Taken'
        BY <1>3, <3>1, <3>2 DEF Taken, Mine
      <3>4. f.req.task = current /\ Output[current] \in Seq(Ref)
        BY <1>1, <3>2, OutputAssumption DEF Mine, Agree
      <3>5. Len(got') = 0 /\ Len(toHost') = 0 /\ Len(Output[current]) \in Nat
        BY <1>3, <2>1, <3>2, <3>4, EmptySeq, LenProperties DEF NotStarted
      <3>6. Served'
        BY <1>3, <1>4, <2>1, <3>1, <3>2, <3>3, <3>4, <3>5 DEF Served
      <3>7. Claimed' /\ Stopping' /\ Read' /\ QuietUnlessWaiting'
        BY <1>3, <3>1, <3>2 DEF Claimed, Stopping, Read, QuietUnlessWaiting
      <3> QED
        BY <1>4, <1>6, <2>1, <2>8, <3>2, <3>6, <3>7 DEF InStep
    <2>10. CASE f.type = "request" /\ DemoReceive /\ active # None
      <3>1. UNCHANGED <<active, token, left, stage, incoming>>
        BY <2>10 DEF DemoReceive
      <3>2. Mine(f.req) /\ NotStarted /\ incoming = None /\ NoRequest' /\ (toWorker' # <<>> => Asked)
            /\ running /\ ~pendingFailure
        BY <2>7, <2>10
      <3>3. Served' /\ Claimed' /\ Stopping' /\ Read' /\ QuietUnlessWaiting'
        BY <1>3, <3>1, <3>2 DEF Served, Claimed, Stopping, Read, QuietUnlessWaiting, NotStarted
      <3> QED
        BY <1>4, <1>6, <2>1, <2>8, <3>2, <3>3 DEF InStep
    <2>11. CASE f.type = "request" /\ ColmapReceive
      <3>1. UNCHANGED <<active, token, left, stage>> /\ incoming' = f.req
        BY <2>11 DEF ColmapReceive
      <3>2. Mine(f.req) /\ NotStarted /\ incoming = None /\ NoRequest' /\ (toWorker' # <<>> => Asked)
            /\ running /\ ~pendingFailure
        BY <2>7, <2>11
      <3>3. Served' /\ Claimed' /\ Stopping' /\ QuietUnlessWaiting'
        BY <1>3, <3>1, <3>2 DEF Served, Claimed, Stopping, QuietUnlessWaiting, NotStarted
      <3>4. Read'
        BY <1>3, <1>4, <2>1, <3>1, <3>2 DEF Read, NotStarted, Mine
      <3> QED
        BY <1>4, <1>6, <2>1, <2>8, <3>2, <3>3, <3>4 DEF InStep
    <2>12. CASE f.type = "cancel"
      <3>1. UNCHANGED <<active, left, stage, incoming>>
        BY <1>10, <2>12 DEF DemoReceive, ColmapReceive
      <3>2. (NotStarted => NotStarted') /\ (Taken => Taken') /\ (Quiet => Quiet')
        BY <1>3, <2>1, <2>4, <3>1 DEF NotStarted, Taken, Quiet, Mine
      <3>3. Read' /\ Claimed'
        BY <1>3, <1>4, <2>1, <2>4, <3>1, <3>2 DEF InStep, Read, Claimed, Mine
      <3>4. Served'
        BY <1>3, <1>4, <2>1, <3>1, <3>2 DEF InStep, Served
      <3>5. Stopping' /\ QuietUnlessWaiting'
        BY <1>3, <1>4, <1>5, <2>1, <3>1, <3>2 DEF InStep, Stopping, QuietUnlessWaiting
      <3>6. Written'
        <4> SUFFICES ASSUME NEW i \in 1..Len(toWorker'), toWorker'[i].type = "request"
                     PROVE  /\ toWorker'[i].req.of = submits' /\ toWorker'[i].req.task = current'
                            /\ NotStarted' /\ incoming' = None
                            /\ \A j \in 1..Len(toWorker') : toWorker'[j].type = "request" => j = i
                            /\ i < Len(toWorker') => Asked'
          BY DEF Written, Mine
        <4> DEFINE k == i + 1
        <4>1. k \in 1..Len(toWorker) /\ toWorker'[i] = toWorker[k] /\ (i < Len(toWorker') => k < Len(toWorker))
          BY <2>2, <2>3
        <4>2. /\ toWorker[k].req.of = submits /\ toWorker[k].req.task = current
              /\ NotStarted /\ incoming = None
              /\ \A j \in 1..Len(toWorker) : toWorker[j].type = "request" => j = k
              /\ k < Len(toWorker) => Asked
          BY <4>1 DEF InStep, Written, Mine
        <4>3. \A j \in 1..Len(toWorker') : toWorker'[j].type = "request" => j = i
          BY <2>2, <2>3, <4>2
        <4> HIDE DEF k
        <4> QED
          BY <1>3, <1>4, <3>1, <3>2, <4>1, <4>2, <4>3
      <3> QED
        BY <1>4, <1>6, <2>1, <3>3, <3>4, <3>5, <3>6 DEF InStep
    <2> QED
      BY <1>10, <2>2, <2>9, <2>10, <2>11, <2>12
  <1>11. CASE ColmapTake
    <2>1. /\ active' = incoming /\ incoming # None /\ incoming' = None /\ stage' = "claimed"
          /\ UNCHANGED <<toHost, toWorker>>
      BY <1>11 DEF ColmapTake
    <2>2. Mine(incoming) /\ NotStarted /\ NoRequest /\ (toWorker # <<>> => Asked)
      BY <2>1 DEF InStep, Read
    <2>3. running /\ ~pendingFailure
      BY <1>5, <2>1 DEF Quiet
    <2>4. NoRequest' /\ Taken'
      BY <1>3, <2>1, <2>2 DEF NoRequest, Taken, Mine
    <2>5. Claimed'
      BY <1>3, <1>4, <2>1, <2>2, <2>4 DEF Claimed, NotStarted
    <2>6. Written' /\ Read' /\ Served' /\ Stopping' /\ QuietUnlessWaiting'
      BY <1>3, <2>1, <2>3, <2>4 DEF Written, NoRequest, Read, Served, Stopping, QuietUnlessWaiting
    <2> QED
      BY <1>4, <1>6, <2>1, <2>5, <2>6 DEF InStep
  <1>12. CASE ColmapActivate
    <2>1. /\ active' = active /\ token' = FALSE /\ left' = Output[active.task] /\ stage' = "work" /\ stage = "claimed"
          /\ UNCHANGED <<toHost, toWorker, incoming>>
      BY <1>12 DEF ColmapActivate, Serve
    <2>2. Taken /\ toHost = <<>> /\ got = <<>> /\ (toWorker # <<>> => Asked)
      BY <2>1 DEF InStep, Claimed
    <2>3. running /\ ~pendingFailure
      BY <1>5, <2>1 DEF Quiet
    <2>4. Taken' /\ NoRequest' /\ incoming' = None
      BY <1>3, <2>1, <2>2 DEF NoRequest, Taken, Mine
    <2>5. active.task = current /\ Output[current] \in Seq(Ref)
      BY <1>1, <2>2, <2>3, OutputAssumption DEF Taken, Mine, Agree
    <2>6. Len(got') = 0 /\ Len(toHost') = 0 /\ Len(Output[current]) \in Nat
      BY <1>3, <2>1, <2>2, <2>5, EmptySeq, LenProperties
    <2>7. Served'
      BY <1>3, <1>4, <2>1, <2>2, <2>4, <2>5, <2>6 DEF Served
    <2>8. Written' /\ Read' /\ Claimed' /\ Stopping' /\ QuietUnlessWaiting'
      BY <1>3, <2>1, <2>3, <2>4 DEF Written, NoRequest, Read, Claimed, Stopping, QuietUnlessWaiting
    <2> QED
      BY <1>4, <1>6, <2>1, <2>7, <2>8 DEF InStep
  <1>13. ASSUME stage \in {"work", "stopping"}, UNCHANGED <<toWorker, incoming, active>>,
                stage' \in {"work", "stopping", "ended"}
         PROVE  /\ Taken /\ Taken' /\ running /\ active \in Request /\ active.of = submits
                /\ Written' /\ Read' /\ Claimed' /\ QuietUnlessWaiting'
    <2>1. Taken
      BY <1>13 DEF InStep, Served, Stopping
    <2>2. running /\ ~pendingFailure
      BY <1>5, <1>13 DEF Quiet
    <2>3. Taken' /\ NoRequest' /\ incoming' = None
      BY <1>3, <1>13, <2>1 DEF Taken, NoRequest, Mine
    <2>4. Written' /\ Read' /\ Claimed' /\ QuietUnlessWaiting'
      BY <1>3, <1>13, <2>2, <2>3 DEF Written, NoRequest, Read, Claimed, QuietUnlessWaiting
    <2>5. active \in Request
      BY <1>1, <1>13 DEF Agree, Shapes
    <2> QED
      BY <2>1, <2>2, <2>3, <2>4, <2>5 DEF Taken, Mine
  <1>14. ASSUME stage = "work", active \in Request, active.of = submits, NEW ref \in Ref \cup {None},
                NEW type \in {"artifact", "completed", "stopped", "failed", "crashed"}, Send(type, ref),
                type = "artifact" => /\ Len(got) + Len(toHost) + 1 <= Len(Output[current])
                                     /\ ref = Output[current][Len(got) + Len(toHost) + 1],
                type = "completed" => Len(got) + Len(toHost) = Len(Output[current]),
                type = "stopped" => Asked
         PROVE  /\ Frames' /\ Len(toHost') = Len(toHost) + 1 /\ toHost' # <<>>
                /\ toHost'[Len(toHost) + 1].type = type
                /\ type = "artifact" => \A i \in 1..Len(toHost') : toHost'[i].type = "artifact"
    <2>1. /\ Len(toHost') = Len(toHost) + 1 /\ toHost' # <<>>
          /\ \A i \in 1..Len(toHost) : toHost'[i] = toHost[i]
          /\ toHost'[Len(toHost) + 1].type = type /\ toHost'[Len(toHost) + 1].of = active.of
          /\ toHost'[Len(toHost) + 1].ref = ref
      BY <1>1, <1>14, Sent
    <2>2. \A i \in 1..Len(toHost) : toHost[i].type = "artifact"
      BY <1>14 DEF InStep, Served
    <2>3. ASSUME NEW i \in 1..Len(toHost)
          PROVE  /\ toHost'[i].of = submits /\ toHost'[i].type = "artifact"
                 /\ Len(got) + i <= Len(Output[current]) /\ toHost'[i].ref = Output[current][Len(got) + i]
      BY <2>1, <2>2, <2>3 DEF InStep, Frames
    <2>4. \A i \in 1..Len(toHost') : i \in 1..Len(toHost) \/ i = Len(toHost) + 1
      BY <1>2, <2>1
    <2>5. Len(got) + (Len(toHost) + 1) = Len(got) + Len(toHost) + 1
      BY <1>2
    <2>6. Frames'
      <3> SUFFICES ASSUME NEW i \in 1..Len(toHost')
                   PROVE  /\ toHost'[i].of = submits'
                          /\ toHost'[i].type = "artifact" => /\ Len(got') + i <= Len(Output[current'])
                                                             /\ toHost'[i].ref = Output[current'][Len(got') + i]
                          /\ toHost'[i].type = "completed" => Len(got') + i = Len(Output[current']) + 1
                          /\ toHost'[i].type \in {"stopped", "empty"} => Asked'
                          /\ toHost'[i].type = "empty" => worker' = "colmap"
                          /\ i < Len(toHost') =>
                                \/ toHost'[i].type = "artifact"
                                \/ /\ worker' = "colmap" /\ toHost'[i].type = "stopped"
                                   /\ i + 1 = Len(toHost') /\ toHost'[Len(toHost')].type = "empty"
        BY DEF Frames
      <3>1. CASE i \in 1..Len(toHost)
        BY <1>3, <2>3, <3>1
      <3>2. CASE i = Len(toHost) + 1
        BY <1>2, <1>3, <1>4, <1>14, <2>1, <2>5, <3>2, SMTT(30)
      <3> QED
        BY <2>4, <3>1, <3>2
    <2> QED
      BY <2>1, <2>3, <2>4, <2>6
  <1>15. CASE SendArtifact
    <2>1. /\ stage = "work" /\ stage' = "work" /\ UNCHANGED <<toWorker, incoming, active, token>>
          /\ left # <<>> /\ left' = Tail(left) /\ Send("artifact", Head(left))
      BY <1>15 DEF SendArtifact
    <2>2. /\ Taken /\ Taken' /\ running /\ active \in Request /\ active.of = submits
          /\ Written' /\ Read' /\ Claimed' /\ QuietUnlessWaiting'
      BY <1>13, <2>1
    <2>3. /\ toWorker # <<>> \/ token => Asked
          /\ Len(got) + Len(toHost) + Len(left) = Len(Output[current])
          /\ \A i \in 1..Len(left) : left[i] = Output[current][Len(got) + Len(toHost) + i]
      BY <2>1 DEF InStep, Served
    <2>4. /\ Head(left) = left[1] /\ Head(left) \in Ref /\ Len(left') = Len(left) - 1 /\ Len(left) \in Nat \ {0}
          /\ \A i \in 1..Len(left') : left'[i] = left[i + 1]
      BY <1>1, <2>1, HeadTailProperties, EmptySeq DEF Shapes
    <2>5. Len(got) + Len(toHost) + 1 <= Len(Output[current]) /\ 1 \in 1..Len(left)
      BY <1>2, <2>3, <2>4
    <2>6. Head(left) = Output[current][Len(got) + Len(toHost) + 1]
      BY <2>3, <2>4, <2>5
    <2>7. /\ Frames' /\ Len(toHost') = Len(toHost) + 1
          /\ \A i \in 1..Len(toHost') : toHost'[i].type = "artifact"
      BY <1>14, <2>1, <2>2, <2>4, <2>5, <2>6
    <2>8. Len(got') + Len(toHost') + Len(left') = Len(Output[current'])
      <3>1. Len(got) + (Len(toHost) + 1) + (Len(left) - 1) = Len(got) + Len(toHost) + Len(left)
        BY <1>2
      <3> QED
        BY <1>3, <2>3, <2>4, <2>7, <3>1
    <2>9. ASSUME NEW i \in 1..Len(left')
          PROVE  left'[i] = Output[current'][Len(got') + Len(toHost') + i]
      <3>1. i + 1 \in 1..Len(left) /\ Len(got') + Len(toHost') + i = Len(got) + Len(toHost) + (i + 1)
        BY <1>2, <1>3, <2>4, <2>7
      <3> QED
        BY <1>3, <2>3, <2>4, <3>1
    <2>10. Served'
      BY <1>4, <2>1, <2>2, <2>3, <2>7, <2>8, <2>9 DEF Served
    <2>11. Stopping'
      BY <2>1 DEF Stopping
    <2> QED
      BY <1>4, <2>2, <2>7, <2>10, <2>11 DEF InStep
  <1>16. ASSUME NEW type \in {"completed", "stopped", "failed", "crashed"}, Finish(type),
                type = "completed" => left = <<>>, type = "stopped" => token
         PROVE  InStep'
    <2>1. stage = "work" /\ stage' = "ended" /\ UNCHANGED <<toWorker, incoming, active>> /\ Send(type, None)
      BY <1>16 DEF Finish
    <2>2. /\ active \in Request /\ active.of = submits /\ running
          /\ Written' /\ Read' /\ Claimed' /\ QuietUnlessWaiting'
      BY <1>13, <2>1
    <2>3. type = "stopped" => Asked
      BY <1>16, <2>1 DEF InStep, Served
    <2>4. type = "completed" => Len(got) + Len(toHost) = Len(Output[current])
      <3>1. type = "completed" => Len(left) = 0
        BY <1>16, EmptySeq
      <3>2. Len(got) + Len(toHost) + Len(left) = Len(Output[current])
        BY <2>1 DEF InStep, Served
      <3> QED
        BY <1>2, <3>1, <3>2
    <2>5. Frames'
      BY <1>14, <2>1, <2>2, <2>3, <2>4
    <2>6. Served' /\ Stopping'
      BY <2>1 DEF Served, Stopping
    <2> QED
      BY <1>4, <2>2, <2>5, <2>6 DEF InStep
  <1>17. CASE SendCompleted \/ DemoStop \/ \E type \in {"failed", "crashed"} : SendFailed(type)
    BY <1>16, <1>17 DEF SendCompleted, DemoStop, SendFailed
  <1>18. CASE ColmapStop
    <2>1. /\ stage = "work" /\ stage' = "stopping" /\ UNCHANGED <<toWorker, incoming, active>> /\ Send("stopped", None)
          /\ worker = "colmap" /\ token
      BY <1>18 DEF ColmapStop
    <2>2. /\ Taken' /\ active \in Request /\ active.of = submits /\ running
          /\ Written' /\ Read' /\ Claimed' /\ QuietUnlessWaiting'
      BY <1>13, <2>1
    <2>3. Asked
      BY <2>1 DEF InStep, Served
    <2>4. Frames' /\ Len(toHost') = Len(toHost) + 1 /\ toHost' # <<>> /\ toHost'[Len(toHost) + 1].type = "stopped"
      BY <1>14, <2>1, <2>2, <2>3
    <2>5. Served' /\ Stopping'
      BY <1>3, <1>4, <2>1, <2>2, <2>3, <2>4 DEF Served, Stopping
    <2> QED
      BY <1>4, <2>2, <2>4, <2>5 DEF InStep
  <1>19. CASE ColmapStopped
    <2>1. /\ stage = "stopping" /\ stage' = "ended" /\ UNCHANGED <<toWorker, incoming, active>> /\ Send("empty", None)
          /\ worker = "colmap"
      BY <1>19 DEF ColmapStopped
    <2>2. /\ active \in Request /\ active.of = submits /\ running
          /\ Written' /\ Read' /\ Claimed' /\ QuietUnlessWaiting'
      BY <1>13, <2>1
    <2>3. Asked /\ toHost # <<>> /\ toHost[Len(toHost)].type = "stopped"
      BY <2>1 DEF InStep, Stopping
    <2>4. /\ Len(toHost') = Len(toHost) + 1
          /\ \A i \in 1..Len(toHost) : toHost'[i] = toHost[i]
          /\ toHost'[Len(toHost) + 1].type = "empty" /\ toHost'[Len(toHost) + 1].of = submits
      BY <1>1, <2>1, <2>2, Sent
    <2>5. Frames'
      <3> SUFFICES ASSUME NEW i \in 1..Len(toHost')
                   PROVE  /\ toHost'[i].of = submits'
                          /\ toHost'[i].type = "artifact" => /\ Len(got') + i <= Len(Output[current'])
                                                             /\ toHost'[i].ref = Output[current'][Len(got') + i]
                          /\ toHost'[i].type = "completed" => Len(got') + i = Len(Output[current']) + 1
                          /\ toHost'[i].type \in {"stopped", "empty"} => Asked'
                          /\ toHost'[i].type = "empty" => worker' = "colmap"
                          /\ i < Len(toHost') =>
                                \/ toHost'[i].type = "artifact"
                                \/ /\ worker' = "colmap" /\ toHost'[i].type = "stopped"
                                   /\ i + 1 = Len(toHost') /\ toHost'[Len(toHost')].type = "empty"
        BY DEF Frames
      <3>1. CASE i \in 1..Len(toHost)
        <4>1. toHost'[i] = toHost[i] /\ (i # Len(toHost) => i < Len(toHost))
          BY <1>2, <2>4, <3>1
        <4>2. /\ toHost[i].of = submits
              /\ toHost[i].type = "artifact" => /\ Len(got) + i <= Len(Output[current])
                                                /\ toHost[i].ref = Output[current][Len(got) + i]
              /\ toHost[i].type = "completed" => Len(got) + i = Len(Output[current]) + 1
              /\ i < Len(toHost) => toHost[i].type = "artifact"
          BY <2>3, <3>1 DEF InStep, Frames
        <4> QED
          BY <1>3, <1>4, <2>1, <2>3, <2>4, <4>1, <4>2
      <3>2. CASE i = Len(toHost) + 1
        BY <1>2, <1>3, <1>4, <2>1, <2>3, <2>4, <3>2
      <3> QED
        BY <1>2, <2>4, <3>1, <3>2
    <2>6. Served' /\ Stopping'
      BY <2>1 DEF Served, Stopping
    <2> QED
      BY <1>4, <2>2, <2>5, <2>6 DEF InStep
  <1> QED
    BY <1>8, <1>9, <1>10, <1>11, <1>12, <1>15, <1>17, <1>18, <1>19 DEF WorkerStep

-----------------------------------------------------------------------------
(* The results. *)

\* Before the first submission.
LEMMA InitIsInStep == Init => ExecInv
  <1> SUFFICES ASSUME Init PROVE ExecInv
    OBVIOUS
  <1>1. Shapes
    BY BoundAssumption, EmptySeq DEF Init, Shapes
  <1>2. Flags
    BY DEF Init, Flags
  <1>3. Len(toHost) = 0 /\ Len(toWorker) = 0 /\ Len(log) = 0
    BY EmptySeq DEF Init
  <1>4. Agree
    BY <1>3 DEF Init, Agree
  <1>5. Past
    BY <1>1, <1>3, LenProperties DEF Past, Shapes
  <1>6. NoRequest /\ Quiet
    BY <1>3 DEF Init, NoRequest, Quiet
  <1>7. InStep
    BY <1>3, <1>6 DEF Init, InStep, QuietUnlessWaiting, Written, Read, Claimed, Served, Stopping, Frames, Collected
  <1> QED
    BY <1>1, <1>2, <1>4, <1>5, <1>7, HostParts DEF ExecInv

\* ExecInv is an invariant, if nobody cancels the COLMAP worker from another thread.
THEOREM ExecInvariance == ASSUME "colmap" \notin Racing
                          PROVE  Spec => []ExecInv
  <1>1. ASSUME ExecInv, [Next]_vars PROVE ExecInv'
    <2>1. Host' /\ Past'
      BY <1>1, HostPreserved, PastPreserved DEF ExecInv
    <2>2. ASSUME Clean' PROVE InStep'
      <3>1. Host /\ InStep
        BY <1>1, <2>2, CleanBefore DEF ExecInv
      <3>2. CASE UNCHANGED vars
        BY <3>1, <3>2 DEF InStep, QuietUnlessWaiting, Quiet, Written, Read, Claimed, Served, Stopping, Frames,
           Collected, NoRequest, NotStarted, Taken, Mine, Asked
      <3>3. CASE WorkerStep \/ Die
        BY <3>1, <3>3, WorkerKeepsStep
      <3> QED
        BY <1>1, <2>2, <3>1, <3>2, <3>3, HostKeepsStep DEF Next
    <2> QED
      BY <2>1, <2>2 DEF ExecInv
  <1> QED
    BY <1>1, InitIsInStep, PTL DEF Spec

\* Whatever dies, is rejected or is cancelled, the host stays consistent and an
\* answer is what the worker made of that very submission: success comes with all
\* artifacts of the task and no others, cancellation only after Cancel.  With the
\* COLMAP worker this holds up to the first submission after a cancelled one.
THEOREM AnswersBelong == ASSUME "colmap" \notin Racing
                         PROVE  Spec => []FaithfulUntilCancelled
  <1>1. ExecInv => FaithfulUntilCancelled
    BY DEF ExecInv, Host, Past, FaithfulUntilCancelled
  <1> QED
    BY <1>1, ExecInvariance, PTL
=============================================================================
