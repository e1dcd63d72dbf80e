--------------------------- MODULE WorkerChannel ---------------------------
(***************************************************************************)
(* The channel under ProcessExecutor, in bytes: ChildProcess (POSIX and    *)
(* Win32), the framing of protocol_framing.cpp above it, and the two       *)
(* worker programs at its other end, each with a task thread and a         *)
(* heartbeat thread that write frames to one stdout.                       *)
(*                                                                         *)
(* A frame is a prefix and a body; a byte on the wire is the frame it      *)
(* belongs to and its place in it.  A prefix that is not made of the       *)
(* first bytes of one frame decodes to any length, and a body that is not  *)
(* the rest of that frame parses or does not: the bytes decide, and the    *)
(* model leaves both open.                                                 *)
(***************************************************************************)
EXTENDS Naturals, Sequences, FiniteSets, Functions

CONSTANTS
    Programs,       \* worker programs to consider, of "demo" and "colmap"
    PrefixSize, BodySize,
    PipeCapacity,   \* bytes the stdout pipe holds
    StderrCapacity, \* lines the stderr pipe holds
    MaxFrames,      \* [Thread -> Nat], frames a thread sends after the hello
    MaxDiagnostics, \* lines the task thread writes to stderr
    MaxSlices,      \* slices ReadExact divides its timeout into
    MaxTimeouts     \* reads that run into their timeout while a worker serves

ASSUME ProgramAssumption == Programs \subseteq {"demo", "colmap"}
ASSUME SizeAssumption ==
    /\ PrefixSize \in Nat \ {0} /\ BodySize \in Nat \ {0}
    /\ PipeCapacity \in Nat /\ PipeCapacity >= PrefixSize
ASSUME BoundAssumption ==
    /\ StderrCapacity \in Nat /\ MaxDiagnostics \in Nat /\ MaxSlices \in Nat /\ MaxTimeouts \in Nat
    /\ MaxFrames["task"] \in Nat /\ MaxFrames["beat"] \in Nat

VARIABLES
    platform, program,
    proc,       \* the worker process: "running", "zombie", "reaped"
    handles,    \* what the ChildProcess object has open
    phase,      \* ProcessExecutor: "handshake", "serve", "shutdown", "gone"
    wire,       \* the stdout pipe
    errors,     \* lines in the stderr pipe, which nothing reads
    asked,      \* a Shutdown frame is in the stdin pipe
    writer,     \* thread -> the frame it is writing and the bytes of it that are out
    started,    \* frames begun, in the order of their first byte
    whole,      \* frames written to the last byte
    quota,      \* thread -> frames and lines it may still write
    lock,       \* write_lock of the demo worker
    part, got, need, slices,    \* ReadFrame: where it is, and the bytes it holds
    inbox,      \* history: the frames ReadFrame has returned, "?" for one misread
    sig,        \* SIGPIPE on the thread that writes: blocked, pending
    before,     \* sig when Write was entered
    dropped,    \* history: a read gave up with bytes in hand
    torn,       \* history: a frame was begun inside another one
    ended,      \* history: ReadFrame has reported the end of the stream
    timeouts

Thread == {"task", "beat"}
Frame == 1..(1 + MaxFrames["task"] + MaxFrames["beat"])
FrameSize == PrefixSize + BodySize
Byte == [frame : Frame, at : 1..FrameSize]

procVars   == <<platform, program, proc, handles>>
workerVars == <<errors, writer, started, whole, quota, lock, torn>>
readVars   == <<part, got, need, slices>>
sigVars    == <<sig, before>>
histVars   == <<inbox, dropped, ended, timeouts>>
vars == <<procVars, phase, wire, asked, workerVars, readVars, sigVars, histVars>>

Idle == [frame |-> 0, out |-> 0]

\* Spawn succeeded and the worker's main has begun: its hello is the frame the task
\* thread writes first.  A failed spawn throws before there is anything to model.
Spawned(p) == IF p = "posix" THEN {"stdin", "stdout", "stderr"}
                             ELSE {"process", "stdin", "stdout", "stderr"}

Init ==
    /\ platform \in {"posix", "win32"} /\ program \in Programs
    /\ proc = "running" /\ handles = Spawned(platform)
    /\ phase = "handshake"
    /\ wire = <<>> /\ errors = 0 /\ asked = FALSE
    /\ writer = [t \in Thread |-> IF t = "task" THEN [frame |-> 1, out |-> 0] ELSE Idle]
    /\ started = 1 /\ whole = {}
    /\ quota = [task |-> MaxFrames["task"], beat |-> MaxFrames["beat"], lines |-> MaxDiagnostics]
    /\ lock = IF program = "demo" THEN "task" ELSE "none"
    /\ part = "none" /\ got = <<>> /\ need = 0 /\ slices = 0
    /\ sig \in {[blocked |-> b, pending |-> p] : b \in BOOLEAN, p \in BOOLEAN}
    /\ sig.pending => sig.blocked
    /\ platform = "win32" => ~sig.blocked
    /\ before = sig
    /\ inbox = <<>> /\ dropped = FALSE /\ torn = FALSE /\ ended = FALSE /\ timeouts = 0

-----------------------------------------------------------------------------
(* The worker. *)

\* The heartbeat thread only starts after the hello.
MayStart(t) ==
    /\ proc = "running" /\ writer[t] = Idle /\ quota[t] > 0
    /\ 1 \in whole

Begin(t) ==
    /\ started' = started + 1
    /\ writer' = [writer EXCEPT ![t] = [frame |-> started + 1, out |-> 0]]
    /\ quota' = [quota EXCEPT ![t] = @ - 1]

\* Mutant: write_message without the lock.
DemoSendUnlocked(t) ==
    /\ program = "demo" /\ MayStart(t)
    /\ Begin(t)
    /\ UNCHANGED <<procVars, phase, wire, asked, errors, whole, lock, torn, readVars, sigVars,
                   histVars>>

\* write_message of the demo worker takes the lock for the whole frame ...
DemoSend(t) ==
    /\ program = "demo" /\ MayStart(t)
    /\ lock = "none"
    /\ lock' = t
    /\ Begin(t)
    /\ UNCHANGED <<procVars, phase, wire, asked, errors, whole, torn, readVars, sigVars,
                   histVars>>

\* ... WorkerSendFrame of the COLMAP worker takes none.
ColmapSend(t) ==
    /\ program = "colmap" /\ MayStart(t)
    /\ Begin(t)
    /\ torn' = (torn \/ \E u \in Thread : writer[u] # Idle)
    /\ UNCHANGED <<procVars, phase, wire, asked, errors, whole, lock, readVars, sigVars,
                   histVars>>

Bytes(f, from, to) == [i \in 1..(to - from + 1) |-> [frame |-> f, at |-> from + i - 1]]

\* write(2): the prefix, too short to be divided, and then the body as the pipe has
\* room for it; the last byte frees the thread (and the lock).
WriteBytes(t) ==
    LET w == writer[t]
        n == IF w.out = 0 THEN PrefixSize ELSE 1
    IN /\ proc = "running" /\ w # Idle
       /\ Len(wire) + n <= PipeCapacity
       /\ wire' = wire \o Bytes(w.frame, w.out + 1, w.out + n)
       /\ IF w.out + n = FrameSize
          THEN /\ whole' = whole \cup {w.frame}
               /\ writer' = [writer EXCEPT ![t] = Idle]
               /\ lock' = IF lock = t THEN "none" ELSE lock
          ELSE /\ writer' = [writer EXCEPT ![t].out = @ + n]
               /\ UNCHANGED <<whole, lock>>
       /\ UNCHANGED <<procVars, phase, asked, errors, started, quota, torn, readVars, sigVars,
                      histVars>>

\* A diagnostic of the task thread.  Nothing calls ReadStderr, so a full pipe holds
\* the thread for good.
WriteDiagnostic ==
    /\ proc = "running" /\ writer["task"] = Idle /\ 1 \in whole
    /\ quota["lines"] > 0 /\ errors < StderrCapacity
    /\ errors' = errors + 1
    /\ quota' = [quota EXCEPT !["lines"] = @ - 1]
    /\ UNCHANGED <<procVars, phase, wire, asked, writer, started, whole, lock, torn, readVars,
                   sigVars, histVars>>

Exit == proc' = "zombie"

\* Asked to stop, the demo worker leaves by os._exit whatever its threads do; the
\* COLMAP worker joins its task and its heartbeat first.
WorkerStops ==
    /\ proc = "running" /\ asked
    /\ program = "colmap" => \A t \in Thread : writer[t] = Idle
    /\ Exit
    /\ UNCHANGED <<platform, program, handles, phase, wire, asked, workerVars, readVars, sigVars,
                   histVars>>

WorkerCrashes ==
    /\ proc = "running"
    /\ Exit
    /\ UNCHANGED <<platform, program, handles, phase, wire, asked, workerVars, readVars, sigVars,
                   histVars>>

-----------------------------------------------------------------------------
(* ReadFrame. *)

Room == need - Len(got)
Closed == proc # "running"

StartRead ==
    /\ part = "none" /\ phase \in {"handshake", "serve", "shutdown"}
    /\ phase = "shutdown" => ~ended /\ proc = "running"
    /\ "stdout" \in handles
    /\ part' = "prefix" /\ got' = <<>> /\ need' = PrefixSize /\ slices' = MaxSlices
    /\ UNCHANGED <<procVars, phase, wire, asked, workerVars, sigVars, histVars>>

\* What one read returns: as much as is asked for and the pipe holds.
Available == IF Len(wire) < Room THEN Len(wire) ELSE Room

\* ReadStdout returns bytes, before it looks at the hang-up or the clock.
ReadData ==
    /\ part \in {"prefix", "body"} /\ Available > 0
    /\ got' = got \o SubSeq(wire, 1, Available)
    /\ wire' = SubSeq(wire, Available + 1, Len(wire))
    /\ UNCHANGED <<procVars, phase, asked, workerVars, part, need, slices, sigVars, histVars>>

EndRead ==
    /\ part' = "none" /\ got' = <<>> /\ need' = 0 /\ slices' = 0

\* Mutant: a slice that expires costs nothing.
SliceExpiresFree ==
    /\ part \in {"prefix", "body"} /\ Room > 0
    /\ wire = <<>> /\ ~Closed
    /\ slices > 0
    /\ UNCHANGED vars

\* A slice of the timeout passes without a byte.
SliceExpires ==
    /\ part \in {"prefix", "body"} /\ Room > 0
    /\ wire = <<>> /\ ~Closed
    /\ slices > 0
    /\ slices' = slices - 1
    /\ UNCHANGED <<procVars, phase, wire, asked, workerVars, part, got, need, sigVars, histVars>>

\* Wait reaps the worker and closes stdin; the destructor closes the rest.
Waited == proc' = "reaped" /\ handles' = {}

\* Mutant: the constructor throws and nothing ends the worker.
DestroyedRunning == handles' = {} /\ UNCHANGED proc

\* ~ChildProcess ends a worker that is running: Terminate and Wait.  On POSIX IsRunning
\* reaps a child that has exited; on Win32 it does not, and then nothing closes the
\* process and the stdin handle.
Destroyed == IF platform = "posix" \/ proc = "running"
             THEN Waited
             ELSE handles' = {"process", "stdin"} /\ UNCHANGED proc

\* The executor's constructor throws.
Throw ==
    /\ phase' = "gone"
    /\ Destroyed

\* The last slice: ReadExact gives up, and the bytes it holds are gone.  In the
\* handshake the deadline has passed then.
GiveUp ==
    /\ part \in {"prefix", "body"} /\ Room > 0
    /\ wire = <<>> /\ ~Closed
    /\ slices = 0
    /\ phase = "serve" => timeouts < MaxTimeouts
    /\ timeouts' = IF phase = "serve" THEN timeouts + 1 ELSE timeouts
    /\ dropped' = (dropped \/ part = "body" \/ got # <<>>)
    /\ EndRead
    /\ IF phase = "handshake" THEN Throw ELSE UNCHANGED <<phase, proc, handles>>
    /\ UNCHANGED <<platform, program, wire, asked, workerVars, sigVars, inbox, ended>>

\* The pipe is empty and its writer is gone: the end of the stream.
ReadEof ==
    /\ part \in {"prefix", "body"} /\ Room > 0
    /\ wire = <<>> /\ Closed
    /\ ended' = TRUE
    /\ EndRead
    /\ IF phase = "handshake" THEN Throw ELSE UNCHANGED <<phase, proc, handles>>
    /\ UNCHANGED <<platform, program, wire, asked, workerVars, sigVars, inbox, dropped, timeouts>>

Genuine(bytes, from, to) == \E f \in Frame : bytes = Bytes(f, from, to)

\* The length is decoded.  Above kMaxFrameSize the read fails without an end of
\* stream, and the prefix is spent.
PrefixRead ==
    /\ part = "prefix" /\ Room = 0
    /\ \E n \in IF Genuine(got, 1, PrefixSize) THEN {BodySize} ELSE 0..(BodySize + 1) :
         IF n > BodySize
         THEN EndRead /\ dropped' = TRUE
         ELSE /\ part' = "body" /\ need' = PrefixSize + n /\ slices' = MaxSlices
              /\ UNCHANGED <<got, dropped>>
    /\ UNCHANGED <<procVars, phase, wire, asked, workerVars, sigVars, inbox, ended, timeouts>>

IsFrame == Genuine(got, 1, FrameSize)

\* TryParseFrame and what its caller makes of it.  The handshake ends with a hello of
\* protocol version 1, ignores any other frame, and throws on one it cannot parse and on
\* a hello of another version: which version a worker speaks is left open.
Deliver(n) ==
    /\ part = "body" /\ Room = 0
    /\ IF IsFrame THEN n = got[1].frame ELSE n = 0
    /\ inbox' = Append(inbox, n)
    /\ EndRead
    /\ UNCHANGED <<platform, program, wire, asked, workerVars, sigVars, dropped, ended, timeouts>>

DeliverFrame(n) ==
    /\ Deliver(n)
    /\ IF phase = "handshake"
       THEN \/ n = 1 /\ phase' = "serve" /\ UNCHANGED <<proc, handles>>
            \/ n # 1 /\ UNCHANGED <<phase, proc, handles>>
            \/ n \in {0, 1} /\ Throw
       ELSE UNCHANGED <<phase, proc, handles>>

-----------------------------------------------------------------------------
(* Write and Shutdown. *)

\* ScopedSigpipeBlock around one write, entered with the signals s: blocked, raised by
\* a broken pipe, taken back if it was neither blocked nor pending, the mask restored.
WriteSignals(s, broken) ==
    IF broken /\ ~s.blocked /\ ~s.pending THEN s ELSE [s EXCEPT !.pending = @ \/ broken]

\* The stdin pipe has lost its reader.
Broken == proc # "running"

\* ChildProcess::Write of the Shutdown frame.  The pipe is broken when the worker is
\* gone; the write reports it, and Shutdown goes on.
Shutdown ==
    /\ phase = "serve" /\ part = "none"
    /\ phase' = "shutdown"
    /\ asked' = ~Broken
    /\ before' = sig
    /\ sig' = IF platform = "posix" THEN WriteSignals(sig, Broken) ELSE sig
    /\ UNCHANGED <<procVars, wire, workerVars, readVars, histVars>>

\* The loop of Shutdown ends: the worker is gone, its stdout is, or kShutdownWaitMs have
\* passed and it is killed.  Wait reaps it, and the object is destroyed.
Release ==
    /\ phase = "shutdown" /\ part = "none"
    /\ phase' = "gone"
    /\ Waited
    /\ UNCHANGED <<platform, program, wire, asked, workerVars, readVars, sigVars, histVars>>

ReadStep == StartRead \/ ReadData \/ SliceExpires \/ GiveUp \/ ReadEof \/ PrefixRead
            \/ \E n \in Frame \cup {0} : DeliverFrame(n)

Next ==
    \/ \E t \in Thread : DemoSend(t) \/ ColmapSend(t) \/ WriteBytes(t)
    \/ WriteDiagnostic \/ WorkerStops \/ WorkerCrashes
    \/ ReadStep \/ Shutdown \/ Release

\* The host runs on, and its clock with it: a slice ends, and the five seconds
\* of Shutdown end whatever the worker does.  Nothing is asked of the worker.
Fairness == WF_vars(ReadStep) /\ SF_vars(Release)

Spec == Init /\ [][Next]_vars /\ Fairness

-----------------------------------------------------------------------------
(* Properties. *)

ChannelTypeOK ==
    /\ platform \in {"posix", "win32"} /\ program \in Programs
    /\ proc \in {"running", "zombie", "reaped"} /\ handles \subseteq Spawned(platform)
    /\ phase \in {"handshake", "serve", "shutdown", "gone"}
    /\ wire \in Seq(Byte) /\ Len(wire) <= PipeCapacity /\ errors \in 0..StderrCapacity
    /\ writer \in [Thread -> [frame : 0..Cardinality(Frame), out : 0..FrameSize]]
    /\ started \in Frame /\ whole \subseteq Frame
    /\ part \in {"none", "prefix", "body"} /\ got \in Seq(Byte) /\ Len(got) <= need
    /\ slices \in 0..MaxSlices /\ timeouts \in 0..MaxTimeouts
    /\ inbox \in Seq(Frame \cup {0})

\* As long as no read gave up inside a frame and no frame was begun inside another,
\* ReadFrame returns exactly the frames that were sent, in order and none twice, however
\* the bytes were cut on the way; with the demo worker's lock the second cannot happen.
FramesFaithful ==
    /\ ChannelTypeOK
    /\ ~dropped /\ ~torn => \A i \in DOMAIN inbox : inbox[i] = i

\* When ReadFrame reports the end of the stream, every frame the worker finished has
\* been returned: what a worker says last before it exits is not lost to the hang-up
\* (ReadWithDeadline drains buffered bytes before EOF).
LastWordsHeard ==
    ended /\ ~dropped /\ ~torn => whole \subseteq Range(inbox)

\* The handshake failed on a worker that was gone by then: its stream ended, or a frame
\* of it was refused, the hello of another version or one that does not parse.
GoneInHandshake ==
    /\ proc = "zombie" /\ ~asked
    /\ ended \/ \E i \in DOMAIN inbox : inbox[i] \in {0, 1}

\* However the executor ends, the worker is dead and reaped and nothing of the channel
\* stays open, but for one case: on Win32 a worker that has exited when the handshake
\* fails (at the end of its stream, on a frame that does not parse or on a hello of
\* another version) leaves exactly its process and its stdin handle behind
\* (~ChildProcess waits only for a worker that is running).
NothingLeftOpen ==
    phase = "gone" =>
      \/ proc = "reaped" /\ handles = {}
      \/ platform = "win32" /\ GoneInHandshake /\ handles = {"process", "stdin"}

\* A write to a dead worker leaves the thread's signals as they were: SIGPIPE is never
\* both unblocked and pending, which would kill the engine, and one that was pending
\* before is still pending after (ScopedSigpipeBlock).
SignalsKept ==
    /\ ~(sig.pending /\ ~sig.blocked)
    /\ before.pending => sig.pending
    /\ sig.blocked = before.blocked

\* The handshake ends, with a hello or with an error, also when the worker stalls in the
\* middle of it, before it or for ever.
HandshakeEnds == (phase = "handshake") ~> (phase # "handshake")

\* Shutdown returns whatever the worker does: one that is blocked on its stderr or in the
\* middle of a frame, or ignores the request, is killed.
ShutdownReturns == (phase = "shutdown") ~> (phase = "gone")

\* The host hears what the worker said: every frame, in order, to the last one.
StreamFaithful == FramesFaithful /\ LastWordsHeard

\* A worker's end costs the engine nothing: no process, no handle, no signal.
NothingLeaks == NothingLeftOpen /\ SignalsKept

\* Neither end of a worker's life can hang the engine.
ChannelEnds == HandshakeEnds /\ ShutdownReturns
=============================================================================
