-------------------------- MODULE FoundationProofs --------------------------
(***************************************************************************)
(* Proofs about the two parts the executors and the importers stand on.     *)
(*                                                                         *)
(* WorkerChannel, for every size of prefix, body and pipe and any number   *)
(* of frames: the host hears the worker's frames in order and to the last  *)
(* one, and no end of a worker leaves anything behind.  The frames are     *)
(* numbered, so a byte has a position in the stream the worker writes; the *)
(* proof places every byte: those the host holds, those in the pipe and    *)
(* those still to be written follow one another.                           *)
(*                                                                         *)
(* ArtifactStore and the TaskCache over it, for every set of contents,     *)
(* instances and keys, any inputs, and any number of ends of the process,  *)
(* of rotten files and of instances deleted by hand, when the caller keeps *)
(* GarbageCollect apart from the writing calls.                            *)
(***************************************************************************)
EXTENDS WorkerChannel, TaskCache, FiniteSetTheorems, SequenceTheorems, TLAPS

-----------------------------------------------------------------------------
(* The channel: the inductive invariant. *)

Active(t) == writer[t] # Idle

\* What the types leave out: flags, quotas and the counts a step relies on.
Kept ==
    /\ dropped \in BOOLEAN /\ torn \in BOOLEAN /\ ended \in BOOLEAN /\ asked \in BOOLEAN
    /\ need \in 0..FrameSize
    /\ part = "prefix" => need = PrefixSize
    /\ part = "body" => Len(got) >= PrefixSize
    /\ part = "none" => got = <<>>
    /\ quota["task"] \in 0..MaxFrames["task"] /\ quota["beat"] \in 0..MaxFrames["beat"]
    /\ quota["lines"] \in Nat /\ DOMAIN quota = {"task", "beat", "lines"}
    /\ started + quota["task"] + quota["beat"] = 1 + MaxFrames["task"] + MaxFrames["beat"]

\* A thread is idle or in the middle of a frame that has been begun; with the lock of
\* the demo worker only its holder is, and no frame is begun inside another.
Holding ==
    /\ \A t \in Thread : Active(t) =>
          writer[t].frame \in 1..started /\ writer[t].out < FrameSize
    /\ program = "demo" => ~torn /\ \A t \in Thread : Active(t) <=> lock = t

\* While no frame was begun inside another, one thread writes, the frame begun last,
\* and all the frames before it are out.
OneByOne ==
    ~torn =>
      /\ \A t, u \in Thread : Active(t) /\ Active(u) => t = u
      /\ \A t \in Thread : Active(t) => writer[t].frame = started /\ whole = 1..(started - 1)
      /\ (\A t \in Thread : ~Active(t)) => whole = 1..started

\* The position of a byte in the stream of all frames, and the bytes the host has taken.
Pos(b) == (b.frame - 1) * FrameSize + b.at
Taken == Len(inbox) * FrameSize + Len(got)

\* What ReadFrame holds are the first bytes of the next frame ...
Holds(f) == \A i \in 1..Len(got) : got[i] = [frame |-> f, at |-> i]

\* ... and the bytes that follow are in the pipe, up to the one to be written next.
InPlace ==
    /\ Holds(Len(inbox) + 1)
    /\ part = "body" => need = FrameSize
    /\ \A i \in 1..Len(wire) : Pos(wire[i]) = Taken + i
    /\ \A t \in Thread : Active(t) =>
          Taken + Len(wire) = (started - 1) * FrameSize + writer[t].out
    /\ (\A t \in Thread : ~Active(t)) => Taken + Len(wire) = started * FrameSize

\* The end of the stream: nothing is left, and the frames returned are the whole ones.
AtEnd ==
    /\ proc # "running" /\ wire = <<>> /\ got = <<>>
    /\ whole = 1..Len(inbox)

Stream ==
    ~dropped /\ ~torn =>
      /\ \A i \in DOMAIN inbox : inbox[i] = i
      /\ ended => AtEnd
      /\ ~ended => InPlace

\* The handshake: whatever happens behind it, the hello is the first frame.
Hello ==
    phase = "handshake" =>
      /\ ~dropped /\ ~ended /\ ~asked /\ proc # "reaped" /\ inbox = <<>>
      /\ Holds(1)
      /\ part = "body" => need = FrameSize
      /\ \A i \in 1..Len(wire) : Len(got) + i <= FrameSize =>
            wire[i] = [frame |-> 1, at |-> Len(got) + i]
      /\ 1 \in whole => Len(got) + Len(wire) >= FrameSize
      /\ 1 \notin whole =>
            /\ ~Active("beat")
            /\ writer["task"] = [frame |-> 1, out |-> Len(got) + Len(wire)]

\* The end of the executor.
Gone == phase = "gone" => part = "none" /\ proc # "running"

Signals ==
    /\ sig \in [blocked : BOOLEAN, pending : BOOLEAN]
    /\ before \in [blocked : BOOLEAN, pending : BOOLEAN]
    /\ SignalsKept

ChannelInv ==
    /\ ChannelTypeOK /\ Kept /\ Holding /\ OneByOne /\ Stream /\ Hello
    /\ Gone /\ NothingLeftOpen /\ Signals

-----------------------------------------------------------------------------
(* Sizes, positions and bytes. *)

LEMMA Sizes ==
    /\ PrefixSize \in Nat /\ PrefixSize > 0 /\ BodySize \in Nat /\ BodySize > 0
    /\ FrameSize \in Nat /\ FrameSize = PrefixSize + BodySize
    /\ PipeCapacity \in Nat /\ MaxFrames["task"] \in Nat /\ MaxFrames["beat"] \in Nat
    /\ Cardinality(Frame) = 1 + MaxFrames["task"] + MaxFrames["beat"]
  <1>1. Cardinality(Frame) = 1 + MaxFrames["task"] + MaxFrames["beat"]
    <2> DEFINE n == 1 + MaxFrames["task"] + MaxFrames["beat"]
    <2>1. n \in Int /\ n >= 1
      BY BoundAssumption
    <2> HIDE DEF n
    <2>2. Cardinality(1..n) = n
      BY <2>1, FS_Interval
    <2> QED
      BY <2>2 DEF Frame, n
  <1> QED
    BY <1>1, SizeAssumption, BoundAssumption DEF FrameSize

\* A position in the stream is that of one byte of one frame.
LEMMA Positions ==
    ASSUME NEW a \in Nat, NEW b \in Nat, NEW x \in 1..FrameSize, NEW y \in 1..FrameSize,
           a * FrameSize + x = b * FrameSize + y
    PROVE  a = b /\ x = y
  <1> DEFINE F == FrameSize
  <1>1. F \in Nat
    BY Sizes
  <1> HIDE DEF F
  <1>2. ASSUME NEW m \in Nat, NEW n \in Nat, m < n PROVE m * F + F <= n * F
    <2>1. PICK k \in Nat : n = m + 1 + k
      <3>1. n - m - 1 \in Nat /\ n = m + 1 + (n - m - 1)
        BY <1>2
      <3> QED
        BY <3>1
    <2>2. n * F = m * F + F + k * F
      BY <1>1, <2>1
    <2>3. k * F \in Nat /\ m * F \in Nat /\ n * F \in Nat
      BY <1>1
    <2> QED
      BY <1>1, <2>2, <2>3
  <1>3. a * F \in Nat /\ b * F \in Nat /\ a * F + x = b * F + y /\ x \in 1..F /\ y \in 1..F
    BY <1>1 DEF F
  <1>4. ~(a < b)
    BY <1>1, <1>2, <1>3
  <1>5. ~(b < a)
    BY <1>1, <1>2, <1>3
  <1>6. a = b
    BY <1>4, <1>5
  <1> QED
    BY <1>3, <1>6

\* The frame after f frames begins where these end.
LEMMA NextFrame ==
    ASSUME NEW f \in Nat
    PROVE  /\ f * FrameSize \in Nat
           /\ (f + 1) * FrameSize = f * FrameSize + FrameSize
           /\ ((f + 1) - 1) * FrameSize = f * FrameSize
  BY Sizes

LEMMA ByteOf ==
    ASSUME NEW b \in Byte
    PROVE  /\ b.frame \in Frame /\ b.at \in 1..FrameSize /\ b.frame \in Nat /\ b.frame >= 1
           /\ b.frame - 1 \in Nat /\ b = [frame |-> b.frame, at |-> b.at]
  BY Sizes DEF Byte, Frame

LEMMA BytesOf ==
    ASSUME NEW f \in Frame, NEW from \in 1..FrameSize, NEW to \in from..FrameSize
    PROVE  /\ Bytes(f, from, to) \in Seq(Byte)
           /\ Len(Bytes(f, from, to)) = to - from + 1
           /\ \A i \in 1..(to - from + 1) : Bytes(f, from, to)[i] = [frame |-> f, at |-> from + i - 1]
  <1> DEFINE n == to - from + 1
             b == [i \in 1..n |-> [frame |-> f, at |-> from + i - 1]]
  <1>1. n \in Nat /\ FrameSize \in Nat
    BY Sizes
  <1>2. \A i \in 1..n : from + i - 1 \in 1..FrameSize
    BY <1>1
  <1>3. b \in [1..n -> Byte]
    BY <1>2 DEF Byte
  <1>4. b \in Seq(Byte) /\ Len(b) = n
    BY <1>1, <1>3
  <1> QED
    BY <1>4 DEF Bytes

\* Bytes that are the first ones of a frame, in order, are a genuine part of it.
LEMMA FirstBytes ==
    ASSUME NEW f \in Nat, NEW n \in 1..FrameSize, NEW s \in Seq(Byte), Len(s) = n,
           \A i \in 1..n : s[i] = [frame |-> f, at |-> i]
    PROVE  f \in Frame /\ s = Bytes(f, 1, n) /\ Genuine(s, 1, n) /\ s[1].frame = f
  <1>1. s[1] \in Byte /\ s[1].frame = f
    BY Sizes
  <1>2. f \in Frame
    BY <1>1, ByteOf
  <1>3. n \in Nat /\ s = [i \in 1..n |-> s[i]]
    BY Sizes
  <1>4. Bytes(f, 1, n) = [i \in 1..n |-> [frame |-> f, at |-> i]]
    BY <1>3 DEF Bytes
  <1>5. s = Bytes(f, 1, n)
    BY <1>3, <1>4
  <1> QED
    BY <1>1, <1>2, <1>5 DEF Genuine

-----------------------------------------------------------------------------
(* The initial state. *)

LEMMA InitInv == Init => ChannelInv
  <1> SUFFICES ASSUME Init PROVE ChannelInv
    OBVIOUS
  <1> USE Sizes
  <1>1. ChannelTypeOK
    <2>1. writer \in [Thread -> [frame : 0..Cardinality(Frame), out : 0..FrameSize]]
      BY DEF Init, Idle, Thread
    <2>2. started \in Frame
      BY DEF Init, Frame
    <2> QED
      BY <2>1, <2>2, ProgramAssumption, BoundAssumption DEF Init, ChannelTypeOK, Spawned
  <1>2. Kept
    <2>1. quota["task"] = MaxFrames["task"] /\ quota["beat"] = MaxFrames["beat"]
          /\ quota["lines"] = MaxDiagnostics /\ DOMAIN quota = {"task", "beat", "lines"}
      BY DEF Init
    <2>2. dropped \in BOOLEAN /\ torn \in BOOLEAN /\ ended \in BOOLEAN /\ asked \in BOOLEAN
      BY DEF Init
    <2>3. part = "none" /\ got = <<>> /\ need = 0 /\ started = 1
      BY DEF Init
    <2> QED
      BY <2>1, <2>2, <2>3, BoundAssumption DEF Kept
  <1>3. Active("task") /\ ~Active("beat") /\ writer["task"] = [frame |-> 1, out |-> 0] /\ started = 1 /\ whole = {}
    BY DEF Init, Active, Idle, Thread
  <1>4. Holding
    BY <1>3, ProgramAssumption DEF Init, Holding, Thread
  <1>5. OneByOne
    BY <1>3 DEF OneByOne, Thread
  <1>6. Stream
    BY <1>3 DEF Init, Stream, InPlace, Taken, Holds, Thread
  <1>7. Hello
    BY <1>3 DEF Init, Hello, Holds, Thread
  <1>8. Gone /\ NothingLeftOpen
    BY DEF Init, Gone, NothingLeftOpen
  <1>9. Signals
    BY DEF Init, Signals, SignalsKept
  <1> QED
    BY <1>1, <1>2, <1>4, <1>5, <1>6, <1>7, <1>8, <1>9 DEF ChannelInv

-----------------------------------------------------------------------------
(* The worker's steps. *)

\* A thread begins a frame: with the lock, or without.
LEMMA SendInv ==
    ASSUME ChannelInv, NEW t \in Thread, DemoSend(t) \/ ColmapSend(t)
    PROVE  ChannelInv'
  <1> USE Sizes DEF ChannelInv
  <1>1. /\ proc = "running" /\ writer[t] = Idle /\ quota[t] > 0 /\ 1 \in whole
        /\ started' = started + 1
        /\ writer' = [writer EXCEPT ![t] = [frame |-> started + 1, out |-> 0]]
        /\ quota' = [quota EXCEPT ![t] = @ - 1]
    BY DEF DemoSend, ColmapSend, MayStart, Begin
  <1>2. UNCHANGED <<procVars, phase, wire, asked, errors, whole, readVars, sigVars, histVars>>
    BY DEF DemoSend, ColmapSend
  <1> USE <1>2 DEF procVars, readVars, sigVars, histVars
  <1>3. /\ torn' \in BOOLEAN
        /\ torn => torn'
        /\ program = "demo" => lock = "none" /\ lock' = t /\ torn' = torn
        /\ program # "demo" /\ ~torn' => \A u \in Thread : ~Active(u)
    <2>1. CASE DemoSend(t)
      BY <2>1 DEF DemoSend, Kept
    <2>2. CASE ColmapSend(t)
      BY <2>2 DEF ColmapSend, Kept, Active
    <2> QED
      BY <2>1, <2>2
  <1>4. /\ started \in Nat /\ started >= 1 /\ started \in Frame
        /\ writer \in [Thread -> [frame : 0..Cardinality(Frame), out : 0..FrameSize]]
    BY DEF ChannelTypeOK, Frame
  <1>5. started' \in Frame /\ quota'[t] = quota[t] - 1 /\ DOMAIN quota' = DOMAIN quota
        /\ \A u \in {"task", "beat", "lines"} \ {t} : quota'[u] = quota[u]
    BY <1>1, <1>4 DEF Kept, Thread, Frame
  <1>6. /\ writer'[t] = [frame |-> started + 1, out |-> 0] /\ Active(t)'
        /\ \A u \in Thread : u # t => writer'[u] = writer[u] /\ (Active(u)' <=> Active(u))
        /\ ~Active(t)
    BY <1>1, <1>4 DEF Active, Idle
  <1>7. ~torn' => ~torn /\ \A u \in Thread : ~Active(u)
    BY <1>3 DEF Holding, Kept, Thread
  <1>8. ChannelTypeOK'
    <2>1. [frame |-> started + 1, out |-> 0] \in [frame : 0..Cardinality(Frame), out : 0..FrameSize]
      BY <1>1, <1>4, <1>5 DEF Frame
    <2>2. writer' \in [Thread -> [frame : 0..Cardinality(Frame), out : 0..FrameSize]]
      BY <1>1, <1>4, <2>1
    <2> QED
      BY <1>5, <2>2 DEF ChannelTypeOK
  <1>9. Kept'
    <2>1. quota[t] \in 0..MaxFrames[t] /\ t \in {"task", "beat"}
      BY DEF Kept, Thread
    <2>2. quota'["task"] \in 0..MaxFrames["task"] /\ quota'["beat"] \in 0..MaxFrames["beat"]
          /\ quota'["lines"] = quota["lines"]
          /\ started' + quota'["task"] + quota'["beat"] = started + quota["task"] + quota["beat"]
      <3>1. CASE t = "task"
        <4>1. quota'["beat"] = quota["beat"] /\ quota'["lines"] = quota["lines"]
          BY <1>5, <3>1
        <4>2. quota'["task"] = quota["task"] - 1 /\ quota["task"] > 0
          BY <1>1, <1>5, <3>1
        <4>3. /\ quota["task"] \in 0..MaxFrames["task"] /\ quota["beat"] \in 0..MaxFrames["beat"]
              /\ started' = started + 1
          BY <1>1 DEF Kept
        <4> QED
          BY <1>4, <4>1, <4>2, <4>3, Sizes
      <3>2. CASE t = "beat"
        <4>1. quota'["task"] = quota["task"] /\ quota'["lines"] = quota["lines"]
          BY <1>5, <3>2
        <4>2. quota'["beat"] = quota["beat"] - 1 /\ quota["beat"] > 0
          BY <1>1, <1>5, <3>2
        <4>3. /\ quota["task"] \in 0..MaxFrames["task"] /\ quota["beat"] \in 0..MaxFrames["beat"]
              /\ started' = started + 1
          BY <1>1 DEF Kept
        <4> QED
          BY <1>4, <4>1, <4>2, <4>3, Sizes
      <3> QED
        BY <2>1, <3>1, <3>2
    <2> QED
      BY <1>3, <1>5, <2>2 DEF Kept
  <1>10. Holding'
    <2>1. \A u \in Thread : Active(u)' => writer'[u].frame \in 1..started' /\ writer'[u].out < FrameSize
      BY <1>1, <1>4, <1>6 DEF Holding
    <2>2. program = "demo" => ~torn' /\ \A u \in Thread : Active(u)' <=> lock' = u
      BY <1>3, <1>6 DEF Holding, Thread
    <2> QED
      BY <2>1, <2>2 DEF Holding
  <1>11. OneByOne'
    BY <1>1, <1>4, <1>6, <1>7 DEF OneByOne
  <1>12. Stream'
    <2> SUFFICES ASSUME ~dropped, ~torn'
                 PROVE  /\ \A i \in DOMAIN inbox : inbox[i] = i
                        /\ ~ended /\ InPlace'
      BY DEF Stream
    <2>1. /\ \A i \in DOMAIN inbox : inbox[i] = i
          /\ ~ended /\ InPlace
      BY <1>1, <1>7 DEF Stream, AtEnd
    <2>2. (started' - 1) * FrameSize + writer'[t].out = started * FrameSize
      BY <1>1, <1>4, <1>6, NextFrame
    <2>3. Taken' = Taken /\ Taken + Len(wire) = started * FrameSize
      BY <1>7, <2>1 DEF InPlace, Taken
    <2>4. \A u \in Thread : Active(u)' => u = t
      BY <1>6, <1>7
    <2> QED
      BY <1>6, <2>1, <2>2, <2>3, <2>4 DEF InPlace, Holds, Pos
  <1>13. Hello'
    BY <1>1 DEF Hello, Holds
  <1>14. Gone' /\ NothingLeftOpen' /\ Signals'
    BY DEF Gone, NothingLeftOpen, GoneInHandshake, Signals, SignalsKept
  <1> QED
    BY <1>8, <1>9, <1>10, <1>11, <1>12, <1>13, <1>14

\* What a write does: n bytes of the frame f, of which o were out, follow the others,
\* and the last one frees the thread and its lock.
Wrote(t, f, o, n) ==
    /\ proc = "running" /\ Active(t) /\ writer[t] = [frame |-> f, out |-> o]
    /\ o + n <= FrameSize
    /\ wire' \in Seq(Byte) /\ Len(wire') = Len(wire) + n /\ Len(wire') <= PipeCapacity
    /\ \A i \in 1..Len(wire) : wire'[i] = wire[i]
    /\ \A i \in 1..n : wire'[Len(wire) + i] = [frame |-> f, at |-> o + i]
    /\ o + n = FrameSize => /\ whole' = whole \cup {f}
                            /\ writer' = [writer EXCEPT ![t] = Idle]
                            /\ lock' = IF lock = t THEN "none" ELSE lock
    /\ o + n # FrameSize => /\ writer' = [writer EXCEPT ![t] = [frame |-> f, out |-> o + n]]
                            /\ UNCHANGED <<whole, lock>>
    /\ UNCHANGED <<procVars, phase, asked, errors, started, quota, torn, readVars, sigVars,
                   histVars>>

LEMMA Writes ==
    ASSUME ChannelInv, NEW t \in Thread, WriteBytes(t)
    PROVE  \E f \in 1..started, o \in 0..(FrameSize - 1), n \in 1..FrameSize : Wrote(t, f, o, n)
  <1> USE Sizes DEF ChannelInv
  <1>1. /\ writer[t] \in [frame : 0..Cardinality(Frame), out : 0..FrameSize]
        /\ writer \in [Thread -> [frame : 0..Cardinality(Frame), out : 0..FrameSize]]
        /\ wire \in Seq(Byte) /\ Len(wire) \in Nat /\ started \in Frame
    BY DEF ChannelTypeOK
  <1>2. PICK f, o : writer[t] = [frame |-> f, out |-> o]
    BY <1>1
  <1>3. Active(t)
    BY DEF WriteBytes, Active
  <1>4. f \in 1..started /\ f \in Frame /\ o \in 0..(FrameSize - 1) /\ o \in Nat
    BY <1>1, <1>2, <1>3 DEF Holding, Frame
  <1> DEFINE m == IF o = 0 THEN PrefixSize ELSE 1
  <1>5. m \in 1..FrameSize /\ o + m <= FrameSize /\ o + m \in Nat
    BY <1>4
  <1>6. /\ proc = "running"
        /\ Len(wire) + m <= PipeCapacity
        /\ wire' = wire \o Bytes(f, o + 1, o + m)
        /\ o + m = FrameSize => /\ whole' = whole \cup {f}
                                /\ writer' = [writer EXCEPT ![t] = Idle]
                                /\ lock' = IF lock = t THEN "none" ELSE lock
        /\ o + m # FrameSize => /\ writer' = [writer EXCEPT ![t].out = @ + m]
                                /\ UNCHANGED <<whole, lock>>
        /\ UNCHANGED <<procVars, phase, asked, errors, started, quota, torn, readVars, sigVars,
                       histVars>>
    BY <1>2 DEF WriteBytes
  <1>7. PICK n \in 1..FrameSize : n = m
    BY <1>5
  <1> HIDE DEF m
  <1>8. o + n <= FrameSize /\ o + n \in Nat /\ n \in Nat
    BY <1>5, <1>7
  <1> DEFINE new == Bytes(f, o + 1, o + n)
  <1>9. /\ new \in Seq(Byte) /\ Len(new) = n
        /\ \A i \in 1..n : new[i] = [frame |-> f, at |-> o + i]
    <2>1. o + 1 \in 1..FrameSize /\ o + n \in (o + 1)..FrameSize
      BY <1>4, <1>8
    <2>2. (o + n) - (o + 1) + 1 = n /\ \A i \in 1..n : (o + 1) + i - 1 = o + i
      BY <1>4, <1>8
    <2>3. /\ new \in Seq(Byte)
          /\ Len(new) = (o + n) - (o + 1) + 1
          /\ \A i \in 1..((o + n) - (o + 1) + 1) : new[i] = [frame |-> f, at |-> (o + 1) + i - 1]
      BY <1>4, <2>1, BytesOf
    <2> HIDE DEF new
    <2> QED
      BY <2>2, <2>3
  <1>10. wire' = wire \o new
    BY <1>6, <1>7
  <1> HIDE DEF new
  <1>11. /\ wire' \in Seq(Byte) /\ Len(wire') = Len(wire) + n
         /\ \A i \in 1..Len(wire) : wire'[i] = wire[i]
         /\ \A i \in 1..n : wire'[Len(wire) + i] = [frame |-> f, at |-> o + i]
    <2>1. wire' \in Seq(Byte) /\ Len(wire') = Len(wire) + n
      BY <1>1, <1>9, <1>10, ConcatProperties
    <2>3. ASSUME NEW i \in 1..Len(wire) PROVE wire'[i] = wire[i]
      BY <1>1, <1>8, <1>9, <1>10
    <2>2. ASSUME NEW i \in 1..n PROVE wire'[Len(wire) + i] = new[i]
      BY <1>1, <1>8, <1>9, <1>10
    <2> QED
      BY <1>9, <2>1, <2>2, <2>3
  <1>12. o + n # FrameSize => writer' = [writer EXCEPT ![t] = [frame |-> f, out |-> o + n]]
    <2> SUFFICES ASSUME o + n # FrameSize
                 PROVE  writer' = [writer EXCEPT ![t] = [frame |-> f, out |-> o + n]]
      OBVIOUS
    <2>1. writer' = [writer EXCEPT ![t] = [writer[t] EXCEPT !.out = @ + n]]
      BY <1>6, <1>7
    <2>2. [writer[t] EXCEPT !.out = @ + n] = [frame |-> f, out |-> o + n]
      BY <1>2
    <2> QED
      BY <2>1, <2>2
  <1>13. Wrote(t, f, o, n)
    BY <1>2, <1>3, <1>6, <1>7, <1>8, <1>11, <1>12 DEF Wrote
  <1> QED
    BY <1>4, <1>13

\* A thread writes its prefix or a byte of its body.
LEMMA WriteInv ==
    ASSUME ChannelInv, NEW t \in Thread, WriteBytes(t)
    PROVE  ChannelInv'
  <1> USE DEF ChannelInv
  <1>0. PICK f \in 1..started, o \in 0..(FrameSize - 1), n \in 1..FrameSize : Wrote(t, f, o, n)
    BY Writes
  <1> DEFINE last == o + n = FrameSize
  <1>1. UNCHANGED <<procVars, phase, asked, errors, started, quota, torn, readVars, sigVars, histVars>>
    BY <1>0 DEF Wrote
  <1> USE DEF procVars, readVars, sigVars, histVars
  <1>2. proc = "running" /\ Active(t) /\ writer[t].frame = f /\ writer[t].out = o /\ o + n <= FrameSize
    BY <1>0 DEF Wrote
  <1>3. /\ wire' \in Seq(Byte) /\ Len(wire') = Len(wire) + n /\ Len(wire') <= PipeCapacity
        /\ \A i \in 1..Len(wire) : wire'[i] = wire[i]
        /\ \A i \in 1..n : wire'[Len(wire) + i] = [frame |-> f, at |-> o + i]
    BY <1>0 DEF Wrote
  <1>4. last => /\ whole' = whole \cup {f}
                /\ writer' = [writer EXCEPT ![t] = Idle]
                /\ lock' = IF lock = t THEN "none" ELSE lock
    BY <1>0 DEF Wrote
  <1>5. ~last => /\ writer' = [writer EXCEPT ![t] = [frame |-> f, out |-> o + n]]
                 /\ UNCHANGED <<whole, lock>>
    BY <1>0 DEF Wrote
  <1>6. /\ started \in Nat /\ started >= 1 /\ started \in Frame /\ f \in Frame /\ f \in Nat
        /\ f \in 1..started /\ FrameSize \in Nat /\ o \in Nat /\ n \in Nat /\ n >= 1
        /\ Len(wire) \in Nat /\ Len(got) \in Nat /\ Len(inbox) \in Nat
    <2>1. wire \in Seq(Byte) /\ got \in Seq(Byte) /\ inbox \in Seq(Frame \cup {0}) /\ started \in Frame
      BY DEF ChannelTypeOK
    <2>2. Len(wire) \in Nat /\ Len(got) \in Nat /\ Len(inbox) \in Nat
      BY <2>1
    <2>3. started \in Nat /\ started >= 1 /\ f \in Frame /\ f \in Nat
      BY <2>1, Sizes DEF Frame
    <2> QED
      BY <2>1, <2>2, <2>3, Sizes
  <1>7. writer \in [Thread -> [frame : 0..Cardinality(Frame), out : 0..FrameSize]]
    BY DEF ChannelTypeOK
  <1>8. /\ last => writer'[t] = Idle /\ ~Active(t)'
        /\ ~last => writer'[t] = [frame |-> f, out |-> o + n] /\ Active(t)'
        /\ \A u \in Thread : u # t => writer'[u] = writer[u] /\ (Active(u)' <=> Active(u))
    BY <1>4, <1>5, <1>6, <1>7 DEF Active, Idle
  <1>9. \A i \in 1..Len(wire') : i \in 1..Len(wire) \/ \E k \in 1..n : i = Len(wire) + k
    <2> SUFFICES ASSUME NEW i \in 1..Len(wire'), i \notin 1..Len(wire)
                 PROVE  i - Len(wire) \in 1..n /\ i = Len(wire) + (i - Len(wire))
      OBVIOUS
    <2> QED
      BY <1>3, <1>6
  <1> HIDE DEF last
  <1>10. (last <=> o + n = FrameSize) /\ (~last => o + n < FrameSize)
    BY <1>2, <1>6 DEF last
  <1>11. ChannelTypeOK'
    <2>1. writer' \in [Thread -> [frame : 0..Cardinality(Frame), out : 0..FrameSize]]
      <3>1. CASE last
        <4>1. Idle \in [frame : 0..Cardinality(Frame), out : 0..FrameSize]
          BY Sizes DEF Idle
        <4> QED
          BY <1>4, <1>7, <3>1, <4>1
      <3>2. CASE ~last
        <4>1. f \in 0..Cardinality(Frame) /\ o + n \in 0..FrameSize
          BY <1>6, <1>10, <3>2, Sizes DEF Frame
        <4>2. [frame |-> f, out |-> o + n] \in [frame : 0..Cardinality(Frame), out : 0..FrameSize]
          BY <4>1
        <4> QED
          BY <1>5, <1>7, <3>2, <4>2
      <3> QED
        BY <3>1, <3>2
    <2>2. whole' \subseteq Frame
      BY <1>4, <1>5, <1>6 DEF ChannelTypeOK
    <2> QED
      BY <1>1, <1>3, <2>1, <2>2 DEF ChannelTypeOK
  <1>12. Kept'
    BY <1>1 DEF Kept
  <1>13. Holding'
    <2>1. \A u \in Thread : Active(u)' => writer'[u].frame \in 1..started' /\ writer'[u].out < FrameSize
      BY <1>1, <1>6, <1>8, <1>10 DEF Holding
    <2>2. program = "demo" => ~torn' /\ \A u \in Thread : Active(u)' <=> lock' = u
      BY <1>1, <1>2, <1>4, <1>5, <1>8 DEF Holding, Thread
    <2> QED
      BY <1>1, <2>1, <2>2 DEF Holding
  <1>14. ~torn => f = started /\ whole = 1..(started - 1) /\ \A u \in Thread : Active(u) => u = t
    BY <1>2 DEF OneByOne
  <1>15. OneByOne'
    <2> SUFFICES ASSUME ~torn
                 PROVE  /\ \A a, u \in Thread : Active(a)' /\ Active(u)' => a = u
                        /\ \A a \in Thread : Active(a)' => writer'[a].frame = started /\ whole' = 1..(started - 1)
                        /\ (\A a \in Thread : ~Active(a)') => whole' = 1..started
      BY <1>1 DEF OneByOne
    <2>1. \A a \in Thread : Active(a)' => a = t /\ ~last
      BY <1>8, <1>14
    <2>2. CASE last
      <3>1. whole' = 1..started
        <4>1. whole' = (1..(started - 1)) \cup {started}
          BY <1>4, <1>14, <2>2
        <4> QED
          BY <1>6, <4>1
      <3> QED
        BY <2>1, <2>2, <3>1
    <2>3. CASE ~last
      <3>1. whole' = 1..(started - 1) /\ writer'[t].frame = started /\ Active(t)'
        BY <1>5, <1>8, <1>14, <2>3
      <3> QED
        BY <2>1, <3>1
    <2> QED
      BY <2>2, <2>3
  <1>16. Stream'
    <2> SUFFICES ASSUME ~dropped, ~torn
                 PROVE  /\ \A i \in DOMAIN inbox : inbox[i] = i
                        /\ ~ended /\ InPlace'
      BY <1>1 DEF Stream
    <2>1. /\ \A i \in DOMAIN inbox : inbox[i] = i
          /\ ~ended /\ InPlace
      BY <1>2 DEF Stream, AtEnd
    <2> DEFINE T == Taken
               K == (started - 1) * FrameSize
    <2>2. T + Len(wire) = K + o /\ f = started
      BY <1>2, <1>14, <2>1 DEF InPlace
    <2>3. T \in Nat /\ K \in Nat /\ started * FrameSize = K + FrameSize
      <3>1. started - 1 \in Nat /\ (started - 1) + 1 = started
        BY <1>6
      <3>2. Len(inbox) * FrameSize \in Nat
        BY <1>6, NextFrame
      <3> QED
        BY <1>6, <3>1, <3>2, NextFrame DEF Taken
    <2> DEFINE L == started * FrameSize
    <2>4. Taken' = T
      BY <1>1 DEF Taken
    <2>5. \A b : Pos(b)' = Pos(b)
      BY DEF Pos
    <2>6. ASSUME NEW k \in 1..n PROVE Pos(wire'[Len(wire) + k]) = T + (Len(wire) + k)
      <3>1. Pos(wire'[Len(wire) + k]) = K + (o + k)
        <4>1. Pos(wire'[Len(wire) + k]) = (f - 1) * FrameSize + (o + k)
          <5>1. wire'[Len(wire) + k] = [frame |-> f, at |-> o + k]
            BY <1>3
          <5> QED
            BY <5>1 DEF Pos
        <4> QED
          BY <2>2, <4>1
      <3> HIDE DEF T, K
      <3> QED
        BY <1>6, <2>2, <2>3, <3>1
    <2>7. \A i \in 1..Len(wire) : Pos(wire'[i]) = T + i
      BY <1>3, <2>1 DEF InPlace
    <2> HIDE DEF T, K, L
    <2>8. \A i \in 1..Len(wire') : Pos(wire'[i]) = T + i
      BY <1>9, <2>6, <2>7
    <2>9. \A u \in Thread : Active(u)' => T + Len(wire') = K + writer'[u].out
      <3> SUFFICES ASSUME NEW u \in Thread, Active(u)'
                   PROVE  T + Len(wire') = K + writer'[u].out
        OBVIOUS
      <3>1. u = t /\ ~last
        BY <1>8, <1>14
      <3>2. writer'[u].out = o + n
        BY <1>8, <3>1
      <3> QED
        BY <1>3, <1>6, <2>2, <2>3, <3>2
    <2>10. (\A u \in Thread : ~Active(u)') => T + Len(wire') = L
      <3> SUFFICES ASSUME ~Active(t)' PROVE T + Len(wire') = L
        OBVIOUS
      <3>1. o + n = FrameSize
        BY <1>8, <1>10
      <3>2. L = K + FrameSize
        BY <2>3 DEF L
      <3> QED
        <4>1. T \in Nat /\ K \in Nat /\ Len(wire') = Len(wire) + n
          BY <1>3, <2>3
        <4> QED
          BY <1>6, <2>2, <3>1, <3>2, <4>1
    <2>11. Holds(Len(inbox) + 1)' /\ (part = "body" => need = FrameSize)'
      BY <1>1, <2>1 DEF InPlace, Holds
    <2> USE DEF T, K, L
    <2> QED
      BY <1>1, <2>1, <2>4, <2>5, <2>8, <2>9, <2>10, <2>11 DEF InPlace
  <1>17. Hello'
    <2> SUFFICES ASSUME phase = "handshake" PROVE Hello'
      BY <1>1 DEF Hello
    <2>1. /\ ~dropped' /\ ~ended' /\ ~asked' /\ proc' # "reaped" /\ inbox' = <<>>
          /\ Holds(1)' /\ (part = "body" => need = FrameSize)'
      BY <1>1 DEF Hello, Holds
    <2>2. \A i \in 1..Len(wire) : Len(got) + i <= FrameSize => wire[i] = [frame |-> 1, at |-> Len(got) + i]
      BY DEF Hello
    <2>3. CASE 1 \in whole
      <3>1. 1 \in whole' /\ Len(got) + Len(wire) >= FrameSize
        BY <1>4, <1>5, <2>3 DEF Hello
      <3>2. \A i \in 1..Len(wire') : Len(got) + i <= FrameSize => i \in 1..Len(wire)
        BY <1>3, <1>6, <3>1
      <3>3. Len(got) + Len(wire') >= FrameSize
        BY <1>3, <1>6, <3>1
      <3> QED
        BY <1>1, <1>3, <2>1, <2>2, <3>1, <3>2, <3>3 DEF Hello
    <2>4. CASE 1 \notin whole
      <3>1. t = "task" /\ ~Active("beat") /\ f = 1 /\ o = Len(got) + Len(wire)
        BY <1>2, <2>4 DEF Hello, Thread
      <3>2. ASSUME NEW k \in 1..n
            PROVE  wire'[Len(wire) + k] = [frame |-> 1, at |-> Len(got) + (Len(wire) + k)]
        <4>1. o + k = Len(got) + (Len(wire) + k)
          BY <1>6, <3>1
        <4> QED
          BY <1>3, <3>1, <4>1
      <3>3. \A i \in 1..Len(wire') : Len(got) + i <= FrameSize => wire'[i] = [frame |-> 1, at |-> Len(got) + i]
        BY <1>3, <1>9, <2>2, <3>2
      <3>4. ~Active("beat")'
        BY <1>8, <3>1 DEF Thread
      <3>5. Len(got) + Len(wire') = o + n
        BY <1>3, <1>6, <3>1
      <3>6. 1 \in whole' => Len(got) + Len(wire') >= FrameSize
        BY <1>5, <1>6, <1>10, <2>4, <3>5
      <3>7. 1 \notin whole' => writer'["task"] = [frame |-> 1, out |-> Len(got) + Len(wire')]
        BY <1>4, <1>8, <3>1, <3>5
      <3> QED
        BY <1>1, <2>1, <3>3, <3>4, <3>6, <3>7 DEF Hello
    <2> QED
      BY <2>3, <2>4
  <1>18. Gone' /\ NothingLeftOpen' /\ Signals'
    BY <1>1 DEF Gone, NothingLeftOpen, GoneInHandshake, Signals, SignalsKept
  <1> QED
    BY <1>11, <1>12, <1>13, <1>15, <1>16, <1>17, <1>18

\* A line on stderr.
LEMMA DiagnosticInv ==
    ASSUME ChannelInv, WriteDiagnostic
    PROVE  ChannelInv'
  <1> USE DEF ChannelInv
  <1>1. /\ errors' = errors + 1 /\ errors < StderrCapacity
        /\ quota' = [quota EXCEPT !["lines"] = @ - 1] /\ quota["lines"] > 0
        /\ UNCHANGED <<procVars, phase, wire, asked, writer, started, whole, lock, torn, readVars,
                       sigVars, histVars>>
    BY DEF WriteDiagnostic
  <1> USE DEF procVars, readVars, sigVars, histVars
  <1>2. ChannelTypeOK'
    <2>1. errors' \in 0..StderrCapacity
      BY <1>1, BoundAssumption DEF ChannelTypeOK
    <2> QED
      BY <1>1, <2>1 DEF ChannelTypeOK
  <1>3. Kept'
    <2>1. /\ quota'["task"] = quota["task"] /\ quota'["beat"] = quota["beat"]
          /\ quota'["lines"] \in Nat /\ DOMAIN quota' = DOMAIN quota
      BY <1>1 DEF Kept
    <2> QED
      BY <1>1, <2>1 DEF Kept
  <1>4. Holding' /\ OneByOne'
    BY <1>1 DEF Holding, OneByOne, Active
  <1>5. Stream' /\ Hello'
    BY <1>1 DEF Stream, InPlace, AtEnd, Hello, Holds, Taken, Pos, Active
  <1>6. Gone' /\ NothingLeftOpen' /\ Signals'
    BY <1>1 DEF Gone, NothingLeftOpen, GoneInHandshake, Signals, SignalsKept
  <1> QED
    BY <1>2, <1>3, <1>4, <1>5, <1>6

\* The worker ends: asked to, or not.
LEMMA ExitInv ==
    ASSUME ChannelInv, WorkerStops \/ WorkerCrashes
    PROVE  ChannelInv'
  <1> USE DEF ChannelInv
  <1>1. /\ proc = "running" /\ proc' = "zombie"
        /\ UNCHANGED <<platform, program, handles, phase, wire, asked, workerVars, readVars, sigVars,
                       histVars>>
    BY DEF WorkerStops, WorkerCrashes, Exit
  <1> USE DEF workerVars, readVars, sigVars, histVars
  <1>2. ChannelTypeOK' /\ Kept'
    BY <1>1 DEF ChannelTypeOK, Kept
  <1>3. Holding' /\ OneByOne'
    BY <1>1 DEF Holding, OneByOne, Active
  <1>4. Stream' /\ Hello'
    BY <1>1 DEF Stream, InPlace, AtEnd, Hello, Holds, Taken, Pos, Active
  <1>5. Gone' /\ NothingLeftOpen' /\ Signals'
    BY <1>1 DEF Gone, NothingLeftOpen, GoneInHandshake, Signals, SignalsKept
  <1> QED
    BY <1>2, <1>3, <1>4, <1>5

-----------------------------------------------------------------------------
(* The host's steps. *)

\* A step of the host that leaves the worker's variables alone keeps what is said of them.
LEMMA HostOnly ==
    ASSUME ChannelInv, UNCHANGED <<program, workerVars>>
    PROVE  /\ Holding' /\ OneByOne'
           /\ \A t \in Thread : (Active(t)' <=> Active(t)) /\ writer'[t] = writer[t]
  BY DEF ChannelInv, Holding, OneByOne, Active, workerVars

LEMMA StartReadInv ==
    ASSUME ChannelInv, StartRead
    PROVE  ChannelInv'
  <1> USE DEF ChannelInv
  <1>1. /\ part = "none" /\ phase \in {"handshake", "serve", "shutdown"}
        /\ part' = "prefix" /\ got' = <<>> /\ need' = PrefixSize /\ slices' = MaxSlices
        /\ UNCHANGED <<procVars, phase, wire, asked, workerVars, sigVars, histVars>>
    BY DEF StartRead
  <1> USE DEF procVars, workerVars, sigVars, histVars
  <1>2. Len(got') = 0 /\ got' = got
    BY <1>1 DEF Kept
  <1>3. ChannelTypeOK'
    BY <1>1, <1>2, Sizes, BoundAssumption DEF ChannelTypeOK
  <1>4. Kept'
    BY <1>1, Sizes DEF Kept
  <1>5. Holding' /\ OneByOne'
    BY <1>1, HostOnly
  <1>6. Stream'
    <2>1. Taken' = Taken
      BY <1>1, <1>2 DEF Taken, Kept
    <2>2. InPlace => InPlace'
      BY <1>1, <1>2, <2>1, HostOnly DEF InPlace, Holds, Pos, Kept
    <2>3. AtEnd => AtEnd'
      BY <1>1, <1>2 DEF AtEnd
    <2> QED
      BY <1>1, <2>2, <2>3 DEF Stream
  <1>7. Hello'
    BY <1>1, <1>2 DEF Hello, Holds, Kept, Active
  <1>8. Gone' /\ NothingLeftOpen' /\ Signals'
    BY <1>1 DEF Gone, NothingLeftOpen, GoneInHandshake, Signals, SignalsKept
  <1> QED
    BY <1>3, <1>4, <1>5, <1>6, <1>7, <1>8

LEMMA SliceInv ==
    ASSUME ChannelInv, SliceExpires
    PROVE  ChannelInv'
  <1> USE DEF ChannelInv
  <1>1. /\ slices > 0 /\ slices' = slices - 1
        /\ UNCHANGED <<procVars, phase, wire, asked, workerVars, part, got, need, sigVars, histVars>>
    BY DEF SliceExpires
  <1> USE DEF procVars, workerVars, sigVars, histVars
  <1>2. slices' \in 0..MaxSlices
    BY <1>1, BoundAssumption DEF ChannelTypeOK
  <1>3. ChannelTypeOK' /\ Kept'
    BY <1>1, <1>2 DEF ChannelTypeOK, Kept
  <1>4. Holding' /\ OneByOne'
    BY <1>1, HostOnly
  <1>5. Stream' /\ Hello'
    BY <1>1 DEF Stream, InPlace, AtEnd, Hello, Holds, Taken, Pos, Active
  <1>6. Gone' /\ NothingLeftOpen' /\ Signals'
    BY <1>1 DEF Gone, NothingLeftOpen, GoneInHandshake, Signals, SignalsKept
  <1> QED
    BY <1>3, <1>4, <1>5, <1>6

\* The host takes the bytes that are there: they go on where it stopped.
LEMMA ReadDataInv ==
    ASSUME ChannelInv, ReadData
    PROVE  ChannelInv'
  <1> USE DEF ChannelInv
  <1>1. /\ part \in {"prefix", "body"} /\ Available > 0
        /\ got' = got \o SubSeq(wire, 1, Available)
        /\ wire' = SubSeq(wire, Available + 1, Len(wire))
        /\ UNCHANGED <<procVars, phase, asked, workerVars, part, need, slices, sigVars, histVars>>
    BY DEF ReadData
  <1> USE DEF procVars, workerVars, sigVars, histVars
  <1>2. /\ wire \in Seq(Byte) /\ got \in Seq(Byte) /\ Len(wire) \in Nat /\ Len(got) \in Nat
        /\ Len(got) <= need /\ need \in 0..FrameSize /\ need \in Nat /\ FrameSize \in Nat
        /\ inbox \in Seq(Frame \cup {0}) /\ Len(inbox) \in Nat
    <2>1. need \in 0..FrameSize /\ FrameSize \in Nat
      BY Sizes DEF Kept
    <2>2. wire \in Seq(Byte) /\ got \in Seq(Byte) /\ Len(got) <= need /\ inbox \in Seq(Frame \cup {0})
      BY DEF ChannelTypeOK
    <2> QED
      BY <2>1, <2>2
  <1>3. PICK a \in Nat : a = Available /\ a >= 1 /\ a <= Len(wire) /\ Len(got) + a <= need
    BY <1>1, <1>2 DEF Available, Room
  <1>4. /\ SubSeq(wire, 1, a) \in Seq(Byte) /\ Len(SubSeq(wire, 1, a)) = a
        /\ \A i \in 1..a : SubSeq(wire, 1, a)[i] = wire[i]
    BY <1>2, <1>3
  <1>5. /\ wire' \in Seq(Byte) /\ Len(wire') = Len(wire) - a
        /\ \A i \in 1..(Len(wire) - a) : wire'[i] = wire[a + i]
    <2>1. wire' = SubSeq(wire, a + 1, Len(wire))
      BY <1>1, <1>3
    <2>2. CASE a = Len(wire)
      BY <1>2, <1>3, <2>1, <2>2
    <2>3. CASE a < Len(wire)
      BY <1>2, <1>3, <2>1, <2>3
    <2> QED
      BY <1>3, <2>2, <2>3
  <1>6. /\ got' \in Seq(Byte) /\ Len(got') = Len(got) + a
        /\ \A i \in 1..Len(got) : got'[i] = got[i]
        /\ \A i \in 1..a : got'[Len(got) + i] = wire[i]
    <2> DEFINE head == SubSeq(wire, 1, a)
    <2>1. got' = got \o head /\ head \in Seq(Byte) /\ Len(head) = a /\ \A i \in 1..a : head[i] = wire[i]
      BY <1>1, <1>3, <1>4
    <2> HIDE DEF head
    <2>2. got' \in Seq(Byte) /\ Len(got') = Len(got) + a
      BY <1>2, <2>1, ConcatProperties
    <2>3. ASSUME NEW i \in 1..Len(got) PROVE got'[i] = got[i]
      BY <1>2, <1>3, <2>1
    <2>4. ASSUME NEW i \in 1..a PROVE got'[Len(got) + i] = wire[i]
      BY <1>2, <1>3, <2>1
    <2> QED
      BY <2>2, <2>3, <2>4
  <1>7. \A i \in 1..Len(got') : i \in 1..Len(got) \/ \E k \in 1..a : i = Len(got) + k
    <2> SUFFICES ASSUME NEW i \in 1..Len(got'), i \notin 1..Len(got)
                 PROVE  i - Len(got) \in 1..a /\ i = Len(got) + (i - Len(got))
      OBVIOUS
    <2> QED
      BY <1>2, <1>3, <1>6
  <1>8. ChannelTypeOK'
    <2>1. Len(wire') <= PipeCapacity /\ Len(got') <= need'
      BY <1>1, <1>2, <1>3, <1>5, <1>6, Sizes DEF ChannelTypeOK
    <2> QED
      BY <1>1, <1>5, <1>6, <2>1 DEF ChannelTypeOK
  <1>9. Kept'
    <2>1. part' = "body" => Len(got') >= PrefixSize
      BY <1>1, <1>2, <1>3, <1>6, Sizes DEF Kept
    <2> QED
      BY <1>1, <2>1 DEF Kept
  <1>10. Holding' /\ OneByOne' /\ \A t \in Thread : (Active(t)' <=> Active(t)) /\ writer'[t] = writer[t]
    BY <1>1, HostOnly
  <1>11. Stream'
    <2> SUFFICES ASSUME ~dropped, ~torn
                 PROVE  /\ \A i \in DOMAIN inbox : inbox[i] = i
                        /\ ~ended /\ InPlace'
      BY <1>1 DEF Stream
    <2>0. wire # <<>>
      BY <1>2, <1>3
    <2>1. /\ \A i \in DOMAIN inbox : inbox[i] = i
          /\ ~ended /\ InPlace
      BY <2>0 DEF Stream, AtEnd
    <2> DEFINE I == Len(inbox) * FrameSize
               T == Taken
    <2>2. I \in Nat /\ ((Len(inbox) + 1) - 1) * FrameSize = I
      BY <1>2, NextFrame
    <2>3. T = I + Len(got) /\ Taken' = I + Len(got')
      BY <1>1 DEF Taken
    <2>4. ASSUME NEW k \in 1..a PROVE got'[Len(got) + k] = [frame |-> Len(inbox) + 1, at |-> Len(got) + k]
      <3>1. wire[k] \in Byte /\ k \in 1..Len(wire) /\ k \in Nat
        BY <1>2, <1>3
      <3>2. Pos(wire[k]) = T + k
        BY <2>1, <3>1 DEF InPlace
      <3>3. /\ wire[k].frame - 1 \in Nat /\ wire[k].at \in 1..FrameSize /\ wire[k].frame \in Nat
            /\ wire[k] = [frame |-> wire[k].frame, at |-> wire[k].at]
        BY <3>1, ByteOf
      <3>4. Len(got) + k \in 1..FrameSize
        BY <1>2, <1>3
      <3> DEFINE p == wire[k].frame - 1
                 q == wire[k].at
                 r == Len(got) + k
      <3>5. p * FrameSize + q = Len(inbox) * FrameSize + r
        <4>1. p * FrameSize + q = T + k
          BY <3>2 DEF Pos
        <4>2. I + Len(got) + k = I + r
          BY <1>2, <2>2
        <4> QED
          BY <2>3, <4>1, <4>2
      <3>6. p \in Nat /\ q \in 1..FrameSize /\ r \in 1..FrameSize
        BY <3>3, <3>4
      <3> HIDE DEF p, q, r
      <3>7. p = Len(inbox) /\ q = r
        <4>1. Len(inbox) \in Nat
          BY <1>2
        <4> QED
          BY ONLY <3>5, <3>6, <4>1, Positions
      <3>8. wire[k].frame = Len(inbox) + 1 /\ wire[k].at = Len(got) + k
        <4>1. wire[k].frame - 1 = Len(inbox) /\ wire[k].at = Len(got) + k
          BY ONLY <3>7 DEF p, q, r
        <4>2. wire[k].frame \in Nat /\ Len(inbox) \in Nat
          BY <1>2, <3>3
        <4> QED
          BY ONLY <4>1, <4>2
      <3> QED
        BY <1>6, <3>3, <3>8
    <2>5. Holds(Len(inbox) + 1)'
      <3>1. \A i \in 1..Len(got) : got'[i] = [frame |-> Len(inbox) + 1, at |-> i]
        BY <1>6, <2>1 DEF InPlace, Holds
      <3>2. \A i \in 1..Len(got') : got'[i] = [frame |-> Len(inbox) + 1, at |-> i]
        <4> SUFFICES ASSUME NEW i \in 1..Len(got'), NEW k \in 1..a, i = Len(got) + k
                     PROVE  got'[i] = [frame |-> Len(inbox) + 1, at |-> i]
          BY <1>7, <3>1
        <4> QED
          BY <2>4
      <3> QED
        BY <1>1, <3>2 DEF Holds
    <2> HIDE DEF I, T
    <2>6. ASSUME NEW i \in 1..Len(wire') PROVE Pos(wire'[i]) = Taken' + i
      <3>0. i \in 1..(Len(wire) - a) /\ i \in Nat /\ a + i \in 1..Len(wire)
        BY <1>2, <1>3, <1>5
      <3>1. wire'[i] = wire[a + i] /\ a + i \in 1..Len(wire) /\ i \in Nat
        BY <1>5, <3>0
      <3>2. Pos(wire[a + i]) = T + (a + i)
        BY <2>1, <3>1 DEF InPlace, T
      <3> QED
        BY <1>2, <1>3, <1>6, <2>2, <2>3, <3>1, <3>2
    <2>7. Taken' + Len(wire') = T + Len(wire)
      BY <1>2, <1>3, <1>5, <1>6, <2>2, <2>3
    <2>8. (\A i \in 1..Len(wire) : Pos(wire[i]) = Taken + i)'
      BY <2>6 DEF Pos
    <2>9. (part = "body" => need = FrameSize)'
      BY <1>1, <2>1 DEF InPlace
    <2>10. UNCHANGED started
      BY <1>1
    <2> QED
      BY <1>10, <2>1, <2>5, <2>7, <2>8, <2>9, <2>10 DEF InPlace, T
  <1>12. Hello'
    <2> SUFFICES ASSUME phase = "handshake" PROVE Hello'
      BY <1>1 DEF Hello
    <2>1. \A i \in 1..Len(wire) : Len(got) + i <= FrameSize => wire[i] = [frame |-> 1, at |-> Len(got) + i]
      BY DEF Hello
    <2>2. Holds(1)'
      <3>1. \A k \in 1..a : got'[Len(got) + k] = [frame |-> 1, at |-> Len(got) + k]
        <4> SUFFICES ASSUME NEW k \in 1..a
                     PROVE  got'[Len(got) + k] = [frame |-> 1, at |-> Len(got) + k]
          OBVIOUS
        <4>1. k \in 1..Len(wire) /\ Len(got) + k <= FrameSize
          BY <1>2, <1>3
        <4> QED
          BY <1>6, <2>1, <4>1
      <3>2. \A i \in 1..Len(got) : got'[i] = [frame |-> 1, at |-> i]
        BY <1>6 DEF Hello, Holds
      <3>3. \A i \in 1..Len(got') : got'[i] = [frame |-> 1, at |-> i]
        <4> SUFFICES ASSUME NEW i \in 1..Len(got'), NEW k \in 1..a, i = Len(got) + k
                     PROVE  got'[i] = [frame |-> 1, at |-> i]
          BY <1>7, <3>2
        <4> QED
          BY <3>1
      <3> QED
        BY <3>3 DEF Holds
    <2>3. ASSUME NEW i \in 1..Len(wire'), Len(got') + i <= FrameSize
          PROVE  wire'[i] = [frame |-> 1, at |-> Len(got') + i]
      <3>1. wire'[i] = wire[a + i] /\ a + i \in 1..Len(wire) /\ i \in Nat
        BY <1>2, <1>3, <1>5
      <3>2. Len(got) + (a + i) = Len(got') + i
        BY <1>2, <1>3, <1>6, <3>1
      <3> QED
        BY <2>1, <2>3, <3>1, <3>2
    <2>4. Len(got') + Len(wire') = Len(got) + Len(wire)
      BY <1>2, <1>3, <1>5, <1>6
    <2> QED
      BY <1>1, <1>10, <2>2, <2>3, <2>4 DEF Hello, Active
  <1>13. Gone' /\ NothingLeftOpen' /\ Signals'
    BY <1>1 DEF Gone, NothingLeftOpen, GoneInHandshake, Signals, SignalsKept
  <1> QED
    BY <1>8, <1>9, <1>10, <1>11, <1>12, <1>13

\* A read gives up.  With bytes in hand they are lost, and nothing more is promised.
LEMMA GiveUpInv ==
    ASSUME ChannelInv, GiveUp
    PROVE  ChannelInv'
  <1> USE DEF ChannelInv
  <1>1. /\ part \in {"prefix", "body"} /\ wire = <<>> /\ proc = "running"
        /\ phase = "serve" => timeouts < MaxTimeouts
        /\ timeouts' = IF phase = "serve" THEN timeouts + 1 ELSE timeouts
        /\ dropped' = (dropped \/ part = "body" \/ got # <<>>)
        /\ part' = "none" /\ got' = <<>> /\ need' = 0 /\ slices' = 0
        /\ UNCHANGED <<platform, program, wire, asked, workerVars, sigVars, inbox, ended>>
    BY DEF GiveUp, EndRead, Closed
  <1>2. /\ phase = "handshake" => phase' = "gone" /\ proc' = "reaped" /\ handles' = {}
        /\ phase # "handshake" => UNCHANGED <<phase, proc, handles>>
    BY <1>1 DEF GiveUp, Throw, Destroyed, Waited
  <1> USE DEF workerVars, sigVars
  <1>3. ChannelTypeOK'
    <2>1. timeouts' \in 0..MaxTimeouts /\ slices' \in 0..MaxSlices
      BY <1>1, BoundAssumption DEF ChannelTypeOK
    <2>2. phase' \in {"handshake", "serve", "shutdown", "gone"} /\ proc' \in {"running", "zombie", "reaped"}
          /\ handles' \subseteq Spawned(platform)'
      BY <1>1, <1>2 DEF ChannelTypeOK, Spawned
    <2>3. got' \in Seq(Byte) /\ Len(got') <= need' /\ part' \in {"none", "prefix", "body"}
      BY <1>1
    <2> QED
      BY <1>1, <2>1, <2>2, <2>3 DEF ChannelTypeOK
  <1>4. Kept'
    <2>1. dropped' \in BOOLEAN
      BY <1>1
    <2> QED
      BY <1>1, <2>1, Sizes DEF Kept
  <1>5. Holding' /\ OneByOne'
    BY <1>1, HostOnly
  <1>6. Stream'
    <2> SUFFICES ASSUME ~dropped', ~torn
                 PROVE  /\ \A i \in DOMAIN inbox : inbox[i] = i
                        /\ ~ended /\ InPlace'
      BY <1>1 DEF Stream
    <2>1. ~dropped /\ got = <<>> /\ got' = got
      BY <1>1
    <2>2. /\ \A i \in DOMAIN inbox : inbox[i] = i
          /\ ~ended /\ InPlace
      BY <1>1, <2>1 DEF Stream, AtEnd
    <2> QED
      BY <1>1, <2>1, <2>2 DEF InPlace, Holds, Taken, Pos, Active
  <1>7. Hello'
    BY <1>2 DEF Hello
  <1>8. Gone'
    BY <1>1, <1>2 DEF Gone
  <1>9. NothingLeftOpen'
    BY <1>1, <1>2 DEF NothingLeftOpen, GoneInHandshake
  <1>10. Signals'
    BY <1>1 DEF Signals, SignalsKept
  <1> QED
    BY <1>3, <1>4, <1>5, <1>6, <1>7, <1>8, <1>9, <1>10

\* The end of the stream: less than a frame is in hand, so the frames returned are
\* those that were written to the last byte.
LEMMA ReadEofInv ==
    ASSUME ChannelInv, ReadEof
    PROVE  ChannelInv'
  <1> USE DEF ChannelInv
  <1>1. /\ part \in {"prefix", "body"} /\ Room > 0 /\ wire = <<>> /\ proc # "running"
        /\ ended' = TRUE
        /\ part' = "none" /\ got' = <<>> /\ need' = 0 /\ slices' = 0
        /\ UNCHANGED <<platform, program, wire, asked, workerVars, sigVars, inbox, dropped, timeouts>>
    BY DEF ReadEof, EndRead, Closed
  <1>2. /\ phase = "handshake" /\ platform = "posix" =>
              phase' = "gone" /\ proc' = "reaped" /\ handles' = {}
        /\ phase = "handshake" /\ platform # "posix" =>
              phase' = "gone" /\ proc' = proc /\ handles' = {"process", "stdin"}
        /\ phase # "handshake" => UNCHANGED <<phase, proc, handles>>
    BY <1>1 DEF ReadEof, Throw, Destroyed, Waited
  <1> USE DEF workerVars, sigVars
  <1>3. ChannelTypeOK'
    <2>1. phase' \in {"handshake", "serve", "shutdown", "gone"} /\ proc' \in {"running", "zombie", "reaped"}
          /\ handles' \subseteq Spawned(platform)'
      BY <1>1, <1>2 DEF ChannelTypeOK, Spawned
    <2>2. slices' \in 0..MaxSlices
      BY <1>1, BoundAssumption
    <2>3. got' \in Seq(Byte) /\ Len(got') <= need' /\ part' \in {"none", "prefix", "body"}
      BY <1>1
    <2> QED
      BY <1>1, <2>1, <2>2, <2>3 DEF ChannelTypeOK
  <1>4. Kept'
    <2>1. ended' \in BOOLEAN
      BY <1>1
    <2> QED
      BY <1>1, <2>1, Sizes DEF Kept
  <1>5. Holding' /\ OneByOne'
    BY <1>1, HostOnly
  <1>6. Stream'
    <2> SUFFICES ASSUME ~dropped, ~torn
                 PROVE  /\ \A i \in DOMAIN inbox : inbox[i] = i
                        /\ AtEnd'
      BY <1>1 DEF Stream
    <2>1. proc' # "running"
      BY <1>1, <1>2
    <2>2. (\A i \in DOMAIN inbox : inbox[i] = i) /\ (ended => AtEnd) /\ (~ended => InPlace)
      BY DEF Stream
    <2>3. CASE ended
      BY <1>1, <2>1, <2>2, <2>3 DEF AtEnd
    <2>4. CASE ~ended
      <3> DEFINE i == Len(inbox)
                 g == Len(got)
      <3>1. /\ got \in Seq(Byte) /\ g \in Nat /\ i \in Nat /\ g < FrameSize
            /\ FrameSize \in Nat /\ FrameSize > 0 /\ started \in Nat /\ started >= 1
        <4>1. got \in Seq(Byte) /\ inbox \in Seq(Frame \cup {0}) /\ started \in Frame
          BY DEF ChannelTypeOK
        <4>2. g \in Nat /\ i \in Nat
          BY <4>1
        <4>3. need \in 0..FrameSize /\ need - g > 0
          BY <1>1 DEF Kept, Room
        <4> QED
          BY <4>1, <4>2, <4>3, Sizes DEF Frame
      <3>2. Taken = i * FrameSize + g /\ Len(wire) = 0 /\ i * FrameSize \in Nat
        BY <1>1, <3>1, NextFrame DEF Taken
      <3>3. CASE \E t \in Thread : Active(t)
        <4>1. PICK t \in Thread : Active(t)
          BY <3>3
        <4> DEFINE o == writer[t].out
                   s == started - 1
        <4>2. o \in Nat /\ o < FrameSize /\ s \in Nat
          BY <3>1, <4>1 DEF Holding, ChannelTypeOK
        <4>3. Taken + Len(wire) = s * FrameSize + o /\ s * FrameSize \in Nat
          BY <2>2, <2>4, <4>1, <4>2, NextFrame DEF InPlace
        <4>4. whole = 1..s
          BY <4>1 DEF OneByOne
        <4> HIDE DEF o, s, i, g
        <4>5. i * FrameSize + (g + 1) = s * FrameSize + (o + 1)
          BY <3>1, <3>2, <4>2, <4>3
        <4>6. g + 1 \in 1..FrameSize /\ o + 1 \in 1..FrameSize
          BY <3>1, <4>2
        <4>7. i = s
          BY <3>1, <4>2, <4>5, <4>6, Positions
        <4> QED
          BY <1>1, <2>1, <2>2, <4>4, <4>7 DEF AtEnd, i
      <3>4. CASE \A t \in Thread : ~Active(t)
        <4>1. Taken + Len(wire) = started * FrameSize /\ started * FrameSize \in Nat
          BY <2>2, <2>4, <3>1, <3>4, NextFrame DEF InPlace
        <4>2. whole = 1..started
          BY <3>4 DEF OneByOne
        <4> HIDE DEF i, g
        <4>3. i * FrameSize + (g + 1) = started * FrameSize + 1
          BY <3>1, <3>2, <4>1
        <4>4. g + 1 \in 1..FrameSize /\ 1 \in 1..FrameSize
          BY <3>1
        <4>5. i = started
          BY <3>1, <4>3, <4>4, Positions
        <4> QED
          BY <1>1, <2>1, <2>2, <4>2, <4>5 DEF AtEnd, i
      <3> QED
        BY <3>3, <3>4
    <2> QED
      BY <2>3, <2>4
  <1>7. Hello'
    BY <1>2 DEF Hello
  <1>8. Gone'
    BY <1>1, <1>2 DEF Gone
  <1>9. NothingLeftOpen'
    <2>1. CASE phase = "handshake"
      <3>1. proc = "zombie" /\ ~asked
        BY <1>1, <2>1 DEF Hello, ChannelTypeOK
      <3> QED
        BY <1>1, <1>2, <2>1, <3>1 DEF NothingLeftOpen, GoneInHandshake, ChannelTypeOK
    <2>2. CASE phase # "handshake"
      BY <1>1, <1>2, <2>2 DEF NothingLeftOpen, GoneInHandshake
    <2> QED
      BY <2>1, <2>2
  <1>10. Signals'
    BY <1>1 DEF Signals, SignalsKept
  <1> QED
    BY <1>3, <1>4, <1>5, <1>6, <1>7, <1>8, <1>9, <1>10

\* The prefix is that of a frame, so the body that follows is as long as it says.
LEMMA PrefixReadInv ==
    ASSUME ChannelInv, PrefixRead
    PROVE  ChannelInv'
  <1> USE DEF ChannelInv
  <1>1. PICK n \in IF Genuine(got, 1, PrefixSize) THEN {BodySize} ELSE 0..(BodySize + 1) :
           /\ n > BodySize => EndRead /\ dropped' = TRUE
           /\ ~(n > BodySize) => /\ part' = "body" /\ need' = PrefixSize + n /\ slices' = MaxSlices
                                 /\ UNCHANGED <<got, dropped>>
    BY DEF PrefixRead
  <1>2. /\ part = "prefix" /\ Room = 0
        /\ UNCHANGED <<procVars, phase, wire, asked, workerVars, sigVars, inbox, ended, timeouts>>
    BY DEF PrefixRead
  <1> USE DEF procVars, workerVars, sigVars
  <1>3. /\ got \in Seq(Byte) /\ Len(got) = PrefixSize /\ inbox \in Seq(Frame \cup {0}) /\ Len(inbox) \in Nat
        /\ n \in Nat /\ Genuine(got, 1, PrefixSize) => n = BodySize
    <2>1. got \in Seq(Byte) /\ inbox \in Seq(Frame \cup {0})
      BY DEF ChannelTypeOK
    <2>2. Len(got) \in Nat /\ Len(inbox) \in Nat
      BY <2>1
    <2> QED
      BY <1>1, <1>2, <2>1, <2>2, Sizes DEF Kept, Room
  <1>4. PrefixSize \in 1..FrameSize /\ PrefixSize + BodySize = FrameSize
    BY Sizes
  <1>5. CASE n > BodySize
    <2>1. dropped' = TRUE /\ part' = "none" /\ got' = <<>> /\ need' = 0 /\ slices' = 0
      BY <1>1, <1>5 DEF EndRead
    <2>2. ChannelTypeOK'
      <3>1. slices' \in 0..MaxSlices
        BY <2>1, BoundAssumption
      <3>2. got' \in Seq(Byte) /\ Len(got') <= need' /\ part' \in {"none", "prefix", "body"}
        BY <2>1
      <3> QED
        BY <1>2, <3>1, <3>2 DEF ChannelTypeOK
    <2>3. Kept'
      <3>1. dropped' \in BOOLEAN
        BY <2>1
      <3> QED
        BY <1>2, <2>1, <3>1, Sizes DEF Kept
    <2>4. phase # "handshake"
      <3> SUFFICES ASSUME phase = "handshake" PROVE FALSE
        OBVIOUS
      <3>1. \A i \in 1..PrefixSize : got[i] = [frame |-> 1, at |-> i]
        BY <1>3 DEF Hello, Holds
      <3>2. Genuine(got, 1, PrefixSize)
        BY <1>3, <1>4, <3>1, FirstBytes
      <3> QED
        BY <1>3, <1>5, <3>2, Sizes
    <2>5. Stream' /\ Hello'
      BY <1>2, <2>1, <2>4 DEF Stream, Hello
    <2> QED
      BY <1>2, <2>1, <2>2, <2>3, <2>5, HostOnly DEF Gone, NothingLeftOpen, GoneInHandshake, Signals, SignalsKept
  <1>6. CASE ~(n > BodySize)
    <2>1. part' = "body" /\ need' = PrefixSize + n /\ slices' = MaxSlices /\ got' = got /\ dropped' = dropped
      BY <1>1, <1>6
    <2>2. need' \in 0..FrameSize /\ Len(got') <= need' /\ Len(got') >= PrefixSize
      BY <1>3, <1>6, <2>1, Sizes
    <2>3. ChannelTypeOK'
      <3>1. slices' \in 0..MaxSlices
        BY <2>1, BoundAssumption
      <3> QED
        BY <1>2, <2>1, <2>2, <3>1 DEF ChannelTypeOK
    <2>4. Kept'
      BY <1>2, <2>1, <2>2 DEF Kept
    <2>5. Stream'
      <3> SUFFICES ASSUME ~dropped, ~torn
                   PROVE  /\ \A i \in DOMAIN inbox : inbox[i] = i
                          /\ ~ended /\ InPlace'
        BY <1>2, <2>1 DEF Stream
      <3>1. got # <<>>
        BY <1>3, Sizes
      <3>2. /\ \A i \in DOMAIN inbox : inbox[i] = i
            /\ ~ended /\ InPlace
        BY <3>1 DEF Stream, AtEnd
      <3>3. \A i \in 1..PrefixSize : got[i] = [frame |-> Len(inbox) + 1, at |-> i]
        BY <1>3, <3>2 DEF InPlace, Holds
      <3>4. Len(inbox) + 1 \in Nat
        BY <1>3
      <3>5. Genuine(got, 1, PrefixSize)
        BY <1>3, <1>4, <3>3, <3>4, FirstBytes
      <3>6. need' = FrameSize
        BY <1>3, <1>4, <2>1, <3>5
      <3> QED
        BY <1>2, <2>1, <3>2, <3>6 DEF InPlace, Holds, Taken, Pos, Active
    <2>6. Hello'
      <3> SUFFICES ASSUME phase = "handshake" PROVE Hello'
        BY <1>2 DEF Hello
      <3>1. \A i \in 1..PrefixSize : got[i] = [frame |-> 1, at |-> i]
        BY <1>3 DEF Hello, Holds
      <3>2. Genuine(got, 1, PrefixSize)
        BY <1>3, <1>4, <3>1, FirstBytes
      <3>3. need' = FrameSize
        BY <1>3, <1>4, <2>1, <3>2
      <3> QED
        BY <1>2, <2>1, <3>3 DEF Hello, Holds, Active
    <2>7. Gone' /\ NothingLeftOpen' /\ Signals'
      BY <1>2 DEF Gone, NothingLeftOpen, GoneInHandshake, Signals, SignalsKept
    <2> QED
      BY <1>2, <2>3, <2>4, <2>5, <2>6, <2>7, HostOnly
  <1> QED
    BY <1>5, <1>6

\* A frame is returned: the next one, or in the handshake the hello.
LEMMA DeliverInv ==
    ASSUME ChannelInv, NEW n \in Frame \cup {0}, DeliverFrame(n)
    PROVE  ChannelInv'
  <1> USE DEF ChannelInv
  <1>1. /\ part = "body" /\ Room = 0
        /\ IsFrame => n = got[1].frame
        /\ inbox' = Append(inbox, n)
        /\ part' = "none" /\ got' = <<>> /\ need' = 0 /\ slices' = 0
        /\ UNCHANGED <<platform, program, wire, asked, workerVars, sigVars, dropped, ended, timeouts>>
    BY DEF DeliverFrame, Deliver, EndRead
  <1> USE DEF workerVars, sigVars
  <1>2. /\ got \in Seq(Byte) /\ inbox \in Seq(Frame \cup {0}) /\ Len(inbox) \in Nat
        /\ Len(got) = need /\ Len(got) >= PrefixSize /\ got # <<>>
    <2>1. got \in Seq(Byte) /\ inbox \in Seq(Frame \cup {0})
      BY DEF ChannelTypeOK
    <2>2. Len(got) \in Nat /\ Len(inbox) \in Nat
      BY <2>1
    <2>3. Len(got) = need /\ Len(got) >= PrefixSize
      BY <1>1, <2>2, Sizes DEF Kept, Room
    <2> QED
      BY <2>1, <2>2, <2>3, Sizes
  <1>3. FrameSize \in 1..FrameSize
    BY Sizes
  <1>4. ASSUME NEW f \in Nat, Holds(f), need = FrameSize PROVE n = f /\ f \in Frame
    <2>1. \A i \in 1..FrameSize : got[i] = [frame |-> f, at |-> i]
      BY <1>2, <1>4 DEF Holds
    <2>2. Genuine(got, 1, FrameSize) /\ got[1].frame = f /\ f \in Frame
      BY <1>2, <1>3, <1>4, <2>1, FirstBytes
    <2> QED
      BY <1>1, <2>2 DEF IsFrame
  <1>5. /\ phase = "handshake" => n = 1 /\ phase' # "handshake"
        /\ \/ phase' \in {phase, "serve"} /\ UNCHANGED <<proc, handles>>
           \/ phase = "handshake" /\ phase' = "gone" /\ Destroyed
    <2>1. phase = "handshake" => n = 1
      BY <1>1, <1>4 DEF Hello
    <2> QED
      BY <2>1 DEF DeliverFrame, Throw
  <1>6. inbox' \in Seq(Frame \cup {0}) /\ Len(inbox') = Len(inbox) + 1
        /\ (\A i \in 1..Len(inbox) : inbox'[i] = inbox[i]) /\ inbox'[Len(inbox) + 1] = n
    BY <1>1, <1>2, AppendProperties
  <1>7. ChannelTypeOK'
    <2>1. slices' \in 0..MaxSlices
      BY <1>1, BoundAssumption
    <2>2. got' \in Seq(Byte) /\ Len(got') <= need' /\ part' \in {"none", "prefix", "body"}
      BY <1>1
    <2>3. phase' \in {"handshake", "serve", "shutdown", "gone"} /\ proc' \in {"running", "zombie", "reaped"}
          /\ handles' \subseteq Spawned(platform)'
      BY <1>1, <1>5 DEF ChannelTypeOK, Spawned, Destroyed, Waited
    <2> QED
      BY <1>1, <1>6, <2>1, <2>2, <2>3 DEF ChannelTypeOK
  <1>8. Kept'
    BY <1>1, Sizes DEF Kept
  <1>9. Holding' /\ OneByOne' /\ \A t \in Thread : (Active(t)' <=> Active(t)) /\ writer'[t] = writer[t]
    BY <1>1, HostOnly
  <1>10. Stream'
    <2> SUFFICES ASSUME ~dropped, ~torn
                 PROVE  /\ \A i \in DOMAIN inbox' : inbox'[i] = i
                        /\ ~ended /\ InPlace'
      BY <1>1 DEF Stream
    <2>1. /\ \A i \in DOMAIN inbox : inbox[i] = i
          /\ ~ended /\ InPlace
      BY <1>2 DEF Stream, AtEnd
    <2>2. need = FrameSize /\ n = Len(inbox) + 1
      <3>1. Len(inbox) + 1 \in Nat /\ Holds(Len(inbox) + 1) /\ need = FrameSize
        BY <1>1, <1>2, <2>1 DEF InPlace
      <3> QED
        BY <1>4, <3>1
    <2>3. \A i \in DOMAIN inbox' : inbox'[i] = i
      <3>1. DOMAIN inbox' = 1..(Len(inbox) + 1) /\ DOMAIN inbox = 1..Len(inbox)
        BY <1>2, <1>6
      <3> QED
        BY <1>2, <1>6, <2>1, <2>2, <3>1
    <2>4. Taken' = Taken
      <3>1. Taken = Len(inbox) * FrameSize + FrameSize
        BY <1>2, <2>2 DEF Taken
      <3>2. Taken' = (Len(inbox) + 1) * FrameSize
        <4>1. (Len(inbox) + 1) * FrameSize \in Nat
          BY <1>2, Sizes, NextFrame
        <4>2. Len(inbox') = Len(inbox) + 1 /\ Len(got') = 0
          BY <1>1, <1>6
        <4>3. Taken' = (Len(inbox) + 1) * FrameSize + 0
          BY <4>2 DEF Taken
        <4> QED
          BY <4>1, <4>3
      <3> QED
        BY <1>2, <3>1, <3>2, NextFrame
    <2>5. Holds(Len(inbox) + 1)' /\ (part = "body" => need = FrameSize)'
      BY <1>1 DEF Holds
    <2>6. (\A i \in 1..Len(wire) : Pos(wire[i]) = Taken + i)'
      BY <1>1, <2>1, <2>4 DEF InPlace, Pos
    <2>7. UNCHANGED <<wire, started>>
      BY <1>1
    <2> QED
      BY <1>9, <2>1, <2>3, <2>4, <2>5, <2>6, <2>7 DEF InPlace
  <1>11. Hello'
    BY <1>5 DEF Hello
  <1>12. phase # "gone"
    BY <1>1 DEF Gone
  <1>13. Gone' /\ NothingLeftOpen'
    <2>1. CASE phase' \in {phase, "serve"} /\ UNCHANGED <<proc, handles>>
      BY <1>12, <2>1 DEF Gone, NothingLeftOpen
    <2>2. CASE phase = "handshake" /\ phase' = "gone" /\ Destroyed
      <3>1. inbox'[Len(inbox) + 1] = 1 /\ Len(inbox) + 1 \in DOMAIN inbox'
        BY <1>2, <1>5, <1>6, <2>2
      <3>2. proc \in {"running", "zombie"} /\ ~asked'
        BY <1>1, <2>2 DEF Hello, ChannelTypeOK
      <3> QED
        BY <1>1, <2>2, <3>1, <3>2 DEF Destroyed, Waited, Gone, NothingLeftOpen, GoneInHandshake, ChannelTypeOK
    <2> QED
      BY <1>5, <2>1, <2>2
  <1>14. Signals'
    BY <1>1 DEF Signals, SignalsKept
  <1> QED
    BY <1>7, <1>8, <1>9, <1>10, <1>11, <1>13, <1>14

\* The Shutdown frame, to a worker that is there or not.
LEMMA ShutdownInv ==
    ASSUME ChannelInv, Shutdown
    PROVE  ChannelInv'
  <1> USE DEF ChannelInv
  <1>1. /\ phase = "serve" /\ phase' = "shutdown" /\ asked' = ~Broken /\ before' = sig
        /\ sig' = IF platform = "posix" THEN WriteSignals(sig, Broken) ELSE sig
        /\ UNCHANGED <<procVars, wire, workerVars, readVars, histVars>>
    BY DEF Shutdown
  <1> USE DEF procVars, workerVars, readVars, histVars
  <1>2. ChannelTypeOK'
    BY <1>1 DEF ChannelTypeOK
  <1>3. Kept'
    <2>1. asked' \in BOOLEAN
      BY <1>1 DEF Broken
    <2> QED
      BY <1>1, <2>1 DEF Kept
  <1>4. Stream'
    BY <1>1 DEF Stream, InPlace, AtEnd, Holds, Taken, Pos, Active
  <1>5. Hello' /\ Gone' /\ NothingLeftOpen'
    BY <1>1 DEF Hello, Gone, NothingLeftOpen
  <1>6. Signals'
    <2> DEFINE new == [sig EXCEPT !.pending = @ \/ Broken]
    <2>1. sig' = sig \/ (sig' = new /\ ~(Broken /\ ~sig.blocked /\ ~sig.pending))
      BY <1>1 DEF WriteSignals
    <2>2. Broken \in BOOLEAN /\ sig.blocked \in BOOLEAN /\ sig.pending \in BOOLEAN
          /\ (sig.pending => sig.blocked)
      BY DEF Broken, Signals, SignalsKept
    <2>3. new \in [blocked : BOOLEAN, pending : BOOLEAN] /\ new.blocked = sig.blocked
          /\ new.pending = (sig.pending \/ Broken)
      BY <2>2 DEF Signals
    <2> HIDE DEF new
    <2>4. CASE sig' = sig
      BY <1>1, <2>2, <2>4 DEF Signals, SignalsKept
    <2>5. CASE sig' = new /\ ~(Broken /\ ~sig.blocked /\ ~sig.pending)
      BY <1>1, <2>2, <2>3, <2>5 DEF Signals, SignalsKept
    <2> QED
      BY <2>1, <2>4, <2>5
  <1> QED
    BY <1>1, <1>2, <1>3, <1>4, <1>5, <1>6, HostOnly

\* The worker is reaped and the executor destroyed.
LEMMA ReleaseInv ==
    ASSUME ChannelInv, Release
    PROVE  ChannelInv'
  <1> USE DEF ChannelInv
  <1>1. /\ part = "none" /\ phase' = "gone" /\ proc' = "reaped" /\ handles' = {}
        /\ UNCHANGED <<platform, program, wire, asked, workerVars, readVars, sigVars, histVars>>
    BY DEF Release, Waited
  <1> USE DEF workerVars, readVars, sigVars, histVars
  <1>2. ChannelTypeOK' /\ Kept'
    BY <1>1 DEF ChannelTypeOK, Kept, Spawned
  <1>3. Stream'
    BY <1>1 DEF Stream, InPlace, AtEnd, Holds, Taken, Pos, Active
  <1>4. Hello' /\ Gone' /\ NothingLeftOpen' /\ Signals'
    BY <1>1 DEF Hello, Gone, NothingLeftOpen, GoneInHandshake, Signals, SignalsKept
  <1> QED
    BY <1>1, <1>2, <1>3, <1>4, HostOnly

LEMMA StutterInv ==
    ASSUME ChannelInv, UNCHANGED vars
    PROVE  ChannelInv'
  <1> USE DEF ChannelInv, vars, procVars, workerVars, readVars, sigVars, histVars
  <1>1. ChannelTypeOK'
    BY DEF ChannelTypeOK
  <1>2. Kept'
    BY DEF Kept
  <1>3. Holding' /\ OneByOne'
    BY HostOnly
  <1>4. Stream'
    <2>1. Taken' = Taken
      BY DEF Taken
    <2>2. InPlace => InPlace'
      BY <2>1, HostOnly DEF InPlace, Holds, Pos
    <2>3. AtEnd => AtEnd'
      BY DEF AtEnd
    <2> QED
      BY <2>2, <2>3 DEF Stream
  <1>5. Hello'
    BY DEF Hello, Holds, Active
  <1>6. Gone' /\ NothingLeftOpen' /\ Signals'
    BY DEF Gone, NothingLeftOpen, GoneInHandshake, Signals, SignalsKept, Spawned
  <1> QED
    BY <1>1, <1>2, <1>3, <1>4, <1>5, <1>6

-----------------------------------------------------------------------------
(* Theorems. *)

\* The channel keeps its invariant: every byte the worker has written is with the host,
\* in the pipe or lost with a read that gave up, through every step of the two threads
\* of a worker, of ReadFrame, of Shutdown and of the worker's end.
THEOREM ChannelInvariance == Spec => []ChannelInv
  <1>1. Init => ChannelInv
    BY InitInv
  <1>2. ChannelInv /\ [Next]_vars => ChannelInv'
    <2> SUFFICES ASSUME ChannelInv, [Next]_vars PROVE ChannelInv'
      OBVIOUS
    <2>1. CASE \E t \in Thread : DemoSend(t) \/ ColmapSend(t)
      BY <2>1, SendInv
    <2>2. CASE \E t \in Thread : WriteBytes(t)
      BY <2>2, WriteInv
    <2>3. CASE WriteDiagnostic
      BY <2>3, DiagnosticInv
    <2>4. CASE WorkerStops \/ WorkerCrashes
      BY <2>4, ExitInv
    <2>5. CASE StartRead
      BY <2>5, StartReadInv
    <2>6. CASE ReadData
      BY <2>6, ReadDataInv
    <2>7. CASE SliceExpires
      BY <2>7, SliceInv
    <2>8. CASE GiveUp
      BY <2>8, GiveUpInv
    <2>9. CASE ReadEof
      BY <2>9, ReadEofInv
    <2>10. CASE PrefixRead
      BY <2>10, PrefixReadInv
    <2>11. CASE \E n \in Frame \cup {0} : DeliverFrame(n)
      BY <2>11, DeliverInv
    <2>12. CASE Shutdown
      BY <2>12, ShutdownInv
    <2>13. CASE Release
      BY <2>13, ReleaseInv
    <2>14. CASE UNCHANGED vars
      BY <2>14, StutterInv
    <2> QED
      BY <2>1, <2>2, <2>3, <2>4, <2>5, <2>6, <2>7, <2>8, <2>9, <2>10, <2>11, <2>12, <2>13, <2>14
      DEF Next, ReadStep
  <1> QED
    BY <1>1, <1>2, PTL DEF Spec

\* For every size of prefix, body and pipe: as long as no read gave up inside a frame and
\* no frame was begun inside another (with the demo worker's lock none is), ReadFrame
\* returns the worker's frames in order, none twice, and to the last one before it reports
\* the end of the stream (protocol_framing.cpp, ReadWithDeadline).
THEOREM HostHearsAll == Spec => []StreamFaithful
  <1>1. ASSUME ChannelInv PROVE StreamFaithful
    <2>1. FramesFaithful
      BY <1>1 DEF ChannelInv, FramesFaithful, Stream
    <2>2. LastWordsHeard
      <3> SUFFICES ASSUME ended, ~dropped, ~torn, NEW f \in whole PROVE f \in Range(inbox)
        BY DEF LastWordsHeard
      <3>1. inbox \in Seq(Frame \cup {0}) /\ f \in 1..Len(inbox) /\ \A i \in DOMAIN inbox : inbox[i] = i
        BY <1>1 DEF ChannelInv, ChannelTypeOK, Stream, AtEnd
      <3>2. f \in DOMAIN inbox /\ inbox[f] = f
        BY <3>1
      <3> QED
        BY <3>2 DEF Range
    <2> QED
      BY <2>1, <2>2 DEF StreamFaithful
  <1> QED
    BY <1>1, ChannelInvariance, PTL

\* However the executor ends, the worker is reaped and nothing stays open, but for the
\* one case NothingLeftOpen names, and a write to a dead worker leaves the signals of the
\* thread as they were (ChildProcess, ScopedSigpipeBlock).
THEOREM NoLeak == Spec => []NothingLeaks
  <1>1. ASSUME ChannelInv PROVE NothingLeaks
    BY <1>1 DEF ChannelInv, Signals, NothingLeaks
  <1> QED
    BY <1>1, ChannelInvariance, PTL

-----------------------------------------------------------------------------
(* The artifact store and the task cache. *)

USE DEF storeVars, files, tables, callVars, gcVars, moveVars, storeEnv, cacheVars

\* The empty store satisfies the invariant.
LEMMA InitEstablishes == StoreInit => StoreInv
  <1> SUFFICES ASSUME StoreInit PROVE StoreInv
    OBVIOUS
  <1>1. TrashBounded
    BY FS_EmptySet DEF StoreInit, TrashBounded
  <1> QED
    BY <1>1, StoreBoundAssumption, StoreNoneAssumption
    DEF StoreInit, StoreInv, StoreTypeOK, PayloadBehindRow, ManifestBehindRow, MidCallInv,
        MidGcInv, IsReferenced

\* A row names an instance.
LEMMA RowNamesInstance == ASSUME StoreTypeOK, NEW h \in Hash, IsReferenced(h)
                          PROVE  index[h] \in ArtifactIndexRow /\ index[h].uuid \in Uuid
  <1>1. index[h] \in ArtifactIndexRow
    BY DEF StoreTypeOK, IsReferenced
  <1> QED
    BY <1>1 DEF ArtifactIndexRow

\* The part of the invariant that no deleted manifest can break.
StoreCore == StoreTypeOK /\ PayloadBehindRow /\ MidCallInv /\ MidGcInv /\ TrashBounded

\* Only a collection touches the .gc files, and only an ended process leaves one.
LEMMA TrashKept == ASSUME StoreTypeOK, MidGcInv, TrashBounded, [StoreNext]_storeVars
                   PROVE  TrashBounded'
  <1> USE StoreNoneAssumption
  <1>1. CASE GcRename
    <2>1. CASE UNCHANGED <<moving, trash, crashes>>
      BY <2>1 DEF TrashBounded
    <2>2. CASE moving = None /\ UNCHANGED crashes /\ \E h \in Hash : moving' = h /\ trash' = trash \cup {h}
      <3>1. PICK h \in Hash : moving' = h /\ trash' = trash \cup {h}
        BY <2>2
      <3>2. trash \ {moving} = trash
        BY <2>2 DEF StoreTypeOK
      <3>3. trash' \ {h} \subseteq trash
        BY <3>1
      <3>4. IsFiniteSet(trash') /\ Cardinality(trash' \ {h}) <= Cardinality(trash)
        BY <3>1, <3>3, FS_AddElement, FS_Subset DEF TrashBounded
      <3>5. Cardinality(trash) \in Nat /\ Cardinality(trash' \ {h}) \in Nat
        BY <3>3, FS_CardinalityType, FS_Subset DEF TrashBounded
      <3>6. Cardinality(trash) <= crashes /\ crashes \in Nat
        <4>1. crashes \in Nat
          BY StoreBoundAssumption DEF StoreTypeOK
        <4>2. Cardinality(trash \ {moving}) <= crashes
          BY DEF TrashBounded
        <4> QED
          BY <3>2, <4>1, <4>2, Zenon
      <3>7. Cardinality(trash' \ {h}) <= crashes
        BY <3>4, <3>5, <3>6
      <3> QED
        BY <2>2, <3>1, <3>4, <3>7 DEF TrashBounded
    <2> QED
      BY <1>1, <2>1, <2>2 DEF GcRename, MidGcInv, StoreTypeOK
  <1>2. CASE GcUnlink
    <2>1. moving' = None /\ trash' = trash \ {moving} /\ UNCHANGED crashes
      BY <1>2 DEF GcUnlink
    <2>2. trash' \ {None} = trash \ {moving}
      BY <2>1 DEF StoreTypeOK
    <2>3. IsFiniteSet(trash')
      BY <2>1, FS_Subset DEF TrashBounded
    <2> QED
      BY <2>1, <2>2, <2>3 DEF TrashBounded
  <1>3. CASE StoreCrash
    <2>1. trash' = trash /\ moving' = None /\ crashes' = crashes + 1
      BY <1>3 DEF StoreCrash
    <2>2. trash' \ {None} = trash
      BY <2>1 DEF StoreTypeOK
    <2>3. CASE moving \notin trash
      <3>1. trash \ {moving} = trash
        BY <2>3
      <3>2. Cardinality(trash) \in Nat
        BY FS_CardinalityType DEF TrashBounded
      <3> QED
        BY <2>1, <2>2, <3>1, <3>2, StoreBoundAssumption DEF TrashBounded, StoreTypeOK
    <2>4. CASE moving \in trash
      <3>1. Cardinality(trash \ {moving}) = Cardinality(trash) - 1
        BY <2>4, FS_RemoveElement DEF TrashBounded
      <3>2. Cardinality(trash) \in Nat
        BY FS_CardinalityType DEF TrashBounded
      <3>3. Cardinality(trash) <= crashes + 1
        BY <3>1, <3>2, StoreBoundAssumption DEF TrashBounded, StoreTypeOK
      <3> QED
        BY <2>1, <2>2, <3>3 DEF TrashBounded
    <2> QED
      BY <2>3, <2>4
  <1>4. CASE UNCHANGED <<moving, trash, crashes>>
    BY <1>4 DEF TrashBounded
  <1> QED
    BY <1>1, <1>2, <1>3, <1>4 DEF StoreNext, WriteStep, GcStep, PutCall, PutPayload, PutInstanceCall,
       WriteManifest, WriteRow, WriteEdge, Get, FlagDegraded, GcScan, GcCheck, GcManifests,
       GcRemoveManifest, Flip

\* Every call, every write of a call, every step of a collection, a rotten file
\* and the end of the process keep the invariant.
LEMMA CorePreserved == ASSUME GcDuringWrite = FALSE, StoreCore, [StoreNext]_storeVars
                       PROVE  StoreCore'
  <1> USE StoreBoundAssumption, StoreNoneAssumption, InputsAssumption DEF StoreCore, IsReferenced
  <1>0. TrashBounded'
    BY TrashKept
  <1>1. ASSUME NEW h \in Hash, PutCall(h) PROVE StoreCore'
    <2>1. StoreTypeOK'
      BY <1>1, RowNamesInstance DEF PutCall, Callable, StoreTypeOK, ArtifactIndexRow
    <2>2. PayloadBehindRow'
      BY <1>1 DEF PutCall, Callable, PayloadBehindRow, StoreTypeOK, MidCallInv, MidGcInv
    <2>3. MidCallInv'
      BY <1>1 DEF PutCall, Callable, MidCallInv, StoreTypeOK
    <2>4. MidGcInv'
      BY <1>1 DEF PutCall, Callable, MidGcInv, StoreTypeOK, MidCallInv
    <2> QED
      BY <1>0, <2>1, <2>2, <2>3, <2>4
  <1>2. CASE PutPayload
    <2>1. StoreTypeOK'
      BY <1>2 DEF PutPayload, StoreTypeOK
    <2>2. PayloadBehindRow'
      BY <1>2 DEF PutPayload, PayloadBehindRow, StoreTypeOK, MidCallInv, MidGcInv
    <2>3. MidCallInv'
      BY <1>2 DEF PutPayload, MidCallInv, StoreTypeOK
    <2>4. MidGcInv'
      BY <1>2 DEF PutPayload, MidGcInv, StoreTypeOK, MidCallInv
    <2> QED
      BY <1>0, <2>1, <2>2, <2>3, <2>4
  <1>3. ASSUME NEW h \in Hash, PutInstanceCall(h) PROVE StoreCore'
    <2>1. StoreTypeOK'
      BY <1>3 DEF PutInstanceCall, Callable, StoreTypeOK
    <2>2. PayloadBehindRow'
      BY <1>3 DEF PutInstanceCall, Callable, PayloadBehindRow, StoreTypeOK, MidCallInv, MidGcInv
    <2>3. MidCallInv'
      BY <1>3 DEF PutInstanceCall, Callable, MidCallInv, StoreTypeOK
    <2>4. MidGcInv'
      BY <1>3 DEF PutInstanceCall, Callable, MidGcInv, StoreTypeOK, MidCallInv
    <2> QED
      BY <1>0, <2>1, <2>2, <2>3, <2>4
  <1>4. CASE WriteManifest
    <2>1. StoreTypeOK'
      BY <1>4 DEF WriteManifest, StoreTypeOK, MidCallInv
    <2>2. PayloadBehindRow'
      BY <1>4 DEF WriteManifest, PayloadBehindRow, StoreTypeOK, MidCallInv, MidGcInv
    <2>3. MidCallInv'
      BY <1>4 DEF WriteManifest, MidCallInv, StoreTypeOK
    <2>4. MidGcInv'
      BY <1>4 DEF WriteManifest, MidGcInv, StoreTypeOK, MidCallInv
    <2> QED
      BY <1>0, <2>1, <2>2, <2>3, <2>4
  <1>5. CASE WriteRow
    <2>1. StoreTypeOK'
      BY <1>5 DEF WriteRow, StoreTypeOK, MidCallInv, ArtifactIndexRow
    <2>2. PayloadBehindRow'
      BY <1>5 DEF WriteRow, PayloadBehindRow, StoreTypeOK, MidCallInv, MidGcInv
    <2>3. MidCallInv'
      BY <1>5 DEF WriteRow, MidCallInv, StoreTypeOK
    <2>4. MidGcInv'
      BY <1>5 DEF WriteRow, MidGcInv, StoreTypeOK, MidCallInv
    <2> QED
      BY <1>0, <2>1, <2>2, <2>3, <2>4
  <1>6. CASE WriteEdge
    <2>1. StoreTypeOK'
      BY <1>6 DEF WriteEdge, StoreTypeOK, MidCallInv
    <2>2. PayloadBehindRow'
      BY <1>6 DEF WriteEdge, PayloadBehindRow, StoreTypeOK, MidCallInv, MidGcInv
    <2>3. MidCallInv'
      BY <1>6 DEF WriteEdge, MidCallInv, StoreTypeOK
    <2>4. MidGcInv'
      BY <1>6 DEF WriteEdge, MidGcInv, StoreTypeOK, MidCallInv
    <2> QED
      BY <1>0, <2>1, <2>2, <2>3, <2>4
  <1>7. ASSUME NEW h \in Hash, Get(h) PROVE StoreCore'
    <2>1. StoreTypeOK'
      BY <1>7 DEF Get, Callable, StoreTypeOK
    <2>2. PayloadBehindRow'
      BY <1>7 DEF Get, Callable, PayloadBehindRow, StoreTypeOK, MidCallInv, MidGcInv
    <2>3. MidCallInv'
      BY <1>7 DEF Get, Callable, MidCallInv, StoreTypeOK
    <2>4. MidGcInv'
      BY <1>7 DEF Get, Callable, MidGcInv, StoreTypeOK, MidCallInv
    <2> QED
      BY <1>0, <2>1, <2>2, <2>3, <2>4
  <1>8. CASE FlagDegraded
    <2>1. StoreTypeOK'
      BY <1>8, RowNamesInstance DEF FlagDegraded, StoreTypeOK, ArtifactIndexRow
    <2>2. PayloadBehindRow'
      BY <1>8 DEF FlagDegraded, PayloadBehindRow, StoreTypeOK, MidCallInv, MidGcInv
    <2>3. MidCallInv'
      BY <1>8 DEF FlagDegraded, MidCallInv, StoreTypeOK
    <2>4. MidGcInv'
      BY <1>8 DEF FlagDegraded, MidGcInv, StoreTypeOK, MidCallInv
    <2> QED
      BY <1>0, <2>1, <2>2, <2>3, <2>4
  <1>9. CASE GcScan
    <2>1. StoreTypeOK'
      BY <1>9 DEF GcScan, StoreTypeOK
    <2>2. PayloadBehindRow'
      BY <1>9 DEF GcScan, PayloadBehindRow, StoreTypeOK, MidCallInv, MidGcInv
    <2>3. MidCallInv'
      BY <1>9 DEF GcScan, MidCallInv, StoreTypeOK
    <2>4. MidGcInv'
      BY <1>9 DEF GcScan, MidGcInv, StoreTypeOK, MidCallInv
    <2> QED
      BY <1>0, <2>1, <2>2, <2>3, <2>4
  <1>10. CASE GcCheck
    <2>1. StoreTypeOK'
      BY <1>10 DEF GcCheck, StoreTypeOK
    <2>2. PayloadBehindRow'
      BY <1>10 DEF GcCheck, PayloadBehindRow, StoreTypeOK, MidCallInv, MidGcInv
    <2>3. MidCallInv'
      BY <1>10 DEF GcCheck, MidCallInv, StoreTypeOK
    <2>4. MidGcInv'
      BY <1>10 DEF GcCheck, MidGcInv, StoreTypeOK, MidCallInv
    <2> QED
      BY <1>0, <2>1, <2>2, <2>3, <2>4
  <1>11. CASE GcManifests
    <2>1. StoreTypeOK'
      BY <1>11 DEF GcManifests, StoreTypeOK
    <2>2. PayloadBehindRow'
      BY <1>11 DEF GcManifests, PayloadBehindRow, StoreTypeOK, MidCallInv, MidGcInv
    <2>3. MidCallInv'
      BY <1>11 DEF GcManifests, MidCallInv, StoreTypeOK
    <2>4. MidGcInv'
      BY <1>11 DEF GcManifests, MidGcInv, StoreTypeOK, MidCallInv
    <2> QED
      BY <1>0, <2>1, <2>2, <2>3, <2>4
  <1>12. CASE GcRename
    <2>1. StoreTypeOK'
      BY <1>12 DEF GcRename, StoreTypeOK, MidCallInv
    <2>2. PayloadBehindRow'
      BY <1>12 DEF GcRename, PayloadBehindRow, StoreTypeOK, MidCallInv, MidGcInv
    <2>3. MidCallInv'
      BY <1>12 DEF GcRename, MidCallInv, StoreTypeOK
    <2>4. MidGcInv'
      BY <1>12 DEF GcRename, MidGcInv, StoreTypeOK, MidCallInv
    <2> QED
      BY <1>0, <2>1, <2>2, <2>3, <2>4
  <1>17. CASE GcUnlink
    <2>1. StoreTypeOK'
      BY <1>17 DEF GcUnlink, StoreTypeOK, MidCallInv
    <2>2. PayloadBehindRow'
      BY <1>17 DEF GcUnlink, PayloadBehindRow, StoreTypeOK, MidCallInv, MidGcInv
    <2>3. MidCallInv'
      BY <1>17 DEF GcUnlink, MidCallInv, StoreTypeOK
    <2>4. MidGcInv'
      BY <1>17 DEF GcUnlink, MidGcInv, StoreTypeOK, MidCallInv
    <2> QED
      BY <1>0, <2>1, <2>2, <2>3, <2>4
  <1>13. CASE GcRemoveManifest
    <2>1. StoreTypeOK'
      BY <1>13 DEF GcRemoveManifest, StoreTypeOK
    <2>2. PayloadBehindRow'
      BY <1>13 DEF GcRemoveManifest, PayloadBehindRow, StoreTypeOK, MidCallInv, MidGcInv
    <2>3. MidCallInv'
      BY <1>13 DEF GcRemoveManifest, MidCallInv, StoreTypeOK
    <2>4. MidGcInv'
      BY <1>13 DEF GcRemoveManifest, MidGcInv, StoreTypeOK, MidCallInv
    <2> QED
      BY <1>0, <2>1, <2>2, <2>3, <2>4
  <1>14. ASSUME NEW h \in Hash, Flip(h) PROVE StoreCore'
    <2>1. StoreTypeOK'
      BY <1>14 DEF Flip, StoreTypeOK
    <2>2. PayloadBehindRow'
      BY <1>14 DEF Flip, PayloadBehindRow, StoreTypeOK, MidCallInv, MidGcInv
    <2>3. MidCallInv'
      BY <1>14 DEF Flip, MidCallInv, StoreTypeOK
    <2>4. MidGcInv'
      BY <1>14 DEF Flip, MidGcInv, StoreTypeOK, MidCallInv
    <2> QED
      BY <1>0, <2>1, <2>2, <2>3, <2>4
  <1>15. CASE StoreCrash
    <2>1. StoreTypeOK'
      BY <1>15 DEF StoreCrash, StoreTypeOK
    <2>2. PayloadBehindRow'
      BY <1>15 DEF StoreCrash, PayloadBehindRow, StoreTypeOK, MidCallInv, MidGcInv
    <2>3. MidCallInv'
      BY <1>15 DEF StoreCrash, MidCallInv, StoreTypeOK
    <2>4. MidGcInv'
      BY <1>15 DEF StoreCrash, MidGcInv, StoreTypeOK, MidCallInv
    <2> QED
      BY <1>0, <2>1, <2>2, <2>3, <2>4
  <1>16. CASE UNCHANGED storeVars
    BY <1>0, <1>16 DEF StoreTypeOK, PayloadBehindRow, MidCallInv, MidGcInv
  <1> QED
    BY <1>1, <1>2, <1>3, <1>4, <1>5, <1>6, <1>7, <1>8, <1>9, <1>10, <1>11, <1>12,
       <1>13, <1>14, <1>15, <1>16, <1>17 DEF StoreNext, WriteStep, GcStep

\* The steps that write a row or a manifest, or remove a manifest.
LEMMA OnlyTheseTouchRows ==
    ASSUME [StoreNext]_storeVars
    PROVE  \/ WriteManifest \/ WriteRow \/ FlagDegraded \/ GcRemoveManifest
           \/ UNCHANGED <<manifests, index>>
  BY DEF StoreNext, WriteStep, GcStep, PutCall, PutPayload, PutInstanceCall, WriteEdge, Get, GcScan,
     GcCheck, GcManifests, GcRename, GcUnlink, Flip, StoreCrash

\* No row ever goes away.
LEMMA RowsStay == ASSUME StoreCore, [StoreNext]_storeVars, NEW h \in Hash, IsReferenced(h)
                  PROVE  IsReferenced(h)'
  <1> USE StoreNoneAssumption DEF IsReferenced
  <1>1. CASE WriteRow
    <2>1. [uuid |-> id, status |-> "valid"] \in ArtifactIndexRow
      BY <1>1 DEF WriteRow, StoreCore, MidCallInv, ArtifactIndexRow
    <2> QED
      BY <1>1, <2>1 DEF WriteRow, StoreCore, StoreTypeOK
  <1>2. CASE FlagDegraded
    <2>1. [index[h] EXCEPT !.status = "degraded"] \in ArtifactIndexRow
      BY RowNamesInstance DEF StoreCore, ArtifactIndexRow
    <2> QED
      BY <1>2, <2>1 DEF FlagDegraded, StoreCore, StoreTypeOK
  <1>3. CASE WriteManifest \/ GcRemoveManifest \/ UNCHANGED <<manifests, index>>
    BY <1>3 DEF WriteManifest, GcRemoveManifest
  <1> QED
    BY <1>1, <1>2, <1>3, OnlyTheseTouchRows

\* A row leads to the manifest of its instance after every step.
LEMMA ManifestsKept == ASSUME StoreInv, [StoreNext]_storeVars
                       PROVE  ManifestBehindRow'
  <1> USE StoreNoneAssumption DEF StoreInv, IsReferenced
  <1>1. CASE WriteManifest
    BY <1>1, RowNamesInstance DEF WriteManifest, ManifestBehindRow, StoreTypeOK
  <1>2. CASE WriteRow
    BY <1>2, RowNamesInstance DEF WriteRow, ManifestBehindRow, StoreTypeOK, MidCallInv, ArtifactIndexRow
  <1>3. CASE FlagDegraded
    BY <1>3, RowNamesInstance DEF FlagDegraded, ManifestBehindRow, StoreTypeOK, ArtifactIndexRow
  <1>4. CASE GcRemoveManifest
    BY <1>4, RowNamesInstance DEF GcRemoveManifest, ManifestBehindRow, StoreTypeOK, MidGcInv
  <1>5. CASE UNCHANGED <<manifests, index>>
    BY <1>5 DEF ManifestBehindRow
  <1> QED
    BY <1>1, <1>2, <1>3, <1>4, <1>5, OnlyTheseTouchRows

\* The invariant holds of every behaviour in which GarbageCollect is kept apart
\* from Put, PutInstance and Get, wherever the process ended before.
THEOREM StoreInvariance == ASSUME GcDuringWrite = FALSE
                           PROVE  StoreSpec => []StoreInv
  <1>1. StoreInv /\ [StoreNext]_storeVars => StoreInv'
    BY CorePreserved, ManifestsKept DEF StoreInv, StoreCore
  <1> QED
    BY <1>1, InitEstablishes, PTL DEF StoreSpec

\* Only Put, the quarantine, a collection and a rotten file touch a payload, and of
\* these the quarantine alone takes one that has a row.
LEMMA ReferencedStay ==
    ASSUME StoreCore, [StoreNext]_storeVars, NEW h \in Hash, IsReferenced(h),
           cas[h] # "absent", cas'[h] = "absent"
    PROVE  h \in corrupt' \ corrupt
  <1> cas \in [Hash -> {"absent", "good", "bad"}] /\ h \notin doomed
    BY DEF StoreCore, StoreTypeOK, MidGcInv
  <1>1. CASE PutPayload
    BY <1>1 DEF PutPayload, StoreCore, StoreTypeOK, MidCallInv
  <1>2. CASE GcRename
    BY <1>2 DEF GcRename
  <1>3. ASSUME NEW g \in Hash, Get(g) PROVE h \in corrupt' \ corrupt
    BY <1>3 DEF Get
  <1>4. ASSUME NEW g \in Hash, Flip(g) PROVE FALSE
    BY <1>4 DEF Flip
  <1>5. cas' # cas
    OBVIOUS
  <1>6. PutPayload \/ GcRename \/ \E g \in Hash : Get(g) \/ Flip(g)
    BY <1>5 DEF StoreNext, WriteStep, GcStep, PutCall, PutInstanceCall, WriteManifest,
       WriteRow, WriteEdge, FlagDegraded, GcScan, GcCheck, GcManifests, GcUnlink, GcRemoveManifest,
       StoreCrash
  <1> QED
    BY <1>1, <1>2, <1>3, <1>4, <1>6

\* A payload that has a row is never deleted: no step takes it away but the
\* quarantine of Get.
THEOREM ReferencedPayloadsStay == ASSUME GcDuringWrite = FALSE
                                  PROVE  StoreSpec => GcKeepsReferenced
  <1> DEFINE Keeps == \A h \in Hash : IsReferenced(h) /\ cas[h] # "absent" /\ cas'[h] = "absent"
                         => h \in corrupt' \ corrupt
  <1>1. ASSUME StoreInv, [StoreNext]_storeVars PROVE [Keeps]_storeVars
    BY <1>1, ReferencedStay DEF StoreInv, StoreCore
  <1> QED
    BY <1>1, StoreInvariance, PTL DEF StoreSpec, GcKeepsReferenced

\* A collection that comes to its end has emptied both its lists.
LEMMA CollectionEndsClean ==
    ASSUME StoreCore, [StoreNext]_storeVars, gc = "dangling", gc' = "idle", crashes' = crashes
    PROVE  /\ \A h \in Hash : cas[h] # "absent" => IsReferenced(h)
           /\ \A u \in Uuid : manifests[u] # None => IsReferenced(manifests[u])
           /\ Cardinality(trash) <= crashes
  <1>0. trash \ {moving} = trash
    BY StoreNoneAssumption DEF StoreCore, StoreTypeOK, MidGcInv
  <1>1. dangling = {}
    BY StoreBoundAssumption DEF StoreCore, StoreTypeOK, StoreNext, WriteStep, GcStep, PutCall,
       PutPayload, PutInstanceCall, WriteManifest, WriteRow, WriteEdge, Get, FlagDegraded,
       GcScan, GcCheck, GcManifests, GcRename, GcUnlink, GcRemoveManifest, Flip, StoreCrash
  <1> QED
    BY <1>0, <1>1 DEF StoreCore, MidGcInv, TrashBounded

\* A collection that comes to its end has removed everything that ended
\* processes left without a row, but for at most one .gc file of each of them.
THEOREM CollectionComplete == ASSUME GcDuringWrite = FALSE
                              PROVE  StoreSpec => GcLeavesNoGarbage
  <1> DEFINE Clean == gc = "dangling" /\ gc' = "idle" /\ crashes' = crashes =>
                         /\ \A h \in Hash : cas[h] # "absent" => IsReferenced(h)
                         /\ \A u \in Uuid : manifests[u] # None => IsReferenced(manifests[u])
                         /\ Cardinality(trash) <= crashes
  <1>1. ASSUME StoreInv, [StoreNext]_storeVars PROVE [Clean]_storeVars
    BY <1>1, CollectionEndsClean DEF StoreInv, StoreCore
  <1> QED
    BY <1>1, StoreInvariance, PTL DEF StoreSpec, GcLeavesNoGarbage

-----------------------------------------------------------------------------
(* What the index tells until the process first ends. *)

\* A quarantined content is flagged, or Get is about to flag this very content.
Flagged ==
    crashes = 0 =>
        \A h \in corrupt : cas[h] = "absent" /\ IsReferenced(h)
                           => index[h].status = "degraded" \/ (at = "flag" /\ arg = h)

HistoryInv == StoreCore /\ Flagged /\ EdgesRecorded

\* Of the steps of the store the quarantine, the two writes of a row and those
\* that move the call on touch what Flagged and EdgesRecorded are about.
LEMMA HistoryPreserved ==
    ASSUME GcDuringWrite = FALSE, StoreCore, Flagged, EdgesRecorded, [StoreNext]_storeVars
    PROVE  Flagged' /\ EdgesRecorded'
  <1> USE StoreNoneAssumption, InputsAssumption, StoreBoundAssumption DEF StoreCore, StoreTypeOK, IsReferenced
  <1>1. CASE WriteRow
    <2> DEFINE row == [uuid |-> id, status |-> "valid"]
    <2>1. arg \in Hash /\ cas[arg] # "absent" /\ id \in Uuid /\ row \in ArtifactIndexRow
      BY <1>1 DEF WriteRow, MidCallInv, ArtifactIndexRow
    <2> HIDE DEF row
    <2>2. /\ index' = [index EXCEPT ![arg] = row] /\ todo' = Inputs[arg] /\ arg' = arg
          /\ at' = IF Inputs[arg] = {} THEN "idle" ELSE "edges"
          /\ at = "row" /\ UNCHANGED <<cas, corrupt, edges, crashes>>
      BY <1>1 DEF WriteRow, row
    <2>3. Flagged'
      BY <2>1, <2>2 DEF Flagged
    <2>4. EdgesRecorded'
      BY <2>1, <2>2 DEF EdgesRecorded
    <2> QED
      BY <2>3, <2>4
  <1>2. CASE WriteEdge
    <2>1. Flagged'
      BY <1>2 DEF WriteEdge, Flagged
    <2>2. EdgesRecorded'
      BY <1>2 DEF WriteEdge, EdgesRecorded
    <2> QED
      BY <2>1, <2>2
  <1>3. CASE FlagDegraded
    <2> DEFINE row == [index[arg] EXCEPT !.status = "degraded"]
    <2>1. arg \in Hash /\ at = "flag" /\ at' = "idle" /\ UNCHANGED <<cas, corrupt, edges, crashes, arg, todo>>
      BY <1>3 DEF FlagDegraded, MidCallInv
    <2>2. CASE index[arg] = None
      <3>1. UNCHANGED index
        BY <1>3, <2>2 DEF FlagDegraded
      <3> QED
        BY <2>1, <2>2, <3>1 DEF Flagged, EdgesRecorded
    <2>3. CASE index[arg] # None
      <3>1. index[arg] \in ArtifactIndexRow
        BY <2>1, <2>3
      <3>2. row \in ArtifactIndexRow /\ row.status = "degraded"
        BY <3>1 DEF ArtifactIndexRow
      <3>3. index' = [index EXCEPT ![arg] = row]
        BY <1>3, <2>3 DEF FlagDegraded
      <3> HIDE DEF row
      <3>4. Flagged'
        BY <2>1, <3>2, <3>3 DEF Flagged
      <3>5. EdgesRecorded'
        BY <2>1, <2>3, <3>2, <3>3 DEF EdgesRecorded
      <3> QED
        BY <3>4, <3>5
    <2> QED
      BY <2>2, <2>3
  <1>4. ASSUME NEW g \in Hash, Get(g) PROVE Flagged' /\ EdgesRecorded'
    <2>1. Flagged'
      BY <1>4 DEF Get, Callable, Flagged
    <2>2. EdgesRecorded'
      BY <1>4 DEF Get, Callable, EdgesRecorded
    <2> QED
      BY <2>1, <2>2
  <1>5. CASE PutPayload
    BY <1>5 DEF PutPayload, Flagged, EdgesRecorded
  <1>6. CASE GcRename \/ GcUnlink
    <2>1. Flagged'
      BY <1>6 DEF GcRename, GcUnlink, MidGcInv, Flagged
    <2>2. EdgesRecorded'
      BY <1>6 DEF GcRename, GcUnlink, EdgesRecorded
    <2> QED
      BY <2>1, <2>2
  <1>7. ASSUME NEW g \in Hash, Flip(g) PROVE Flagged' /\ EdgesRecorded'
    BY <1>7 DEF Flip, Flagged, EdgesRecorded
  <1>8. CASE StoreCrash
    BY <1>8 DEF StoreCrash, Flagged, EdgesRecorded
  <1>9. ASSUME NEW g \in Hash, PutCall(g) \/ PutInstanceCall(g) PROVE Flagged' /\ EdgesRecorded'
    BY <1>9 DEF PutCall, PutInstanceCall, Callable, Flagged, EdgesRecorded
  <1>10. CASE WriteManifest
    BY <1>10 DEF WriteManifest, Flagged, EdgesRecorded
  <1>11. CASE GcScan \/ GcCheck \/ GcManifests \/ GcRemoveManifest
    BY <1>11 DEF GcScan, GcCheck, GcManifests, GcRemoveManifest, Flagged, EdgesRecorded
  <1>12. CASE UNCHANGED storeVars
    BY <1>12 DEF Flagged, EdgesRecorded
  <1> QED
    BY <1>1, <1>2, <1>3, <1>4, <1>5, <1>6, <1>7, <1>8, <1>9, <1>10, <1>11, <1>12
    DEF StoreNext, WriteStep, GcStep

\* Until the process first ends, a quarantined content is flagged in its row and
\* every recorded content has its edges, whatever the calls and their order.
THEOREM IndexHonest == ASSUME GcDuringWrite = FALSE
                       PROVE  StoreSpec => []IndexTellsHistory
  <1>1. StoreInit => HistoryInv
    BY InitEstablishes DEF StoreInit, StoreInv, StoreCore, HistoryInv, Flagged, EdgesRecorded, IsReferenced
  <1>2. HistoryInv /\ [StoreNext]_storeVars => HistoryInv'
    BY CorePreserved, HistoryPreserved DEF HistoryInv
  <1>3. HistoryInv => IndexTellsHistory
    BY DEF HistoryInv, Flagged, IndexTellsHistory, DegradedOnceQuarantined
  <1> QED
    BY <1>1, <1>2, <1>3, PTL DEF StoreSpec

-----------------------------------------------------------------------------
(* The cache over the store.  A deleted instance breaks ManifestBehindRow,   *)
(* so StoreInv is not an invariant of CacheSpec.  StoreCore is, and the rest *)
(* is said of the instances that are still there.                            *)

\* An instance deleted by hand has no manifest.
LostAreGone == \A u \in lost : manifests[u] = None

\* A row leads to the manifest of its instance, unless it was deleted.
RowsLead == \A h \in Hash : IsReferenced(h) /\ index[h].uuid \notin lost => manifests[index[h].uuid] = h

\* An entry names an instance, current or not, of the output of its key; the
\* output has a row, which is what keeps a collection from the manifest.
EntriesLead ==
    \A k \in Key : entries[k] # None =>
        /\ IsReferenced(OutputOf[k])
        /\ entries[k] \notin lost => manifests[entries[k]] = OutputOf[k]

CacheInv == StoreCore /\ CacheTypeOK /\ LostAreGone /\ RowsLead /\ EntriesLead

\* The empty cache over the empty store.
LEMMA CacheInitEstablishes == CacheInit => CacheInv
  <1> SUFFICES ASSUME CacheInit PROVE CacheInv
    OBVIOUS
  <1>1. StoreCore
    BY InitEstablishes DEF CacheInit, StoreInv, StoreCore
  <1>2. CacheTypeOK
    BY FS_EmptySet, CacheAssumption DEF CacheInit, CacheTypeOK
  <1> QED
    BY <1>1, <1>2, StoreNoneAssumption, CacheAssumption
    DEF CacheInit, StoreInit, CacheInv, LostAreGone, RowsLead, EntriesLead, IsReferenced

\* A step of the store: what it writes never carries the name of a lost instance,
\* and a collection removes no manifest an entry or a row leads to.
LEMMA StoreStepPreserves == ASSUME GcDuringWrite = FALSE, CacheInv, StoreStep
                            PROVE  CacheInv'
  <1> USE StoreNoneAssumption, CacheAssumption
  <1>1. StoreCore /\ StoreTypeOK /\ [StoreNext]_storeVars /\ UNCHANGED <<entries, lost>>
    BY DEF CacheInv, StoreCore, StoreStep
  <1>2. StoreCore' /\ CacheTypeOK' /\ LostAreGone'
    BY <1>1, CorePreserved DEF CacheInv, StoreStep, CacheTypeOK, LostAreGone
  <1>3. \A h \in Hash : IsReferenced(h) => IsReferenced(h)'
    BY <1>1, RowsStay
  <1>4. CASE WriteManifest
    <2>1. PICK u \in Uuid : /\ manifests[u] = None
                            /\ \A h \in Hash : IsReferenced(h) => index[h].uuid # u
                            /\ manifests' = [manifests EXCEPT ![u] = arg]
      BY <1>4 DEF WriteManifest
    <2>2. index' = index
      BY <1>4 DEF WriteManifest
    <2>3. RowsLead'
      BY <1>1, <2>1, <2>2, RowNamesInstance DEF CacheInv, RowsLead, StoreTypeOK, IsReferenced
    <2>4. EntriesLead'
      BY <1>1, <1>3, <2>1, <2>2 DEF CacheInv, EntriesLead, StoreTypeOK, CacheTypeOK
    <2> QED
      BY <1>2, <2>3, <2>4 DEF CacheInv
  <1>5. CASE WriteRow
    <2> DEFINE row == [uuid |-> id, status |-> "valid"]
    <2>1. arg \in Hash /\ id \in Uuid /\ manifests[id] = arg /\ row \in ArtifactIndexRow /\ row.uuid = id
      BY <1>1, <1>5 DEF WriteRow, StoreCore, MidCallInv, ArtifactIndexRow
    <2>2. index' = [index EXCEPT ![arg] = row] /\ manifests' = manifests
      BY <1>5 DEF WriteRow
    <2> HIDE DEF row
    <2>3. RowsLead'
      BY <1>1, <2>1, <2>2 DEF CacheInv, RowsLead, StoreTypeOK, IsReferenced
    <2>4. EntriesLead'
      BY <1>1, <1>3, <2>2 DEF CacheInv, EntriesLead
    <2> QED
      BY <1>2, <2>3, <2>4 DEF CacheInv
  <1>6. CASE FlagDegraded
    <2>1. manifests' = manifests /\ arg \in Hash
      BY <1>1, <1>6 DEF FlagDegraded, StoreCore, MidCallInv
    <2>2. \A h \in Hash : index'[h] # None => index[h] # None /\ index'[h].uuid = index[h].uuid
      BY <1>1, <1>6, <2>1 DEF FlagDegraded, IsReferenced, StoreTypeOK, ArtifactIndexRow
    <2>3. RowsLead'
      BY <1>1, <2>1, <2>2 DEF CacheInv, RowsLead, IsReferenced
    <2>4. EntriesLead'
      BY <1>1, <1>3, <2>1 DEF CacheInv, EntriesLead
    <2> QED
      BY <1>2, <2>3, <2>4 DEF CacheInv
  <1>7. CASE GcRemoveManifest
    <2>1. index' = index
      BY <1>7 DEF GcRemoveManifest
    <2>2. \A u \in Uuid : manifests'[u] # manifests[u] => ~IsReferenced(manifests[u])
      BY <1>1, <1>7 DEF GcRemoveManifest, StoreCore, MidGcInv, StoreTypeOK
    <2>3. RowsLead'
      BY <1>1, <2>1, <2>2, RowNamesInstance DEF CacheInv, RowsLead, IsReferenced
    <2>4. EntriesLead'
      BY <1>1, <1>3, <2>2 DEF CacheInv, EntriesLead, CacheTypeOK
    <2> QED
      BY <1>2, <2>3, <2>4 DEF CacheInv
  <1>8. CASE UNCHANGED <<manifests, index>>
    BY <1>1, <1>2, <1>8 DEF CacheInv, RowsLead, EntriesLead, IsReferenced
  <1> QED
    BY <1>1, <1>4, <1>5, <1>6, <1>7, <1>8, OnlyTheseTouchRows

\* A store, a lookup that finds its manifest gone, and an instance deleted by hand.
LEMMA CacheStepPreserves == ASSUME GcDuringWrite = FALSE, CacheInv, [CacheNext]_<<storeVars, cacheVars>>
                            PROVE  CacheInv'
  <1> USE StoreNoneAssumption, CacheAssumption
  <1>1. ASSUME UNCHANGED storeVars PROVE StoreCore'
    BY <1>1, CorePreserved DEF CacheInv
  <1>2. ASSUME NEW k \in Key, StoreOutput(k) PROVE CacheInv'
    <2>1. index[OutputOf[k]].uuid \in Uuid /\ IsReferenced(OutputOf[k]) /\ OutputOf[k] \in Hash
      BY <1>2, RowNamesInstance DEF StoreOutput, CacheInv, StoreCore
    <2>2. UNCHANGED <<storeVars, lost>> /\ entries' = [entries EXCEPT ![k] = index[OutputOf[k]].uuid]
      BY <1>2 DEF StoreOutput
    <2>3. CacheTypeOK'
      BY <2>1, <2>2 DEF CacheInv, CacheTypeOK
    <2>4. LostAreGone' /\ RowsLead'
      BY <2>2 DEF CacheInv, LostAreGone, RowsLead, IsReferenced
    <2>5. EntriesLead'
      BY <2>1, <2>2 DEF CacheInv, CacheTypeOK, EntriesLead, RowsLead, IsReferenced
    <2> QED
      BY <1>1, <2>2, <2>3, <2>4, <2>5 DEF CacheInv
  <1>3. ASSUME NEW k \in Key, LookupStale(k) PROVE CacheInv'
    <2>1. UNCHANGED <<storeVars, lost>> /\ entries' = [entries EXCEPT ![k] = None]
      BY <1>3 DEF LookupStale
    <2>2. CacheTypeOK' /\ LostAreGone' /\ RowsLead' /\ EntriesLead'
      BY <2>1 DEF CacheInv, CacheTypeOK, LostAreGone, RowsLead, EntriesLead, IsReferenced
    <2> QED
      BY <1>1, <2>1, <2>2 DEF CacheInv
  <1>4. ASSUME NEW u \in Uuid, LoseManifest(u) PROVE CacheInv'
    <2>1. /\ at = "idle" /\ gc = "idle" /\ lost' = lost \cup {u}
          /\ manifests' = [manifests EXCEPT ![u] = None]
          /\ UNCHANGED <<cas, corrupt, tables, callVars, gcVars, storeEnv, entries>>
      BY <1>4 DEF LoseManifest
    <2>2. StoreTypeOK' /\ PayloadBehindRow'
      BY <2>1 DEF CacheInv, StoreCore, StoreTypeOK, PayloadBehindRow, IsReferenced
    <2>3. MidCallInv' /\ MidGcInv'
      BY <2>1 DEF CacheInv, StoreCore, MidCallInv, MidGcInv, TrashBounded, IsReferenced
    <2>4. CacheTypeOK'
      BY <1>4, <2>1 DEF LoseManifest, CacheInv, CacheTypeOK
    <2>5. LostAreGone' /\ RowsLead' /\ EntriesLead'
      BY <2>1, RowNamesInstance
      DEF CacheInv, StoreCore, StoreTypeOK, CacheTypeOK, LostAreGone, RowsLead, EntriesLead, IsReferenced
    <2> QED
      BY <2>1, <2>2, <2>3, <2>4, <2>5 DEF CacheInv, StoreCore, TrashBounded
  <1>5. CASE UNCHANGED <<storeVars, cacheVars>>
    BY <1>1, <1>5 DEF CacheInv, CacheTypeOK, LostAreGone, RowsLead, EntriesLead, IsReferenced
  <1> QED
    BY <1>2, <1>3, <1>4, <1>5, StoreStepPreserves DEF CacheNext

\* CacheInv is an invariant of the cache over the store.
LEMMA CacheInvariance == ASSUME GcDuringWrite = FALSE
                         PROVE  CacheSpec => []CacheInv
  <1>1. CacheInv /\ [CacheNext]_<<storeVars, cacheVars>> => CacheInv'
    BY CacheStepPreserves
  <1> QED
    BY <1>1, CacheInitEstablishes, PTL DEF CacheSpec

\* What a cache operation and a deletion by hand leave alone in the store.
LEMMA OthersLeaveStore ==
    ASSUME [CacheNext]_<<storeVars, cacheVars>>
    PROVE  StoreStep \/ UNCHANGED <<cas, corrupt, tables, callVars, gcVars, storeEnv>>
  BY DEF CacheNext, StoreOutput, LookupStale, LoseManifest

\* A hit is the output of its key and is backed by a payload or by the quarantine,
\* after any sequence of writes, collections, ends of the process and deleted
\* instances.
THEOREM HitsBacked == ASSUME GcDuringWrite = FALSE
                      PROVE  CacheSpec => []CacheHitBacked
  <1>1. ASSUME CacheInv PROVE CacheHitBacked
    <2>1. \A k \in Key : entries[k] # None =>
             IsReferenced(OutputOf[k]) /\ HitOf(k) = IF entries[k] \in lost THEN None ELSE OutputOf[k]
      BY <1>1 DEF CacheInv, EntriesLead, LostAreGone, HitOf
    <2>2. \A k \in Key : HitOf(k) # None => HitOf(k) = OutputOf[k] /\ IsReferenced(OutputOf[k])
      BY <2>1 DEF HitOf
    <2> QED
      BY <1>1, <2>1, <2>2, CacheAssumption
      DEF CacheInv, CacheHitBacked, StoreCore, PayloadBehindRow
  <1> QED
    BY <1>1, CacheInvariance, PTL

\* With the cache above it and instances deleted by hand under it, the store still
\* takes away no payload that has a row, but for the quarantine of Get.
THEOREM CacheKeepsReferenced == ASSUME GcDuringWrite = FALSE
                                PROVE  CacheSpec => GcKeepsReferenced
  <1> DEFINE Keeps == \A h \in Hash : IsReferenced(h) /\ cas[h] # "absent" /\ cas'[h] = "absent"
                         => h \in corrupt' \ corrupt
  <1>1. ASSUME CacheInv, [CacheNext]_<<storeVars, cacheVars>> PROVE [Keeps]_storeVars
    <2>1. CASE StoreStep
      BY <2>1, <1>1, ReferencedStay DEF CacheInv, StoreStep
    <2>2. CASE UNCHANGED cas
      BY <2>2
    <2> QED
      BY <1>1, <2>1, <2>2, OthersLeaveStore
  <1> QED
    BY <1>1, CacheInvariance, PTL DEF CacheSpec, GcKeepsReferenced

\* A deleted instance hides nothing from a collection: at its end no payload and no
\* manifest is without a row.
THEOREM CacheCollectionComplete == ASSUME GcDuringWrite = FALSE
                                   PROVE  CacheSpec => GcLeavesNoGarbage
  <1> DEFINE Clean == gc = "dangling" /\ gc' = "idle" /\ crashes' = crashes =>
                         /\ \A h \in Hash : cas[h] # "absent" => IsReferenced(h)
                         /\ \A u \in Uuid : manifests[u] # None => IsReferenced(manifests[u])
                         /\ Cardinality(trash) <= crashes
  <1>1. ASSUME CacheInv, [CacheNext]_<<storeVars, cacheVars>> PROVE [Clean]_storeVars
    <2>1. CASE StoreStep
      BY <2>1, <1>1, CollectionEndsClean DEF CacheInv, StoreStep
    <2>2. CASE UNCHANGED gc
      BY <2>2
    <2> QED
      BY <1>1, <2>1, <2>2, OthersLeaveStore
  <1> QED
    BY <1>1, CacheInvariance, PTL DEF CacheSpec, GcLeavesNoGarbage

\* The index tells its history as well: a deleted instance leaves its row, its flag
\* and its edges.
THEOREM CacheIndexHonest == ASSUME GcDuringWrite = FALSE
                            PROVE  CacheSpec => []IndexTellsHistory
  <1> DEFINE I == CacheInv /\ Flagged /\ EdgesRecorded
  <1>1. CacheInit => I
    BY CacheInitEstablishes DEF CacheInit, StoreInit, Flagged, EdgesRecorded, IsReferenced
  <1>2. ASSUME I, [CacheNext]_<<storeVars, cacheVars>> PROVE I'
    <2>1. CacheInv'
      BY <1>2, CacheStepPreserves
    <2>2. CASE StoreStep
      BY <1>2, <2>1, <2>2, HistoryPreserved DEF CacheInv, StoreStep
    <2>3. CASE UNCHANGED <<cas, corrupt, tables, callVars, gcVars, storeEnv>>
      BY <1>2, <2>1, <2>3 DEF Flagged, EdgesRecorded, IsReferenced
    <2> QED
      BY <1>2, <2>2, <2>3, OthersLeaveStore
  <1>3. I => IndexTellsHistory
    BY DEF Flagged, IndexTellsHistory, DegradedOnceQuarantined
  <1> QED
    BY <1>1, <1>2, <1>3, PTL DEF CacheSpec
=============================================================================
