------------------------ MODULE SnapProcessorRP2040 ------------------------
(***************************************************************************)
(* src/api/SnapProcessorRP2040.h: the first core calls doLoop() and writes *)
(* the encoded frames into a byte queue and their sizes into a second one; *)
(* the other core calls doLoop1(), which takes one frame after the other   *)
(* and decodes it.                                                         *)
(*                                                                         *)
(* The byte queue waits, byte by byte, in both directions; the size queue  *)
(* does not wait.  Nothing else keeps the cores apart: end() on the first  *)
(* may come between any two steps of the second.  As in SnapProcessorRTOS  *)
(* a byte is its position in the stream of the bytes that were queued, and *)
(* an early return of writeAudio() that leaves all this alone (not started,*)
(* not to be played, size queue full) is a stuttering step.                *)
(***************************************************************************)
EXTENDS Integers, Sequences

CONSTANTS
  BufferSize,      \* bytes of the queue, buffer_count * 1024
  ActivePercent,   \* fill level at which decoding starts, constructor argument
  QueueLen,        \* RTOS_MAX_QUEUE_ENTRY_COUNT
  FrameSizes,      \* the sizes of the encoded frames the server can send
  MaxBytes         \* bound of the model: bytes accepted in one behaviour

ASSUME BufferAssumption ==
  /\ {BufferSize, QueueLen} \subseteq Nat \ {0}
  /\ {ActivePercent, MaxBytes} \subseteq Nat
  /\ FrameSizes \subseteq Nat \ {0}

VARIABLES
  core0,           \* "down", "idle", "writing", "ending" or "stopped"
  left,            \* bytes that writeArray() still has to write
  size_queue,
  written, readPos,\* the byte queue holds the bytes readPos..written-1
  is_active,
  core1,           \* where doLoop1() is: in isBufferActive() ("check",
                   \* "activate", "return") or at "dequeue", "read", "write"
  size,            \* the local variable size of doLoop1()
  data,            \* its local array data: the interval read so far
  (* history *)
  pend,            \* the frames accepted and not yet decoded
  played,          \* what was handed to the decoder
  interrupted      \* end() has caught doLoop1() while it was reading

queues == <<size_queue, written, readPos>>
local1 == <<core1, size, data>>
vars   == <<core0, left, queues, is_active, local1, pend, played, interrupted>>

Interval == [start : 0..MaxBytes, size : 0..MaxBytes]

Available == written - readPos

limit == (BufferSize * ActivePercent) \div 100

Init ==
  /\ core0 = "down" /\ left = 0
  /\ size_queue = <<>> /\ written = 0 /\ readPos = 0
  /\ is_active = FALSE
  /\ core1 = "check" /\ size = 0 /\ data = [start |-> 0, size |-> 0]
  /\ pend = <<>> /\ played = <<>> /\ interrupted = FALSE

(***************************************************************************)
(* The first core.                                                         *)
(***************************************************************************)

(* The queues have their size and are empty, at the start and after end(). *)
Begin ==
  /\ core0 = "down"
  /\ core0' = "idle"
  /\ is_active' = FALSE
  /\ UNCHANGED <<left, queues, local1, pend, played, interrupted>>

(* end(): size_queue.clear() ...                                           *)
EndSizes ==
  /\ core0 = "idle"
  /\ core0' = "ending"
  /\ size_queue' = <<>>
  /\ pend' = IF core1 \in {"read", "write"} THEN SubSeq(pend, 1, 1) ELSE <<>>
  /\ UNCHANGED <<left, written, readPos, is_active, local1, played, interrupted>>

(* mutant of EndBuffer: the bytes stay *)
EndBufferKeeps ==
  /\ core0 = "ending"
  /\ core0' = "down"
  /\ UNCHANGED <<left, queues, is_active, local1, pend, played, interrupted>>

(* ... and buffer.reset(), while the other core may be reading from it.    *)
EndBuffer ==
  /\ core0 = "ending"
  /\ core0' = "down"
  /\ readPos' = written
  /\ interrupted' = (interrupted \/ core1 = "read")
  /\ UNCHANGED <<left, size_queue, written, is_active, local1, pend, played>>

(* writeAudio() up to the queueing of the size.  If the queue is full the  *)
(* frame is dropped.                                                       *)
Enqueue(n) ==
  /\ core0 = "idle"
  /\ n <= BufferSize
  /\ Len(size_queue) < QueueLen
  /\ written + n <= MaxBytes
  /\ size_queue' = Append(size_queue, n)
  /\ core0' = "writing"
  /\ left' = n
  /\ pend' = Append(pend, [start |-> written, size |-> n])
  /\ UNCHANGED <<written, readPos, is_active, local1, played, interrupted>>

(* A frame that can never fit: stop() does not return.                     *)
Oversize(n) ==
  /\ core0 = "idle"
  /\ n > BufferSize
  /\ core0' = "stopped"
  /\ UNCHANGED <<left, queues, is_active, local1, pend, played, interrupted>>

(* mutant of WriteByte: it does not wait *)
WriteByteNoWait ==
  /\ core0 = "writing"
  /\ written' = written + 1
  /\ left' = left - 1
  /\ core0' = IF left = 1 THEN "idle" ELSE "writing"
  /\ UNCHANGED <<size_queue, readPos, is_active, local1, pend, played, interrupted>>

(* buffer.writeArray(), which waits for room.                              *)
WriteByte ==
  /\ core0 = "writing"
  /\ Available < BufferSize
  /\ written' = written + 1
  /\ left' = left - 1
  /\ core0' = IF left = 1 THEN "idle" ELSE "writing"
  /\ UNCHANGED <<size_queue, readPos, is_active, local1, pend, played, interrupted>>

(***************************************************************************)
(* The other core: doLoop1().                                              *)
(***************************************************************************)

(* mutant of Filled: > in place of >= *)
FilledAbove == Available > 0 /\ Available > limit

Filled == Available > 0 /\ Available >= limit

(* In isBufferActive() the level is read ...                               *)
CheckActive ==
  /\ core1 = "check"
  /\ core1' = IF ~is_active /\ Filled THEN "activate" ELSE "return"
  /\ UNCHANGED <<core0, left, queues, is_active, size, data, pend, played, interrupted>>

(* ... and the flag is set afterwards, whatever the first core has done to *)
(* flag and buffer in between ...                                          *)
Activate ==
  /\ core1 = "activate"
  /\ core1' = "return"
  /\ is_active' = TRUE
  /\ UNCHANGED <<core0, left, queues, size, data, pend, played, interrupted>>

(* mutant of ReturnActive: the fill level decides every time *)
ReturnActiveFilled ==
  /\ core1 = "return"
  /\ core1' = IF is_active /\ Filled THEN "dequeue" ELSE "check"
  /\ UNCHANGED <<core0, left, queues, is_active, size, data, pend, played, interrupted>>

(* ... and read again, 10 ms later if the level was looked at.             *)
ReturnActive ==
  /\ core1 = "return"
  /\ core1' = IF is_active THEN "dequeue" ELSE "check"
  /\ UNCHANGED <<core0, left, queues, is_active, size, data, pend, played, interrupted>>

isBufferActive == CheckActive \/ Activate \/ ReturnActive

(* size_queue.readArray(): one size or, without waiting, none.             *)
Dequeue ==
  /\ core1 = "dequeue"
  /\ IF size_queue = <<>>
       THEN core1' = "check" /\ UNCHANGED <<size, data, size_queue>>
       ELSE /\ core1' = "read"
            /\ size' = Head(size_queue)
            /\ size_queue' = Tail(size_queue)
            /\ data' = [start |-> readPos, size |-> 0]
  /\ UNCHANGED <<core0, left, written, readPos, is_active, pend, played, interrupted>>

(* buffer.readArray(), which waits for the bytes.                          *)
ReadByte ==
  /\ core1 = "read"
  /\ Available > 0
  /\ readPos' = readPos + 1
  /\ data' = [data EXCEPT !.size = @ + 1]
  /\ core1' = IF data.size + 1 = size THEN "write" ELSE "read"
  /\ UNCHANGED <<core0, left, size_queue, written, is_active, size, pend, played,
                 interrupted>>

(* p_snap_output->audioWrite()                                             *)
AudioWrite ==
  /\ core1 = "write"
  /\ core1' = "check"
  /\ played' = Append(played, data)
  /\ pend' = IF pend = <<>> THEN <<>> ELSE Tail(pend)
  /\ UNCHANGED <<core0, left, queues, is_active, size, data, interrupted>>

DoLoop1 ==
  \/ isBufferActive
  \/ Dequeue
  \/ ReadByte
  \/ AudioWrite

Next ==
  \/ Begin
  \/ EndSizes
  \/ EndBuffer
  \/ \E n \in FrameSizes : Enqueue(n) \/ Oversize(n)
  \/ WriteByte
  \/ DoLoop1

Spec == Init /\ [][Next]_vars

(* Both cores run: a write that can go on does, and loop1() is called all  *)
(* the time.                                                               *)
FairSpec == Spec /\ WF_vars(WriteByte) /\ WF_vars(DoLoop1)

-----------------------------------------------------------------------------
TypeOK ==
  /\ core0 \in {"down", "idle", "writing", "ending", "stopped"}
  /\ left \in 0..BufferSize
  /\ size_queue \in Seq(FrameSizes) /\ Len(size_queue) <= QueueLen
  /\ written \in 0..MaxBytes /\ readPos \in 0..written /\ Available <= BufferSize
  /\ is_active \in BOOLEAN
  /\ core1 \in {"check", "activate", "return", "dequeue", "read", "write"}
  /\ size \in FrameSizes \cup {0} /\ data \in Interval /\ data.size <= size
  /\ pend \in Seq(Interval) /\ played \in Seq(Interval)
  /\ interrupted \in BOOLEAN

(* The frames accepted and not yet decoded and those that were decoded     *)
(* behave as the abstract queue of frames, however the cores interleave,   *)
(* with end() at any moment but while doLoop1() is reading.                *)
FQ == INSTANCE SnapFrameQueue
        WITH Frames <- Interval, queued <- pend, delivered <- played

FrameQueue == FQ!Init /\ [][~interrupted' => FQ!Next]_<<pend, played>>

(* The first core is never stuck in writeAudio(): a queue that is full is  *)
(* at its activation level, whatever has happened before.                  *)
WriteReturns ==
  ActivePercent <= 100 => (core0 = "writing" ~> core0 # "writing")

(* Once doLoop1() is active, a frame that waits means that one more frame  *)
(* is decoded, unless the client ends.                                     *)
PlaybackProgress ==
  \A k \in 0..MaxBytes :
    (is_active /\ pend # <<>> /\ Len(played) = k)
      ~> (Len(played) > k \/ core0 \in {"ending", "down"} \/ interrupted)
=============================================================================
