------------------------- MODULE SnapProcessorRTOS -------------------------
(***************************************************************************)
(* src/api/SnapProcessorRTOS.h: the Arduino loop writes the encoded frames *)
(* into a byte stream and their sizes into a queue; a FreeRTOS task takes  *)
(* a size, reads that many bytes and hands them to the decoder.            *)
(*                                                                         *)
(* Two threads interleave here: the loop (begin, end, writeAudio) and the  *)
(* task (copy).  The content of the byte stream is not modelled byte by    *)
(* byte: the stream is a FIFO, so a byte is its position since the start   *)
(* of the program, a frame is the interval of positions it was written to  *)
(* and what the decoder gets is the interval of positions that was read.   *)
(*                                                                         *)
(* An early return of writeAudio that leaves this state alone (the output  *)
(* is not started, the frame is not to be played, the size queue stays     *)
(* full for its 5 ticks) is a stuttering step.                             *)
(***************************************************************************)
EXTENDS Integers, Sequences

CONSTANTS
  BufferSize,      \* bytes of the stream buffer, constructor argument
  ActivePercent,   \* fill level that starts the task, constructor argument
  QueueLen,        \* RTOS_MAX_QUEUE_ENTRY_COUNT
  FrameSizes,      \* the sizes of the encoded frames the server can send
  WriteTimesOut,   \* can a write to the full stream give up half way?
  MaxBytes         \* bound of the model: bytes accepted in one behaviour

ASSUME BufferAssumption ==
  /\ BufferSize \in Nat \ {0}
  /\ ActivePercent \in Nat
  /\ QueueLen \in Nat \ {0}
  /\ FrameSizes \subseteq Nat \ {0}
  /\ WriteTimesOut \in BOOLEAN
  /\ MaxBytes \in Nat

VARIABLES
  main,            \* where the loop thread is
  size_queue,      \* sizes of the frames, oldest first
  written,         \* position after the last byte put into the stream
  readPos,         \* position of the next byte to take from the stream
  task_started,    \* the flag of the same name
  task,            \* state of the FreeRTOS task
  copyPc,          \* where copy() is
  size,            \* the local variable size of copy()
  data,            \* the local array data of copy(): the interval it holds
  (* history *)
  accepted,        \* the frames whose size was queued, in order
  pend,            \* of those, the ones not yet read from the stream
  played,          \* what was handed to the decoder, in order
  interrupted,     \* end() has caught copy() between its two reads
  overflowed       \* a frame was cut short on its way into the stream

loopVars == <<main, size_queue, written, readPos, task_started>>
taskVars == <<task, copyPc, size, data>>
history  == <<accepted, pend, played, interrupted, overflowed>>
vars     == <<loopVars, taskVars, history>>

(* A frame, or what was read for one: an interval of the byte stream. *)
Interval == [start : 0..MaxBytes, size : 0..MaxBytes]

NoData == [start |-> 0, size |-> 0]

Available == written - readPos

(* bufferTaskActivationLimit() *)
ActivationLimit == (ActivePercent * BufferSize) \div 100

(* The frame that writeAudio() is copying into the stream: its arguments. *)
Current == accepted[Len(accepted)]

Minimum(a, b) == IF a < b THEN a ELSE b

-----------------------------------------------------------------------------
Init ==
  /\ main = "down"
  /\ size_queue = <<>>
  /\ written = 0
  /\ readPos = 0
  /\ task_started = FALSE
  /\ task = "suspended"          \* created, not begun
  /\ copyPc = "dequeue"
  /\ size = 0
  /\ data = NoData
  /\ accepted = <<>>
  /\ pend = <<>>
  /\ played = <<>>
  /\ interrupted = FALSE
  /\ overflowed = FALSE

(***************************************************************************)
(* The loop thread.                                                        *)
(***************************************************************************)

(* begin(): fresh queue and stream; task_started and the task keep their   *)
(* state.                                                                  *)
Begin ==
  /\ main = "down"
  /\ main' = "idle"
  /\ size_queue' = <<>>
  /\ readPos' = written
  /\ pend' = <<>>
  /\ UNCHANGED <<written, task_started, taskVars, accepted, played,
                 interrupted, overflowed>>

(* mutant of End: the flag is not reset *)
EndKeepsFlag ==
  /\ main = "idle"
  /\ main' = "down"
  /\ task' = "suspended"
  /\ size_queue' = <<>>
  /\ readPos' = written
  /\ pend' = <<>>
  /\ interrupted' = IF copyPc = "read" THEN TRUE ELSE interrupted
  /\ UNCHANGED <<written, task_started, copyPc, size, data, accepted, played,
                 overflowed>>

(* end(): the task is suspended wherever it is, its locals survive. *)
End ==
  /\ main = "idle"
  /\ main' = "down"
  /\ task' = "suspended"
  /\ task_started' = FALSE
  /\ size_queue' = <<>>
  /\ readPos' = written
  /\ pend' = <<>>
  /\ interrupted' = IF copyPc = "read" THEN TRUE ELSE interrupted
  /\ UNCHANGED <<written, copyPc, size, data, accepted, played, overflowed>>

(* mutant of Enqueue: a full queue takes one more size *)
EnqueueUnbounded(n) ==
  LET frame == [start |-> written, size |-> n]
  IN  /\ main = "idle"
      /\ n <= BufferSize
      /\ written + n <= MaxBytes
      /\ size_queue' = Append(size_queue, n)
      /\ main' = "writing"
      /\ accepted' = Append(accepted, frame)
      /\ pend' = Append(pend, frame)
      /\ UNCHANGED <<written, readPos, task_started, taskVars, played,
                     interrupted, overflowed>>

(* writeAudio() up to the queueing of the size. *)
Enqueue(n) ==
  LET frame == [start |-> written, size |-> n]
  IN  /\ main = "idle"
      /\ n <= BufferSize
      /\ Len(size_queue) < QueueLen
      /\ written + n <= MaxBytes
      /\ size_queue' = Append(size_queue, n)
      /\ main' = "writing"
      /\ accepted' = Append(accepted, frame)
      /\ pend' = Append(pend, frame)
      /\ UNCHANGED <<written, readPos, task_started, taskVars, played,
                     interrupted, overflowed>>

(* writeAudio() with a frame that can never fit: stop() does not return. *)
Oversize(n) ==
  /\ main = "idle"
  /\ n > BufferSize
  /\ main' = "stopped"
  /\ UNCHANGED <<size_queue, written, readPos, task_started, taskVars,
                 history>>

(* mutant of StartTask: the fill level is taken before the write *)
StartTaskBeforeWrite ==
  IF ~task_started /\ written - readPos > ActivationLimit
    THEN /\ task_started' = TRUE
         /\ task' = "running"
    ELSE UNCHANGED <<task_started, task>>

(* The end of writeAudio(): once the stream holds more than the limit the  *)
(* task is begun (or resumed, after end()) in its endless loop of copy().  *)
StartTask ==
  IF ~task_started /\ written' - readPos > ActivationLimit
    THEN /\ task_started' = TRUE
         /\ task' = "running"
    ELSE UNCHANGED <<task_started, task>>

(* mutant of WriteBuffer: it does not wait, what does not fit is lost *)
WriteBufferNoWait ==
  /\ main = "writing"
  /\ written' = Minimum(written + Current.size, readPos + BufferSize)
  /\ StartTask
  /\ main' = "idle"
  /\ UNCHANGED <<size_queue, readPos, copyPc, size, data, history>>

(* buffer.writeArray(): waits until all of the frame fits. *)
WriteBuffer ==
  /\ main = "writing"
  /\ Available + Current.size <= BufferSize
  /\ written' = written + Current.size
  /\ StartTask
  /\ main' = "idle"
  /\ UNCHANGED <<size_queue, readPos, copyPc, size, data, history>>

(* buffer.writeArray() that gives up waiting: the head of the frame is in  *)
(* the stream, "buffer-overflow" is logged, the full size stays queued.    *)
WriteShort ==
  /\ WriteTimesOut
  /\ main = "writing"
  /\ Available + Current.size > BufferSize
  /\ written' = readPos + BufferSize
  /\ StartTask
  /\ main' = "idle"
  /\ overflowed' = TRUE
  /\ UNCHANGED <<size_queue, readPos, copyPc, size, data, accepted, pend,
                 played, interrupted>>

(***************************************************************************)
(* The output task: task_copy() calls copy() for ever.                     *)
(***************************************************************************)

(* mutant of Dequeue: the newest size is taken *)
DequeueNewest ==
  /\ task = "running"
  /\ copyPc = "dequeue"
  /\ size_queue # <<>>
  /\ size' = size_queue[Len(size_queue)]
  /\ size_queue' = SubSeq(size_queue, 1, Len(size_queue) - 1)
  /\ copyPc' = "read"
  /\ UNCHANGED <<main, written, readPos, task_started, task, data, history>>

(* size_queue.dequeue(size) *)
Dequeue ==
  /\ task = "running"
  /\ copyPc = "dequeue"
  /\ size_queue # <<>>
  /\ size' = Head(size_queue)
  /\ size_queue' = Tail(size_queue)
  /\ copyPc' = "read"
  /\ UNCHANGED <<main, written, readPos, task_started, task, data, history>>

(* buffer.readArray(data, size): waits for data, takes what is there and   *)
(* at most size bytes; assert(read == size).                               *)
ReadBuffer ==
  LET n == Minimum(size, Available)
  IN  /\ task = "running"
      /\ copyPc = "read"
      /\ Available > 0
      /\ readPos' = readPos + n
      /\ data' = [start |-> readPos, size |-> n]
      /\ pend' = IF pend = <<>> THEN <<>> ELSE Tail(pend)
      /\ IF n = size
           THEN copyPc' = "write" /\ UNCHANGED <<task, main>>
           ELSE task' = "aborted" /\ main' = "aborted" /\ UNCHANGED copyPc
      /\ UNCHANGED <<size_queue, written, task_started, size, accepted,
                     played, interrupted, overflowed>>

(* p_snap_output->audioWrite(data, size) *)
AudioWrite ==
  /\ task = "running"
  /\ copyPc = "write"
  /\ played' = Append(played, data)
  /\ copyPc' = "dequeue"
  /\ UNCHANGED <<loopVars, task, size, data, accepted, pend, interrupted,
                 overflowed>>

-----------------------------------------------------------------------------
Copy == Dequeue \/ ReadBuffer \/ AudioWrite

WriteAudio ==
  \/ \E n \in FrameSizes : Enqueue(n) \/ Oversize(n)
  \/ WriteBuffer
  \/ WriteShort

Next == Begin \/ End \/ WriteAudio \/ Copy

Spec == Init /\ [][Next]_vars

(* The scheduler runs both threads: a write that fits is done and the      *)
(* running task goes on.  Nobody has to send frames, to call end() or to   *)
(* give up a write.                                                        *)
FairSpec == Spec /\ WF_vars(WriteBuffer) /\ WF_vars(Copy)

(* The framing has not been damaged by a restart or by a short write. *)
Intact == ~interrupted /\ ~overflowed

-----------------------------------------------------------------------------
LoopTypeOK ==
  /\ main \in {"down", "idle", "writing", "stopped", "aborted"}
  /\ size_queue \in Seq(FrameSizes)
  /\ Len(size_queue) <= QueueLen
  /\ written \in 0..MaxBytes
  /\ readPos \in 0..MaxBytes
  /\ task_started \in BOOLEAN

TaskTypeOK ==
  /\ task \in {"suspended", "running", "aborted"}
  /\ copyPc \in {"dequeue", "read", "write"}
  /\ size \in FrameSizes \cup {0}
  /\ data \in Interval

HistoryTypeOK ==
  /\ accepted \in Seq(Interval)
  /\ pend \in Seq(Interval)
  /\ played \in Seq(Interval)
  /\ interrupted \in BOOLEAN
  /\ overflowed \in BOOLEAN

TypeOK == LoopTypeOK /\ TaskTypeOK /\ HistoryTypeOK

(***************************************************************************)
(* Safety.  The size of a frame and its bytes travel on two channels that  *)
(* only the arithmetic of the two threads keeps aligned.                   *)
(***************************************************************************)

WholeInOrder ==
  \A i \in 1..Len(played) :
    /\ \E j \in 1..Len(accepted) : played[i] = accepted[j]
    /\ \A h \in 1..(i - 1) :
         played[h].start + played[h].size <= played[i].start

(* What the decoder gets in one call is exactly one frame that writeAudio  *)
(* accepted, and no frame comes before one that was accepted earlier.      *)
FrameIntegrity == Intact => WholeInOrder

(* The assertion of copy() holds: the bytes of a size that was dequeued    *)
(* are all in the stream when the task gets to read any of them.           *)
AssertHolds == Intact => task # "aborted"

(* With room above the activation level for every frame that fits at all,  *)
(* writeAudio() never waits for room while no task is there to make it.    *)
BlockedOnlyBehindReader ==
  (\A n \in FrameSizes : n <= BufferSize => n + ActivationLimit <= BufferSize) =>
    (/\ main = "writing"
     /\ Available + Current.size > BufferSize
     => task \in {"running", "aborted"})

(* With frames big enough, or a queue long enough, for the queued frames   *)
(* to pass the activation level, the size queue never fills up before the  *)
(* task that empties it has started.                                       *)
QueueFullOnlyBehindReader ==
  (\E m \in FrameSizes : /\ QueueLen * m > ActivationLimit
                         /\ \A n \in FrameSizes : m <= n) =>
    (Intact /\ main = "idle" /\ Len(size_queue) = QueueLen
       => task = "running")

(***************************************************************************)
(* The inductive invariant behind these.                                   *)
(***************************************************************************)

(* The stream never holds more than its capacity; the task is started as   *)
(* soon as a write leaves more than the limit in it.                       *)
StreamInv ==
  /\ readPos <= written
  /\ Available <= BufferSize
  /\ main = "down" => Available = 0
  /\ main = "writing" =>
       /\ accepted # <<>>
       /\ Current.start = written
       /\ Current.size \in FrameSizes
       /\ Current.size <= BufferSize
       /\ written + Current.size <= MaxBytes
  /\ main \in {"idle", "writing"} /\ ~task_started => Available <= ActivationLimit
  /\ task_started <=> task # "suspended"
  /\ task = "aborted" => main = "aborted"

Held == IF copyPc = "read" THEN 1 ELSE 0

(* The position after the bytes of all frames, the one being written too. *)
Finish == IF main = "writing" THEN written + Current.size ELSE written

(* The frames not yet read lie end to end in the stream, from readPos on,  *)
(* and their sizes are the one that copy() holds and the queued ones.      *)
Framing ==
  /\ task # "aborted"
  /\ main = "down" => pend = <<>>
  /\ Len(pend) = Len(size_queue) + Held
  /\ \A i \in 1..Len(size_queue) : size_queue[i] = pend[i + Held].size
  /\ copyPc = "read" => size = pend[1].size
  /\ IF pend = <<>> THEN readPos = written ELSE pend[1].start = readPos
  /\ \A i \in 1..Len(pend) :
       /\ pend[i].size \in FrameSizes
       /\ pend[i].start <= written
       /\ pend[i].start + pend[i].size
            = IF i = Len(pend) THEN Finish ELSE pend[i + 1].start
  /\ main = "writing" => pend # <<>> /\ pend[Len(pend)] = Current

(* Each frame that waits or is held is an accepted one, and what was       *)
(* played lies before what copy() holds and that before readPos.           *)
Ordering ==
  /\ \A i \in 1..Len(pend) : \E j \in 1..Len(accepted) : pend[i] = accepted[j]
  /\ copyPc = "write" =>
       /\ \E j \in 1..Len(accepted) : data = accepted[j]
       /\ data.start + data.size <= readPos
       /\ \A h \in 1..Len(played) :
            played[h].start + played[h].size <= data.start
  /\ \A h \in 1..Len(played) : played[h].start + played[h].size <= readPos

(* Until the task runs, every queued size stands for that many bytes.      *)
Backlog ==
  ~task_started =>
    \A m \in FrameSizes : (\A n \in FrameSizes : m <= n) =>
      m * Len(size_queue) <= Finish - readPos

Inv ==
  /\ StreamInv
  /\ Intact => Framing /\ Ordering /\ Backlog /\ WholeInOrder

(***************************************************************************)
(* Progress, while the framing is intact.                                  *)
(***************************************************************************)

(* Once the task is started, a waiting frame means that one more frame     *)
(* gets to the decoder, unless end() comes first.                          *)
PlaybackProgress ==
  \A k \in 0..MaxBytes :
    (task_started /\ pend # <<>> /\ Len(played) = k)
      ~> (Len(played) > k \/ ~task_started \/ ~Intact)

(* The loop is never stuck in writeAudio(). *)
WriteReturns == main = "writing" ~> (main # "writing" \/ ~Intact)

(***************************************************************************)
(* The frames that were accepted and not yet played, the one on its way to *)
(* the decoder first, behave as the abstract queue of frames for as long   *)
(* as the framing is intact.                                               *)
(***************************************************************************)
Queued == (IF copyPc = "write" THEN <<data>> ELSE <<>>) \o pend

FQ == INSTANCE SnapFrameQueue
        WITH Frames <- Interval, queued <- Queued, delivered <- played

FrameQueue == FQ!Init /\ [][Intact' => FQ!Next]_(FQ!vars)

(***************************************************************************)
(* What the source says and the code does not do.                          *)
(***************************************************************************)

(* assert(read == size), whatever the loop has done before.                *)
AssertAlwaysHolds == task # "aborted"

(* "A RTOS task feeds the output from the queue": a full size queue, from  *)
(* which writeAudio() turns every frame away, gets room again.             *)
FullQueueDrains ==
  (main = "idle" /\ Len(size_queue) = QueueLen) ~> Len(size_queue) < QueueLen
=============================================================================
