----------------------- MODULE SnapProcessorBuffered -----------------------
(***************************************************************************)
(* src/api/SnapProcessorBuffered.h: one thread; each round of doLoop()     *)
(* handles at most one message, which may be a frame that writeAudio()     *)
(* puts into a ring buffer, and then calls processExt(), which decodes at  *)
(* most one frame from it.  The sizes travel in a second ring buffer.      *)
(*                                                                         *)
(* processExt() has to wait for the rest of the round: for the body of a   *)
(* message that has begun and, after a read that was cut off, for a new    *)
(* connection.  So much of the session (SnapProcessor) is repeated here.   *)
(*                                                                         *)
(* Neither buffer waits: what does not fit is lost, and nothing tells the  *)
(* other buffer.  As in SnapProcessorRTOS a byte is its position in the    *)
(* stream of the bytes that were buffered.                                 *)
(***************************************************************************)
EXTENDS Integers, Sequences

CONSTANTS
  BufferSize,      \* bytes of the ring buffer, constructor argument
  ActivePercent,   \* fill level at which decoding starts, constructor argument
  QueueLen,        \* RTOS_MAX_QUEUE_ENTRY_COUNT, the length of sizes
  FrameSizes,      \* the sizes of the encoded frames the server can send
  I16,             \* 2^16 in the code: the range of int16_t
  MaxBytes         \* bound of the model: bytes offered in one behaviour

ASSUME BufferAssumption ==
  /\ {BufferSize, QueueLen, I16} \subseteq Nat \ {0} /\ I16 % 2 = 0
  /\ {ActivePercent, MaxBytes} \subseteq Nat
  /\ FrameSizes \subseteq Nat \ {0}

VARIABLES
  loop,            \* "down", "message" between two rounds, "readData",
                   \* "processExt" or "stopped"
  loop_status,     \* LoopStart, LoopStep, LoopEnd
  connected,       \* what the server has sent arrives
  sizes,           \* the ring buffer of int16_t
  written, readPos,\* the ring buffer of bytes: it holds readPos..written-1
  is_active,
  offered,         \* history: bytes and
  accepted,        \* frames that writeAudio() has got,
  pend,            \* of those, the frames not yet taken from the buffer,
  played,          \* what was handed to SnapOutput::write(),
  overflowed,      \* something did not fit,
  level            \* and the sizes waiting when decoding started

buffers == <<sizes, written, readPos>>
history == <<offered, accepted, pend, played, overflowed, level>>
rounds  == <<loop, loop_status, connected>>
vars    == <<rounds, buffers, is_active, history>>

Interval == [start : 0..MaxBytes, size : 0..MaxBytes]

Available == written - readPos

Minimum(a, b) == IF a < b THEN a ELSE b

(* mutant of int16: the width of the element is left out *)
int16Wide(n) == n

int16(n) == IF n % I16 < I16 \div 2 THEN n % I16 ELSE (n % I16) - I16

bufferTaskActivationLimit == (ActivePercent * BufferSize) \div 100

Init ==
  /\ loop = "down" /\ loop_status = "LoopStart" /\ connected = FALSE
  /\ sizes = <<>> /\ written = 0 /\ readPos = 0
  /\ is_active = FALSE
  /\ offered = 0 /\ accepted = <<>> /\ pend = <<>> /\ played = <<>>
  /\ overflowed = FALSE /\ level = 0

(* begin() of SnapProcessor, which tries to connect, in any case.          *)
SessionBegin ==
  /\ loop = "down"
  /\ loop' = "message" /\ loop_status' = "LoopStart"
  /\ connected' \in BOOLEAN

(* mutant of Begin: the sizes are not reset *)
BeginKeepsSizes ==
  /\ SessionBegin
  /\ readPos' = written /\ pend' = <<>>
  /\ is_active' = FALSE
  /\ UNCHANGED <<sizes, written, offered, accepted, played, overflowed, level>>

Begin ==
  /\ SessionBegin
  /\ sizes' = <<>> /\ readPos' = written /\ pend' = <<>>
  /\ is_active' = FALSE
  /\ UNCHANGED <<written, offered, accepted, played, overflowed, level>>

(* end() of SnapProcessor: the buffers keep what they hold. *)
End ==
  /\ loop = "message"
  /\ loop' = "down"
  /\ connected' = FALSE
  /\ UNCHANGED <<loop_status, buffers, is_active, history>>

-----------------------------------------------------------------------------
(***************************************************************************)
(* A round of doLoop(), up to what it does with a message.                 *)
(***************************************************************************)
(* connectClient() has a connection or gets one; if the server cannot be   *)
(* reached nothing happens, processExt() neither.                          *)
LoopStart ==
  /\ loop = "message" /\ loop_status = "LoopStart"
  /\ loop_status' = "LoopStep"
  /\ connected' = TRUE
  /\ UNCHANGED loop

LoopEnd ==
  /\ loop = "message" /\ loop_status = "LoopEnd"
  /\ loop_status' = "LoopStart"
  /\ UNCHANGED <<loop, connected>>

(* available() < BASE_MESSAGE_SIZE, always so when the connection is lost. *)
NoMessage ==
  /\ loop = "message" /\ loop_status = "LoopStep"
  /\ loop' = "processExt"
  /\ UNCHANGED <<loop_status, connected>>

ReadBaseMessage ==
  /\ loop = "message" /\ loop_status = "LoopStep" /\ connected
  /\ loop' = "readData"
  /\ UNCHANGED <<loop_status, connected>>

(* readBaseMessage() gets less: the connection was reset after available(). *)
ShortRead ==
  /\ loop = "message" /\ loop_status = "LoopStep" /\ connected
  /\ connected' = FALSE
  /\ loop' = "processExt" /\ loop_status' = "LoopEnd"

(* readData() has the body of a message without audio.                     *)
OtherMessage ==
  /\ loop = "readData" /\ connected
  /\ loop' = "processExt"
  /\ UNCHANGED <<loop_status, connected>>

(* The connection is lost (external): readData() waits for ever.           *)
Lose ==
  /\ connected
  /\ connected' = FALSE
  /\ UNCHANGED <<loop, loop_status>>

Session ==
  /\ \/ LoopStart
     \/ LoopEnd
     \/ NoMessage
     \/ ReadBaseMessage
     \/ ShortRead
     \/ OtherMessage
     \/ Lose
  /\ UNCHANGED <<buffers, is_active, history>>

(* mutant of WriteAudio: no processExt() in a round that had a frame *)
WriteAudioSkips(n) ==
  LET frame == [start |-> written, size |-> n]
  IN  /\ loop = "readData" /\ connected
      /\ loop' = "message"
      /\ offered + n <= MaxBytes
      /\ n <= BufferSize - Available /\ Len(sizes) < QueueLen
      /\ offered' = offered + n
      /\ accepted' = Append(accepted, frame)
      /\ sizes' = Append(sizes, int16(n))
      /\ written' = written + n
      /\ pend' = Append(pend, frame)
      /\ UNCHANGED <<loop_status, connected, readPos, is_active, played,
                     overflowed, level>>

(* readData() has a chunk; wireChunk() and writeAudio(): the size is       *)
(* queued even if the bytes do not fit, and the bytes are buffered even if *)
(* the size does not fit.                                                  *)
WriteAudio(n) ==
  LET kept  == Minimum(n, BufferSize - Available)
      frame == [start |-> written, size |-> n]
      fits  == kept = n /\ Len(sizes) < QueueLen /\ int16(n) = n
  IN  /\ loop = "readData" /\ connected
      /\ offered + n <= MaxBytes
      /\ offered' = offered + n
      /\ accepted' = Append(accepted, frame)
      /\ IF n > BufferSize
           THEN loop' = "stopped" /\ UNCHANGED <<buffers, pend, overflowed>>
           ELSE /\ loop' = "processExt"
                /\ sizes' = IF Len(sizes) < QueueLen THEN Append(sizes, int16(n))
                                                     ELSE sizes
                /\ written' = written + kept
                /\ pend' = Append(pend, frame)
                /\ overflowed' = IF fits THEN overflowed ELSE TRUE
                /\ UNCHANGED readPos
      /\ UNCHANGED <<loop_status, connected, is_active, played, level>>

(* mutant of isBufferActive: the fill level decides every time *)
isBufferActiveAgain == Available >= bufferTaskActivationLimit

isBufferActive == is_active \/ Available >= bufferTaskActivationLimit

(* mutant of Decode: what is left of the stream is taken *)
DecodeAll ==
  /\ sizes' = Tail(sizes)
  /\ readPos' = IF Head(sizes) > 0 THEN written ELSE readPos
  /\ IF Head(sizes) > 0
       THEN /\ played' = Append(played, [start |-> readPos, size |-> Available])
            /\ pend' = IF pend = <<>> THEN <<>> ELSE Tail(pend)
       ELSE UNCHANGED <<played, pend>>

(* One frame, or what there is of it, goes to SnapOutput::write(); a size  *)
(* that is not positive is dropped, its bytes are not.                     *)
Decode ==
  LET step_size == Head(sizes)
      n         == Minimum(step_size, Available)
  IN  /\ sizes' = Tail(sizes)
      /\ IF step_size > 0
           THEN /\ readPos' = readPos + n
                /\ played' = Append(played, [start |-> readPos, size |-> n])
                /\ pend' = IF pend = <<>> THEN <<>> ELSE Tail(pend)
           ELSE UNCHANGED <<readPos, played, pend>>

ProcessExt ==
  /\ loop = "processExt"
  /\ loop' = "message"
  /\ is_active' = isBufferActive
  /\ level' = IF isBufferActive /\ ~is_active THEN Len(sizes) ELSE level
  /\ IF isBufferActive /\ sizes # <<>>
       THEN Decode
       ELSE UNCHANGED <<sizes, readPos, played, pend>>
  /\ UNCHANGED <<loop_status, connected, written, offered, accepted, overflowed>>

Next ==
  \/ Begin
  \/ End
  \/ Session
  \/ \E n \in FrameSizes : WriteAudio(n)
  \/ ProcessExt

Spec == Init /\ [][Next]_vars

(* A round that does not have to wait.                                     *)
Round ==
  \/ Session /\ (NoMessage \/ ReadBaseMessage \/ ShortRead \/ OtherMessage \/ LoopEnd)
  \/ \E n \in FrameSizes : WriteAudio(n)
  \/ ProcessExt

(* The application calls doLoop(), whether there is a message or not, and  *)
(* TCP delivers the rest of a message unless the connection is lost.  That *)
(* a server is reached again is not assumed.                               *)
FairSpec == Spec /\ WF_vars(Round)

-----------------------------------------------------------------------------
TypeOK ==
  /\ loop \in {"down", "message", "readData", "processExt", "stopped"}
  /\ loop_status \in {"LoopStart", "LoopStep", "LoopEnd"} /\ connected \in BOOLEAN
  /\ sizes \in Seq(-(I16 \div 2)..(I16 \div 2 - 1)) /\ Len(sizes) <= QueueLen
  /\ written \in 0..MaxBytes /\ readPos \in 0..written /\ Available <= BufferSize
  /\ is_active \in BOOLEAN /\ overflowed \in BOOLEAN
  /\ offered \in 0..MaxBytes
  /\ \A frames \in {accepted, pend, played} : frames \in Seq(Interval)
  /\ level \in 0..QueueLen

(* While everything has fit, the bytes in the buffer are those of the      *)
(* frames that wait, end to end, and their sizes are the ones queued.      *)
Framing ==
  ~overflowed =>
    /\ Len(sizes) = Len(pend)
    /\ \A i \in 1..Len(pend) :
         /\ pend[i].size = sizes[i]
         /\ pend[i].start + pend[i].size
              = IF i = Len(pend) THEN written ELSE pend[i + 1].start
    /\ readPos = IF pend = <<>> THEN written ELSE pend[1].start

(* Once decoding has started the client does not fall behind: no more      *)
(* frames wait than when it started, so that a queue that could hold the   *)
(* frames until then never overflows.                                      *)
KeepsUp == is_active /\ loop \in {"message", "readData"} => Len(sizes) <= level

(* The loop waits for a server that is gone.                               *)
Stuck == ~connected /\ (loop = "readData" \/ loop_status = "LoopStart")

(* Once decoding has started, every frame that waits is decoded, also when *)
(* the connection is lost, unless the loop waits for the rest of a message *)
(* or for a new connection, the client ends or gets a frame that does not  *)
(* fit.                                                                    *)
EveryFrameDecoded ==
  \A k \in 1..MaxBytes :
    (is_active /\ pend # <<>> /\ Len(played) = k - 1)
      ~> (Len(played) >= k \/ overflowed \/ loop \in {"down", "stopped"} \/ Stuck)

(* As long as everything fits, the frames that wait and those that were    *)
(* decoded behave as the abstract queue of frames.                         *)
FQ == INSTANCE SnapFrameQueue
        WITH Frames <- Interval, queued <- pend, delivered <- played

FrameQueue == FQ!Init /\ [][~overflowed' => FQ!Next]_<<pend, played>>
=============================================================================
