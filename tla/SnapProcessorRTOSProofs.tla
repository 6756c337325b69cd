---------------------- MODULE SnapProcessorRTOSProofs ----------------------
(***************************************************************************)
(* Proofs about SnapProcessorRTOS, for every buffer size, activation       *)
(* level, length of the size queue and set of frame sizes.                 *)
(***************************************************************************)
EXTENDS SnapProcessorRTOS, TLAPS

-----------------------------------------------------------------------------
(***************************************************************************)
(* Types and the fill level of the stream: they hold in every behaviour,   *)
(* restarts and short writes included.                                     *)
(***************************************************************************)

(* The activation limit is a number of bytes. *)
LEMMA LimitIsNat == ActivationLimit \in Nat
<1>1. ActivePercent * BufferSize \in Nat
  BY BufferAssumption, SMT
<1>2. \A p \in Nat : p \div 100 \in Nat
  BY SMT
<1> QED
  BY <1>1, <1>2 DEF ActivationLimit

(* A frame has a positive number of bytes. *)
LEMMA SizeIsNat == \A n \in FrameSizes : n \in Nat /\ n > 0
  BY BufferAssumption

(* The constants are numbers. *)
LEMMA ConstNat ==
  /\ BufferSize \in Nat /\ BufferSize > 0
  /\ QueueLen \in Nat /\ QueueLen > 0
  /\ MaxBytes \in Nat
  BY BufferAssumption

Base == TypeOK /\ StreamInv

(* Both hold at the start. *)
LEMMA BaseInit == Init => Base
<1> SUFFICES ASSUME Init PROVE Base
  OBVIOUS
<1>1. LoopTypeOK
  <2>1. task_started \in BOOLEAN
    BY DEF Init
  <2> QED
    BY <2>1, ConstNat DEF Init, LoopTypeOK
<1>2. TaskTypeOK
  BY ConstNat DEF Init, TaskTypeOK, NoData, Interval
<1>3. HistoryTypeOK
  <2>1. interrupted \in BOOLEAN /\ overflowed \in BOOLEAN
    BY DEF Init
  <2> QED
    BY <2>1 DEF Init, HistoryTypeOK
<1>4. StreamInv
  BY ConstNat, LimitIsNat DEF Init, StreamInv, Available
<1> QED
  BY <1>1, <1>2, <1>3, <1>4 DEF Base, TypeOK

(* begin() empties the stream of a client that is down. *)
LEMMA BaseBegin == ASSUME Base, Begin PROVE Base'
<1> USE ConstNat, LimitIsNat
<1>1. LoopTypeOK'
  BY DEF Base, TypeOK, LoopTypeOK, Begin
<1>2. TaskTypeOK'
  BY DEF Base, TypeOK, TaskTypeOK, Begin, taskVars
<1>3. HistoryTypeOK'
  BY DEF Base, TypeOK, HistoryTypeOK, Begin
<1>4. StreamInv'
  BY DEF Base, TypeOK, LoopTypeOK, TaskTypeOK, StreamInv, Begin, taskVars,
         Available
<1> QED
  BY <1>1, <1>2, <1>3, <1>4 DEF Base, TypeOK

(* end() suspends the task and empties the stream. *)
LEMMA BaseEnd == ASSUME Base, End PROVE Base'
<1> USE ConstNat, LimitIsNat
<1>1. LoopTypeOK'
  <2>1. task_started' \in BOOLEAN
    BY DEF End
  <2> QED
    BY <2>1 DEF Base, TypeOK, LoopTypeOK, End
<1>2. TaskTypeOK'
  BY DEF Base, TypeOK, TaskTypeOK, End
<1>3. HistoryTypeOK'
  <2>1. interrupted' \in BOOLEAN /\ overflowed' \in BOOLEAN
    BY DEF Base, TypeOK, HistoryTypeOK, End
  <2>2. /\ accepted' \in Seq(Interval)
        /\ pend' \in Seq(Interval)
        /\ played' \in Seq(Interval)
    BY DEF Base, TypeOK, HistoryTypeOK, End
  <2> QED
    BY <2>1, <2>2 DEF HistoryTypeOK
<1>4. StreamInv'
  BY DEF Base, TypeOK, LoopTypeOK, TaskTypeOK, StreamInv, End, Available
<1> QED
  BY <1>1, <1>2, <1>3, <1>4 DEF Base, TypeOK

(* A size that is queued belongs to a frame that fits the stream. *)
LEMMA BaseEnqueue ==
  ASSUME Base, NEW n \in FrameSizes, Enqueue(n)
  PROVE  Base'
<1> DEFINE frame == [start |-> written, size |-> n]
<1> USE ConstNat, LimitIsNat, SizeIsNat
<1>1. frame \in Interval
  BY DEF Base, TypeOK, LoopTypeOK, Enqueue, Interval
<1>2. /\ accepted' = Append(accepted, frame)
      /\ pend' = Append(pend, frame)
  BY DEF Enqueue
<1>3. LoopTypeOK'
  BY DEF Base, TypeOK, LoopTypeOK, Enqueue
<1>4. TaskTypeOK'
  BY DEF Base, TypeOK, TaskTypeOK, Enqueue, taskVars
<1>5. HistoryTypeOK'
  BY <1>1, <1>2 DEF Base, TypeOK, HistoryTypeOK, Enqueue
<1>6. Current' = frame /\ accepted' # <<>>
  BY <1>1, <1>2 DEF Base, TypeOK, HistoryTypeOK, Current
<1>7. StreamInv'
  <2> HIDE DEF frame
  <2>1. frame.start = written /\ frame.size = n
    BY DEF frame
  <2> QED
    BY <1>6, <2>1
    DEF Base, TypeOK, LoopTypeOK, TaskTypeOK, StreamInv, Enqueue, taskVars,
        Available
<1> QED
  BY <1>3, <1>4, <1>5, <1>7 DEF Base, TypeOK

(* A frame that can never fit stops the loop. *)
LEMMA BaseOversize ==
  ASSUME Base, NEW n \in FrameSizes, Oversize(n)
  PROVE  Base'
<1> USE DEF Base, TypeOK, Oversize, taskVars, history
<1>1. LoopTypeOK'
  BY DEF LoopTypeOK
<1>2. TaskTypeOK'
  BY DEF TaskTypeOK
<1>3. HistoryTypeOK'
  BY DEF HistoryTypeOK
<1>4. StreamInv'
  BY DEF TaskTypeOK, StreamInv, Available
<1> QED
  BY <1>1, <1>2, <1>3, <1>4

(* A write, whole or short, leaves at most BufferSize bytes in the stream  *)
(* and more than the limit only if the task is started.                    *)
LEMMA BaseWrite ==
  ASSUME Base, WriteBuffer \/ WriteShort
  PROVE  Base'
<1> USE ConstNat, LimitIsNat, SizeIsNat
<1> DEFINE c == Current.size
<1>1. c \in FrameSizes /\ c \in Nat /\ written + c <= MaxBytes
  BY DEF Base, StreamInv, WriteBuffer, WriteShort
<1> HIDE DEF c
<1>2. written \in 0..MaxBytes /\ readPos \in 0..MaxBytes /\ readPos <= written
      /\ Available <= BufferSize
  BY DEF Base, TypeOK, LoopTypeOK, StreamInv
<1>3. /\ \/ written' = written + c /\ Available + c <= BufferSize
         \/ written' = readPos + BufferSize /\ Available + c > BufferSize
      /\ StartTask
      /\ main = "writing" /\ main' = "idle"
      /\ UNCHANGED <<size_queue, readPos, copyPc, size, data, accepted, pend,
                     played, interrupted>>
      /\ overflowed' \in {overflowed, TRUE}
  BY DEF WriteBuffer, WriteShort, history, c
<1>4. written' \in 0..MaxBytes /\ readPos' <= written' /\ Available' <= BufferSize
  BY <1>1, <1>2, <1>3 DEF Available
<1>5. task_started' \in BOOLEAN /\ task' \in {"suspended", "running", "aborted"}
  BY <1>3 DEF StartTask, Base, TypeOK, LoopTypeOK, TaskTypeOK
<1>6. LoopTypeOK'
  BY <1>2, <1>3, <1>4, <1>5 DEF Base, TypeOK, LoopTypeOK
<1>7. TaskTypeOK'
  BY <1>3, <1>5 DEF Base, TypeOK, TaskTypeOK
<1>8. HistoryTypeOK'
  BY <1>3 DEF Base, TypeOK, HistoryTypeOK
<1>9. ~task_started' => Available' <= ActivationLimit
  <2> SUFFICES ASSUME ~task_started' PROVE Available' <= ActivationLimit
    OBVIOUS
  <2> DEFINE left == written' - readPos
  <2>1. ~(left > ActivationLimit)
    BY <1>3 DEF StartTask
  <2>2. Available' = left
    BY <1>3 DEF Available
  <2>3. left \in Int
    BY <1>2, <1>4
  <2> HIDE DEF left
  <2> QED
    BY <2>1, <2>2, <2>3, LimitIsNat
<1>10. /\ task_started' <=> task' # "suspended"
       /\ task' = "aborted" => main' = "aborted"
  BY <1>3 DEF StartTask, Base, TypeOK, LoopTypeOK, TaskTypeOK, StreamInv
<1>11. StreamInv'
  BY <1>3, <1>4, <1>9, <1>10 DEF StreamInv
<1> QED
  BY <1>6, <1>7, <1>8, <1>11 DEF Base, TypeOK

(* Taking a size from the queue. *)
LEMMA BaseDequeue == ASSUME Base, Dequeue PROVE Base'
<1> USE ConstNat
<1>1. LoopTypeOK'
  BY DEF Base, TypeOK, LoopTypeOK, Dequeue
<1>2. TaskTypeOK'
  BY DEF Base, TypeOK, LoopTypeOK, TaskTypeOK, Dequeue
<1>3. HistoryTypeOK'
  BY DEF Base, TypeOK, HistoryTypeOK, Dequeue, history
<1>4. StreamInv'
  BY DEF Base, StreamInv, Dequeue, history, Available, Current
<1> QED
  BY <1>1, <1>2, <1>3, <1>4 DEF Base, TypeOK

(* Reading the bytes of a frame, or what there is of them. *)
LEMMA BaseReadBuffer == ASSUME Base, ReadBuffer PROVE Base'
<1> USE ConstNat, SizeIsNat
<1> DEFINE n == Minimum(size, Available)
<1>1. /\ written \in 0..MaxBytes /\ readPos \in 0..MaxBytes
      /\ readPos <= written /\ Available <= BufferSize
      /\ n \in 0..Available
  BY DEF Base, TypeOK, LoopTypeOK, TaskTypeOK, StreamInv, Minimum, Available
<1>2. readPos' = readPos + n /\ data' = [start |-> readPos, size |-> n]
      /\ pend' = IF pend = <<>> THEN <<>> ELSE Tail(pend)
  BY DEF ReadBuffer
<1> HIDE DEF n
<1>3. readPos' \in 0..MaxBytes /\ readPos' <= written /\ data' \in Interval
      /\ written - readPos' <= Available
  BY <1>1, <1>2 DEF Available, Interval
<1>4. LoopTypeOK'
  BY <1>3 DEF Base, TypeOK, LoopTypeOK, ReadBuffer
<1>5. TaskTypeOK'
  BY <1>3 DEF Base, TypeOK, TaskTypeOK, ReadBuffer
<1>6. HistoryTypeOK'
  BY <1>2 DEF Base, TypeOK, HistoryTypeOK, ReadBuffer
<1>7. Available' <= Available /\ Available' <= BufferSize
  BY <1>1, <1>3 DEF ReadBuffer, Available
<1>8. main' \in {main, "aborted"} /\ task # "suspended" /\ task' # "suspended"
  BY DEF ReadBuffer
<1>9. StreamInv'
  BY <1>3, <1>7, <1>8
  DEF Base, TypeOK, TaskTypeOK, StreamInv, ReadBuffer, Available, Current
<1> QED
  BY <1>4, <1>5, <1>6, <1>9 DEF Base, TypeOK

(* Handing a frame to the decoder. *)
LEMMA BaseAudioWrite == ASSUME Base, AudioWrite PROVE Base'
<1> USE DEF Base, TypeOK, AudioWrite, loopVars
<1>1. LoopTypeOK'
  BY DEF LoopTypeOK
<1>2. TaskTypeOK'
  BY DEF TaskTypeOK
<1>3. HistoryTypeOK'
  BY DEF TaskTypeOK, HistoryTypeOK
<1>4. StreamInv'
  BY DEF StreamInv, Available, Current
<1> QED
  BY <1>1, <1>2, <1>3, <1>4

(* No step breaks them. *)
LEMMA BaseStep ==
  ASSUME Base, [Next]_vars
  PROVE  Base'
<1>1. CASE UNCHANGED vars
  BY <1>1
  DEF Base, TypeOK, LoopTypeOK, TaskTypeOK, HistoryTypeOK, StreamInv, vars,
      loopVars, taskVars, history, Available, Current
<1>2. CASE WriteAudio
  BY <1>2, BaseEnqueue, BaseOversize, BaseWrite DEF WriteAudio
<1>3. CASE Copy
  BY <1>3, BaseDequeue, BaseReadBuffer, BaseAudioWrite DEF Copy
<1> QED
  BY <1>1, <1>2, <1>3, BaseBegin, BaseEnd DEF Next

(* They hold in every reachable state. *)
LEMMA BaseInvariant == Spec => []Base
  BY BaseInit, BaseStep, PTL DEF Spec

(* Every variable keeps its type and the size queue its bound. *)
THEOREM TypeCorrect == Spec => []TypeOK
  BY BaseInvariant, PTL DEF Base

(* writeAudio() never waits for room while no task is there to make it, if *)
(* a frame fits above the activation level.                                *)
THEOREM NoWaitWithoutReader == Spec => []BlockedOnlyBehindReader
<1>1. Base => BlockedOnlyBehindReader
  <2> SUFFICES ASSUME Base,
                      \A n \in FrameSizes :
                        n <= BufferSize => n + ActivationLimit <= BufferSize,
                      main = "writing",
                      Available + Current.size > BufferSize
               PROVE  task \in {"running", "aborted"}
    BY DEF BlockedOnlyBehindReader
  <2> DEFINE c == Current.size
  <2>1. /\ c \in FrameSizes
        /\ c <= BufferSize
        /\ Available + c > BufferSize
        /\ ~task_started => Available <= ActivationLimit
    BY DEF Base, StreamInv
  <2> HIDE DEF c
  <2>2. Available \in Int /\ c \in Nat
    BY <2>1, ConstNat, SizeIsNat DEF Base, TypeOK, LoopTypeOK, Available
  <2>3. task_started
    BY <2>1, <2>2, ConstNat, LimitIsNat
  <2> QED
    BY <2>3 DEF Base, TypeOK, TaskTypeOK, StreamInv
<1> QED
  BY <1>1, BaseInvariant, PTL

-----------------------------------------------------------------------------
(***************************************************************************)
(* The framing: while no restart or short write has damaged it, the frames *)
(* that wait lie end to end in the stream.                                 *)
(***************************************************************************)

(* An interval has a start and a size. *)
LEMMA IntervalNat ==
  /\ \A f \in Interval : f.start \in Nat /\ f.size \in Nat
  /\ \A s \in Seq(Interval) : \A i \in 1..Len(s) :
       s[i].start \in Nat /\ s[i].size \in Nat
<1>1. \A f \in Interval : f.start \in Nat /\ f.size \in Nat
  BY ConstNat DEF Interval
<1> QED
  BY <1>1

(* Appending keeps the old elements in their places. *)
LEMMA AppendFacts ==
  ASSUME NEW S, NEW s \in Seq(S), NEW e \in S
  PROVE  LET t == Append(s, e)
         IN  /\ t \in Seq(S)
             /\ t # <<>>
             /\ Len(t) = Len(s) + 1
             /\ \A i \in 1..Len(s) : t[i] = s[i]
             /\ t[Len(s) + 1] = e
  OBVIOUS

(* Removing the head moves the others by one place. *)
LEMMA TailFacts ==
  ASSUME NEW S, NEW s \in Seq(S), s # <<>>
  PROVE  /\ Tail(s) \in Seq(S)
         /\ Len(s) \in Nat /\ Len(s) > 0
         /\ Len(Tail(s)) = Len(s) - 1
         /\ Head(s) = s[1]
         /\ s[1] \in S
         /\ \A i \in 1..(Len(s) - 1) : Tail(s)[i] = s[i + 1]
  OBVIOUS

(* A sequence without elements is the empty one. *)
LEMMA EmptyFacts ==
  ASSUME NEW S, NEW s \in Seq(S)
  PROVE  Len(s) \in Nat /\ (s = <<>> <=> Len(s) = 0)
  OBVIOUS

(* When copy() gets to read, all bytes of its frame are in the stream. *)
LEMMA ReadIsWhole ==
  ASSUME Base, Framing, copyPc = "read", Available > 0
  PROVE  /\ pend # <<>>
         /\ Minimum(size, Available) = size
         /\ pend[1] = [start |-> readPos, size |-> size]
         /\ IF Len(pend) = 1 THEN readPos + size = written
                             ELSE readPos + size = pend[2].start
<1>1. /\ pend \in Seq(Interval) /\ size_queue \in Seq(FrameSizes)
      /\ written \in Nat /\ readPos \in Nat
  BY ConstNat DEF Base, TypeOK, LoopTypeOK, HistoryTypeOK
<1>2. Len(pend) = Len(size_queue) + 1
  BY DEF Framing, Held
<1>3. Len(pend) \in Nat /\ Len(pend) >= 1 /\ pend # <<>>
  BY <1>1, <1>2, EmptyFacts
<1> DEFINE f == pend[1]
<1>4. f.start = readPos /\ f.size = size
  BY <1>3 DEF Framing
<1>5. f \in Interval
  BY <1>1, <1>3
<1>6. f = [start |-> readPos, size |-> size] /\ size \in Nat
  BY <1>4, <1>5, IntervalNat DEF Interval
<1>7. f.start + f.size = IF 1 = Len(pend) THEN Finish ELSE pend[1 + 1].start
  BY <1>3 DEF Framing
<1>8. CASE Len(pend) = 1
  <2>1. main # "writing"
    <3> SUFFICES ASSUME main = "writing" PROVE FALSE
      OBVIOUS
    <3>1. pend[1] = Current /\ Current.start = written
      BY <1>8 DEF Framing, Base, StreamInv
    <3> QED
      BY <3>1, <1>4, <1>1 DEF Available
  <2>2. readPos + size = written
    BY <1>4, <1>7, <1>8, <2>1 DEF Finish
  <2> QED
    BY <2>2, <1>1, <1>3, <1>6, <1>8 DEF Minimum, Available
<1>9. CASE Len(pend) # 1
  <2>1. pend[2].start <= written /\ readPos + size = pend[2].start
    <3> DEFINE k == Len(pend)
    <3> HIDE DEF k
    <3>1. k \in Nat /\ k >= 1 /\ k # 1
      BY <1>3, <1>9 DEF k
    <3>2. 2 \in 1..k /\ 1 + 1 = 2
      BY <3>1
    <3>3. 2 \in 1..Len(pend) /\ 1 + 1 = 2
      BY <3>2 DEF k
    <3> QED
      BY <3>3, <1>4, <1>7, <1>9 DEF Framing
  <2> QED
    BY <2>1, <1>1, <1>3, <1>6, <1>9 DEF Minimum, Available
<1> QED
  BY <1>8, <1>9

(* A stream that is emptied has no frames left, and nothing is held. *)
LEMMA FramingReset ==
  ASSUME Base, Framing, Intact', Begin \/ End
  PROVE  Framing'
<1>1. /\ size_queue' = <<>> /\ pend' = <<>>
      /\ readPos' = written' /\ written' = written
      /\ main' \in {"idle", "down"} /\ task' # "aborted"
      /\ copyPc' = copyPc
  BY DEF Begin, End, taskVars, Framing
<1>2. Len(pend') = 0 /\ Len(size_queue') = 0
  BY <1>1
<1>3. copyPc # "read"
  <2>1. CASE Begin
    <3>1. pend = <<>> /\ Len(size_queue) \in Nat
      BY <2>1 DEF Begin, Framing, Base, TypeOK, LoopTypeOK
    <3>2. Len(pend) = 0
      BY <3>1
    <3> QED
      BY <3>1, <3>2 DEF Framing, Held
  <2>2. CASE End
    BY <2>2 DEF End, Intact
  <2> QED
    BY <2>1, <2>2
<1>4. Held' = 0
  BY <1>1, <1>3 DEF Held
<1> QED
  BY <1>1, <1>2, <1>3, <1>4 DEF Framing

(* The new frame begins where the last one ends. *)
LEMMA FramingEnqueue ==
  ASSUME Base, Framing, NEW n \in FrameSizes, Enqueue(n)
  PROVE  Framing'
<1> DEFINE frame == [start |-> written, size |-> n]
           k     == Len(pend)
           q     == Len(size_queue)
<1>1. /\ pend \in Seq(Interval) /\ size_queue \in Seq(FrameSizes)
      /\ accepted \in Seq(Interval)
      /\ written \in Nat /\ readPos \in Nat /\ n \in Nat
      /\ frame \in Interval
  BY ConstNat, SizeIsNat
  DEF Base, TypeOK, LoopTypeOK, HistoryTypeOK, Enqueue, Interval
<1>2. /\ accepted' = Append(accepted, frame)
      /\ pend' = Append(pend, frame)
      /\ size_queue' = Append(size_queue, n)
      /\ main = "idle" /\ main' = "writing"
      /\ UNCHANGED <<written, readPos, task, copyPc, size>>
  BY DEF Enqueue, taskVars
<1>3. frame.start = written /\ frame.size = n
  OBVIOUS
<1> HIDE DEF frame
<1>4. /\ Len(pend') = k + 1 /\ pend' # <<>>
      /\ \A i \in 1..k : pend'[i] = pend[i]
      /\ pend'[k + 1] = frame
  BY <1>1, <1>2, AppendFacts
<1>5. /\ Len(size_queue') = q + 1
      /\ \A i \in 1..q : size_queue'[i] = size_queue[i]
      /\ size_queue'[q + 1] = n
  BY <1>1, <1>2, AppendFacts
<1>6. k \in Nat /\ q \in Nat /\ (pend = <<>> <=> k = 0)
  BY <1>1, EmptyFacts
<1>7. Current' = frame
  BY <1>1, <1>2, AppendFacts DEF Current
<1>8. Held' = Held /\ Held \in {0, 1} /\ k = q + Held
  BY <1>2 DEF Held, Framing
<1>9. Finish = written /\ Finish' = written + n
  BY <1>2, <1>3, <1>7 DEF Finish
<1> HIDE DEF k, q
<1>10. task' # "aborted" /\ main' # "down" /\ Len(pend') = Len(size_queue') + Held'
  BY <1>2, <1>4, <1>5, <1>6, <1>8 DEF Framing
<1>11. \A i \in 1..Len(size_queue') : size_queue'[i] = pend'[i + Held'].size
  <2> SUFFICES ASSUME NEW i \in 1..(q + 1)
               PROVE  size_queue'[i] = pend'[i + Held].size
    BY <1>5, <1>8
  <2>1. CASE i = q + 1
    BY <2>1, <1>3, <1>4, <1>5, <1>6, <1>8
  <2>2. CASE i # q + 1
    <3>1. i \in 1..q /\ i + Held \in 1..k
      BY <2>2, <1>6, <1>8
    <3>2. size_queue[i] = pend[i + Held].size
      BY <3>1 DEF Framing, q
    <3> QED
      BY <3>1, <3>2, <1>4, <1>5
  <2> QED
    BY <2>1, <2>2
<1>12. copyPc' = "read" => size' = pend'[1].size
  <2> SUFFICES ASSUME copyPc = "read" PROVE size = pend'[1].size
    BY <1>2
  <2>1. 1 \in 1..k
    BY <1>6, <1>8 DEF Held
  <2> QED
    BY <2>1, <1>4 DEF Framing
<1>13. pend'[1].start = readPos'
  <2>1. CASE k = 0
    BY <2>1, <1>2, <1>3, <1>4, <1>6 DEF Framing
  <2>2. CASE k # 0
    <3>1. 1 \in 1..k
      BY <2>2, <1>6
    <3> QED
      BY <3>1, <2>2, <1>2, <1>4, <1>6 DEF Framing
  <2> QED
    BY <2>1, <2>2
<1>14. ASSUME NEW i \in 1..(k + 1)
       PROVE  /\ pend'[i].size \in FrameSizes
              /\ pend'[i].start <= written'
              /\ pend'[i].start + pend'[i].size
                   = IF i = k + 1 THEN Finish' ELSE pend'[i + 1].start
  <2>1. CASE i = k + 1
    BY <2>1, <1>1, <1>2, <1>3, <1>4, <1>9
  <2>2. CASE i # k + 1
    <3>1. i \in 1..k /\ (i # k => i + 1 \in 1..k)
      BY <2>2, <1>6
    <3>2. /\ pend[i].size \in FrameSizes
          /\ pend[i].start <= written
          /\ pend[i].start + pend[i].size
               = IF i = k THEN Finish ELSE pend[i + 1].start
      BY <3>1 DEF Framing, k
    <3> QED
      BY <2>2, <3>1, <3>2, <1>2, <1>3, <1>4, <1>9
  <2> QED
    BY <2>1, <2>2
<1>15. pend'[Len(pend')] = Current'
  BY <1>4, <1>7
<1> QED
  BY <1>2, <1>4, <1>10, <1>11, <1>12, <1>13, <1>14, <1>15 DEF Framing

(* Now the bytes of the last frame are in the stream. *)
LEMMA FramingWrite ==
  ASSUME Base, Framing, WriteBuffer
  PROVE  Framing'
<1> DEFINE c == Current.size
<1>1. /\ c \in Nat /\ written \in Nat /\ written' = written + c
      /\ main = "writing" /\ main' = "idle"
      /\ UNCHANGED <<readPos, size_queue, pend, copyPc, size>>
      /\ pend \in Seq(Interval)
  BY ConstNat, SizeIsNat
  DEF Base, TypeOK, LoopTypeOK, HistoryTypeOK, StreamInv, WriteBuffer, history
<1>2. Finish' = Finish /\ Held' = Held /\ pend # <<>>
  BY <1>1 DEF Finish, Held, Framing
<1>3. task' # "aborted"
  BY DEF WriteBuffer, StartTask, Framing
<1> HIDE DEF c
<1>4. \A i \in 1..Len(pend) : pend[i].start <= written'
  BY <1>1, IntervalNat DEF Framing
<1> QED
  BY <1>1, <1>2, <1>3, <1>4 DEF Framing

(* The size of the first frame is now held by copy(). *)
LEMMA FramingDequeue ==
  ASSUME Base, Framing, Dequeue
  PROVE  Framing'
<1> DEFINE q == Len(size_queue)
<1>1. /\ size_queue \in Seq(FrameSizes) /\ size_queue # <<>>
      /\ size_queue' = Tail(size_queue) /\ size' = Head(size_queue)
      /\ copyPc = "dequeue" /\ copyPc' = "read"
      /\ UNCHANGED <<main, written, readPos, task, pend, accepted>>
  BY DEF Base, TypeOK, LoopTypeOK, Dequeue, history
<1>2. /\ q \in Nat /\ q > 0 /\ Len(size_queue') = q - 1
      /\ size' = size_queue[1]
      /\ \A i \in 1..(q - 1) : size_queue'[i] = size_queue[i + 1]
  BY <1>1, TailFacts
<1>3. Held = 0 /\ Held' = 1 /\ Finish' = Finish /\ Current' = Current
  BY <1>1 DEF Held, Finish, Current
<1>4. Len(pend) = q
  BY <1>2, <1>3 DEF Framing
<1>5. \A i \in 1..q : size_queue[i] = pend[i].size
  BY <1>3, <1>2 DEF Framing
<1> HIDE DEF q
<1>6. \A i \in 1..(q - 1) : size_queue'[i] = pend[i + 1].size
  BY <1>2, <1>5
<1>7. size' = pend[1].size
  BY <1>2, <1>5
<1> QED
  BY <1>1, <1>2, <1>3, <1>4, <1>6, <1>7 DEF Framing

(* The frame that is read is the first one and leaves its place to the     *)
(* second; the assertion of copy() holds.                                  *)
LEMMA FramingReadBuffer ==
  ASSUME Base, Framing, ReadBuffer
  PROVE  Framing'
<1> DEFINE k == Len(pend)
<1>1. /\ copyPc = "read" /\ Available > 0
      /\ pend \in Seq(Interval)
      /\ UNCHANGED <<written, size_queue, accepted>>
  BY DEF Base, TypeOK, HistoryTypeOK, ReadBuffer
<1>2. /\ pend # <<>>
      /\ Minimum(size, Available) = size
      /\ IF k = 1 THEN readPos + size = written ELSE readPos + size = pend[2].start
  BY <1>1, ReadIsWhole
<1>3. /\ copyPc' = "write" /\ UNCHANGED <<task, main>>
      /\ readPos' = readPos + size /\ pend' = Tail(pend)
  BY <1>2 DEF ReadBuffer
<1>4. /\ k \in Nat /\ k > 0 /\ Len(pend') = k - 1
      /\ \A i \in 1..(k - 1) : pend'[i] = pend[i + 1]
      /\ pend' \in Seq(Interval)
  BY <1>1, <1>2, <1>3, TailFacts
<1>5. Held = 1 /\ Held' = 0 /\ Finish' = Finish /\ Current' = Current
  BY <1>1, <1>3 DEF Held, Finish, Current
<1>6. pend' = <<>> <=> k - 1 = 0
  BY <1>4, EmptyFacts
<1>7. \A i \in 1..k :
        /\ pend[i].size \in FrameSizes
        /\ pend[i].start <= written
        /\ pend[i].start + pend[i].size
             = IF i = k THEN Finish ELSE pend[i + 1].start
  BY DEF Framing
<1>8. /\ k = Len(size_queue) + 1
      /\ \A i \in 1..Len(size_queue) : size_queue[i] = pend[i + 1].size
      /\ Len(size_queue) \in Nat
  BY <1>5 DEF Framing, Base, TypeOK, LoopTypeOK
<1> DEFINE q == Len(size_queue)
<1>9. pend[k] = pend'[k - 1] \/ k = 1
  <2> HIDE DEF k
  <2> SUFFICES ASSUME k # 1 PROVE pend'[k - 1] = pend[k]
    OBVIOUS
  <2>1. k - 1 \in 1..(k - 1) /\ (k - 1) + 1 = k
    BY <1>4
  <2> QED
    BY <2>1, <1>4
<1>10. main' = "writing" => k # 1 /\ pend[k] = Current
  <2> SUFFICES ASSUME main = "writing" PROVE k # 1 /\ pend[k] = Current
    BY <1>3
  <2>1. pend[k] = Current /\ Current.start = written
    BY DEF Framing, Base, StreamInv
  <2>2. pend[1].start = readPos /\ written \in Nat /\ readPos \in Nat
    BY <1>2, ConstNat DEF Framing, Base, TypeOK, LoopTypeOK
  <2>3. readPos # written
    BY <1>1, <2>2 DEF Available
  <2> QED
    BY <2>1, <2>2, <2>3
<1> HIDE DEF k, q
<1>11. \A i \in 1..q : size_queue'[i] = pend'[i].size
  BY <1>1, <1>4, <1>8 DEF q
<1>12. IF pend' = <<>> THEN readPos' = written' ELSE pend'[1].start = readPos'
  <2>1. CASE k = 1
    BY <2>1, <1>1, <1>2, <1>3, <1>6
  <2>2. CASE k # 1
    <3>1. 1 \in 1..(k - 1) /\ 1 + 1 = 2
      BY <2>2, <1>4
    <3>2. pend'[1] = pend[2]
      BY <3>1, <1>4
    <3> QED
      BY <2>2, <3>2, <1>2, <1>3, <1>4, <1>6
  <2> QED
    BY <2>1, <2>2
<1>13. \A i \in 1..(k - 1) :
         /\ pend'[i].size \in FrameSizes
         /\ pend'[i].start <= written'
         /\ pend'[i].start + pend'[i].size
              = IF i = k - 1 THEN Finish' ELSE pend'[i + 1].start
  <2> SUFFICES ASSUME NEW i \in 1..(k - 1)
               PROVE  /\ pend'[i].size \in FrameSizes
                      /\ pend'[i].start <= written'
                      /\ pend'[i].start + pend'[i].size
                           = IF i = k - 1 THEN Finish' ELSE pend'[i + 1].start
    OBVIOUS
  <2>1. /\ i + 1 \in 1..k /\ pend'[i] = pend[i + 1]
        /\ i = k - 1 <=> i + 1 = k
        /\ i # k - 1 => i + 1 \in 1..(k - 1)
    BY <1>4
  <2>2. i # k - 1 => pend'[i + 1] = pend[(i + 1) + 1]
    BY <2>1, <1>4
  <2>3. pend[i + 1].start + pend[i + 1].size
          = IF i = k - 1 THEN Finish ELSE pend[(i + 1) + 1].start
    BY <2>1, <1>7
  <2> QED
    BY <2>1, <2>2, <2>3, <1>1, <1>5, <1>7
<1>14. Len(pend') = Len(size_queue') + Held'
  BY <1>1, <1>4, <1>5, <1>8
<1>15. \A i \in 1..Len(size_queue') : size_queue'[i] = pend'[i + Held'].size
  BY <1>1, <1>5, <1>8, <1>11 DEF q
<1>16. task' # "aborted" /\ main' # "down" /\ copyPc' # "read"
  <2>1. main # "down"
    BY <1>2 DEF Framing
  <2> QED
    BY <1>3, <2>1 DEF Framing
<1>17. main' = "writing" => pend' # <<>> /\ pend'[Len(pend')] = Current'
  BY <1>4, <1>5, <1>6, <1>9, <1>10
<1> QED
  BY <1>4, <1>12, <1>13, <1>14, <1>15, <1>16, <1>17 DEF Framing

(* The steps that touch neither the frames nor the stream. *)
LEMMA FramingOther ==
  ASSUME Base, Framing,
         AudioWrite \/ (\E n \in FrameSizes : Oversize(n)) \/ UNCHANGED vars
  PROVE  Framing'
<1>1. /\ UNCHANGED <<size_queue, written, readPos, task, size, accepted, pend>>
      /\ \/ UNCHANGED main
         \/ main = "idle" /\ main' = "stopped"
      /\ \/ UNCHANGED copyPc
         \/ copyPc = "write" /\ copyPc' = "dequeue"
  BY DEF AudioWrite, Oversize, vars, loopVars, taskVars, history
<1>2. Held' = Held /\ Finish' = Finish /\ Current' = Current
  BY <1>1 DEF Held, Finish, Current
<1> QED
  BY <1>1, <1>2 DEF Framing

(* No step of an undamaged behaviour breaks the framing. *)
LEMMA FramingStep ==
  ASSUME Base, Framing, [Next]_vars, Intact'
  PROVE  Framing'
<1>1. ~WriteShort
  BY DEF WriteShort, Intact
<1> QED
  BY <1>1, FramingReset, FramingEnqueue, FramingWrite, FramingDequeue,
     FramingReadBuffer, FramingOther
  DEF Next, WriteAudio, Copy

-----------------------------------------------------------------------------
(***************************************************************************)
(* The order of the frames, and what is queued before the task starts.     *)
(***************************************************************************)

(* An accepted frame stays an accepted frame. *)
LEMMA AcceptedGrows ==
  ASSUME Base, [Next]_vars
  PROVE  /\ Len(accepted') \in Nat /\ Len(accepted) <= Len(accepted')
         /\ \A j \in 1..Len(accepted) : accepted'[j] = accepted[j]
<1>1. accepted \in Seq(Interval) /\ Len(accepted) \in Nat
  BY DEF Base, TypeOK, HistoryTypeOK
<1>2. CASE UNCHANGED accepted
  BY <1>1, <1>2
<1>3. CASE \E n \in FrameSizes : Enqueue(n)
  <2> PICK n \in FrameSizes : Enqueue(n)
    BY <1>3
  <2> DEFINE frame == [start |-> written, size |-> n]
  <2>1. frame \in Interval /\ accepted' = Append(accepted, frame)
    BY ConstNat, SizeIsNat DEF Enqueue, Interval, Base, TypeOK, LoopTypeOK
  <2> HIDE DEF frame
  <2> QED
    BY <2>1, <1>1, AppendFacts
<1> QED
  BY <1>2, <1>3
  DEF Next, Begin, End, WriteAudio, Oversize, WriteBuffer, WriteShort, Copy,
      Dequeue, ReadBuffer, AudioWrite, vars, history

(* A frame that was accepted stays one. *)
LEMMA AcceptedStays ==
  ASSUME Base, [Next]_vars,
         NEW f, \E j \in 1..Len(accepted) : f = accepted[j]
  PROVE  \E j \in 1..Len(accepted') : f = accepted'[j]
<1>1. Len(accepted) \in Nat
  BY DEF Base, TypeOK, HistoryTypeOK
<1> QED
  BY <1>1, AcceptedGrows

(* The new frame is the last accepted one. *)
LEMMA OrderingEnqueue ==
  ASSUME Base, Ordering, NEW n \in FrameSizes, Enqueue(n)
  PROVE  Ordering'
<1> DEFINE frame == [start |-> written, size |-> n]
<1>1. frame \in Interval
  BY ConstNat, SizeIsNat DEF Enqueue, Interval, Base, TypeOK, LoopTypeOK
<1>2. /\ accepted' = Append(accepted, frame) /\ pend' = Append(pend, frame)
      /\ UNCHANGED <<readPos, copyPc, data, played>>
      /\ accepted \in Seq(Interval) /\ pend \in Seq(Interval)
  BY DEF Enqueue, taskVars, Base, TypeOK, HistoryTypeOK
<1> HIDE DEF frame
<1>3. /\ Len(accepted') = Len(accepted) + 1 /\ Len(accepted) \in Nat
      /\ accepted'[Len(accepted) + 1] = frame
      /\ Len(pend') = Len(pend) + 1 /\ Len(pend) \in Nat
      /\ \A i \in 1..Len(pend) : pend'[i] = pend[i]
      /\ pend'[Len(pend) + 1] = frame
  BY <1>1, <1>2, AppendFacts
<1>4. [Next]_vars
  BY DEF Next, WriteAudio
<1>5. \E j \in 1..Len(accepted') : frame = accepted'[j]
  <2>1. Len(accepted) + 1 \in 1..Len(accepted')
    BY <1>3
  <2> QED
    BY <2>1, <1>3
<1>6. \A i \in 1..Len(pend') : \E j \in 1..Len(accepted') : pend'[i] = accepted'[j]
  <2> SUFFICES ASSUME NEW i \in 1..Len(pend')
               PROVE  \E j \in 1..Len(accepted') : pend'[i] = accepted'[j]
    OBVIOUS
  <2>1. CASE i \in 1..Len(pend)
    <3>1. \E j \in 1..Len(accepted) : pend[i] = accepted[j]
      BY <2>1 DEF Ordering
    <3> QED
      BY <2>1, <3>1, <1>3, <1>4, AcceptedStays
  <2>2. CASE i = Len(pend) + 1
    BY <2>2, <1>3, <1>5
  <2> QED
    BY <2>1, <2>2, <1>3
<1>7. copyPc = "write" => \E j \in 1..Len(accepted') : data = accepted'[j]
  BY <1>4, AcceptedStays DEF Ordering
<1> QED
  BY <1>2, <1>6, <1>7 DEF Ordering

(* What is read is the first waiting frame; it lies behind all that was    *)
(* played.                                                                 *)
LEMMA OrderingReadBuffer ==
  ASSUME Base, Framing, Ordering, ReadBuffer
  PROVE  Ordering'
<1>1. /\ copyPc = "read" /\ Available > 0
      /\ pend \in Seq(Interval) /\ played \in Seq(Interval)
      /\ size \in Nat /\ readPos \in Nat
      /\ UNCHANGED <<accepted, played>>
  BY SizeIsNat, ConstNat
  DEF Base, TypeOK, LoopTypeOK, TaskTypeOK, HistoryTypeOK, ReadBuffer
<1>2. /\ pend # <<>> /\ Minimum(size, Available) = size
      /\ pend[1] = [start |-> readPos, size |-> size]
  BY <1>1, ReadIsWhole
<1>3. /\ pend' = Tail(pend) /\ readPos' = readPos + size /\ data' = pend[1]
      /\ data'.start = readPos /\ data'.size = size
  BY <1>2 DEF ReadBuffer
<1>4. /\ Len(pend) \in Nat /\ Len(pend) > 0 /\ Len(pend') = Len(pend) - 1
      /\ \A i \in 1..(Len(pend) - 1) : pend'[i] = pend[i + 1]
  BY <1>1, <1>2, <1>3, TailFacts
<1>5. \A i \in 1..Len(pend') : \E j \in 1..Len(accepted') : pend'[i] = accepted'[j]
  <2> SUFFICES ASSUME NEW i \in 1..Len(pend')
               PROVE  \E j \in 1..Len(accepted) : pend'[i] = accepted[j]
    BY <1>1
  <2>1. i \in 1..(Len(pend) - 1) /\ i + 1 \in 1..Len(pend)
    BY <1>4
  <2> QED
    BY <2>1, <1>4 DEF Ordering
<1>6. \E j \in 1..Len(accepted') : data' = accepted'[j]
  <2>1. 1 \in 1..Len(pend)
    BY <1>4
  <2> QED
    BY <2>1, <1>1, <1>3 DEF Ordering
<1>7. \A h \in 1..Len(played) :
        /\ played[h].start + played[h].size <= readPos
        /\ played[h].start + played[h].size \in Nat
  BY <1>1, IntervalNat DEF Ordering
<1>8. \A h \in 1..Len(played') :
        /\ played'[h].start + played'[h].size <= data'.start
        /\ played'[h].start + played'[h].size <= readPos'
  BY <1>1, <1>3, <1>7
<1>9. data'.start + data'.size <= readPos'
  BY <1>1, <1>3
<1> QED
  BY <1>5, <1>6, <1>8, <1>9 DEF Ordering

(* What is handed to the decoder comes after all that was played before.   *)
LEMMA OrderingAudioWrite ==
  ASSUME Base, Ordering, WholeInOrder, AudioWrite
  PROVE  Ordering' /\ WholeInOrder'
<1> DEFINE k == Len(played)
<1>1. /\ copyPc = "write" /\ copyPc' = "dequeue"
      /\ played' = Append(played, data)
      /\ played \in Seq(Interval) /\ data \in Interval
      /\ UNCHANGED <<readPos, accepted, pend>>
  BY DEF AudioWrite, loopVars, Base, TypeOK, TaskTypeOK, HistoryTypeOK
<1>2. /\ k \in Nat /\ Len(played') = k + 1
      /\ \A i \in 1..k : played'[i] = played[i]
      /\ played'[k + 1] = data
  BY <1>1, AppendFacts
<1>3. /\ \E j \in 1..Len(accepted) : data = accepted[j]
      /\ data.start + data.size <= readPos
      /\ \A h \in 1..k : played[h].start + played[h].size <= data.start
      /\ \A h \in 1..k : played[h].start + played[h].size <= readPos
  BY <1>1 DEF Ordering
<1> HIDE DEF k
<1>4. Ordering'
  <2>1. \A h \in 1..(k + 1) : played'[h].start + played'[h].size <= readPos
    BY <1>2, <1>3
  <2> QED
    BY <2>1, <1>1, <1>2 DEF Ordering
<1>5. WholeInOrder'
  <2> SUFFICES ASSUME NEW i \in 1..(k + 1)
               PROVE  /\ \E j \in 1..Len(accepted) : played'[i] = accepted[j]
                      /\ \A h \in 1..(i - 1) :
                           played'[h].start + played'[h].size <= played'[i].start
    BY <1>1, <1>2 DEF WholeInOrder
  <2>1. CASE i = k + 1
    <3>1. \A h \in 1..(i - 1) : h \in 1..k
      BY <2>1, <1>2
    <3> QED
      BY <2>1, <3>1, <1>2, <1>3
  <2>2. CASE i \in 1..k
    <3>1. \A h \in 1..(i - 1) : h \in 1..k
      BY <2>2, <1>2
    <3> QED
      BY <2>2, <3>1, <1>2 DEF WholeInOrder, k
  <2> QED
    BY <2>1, <2>2, <1>2
<1> QED
  BY <1>4, <1>5

(* Emptying the stream moves readPos forward. *)
LEMMA OrderingReset ==
  ASSUME Base, Ordering, Begin \/ End
  PROVE  Ordering'
<1>1. /\ pend' = <<>> /\ readPos' = written
      /\ UNCHANGED <<copyPc, data, accepted, played>>
      /\ played \in Seq(Interval) /\ data \in Interval
      /\ readPos \in Nat /\ written \in Nat /\ readPos <= written
  <2>1. /\ pend' = <<>> /\ readPos' = written
        /\ UNCHANGED <<copyPc, data, accepted, played>>
    BY DEF Begin, End, taskVars
  <2>2. /\ played \in Seq(Interval) /\ data \in Interval
        /\ readPos \in Nat /\ written \in Nat /\ readPos <= written
    BY ConstNat
    DEF Base, TypeOK, LoopTypeOK, TaskTypeOK, HistoryTypeOK, StreamInv
  <2> QED
    BY <2>1, <2>2
<1>2. \A h \in 1..Len(played) :
        /\ played[h].start + played[h].size <= readPos
        /\ played[h].start + played[h].size \in Nat
  BY <1>1, IntervalNat DEF Ordering
<1>3. \A h \in 1..Len(played) : played[h].start + played[h].size <= written
  BY <1>1, <1>2
<1>4. copyPc = "write" => data.start + data.size <= written
  BY <1>1, IntervalNat DEF Ordering
<1>5. \A i \in 1..Len(pend') : FALSE
  BY <1>1
<1> QED
  BY <1>1, <1>3, <1>4, <1>5 DEF Ordering

(* No step breaks the order of what is played. *)
LEMMA OrderingStep ==
  ASSUME Base, Framing, Ordering, WholeInOrder, [Next]_vars, Intact'
  PROVE  Ordering' /\ WholeInOrder'
<1>1. CASE AudioWrite
  BY <1>1, OrderingAudioWrite
<1>2. CASE ~AudioWrite
  <2>1. WholeInOrder'
    <3>1. UNCHANGED played
      BY <1>2
      DEF Next, Begin, End, WriteAudio, Enqueue, Oversize, WriteBuffer,
          WriteShort, Copy, Dequeue, ReadBuffer, vars, history
    <3>2. \A i \in 1..Len(played) :
            \E j \in 1..Len(accepted') : played[i] = accepted'[j]
      BY AcceptedStays DEF WholeInOrder
    <3> QED
      BY <3>1, <3>2 DEF WholeInOrder
  <2>2. CASE WriteBuffer \/ WriteShort \/ Dequeue \/ UNCHANGED vars
             \/ \E n \in FrameSizes : Oversize(n)
    <3>1. /\ UNCHANGED <<readPos, data, accepted, pend, played>>
          /\ copyPc' = "write" => copyPc = "write"
      BY <2>2
      DEF WriteBuffer, WriteShort, Dequeue, Oversize, vars, loopVars,
          taskVars, history
    <3> QED
      BY <2>1, <3>1 DEF Ordering
  <2> QED
    BY <1>2, <2>1, <2>2, OrderingEnqueue, OrderingReset, OrderingReadBuffer
    DEF Next, WriteAudio, Copy
<1> QED
  BY <1>1, <1>2

(* One more frame in the queue is at least so many more bytes. *)
LEMMA BacklogEnqueue ==
  ASSUME Base, Framing, Backlog, NEW n \in FrameSizes, Enqueue(n)
  PROVE  Backlog'
<1> SUFFICES ASSUME ~task_started,
                    NEW m \in FrameSizes, \A l \in FrameSizes : m <= l
             PROVE  m * Len(size_queue') <= Finish' - readPos'
  BY DEF Backlog, Enqueue
<1> DEFINE frame == [start |-> written, size |-> n]
           q     == Len(size_queue)
<1>1. /\ m \in Nat /\ n \in Nat /\ m <= n
      /\ written \in Nat /\ readPos \in Nat
      /\ size_queue \in Seq(FrameSizes) /\ q \in Nat
      /\ accepted \in Seq(Interval) /\ frame \in Interval
  BY SizeIsNat, ConstNat
  DEF Base, TypeOK, LoopTypeOK, HistoryTypeOK, Enqueue, Interval
<1>2. /\ accepted' = Append(accepted, frame)
      /\ size_queue' = Append(size_queue, n)
      /\ main = "idle" /\ main' = "writing" /\ UNCHANGED <<written, readPos>>
  BY DEF Enqueue
<1>3. m * q <= written - readPos
  BY <1>2 DEF Backlog, Finish
<1>4. Len(size_queue') = q + 1
  BY <1>1, <1>2, AppendFacts
<1>5. Finish' = written + n
  <2>1. frame.size = n
    OBVIOUS
  <2> HIDE DEF frame
  <2>2. Current' = frame
    BY <1>1, <1>2, AppendFacts DEF Current
  <2> QED
    BY <1>2, <2>1, <2>2 DEF Finish
<1>6. m * (q + 1) = m * q + m /\ m * q \in Nat
  BY <1>1
<1> HIDE DEF q
<1> DEFINE p == m * q
<1> HIDE DEF p
<1>7. p + m <= (written + n) - readPos
  BY <1>1, <1>3, <1>6 DEF p
<1> QED
  BY <1>2, <1>4, <1>5, <1>6, <1>7 DEF p

(* Before the task is started the queued sizes stay covered by the stream. *)
LEMMA BacklogStep ==
  ASSUME Base, Base', Framing, Backlog, [Next]_vars, Intact'
  PROVE  Backlog'
<1>1. CASE Begin \/ End
  <2>1. /\ size_queue' = <<>> /\ readPos' = written /\ Finish' = written
        /\ written \in Nat
    <3>1. /\ size_queue' = <<>> /\ readPos' = written /\ written' = written
          /\ main' # "writing"
      BY <1>1 DEF Begin, End
    <3>2. written \in Nat
      BY ConstNat DEF Base, TypeOK, LoopTypeOK
    <3> QED
      BY <3>1, <3>2 DEF Finish
  <2>2. \A m \in FrameSizes : m * Len(size_queue') = 0 /\ Finish' - readPos' = 0
    <3>1. Len(size_queue') = 0
      BY <2>1
    <3>2. \A m \in FrameSizes : m * 0 = 0
      BY SizeIsNat
    <3>3. Finish' - readPos' = 0
      BY <2>1
    <3> QED
      BY <3>1, <3>2, <3>3
  <2>3. \A m \in FrameSizes : m * Len(size_queue') <= Finish' - readPos'
    BY <2>2
  <2> QED
    BY <2>3 DEF Backlog
<1>2. CASE WriteBuffer
  <2>1. /\ UNCHANGED <<size_queue, readPos>> /\ Finish' = Finish
        /\ task_started => task_started'
    BY <1>2 DEF WriteBuffer, StartTask, Finish
  <2> QED
    BY <2>1 DEF Backlog
<1>3. CASE Copy
  <2>1. task_started'
    BY <1>3
    DEF Copy, Dequeue, ReadBuffer, AudioWrite, loopVars, Base, TypeOK,
        LoopTypeOK, TaskTypeOK, StreamInv
  <2> QED
    BY <2>1 DEF Backlog
<1>4. CASE UNCHANGED vars \/ \E n \in FrameSizes : Oversize(n)
  <2>1. /\ UNCHANGED <<size_queue, readPos, task_started>> /\ Finish' = Finish
    BY <1>4 DEF vars, loopVars, history, Oversize, Finish, Current
  <2> QED
    BY <2>1 DEF Backlog
<1>5. ~WriteShort
  BY DEF WriteShort, Intact
<1> QED
  BY <1>1, <1>2, <1>3, <1>4, <1>5, BacklogEnqueue DEF Next, WriteAudio

(* A framing that is undamaged after a step was so before it. *)
LEMMA IntactBackwards ==
  ASSUME Base, [Next]_vars, Intact'
  PROVE  Intact
<1>1. CASE End
  BY <1>1 DEF End, Intact
<1>2. CASE WriteShort
  BY <1>2 DEF WriteShort, Intact
<1>3. CASE ~End /\ ~WriteShort
  <2>1. UNCHANGED <<interrupted, overflowed>>
    BY <1>3
    DEF Next, Begin, WriteAudio, Enqueue, Oversize, WriteBuffer, Copy,
        Dequeue, ReadBuffer, AudioWrite, vars, history
  <2> QED
    BY <2>1 DEF Intact
<1> QED
  BY <1>1, <1>2, <1>3

(* The inductive invariant holds at the start. *)
LEMMA InvInit == Init => Inv
<1> SUFFICES ASSUME Init PROVE Inv
  OBVIOUS
<1>1. Len(pend) = 0 /\ Len(size_queue) = 0 /\ Len(played) = 0
  BY DEF Init
<1>2. Framing
  BY <1>1 DEF Init, Framing, Held
<1>3. Ordering /\ WholeInOrder
  BY <1>1 DEF Init, Ordering, WholeInOrder
<1>4. Backlog
  <2>1. \A m \in FrameSizes : m * Len(size_queue) = 0 /\ Finish - readPos = 0
    BY <1>1, SizeIsNat DEF Init, Finish
  <2> QED
    BY <2>1 DEF Backlog
<1> QED
  BY <1>2, <1>3, <1>4, BaseInit DEF Inv, Base

(* No step breaks the inductive invariant. *)
LEMMA InvStep ==
  ASSUME Base, Inv, [Next]_vars
  PROVE  Inv'
<1>1. Base'
  BY BaseStep
<1>2. ASSUME Intact' PROVE (Framing /\ Ordering /\ Backlog /\ WholeInOrder)'
  <2>1. Intact
    BY <1>2, IntactBackwards
  <2> QED
    BY <1>1, <1>2, <2>1, FramingStep, OrderingStep, BacklogStep DEF Inv
<1> QED
  BY <1>1, <1>2 DEF Inv, Base

(* The inductive invariant holds in every reachable state. *)
THEOREM InductiveInvariant == Spec => []Inv
<1>1. Init => Base /\ Inv
  BY BaseInit, InvInit
<1>2. Base /\ Inv /\ [Next]_vars => Base' /\ Inv'
  BY BaseStep, InvStep
<1> QED
  BY <1>1, <1>2, PTL DEF Spec

(* The decoder gets whole frames, each accepted by writeAudio(), in order. *)
THEOREM FramesArriveWhole == Spec => []FrameIntegrity
<1>1. Inv => FrameIntegrity
  BY DEF Inv, FrameIntegrity
<1> QED
  BY <1>1, InductiveInvariant, PTL

(* assert(read == size) in copy() never fails, as long as end() does not   *)
(* catch copy() between its two reads and no write is cut short.           *)
THEOREM AssertNeverFails == Spec => []AssertHolds
<1>1. Inv => AssertHolds
  BY DEF Inv, Framing, AssertHolds
<1> QED
  BY <1>1, InductiveInvariant, PTL

(* The size queue is never full before the task has started, if that many  *)
(* of the smallest frames pass the activation level.                       *)
THEOREM NoSilentQueue == Spec => []QueueFullOnlyBehindReader
<1>1. Base /\ Inv => QueueFullOnlyBehindReader
  <2> SUFFICES ASSUME Base, Inv,
                      NEW m \in FrameSizes,
                      QueueLen * m > ActivationLimit,
                      \A n \in FrameSizes : m <= n,
                      Intact, main = "idle", Len(size_queue) = QueueLen
               PROVE  task = "running"
    BY DEF QueueFullOnlyBehindReader
  <2>1. task_started
    <3> SUFFICES ASSUME ~task_started PROVE FALSE
      OBVIOUS
    <3>1. m * QueueLen <= Available
      BY DEF Inv, Backlog, Finish, Available
    <3>2. Available <= ActivationLimit
      BY DEF Base, StreamInv
    <3>3. m * QueueLen = QueueLen * m /\ QueueLen * m \in Nat
      BY SizeIsNat, ConstNat
    <3>4. Available \in Int
      BY ConstNat DEF Base, TypeOK, LoopTypeOK, Available
    <3> DEFINE p == QueueLen * m
    <3> HIDE DEF p
    <3>5. p > ActivationLimit /\ p <= Available /\ p \in Nat
      BY <3>1, <3>3 DEF p
    <3> QED
      BY <3>2, <3>4, <3>5, LimitIsNat
  <2>2. task \in {"suspended", "running", "aborted"} /\ task # "suspended"
    BY <2>1 DEF Base, TypeOK, TaskTypeOK, StreamInv
  <2> QED
    BY <2>2 DEF Inv, Framing
<1> QED
  BY <1>1, BaseInvariant, InductiveInvariant, PTL

-----------------------------------------------------------------------------
(***************************************************************************)
(* The client implements the abstract queue of frames.                     *)
(***************************************************************************)

(* It starts with an empty one. *)
LEMMA RefinesInit == Init => FQ!Init
  BY DEF Init, FQ!Init, Queued

(* copy() keeps what waits, moves the first frame on its way or delivers it. *)
LEMMA RefinesCopy ==
  ASSUME Base, Framing, Copy
  PROVE  FQ!Next \/ UNCHANGED FQ!vars
<1>1. pend \in Seq(Interval) /\ data \in Interval
  BY DEF Base, TypeOK, TaskTypeOK, HistoryTypeOK
<1>2. CASE Dequeue
  BY <1>2 DEF Dequeue, history, Queued, FQ!vars
<1>3. CASE ReadBuffer
  <2>1. copyPc = "read" /\ Available > 0
    BY <1>3 DEF ReadBuffer
  <2>2. /\ pend # <<>> /\ Minimum(size, Available) = size
        /\ pend[1] = [start |-> readPos, size |-> size]
    BY <2>1, ReadIsWhole
  <2>3. /\ copyPc' = "write" /\ pend' = Tail(pend) /\ data' = Head(pend)
        /\ UNCHANGED played
    BY <1>1, <1>3, <2>2 DEF ReadBuffer
  <2>4. <<Head(pend)>> \o Tail(pend) = pend
    BY <1>1, <2>2
  <2>5. Queued' = pend /\ Queued = pend
    BY <1>1, <2>1, <2>3, <2>4 DEF Queued
  <2> QED
    BY <2>3, <2>5 DEF FQ!vars
<1>4. CASE AudioWrite
  <2>1. /\ Queued = <<data>> \o pend /\ Queued' = pend
        /\ played' = Append(played, data)
    BY <1>1, <1>4 DEF AudioWrite, Queued
  <2>2. /\ Queued # <<>> /\ Head(Queued) = data /\ Tail(Queued) = pend
    BY <1>1, <2>1
  <2>3. FQ!Deliver
    BY <2>1, <2>2 DEF FQ!Deliver
  <2> QED
    BY <2>3 DEF FQ!Next
<1> QED
  BY <1>2, <1>3, <1>4 DEF Copy

(* writeAudio() accepts a frame when it queues the size. *)
LEMMA RefinesEnqueue ==
  ASSUME Base, NEW n \in FrameSizes, Enqueue(n)
  PROVE  FQ!Next
<1> DEFINE frame == [start |-> written, size |-> n]
           held  == IF copyPc = "write" THEN <<data>> ELSE <<>>
<1>1. /\ frame \in Interval
      /\ pend \in Seq(Interval) /\ held \in Seq(Interval)
  <2>1. frame \in Interval
    BY ConstNat, SizeIsNat DEF Base, TypeOK, LoopTypeOK, Enqueue, Interval
  <2>2. pend \in Seq(Interval) /\ data \in Interval
    BY DEF Base, TypeOK, TaskTypeOK, HistoryTypeOK
  <2> QED
    BY <2>1, <2>2
<1>2. /\ pend' = Append(pend, frame) /\ held' = held /\ UNCHANGED played
  BY DEF Enqueue, taskVars
<1>3. Queued = held \o pend /\ Queued' = held' \o pend'
  BY DEF Queued
<1> HIDE DEF frame, held
<1>4. held \o Append(pend, frame) = Append(held \o pend, frame)
  BY <1>1
<1>5. FQ!Accept(frame)
  BY <1>2, <1>3, <1>4 DEF FQ!Accept
<1> QED
  BY <1>1, <1>5 DEF FQ!Next

(* end() drops all but a frame on its way to the decoder; begin() finds    *)
(* nothing to drop.                                                        *)
LEMMA RefinesReset ==
  ASSUME Base, Framing, Begin \/ End
  PROVE  FQ!Next \/ UNCHANGED FQ!vars
<1>1. pend \in Seq(Interval) /\ data \in Interval
  BY DEF Base, TypeOK, TaskTypeOK, HistoryTypeOK
<1>2. pend' = <<>> /\ UNCHANGED <<copyPc, data, played>>
  BY DEF Begin, End, taskVars
<1>3. CASE copyPc = "write"
  <2>1. Queued = <<data>> \o pend /\ Queued' = <<data>> \o <<>>
    BY <1>2, <1>3 DEF Queued
  <2>2. Queued # <<>> /\ Queued' = <<Head(Queued)>>
    BY <1>1, <2>1
  <2>3. FQ!Flush
    BY <1>2, <2>2 DEF FQ!Flush
  <2> QED
    BY <2>3 DEF FQ!Next
<1>4. CASE copyPc # "write"
  <2>1. Queued' = <<>>
    BY <1>2, <1>4 DEF Queued
  <2>2. FQ!Flush
    BY <1>2, <2>1 DEF FQ!Flush
  <2> QED
    BY <2>2 DEF FQ!Next
<1> QED
  BY <1>3, <1>4

(* Every undamaged step is one of the queue of frames, or a stutter. *)
LEMMA RefinesStep ==
  ASSUME Base, Framing, [Next]_vars, Intact'
  PROVE  FQ!Next \/ UNCHANGED FQ!vars
<1>1. CASE WriteBuffer \/ UNCHANGED vars \/ \E n \in FrameSizes : Oversize(n)
  BY <1>1
  DEF WriteBuffer, Oversize, vars, taskVars, history, Queued, FQ!vars
<1>2. ~WriteShort
  BY DEF WriteShort, Intact
<1> QED
  BY <1>1, <1>2, RefinesCopy, RefinesEnqueue, RefinesReset DEF Next, WriteAudio

(* As long as the framing is intact, the stream and the queue of sizes     *)
(* behave as one queue of whole frames.                                    *)
THEOREM ImplementsFrameQueue == Spec => FrameQueue
<1>1. Base /\ Inv /\ [Next]_vars => [Intact' => FQ!Next]_(FQ!vars)
  <2> SUFFICES ASSUME Base, Inv, [Next]_vars, Intact'
               PROVE  FQ!Next \/ UNCHANGED FQ!vars
    OBVIOUS
  <2>1. Intact
    BY IntactBackwards
  <2> QED
    BY <2>1, RefinesStep DEF Inv
<1>2. Spec => []Base /\ []Inv
  BY BaseInvariant, InductiveInvariant
<1> QED
  BY <1>1, <1>2, RefinesInit, PTL DEF Spec, FrameQueue
=============================================================================
