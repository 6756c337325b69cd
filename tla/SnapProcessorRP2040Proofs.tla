----------------------- MODULE SnapProcessorRP2040Proofs -----------------------
(***************************************************************************)
(* Theorems about SnapProcessorRP2040, for queues and frames of every      *)
(* size: the types, and that the two cores implement the abstract queue of *)
(* frames as long as end() has not caught doLoop1() while it was reading.  *)
(***************************************************************************)
EXTENDS SnapProcessorRP2040, TLAPS

(* The sizes that fit below the bound of the model. *)
Sizes == FrameSizes \cap 1..MaxBytes

(* The two cores by themselves. *)
WriterType ==
  /\ core0 \in {"down", "idle", "writing", "ending", "stopped"}
  /\ left \in 0..BufferSize /\ (left = 0 <=> core0 # "writing")
  /\ written \in Nat /\ readPos \in Nat /\ readPos <= written
  /\ written - readPos <= BufferSize /\ written + left <= MaxBytes

ReaderType ==
  /\ core1 \in {"check", "activate", "return", "dequeue", "read", "write"}
  /\ size \in Sizes \cup {0} /\ data \in Interval /\ data.size <= size
  /\ core1 = "read" => data.size < size

QueuesType ==
  /\ size_queue \in Seq(Sizes) /\ Len(size_queue) <= QueueLen
  /\ pend \in Seq(Interval) /\ played \in Seq(Interval)

(* Each frame that waits has its size in the queue, but for the one that   *)
(* doLoop1() has in hand; this outlives every interruption.                *)
InHand == IF core1 \in {"read", "write"} THEN 1 ELSE 0

Counted == Len(pend) = Len(size_queue) + InHand

TypeInv ==
  /\ Counted
  /\ WriterType /\ ReaderType /\ QueuesType
  /\ is_active \in BOOLEAN /\ interrupted \in BOOLEAN

(***************************************************************************)
(* The frames of s lie end to end in the stream, between from and to.      *)
(***************************************************************************)
Chain(s, from, to) ==
  /\ s = <<>> => from = to
  /\ s # <<>> => /\ s[1].start = from
                 /\ s[Len(s)].start + s[Len(s)].size = to
  /\ \A i \in 1..(Len(s) - 1) : s[i + 1].start = s[i].start + s[i].size

(* The frames that have not been read to their end, and where they begin.  *)
Rest == IF core1 = "write" THEN Tail(pend) ELSE pend
From == IF core1 = "read" THEN data.start ELSE readPos

(* What keeps the two queues together while nothing was interrupted: the   *)
(* frame in hand is the first that waits, the sizes are those of the       *)
(* others, and the bytes not yet read are those of the rest.               *)
InHandOK ==
  /\ core1 = "write" => pend[1] = data
  /\ core1 = "read" => /\ data.start + data.size = readPos
                       /\ pend[1].start = data.start /\ pend[1].size = size

SizesOK == \A i \in 1..Len(size_queue) : pend[i + InHand].size = size_queue[i]

StreamOK ==
  IF core0 = "ending" THEN size_queue = <<>>
                      ELSE Chain(Rest, From, written + left)

Aligned == InHandOK /\ SizesOK /\ StreamOK

Framing == ~interrupted => Aligned

IInv == TypeInv /\ Framing

-----------------------------------------------------------------------------
LEMMA Bounds ==
  /\ BufferSize \in Nat /\ QueueLen \in Nat /\ MaxBytes \in Nat
  /\ BufferSize > 0 /\ QueueLen > 0
  /\ \A n \in FrameSizes : n \in Nat /\ n > 0
  /\ \A n \in Sizes : n \in FrameSizes /\ n \in 1..MaxBytes
<1>1. \A n \in FrameSizes : n \in Nat /\ n > 0
  <2>1. FrameSizes \subseteq Nat \ {0}
    BY BufferAssumption
  <2>2. \A n \in FrameSizes : n \in Nat \ {0}
    BY <2>1, Zenon
  <2> QED BY <2>2
<1> QED BY <1>1, BufferAssumption DEF Sizes

(* One more frame at the end, and the first one taken away. *)
LEMMA ChainAppend ==
  ASSUME NEW s \in Seq(Interval), NEW from \in Int, NEW to \in Nat, NEW n \in Nat,
         Chain(s, from, to)
  PROVE  Chain(Append(s, [start |-> to, size |-> n]), from, to + n)
<1> DEFINE f == [start |-> to, size |-> n]
           t == Append(s, f)
           k == Len(s)
<1>1. k \in Nat /\ Len(t) = k + 1 /\ t[k + 1] = f /\ \A i \in 1..k : t[i] = s[i]
  OBVIOUS
<1>2. f.start = to /\ f.size = n
  OBVIOUS
<1>3. t # <<>> /\ t[Len(t)].start + t[Len(t)].size = to + n
  BY <1>1, <1>2
<1>4. t[1].start = from
  <2>1. CASE s = <<>>
    BY <1>1, <1>2, <2>1 DEF Chain
  <2>2. CASE s # <<>>
    <3>1. 1 \in 1..k
      BY <2>2
    <3> QED BY <1>1, <2>2, <3>1 DEF Chain
  <2> QED BY <2>1, <2>2
<1>5. ASSUME NEW i \in 1..k PROVE t[i + 1].start = t[i].start + t[i].size
  <2>1. CASE i = k
    <3>1. s # <<>> /\ s[k].start + s[k].size = to
      BY <2>1 DEF Chain
    <3> QED BY <1>1, <1>2, <2>1, <3>1
  <2>2. CASE i # k
    <3>1. i \in 1..(k - 1) /\ i + 1 \in 1..k /\ i \in 1..k
      BY <1>1, <2>2
    <3>2. s[i + 1].start = s[i].start + s[i].size
      BY <3>1 DEF Chain
    <3> QED BY <1>1, <3>1, <3>2
  <2> QED BY <2>1, <2>2
<1> HIDE DEF t
<1>6. 1..(Len(t) - 1) = 1..k
  BY <1>1
<1>7. Chain(t, from, to + n)
  BY <1>3, <1>4, <1>5, <1>6 DEF Chain
<1> QED BY <1>7 DEF t

LEMMA ChainTail ==
  ASSUME NEW s \in Seq(Interval), NEW from \in Int, NEW to \in Nat, s # <<>>,
         Chain(s, from, to)
  PROVE  Chain(Tail(s), s[1].start + s[1].size, to)
<1> DEFINE t == Tail(s)
           k == Len(s)
<1>1. k \in Nat /\ k >= 1 /\ Len(t) = k - 1 /\ \A i \in 1..(k - 1) : t[i] = s[i + 1]
  OBVIOUS
<1>2. CASE k = 1
  <2>1. s[1].start + s[1].size = to
    BY <1>2 DEF Chain
  <2>2. Len(t) = 0 /\ t \in Seq(Interval)
    BY <1>1, <1>2
  <2> HIDE DEF t
  <2>3. t = <<>> /\ 1..(Len(t) - 1) = {}
    BY <2>2
  <2>4. Chain(t, s[1].start + s[1].size, to)
    BY <2>1, <2>3 DEF Chain
  <2> QED BY <2>4 DEF t
<1>3. CASE k > 1
  <2>1. t # <<>> /\ t[1] = s[2] /\ t[Len(t)] = s[k]
    <3>1. 1 \in 1..(k - 1) /\ k - 1 \in 1..(k - 1) /\ 1 + 1 = 2 /\ (k - 1) + 1 = k
      BY <1>1, <1>3
    <3>2. t[1] = s[1 + 1] /\ t[k - 1] = s[(k - 1) + 1]
      BY <1>1, <3>1
    <3>3. Len(t) # 0
      BY <1>1, <1>3
    <3> HIDE DEF t
    <3>4. t # <<>>
      BY <3>3
    <3> QED BY <1>1, <3>1, <3>2, <3>4
  <2>2. s[2].start = s[1].start + s[1].size
    <3>1. 1 \in 1..(k - 1)
      BY <1>1, <1>3
    <3>2. s[1 + 1].start = s[1].start + s[1].size
      BY <3>1 DEF Chain
    <3> QED BY <3>2
  <2>3. t[Len(t)].start + t[Len(t)].size = to
    BY <2>1 DEF Chain
  <2>4. ASSUME NEW i \in 1..(Len(t) - 1) PROVE t[i + 1].start = t[i].start + t[i].size
    <3>1. i \in 1..(k - 1) /\ i + 1 \in 1..(k - 1)
      BY <1>1
    <3>2. s[i + 1 + 1].start = s[i + 1].start + s[i + 1].size
      BY <3>1 DEF Chain
    <3> QED BY <1>1, <3>1, <3>2
  <2> HIDE DEF t
  <2>5. Chain(t, s[1].start + s[1].size, to)
    BY <2>1, <2>2, <2>3, <2>4 DEF Chain
  <2> QED BY <2>5 DEF t
<1> QED BY <1>1, <1>2, <1>3
-----------------------------------------------------------------------------
LEMMA TypeInit ==
  ASSUME Init
  PROVE  TypeInv
<1>1. WriterType
  BY Bounds DEF Init, WriterType
<1>2. ReaderType
  <2>1. data \in Interval /\ data.size = 0
    BY Bounds DEF Init, Interval
  <2> QED BY <2>1 DEF Init, ReaderType
<1>3. QueuesType
  BY Bounds DEF Init, QueuesType
<1>4. Counted
  BY DEF Init, Counted, InHand
<1> QED BY <1>1, <1>2, <1>3, <1>4 DEF TypeInv, Init

(* isBufferActive() is about is_active only.                               *)
LEMMA Activity ==
  ASSUME isBufferActive
  PROVE  /\ core1 \in {"check", "activate", "return"}
         /\ core1' \in {"activate", "return", "dequeue", "check"}
         /\ UNCHANGED <<core0, left, size_queue, written, readPos, size, data, pend,
                       played, interrupted>>
BY DEF isBufferActive, CheckActive, Activate, ReturnActive, queues

LEMMA WriterNext ==
  ASSUME TypeInv, [Next]_vars
  PROVE  WriterType'
<1>1. /\ core0 \in {"down", "idle", "writing", "ending", "stopped"}
      /\ left \in Nat /\ left <= BufferSize /\ (left = 0 <=> core0 # "writing")
      /\ written \in Nat /\ readPos \in Nat /\ readPos <= written
      /\ written - readPos <= BufferSize /\ written + left <= MaxBytes
      /\ BufferSize \in Nat /\ MaxBytes \in Nat
  BY Bounds DEF TypeInv, WriterType
<1>2. ASSUME UNCHANGED <<core0, left, written, readPos>> PROVE WriterType'
  BY <1>1, <1>2 DEF WriterType
<1>3. CASE Begin
  BY <1>1, <1>3 DEF Begin, WriterType, queues
<1>4. CASE EndSizes
  BY <1>1, <1>4 DEF EndSizes, WriterType
<1>5. CASE EndBuffer
  BY <1>1, <1>5 DEF EndBuffer, WriterType
<1>6. ASSUME NEW n \in FrameSizes, Enqueue(n) PROVE WriterType'
  <2>1. n \in Nat /\ n > 0 /\ n <= BufferSize
    BY <1>6, Bounds DEF Enqueue
  <2>2. /\ core0' = "writing" /\ left' = n /\ written' = written /\ readPos' = readPos
        /\ written + n <= MaxBytes
    BY <1>6 DEF Enqueue
  <2> QED BY <1>1, <2>1, <2>2 DEF WriterType
<1>7. ASSUME NEW n \in FrameSizes, Oversize(n) PROVE WriterType'
  BY <1>1, <1>7 DEF Oversize, WriterType, queues
<1>8. CASE WriteByte
  <2>1. /\ core0 = "writing" /\ written - readPos < BufferSize
        /\ written' = written + 1 /\ left' = left - 1 /\ readPos' = readPos
        /\ core0' = IF left = 1 THEN "idle" ELSE "writing"
    BY <1>8 DEF WriteByte, Available
  <2>2. left >= 1
    BY <1>1, <2>1
  <2>3. /\ written' \in Nat /\ left' \in Nat /\ left' <= BufferSize
        /\ written' - readPos <= BufferSize /\ written' + left' <= MaxBytes
        /\ readPos <= written'
    BY <1>1, <2>1, <2>2
  <2>4. left' = 0 <=> core0' # "writing"
    BY <1>1, <2>1
  <2> QED BY <1>1, <2>1, <2>3, <2>4 DEF WriterType
<1>9. CASE ReadByte
  <2>1. readPos' = readPos + 1 /\ written - readPos > 0 /\ UNCHANGED <<core0, left, written>>
    BY <1>9 DEF ReadByte, Available
  <2> QED BY <1>1, <2>1 DEF WriterType
<1>10. CASE isBufferActive \/ Dequeue \/ AudioWrite \/ UNCHANGED vars
  BY <1>2, <1>10, Activity DEF Dequeue, AudioWrite, vars, queues
<1> QED BY <1>3, <1>4, <1>5, <1>6, <1>7, <1>8, <1>9, <1>10 DEF Next, DoLoop1

LEMMA ReaderNext ==
  ASSUME TypeInv, [Next]_vars
  PROVE  ReaderType'
<1>1. /\ core1 \in {"check", "activate", "return", "dequeue", "read", "write"}
      /\ size \in Sizes \cup {0} /\ data \in Interval /\ data.size <= size
      /\ core1 = "read" => data.size < size
      /\ size \in Nat /\ size <= MaxBytes /\ MaxBytes \in Nat
  BY Bounds DEF TypeInv, ReaderType
<1>2. data.start \in 0..MaxBytes /\ data.size \in 0..MaxBytes
  BY <1>1 DEF Interval
<1>3. ASSUME UNCHANGED <<size, data>>, core1' \in {"check", "activate", "return", "dequeue", "write"}
      PROVE  ReaderType'
  BY <1>1, <1>3 DEF ReaderType
<1>4. ASSUME UNCHANGED <<size, data, core1>> PROVE ReaderType'
  BY <1>1, <1>4 DEF ReaderType
<1>5. CASE isBufferActive \/ AudioWrite
  BY <1>3, <1>5, Activity DEF AudioWrite
<1>6. CASE Dequeue
  <2>1. CASE size_queue = <<>>
    BY <1>3, <1>6, <2>1 DEF Dequeue
  <2>2. CASE size_queue # <<>>
    <3>1. /\ core1' = "read" /\ size' = Head(size_queue)
          /\ data' = [start |-> readPos, size |-> 0]
      BY <1>6, <2>2 DEF Dequeue
    <3>2. size_queue \in Seq(Sizes)
      BY DEF TypeInv, QueuesType
    <3>3. size' \in Sizes
      BY <2>2, <3>1, <3>2
    <3>4. size' \in Nat /\ size' > 0
      BY <3>3, Bounds
    <3>5. readPos \in 0..MaxBytes
      BY Bounds DEF TypeInv, WriterType
    <3>6. data' \in Interval /\ data'.size = 0
      BY <1>1, <3>1, <3>5 DEF Interval
    <3> QED BY <3>1, <3>3, <3>4, <3>6 DEF ReaderType
  <2> QED BY <2>1, <2>2
<1>7. CASE ReadByte
  <2>1. /\ core1 = "read" /\ size' = size
        /\ data' = [data EXCEPT !.size = data.size + 1]
        /\ core1' = IF data.size + 1 = size THEN "write" ELSE "read"
    BY <1>7 DEF ReadByte
  <2>2. data.size < size
    BY <1>1, <2>1
  <2> DEFINE k == data.size + 1
  <2>3. k \in 0..MaxBytes /\ k <= size
    BY <1>1, <1>2, <2>2
  <2>4. data' = [data EXCEPT !.size = k]
    BY <2>1
  <2>5. core1' = IF k = size THEN "write" ELSE "read"
    BY <2>1
  <2> HIDE DEF k
  <2>6. data' \in Interval /\ data'.size = k
    BY <1>1, <2>3, <2>4 DEF Interval
  <2>7. core1' = "read" => k < size
    BY <1>1, <2>3, <2>5
  <2> QED BY <1>1, <2>1, <2>3, <2>5, <2>6, <2>7 DEF ReaderType
<1>8. CASE Begin \/ EndSizes \/ EndBuffer \/ WriteByte \/ UNCHANGED vars
  BY <1>4, <1>8 DEF Begin, EndSizes, EndBuffer, WriteByte, vars, local1
<1>9. ASSUME NEW n \in FrameSizes, Enqueue(n) \/ Oversize(n) PROVE ReaderType'
  BY <1>4, <1>9 DEF Enqueue, Oversize, local1
<1> QED BY <1>5, <1>6, <1>7, <1>8, <1>9 DEF Next, DoLoop1

(* What doLoop1() has in hand is the first of those that wait. *)
LEMMA InHandFirst ==
  ASSUME TypeInv, core1 \in {"read", "write"}
  PROVE  /\ pend # <<>> /\ Len(pend) \in Nat /\ Len(pend) >= 1
         /\ SubSeq(pend, 1, 1) \in Seq(Interval)
         /\ SubSeq(pend, 1, 1) = <<Head(pend)>> /\ Len(SubSeq(pend, 1, 1)) = 1
         /\ Head(pend) = pend[1]
<1>1. /\ pend \in Seq(Interval) /\ size_queue \in Seq(Sizes)
      /\ Len(pend) = Len(size_queue) + 1
  BY DEF TypeInv, QueuesType, Counted, InHand
<1>2. Len(pend) \in Nat /\ Len(pend) >= 1
  <2>1. Len(size_queue) \in Nat /\ Len(pend) \in Nat
    BY <1>1
  <2> QED BY <1>1, <2>1
<1>3. pend # <<>>
  BY <1>2
<1>4. /\ SubSeq(pend, 1, 1) \in Seq(Interval) /\ Len(SubSeq(pend, 1, 1)) = 1
      /\ SubSeq(pend, 1, 1)[1] = pend[1]
  BY <1>1, <1>2
<1>5. SubSeq(pend, 1, 1) = <<pend[1]>>
  <2> DEFINE s == SubSeq(pend, 1, 1)
             x == pend[1]
  <2>1. s \in Seq(Interval) /\ Len(s) = 1 /\ s[1] = x
    BY <1>4
  <2> HIDE DEF s, x
  <2>2. s = <<x>>
    BY <2>1
  <2> QED BY <2>2 DEF s, x
<1>6. Head(pend) = pend[1]
  BY <1>1, <1>3
<1> QED BY <1>2, <1>3, <1>4, <1>5, <1>6

LEMMA QueuesNext ==
  ASSUME TypeInv, [Next]_vars
  PROVE  QueuesType'
<1>1. /\ size_queue \in Seq(Sizes) /\ Len(size_queue) <= QueueLen
      /\ pend \in Seq(Interval) /\ played \in Seq(Interval)
      /\ Len(size_queue) \in Nat /\ QueueLen \in Nat
  BY Bounds DEF TypeInv, QueuesType
<1>2. ASSUME UNCHANGED <<size_queue, pend, played>> PROVE QueuesType'
  BY <1>1, <1>2 DEF QueuesType
<1>3. CASE EndSizes
  <2>1. core1 \in {"read", "write"} => SubSeq(pend, 1, 1) \in Seq(Interval)
    BY InHandFirst
  <2>2. pend' \in Seq(Interval) /\ size_queue' = <<>> /\ played' = played
    BY <1>3, <2>1 DEF EndSizes
  <2> QED BY <1>1, <2>2 DEF QueuesType
<1>4. ASSUME NEW n \in FrameSizes, Enqueue(n) PROVE QueuesType'
  <2>1. n \in Nat /\ n > 0 /\ written \in Nat /\ written + n <= MaxBytes /\ MaxBytes \in Nat
    BY <1>4, Bounds DEF Enqueue, TypeInv, WriterType
  <2>2. n \in Sizes
    BY <2>1 DEF Sizes
  <2>3. [start |-> written, size |-> n] \in Interval
    BY <2>1 DEF Interval
  <2>4. /\ size_queue' = Append(size_queue, n) /\ Len(size_queue) < QueueLen
        /\ pend' = Append(pend, [start |-> written, size |-> n]) /\ played' = played
    BY <1>4 DEF Enqueue
  <2>5. size_queue' \in Seq(Sizes) /\ Len(size_queue') = Len(size_queue) + 1
    BY <1>1, <2>2, <2>4
  <2>6. Len(size_queue') <= QueueLen
    BY <1>1, <2>4, <2>5
  <2> QED BY <1>1, <2>3, <2>4, <2>5, <2>6 DEF QueuesType
<1>5. CASE Dequeue
  <2>1. CASE size_queue = <<>>
    BY <1>2, <1>5, <2>1 DEF Dequeue
  <2>2. CASE size_queue # <<>>
    <3>1. size_queue' = Tail(size_queue) /\ pend' = pend /\ played' = played
      BY <1>5, <2>2 DEF Dequeue
    <3>2. size_queue' \in Seq(Sizes) /\ Len(size_queue') = Len(size_queue) - 1
      BY <1>1, <2>2, <3>1
    <3>3. Len(size_queue') <= QueueLen
      BY <1>1, <3>2
    <3> QED BY <1>1, <3>1, <3>2, <3>3 DEF QueuesType
  <2> QED BY <2>1, <2>2
<1>6. CASE AudioWrite
  <2>1. data \in Interval
    BY DEF TypeInv, ReaderType
  <2>2. /\ played' = Append(played, data) /\ size_queue' = size_queue
        /\ pend' = IF pend = <<>> THEN <<>> ELSE Tail(pend)
    BY <1>6 DEF AudioWrite, queues
  <2>3. pend' \in Seq(Interval)
    BY <1>1, <2>2
  <2> QED BY <1>1, <2>1, <2>2, <2>3 DEF QueuesType
<1>7. CASE Begin \/ EndBuffer \/ WriteByte \/ isBufferActive \/ ReadByte \/ UNCHANGED vars
  BY <1>2, <1>7, Activity DEF Begin, EndBuffer, WriteByte, ReadByte, vars, queues
<1>8. ASSUME NEW n \in FrameSizes, Oversize(n) PROVE QueuesType'
  BY <1>2, <1>8 DEF Oversize, queues
<1> QED BY <1>3, <1>4, <1>5, <1>6, <1>7, <1>8 DEF Next, DoLoop1

LEMMA CountedNext ==
  ASSUME TypeInv, [Next]_vars
  PROVE  Counted'
<1> DEFINE p == Len(pend)
           q == Len(size_queue)
<1>1. pend \in Seq(Interval) /\ size_queue \in Seq(Sizes) /\ p \in Nat /\ q \in Nat
  BY DEF TypeInv, QueuesType
<1>2. p = q + InHand /\ core1 \in {"check", "activate", "return", "dequeue", "read", "write"}
  BY DEF TypeInv, Counted, ReaderType
<1>3. ASSUME UNCHANGED <<pend, size_queue>>, InHand' = InHand PROVE Counted'
  BY <1>2, <1>3 DEF Counted
<1>4. CASE EndSizes
  <2>1. /\ size_queue' = <<>> /\ core1' = core1
        /\ pend' = IF core1 \in {"read", "write"} THEN SubSeq(pend, 1, 1) ELSE <<>>
    BY <1>4 DEF EndSizes, local1
  <2>2. CASE core1 \in {"read", "write"}
    <3>1. Len(pend') = 1 /\ Len(size_queue') = 0 /\ InHand' = 1
      BY <2>1, <2>2, InHandFirst DEF InHand
    <3> QED BY <3>1 DEF Counted
  <2>3. CASE core1 \notin {"read", "write"}
    <3>1. Len(pend') = 0 /\ Len(size_queue') = 0 /\ InHand' = 0
      BY <2>1, <2>3 DEF InHand
    <3> QED BY <3>1 DEF Counted
  <2> QED BY <2>2, <2>3
<1>5. ASSUME NEW n \in FrameSizes, Enqueue(n) PROVE Counted'
  <2> DEFINE f == [start |-> written, size |-> n]
  <2>1. size_queue' = Append(size_queue, n) /\ pend' = Append(pend, f) /\ core1' = core1
    BY <1>5 DEF Enqueue, local1
  <2>2. InHand' = InHand
    BY <2>1 DEF InHand
  <2> HIDE DEF f
  <2>3. Len(pend') = p + 1 /\ Len(size_queue') = q + 1
    BY <1>1, <2>1
  <2> QED BY <1>1, <1>2, <2>2, <2>3 DEF Counted, InHand
<1>6. CASE Dequeue
  <2>1. CASE size_queue = <<>>
    <3>1. core1 = "dequeue" /\ core1' = "check" /\ UNCHANGED <<pend, size_queue>>
      BY <1>6, <2>1 DEF Dequeue
    <3>2. InHand' = InHand
      BY <3>1 DEF InHand
    <3> QED BY <1>3, <3>1, <3>2
  <2>2. CASE size_queue # <<>>
    <3>1. /\ core1 = "dequeue" /\ core1' = "read" /\ pend' = pend
          /\ size_queue' = Tail(size_queue)
      BY <1>6, <2>2 DEF Dequeue
    <3>2. InHand = 0 /\ InHand' = 1 /\ Len(size_queue') = q - 1 /\ Len(pend') = p
      BY <1>1, <2>2, <3>1 DEF InHand
    <3> QED BY <1>1, <1>2, <3>2 DEF Counted
  <2> QED BY <2>1, <2>2
<1>7. CASE AudioWrite
  <2>1. core1 = "write" /\ core1' = "check" /\ size_queue' = size_queue
    BY <1>7 DEF AudioWrite, queues
  <2>2. pend # <<>>
    BY <2>1, InHandFirst
  <2>3. pend' = Tail(pend)
    BY <1>7, <2>2 DEF AudioWrite
  <2>4. InHand = 1 /\ InHand' = 0 /\ Len(pend') = p - 1 /\ Len(size_queue') = q
    BY <1>1, <2>1, <2>2, <2>3 DEF InHand
  <2> QED BY <1>1, <1>2, <2>4 DEF Counted
<1>8. CASE ReadByte
  <2>1. /\ core1 = "read" /\ core1' \in {"read", "write"}
        /\ UNCHANGED <<pend, size_queue>>
    BY <1>8 DEF ReadByte
  <2>2. InHand' = InHand
    BY <2>1 DEF InHand
  <2> QED BY <1>3, <2>1, <2>2
<1>9. CASE isBufferActive
  <2>1. /\ core1 \in {"check", "activate", "return"}
        /\ core1' \in {"activate", "return", "dequeue", "check"}
        /\ UNCHANGED <<pend, size_queue>>
    BY <1>9, Activity
  <2>2. InHand' = InHand
    BY <2>1 DEF InHand
  <2> QED BY <1>3, <2>1, <2>2
<1>10. CASE Begin \/ EndBuffer \/ WriteByte \/ UNCHANGED vars
  <2>1. core1' = core1 /\ UNCHANGED <<pend, size_queue>>
    BY <1>10 DEF Begin, EndBuffer, WriteByte, vars, queues, local1
  <2>2. InHand' = InHand
    BY <2>1 DEF InHand
  <2> QED BY <1>3, <2>1, <2>2
<1>11. ASSUME NEW n \in FrameSizes, Oversize(n) PROVE Counted'
  <2>1. core1' = core1 /\ UNCHANGED <<pend, size_queue>>
    BY <1>11 DEF Oversize, queues, local1
  <2>2. InHand' = InHand
    BY <2>1 DEF InHand
  <2> QED BY <1>3, <2>1, <2>2
<1> QED BY <1>4, <1>5, <1>6, <1>7, <1>8, <1>9, <1>10, <1>11 DEF Next, DoLoop1

LEMMA FlagsNext ==
  ASSUME TypeInv, [Next]_vars
  PROVE  is_active' \in BOOLEAN /\ interrupted' \in BOOLEAN
<1>1. is_active \in BOOLEAN /\ interrupted \in BOOLEAN
  BY DEF TypeInv
<1>2. is_active' \in BOOLEAN
  BY <1>1 DEF Next, Begin, EndSizes, EndBuffer, Enqueue, Oversize, WriteByte, DoLoop1,
              isBufferActive, CheckActive, Activate, ReturnActive, Dequeue, ReadByte,
              AudioWrite, vars
<1>3. interrupted' \in BOOLEAN
  BY <1>1 DEF Next, Begin, EndSizes, EndBuffer, Enqueue, Oversize, WriteByte, DoLoop1,
              isBufferActive, CheckActive, Activate, ReturnActive, Dequeue, ReadByte,
              AudioWrite, vars
<1> QED BY <1>2, <1>3

LEMMA TypeNext ==
  ASSUME TypeInv, [Next]_vars
  PROVE  TypeInv'
BY WriterNext, ReaderNext, QueuesNext, CountedNext, FlagsNext DEF TypeInv

LEMMA TypesAgree == TypeInv => TypeOK
<1> SUFFICES ASSUME TypeInv PROVE TypeOK
  OBVIOUS
<1>1. /\ core0 \in {"down", "idle", "writing", "ending", "stopped"} /\ left \in 0..BufferSize
      /\ written \in 0..MaxBytes /\ readPos \in 0..written /\ Available <= BufferSize
  BY Bounds DEF TypeInv, WriterType, Available
<1>2. /\ core1 \in {"check", "activate", "return", "dequeue", "read", "write"}
      /\ size \in FrameSizes \cup {0} /\ data \in Interval /\ data.size <= size
  BY DEF TypeInv, ReaderType, Sizes
<1>3. size_queue \in Seq(FrameSizes)
  <2>1. size_queue \in Seq(Sizes) /\ Sizes \subseteq FrameSizes
    BY DEF TypeInv, QueuesType, Sizes
  <2> QED BY <2>1
<1> QED BY <1>1, <1>2, <1>3 DEF TypeInv, QueuesType, TypeOK

(* Every variable keeps its type and both queues their bounds. *)
THEOREM TypeCorrect == Spec => []TypeOK
BY TypeInit, TypeNext, TypesAgree, PTL DEF Spec
-----------------------------------------------------------------------------
(* What the steps of the lemma on Framing have in common. *)
LEMMA Basics ==
  ASSUME TypeInv
  PROVE  /\ pend \in Seq(Interval) /\ size_queue \in Seq(Sizes)
         /\ Len(pend) \in Nat /\ Len(size_queue) \in Nat
         /\ Len(pend) = Len(size_queue) + InHand
         /\ data \in [start : Nat, size : Nat] /\ data.start \in Nat /\ data.size \in Nat
         /\ written \in Nat /\ readPos \in Nat /\ left \in Nat
         /\ left = 0 <=> core0 # "writing"
         /\ size \in Nat /\ core1 \in {"check", "activate", "return", "dequeue", "read", "write"}
         /\ From \in Int
<1>1. /\ pend \in Seq(Interval) /\ size_queue \in Seq(Sizes)
      /\ Len(pend) \in Nat /\ Len(size_queue) \in Nat
      /\ Len(pend) = Len(size_queue) + InHand
  BY DEF TypeInv, QueuesType, Counted
<1>2. data \in [start : Nat, size : Nat] /\ data.start \in Nat /\ data.size \in Nat
  BY DEF TypeInv, ReaderType, Interval
<1>3. /\ written \in Nat /\ readPos \in Nat /\ left \in Nat
      /\ left = 0 <=> core0 # "writing"
  BY Bounds DEF TypeInv, WriterType
<1>4. size \in Nat /\ core1 \in {"check", "activate", "return", "dequeue", "read", "write"}
  BY Bounds DEF TypeInv, ReaderType
<1> QED BY <1>1, <1>2, <1>3, <1>4 DEF From

LEMMA FramingInit ==
  ASSUME Init
  PROVE  Framing
BY DEF Init, Framing, Aligned, InHandOK, SizesOK, StreamOK, Chain, Rest, From

LEMMA FramingNext ==
  ASSUME TypeInv, Framing, [Next]_vars, ~interrupted'
  PROVE  Aligned'
<1> DEFINE p == Len(pend)
           q == Len(size_queue)
<1>1. ~interrupted
  BY DEF Next, Begin, EndSizes, EndBuffer, Enqueue, Oversize, WriteByte, DoLoop1,
         isBufferActive, CheckActive, Activate, ReturnActive, Dequeue, ReadByte,
         AudioWrite, vars
<1>2. InHandOK /\ SizesOK /\ StreamOK
  BY <1>1 DEF Framing, Aligned
<1>3. /\ pend \in Seq(Interval) /\ size_queue \in Seq(Sizes) /\ p \in Nat /\ q \in Nat
      /\ p = q + InHand
      /\ written \in Nat /\ readPos \in Nat /\ left \in Nat /\ From \in Int
      /\ left = 0 <=> core0 # "writing"
      /\ core1 \in {"check", "activate", "return", "dequeue", "read", "write"}
  BY Basics
<1>4. ASSUME UNCHANGED <<pend, size_queue, data, size, core1>>,
             core0' # "ending", core0 # "ending",
             readPos' = readPos, written' + left' = written + left
      PROVE  Aligned'
  BY <1>2, <1>4 DEF Aligned, InHandOK, SizesOK, StreamOK, Rest, From, InHand
<1>5. CASE UNCHANGED vars
  BY <1>2, <1>5 DEF vars, queues, local1, Aligned, InHandOK, SizesOK, StreamOK, Rest,
                    From, InHand
<1>6. CASE Begin
  BY <1>4, <1>6 DEF Begin, queues, local1
<1>7. ASSUME NEW n \in FrameSizes, Oversize(n) PROVE Aligned'
  BY <1>4, <1>7 DEF Oversize, queues, local1
<1>8. CASE EndSizes
  <2>1. /\ size_queue' = <<>> /\ core0' = "ending"
        /\ UNCHANGED <<data, size, core1, readPos>>
        /\ pend' = IF core1 \in {"read", "write"} THEN SubSeq(pend, 1, 1) ELSE <<>>
    BY <1>8 DEF EndSizes, local1
  <2>2. core1 \in {"read", "write"} => pend'[1] = pend[1]
    <3> SUFFICES ASSUME core1 \in {"read", "write"} PROVE pend'[1] = pend[1]
      OBVIOUS
    <3>1. pend' = <<Head(pend)>> /\ Head(pend) = pend[1]
      BY <2>1, InHandFirst
    <3> QED BY <3>1
  <2>3. InHandOK'
    BY <1>2, <2>1, <2>2 DEF InHandOK
  <2>4. SizesOK'
    BY <2>1 DEF SizesOK
  <2> QED BY <2>1, <2>3, <2>4 DEF Aligned, StreamOK
<1>9. CASE EndBuffer
  <2>1. /\ core0 = "ending" /\ core0' = "down" /\ readPos' = written
        /\ UNCHANGED <<size_queue, written, left, data, size, core1, pend>>
        /\ core1 # "read"
    BY <1>9 DEF EndBuffer, local1
  <2>2. size_queue = <<>> /\ q = 0 /\ left = 0
    BY <1>2, <1>3, <2>1 DEF StreamOK
  <2>3. Rest = <<>>
    <3>1. CASE core1 = "write"
      <4>1. p = 1
        BY <1>3, <2>2, <3>1 DEF InHand
      <4> DEFINE t == Tail(pend)
      <4>2. pend # <<>>
        BY <3>1, InHandFirst
      <4>3. t \in Seq(Interval) /\ Len(t) = p - 1
        BY <1>3, <4>2
      <4> HIDE DEF t
      <4>4. Len(t) = 0
        BY <4>1, <4>3
      <4>5. t = <<>>
        BY <4>3, <4>4
      <4> QED BY <3>1, <4>5 DEF Rest, t
    <3>2. CASE core1 # "write"
      <4>1. p = 0
        BY <1>3, <2>1, <2>2, <3>2 DEF InHand
      <4>2. pend = <<>>
        BY <1>3, <4>1
      <4> QED BY <3>2, <4>2 DEF Rest
    <3> QED BY <3>1, <3>2
  <2>4. Rest' = <<>> /\ From' = written' + left'
    BY <1>3, <2>1, <2>2, <2>3 DEF Rest, From
  <2>5. StreamOK'
    <3>1. Chain(Rest', From', written' + left')
      BY <2>4 DEF Chain
    <3> QED BY <2>1, <3>1 DEF StreamOK
  <2>6. InHandOK' /\ SizesOK'
    BY <1>2, <2>1, <2>2 DEF InHandOK, SizesOK
  <2> QED BY <2>5, <2>6 DEF Aligned
<1>10. ASSUME NEW n \in FrameSizes, Enqueue(n) PROVE Aligned'
  <2> DEFINE f == [start |-> written, size |-> n]
  <2>1. /\ core0 = "idle" /\ core0' = "writing" /\ left' = n
        /\ size_queue' = Append(size_queue, n) /\ pend' = Append(pend, f)
        /\ UNCHANGED <<written, readPos, data, size, core1>>
    BY <1>10 DEF Enqueue, local1
  <2>2. n \in Nat /\ left = 0
    BY <1>3, <2>1, Bounds
  <2>3. f \in [start : Nat, size : Nat] /\ f.size = n
    BY <1>3, <2>2
  <2>4. f \in Interval
    <3>1. written + n <= MaxBytes
      BY <1>10 DEF Enqueue
    <3> QED BY <1>3, <2>2, <3>1, Bounds DEF Interval
  <2>5. Chain(Rest, From, written)
    BY <1>2, <1>3, <2>1, <2>2 DEF StreamOK
  <2>6. Rest \in Seq(Interval) /\ (core1 = "write" => pend # <<>>)
    <3>1. core1 = "write" => pend # <<>>
      BY InHandFirst
    <3> QED BY <1>3, <3>1 DEF Rest
  <2>7. Chain(Append(Rest, f), From, written + n)
    BY <1>3, <2>2, <2>5, <2>6, ChainAppend
  <2> HIDE DEF f
  <2>8. Rest' = Append(Rest, f)
    <3>1. CASE core1 = "write"
      <4>1. Tail(Append(pend, f)) = Append(Tail(pend), f)
        BY <1>3, <2>4, <2>6, <3>1
      <4> QED BY <2>1, <3>1, <4>1 DEF Rest
    <3>2. CASE core1 # "write"
      BY <2>1, <3>2 DEF Rest
    <3> QED BY <3>1, <3>2
  <2>9. From' = From /\ InHand' = InHand
    BY <2>1 DEF From, InHand
  <2>10. StreamOK'
    BY <2>1, <2>7, <2>8, <2>9 DEF StreamOK
  <2>11. SizesOK'
    <3>1. /\ Len(size_queue') = q + 1 /\ size_queue'[q + 1] = n
          /\ \A i \in 1..q : size_queue'[i] = size_queue[i]
      BY <1>3, <2>1
    <3>2. pend'[p + 1] = f /\ \A i \in 1..p : pend'[i] = pend[i]
      BY <1>3, <2>1
    <3> SUFFICES ASSUME NEW i \in 1..(q + 1)
                 PROVE  pend'[i + InHand].size = size_queue'[i]
      BY <2>9, <3>1 DEF SizesOK
    <3>3. CASE i = q + 1
      <4>1. i + InHand = p + 1
        BY <1>3, <3>3 DEF InHand
      <4> QED BY <2>3, <3>1, <3>2, <3>3, <4>1
    <3>4. CASE i # q + 1
      <4>1. i \in 1..q /\ i + InHand \in 1..p
        BY <1>3, <3>4 DEF InHand
      <4> QED BY <1>2, <3>1, <3>2, <4>1 DEF SizesOK
    <3> QED BY <3>3, <3>4
  <2>12. InHandOK'
    <3>1. core1 \in {"read", "write"} => pend'[1] = pend[1]
      <4> SUFFICES ASSUME core1 \in {"read", "write"} PROVE pend'[1] = pend[1]
        OBVIOUS
      <4>1. p >= 1
        BY InHandFirst
      <4> QED BY <1>3, <2>1, <4>1
    <3> QED BY <1>2, <2>1, <3>1 DEF InHandOK
  <2> QED BY <2>10, <2>11, <2>12 DEF Aligned
<1>11. CASE WriteByte
  <2>1. /\ core0 = "writing" /\ core0' # "ending" /\ core0 # "ending"
        /\ written' = written + 1 /\ left' = left - 1
        /\ UNCHANGED <<pend, size_queue, data, size, core1, readPos>>
    BY <1>11 DEF WriteByte, local1
  <2>2. written' + left' = written + left
    BY <1>3, <2>1
  <2> QED BY <1>4, <2>1, <2>2
<1>12. CASE isBufferActive
  <2>1. /\ core1 \in {"check", "activate", "return"}
        /\ core1' \in {"activate", "return", "dequeue", "check"}
        /\ UNCHANGED <<core0, left, written, readPos, pend, size_queue, data, size>>
    BY <1>12, Activity
  <2>2. InHand' = InHand /\ Rest' = Rest /\ From' = From
    BY <2>1 DEF InHand, Rest, From
  <2> QED BY <1>2, <2>1, <2>2 DEF Aligned, InHandOK, SizesOK, StreamOK
<1>13. CASE Dequeue
  <2>1. /\ core1 = "dequeue" /\ UNCHANGED <<core0, left, written, readPos, pend>>
    BY <1>13 DEF Dequeue
  <2>2. CASE size_queue = <<>>
    <3>1. core1' = "check" /\ UNCHANGED <<size, data, size_queue>>
      BY <1>13, <2>2 DEF Dequeue
    <3>2. InHand' = InHand /\ Rest' = Rest /\ From' = From
      BY <2>1, <3>1 DEF InHand, Rest, From
    <3> QED BY <1>2, <2>1, <3>1, <3>2 DEF Aligned, InHandOK, SizesOK, StreamOK
  <2>3. CASE size_queue # <<>>
    <3>1. /\ core1' = "read" /\ size' = Head(size_queue) /\ size_queue' = Tail(size_queue)
          /\ data' = [start |-> readPos, size |-> 0]
      BY <1>13, <2>3 DEF Dequeue
    <3>2. InHand = 0 /\ InHand' = 1 /\ q >= 1 /\ p = q
      BY <1>3, <2>1, <2>3, <3>1 DEF InHand
    <3>3. core0 # "ending" /\ Chain(pend, readPos, written + left)
      BY <1>2, <2>1, <2>3 DEF StreamOK, Rest, From
    <3>4. pend # <<>>
      BY <1>3, <3>2
    <3>5. pend[1].start = readPos
      BY <3>3, <3>4 DEF Chain
    <3>6. pend[1].size = Head(size_queue)
      <4>1. 1 \in 1..q /\ 1 + InHand = 1 /\ size_queue[1] = Head(size_queue)
        BY <1>3, <2>3, <3>2
      <4>2. pend[1 + InHand].size = size_queue[1]
        BY <1>2, <4>1 DEF SizesOK
      <4> QED BY <4>1, <4>2
    <3>7. data'.start = readPos /\ data'.size = 0
      BY <3>1
    <3>8. InHandOK'
      BY <1>3, <2>1, <3>1, <3>5, <3>6, <3>7 DEF InHandOK
    <3>9. StreamOK'
      BY <2>1, <3>1, <3>3, <3>7 DEF StreamOK, Rest, From
    <3>10. SizesOK'
      <4>1. /\ Len(size_queue') = q - 1
            /\ \A i \in 1..(q - 1) : size_queue'[i] = size_queue[i + 1]
        BY <1>3, <2>3, <3>1
      <4> SUFFICES ASSUME NEW i \in 1..(q - 1)
                   PROVE  pend[i + 1].size = size_queue'[i]
        BY <2>1, <3>2, <4>1 DEF SizesOK
      <4>2. i + 1 \in 1..q /\ (i + 1) + InHand = i + 1
        BY <1>3, <3>2
      <4>3. pend[(i + 1) + InHand].size = size_queue[i + 1]
        BY <1>2, <4>2 DEF SizesOK
      <4> QED BY <4>1, <4>2, <4>3
    <3> QED BY <3>8, <3>9, <3>10 DEF Aligned
  <2> QED BY <2>2, <2>3
<1>14. CASE ReadByte
  <2>1. /\ core1 = "read" /\ readPos' = readPos + 1
        /\ data' = [data EXCEPT !.size = data.size + 1]
        /\ core1' = IF data.size + 1 = size THEN "write" ELSE "read"
        /\ UNCHANGED <<core0, left, size_queue, written, size, pend>>
    BY <1>14 DEF ReadByte
  <2>2. data \in [start : Nat, size : Nat] /\ data.start \in Nat /\ data.size \in Nat
    BY Basics
  <2>3. data'.start = data.start /\ data'.size = data.size + 1
    BY <2>1, <2>2
  <2>4. /\ data.start + data.size = readPos /\ pend[1].start = data.start
        /\ pend[1].size = size
    BY <1>2, <2>1 DEF InHandOK
  <2>5. data'.start + data'.size = readPos'
    BY <2>1, <2>2, <2>3, <2>4
  <2>6. pend # <<>> /\ p >= 1 /\ pend[1] \in Interval
    <3>1. pend # <<>> /\ p >= 1
      BY <2>1, InHandFirst
    <3> QED BY <1>3, <3>1
  <2>7. SizesOK'
    <3>1. InHand' = InHand
      BY <2>1 DEF InHand
    <3> QED BY <1>2, <2>1, <3>1 DEF SizesOK
  <2>8. CASE data.size + 1 = size
    <3>1. core1' = "write"
      BY <2>1, <2>8
    <3>2. pend[1] = data'
      <4> DEFINE x == pend[1]
      <4>1. x \in [start : Nat, size : Nat] /\ x.start = data.start /\ x.size = size
        BY <2>4, <2>6 DEF Interval
      <4>2. data' \in [start : Nat, size : Nat]
        BY <2>1, <2>2
      <4>3. x.start = data'.start /\ x.size = data'.size
        BY <2>3, <2>8, <4>1
      <4> HIDE DEF x
      <4>4. x = [start |-> x.start, size |-> x.size]
        BY <4>1
      <4>5. data' = [start |-> data'.start, size |-> data'.size]
        BY <4>2
      <4>6. x = data'
        BY <4>3, <4>4, <4>5
      <4> QED BY <4>6 DEF x
    <3>3. StreamOK'
      <4>1. CASE core0 = "ending"
        BY <1>2, <2>1, <4>1 DEF StreamOK
      <4>2. CASE core0 # "ending"
        <5>1. Chain(pend, data.start, written + left)
          BY <1>2, <2>1, <4>2 DEF StreamOK, Rest, From
        <5>2. written + left \in Nat
          BY <1>3
        <5>3. Chain(Tail(pend), pend[1].start + pend[1].size, written + left)
          BY <1>3, <2>2, <2>6, <5>1, <5>2, ChainTail
        <5>4. pend[1].start + pend[1].size = readPos'
          BY <2>3, <2>4, <2>5, <2>8
        <5> QED BY <2>1, <3>1, <4>2, <5>3, <5>4 DEF StreamOK, Rest, From
      <4> QED BY <4>1, <4>2
    <3>4. InHandOK'
      BY <2>1, <3>1, <3>2 DEF InHandOK
    <3> QED BY <2>7, <3>3, <3>4 DEF Aligned
  <2>9. CASE data.size + 1 # size
    <3>1. core1' = "read"
      BY <2>1, <2>9
    <3>2. InHandOK'
      BY <2>1, <2>3, <2>4, <2>5, <3>1 DEF InHandOK
    <3>3. Rest' = Rest /\ From' = From
      BY <2>1, <2>3, <3>1 DEF Rest, From
    <3> QED BY <1>2, <2>1, <2>7, <3>2, <3>3 DEF Aligned, StreamOK
  <2> QED BY <2>8, <2>9
<1>15. CASE AudioWrite
  <2>1. core1 = "write" /\ core1' = "check" /\ UNCHANGED <<core0, left, queues, size, data>>
    BY <1>15 DEF AudioWrite
  <2>2. pend # <<>>
    BY <2>1, InHandFirst
  <2>3. pend' = Tail(pend)
    BY <1>15, <2>2 DEF AudioWrite
  <2>4. Rest' = Rest /\ From' = From /\ InHand = 1 /\ InHand' = 0
    BY <2>1, <2>3 DEF Rest, From, InHand, queues
  <2>5. StreamOK'
    BY <1>2, <2>1, <2>4 DEF StreamOK, queues
  <2>6. SizesOK'
    <3>1. p = q + 1 /\ \A i \in 1..(p - 1) : pend'[i] = pend[i + 1]
      BY <1>3, <2>2, <2>3, <2>4
    <3>2. size_queue' = size_queue
      BY <2>1 DEF queues
    <3> SUFFICES ASSUME NEW i \in 1..q PROVE pend'[i + 0].size = size_queue[i]
      BY <2>4, <3>2 DEF SizesOK
    <3>3. i \in 1..(p - 1) /\ i + 0 = i
      BY <1>3, <3>1
    <3>4. pend[i + 1].size = size_queue[i]
      BY <1>2, <2>4 DEF SizesOK
    <3> QED BY <3>1, <3>3, <3>4
  <2>7. InHandOK'
    BY <2>1 DEF InHandOK
  <2> QED BY <2>5, <2>6, <2>7 DEF Aligned
<1> QED BY <1>5, <1>6, <1>7, <1>8, <1>9, <1>10, <1>11, <1>12, <1>13, <1>14, <1>15
       DEF Next, DoLoop1

LEMMA Initially == Init => IInv
BY TypeInit, FramingInit DEF IInv

LEMMA Inductive == IInv /\ [Next]_vars => IInv'
<1> SUFFICES ASSUME IInv, [Next]_vars PROVE IInv'
  OBVIOUS
<1>1. TypeInv /\ Framing
  BY DEF IInv
<1> QED BY <1>1, TypeNext, FramingNext DEF IInv, Framing

(* Sizes and bytes stay together: while nothing was interrupted the bytes  *)
(* in the queue are those of the frames that wait, end to end, and each    *)
(* size in the other queue is that of its frame.                           *)
THEOREM InductiveInvariant == Spec => []IInv
BY Initially, Inductive, PTL DEF Spec

(* Every step of the two cores is one of the abstract queue or none.       *)
LEMMA StepRefines ==
  ASSUME IInv, [Next]_vars, ~interrupted'
  PROVE  FQ!Next \/ UNCHANGED <<pend, played>>
<1>1. TypeInv /\ Framing
  BY DEF IInv
<1>2. ~interrupted
  BY DEF Next, Begin, EndSizes, EndBuffer, Enqueue, Oversize, WriteByte, DoLoop1,
         isBufferActive, CheckActive, Activate, ReturnActive, Dequeue, ReadByte,
         AudioWrite, vars
<1>3. CASE EndSizes
  <2>1. CASE core1 \in {"read", "write"}
    <3>1. pend' = SubSeq(pend, 1, 1) /\ played' = played
      BY <1>3, <2>1 DEF EndSizes
    <3>2. pend # <<>> /\ pend' = <<Head(pend)>>
      BY <1>1, <2>1, <3>1, InHandFirst
    <3> QED BY <3>1, <3>2 DEF FQ!Next, FQ!Flush
  <2>2. CASE core1 \notin {"read", "write"}
    BY <1>3, <2>2 DEF EndSizes, FQ!Next, FQ!Flush
  <2> QED BY <2>1, <2>2
<1>4. ASSUME NEW n \in FrameSizes, Enqueue(n) PROVE FQ!Next
  <2> DEFINE f == [start |-> written, size |-> n]
  <2>1. n \in Nat /\ written \in Nat /\ MaxBytes \in Nat /\ written + n <= MaxBytes
    BY <1>1, <1>4, Bounds, Basics DEF Enqueue
  <2>2. f \in Interval
    BY <2>1 DEF Interval
  <2>3. pend' = Append(pend, f) /\ played' = played
    BY <1>4 DEF Enqueue
  <2> HIDE DEF f
  <2> QED BY <2>2, <2>3 DEF FQ!Next, FQ!Accept
<1>5. CASE AudioWrite
  <2>1. core1 = "write" /\ played' = Append(played, data)
    BY <1>5 DEF AudioWrite
  <2>2. pend # <<>> /\ Head(pend) = pend[1]
    BY <1>1, <2>1, InHandFirst
  <2>3. pend[1] = data
    BY <1>1, <1>2, <2>1 DEF Framing, Aligned, InHandOK
  <2>4. pend' = Tail(pend)
    BY <1>5, <2>2 DEF AudioWrite
  <2> QED BY <2>1, <2>2, <2>3, <2>4 DEF FQ!Next, FQ!Deliver
<1>6. CASE Begin \/ EndBuffer \/ WriteByte \/ isBufferActive \/ Dequeue \/ ReadByte
           \/ UNCHANGED vars
  BY <1>6, Activity DEF Begin, EndBuffer, WriteByte, Dequeue, ReadByte, vars
<1>7. ASSUME NEW n \in FrameSizes, Oversize(n) PROVE UNCHANGED <<pend, played>>
  BY <1>7 DEF Oversize
<1> QED BY <1>3, <1>4, <1>5, <1>6, <1>7 DEF Next, DoLoop1

(* However the two cores interleave, the frames reach the decoder whole,   *)
(* once and in order, as the abstract queue promises, as long as end() has *)
(* not reset the bytes while doLoop1() was reading them.                   *)
THEOREM ImplementsFrameQueue == Spec => FrameQueue
<1>1. Init => FQ!Init
  BY DEF Init, FQ!Init
<1>2. IInv /\ [Next]_vars => [~interrupted' => FQ!Next]_<<pend, played>>
  BY StepRefines
<1> QED BY <1>1, <1>2, InductiveInvariant, PTL DEF Spec, FrameQueue
=============================================================================
