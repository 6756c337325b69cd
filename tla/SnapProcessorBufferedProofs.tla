---------------------- MODULE SnapProcessorBufferedProofs ----------------------
(***************************************************************************)
(* Theorems about SnapProcessorBuffered, for buffers, frames and an int16  *)
(* of every size: the types, that bytes and sizes stay together while      *)
(* everything fits, so that the loop implements the abstract queue of      *)
(* frames, and that the client does not fall behind.                       *)
(***************************************************************************)
EXTENDS SnapProcessorBuffered, TLAPS

Int16 == -(I16 \div 2)..(I16 \div 2 - 1)

BytesType ==
  /\ written \in Nat /\ readPos \in Nat /\ readPos <= written
  /\ written - readPos <= BufferSize
  /\ offered \in Nat /\ written <= offered /\ offered <= MaxBytes

SizesType ==
  /\ sizes \in Seq(Int16) /\ Len(sizes) <= QueueLen
  /\ level \in 0..QueueLen

FramesType ==
  accepted \in Seq(Interval) /\ pend \in Seq(Interval) /\ played \in Seq(Interval)

FlagsType ==
  /\ loop \in {"down", "message", "readData", "processExt", "stopped"}
  /\ loop_status \in {"LoopStart", "LoopStep", "LoopEnd"} /\ connected \in BOOLEAN
  /\ is_active \in BOOLEAN /\ overflowed \in BOOLEAN

TypeInv == BytesType /\ SizesType /\ FramesType /\ FlagsType

(* What Framing asks for while everything fits.                            *)
Aligned ==
  /\ Len(sizes) = Len(pend)
  /\ \A i \in 1..Len(pend) :
       /\ pend[i].size = sizes[i]
       /\ pend[i].start + pend[i].size
            = IF i = Len(pend) THEN written ELSE pend[i + 1].start
  /\ readPos = IF pend = <<>> THEN written ELSE pend[1].start

(* Every size that is queued while everything fits is that of a frame, and *)
(* the bytes of a frame that waits are there.                              *)
Positive == \A i \in 1..Len(sizes) : sizes[i] > 0

Inside == \A i \in 1..Len(pend) : pend[i].start + pend[i].size <= written

FramingInv == ~overflowed => Aligned /\ Positive /\ Inside

(* In the middle of a round there may be one frame more. *)
Extra == IF loop = "processExt" THEN 1 ELSE 0

KeepsUpInv ==
  is_active /\ loop \in {"message", "readData", "processExt"} => Len(sizes) <= level + Extra

IInv == TypeInv /\ FramingInv /\ KeepsUpInv

-----------------------------------------------------------------------------
LEMMA Bounds ==
  /\ BufferSize \in Nat /\ QueueLen \in Nat /\ MaxBytes \in Nat /\ I16 \in Nat
  /\ BufferSize > 0 /\ QueueLen > 0 /\ I16 > 0 /\ I16 % 2 = 0
  /\ \A n \in FrameSizes : n \in Nat /\ n > 0
<1>1. \A n \in FrameSizes : n \in Nat /\ n > 0
  <2>1. FrameSizes \subseteq Nat \ {0}
    BY BufferAssumption
  <2>2. \A n \in FrameSizes : n \in Nat \ {0}
    BY <2>1, Zenon
  <2> QED BY <2>2
<1> QED BY <1>1, BufferAssumption

LEMMA Int16Type ==
  ASSUME NEW n \in Nat
  PROVE  int16(n) \in Int16 /\ Int16 \subseteq Int
<1> DEFINE h == I16 \div 2
           r == n % I16
<1>1. h \in Int /\ I16 = 2 * h
  BY Bounds
<1>2. r \in Int /\ r >= 0 /\ r < I16
  BY Bounds
<1>3. int16(n) = IF r < h THEN r ELSE r - I16
  BY DEF int16
<1>4. Int16 = (-h)..(h - 1)
  BY DEF Int16
<1> HIDE DEF h, r
<1> QED BY <1>1, <1>2, <1>3, <1>4

(* What writeAudio() of a frame that is not too large does. *)
LEMMA Written ==
  ASSUME TypeInv, NEW n \in FrameSizes, WriteAudio(n)
  PROVE  LET kept == Minimum(n, BufferSize - Available)
         IN  /\ n \in Nat /\ n > 0 /\ kept \in Nat /\ kept <= n
             /\ kept <= BufferSize - (written - readPos)
             /\ written + kept <= offered + n
             /\ [start |-> written, size |-> n] \in Interval
<1>1. /\ n \in Nat /\ n > 0 /\ MaxBytes \in Nat /\ BufferSize \in Nat
      /\ offered + n <= MaxBytes
  BY Bounds DEF WriteAudio
<1>2. /\ written \in Nat /\ readPos \in Nat /\ written - readPos <= BufferSize
      /\ offered \in Nat /\ written <= offered
  BY DEF TypeInv, BytesType
<1>3. [start |-> written, size |-> n] \in Interval
  BY <1>1, <1>2 DEF Interval
<1> DEFINE room == BufferSize - (written - readPos)
           kept == Minimum(n, room)
<1>4. room \in Nat
  BY <1>1, <1>2
<1> HIDE DEF room
<1>5. kept \in Nat /\ kept <= n /\ kept <= room
  BY <1>1, <1>4 DEF Minimum
<1> HIDE DEF kept
<1>6. written + kept <= offered + n
  BY <1>1, <1>2, <1>5
<1> QED BY <1>1, <1>3, <1>5, <1>6 DEF Available, kept, room

LEMMA EmptyFrames == <<>> \in Seq(Interval)
OBVIOUS

LEMMA TypeInit ==
  ASSUME Init
  PROVE  TypeInv
<1>1. BytesType
  BY Bounds DEF Init, BytesType
<1>2. SizesType
  BY Bounds DEF Init, SizesType
<1>3. FramesType
  BY EmptyFrames DEF Init, FramesType
<1>4. FlagsType
  BY DEF Init, FlagsType
<1> QED BY <1>1, <1>2, <1>3, <1>4 DEF TypeInv

LEMMA BytesNext ==
  ASSUME TypeInv, [Next]_vars
  PROVE  BytesType'
<1>1. /\ written \in Nat /\ readPos \in Nat /\ readPos <= written
      /\ written - readPos <= BufferSize /\ BufferSize \in Nat
      /\ offered \in Nat /\ written <= offered /\ offered <= MaxBytes
  BY Bounds DEF TypeInv, BytesType
<1>2. ASSUME UNCHANGED <<written, readPos, offered>> PROVE BytesType'
  BY <1>1, <1>2 DEF BytesType
<1>3. CASE Begin
  BY <1>1, <1>3 DEF Begin, BytesType
<1>4. CASE End \/ Session \/ UNCHANGED vars
  BY <1>2, <1>4 DEF End, Session, vars, buffers, history
<1>5. ASSUME NEW n \in FrameSizes, WriteAudio(n) PROVE BytesType'
  <2> DEFINE kept == Minimum(n, BufferSize - Available)
  <2>1. /\ n \in Nat /\ n > 0 /\ kept \in Nat /\ kept <= n
        /\ kept <= BufferSize - (written - readPos)
        /\ written + kept <= offered + n
    BY <1>5, Written
  <2>2. /\ offered + n <= MaxBytes /\ offered' = offered + n /\ readPos' = readPos
        /\ written' = written \/ written' = written + kept
    BY <1>5 DEF WriteAudio, buffers
  <2> HIDE DEF kept
  <2>3. CASE written' = written
    BY <1>1, <2>1, <2>2, <2>3 DEF BytesType
  <2>4. CASE written' = written + kept
    BY <1>1, <2>1, <2>2, <2>4 DEF BytesType
  <2> QED BY <2>2, <2>3, <2>4
<1>6. CASE ProcessExt
  <2>1. written' = written /\ offered' = offered
    BY <1>6 DEF ProcessExt
  <2> DEFINE n == Minimum(Head(sizes), Available)
  <2>2. readPos' = readPos \/ (sizes # <<>> /\ Head(sizes) > 0 /\ readPos' = readPos + n)
    BY <1>6 DEF ProcessExt, Decode
  <2>3. ASSUME sizes # <<>>, Head(sizes) > 0 PROVE n \in Nat /\ n <= written - readPos
    <3>1. sizes \in Seq(Int16)
      BY DEF TypeInv, SizesType
    <3>2. Head(sizes) \in Int
      BY <2>3, <3>1, Int16Type
    <3> QED BY <1>1, <2>3, <3>2 DEF Minimum, Available
  <2> HIDE DEF n
  <2>4. readPos' \in Nat /\ readPos' <= written /\ readPos' >= readPos
    <3>1. CASE readPos' = readPos
      BY <1>1, <3>1
    <3>2. ASSUME sizes # <<>>, Head(sizes) > 0, readPos' = readPos + n
          PROVE  readPos' \in Nat /\ readPos' <= written /\ readPos' >= readPos
      BY <1>1, <2>3, <3>2
    <3> QED BY <2>2, <3>1, <3>2
  <2> DEFINE r == readPos'
  <2>5. r \in Nat /\ r <= written /\ written - r <= BufferSize
    <3>1. r \in Nat /\ r <= written /\ r >= readPos
      BY <2>4
    <3> HIDE DEF r
    <3> QED BY <1>1, <3>1
  <2> QED BY <1>1, <2>1, <2>5 DEF BytesType
<1> QED BY <1>3, <1>4, <1>5, <1>6 DEF Next

LEMMA SizesNext ==
  ASSUME TypeInv, [Next]_vars
  PROVE  SizesType'
<1>1. /\ sizes \in Seq(Int16) /\ Len(sizes) <= QueueLen /\ Len(sizes) \in Nat
      /\ level \in 0..QueueLen /\ QueueLen \in Nat
  BY Bounds DEF TypeInv, SizesType
<1>2. ASSUME UNCHANGED <<sizes, level>> PROVE SizesType'
  BY <1>1, <1>2 DEF SizesType
<1>3. CASE Begin
  <2>1. sizes' = <<>> /\ level' = level
    BY <1>3 DEF Begin
  <2> QED BY <1>1, <2>1 DEF SizesType
<1>4. CASE End \/ Session \/ UNCHANGED vars
  BY <1>2, <1>4 DEF End, Session, vars, buffers, history
<1>5. ASSUME NEW n \in FrameSizes, WriteAudio(n) PROVE SizesType'
  <2>1. /\ level' = level
        /\ sizes' = sizes \/ (Len(sizes) < QueueLen /\ sizes' = Append(sizes, int16(n)))
    BY <1>5 DEF WriteAudio, buffers
  <2>2. CASE sizes' = sizes
    BY <1>2, <2>1, <2>2
  <2>3. CASE Len(sizes) < QueueLen /\ sizes' = Append(sizes, int16(n))
    <3>1. int16(n) \in Int16
      BY Bounds, Int16Type
    <3>2. sizes' \in Seq(Int16) /\ Len(sizes') = Len(sizes) + 1
      BY <1>1, <2>3, <3>1
    <3>3. Len(sizes') <= QueueLen
      BY <1>1, <2>3, <3>2
    <3> QED BY <1>1, <2>1, <3>2, <3>3 DEF SizesType
  <2> QED BY <2>1, <2>2, <2>3
<1>6. CASE ProcessExt
  <2>1. /\ level' = level \/ level' = Len(sizes)
        /\ sizes' = sizes \/ (sizes # <<>> /\ sizes' = Tail(sizes))
    BY <1>6 DEF ProcessExt, Decode
  <2>2. level' \in 0..QueueLen
    BY <1>1, <2>1
  <2>3. sizes' \in Seq(Int16) /\ Len(sizes') <= QueueLen
    <3>1. CASE sizes' = sizes
      BY <1>1, <3>1
    <3>2. ASSUME sizes # <<>>, sizes' = Tail(sizes)
          PROVE  sizes' \in Seq(Int16) /\ Len(sizes') <= QueueLen
      <4>1. sizes' \in Seq(Int16) /\ Len(sizes') = Len(sizes) - 1
        BY <1>1, <3>2
      <4>2. Len(sizes') <= QueueLen
        BY <1>1, <4>1
      <4> QED BY <4>1, <4>2
    <3> QED BY <2>1, <3>1, <3>2
  <2> QED BY <2>2, <2>3 DEF SizesType
<1> QED BY <1>3, <1>4, <1>5, <1>6 DEF Next

LEMMA FramesNext ==
  ASSUME TypeInv, [Next]_vars
  PROVE  FramesType'
<1>1. accepted \in Seq(Interval) /\ pend \in Seq(Interval) /\ played \in Seq(Interval)
  BY DEF TypeInv, FramesType
<1>2. CASE Begin \/ End \/ Session \/ UNCHANGED vars
  <2>1. accepted' = accepted /\ played' = played /\ (pend' = pend \/ pend' = <<>>)
    BY <1>2 DEF Begin, End, Session, vars, history
  <2>2. pend' \in Seq(Interval)
    BY <1>1, <2>1, EmptyFrames
  <2> QED BY <1>1, <2>1, <2>2 DEF FramesType
<1>3. ASSUME NEW n \in FrameSizes, WriteAudio(n) PROVE FramesType'
  <2> DEFINE f == [start |-> written, size |-> n]
  <2>1. f \in Interval
    BY <1>3, Written
  <2>2. /\ accepted' = Append(accepted, f) /\ played' = played
        /\ pend' = pend \/ pend' = Append(pend, f)
    BY <1>3 DEF WriteAudio
  <2> HIDE DEF f
  <2> QED BY <1>1, <2>1, <2>2 DEF FramesType
<1>4. CASE ProcessExt
  <2>1. accepted' = accepted
    BY <1>4 DEF ProcessExt
  <2>2. CASE UNCHANGED <<played, pend>>
    BY <1>1, <2>1, <2>2 DEF FramesType
  <2> DEFINE n == Minimum(Head(sizes), Available)
             f == [start |-> readPos, size |-> n]
  <2>3. ASSUME sizes # <<>>, Head(sizes) > 0, played' = Append(played, f),
               pend' = IF pend = <<>> THEN <<>> ELSE Tail(pend)
        PROVE  FramesType'
    <3>1. sizes \in Seq(Int16)
      BY DEF TypeInv, SizesType
    <3>2. Head(sizes) \in Int
      BY <2>3, <3>1, Int16Type
    <3>3. /\ written \in Nat /\ readPos \in Nat /\ written <= MaxBytes /\ readPos <= written
          /\ MaxBytes \in Nat
      BY Bounds DEF TypeInv, BytesType
    <3>4. n \in Nat /\ n <= MaxBytes
      BY <2>3, <3>2, <3>3 DEF Minimum, Available
    <3> HIDE DEF n
    <3>5. f \in Interval
      BY <3>3, <3>4 DEF Interval
    <3> HIDE DEF f
    <3>6. pend' \in Seq(Interval)
      BY <1>1, <2>3
    <3> QED BY <1>1, <2>1, <2>3, <3>5, <3>6 DEF FramesType
  <2> QED BY <1>4, <2>2, <2>3 DEF ProcessExt, Decode
<1> QED BY <1>2, <1>3, <1>4 DEF Next

LEMMA FlagsNext ==
  ASSUME TypeInv, [Next]_vars
  PROVE  FlagsType'
<1>1. FlagsType
  BY DEF TypeInv
<1>2. loop' \in {"down", "message", "readData", "processExt", "stopped"}
  BY <1>1 DEF FlagsType, Next, Begin, SessionBegin, End, Session, LoopStart, LoopEnd,
              NoMessage, ReadBaseMessage, ShortRead, OtherMessage, Lose, WriteAudio,
              ProcessExt, vars, rounds
<1>3. loop_status' \in {"LoopStart", "LoopStep", "LoopEnd"} /\ connected' \in BOOLEAN
  BY <1>1 DEF FlagsType, Next, Begin, SessionBegin, End, Session, LoopStart, LoopEnd,
              NoMessage, ReadBaseMessage, ShortRead, OtherMessage, Lose, WriteAudio,
              ProcessExt, vars, rounds
<1>4. overflowed' \in BOOLEAN
  BY <1>1 DEF FlagsType, Next, Begin, End, Session, WriteAudio, ProcessExt, vars, history
<1>5. is_active' \in BOOLEAN
  BY <1>1 DEF FlagsType, Next, Begin, End, Session, WriteAudio, ProcessExt,
              isBufferActive, vars
<1> QED BY <1>2, <1>3, <1>4, <1>5 DEF FlagsType

LEMMA TypesAgree == TypeInv => TypeOK
<1> SUFFICES ASSUME TypeInv PROVE TypeOK
  OBVIOUS
<1>1. /\ written \in 0..MaxBytes /\ readPos \in 0..written /\ Available <= BufferSize
      /\ offered \in 0..MaxBytes
  BY Bounds DEF TypeInv, BytesType, Available
<1>2. \A frames \in {accepted, pend, played} : frames \in Seq(Interval)
  BY DEF TypeInv, FramesType
<1> QED BY <1>1, <1>2 DEF TypeInv, SizesType, FlagsType, TypeOK, Int16

LEMMA TypeNext ==
  ASSUME TypeInv, [Next]_vars
  PROVE  TypeInv'
BY BytesNext, SizesNext, FramesNext, FlagsNext DEF TypeInv

(* Every variable keeps its type and both buffers their bounds, whatever   *)
(* is lost because it does not fit.                                        *)
THEOREM TypeCorrect == Spec => []TypeOK
BY TypeInit, TypeNext, TypesAgree, PTL DEF Spec
-----------------------------------------------------------------------------
(* The first frame that waits is the one that is decoded. *)
LEMMA FirstFrame ==
  ASSUME TypeInv, Aligned, Positive, Inside, sizes # <<>>
  PROVE  /\ pend # <<>> /\ Head(pend) = pend[1] /\ Head(sizes) = pend[1].size
         /\ Head(sizes) > 0 /\ Minimum(Head(sizes), Available) = Head(sizes)
         /\ readPos = pend[1].start
         /\ [start |-> readPos, size |-> Head(sizes)] = Head(pend)
<1>1. /\ sizes \in Seq(Int16) /\ pend \in Seq(Interval)
      /\ Len(pend) = Len(sizes) /\ Len(sizes) \in Nat
  BY DEF TypeInv, SizesType, FramesType, Aligned
<1>2. Len(sizes) >= 1 /\ 1 \in 1..Len(sizes)
  BY <1>1
<1>3. pend # <<>> /\ 1 \in 1..Len(pend)
  BY <1>1, <1>2
<1>4. Head(pend) = pend[1] /\ Head(sizes) = sizes[1] /\ pend[1] \in Interval
  BY <1>1, <1>3
<1>5. pend[1].size = sizes[1] /\ sizes[1] > 0 /\ readPos = pend[1].start
      /\ pend[1].start + pend[1].size <= written
  BY <1>2, <1>3 DEF Aligned, Positive, Inside
<1> DEFINE x == pend[1]
           h == Head(sizes)
<1>6. /\ x \in [start : Nat, size : Nat] /\ x.start = readPos /\ x.size = h
      /\ h > 0 /\ readPos + h <= written
  <2>1. x \in [start : Nat, size : Nat]
    BY <1>4, Bounds DEF Interval
  <2> QED BY <2>1, <1>4, <1>5
<1>7. written \in Nat /\ readPos \in Nat
  BY DEF TypeInv, BytesType
<1> HIDE DEF x, h
<1>8. h \in Nat
  BY <1>6
<1>9. Minimum(h, Available) = h
  BY <1>6, <1>7, <1>8 DEF Minimum, Available
<1>10. [start |-> readPos, size |-> h] = x
  <2>1. x = [start |-> x.start, size |-> x.size]
    BY <1>6
  <2> QED BY <1>6, <2>1
<1> QED BY <1>3, <1>4, <1>6, <1>9, <1>10 DEF x, h

LEMMA FramingNext ==
  ASSUME TypeInv, FramingInv, [Next]_vars, ~overflowed'
  PROVE  Aligned' /\ Positive' /\ Inside'
<1> DEFINE p == Len(pend)
<1>1. ~overflowed
  BY DEF Next, Begin, End, Session, WriteAudio, ProcessExt, vars, history
<1>2. Aligned /\ Positive /\ Inside
  BY <1>1 DEF FramingInv
<1>3. /\ sizes \in Seq(Int16) /\ pend \in Seq(Interval) /\ p \in Nat /\ Len(sizes) = p
      /\ written \in Nat /\ readPos \in Nat /\ readPos <= written
  BY <1>2 DEF TypeInv, SizesType, FramesType, BytesType, Aligned
<1>4. ASSUME UNCHANGED <<sizes, pend, written, readPos>>
      PROVE  Aligned' /\ Positive' /\ Inside'
  BY <1>2, <1>4 DEF Aligned, Positive, Inside
<1>5. CASE Begin
  <2>1. sizes' = <<>> /\ pend' = <<>> /\ readPos' = written'
    BY <1>5 DEF Begin
  <2> QED BY <2>1 DEF Aligned, Positive, Inside
<1>6. CASE End \/ Session \/ UNCHANGED vars
  BY <1>4, <1>6 DEF End, Session, vars, buffers, history
<1>7. ASSUME NEW n \in FrameSizes, WriteAudio(n) PROVE Aligned' /\ Positive' /\ Inside'
  <2> DEFINE f == [start |-> written, size |-> n]
  <2>1. CASE n > BufferSize
    BY <1>4, <1>7, <2>1 DEF WriteAudio, buffers
  <2>2. CASE ~(n > BufferSize)
    <3>1. /\ sizes' = Append(sizes, n) /\ written' = written + n
          /\ pend' = Append(pend, f) /\ readPos' = readPos
      BY <1>7, <2>2 DEF WriteAudio
    <3>2. n \in Nat /\ n > 0 /\ f \in Interval
      BY <1>7, Written
    <3>3. f.start = written /\ f.size = n
      OBVIOUS
    <3> HIDE DEF f
    <3>4. /\ Len(pend') = p + 1 /\ pend'[p + 1] = f
          /\ \A i \in 1..p : pend'[i] = pend[i]
      BY <1>3, <3>1, <3>2
    <3>5. /\ Len(sizes') = p + 1 /\ sizes'[p + 1] = n
          /\ \A i \in 1..p : sizes'[i] = sizes[i]
      BY <1>3, <3>1
    <3>6. \A i \in 1..p : /\ pend[i].size = sizes[i] /\ sizes[i] > 0
                          /\ pend[i].start + pend[i].size <= written
                          /\ pend[i].start + pend[i].size
                               = IF i = p THEN written ELSE pend[i + 1].start
      BY <1>2, <1>3 DEF Aligned, Positive, Inside
    <3>7. Positive'
      <4> SUFFICES ASSUME NEW i \in 1..(p + 1) PROVE sizes'[i] > 0
        BY <3>5 DEF Positive
      <4>1. CASE i = p + 1
        BY <3>2, <3>5, <4>1
      <4>2. CASE i # p + 1
        <5>1. i \in 1..p
          BY <1>3, <4>2
        <5> QED BY <3>5, <3>6, <5>1
      <4> QED BY <4>1, <4>2
    <3>8. Inside'
      <4> SUFFICES ASSUME NEW i \in 1..(p + 1)
                   PROVE  pend'[i].start + pend'[i].size <= written'
        BY <3>4 DEF Inside
      <4>1. CASE i = p + 1
        BY <1>3, <3>1, <3>2, <3>3, <3>4, <4>1
      <4>2. CASE i # p + 1
        <5>1. i \in 1..p
          BY <1>3, <4>2
        <5> DEFINE e == pend[i].start + pend[i].size
        <5>2. e <= written /\ e \in Int
          <6>1. pend[i] \in Interval
            BY <1>3, <5>1
          <6>2. pend[i].start \in Int /\ pend[i].size \in Int
            BY <6>1, Bounds DEF Interval
          <6> QED BY <3>6, <5>1, <6>2
        <5>3. pend'[i].start + pend'[i].size = e
          BY <3>4, <5>1
        <5> HIDE DEF e
        <5> QED BY <1>3, <3>1, <3>2, <5>2, <5>3
      <4> QED BY <4>1, <4>2
    <3>9. Aligned'
      <4>1. ASSUME NEW i \in 1..(p + 1)
            PROVE  /\ pend'[i].size = sizes'[i]
                   /\ pend'[i].start + pend'[i].size
                        = IF i = p + 1 THEN written' ELSE pend'[i + 1].start
        <5>1. CASE i = p + 1
          BY <3>1, <3>3, <3>4, <3>5, <5>1
        <5>2. CASE i # p + 1
          <6>1. i \in 1..p
            BY <1>3, <5>2
          <6>2. CASE i = p
            <7>1. pend'[i + 1].start = written
              BY <3>3, <3>4, <6>2
            <7> QED BY <3>4, <3>5, <3>6, <5>2, <6>1, <6>2, <7>1
          <6>3. CASE i # p
            <7>1. i + 1 \in 1..p
              BY <1>3, <6>1, <6>3
            <7>2. pend'[i + 1] = pend[i + 1]
              BY <3>4, <7>1
            <7> QED BY <3>4, <3>5, <3>6, <5>2, <6>1, <6>3, <7>2
          <6> QED BY <6>2, <6>3
        <5> QED BY <5>1, <5>2
      <4>2. pend' # <<>>
        BY <1>3, <3>4
      <4>3. readPos' = pend'[1].start
        <5>1. CASE pend = <<>>
          <6>1. p = 0 /\ readPos = written
            BY <1>2, <5>1 DEF Aligned
          <6> QED BY <3>1, <3>3, <3>4, <6>1
        <5>2. CASE pend # <<>>
          <6>1. 1 \in 1..p /\ readPos = pend[1].start
            BY <1>2, <1>3, <5>2 DEF Aligned
          <6> QED BY <3>1, <3>4, <6>1
        <5> QED BY <5>1, <5>2
      <4> QED BY <3>4, <3>5, <4>1, <4>2, <4>3 DEF Aligned
    <3> QED BY <3>7, <3>8, <3>9
  <2> QED BY <2>1, <2>2
<1>8. CASE ProcessExt
  <2>1. written' = written
    BY <1>8 DEF ProcessExt
  <2>2. CASE UNCHANGED <<sizes, readPos, pend>>
    BY <1>4, <2>1, <2>2
  <2>3. CASE sizes # <<>> /\ Decode
    <3>1. /\ pend # <<>> /\ Head(pend) = pend[1] /\ Head(sizes) = pend[1].size
          /\ Head(sizes) > 0 /\ Minimum(Head(sizes), Available) = Head(sizes)
          /\ readPos = pend[1].start
      BY <1>2, <2>3, FirstFrame
    <3>2. /\ sizes' = Tail(sizes) /\ pend' = Tail(pend)
          /\ readPos' = pend[1].start + pend[1].size
      BY <2>3, <3>1 DEF Decode
    <3>3. p >= 1
      BY <1>3, <3>1
    <3>4. /\ Len(pend') = p - 1 /\ \A i \in 1..(p - 1) : pend'[i] = pend[i + 1]
      BY <1>3, <3>1, <3>2
    <3>5. /\ Len(sizes') = p - 1 /\ \A i \in 1..(p - 1) : sizes'[i] = sizes[i + 1]
      BY <1>3, <2>3, <3>2
    <3>6. \A i \in 1..p : /\ pend[i].size = sizes[i] /\ sizes[i] > 0
                          /\ pend[i].start + pend[i].size <= written
                          /\ pend[i].start + pend[i].size
                               = IF i = p THEN written ELSE pend[i + 1].start
      BY <1>2, <1>3 DEF Aligned, Positive, Inside
    <3>7. ASSUME NEW i \in 1..(p - 1)
          PROVE  /\ i + 1 \in 1..p /\ pend'[i] = pend[i + 1] /\ sizes'[i] = sizes[i + 1]
                 /\ pend'[i].size = sizes'[i] /\ sizes'[i] > 0
                 /\ pend'[i].start + pend'[i].size <= written'
                 /\ pend'[i].start + pend'[i].size
                      = IF i = p - 1 THEN written' ELSE pend'[i + 1].start
      <4>1. i + 1 \in 1..p /\ pend'[i] = pend[i + 1] /\ sizes'[i] = sizes[i + 1]
        BY <1>3, <3>4, <3>5
      <4>2. /\ pend[i + 1].size = sizes[i + 1] /\ sizes[i + 1] > 0
            /\ pend[i + 1].start + pend[i + 1].size <= written
            /\ pend[i + 1].start + pend[i + 1].size
                 = IF i + 1 = p THEN written ELSE pend[(i + 1) + 1].start
        BY <3>6, <4>1
      <4>3. CASE i = p - 1
        <5>1. i + 1 = p
          BY <1>3, <4>3
        <5> QED BY <2>1, <4>1, <4>2, <4>3, <5>1
      <4>4. CASE i # p - 1
        <5>1. i + 1 # p /\ i + 1 \in 1..(p - 1)
          BY <1>3, <4>4
        <5>2. pend'[i + 1] = pend[(i + 1) + 1]
          BY <3>4, <5>1
        <5> QED BY <2>1, <4>1, <4>2, <4>4, <5>1, <5>2
      <4> QED BY <4>3, <4>4
    <3>8. Positive' /\ Inside'
      BY <3>4, <3>5, <3>7 DEF Positive, Inside
    <3>9. readPos' = IF pend' = <<>> THEN written' ELSE pend'[1].start
      <4>1. 1 \in 1..p
        BY <1>3, <3>3
      <4>2. readPos' = IF 1 = p THEN written ELSE pend[1 + 1].start
        BY <3>2, <3>6, <4>1
      <4>3. CASE p = 1
        <5>1. pend' \in Seq(Interval) /\ Len(pend') = 0
          BY <1>3, <3>1, <3>2, <3>4, <4>3
        <5>2. pend' = <<>>
          BY <5>1
        <5> QED BY <2>1, <4>2, <4>3, <5>2
      <4>4. CASE p # 1
        <5>1. 1 \in 1..(p - 1) /\ Len(pend') # 0
          BY <1>3, <3>3, <3>4, <4>4
        <5>2. pend' # <<>> /\ pend'[1] = pend[1 + 1]
          BY <3>4, <5>1
        <5> QED BY <4>2, <4>4, <5>2
      <4> QED BY <4>3, <4>4
    <3>10. Aligned'
      BY <3>4, <3>5, <3>7, <3>9 DEF Aligned
    <3> QED BY <3>8, <3>10
  <2> QED BY <1>8, <2>2, <2>3 DEF ProcessExt
<1> QED BY <1>5, <1>6, <1>7, <1>8 DEF Next

LEMMA KeepsUpNext ==
  ASSUME TypeInv, KeepsUpInv, [Next]_vars
  PROVE  KeepsUpInv'
<1> DEFINE n == Len(sizes)
<1>1. /\ sizes \in Seq(Int16) /\ n \in Nat /\ level \in Nat
      /\ loop \in {"down", "message", "readData", "processExt", "stopped"}
  BY Bounds DEF TypeInv, SizesType, FlagsType
<1>2. CASE Begin
  BY <1>2 DEF Begin, KeepsUpInv
<1>3. CASE End
  BY <1>3 DEF End, KeepsUpInv
<1>4. CASE Session
  <2>1. UNCHANGED <<sizes, level, is_active>>
    BY <1>4 DEF Session, buffers, history
  <2>2. CASE UNCHANGED loop
    BY <2>1, <2>2 DEF KeepsUpInv, Extra
  <2>3. CASE loop = "message" /\ loop' = "readData"
    BY <2>1, <2>3 DEF KeepsUpInv, Extra
  <2>4. CASE loop \in {"message", "readData"} /\ loop' = "processExt"
    <3>1. is_active => n <= level + 0
      BY <2>4 DEF KeepsUpInv, Extra
    <3>2. is_active => n <= level + 1
      BY <1>1, <3>1
    <3> QED BY <2>1, <2>4, <3>2 DEF KeepsUpInv, Extra
  <2> QED BY <1>4, <2>2, <2>3, <2>4 DEF Session, LoopStart, LoopEnd, NoMessage,
                 ReadBaseMessage, ShortRead, OtherMessage, Lose
<1>5. ASSUME NEW m \in FrameSizes, WriteAudio(m) PROVE KeepsUpInv'
  <2>1. /\ loop = "readData" /\ loop' \in {"processExt", "stopped"}
        /\ UNCHANGED <<level, is_active>>
        /\ sizes' = sizes \/ sizes' = Append(sizes, int16(m))
    BY <1>5 DEF WriteAudio, buffers
  <2>2. is_active => n <= level + 0
    BY <2>1 DEF KeepsUpInv, Extra
  <2>3. int16(m) \in Int16
    BY Bounds, Int16Type
  <2>4. Len(sizes') = n \/ Len(sizes') = n + 1
    <3>1. CASE sizes' = sizes
      BY <3>1
    <3>2. CASE sizes' = Append(sizes, int16(m))
      BY <1>1, <2>3, <3>2
    <3> QED BY <2>1, <3>1, <3>2
  <2>5. is_active => Len(sizes') <= level + 1
    BY <1>1, <2>2, <2>4
  <2> QED BY <2>1, <2>5 DEF KeepsUpInv, Extra
<1>6. CASE ProcessExt
  <2>1. /\ loop = "processExt" /\ loop' = "message" /\ is_active' = isBufferActive
        /\ level' = IF isBufferActive /\ ~is_active THEN n ELSE level
        /\ (isBufferActive /\ sizes # <<>>) => sizes' = Tail(sizes)
        /\ ~(isBufferActive /\ sizes # <<>>) => sizes' = sizes
    BY <1>6 DEF ProcessExt, Decode
  <2>2. ASSUME is_active' PROVE Len(sizes') <= level'
    <3>1. isBufferActive
      BY <2>1, <2>2
    <3>2. Len(sizes') = 0 \/ (Len(sizes') = n - 1 /\ n >= 1)
      <4>1. CASE sizes = <<>>
        BY <2>1, <4>1
      <4>2. CASE sizes # <<>>
        <5>1. sizes' = Tail(sizes)
          BY <2>1, <3>1, <4>2
        <5> QED BY <1>1, <4>2, <5>1
      <4> QED BY <4>1, <4>2
    <3>3. CASE is_active
      <4>1. n <= level + 1 /\ level' = level
        BY <2>1, <3>3 DEF KeepsUpInv, Extra
      <4> QED BY <1>1, <3>2, <4>1
    <3>4. CASE ~is_active
      <4>1. level' = n
        BY <2>1, <3>1, <3>4
      <4> QED BY <1>1, <3>2, <4>1
    <3> QED BY <3>3, <3>4
  <2>3. SizesType'
    BY SizesNext
  <2> DEFINE k == Len(sizes')
             l == level'
  <2>4. k \in Nat /\ l \in Nat
    BY <2>3, Bounds DEF SizesType
  <2>5. is_active' => k <= l
    BY <2>2
  <2> HIDE DEF k, l
  <2>6. is_active' => k <= l + 0
    BY <2>4, <2>5
  <2> QED BY <2>1, <2>6 DEF KeepsUpInv, Extra, k, l
<1>7. CASE UNCHANGED vars
  BY <1>7 DEF vars, rounds, buffers, history, KeepsUpInv, Extra
<1> QED BY <1>2, <1>3, <1>4, <1>5, <1>6, <1>7 DEF Next

LEMMA Initially == Init => IInv
<1> SUFFICES ASSUME Init PROVE IInv
  OBVIOUS
<1>1. FramingInv
  BY DEF Init, FramingInv, Aligned, Positive, Inside
<1>2. KeepsUpInv
  BY DEF Init, KeepsUpInv
<1> QED BY <1>1, <1>2, TypeInit DEF IInv

LEMMA Inductive == IInv /\ [Next]_vars => IInv'
<1> SUFFICES ASSUME IInv, [Next]_vars PROVE IInv'
  OBVIOUS
<1>1. TypeInv /\ FramingInv /\ KeepsUpInv
  BY DEF IInv
<1> QED BY <1>1, TypeNext, FramingNext, KeepsUpNext DEF IInv, FramingInv

LEMMA Always == Spec => []IInv
BY Initially, Inductive, PTL DEF Spec

(* Bytes and sizes stay together as long as everything fits. *)
THEOREM FramesStayWhole == Spec => []Framing
<1>1. IInv => Framing
  BY DEF IInv, FramingInv, Aligned, Framing
<1> QED BY <1>1, Always, PTL

(* Once decoding has started no more frames wait than when it started,     *)
(* whatever is lost because it does not fit.                               *)
THEOREM DoesNotFallBehind == Spec => []KeepsUp
<1>1. IInv => KeepsUp
  <2> SUFFICES ASSUME IInv, is_active, loop \in {"message", "readData"}
               PROVE  Len(sizes) <= level
    BY DEF KeepsUp
  <2>1. sizes \in Seq(Int16) /\ level \in Nat
    BY Bounds DEF IInv, TypeInv, SizesType
  <2> DEFINE n == Len(sizes)
  <2>2. n \in Nat /\ n <= level + 0
    BY <2>1 DEF IInv, KeepsUpInv, Extra
  <2> HIDE DEF n
  <2>3. n <= level
    BY <2>1, <2>2
  <2> QED BY <2>3 DEF n
<1> QED BY <1>1, Always, PTL

(* Every step of the loop is one of the abstract queue or none. *)
LEMMA StepRefines ==
  ASSUME IInv, [Next]_vars, ~overflowed'
  PROVE  FQ!Next \/ UNCHANGED <<pend, played>>
<1>1. ~overflowed
  BY DEF Next, Begin, End, Session, WriteAudio, ProcessExt, vars, history
<1>2. TypeInv /\ Aligned /\ Positive /\ Inside
  BY <1>1 DEF IInv, FramingInv
<1>3. CASE Begin
  BY <1>3 DEF Begin, FQ!Next, FQ!Flush
<1>4. CASE End \/ Session \/ UNCHANGED vars
  BY <1>4 DEF End, Session, vars, history
<1>5. ASSUME NEW n \in FrameSizes, WriteAudio(n)
      PROVE  FQ!Next \/ UNCHANGED <<pend, played>>
  <2> DEFINE f == [start |-> written, size |-> n]
  <2>1. f \in Interval
    BY <1>2, <1>5, Written
  <2>2. played' = played /\ (pend' = pend \/ pend' = Append(pend, f))
    BY <1>5 DEF WriteAudio
  <2> HIDE DEF f
  <2> QED BY <2>1, <2>2 DEF FQ!Next, FQ!Accept
<1>6. CASE ProcessExt
  <2>1. CASE UNCHANGED <<played, pend>>
    BY <2>1
  <2>2. CASE sizes # <<>> /\ Decode
    <3>1. /\ pend # <<>> /\ Head(sizes) > 0
          /\ Minimum(Head(sizes), Available) = Head(sizes)
          /\ [start |-> readPos, size |-> Head(sizes)] = Head(pend)
      BY <1>2, <2>2, FirstFrame
    <3>2. played' = Append(played, Head(pend)) /\ pend' = Tail(pend)
      BY <2>2, <3>1 DEF Decode
    <3> QED BY <3>1, <3>2 DEF FQ!Next, FQ!Deliver
  <2> QED BY <1>6, <2>1, <2>2 DEF ProcessExt
<1> QED BY <1>3, <1>4, <1>5, <1>6 DEF Next

(* As long as everything fits the frames reach SnapOutput whole, once and  *)
(* in order, as the abstract queue promises.                               *)
THEOREM ImplementsFrameQueue == Spec => FrameQueue
<1>1. Init => FQ!Init
  BY DEF Init, FQ!Init
<1>2. IInv /\ [Next]_vars => [~overflowed' => FQ!Next]_<<pend, played>>
  BY StepRefines
<1> QED BY <1>1, <1>2, Always, PTL DEF Spec, FrameQueue
=============================================================================
