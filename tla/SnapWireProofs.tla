--------------------------- MODULE SnapWireProofs ---------------------------
(***************************************************************************)
(* Theorems about SnapProtocol and SnapWire, whatever the size B of a byte *)
(* and whatever is sent: a number, a message of numbers and the messages   *)
(* with a variable part are read as they were written; and with that       *)
(* neither side ever loses its place in the stream of the other.           *)
(***************************************************************************)
EXTENDS SnapWire, TLAPS, WellFoundedInduction, SequenceTheorems

(***************************************************************************)
(* Induction over the natural numbers, as in SnapTimeProofs.               *)
(***************************************************************************)
LEMMA Induction ==
  ASSUME NEW T, 0 \in T, \A n \in T : n \in Nat => n + 1 \in T
  PROVE  Nat \subseteq T
<1> DEFINE U == Nat \ T
           R == OpToRel(<, Nat)
<1> SUFFICES ASSUME U # {} PROVE FALSE
  OBVIOUS
<1>1. IsWellFoundedOn(R, Nat)
  BY NatLessThanWellFounded
<1> HIDE DEF R
<1>2. PICK x \in U : \A y \in U : ~(<<y, x>> \in R)
  BY <1>1, WFMin, Zenon
<1>3. x \in Nat /\ x # 0
  BY <1>2
<1>4. x - 1 \in Nat /\ (x - 1) + 1 = x
  BY <1>3
<1>5. <<x - 1, x>> \in R
  BY <1>3, <1>4 DEF R, OpToRel
<1>6. x - 1 \in T
  BY <1>2, <1>4, <1>5
<1> QED BY <1>2, <1>4, <1>6

-----------------------------------------------------------------------------
(***************************************************************************)
(* Numbers.                                                                *)
(***************************************************************************)

(* What is left below the byte and what is shifted out of it. *)
LEMMA DivMod ==
  ASSUME NEW n \in Int
  PROVE  /\ shr(n) \in Int /\ n % B \in Int /\ n % B \in Byte
         /\ n = (n % B) + B * shr(n)
BY ProtocolAssumption DEF shr, Byte

(* Shifting by a byte brings a number that fits one byte more back into M. *)
LEMMA ShrBound ==
  ASSUME NEW n \in Int, NEW M \in Nat
  PROVE  /\ n \in 0..(B * M - 1) => shr(n) \in 0..(M - 1)
         /\ n \in (-(B * M))..(-1) => shr(n) \in (-M)..(-1)
<1>1. shr(n) \in Int /\ n % B \in Byte /\ n = (n % B) + B * shr(n)
  BY DivMod
<1> DEFINE q == shr(n)
           r == n % B
<1>2. q \in Int /\ r \in Int /\ r >= 0 /\ r < B /\ n = r + B * q /\ B \in Nat /\ B > 1
  BY <1>1, ProtocolAssumption DEF Byte
<1> HIDE DEF q, r
<1>3. ASSUME n \in 0..(B * M - 1) PROVE q \in 0..(M - 1)
  <2>1. CASE q < 0
    <3>1. B * q <= -B
      BY <1>2, <2>1
    <3> QED BY <3>1, <1>2, <1>3
  <2>2. CASE q >= M
    <3>1. B * q >= B * M
      BY <1>2, <2>2
    <3> QED BY <3>1, <1>2, <1>3
  <2> QED BY <2>1, <2>2, <1>2
<1>4. ASSUME n \in (-(B * M))..(-1) PROVE q \in (-M)..(-1)
  <2>1. CASE q >= 0
    <3>1. B * q >= 0
      BY <1>2, <2>1
    <3> QED BY <3>1, <1>2, <1>4
  <2>2. CASE q < -M
    <3>1. B * q <= B * (-M - 1)
      BY <1>2, <2>2
    <3>2. B * (-M - 1) = -(B * M) - B
      BY <1>2
    <3> QED BY <3>1, <3>2, <1>2, <1>4
  <2> QED BY <2>1, <2>2, <1>2
<1> QED BY <1>3, <1>4 DEF q

(* A uint16_t is read as it was written: type, id, refersTo. *)
THEOREM RoundTripUint16 ==
  ASSUME NEW n \in uint16
  PROVE  read_uint16(write_uint16(n)) = n
<1>1. n \in Int /\ B \in Nat /\ B > 1 /\ n \in 0..(B * B - 1)
  BY ProtocolAssumption DEF uint16Range, uint16
<1>2. shr(n) \in 0..(B - 1)
  BY <1>1, ShrBound
<1>3. shr(n) % B = shr(n)
  <2>1. shr(shr(n)) \in 0..(1 - 1)
    <3>1. shr(n) \in Int /\ shr(n) \in 0..(B * 1 - 1)
      BY <1>1, <1>2
    <3> QED BY <3>1, ShrBound
  <2>2. shr(n) \in Int
    BY <1>1, DivMod
  <2>3. shr(n) = (shr(n) % B) + B * shr(shr(n)) /\ shr(n) % B \in Int
    BY <2>2, DivMod
  <2> QED BY <1>1, <2>1, <2>3
<1>4. n = (n % B) + B * shr(n)
  BY <1>1, DivMod
<1> QED BY <1>3, <1>4 DEF read_uint16, write_uint16

(* The four bytes of a number are the number, but for what is shifted out  *)
(* of the last one.                                                        *)
LEMMA FourBytes ==
  ASSUME NEW n \in Int
  PROVE  /\ read_uint32(write_uint32(n)) \in Int
         /\ n = read_uint32(write_uint32(n)) + uint32Range * shr(shr(shr(shr(n))))
         /\ shr(shr(shr(shr(n)))) \in Int
<1>1. B \in Int
  BY ProtocolAssumption
<1>2. n = (n % B) + B * shr(n) /\ shr(n) \in Int /\ n % B \in Int
  BY DivMod
<1>3. /\ shr(n) = (shr(n) % B) + B * shr(shr(n))
      /\ shr(shr(n)) \in Int /\ shr(n) % B \in Int
  BY DivMod, <1>2
<1>4. /\ shr(shr(n)) = (shr(shr(n)) % B) + B * shr(shr(shr(n)))
      /\ shr(shr(shr(n))) \in Int /\ shr(shr(n)) % B \in Int
  BY DivMod, <1>3
<1>5. /\ shr(shr(shr(n))) = (shr(shr(shr(n))) % B) + B * shr(shr(shr(shr(n))))
      /\ shr(shr(shr(shr(n)))) \in Int /\ shr(shr(shr(n))) % B \in Int
  BY DivMod, <1>4
<1> DEFINE r0 == n % B
           r1 == shr(n) % B
           r2 == shr(shr(n)) % B
           r3 == shr(shr(shr(n))) % B
           q  == shr(shr(shr(shr(n))))
<1>6. read_uint32(write_uint32(n)) = r0 + B * (r1 + B * (r2 + B * r3))
  BY DEF read_uint32, write_uint32
<1>7. n = r0 + B * (r1 + B * (r2 + B * (r3 + B * q)))
  BY <1>2, <1>3, <1>4, <1>5
<1>8. {r0, r1, r2, r3, q} \subseteq Int
  BY <1>2, <1>3, <1>4, <1>5
<1> HIDE DEF r0, r1, r2, r3, q
<1>9. B * (r1 + B * (r2 + B * (r3 + B * q)))
        = B * (r1 + B * (r2 + B * r3)) + B * (B * (B * B)) * q
  BY <1>1, <1>8
<1>10. read_uint32(write_uint32(n)) \in Int
  BY <1>1, <1>6, <1>8
<1>11. n = read_uint32(write_uint32(n)) + uint32Range * q
  BY <1>1, <1>6, <1>7, <1>8, <1>9 DEF uint32Range
<1> QED BY <1>5, <1>10, <1>11 DEF q

(* Shifting four times brings a number below uint32Range to 0 and one from *)
(* -uint32Range on to -1.                                                  *)
LEMMA FourShifts ==
  ASSUME NEW n \in Int
  PROVE  /\ n \in 0..(uint32Range - 1) => shr(shr(shr(shr(n)))) = 0
         /\ n \in (-uint32Range)..(-1) => shr(shr(shr(shr(n)))) = -1
<1>1. B \in Nat /\ B * B \in Nat /\ B * (B * B) \in Nat
  BY ProtocolAssumption
<1>2. /\ shr(n) \in Int /\ shr(shr(n)) \in Int /\ shr(shr(shr(n))) \in Int
  BY DivMod
<1>3. ASSUME n \in 0..(uint32Range - 1) PROVE shr(shr(shr(shr(n)))) = 0
  <2>1. shr(n) \in 0..(B * (B * B) - 1)
    BY <1>1, <1>3, ShrBound DEF uint32Range
  <2>2. shr(shr(n)) \in 0..(B * B - 1)
    BY <1>1, <1>2, <2>1, ShrBound
  <2>3. shr(shr(shr(n))) \in 0..(B * 1 - 1)
    <3>1. shr(shr(shr(n))) \in 0..(B - 1)
      BY <1>1, <1>2, <2>2, ShrBound
    <3> QED BY <1>1, <3>1
  <2>4. shr(shr(shr(shr(n)))) \in 0..(1 - 1)
    BY <1>2, <2>3, ShrBound
  <2> QED BY <2>4
<1>4. ASSUME n \in (-uint32Range)..(-1) PROVE shr(shr(shr(shr(n)))) = -1
  <2>1. shr(n) \in (-(B * (B * B)))..(-1)
    BY <1>1, <1>4, ShrBound DEF uint32Range
  <2>2. shr(shr(n)) \in (-(B * B))..(-1)
    BY <1>1, <1>2, <2>1, ShrBound
  <2>3. shr(shr(shr(n))) \in (-(B * 1))..(-1)
    <3>1. shr(shr(shr(n))) \in (-B)..(-1)
      BY <1>1, <1>2, <2>2, ShrBound
    <3> QED BY <1>1, <3>1
  <2>4. shr(shr(shr(shr(n)))) \in (-1)..(-1)
    BY <1>2, <2>3, ShrBound
  <2> QED BY <2>4
<1> QED BY <1>3, <1>4

(* A uint32_t is read as it was written: the sizes. *)
THEOREM RoundTripUint32 ==
  ASSUME NEW n \in uint32
  PROVE  read_uint32(write_uint32(n)) = n
<1>1. n \in Int /\ uint32Range \in Int /\ n \in 0..(uint32Range - 1)
  BY ProtocolAssumption DEF uint32Range, uint32
<1>2. shr(shr(shr(shr(n)))) = 0
  BY <1>1, FourShifts
<1>3. /\ read_uint32(write_uint32(n)) \in Int
      /\ n = read_uint32(write_uint32(n)) + uint32Range * 0
  BY <1>1, <1>2, FourBytes
<1> QED BY <1>1, <1>3

(* An int32_t keeps its value and its sign: seconds and microseconds.      *)
THEOREM RoundTripInt32 ==
  ASSUME NEW n \in int32
  PROVE  read_int32(write_uint32(n)) = n
<1>1. uint32Range \in Nat /\ uint32Range > 0
  BY ProtocolAssumption DEF uint32Range
<1>2. int32Half \in Nat /\ 2 * int32Half <= uint32Range /\ int32Half >= 0
  BY <1>1 DEF int32Half
<1>3. n \in Int /\ -int32Half <= n /\ n < int32Half
  BY <1>2 DEF int32
<1>4. CASE n >= 0
  <2>1. n \in 0..(uint32Range - 1)
    BY <1>1, <1>2, <1>3, <1>4
  <2>2. read_uint32(write_uint32(n)) = n
    BY <2>1, RoundTripUint32 DEF uint32
  <2> QED BY <1>3, <2>2 DEF read_int32
<1>5. CASE n < 0
  <2>1. n \in (-uint32Range)..(-1)
    BY <1>1, <1>2, <1>3, <1>5
  <2>2. shr(shr(shr(shr(n)))) = -1
    BY <1>3, <2>1, FourShifts
  <2>3. /\ read_uint32(write_uint32(n)) \in Int
        /\ n = read_uint32(write_uint32(n)) + uint32Range * (-1)
    BY <1>3, <2>2, FourBytes
  <2>4. read_uint32(write_uint32(n)) = n + uint32Range
    BY <1>1, <1>3, <2>3
  <2>5. n + uint32Range >= int32Half
    BY <1>1, <1>2, <1>3
  <2> QED BY <1>1, <1>2, <1>3, <2>4, <2>5 DEF read_int32
<1> QED BY <1>3, <1>4, <1>5
-----------------------------------------------------------------------------
(***************************************************************************)
(* Fields.                                                                 *)
(***************************************************************************)
Kinds == {"uint16", "uint32", "int32"}

Values(kind) == IF kind = "uint16" THEN uint16 ELSE IF kind = "uint32" THEN uint32
                                                                       ELSE int32

LEMMA Ranges ==
  /\ B \in Nat /\ B > 1 /\ MaxJsonLen \in Nat /\ MaxJsonLen > 5
  /\ uint16Range \in Nat /\ uint16Range > 0
  /\ uint32Range \in Nat /\ uint32Range > 0
  /\ int32Half \in Nat /\ uint32Range = int32Half + int32Half
  /\ uint16 \subseteq Int /\ uint32 \subseteq Int /\ int32 \subseteq Int
  /\ 0 \in uint16 /\ 0 \in uint32 /\ 0 \in int32
<1>1. B \in Nat /\ B > 1 /\ MaxJsonLen \in Nat /\ MaxJsonLen > 5
  BY ProtocolAssumption
<1>2. PICK h \in Nat : B = 2 * h /\ h > 0
  <2>1. B \div 2 \in Nat /\ B = 2 * (B \div 2) /\ B \div 2 > 0
    BY ProtocolAssumption
  <2> QED BY <2>1
<1>3. uint16Range \in Nat /\ uint16Range > 0
  BY <1>1 DEF uint16Range
<1>4. B * (B * B) \in Nat /\ B * (B * B) > 0
  <2>1. B * B \in Nat /\ B * B > 0
    BY <1>1
  <2> QED BY <1>1, <2>1
<1>5. uint32Range \in Nat /\ uint32Range > 0
  BY <1>1, <1>4 DEF uint32Range
<1> DEFINE m == h * (B * (B * B))
<1>6. m \in Nat /\ m > 0 /\ uint32Range = 2 * m
  BY <1>2, <1>4 DEF uint32Range
<1> HIDE DEF m
<1>7. int32Half = m
  BY <1>6 DEF int32Half
<1> QED BY <1>1, <1>3, <1>5, <1>6, <1>7 DEF uint16, uint32, int32

(* A field takes Width bytes, and what is read from it is in its range.    *)
LEMMA EncodedType ==
  ASSUME NEW kind \in Kinds, NEW n \in Int
  PROVE  /\ Encoded(kind, n) \in Seq(Byte) /\ Len(Encoded(kind, n)) = Width(kind)
         /\ Width(kind) \in Nat /\ Width(kind) > 0
<1>1. \A k \in Int : k % B \in Byte /\ shr(k) \in Int
  BY DivMod
<1>2. write_uint16(n) \in Seq(Byte) /\ Len(write_uint16(n)) = 2
  BY <1>1 DEF write_uint16
<1>3. write_uint32(n) \in Seq(Byte) /\ Len(write_uint32(n)) = 4
  BY <1>1 DEF write_uint32
<1>4. CASE kind = "uint16"
  <2>1. Encoded(kind, n) = write_uint16(n) /\ Width(kind) = 2
    BY <1>4 DEF Encoded, Width
  <2> QED BY <1>2, <2>1
<1>5. CASE kind # "uint16"
  <2>1. Encoded(kind, n) = write_uint32(n) /\ Width(kind) = 4
    BY <1>5 DEF Encoded, Width
  <2> QED BY <1>3, <2>1
<1> QED BY <1>4, <1>5

LEMMA DecodedType ==
  ASSUME NEW kind \in Kinds, NEW s \in Seq(Byte), Len(s) = Width(kind)
  PROVE  Decoded(kind, s) \in Values(kind)
<1>1. B \in Nat /\ B > 1
  BY Ranges
<1>2. CASE kind = "uint16"
  <2>1. s[1] \in Byte /\ s[2] \in Byte
    BY <1>2 DEF Width
  <2>2. B * s[2] <= B * (B - 1) /\ B * (B - 1) = B * B - B /\ B * s[2] \in Nat
    BY <1>1, <2>1 DEF Byte
  <2>3. s[1] + B * s[2] \in uint16
    BY <1>1, <2>1, <2>2 DEF Byte, uint16, uint16Range
  <2> QED BY <1>2, <2>3 DEF Decoded, Values, read_uint16
<1>3. ASSUME Width(kind) = 4 PROVE read_uint32(s) \in uint32
  <2>1. s[1] \in Byte /\ s[2] \in Byte /\ s[3] \in Byte /\ s[4] \in Byte
    BY <1>3
  <2>2. ASSUME NEW M \in Nat, NEW lo \in Byte, NEW hi \in 0..(M - 1)
        PROVE  lo + B * hi \in 0..(B * M - 1)
    <3>1. B * hi <= B * (M - 1) /\ B * (M - 1) = B * M - B /\ B * hi \in Nat
      BY <1>1
    <3> QED BY <1>1, <3>1 DEF Byte
  <2>3. B * B \in Nat /\ B * (B * B) \in Nat
    BY <1>1
  <2>4. s[4] \in 0..(B - 1)
    BY <2>1 DEF Byte
  <2>5. s[3] + B * s[4] \in 0..(B * B - 1)
    BY <1>1, <2>1, <2>2, <2>4
  <2>6. s[2] + B * (s[3] + B * s[4]) \in 0..(B * (B * B) - 1)
    BY <2>1, <2>2, <2>3, <2>5
  <2>7. s[1] + B * (s[2] + B * (s[3] + B * s[4])) \in 0..(B * (B * (B * B)) - 1)
    BY <2>1, <2>2, <2>3, <2>6
  <2> QED BY <2>7 DEF read_uint32, uint32, uint32Range
<1>4. CASE kind = "uint32"
  BY <1>3, <1>4 DEF Width, Decoded, Values
<1>5. CASE kind = "int32"
  <2>1. read_uint32(s) \in uint32
    BY <1>3, <1>5 DEF Width
  <2>2. read_int32(s) \in int32
    BY <2>1, Ranges DEF read_int32, int32, uint32
  <2> QED BY <1>5, <2>2 DEF Decoded, Values
<1> QED BY <1>2, <1>4, <1>5 DEF Kinds

(* Only the bytes count for what is read.                                  *)
LEMMA DecodeEncoded ==
  ASSUME NEW kind \in Kinds, NEW n \in Values(kind)
  PROVE  n \in Int /\ Decoded(kind, Encoded(kind, n)) = n
<1>1. n \in Int
  BY Ranges DEF Values
<1> QED BY <1>1, RoundTripUint16, RoundTripUint32, RoundTripInt32
        DEF Kinds, Values, Decoded, Encoded

(* Where the bytes are. *)
LEMMA BytesType ==
  ASSUME NEW data \in Seq(Byte), NEW index \in Nat, NEW n \in Nat, index <= Len(data)
  PROVE  /\ Bytes(data, index, n) \in Seq(Byte)
         /\ index + n <= Len(data) =>
              /\ Len(Bytes(data, index, n)) = n
              /\ \A i \in 1..n : Bytes(data, index, n)[i] = data[index + i]
         /\ index + n > Len(data) => Len(Bytes(data, index, n)) = Len(data) - index
<1> DEFINE k == Len(data)
           last == IF index + n < k THEN index + n ELSE k
<1>1. k \in Nat /\ last \in Nat /\ last <= k /\ index <= last
  OBVIOUS
<1>2. Bytes(data, index, n) = SubSeq(data, index + 1, last)
  BY DEF Bytes
<1>3. \A i \in (index + 1)..last : data[i] \in Byte
  BY <1>1
<1> HIDE DEF last
<1>4. /\ SubSeq(data, index + 1, last) \in Seq(Byte)
      /\ Len(SubSeq(data, index + 1, last)) = IF index + 1 <= last THEN last - (index + 1) + 1 ELSE 0
      /\ \A i \in 1..(last - (index + 1) + 1) :
           SubSeq(data, index + 1, last)[i] = data[(index + 1) + i - 1]
  BY <1>1, <1>3, SubSeqProperties
<1>5. Len(SubSeq(data, index + 1, last)) = last - index
  BY <1>1, <1>4
<1>6. ASSUME NEW i \in 1..(last - index)
      PROVE  SubSeq(data, index + 1, last)[i] = data[index + i]
  <2>1. last - (index + 1) + 1 = last - index /\ (index + 1) + i - 1 = index + i
    BY <1>1
  <2> QED BY <1>4, <2>1
<1>7. index + n <= k => last = index + n
  BY <1>1 DEF last
<1>8. index + n > k => last = k
  BY <1>1 DEF last
<1> HIDE DEF k
<1>9. ASSUME index + n <= k
      PROVE  /\ Len(Bytes(data, index, n)) = n
             /\ \A i \in 1..n : Bytes(data, index, n)[i] = data[index + i]
  <2>1. last - index = n
    BY <1>7, <1>9
  <2> QED BY <1>2, <1>5, <1>6, <2>1
<1>10. index + n > k => Len(Bytes(data, index, n)) = k - index
  BY <1>2, <1>5, <1>8
<1> QED BY <1>2, <1>4, <1>9, <1>10 DEF k

LEMMA BytesOfConcat ==
  ASSUME NEW a \in Seq(Byte), NEW b \in Seq(Byte)
  PROVE  /\ a \o b \in Seq(Byte) /\ Len(a \o b) = Len(a) + Len(b)
         /\ \A index, n \in Nat : index + n <= Len(a) => Bytes(a \o b, index, n) = Bytes(a, index, n)
         /\ \A index, n \in Nat : index + n <= Len(b) =>
              Bytes(a \o b, Len(a) + index, n) = Bytes(b, index, n)
<1> DEFINE ab == a \o b
           k == Len(a)
           l == Len(b)
<1>1. /\ ab \in Seq(Byte) /\ Len(ab) = k + l /\ k \in Nat /\ l \in Nat
      /\ \A i \in 1..(k + l) : ab[i] = IF i <= k THEN a[i] ELSE b[i - k]
  BY ConcatProperties
<1> HIDE DEF ab, k, l
<1>0. ab \in Seq(Byte)
  BY <1>1
<1>2. ASSUME NEW index \in Nat, NEW n \in Nat, index + n <= k
      PROVE  Bytes(ab, index, n) = Bytes(a, index, n)
  <2> HIDE DEF Byte
  <2>0. /\ index <= Len(ab) /\ index + n <= Len(ab)
        /\ index <= Len(a) /\ index + n <= Len(a)
    BY <1>1, <1>2 DEF k
  <2>1. /\ Bytes(ab, index, n) \in Seq(Byte) /\ Len(Bytes(ab, index, n)) = n
        /\ \A i \in 1..n : Bytes(ab, index, n)[i] = ab[index + i]
    BY <1>0, <2>0, BytesType, Zenon
  <2>2. /\ Bytes(a, index, n) \in Seq(Byte) /\ Len(Bytes(a, index, n)) = n
        /\ \A i \in 1..n : Bytes(a, index, n)[i] = a[index + i]
    BY <2>0, BytesType, Zenon
  <2>3. \A i \in 1..n : ab[index + i] = a[index + i]
    BY <1>1, <1>2
  <2>4. \A i \in 1..n : Bytes(ab, index, n)[i] = Bytes(a, index, n)[i]
    BY <2>1, <2>2, <2>3
  <2> QED BY <2>1, <2>2, <2>4, SeqEqual
<1>3. ASSUME NEW index \in Nat, NEW n \in Nat, index + n <= l
      PROVE  Bytes(ab, k + index, n) = Bytes(b, index, n)
  <2>1. /\ Bytes(ab, k + index, n) \in Seq(Byte) /\ Len(Bytes(ab, k + index, n)) = n
        /\ \A i \in 1..n : Bytes(ab, k + index, n)[i] = ab[(k + index) + i]
    <3>1. k + index \in Nat /\ k + index <= Len(ab) /\ (k + index) + n <= Len(ab)
      BY <1>1, <1>3
    <3> QED BY <1>0, <3>1, BytesType, Zenon
  <2>2. /\ Bytes(b, index, n) \in Seq(Byte) /\ Len(Bytes(b, index, n)) = n
        /\ \A i \in 1..n : Bytes(b, index, n)[i] = b[index + i]
    <3>1. index <= Len(b) /\ index + n <= Len(b)
      BY <1>1, <1>3 DEF l
    <3> QED BY <3>1, BytesType, Zenon
  <2>3. \A i \in 1..n : ab[(k + index) + i] = b[index + i]
    <3> TAKE i \in 1..n
    <3>1. (k + index) + i \in 1..(k + l) /\ ~((k + index) + i <= k)
          /\ (k + index) + i - k = index + i
      BY <1>1, <1>3
    <3> QED BY <1>1, <3>1
  <2>4. \A i \in 1..n : Bytes(ab, k + index, n)[i] = Bytes(b, index, n)[i]
    BY <2>1, <2>2, <2>3
  <2> QED BY <2>1, <2>2, <2>4, SeqEqual
<1> QED BY <1>1, <1>2, <1>3 DEF ab, k, l

LEMMA BytesAll ==
  ASSUME NEW data \in Seq(Byte)
  PROVE  /\ Bytes(data, 0, Len(data)) = data
         /\ \A n \in Nat : n > Len(data) => Bytes(data, 0, n) = data
<1> DEFINE k == Len(data)
<1>1. k \in Nat /\ SubSeq(data, 1, k) = data
  BY SubSeqFull
<1> HIDE DEF k
<1>2. ASSUME NEW n \in Nat, n >= k PROVE Bytes(data, 0, n) = data
  <2>1. 0 + 1 = 1 /\ (IF 0 + n < k THEN 0 + n ELSE k) = k
    BY <1>1, <1>2
  <2>2. Bytes(data, 0, n) = SubSeq(data, 0 + 1, IF 0 + n < k THEN 0 + n ELSE k)
    BY DEF Bytes, k
  <2> QED BY <1>1, <2>1, <2>2
<1>3. k >= k /\ \A n \in Nat : n > k => n >= k
  BY <1>1
<1> QED BY <1>1, <1>2, <1>3 DEF k

-----------------------------------------------------------------------------
(***************************************************************************)
(* Messages of numbers: o[i] is where the i-th field ends.                 *)
(***************************************************************************)
Layout(fields, o) ==
  /\ Len(fields) \in Nat
  /\ o \in [0..Len(fields) -> Nat] /\ o[0] = 0
  /\ \A i \in 1..Len(fields) : /\ fields[i].kind \in Kinds
                               /\ o[i] = o[i - 1] + Width(fields[i].kind)
                               /\ o[i] <= o[Len(fields)]
  /\ \A i, j \in 1..Len(fields) : fields[i].name = fields[j].name => i = j

(* The members of m that fields names are in their ranges.                 *)
Fits(fields, m) ==
  \A i \in 1..Len(fields) : /\ fields[i].name \in DOMAIN m
                            /\ m[fields[i].name] \in Values(fields[i].kind)

(* The writing goes field by field.                                        *)
LEMMA SerializeSteps ==
  ASSUME NEW fields, Len(fields) \in Nat, NEW m, NEW reqSize
  PROVE  \E after :
           /\ after[0] = [size |-> reqSize, data |-> <<>>, result |-> 0]
           /\ \A i \in 1..Len(fields) :
                after[i] = write(after[i - 1], Encoded(fields[i].kind, m[fields[i].name]))
           /\ serialize(fields, m, reqSize) = after[Len(fields)]
<1> DEFINE k == Len(fields)
           first == [size |-> reqSize, data |-> <<>>, result |-> 0]
           step(f, i) == IF i = 0 THEN first
                           ELSE write(f[i - 1], Encoded(fields[i].kind, m[fields[i].name]))
           T == {n \in Nat : \E f : f = [i \in 0..n |-> step(f, i)]}
           after == CHOOSE f : f = [i \in 0..k |-> step(f, i)]
<1>1. 0 \in T
  <2> DEFINE f == [i \in 0..0 |-> first]
  <2>1. f = [i \in 0..0 |-> step(f, i)]
    OBVIOUS
  <2> HIDE DEF f
  <2> QED BY <2>1
<1>2. ASSUME NEW n \in T, n \in Nat PROVE n + 1 \in T
  <2>1. PICK f : f = [i \in 0..n |-> step(f, i)]
    BY <1>2
  <2> DEFINE last == write(f[n], Encoded(fields[n + 1].kind, m[fields[n + 1].name]))
             g == [i \in 0..(n + 1) |-> IF i = n + 1 THEN last ELSE f[i]]
  <2>2. ASSUME NEW i \in 0..(n + 1) PROVE g[i] = step(g, i)
    <3>1. CASE i = n + 1
      <4>1. i # 0 /\ i - 1 = n /\ n \in 0..(n + 1) /\ n # n + 1
        BY <1>2, <3>1
      <4> HIDE DEF last
      <4>2. g[i] = last /\ g[n] = f[n]
        BY <3>1, <4>1
      <4> HIDE DEF g
      <4> QED BY <3>1, <4>1, <4>2 DEF last
    <3>2. CASE i # n + 1
      <4>1. i \in 0..n /\ g[i] = f[i] /\ (i # 0 => g[i - 1] = f[i - 1])
        BY <1>2, <3>2
      <4>2. f[i] = step(f, i)
        BY <2>1, <4>1
      <4> HIDE DEF g
      <4> QED BY <4>1, <4>2
    <3> QED BY <3>1, <3>2
  <2>3. g = [i \in 0..(n + 1) |-> step(g, i)]
    BY <2>2
  <2> HIDE DEF g, step
  <2>4. n + 1 \in Nat
    BY <1>2
  <2> QED BY <2>3, <2>4
<1> HIDE DEF T
<1>3. k \in T
  BY <1>1, <1>2, Induction
<1>4. after = [i \in 0..k |-> step(after, i)]
  BY <1>3 DEF T
<1>5. serialize(fields, m, reqSize) = after[k]
  BY DEF serialize
<1> HIDE DEF after
<1>6. after[0] = first
  BY <1>4
<1>7. ASSUME NEW i \in 1..k
      PROVE  after[i] = write(after[i - 1], Encoded(fields[i].kind, m[fields[i].name]))
  <2>1. i \in 0..k /\ i # 0
    OBVIOUS
  <2> QED BY <1>4, <2>1
<1> QED BY <1>5, <1>6, <1>7

(* And so does the reading.                                                *)
LEMMA DeserializeSteps ==
  ASSUME NEW fields, Len(fields) \in Nat, NEW m, NEW data
  PROVE  \E after :
           /\ after[0] = begin(data, m)
           /\ \A i \in 1..Len(fields) : after[i] = readField(after[i - 1], fields[i])
           /\ deserialize(fields, m, data) = after[Len(fields)]
<1> DEFINE k == Len(fields)
           step(f, i) == IF i = 0 THEN begin(data, m) ELSE readField(f[i - 1], fields[i])
           T == {n \in Nat : \E f : f = [i \in 0..n |-> step(f, i)]}
           after == CHOOSE f : f = [i \in 0..k |-> step(f, i)]
<1>1. 0 \in T
  <2> DEFINE f == [i \in 0..0 |-> begin(data, m)]
  <2>1. f = [i \in 0..0 |-> step(f, i)]
    OBVIOUS
  <2> HIDE DEF f
  <2> QED BY <2>1
<1>2. ASSUME NEW n \in T, n \in Nat PROVE n + 1 \in T
  <2>1. PICK f : f = [i \in 0..n |-> step(f, i)]
    BY <1>2
  <2> DEFINE last == readField(f[n], fields[n + 1])
             g == [i \in 0..(n + 1) |-> IF i = n + 1 THEN last ELSE f[i]]
  <2>2. ASSUME NEW i \in 0..(n + 1) PROVE g[i] = step(g, i)
    <3>1. CASE i = n + 1
      <4>1. i # 0 /\ i - 1 = n /\ n \in 0..(n + 1) /\ n # n + 1
        BY <1>2, <3>1
      <4> HIDE DEF last
      <4>2. g[i] = last /\ g[n] = f[n]
        BY <3>1, <4>1
      <4> HIDE DEF g
      <4> QED BY <3>1, <4>1, <4>2 DEF last
    <3>2. CASE i # n + 1
      <4>1. i \in 0..n /\ g[i] = f[i] /\ (i # 0 => g[i - 1] = f[i - 1])
        BY <1>2, <3>2
      <4>2. f[i] = step(f, i)
        BY <2>1, <4>1
      <4> HIDE DEF g
      <4> QED BY <4>1, <4>2
    <3> QED BY <3>1, <3>2
  <2>3. g = [i \in 0..(n + 1) |-> step(g, i)]
    BY <2>2
  <2> HIDE DEF g, step
  <2>4. n + 1 \in Nat
    BY <1>2
  <2> QED BY <2>3, <2>4
<1> HIDE DEF T
<1>3. k \in T
  BY <1>1, <1>2, Induction
<1>4. after = [i \in 0..k |-> step(after, i)]
  BY <1>3 DEF T
<1>5. deserialize(fields, m, data) = after[k]
  BY DEF deserialize
<1> HIDE DEF after
<1>6. after[0] = begin(data, m)
  BY <1>4
<1>7. ASSUME NEW i \in 1..k PROVE after[i] = readField(after[i - 1], fields[i])
  <2>1. i \in 0..k /\ i # 0
    OBVIOUS
  <2> QED BY <1>4, <2>1
<1> QED BY <1>5, <1>6, <1>7

(* A message of numbers takes as many bytes as its fields, and each field  *)
(* has its place.                                                          *)
LEMMA Serialized ==
  ASSUME NEW fields, NEW o, Layout(fields, o), NEW m, Fits(fields, m)
  PROVE  LET d == serialize(fields, m, o[Len(fields)]).data IN
         /\ d \in Seq(Byte) /\ Len(d) = o[Len(fields)]
         /\ \A i \in 1..Len(fields) :
              /\ o[i - 1] \in Nat /\ o[i - 1] + Width(fields[i].kind) <= Len(d)
              /\ Bytes(d, o[i - 1], Width(fields[i].kind))
                   = Encoded(fields[i].kind, m[fields[i].name])
<1> DEFINE k == Len(fields)
           w(i) == Width(fields[i].kind)
           e(i) == Encoded(fields[i].kind, m[fields[i].name])
           buffer(d) == [size |-> o[k], data |-> d, result |-> 0]
<1>1. k \in Nat /\ o \in [0..k -> Nat] /\ o[0] = 0
  BY DEF Layout
<1>2. ASSUME NEW i \in 1..k
      PROVE  /\ e(i) \in Seq(Byte) /\ Len(e(i)) = w(i) /\ w(i) \in Nat
             /\ o[i] = o[i - 1] + w(i) /\ o[i] <= o[k]
             /\ i - 1 \in 0..k /\ o[i - 1] \in Nat /\ o[i] \in Nat
  <2>1. fields[i].kind \in Kinds
    BY DEF Layout
  <2>2. m[fields[i].name] \in Int
    BY <2>1, DecodeEncoded DEF Fits
  <2>3. i - 1 \in 0..k /\ i \in 0..k
    BY <1>1
  <2> QED BY <1>1, <2>1, <2>2, <2>3, EncodedType DEF Layout
<1>3. PICK after :
        /\ after[0] = buffer(<<>>)
        /\ \A i \in 1..k : after[i] = write(after[i - 1], e(i))
        /\ serialize(fields, m, o[k]) = after[k]
  BY <1>1, SerializeSteps
<1> HIDE DEF k, w, e
<1> DEFINE At(d, n) == \A i \in 1..n : /\ o[i - 1] + w(i) <= Len(d)
                                       /\ Bytes(d, o[i - 1], w(i)) = e(i)
           Good(n) ==
             \E d \in Seq(Byte) : after[n] = buffer(d) /\ Len(d) = o[n] /\ At(d, n)
           T == {n \in Nat : n <= k => Good(n)}
<1>4. 0 \in T
  <2>1. <<>> \in Seq(Byte) /\ Len(<<>>) = 0 /\ At(<<>>, 0)
    OBVIOUS
  <2>2. Good(0)
    BY <1>1, <1>3, <2>1
  <2> HIDE DEF Good
  <2> QED BY <2>2
<1>5. ASSUME NEW n \in T, n \in Nat PROVE n + 1 \in T
  <2> HIDE DEF Good
  <2> SUFFICES ASSUME n + 1 <= k PROVE Good(n + 1)
    BY <1>5
  <2>0. Good(n)
    BY <1>1, <1>5
  <2> HIDE DEF buffer, At, T
  <2>1. PICK d \in Seq(Byte) : after[n] = buffer(d) /\ Len(d) = o[n] /\ At(d, n)
    BY <2>0 DEF Good
  <2>2. n + 1 \in 1..k /\ (n + 1) - 1 = n
    BY <1>1, <1>5
  <2> DEFINE x == e(n + 1)
             j == n + 1
             len == w(j)
  <2>3. /\ x \in Seq(Byte) /\ Len(x) = len /\ len \in Nat
        /\ o[j] = o[n] + len /\ o[j] <= o[k] /\ o[n] \in Nat /\ o[j] \in Nat
    BY <1>2, <2>2
  <2>4. j \in 1..k /\ after[j] = write(buffer(d), x)
    BY <1>3, <2>1, <2>2
  <2> HIDE DEF x, j, len
  <2>5. o[k] \in Nat /\ ~(o[k] - Len(d) < Len(x))
    BY <1>1, <2>1, <2>3
  <2>6. after[j] = buffer(d \o x)
    BY <2>4, <2>5 DEF write, buffer
  <2>7. /\ d \o x \in Seq(Byte) /\ Len(d \o x) = Len(d) + Len(x)
        /\ \A a, b \in Nat : a + b <= Len(d) => Bytes(d \o x, a, b) = Bytes(d, a, b)
        /\ \A a, b \in Nat : a + b <= Len(x) => Bytes(d \o x, Len(d) + a, b) = Bytes(x, a, b)
    BY <2>3, BytesOfConcat
  <2>8. ASSUME NEW i \in 1..j
        PROVE  /\ o[i - 1] + w(i) <= Len(d \o x)
               /\ Bytes(d \o x, o[i - 1], w(i)) = e(i)
    <3>1. CASE i = j
      <4>1. Bytes(d \o x, Len(d) + 0, len) = Bytes(x, 0, len)
        BY <2>3, <2>7
      <4>2. Bytes(x, 0, len) = x
        BY <2>3, BytesAll
      <4>3. Len(d) + 0 = o[i - 1] /\ w(i) = len /\ e(i) = x
        BY <1>5, <2>1, <2>3, <3>1 DEF j, len, x
      <4> QED BY <2>1, <2>3, <2>7, <4>1, <4>2, <4>3
    <3>2. CASE i # j
      <4>1. i \in 1..n /\ i \in 1..k
        BY <1>1, <1>5, <2>2, <3>2 DEF j
      <4>2. o[i - 1] + w(i) <= Len(d) /\ Bytes(d, o[i - 1], w(i)) = e(i)
        BY <2>1, <4>1 DEF At
      <4>3. o[i - 1] \in Nat /\ w(i) \in Nat
        BY <1>2, <4>1
      <4>4. o[i - 1] + w(i) <= Len(d \o x)
        BY <2>3, <2>7, <4>2, <4>3
      <4> QED BY <2>7, <4>2, <4>3, <4>4
    <3> QED BY <3>1, <3>2
  <2>9. Len(d \o x) = o[j]
    BY <2>1, <2>3, <2>7
  <2> QED BY <2>6, <2>7, <2>8, <2>9 DEF j, Good, At
<1> HIDE DEF T, Good
<1>6. k \in T
  BY <1>1, <1>4, <1>5, Induction
<1>7. PICK d \in Seq(Byte) : after[k] = buffer(d) /\ Len(d) = o[k] /\ At(d, k)
  <2>1. Good(k)
    BY <1>1, <1>6 DEF T
  <2> HIDE DEF buffer, At
  <2> QED BY <2>1 DEF Good
<1>8. serialize(fields, m, o[k]).data = d
  BY <1>3, <1>7
<1> QED BY <1>2, <1>7, <1>8 DEF k, w, e

(* A record, or any other function.                                        *)
IsRecord(m) == m = [x \in DOMAIN m |-> m[x]]

(* What is left of m after fields were read into it.                       *)
ReadInto(fields, m, M) ==
  /\ IsRecord(M) /\ DOMAIN M = DOMAIN m /\ Fits(fields, M)
  /\ \A x \in DOMAIN m : (\A i \in 1..Len(fields) : fields[i].name # x) => M[x] = m[x]

(* Every field is read from its place; too few bytes are noticed; the      *)
(* members stay in their ranges.                                           *)
ReadOf(fields, o, m, data, read) ==
  \E M, index, result :
    /\ index \in Nat /\ result \in {0, 1}
    /\ read = [data |-> data, index |-> index, message |-> M, result |-> result]
    /\ ReadInto(fields, m, M)
    /\ result = 0 <=> o[Len(fields)] <= Len(data)
    /\ result = 0 =>
         /\ index = o[Len(fields)]
         /\ \A i \in 1..Len(fields) :
              M[fields[i].name] =
                Decoded(fields[i].kind, Bytes(data, o[i - 1], Width(fields[i].kind)))

LEMMA Deserialized ==
  ASSUME NEW fields, NEW o, Layout(fields, o), NEW m, IsRecord(m), Fits(fields, m),
         NEW data \in Seq(Byte)
  PROVE  ReadOf(fields, o, m, data, deserialize(fields, m, data))
<1> DEFINE k == Len(fields)
           w(i) == Width(fields[i].kind)
           d(i) == Decoded(fields[i].kind, Bytes(data, o[i - 1], w(i)))
           buffer(M, index, result) ==
             [data |-> data, index |-> index, message |-> M, result |-> result]
<1>1. k \in Nat /\ o \in [0..k -> Nat] /\ o[0] = 0 /\ Len(data) \in Nat
  BY DEF Layout
<1>2. ASSUME NEW i \in 1..k
      PROVE  /\ fields[i].kind \in Kinds /\ w(i) \in Nat
             /\ o[i] = o[i - 1] + w(i) /\ o[i] <= o[k]
             /\ i - 1 \in 0..k /\ o[i - 1] \in Nat /\ o[i] \in Nat
             /\ \A j \in 1..k : fields[i].name = fields[j].name => i = j
  <2>1. fields[i].kind \in Kinds
    BY DEF Layout
  <2>2. i - 1 \in 0..k /\ i \in 0..k
    BY <1>1
  <2>3. w(i) \in Nat
    BY DEF Width
  <2> QED BY <1>1, <2>1, <2>2, <2>3 DEF Layout
<1>3. PICK after :
        /\ after[0] = begin(data, m)
        /\ \A i \in 1..k : after[i] = readField(after[i - 1], fields[i])
        /\ deserialize(fields, m, data) = after[k]
  BY <1>1, DeserializeSteps
<1> DEFINE Read(n, M, index, result) ==
             /\ index <= Len(data)
             /\ result = 0 => /\ index = o[n]
                              /\ \A i \in 1..n : M[fields[i].name] = d(i)
             /\ result = 1 => Len(data) < o[k]
           Good(n) ==
             \E M, index, result :
               /\ index \in Nat /\ result \in {0, 1}
               /\ after[n] = buffer(M, index, result)
               /\ ReadInto(fields, m, M)
               /\ Read(n, M, index, result)
           T == {n \in Nat : n <= k => Good(n)}
<1>4. 0 \in T
  <2>1. after[0] = buffer(m, 0, 0)
    BY <1>3 DEF begin
  <2>2. ReadInto(fields, m, m) /\ Read(0, m, 0, 0)
    BY <1>1 DEF ReadInto
  <2> HIDE DEF Read, buffer
  <2>3. Good(0)
    BY <2>1, <2>2
  <2> HIDE DEF Good
  <2> QED BY <2>3
<1>5. ASSUME NEW n \in T, n \in Nat PROVE n + 1 \in T
  <2> HIDE DEF Good
  <2> SUFFICES ASSUME n + 1 <= k PROVE Good(n + 1)
    BY <1>5
  <2>0. Good(n)
    BY <1>1, <1>5
  <2> HIDE DEF buffer, Read, T, k, w, d
  <2>1. PICK M, index, result :
          /\ index \in Nat /\ result \in {0, 1}
          /\ after[n] = buffer(M, index, result)
          /\ ReadInto(fields, m, M)
          /\ Read(n, M, index, result)
    BY <2>0 DEF Good
  <2>10. index \in Nat /\ result \in {0, 1}
    BY <2>1
  <2> DEFINE j == n + 1
             name == fields[j].name
             kind == fields[j].kind
             len == Width(kind)
             room == Len(data) - index
             v == Decoded(kind, Bytes(data, index, len))
  <2>2. j \in 1..k /\ j - 1 = n /\ n \in 0..k
    BY <1>1, <1>5
  <2>3. /\ kind \in Kinds /\ len \in Nat /\ w(j) = len /\ o[j] = o[n] + len /\ o[j] <= o[k]
        /\ o[n] \in Nat /\ o[j] \in Nat
        /\ \A i \in 1..k : name = fields[i].name => i = j
    BY <1>2, <2>2 DEF w
  <2>4. name \in DOMAIN m /\ name \in DOMAIN M
    BY <2>1, <2>2 DEF Fits, ReadInto, k
  <2>5. after[j] = readField(buffer(M, index, result), fields[j])
    BY <1>3, <2>1, <2>2
  <2>6. room \in Nat /\ index <= Len(data)
    BY <1>1, <2>1 DEF Read
  <2>7. CASE room < len
    <3>1. after[j] = buffer(M, index, 1)
      BY <2>5, <2>7 DEF readField, Room, buffer
    <3>2. Len(data) < o[k]
      <4>1. CASE result = 0
        <5>1. index = o[n] /\ o[k] \in Nat
          BY <1>1, <2>1, <4>1 DEF Read
        <5> HIDE DEF j, len
        <5> QED BY <1>1, <2>3, <2>7, <5>1
      <4>2. CASE result = 1
        BY <2>1, <4>2 DEF Read
      <4> QED BY <2>10, <4>1, <4>2
    <3>3. Read(j, M, index, 1)
      BY <2>6, <3>2 DEF Read
    <3> HIDE DEF j
    <3> QED BY <2>10, <2>1, <3>1, <3>3 DEF Good, j
  <2>8. CASE ~(room < len)
    <3> DEFINE N == [M EXCEPT ![name] = v]
    <3>1. after[j] = buffer(N, index + len, result)
      BY <2>5, <2>8 DEF readField, Room, buffer
    <3> HIDE DEF len, v, name, kind, room, j
    <3>2. index + len \in Nat /\ index + len <= Len(data)
      BY <1>1, <2>10, <2>3, <2>6, <2>8 DEF room
    <3>3. v \in Values(kind)
      <4>1. Bytes(data, index, len) \in Seq(Byte) /\ Len(Bytes(data, index, len)) = len
        BY <2>10, <2>3, <2>6, <3>2, BytesType
      <4> QED BY <2>3, <4>1, DecodedType DEF v, len
    <3>4. IsRecord(M) /\ DOMAIN M = DOMAIN m
      BY <2>1 DEF ReadInto
    <3>5. IsRecord(N) /\ DOMAIN N = DOMAIN M /\ N[name] = v
          /\ \A x \in DOMAIN M : x # name => N[x] = M[x]
      BY <2>4, <3>4 DEF IsRecord
    <3> HIDE DEF N
    <3>6. \A i \in 1..k : i # j => fields[i].name # name /\ N[fields[i].name] = M[fields[i].name]
      <4>1. \A i \in 1..k : fields[i].name \in DOMAIN M
        BY <2>1 DEF ReadInto, Fits, k
      <4> QED BY <2>3, <3>5, <4>1
    <3>7. Fits(fields, N)
      <4> SUFFICES ASSUME NEW i \in 1..k
                   PROVE  fields[i].name \in DOMAIN N
                          /\ N[fields[i].name] \in Values(fields[i].kind)
        BY DEF Fits, k
      <4>1. fields[i].name \in DOMAIN M /\ M[fields[i].name] \in Values(fields[i].kind)
        BY <2>1 DEF ReadInto, Fits, k
      <4>2. CASE i = j
        BY <3>3, <3>5, <4>1, <4>2 DEF name, kind
      <4>3. CASE i # j
        BY <3>5, <3>6, <4>1, <4>3
      <4> QED BY <4>2, <4>3
    <3>8. ReadInto(fields, m, N)
      <4>1. ASSUME NEW x \in DOMAIN m, \A i \in 1..k : fields[i].name # x
            PROVE  N[x] = m[x]
        <5>1. x # name
          BY <2>2, <4>1 DEF name
        <5>2. M[x] = m[x]
          BY <2>1, <4>1 DEF ReadInto, k
        <5> QED BY <3>4, <3>5, <5>1, <5>2
      <4> QED BY <3>4, <3>5, <3>7, <4>1 DEF ReadInto, k
    <3>9. Read(j, N, index + len, result)
      <4>1. ASSUME result = 0
            PROVE  index + len = o[j] /\ \A i \in 1..j : N[fields[i].name] = d(i)
        <5>1. index = o[n] /\ \A i \in 1..n : M[fields[i].name] = d(i)
          BY <2>1, <4>1 DEF Read
        <5>2. d(j) = v
          BY <2>2, <2>3, <5>1 DEF d, v, kind
        <5>3. ASSUME NEW i \in 1..j PROVE N[fields[i].name] = d(i)
          <6>1. CASE i = j
            BY <3>5, <5>2, <6>1 DEF name
          <6>2. CASE i # j
            <7>1. i \in 1..n /\ i \in 1..k
              BY <1>1, <1>5, <2>2, <6>2 DEF j
            <7> QED BY <3>6, <5>1, <6>2, <7>1
          <6> QED BY <6>1, <6>2
        <5> QED BY <2>3, <5>1, <5>3
      <4>2. result = 1 => Len(data) < o[k]
        BY <2>1 DEF Read
      <4> QED BY <3>2, <4>1, <4>2 DEF Read
    <3> QED BY <2>10, <3>1, <3>2, <3>8, <3>9 DEF Good, j
  <2> QED BY <2>7, <2>8
<1> HIDE DEF T, Good
<1>6. k \in T
  BY <1>1, <1>4, <1>5, Induction
<1>7. PICK M, index, result :
        /\ index \in Nat /\ result \in {0, 1}
        /\ after[k] = buffer(M, index, result)
        /\ ReadInto(fields, m, M)
        /\ Read(k, M, index, result)
  <2>1. Good(k)
    BY <1>1, <1>6 DEF T
  <2> HIDE DEF buffer, Read
  <2> QED BY <2>1 DEF Good
<1>8. result = 0 <=> o[k] <= Len(data)
  <2>1. o[k] \in Nat
    BY <1>1
  <2> HIDE DEF k
  <2> QED BY <1>1, <1>7, <2>1
<1>9. /\ deserialize(fields, m, data) = buffer(M, index, result)
      /\ result = 0 => /\ index = o[k]
                       /\ \A i \in 1..k : M[fields[i].name] = d(i)
  BY <1>3, <1>7
<1>10. index \in Nat /\ result \in {0, 1} /\ ReadInto(fields, m, M)
  BY <1>7
<1> QED BY <1>8, <1>9, <1>10 DEF ReadOf

(* A message of numbers is read as it was written, whatever follows it;    *)
(* the members that it does not name are left as they were.                *)
Over(fields, m, old) ==
  [x \in DOMAIN old |-> IF \E i \in 1..Len(fields) : x = fields[i].name THEN m[x] ELSE old[x]]

THEOREM ReadBack ==
  ASSUME NEW fields, NEW o, Layout(fields, o), NEW m, Fits(fields, m),
         NEW old, IsRecord(old), Fits(fields, old), NEW rest \in Seq(Byte)
  PROVE  LET d == serialize(fields, m, o[Len(fields)]).data
         IN  deserialize(fields, old, d \o rest)
               = [data |-> d \o rest, index |-> o[Len(fields)],
                  message |-> Over(fields, m, old), result |-> 0]
<1> DEFINE k == Len(fields)
           d == serialize(fields, m, o[k]).data
           w(i) == Width(fields[i].kind)
           e(i) == Encoded(fields[i].kind, m[fields[i].name])
<1>1. /\ d \in Seq(Byte) /\ Len(d) = o[k]
      /\ \A i \in 1..k : /\ o[i - 1] \in Nat /\ o[i - 1] + w(i) <= Len(d)
                         /\ Bytes(d, o[i - 1], w(i)) = e(i)
  BY Serialized
<1> HIDE DEF d
<1>2. /\ d \o rest \in Seq(Byte) /\ Len(d \o rest) = Len(d) + Len(rest)
      /\ \A a, b \in Nat : a + b <= Len(d) => Bytes(d \o rest, a, b) = Bytes(d, a, b)
  BY <1>1, BytesOfConcat
<1>3. PICK M, index, result :
        /\ index \in Nat /\ result \in {0, 1}
        /\ deserialize(fields, old, d \o rest)
             = [data |-> d \o rest, index |-> index, message |-> M, result |-> result]
        /\ ReadInto(fields, old, M)
        /\ result = 0 <=> o[k] <= Len(d \o rest)
        /\ result = 0 =>
             /\ index = o[k]
             /\ \A i \in 1..k :
                  M[fields[i].name]
                    = Decoded(fields[i].kind, Bytes(d \o rest, o[i - 1], w(i)))
  <2>1. ReadOf(fields, o, old, d \o rest, deserialize(fields, old, d \o rest))
    BY <1>2, Deserialized
  <2> DEFINE data == d \o rest
  <2> HIDE DEF data
  <2> QED BY <2>1 DEF ReadOf
<1>4. result = 0
  BY <1>1, <1>2, <1>3
<1>5. ASSUME NEW i \in 1..k PROVE M[fields[i].name] = m[fields[i].name]
  <2>1. fields[i].kind \in Kinds
    BY DEF Layout
  <2>2. w(i) \in Nat
    BY DEF Width
  <2>3. Bytes(d \o rest, o[i - 1], w(i)) = e(i)
    BY <1>1, <1>2, <2>2
  <2>4. M[fields[i].name] = Decoded(fields[i].kind, e(i))
    BY <1>3, <1>4, <2>3
  <2>5. m[fields[i].name] \in Values(fields[i].kind)
    BY DEF Fits
  <2> QED BY <2>1, <2>4, <2>5, DecodeEncoded
<1>6. M = Over(fields, m, old)
  <2>1. M = [x \in DOMAIN old |-> M[x]]
    BY <1>3 DEF ReadInto, IsRecord
  <2>2. ASSUME NEW x \in DOMAIN old
        PROVE  M[x] = IF \E i \in 1..k : x = fields[i].name THEN m[x] ELSE old[x]
    <3>1. CASE \E i \in 1..k : x = fields[i].name
      BY <1>5, <3>1
    <3>2. CASE ~\E i \in 1..k : x = fields[i].name
      BY <1>3, <3>2 DEF ReadInto
    <3> QED BY <3>1, <3>2
  <2> QED BY <2>1, <2>2 DEF Over
<1> QED BY <1>3, <1>4, <1>6 DEF d

-----------------------------------------------------------------------------
(***************************************************************************)
(* Taking bytes apart.                                                     *)
(***************************************************************************)
LEMMA Concat ==
  ASSUME NEW a \in Seq(Byte), NEW b \in Seq(Byte)
  PROVE  /\ a \o b \in Seq(Byte) /\ Len(a \o b) = Len(a) + Len(b)
         /\ Len(a) \in Nat /\ Len(b) \in Nat
         /\ \A c \in Seq(Byte) : (a \o b) \o c = a \o (b \o c)
         /\ \A c \in Seq(Byte) : a \o b = a \o c => b = c
         /\ a \o <<>> = a /\ <<>> \o a = a /\ <<>> \in Seq(Byte)
         /\ Bytes(a \o b, 0, Len(a)) = a /\ Bytes(a \o b, Len(a), Len(b)) = b
         /\ SubSeq(a \o b, Len(a) + 1, Len(a \o b)) = b
<1>1. /\ a \o b \in Seq(Byte) /\ Len(a \o b) = Len(a) + Len(b)
      /\ Len(a) \in Nat /\ Len(b) \in Nat
  BY ConcatProperties
<1>2. \A c \in Seq(Byte) : (a \o b) \o c = a \o (b \o c)
  BY ConcatAssociative
<1>3. \A c \in Seq(Byte) : a \o b = a \o c => b = c
  BY ConcatSimplifications, Zenon
<1>4. a \o <<>> = a /\ <<>> \o a = a /\ <<>> \in Seq(Byte)
  BY ConcatEmptySeq, EmptySeq
<1>5. Bytes(a \o b, 0, Len(a)) = a /\ Bytes(a \o b, Len(a), Len(b)) = b
  <2>1. Bytes(a \o b, 0, Len(a)) = a
    BY <1>1, BytesOfConcat, BytesAll
  <2> DEFINE k == Len(a)
             l == Len(b)
  <2>2. k \in Nat /\ l \in Nat /\ 0 \in Nat /\ 0 + l <= l /\ k + 0 = k
    OBVIOUS
  <2>3. \A index, n \in Nat : index + n <= l => Bytes(a \o b, k + index, n) = Bytes(b, index, n)
    BY BytesOfConcat
  <2>4. Bytes(b, 0, l) = b
    BY BytesAll
  <2> HIDE DEF k, l
  <2>5. Bytes(a \o b, k + 0, l) = Bytes(b, 0, l)
    BY <2>2, <2>3
  <2> QED BY <2>1, <2>2, <2>4, <2>5 DEF k, l
<1>6. SubSeq(a \o b, Len(a) + 1, Len(a \o b)) = b
  <2> DEFINE k == Len(a)
             l == Len(b)
             ab == a \o b
             s == SubSeq(ab, k + 1, k + l)
  <2>1. /\ k \in Nat /\ l \in Nat /\ ab \in Seq(Byte) /\ Len(ab) = k + l
        /\ \A i \in 1..(k + l) : ab[i] = IF i <= k THEN a[i] ELSE b[i - k]
    BY ConcatProperties
  <2> HIDE DEF ab
  <2>2. \A i \in (k + 1)..(k + l) : ab[i] \in Byte
    BY <2>1
  <2> HIDE DEF k, l
  <2>3. k + 1 \in Int /\ k + l \in Int
    BY <2>1
  <2>4. /\ s \in Seq(Byte) /\ Len(s) = (IF k + 1 <= k + l THEN (k + l) - (k + 1) + 1 ELSE 0)
        /\ \A i \in 1..((k + l) - (k + 1) + 1) : s[i] = ab[(k + 1) + i - 1]
    BY <2>2, <2>3, SubSeqProperties
  <2>5. Len(s) = l
    BY <2>1, <2>4
  <2>6. ASSUME NEW i \in 1..l PROVE s[i] = b[i]
    <3>1. i \in 1..((k + l) - (k + 1) + 1) /\ (k + 1) + i - 1 = k + i
      BY <2>1
    <3>2. k + i \in 1..(k + l) /\ ~(k + i <= k) /\ (k + i) - k = i
      BY <2>1
    <3> QED BY <2>1, <2>4, <3>1, <3>2
  <2> HIDE DEF s
  <2>7. s = b
    BY <2>4, <2>5, <2>6, SeqEqual DEF l
  <2> QED BY <2>1, <2>7 DEF s, k, ab
<1> QED BY <1>1, <1>2, <1>3, <1>4, <1>5, <1>6

Cuts(all, a, b) == a \in Seq(Byte) /\ b \in Seq(Byte) /\ all = a \o b

(* Two ways to cut the same bytes.                                         *)
LEMMA Cut ==
  ASSUME NEW all, NEW a, NEW b, NEW p, NEW t,
         Cuts(all, a, b), Cuts(all, p, t), Len(a) <= Len(p)
  PROVE  \E r : Cuts(p, a, r) /\ Cuts(b, r, t)
<1> DEFINE k == Len(a)
           r == SubSeq(p, k + 1, Len(p))
<1>0. /\ a \in Seq(Byte) /\ b \in Seq(Byte) /\ p \in Seq(Byte) /\ t \in Seq(Byte)
      /\ a \o b = p \o t
  BY DEF Cuts
<1>1. Len(p) \in Nat /\ k \in Nat /\ k <= Len(p)
  BY <1>0
<1>2. r \in Seq(Byte) /\ p = a \o r
  <2>1. k + 1 \in 1..(Len(p) + 1) /\ k \in (1 - 1)..Len(p) /\ Len(p) \in k..Len(p)
        /\ 1 \in 1..(Len(p) + 1)
    BY <1>1
  <2>2. SubSeq(p, 1, k) \o SubSeq(p, k + 1, Len(p)) = SubSeq(p, 1, Len(p))
    BY <1>0, <2>1, ConcatAdjacentSubSeq
  <2>3. SubSeq(p, 1, Len(p)) = p
    BY <1>0, SubSeqFull
  <2>4. SubSeq(p, 1, k) = a
    <3>1. Bytes(p \o t, 0, k) = Bytes(p, 0, k)
      <4>1. 0 + k <= Len(p)
        BY <1>1
      <4> QED BY <1>0, <1>1, <4>1, BytesOfConcat
    <3>4. Bytes(a \o b, 0, k) = a
      BY <1>0, Concat
    <3>2. 0 + 1 = 1 /\ (IF 0 + k < Len(p) THEN 0 + k ELSE Len(p)) = k
      BY <1>1
    <3>3. Bytes(p, 0, k) = SubSeq(p, 1, k)
      BY <3>2 DEF Bytes
    <3> QED BY <1>0, <3>1, <3>3, <3>4
  <2>5. \A i \in (k + 1)..Len(p) : p[i] \in Byte
    BY <1>0, <1>1
  <2>6. r \in Seq(Byte)
    BY <1>1, <2>5, SubSeqProperties
  <2> QED BY <2>2, <2>3, <2>4, <2>6
<1> HIDE DEF r
<1>3. b = r \o t
  <2>1. \A c \in Seq(Byte) : a \o b = a \o c => b = c
    BY <1>0, Concat
  <2>2. (a \o r) \o t = a \o (r \o t)
    BY <1>0, <1>2, ConcatAssociative
  <2>3. r \o t \in Seq(Byte)
    BY <1>0, <1>2, Concat
  <2> QED BY <1>0, <1>2, <2>1, <2>2, <2>3
<1>4. Cuts(p, a, r) /\ Cuts(b, r, t)
  BY <1>0, <1>2, <1>3 DEF Cuts
<1> QED BY <1>4

-----------------------------------------------------------------------------
(***************************************************************************)
(* The three messages of numbers.                                          *)
(***************************************************************************)
BaseType == [type : uint16, id : uint16, refersTo : uint16, sentSec : int32,
             sentUsec : int32, receivedSec : int32, receivedUsec : int32, size : uint32]

TimeType == [latencySec : int32, latencyUsec : int32]

BaseEnds == [i \in 0..8 |-> CASE i = 0 -> 0 [] i = 1 -> 2 [] i = 2 -> 4 [] i = 3 -> 6
                              [] i = 4 -> 10 [] i = 5 -> 14 [] i = 6 -> 18
                              [] i = 7 -> 22 [] i = 8 -> 26]

TimeEnds == [i \in 0..2 |-> 4 * i]

ChunkEnds == [i \in 0..3 |-> 4 * i]

LEMMA BaseLayout == /\ Layout(BaseFields, BaseEnds) /\ Len(BaseFields) = 8
                    /\ BaseEnds[8] = BASE_MESSAGE_SIZE
<1> DEFINE F == BaseFields
<1>1. Len(F) = 8 /\ BaseEnds[8] = BASE_MESSAGE_SIZE
  BY DEF BaseFields, BaseEnds, BASE_MESSAGE_SIZE
<1>2. /\ F[1] = Field("type", "uint16") /\ F[2] = Field("id", "uint16")
      /\ F[3] = Field("refersTo", "uint16") /\ F[4] = Field("sentSec", "int32")
      /\ F[5] = Field("sentUsec", "int32") /\ F[6] = Field("receivedSec", "int32")
      /\ F[7] = Field("receivedUsec", "int32") /\ F[8] = Field("size", "uint32")
  BY DEF BaseFields
<1>4. BaseEnds \in [0..8 -> Nat] /\ BaseEnds[0] = 0
  BY DEF BaseEnds
<1>5. \A i \in 1..8 : /\ F[i].kind \in Kinds
                      /\ BaseEnds[i] = BaseEnds[i - 1] + Width(F[i].kind)
                      /\ BaseEnds[i] <= BaseEnds[8]
  BY <1>2 DEF BaseEnds, Width, Field, Kinds
<1>6. \A i, j \in 1..8 : F[i].name = F[j].name => i = j
  <2>1. /\ F[1].name = "type" /\ F[2].name = "id" /\ F[3].name = "refersTo"
        /\ F[4].name = "sentSec" /\ F[5].name = "sentUsec" /\ F[6].name = "receivedSec"
        /\ F[7].name = "receivedUsec" /\ F[8].name = "size"
    BY <1>2 DEF Field
  <2> HIDE DEF F
  <2> QED BY <2>1
<1> HIDE DEF F
<1> QED BY <1>1, <1>4, <1>5, <1>6 DEF Layout, F

LEMMA TimeLayout == /\ Layout(TimeFields, TimeEnds) /\ Len(TimeFields) = 2
                    /\ TimeEnds[2] = TIME_MESSAGE_SIZE
<1> DEFINE F == TimeFields
<1>1. /\ Len(F) = 2 /\ F[1] = Field("latencySec", "int32")
      /\ F[2] = Field("latencyUsec", "int32")
  BY DEF TimeFields
<1>3. TimeEnds \in [0..2 -> Nat] /\ TimeEnds[0] = 0 /\ TimeEnds[2] = TIME_MESSAGE_SIZE
  BY DEF TimeEnds, TIME_MESSAGE_SIZE
<1>4. /\ F[1].name = "latencySec" /\ F[2].name = "latencyUsec"
      /\ F[1].kind = "int32" /\ F[2].kind = "int32"
  BY <1>1 DEF Field
<1> HIDE DEF F
<1>5. \A i \in 1..2 : /\ F[i].kind \in Kinds
                      /\ TimeEnds[i] = TimeEnds[i - 1] + Width(F[i].kind)
                      /\ TimeEnds[i] <= TimeEnds[2]
  BY <1>4 DEF TimeEnds, Width, Kinds
<1>6. \A i, j \in 1..2 : F[i].name = F[j].name => i = j
  BY <1>4
<1> QED BY <1>1, <1>3, <1>5, <1>6 DEF Layout, F

LEMMA ChunkLayout == /\ Layout(ChunkFields, ChunkEnds) /\ Len(ChunkFields) = 3
                     /\ ChunkEnds[3] = 12
<1> DEFINE F == ChunkFields
<1>1. /\ Len(F) = 3 /\ F[1] = Field("sec", "int32")
      /\ F[2] = Field("usec", "int32") /\ F[3] = Field("size", "uint32")
  BY DEF ChunkFields
<1>3. ChunkEnds \in [0..3 -> Nat] /\ ChunkEnds[0] = 0 /\ ChunkEnds[3] = 12
  BY DEF ChunkEnds
<1>4. /\ F[1].name = "sec" /\ F[2].name = "usec" /\ F[3].name = "size"
      /\ F[1].kind = "int32" /\ F[2].kind = "int32" /\ F[3].kind = "uint32"
  BY <1>1 DEF Field
<1> HIDE DEF F
<1>5. \A i \in 1..3 : /\ F[i].kind \in Kinds
                      /\ ChunkEnds[i] = ChunkEnds[i - 1] + Width(F[i].kind)
                      /\ ChunkEnds[i] <= ChunkEnds[3]
  BY <1>4 DEF ChunkEnds, Width, Kinds
<1>6. \A i, j \in 1..3 : F[i].name = F[j].name => i = j
  BY <1>4
<1> QED BY <1>1, <1>3, <1>5, <1>6 DEF Layout, F

(* The base part. *)
LEMMA BaseIsRead ==
  ASSUME NEW m \in BaseType
  PROVE  /\ IsRecord(m) /\ Fits(BaseFields, m)
         /\ serialize(BaseFields, m, BASE_MESSAGE_SIZE).data \in Seq(Byte)
         /\ Len(serialize(BaseFields, m, BASE_MESSAGE_SIZE).data) = BASE_MESSAGE_SIZE
         /\ \A old \in BaseType :
              LET read == deserialize(BaseFields, old,
                            serialize(BaseFields, m, BASE_MESSAGE_SIZE).data)
              IN  read.result = 0 /\ read.message = m
<1> DEFINE F == BaseFields
           names == {"type", "id", "refersTo", "sentSec", "sentUsec", "receivedSec",
                     "receivedUsec", "size"}
           d == serialize(F, m, BASE_MESSAGE_SIZE).data
<1>1. /\ F[1].name = "type" /\ F[2].name = "id" /\ F[3].name = "refersTo"
      /\ F[4].name = "sentSec" /\ F[5].name = "sentUsec" /\ F[6].name = "receivedSec"
      /\ F[7].name = "receivedUsec" /\ F[8].name = "size"
  BY DEF BaseFields, Field
<1>2. /\ F[1].kind = "uint16" /\ F[2].kind = "uint16" /\ F[3].kind = "uint16"
      /\ F[4].kind = "int32" /\ F[5].kind = "int32" /\ F[6].kind = "int32"
      /\ F[7].kind = "int32" /\ F[8].kind = "uint32"
  BY DEF BaseFields, Field
<1>3. Len(F) = 8 /\ BaseEnds[Len(F)] = BASE_MESSAGE_SIZE /\ Layout(F, BaseEnds)
  BY BaseLayout
<1> HIDE DEF F
<1>4. ASSUME NEW r \in BaseType
      PROVE  IsRecord(r) /\ DOMAIN r = names /\ Fits(F, r)
  <2>1. DOMAIN r = names /\ r = [x \in DOMAIN r |-> r[x]]
    BY DEF BaseType
  <2>2. /\ r["type"] \in uint16 /\ r["id"] \in uint16 /\ r["refersTo"] \in uint16
        /\ r["sentSec"] \in int32 /\ r["sentUsec"] \in int32 /\ r["receivedSec"] \in int32
        /\ r["receivedUsec"] \in int32 /\ r["size"] \in uint32
    BY DEF BaseType
  <2>3. ASSUME NEW i \in 1..8
        PROVE  F[i].name \in names /\ r[F[i].name] \in Values(F[i].kind)
    <3>1. i = 1 \/ i = 2 \/ i = 3 \/ i = 4 \/ i = 5 \/ i = 6 \/ i = 7 \/ i = 8
      OBVIOUS
    <3> QED BY <1>1, <1>2, <2>2, <3>1 DEF Values
  <2> QED BY <1>3, <2>1, <2>3 DEF IsRecord, Fits
<1>5. d \in Seq(Byte) /\ Len(d) = BASE_MESSAGE_SIZE
  BY <1>3, <1>4, Serialized
<1>6. \A x \in names : \E i \in 1..Len(F) : x = F[i].name
  BY <1>1, <1>3
<1>7. ASSUME NEW old \in BaseType
      PROVE  deserialize(F, old, d).result = 0 /\ deserialize(F, old, d).message = m
  <2>1. <<>> \in Seq(Byte) /\ d \o <<>> = d
    BY <1>5, ConcatEmptySeq
  <2>2. IsRecord(old) /\ Fits(F, old) /\ Fits(F, m) /\ IsRecord(m) /\ DOMAIN m = names
        /\ DOMAIN old = names
    BY <1>4
  <2>3. deserialize(F, old, d \o <<>>)
          = [data |-> d \o <<>>, index |-> BASE_MESSAGE_SIZE, message |-> Over(F, m, old),
             result |-> 0]
    BY <1>3, <2>1, <2>2, ReadBack
  <2>4. Over(F, m, old) = m
    <3>1. \A x \in DOMAIN old : \E i \in 1..Len(F) : x = F[i].name
      BY <1>6, <2>2
    <3> HIDE DEF names
    <3>2. Over(F, m, old) = [x \in DOMAIN old |-> m[x]]
      BY <3>1 DEF Over
    <3> QED BY <2>2, <3>2 DEF IsRecord
  <2> HIDE DEF d
  <2> QED BY <2>1, <2>3, <2>4
<1> QED BY <1>4, <1>5, <1>7 DEF F

LEMMA BaseOfBytes ==
  ASSUME NEW old \in BaseType, NEW data \in Seq(Byte)
  PROVE  /\ deserialize(BaseFields, old, data).message \in BaseType
         /\ Len(data) < BASE_MESSAGE_SIZE => deserialize(BaseFields, old, data).result # 0
<1>1. IsRecord(old) /\ Fits(BaseFields, old)
  BY BaseIsRead
<1>2. Layout(BaseFields, BaseEnds) /\ Len(BaseFields) = 8 /\ BaseEnds[8] = BASE_MESSAGE_SIZE
  BY BaseLayout
<1> DEFINE r == deserialize(BaseFields, old, data)
<1>3. /\ ReadInto(BaseFields, old, r.message)
      /\ r.result = 0 <=> BASE_MESSAGE_SIZE <= Len(data)
  <2>1. PICK M, index, result :
          /\ r = [data |-> data, index |-> index, message |-> M, result |-> result]
          /\ ReadInto(BaseFields, old, M)
          /\ result = 0 <=> BaseEnds[Len(BaseFields)] <= Len(data)
    <3>1. ReadOf(BaseFields, BaseEnds, old, data, r)
      BY <1>1, <1>2, Deserialized
    <3> HIDE DEF r
    <3> QED BY <3>1 DEF ReadOf
  <2> QED BY <1>2, <2>1
<1> DEFINE M == r.message
<1> HIDE DEF r
<1>4. M \in BaseType
  <2>1. IsRecord(M) /\ DOMAIN M = DOMAIN old /\ Fits(BaseFields, M)
    BY <1>3 DEF ReadInto
  <2>2. DOMAIN old = {"type", "id", "refersTo", "sentSec", "sentUsec", "receivedSec",
                      "receivedUsec", "size"}
    BY DEF BaseType
  <2>3. \A i \in 1..8 : M[BaseFields[i].name] \in Values(BaseFields[i].kind)
    BY <1>2, <2>1 DEF Fits
  <2>4. /\ M["type"] \in uint16 /\ M["id"] \in uint16 /\ M["refersTo"] \in uint16
        /\ M["sentSec"] \in int32 /\ M["sentUsec"] \in int32 /\ M["receivedSec"] \in int32
        /\ M["receivedUsec"] \in int32 /\ M["size"] \in uint32
    BY <2>3 DEF BaseFields, Field, Values
  <2> HIDE DEF M
  <2>5. M = [type |-> M["type"], id |-> M["id"], refersTo |-> M["refersTo"],
             sentSec |-> M["sentSec"], sentUsec |-> M["sentUsec"],
             receivedSec |-> M["receivedSec"], receivedUsec |-> M["receivedUsec"],
             size |-> M["size"]]
    BY <2>1, <2>2 DEF IsRecord
  <2> QED BY <2>4, <2>5 DEF BaseType
<1>5. Len(data) \in Nat /\ BASE_MESSAGE_SIZE \in Nat
  BY DEF BASE_MESSAGE_SIZE
<1>6. Len(data) < BASE_MESSAGE_SIZE => r.result # 0
  BY <1>3, <1>5
<1> QED BY <1>4, <1>6 DEF r

(* The body of a time message. *)
LEMMA TimeIsRead ==
  ASSUME NEW m \in TimeType
  PROVE  /\ IsRecord(m) /\ Fits(TimeFields, m)
         /\ serialize(TimeFields, m, TIME_MESSAGE_SIZE).data \in Seq(Byte)
         /\ Len(serialize(TimeFields, m, TIME_MESSAGE_SIZE).data) = TIME_MESSAGE_SIZE
         /\ \A old \in TimeType :
              LET read == deserialize(TimeFields, old,
                            serialize(TimeFields, m, TIME_MESSAGE_SIZE).data)
              IN  read.result = 0 /\ read.message = m
<1> DEFINE F == TimeFields
           names == {"latencySec", "latencyUsec"}
           d == serialize(F, m, TIME_MESSAGE_SIZE).data
<1>1. /\ F[1].name = "latencySec" /\ F[2].name = "latencyUsec"
      /\ F[1].kind = "int32" /\ F[2].kind = "int32"
  BY DEF TimeFields, Field
<1>2. Len(F) = 2 /\ TimeEnds[Len(F)] = TIME_MESSAGE_SIZE /\ Layout(F, TimeEnds)
  BY TimeLayout
<1> HIDE DEF F
<1>3. ASSUME NEW r \in TimeType
      PROVE  IsRecord(r) /\ DOMAIN r = names /\ Fits(F, r)
  <2>1. DOMAIN r = names /\ r = [x \in DOMAIN r |-> r[x]]
    BY DEF TimeType
  <2>2. r["latencySec"] \in int32 /\ r["latencyUsec"] \in int32
    BY DEF TimeType
  <2>3. ASSUME NEW i \in 1..2
        PROVE  F[i].name \in names /\ r[F[i].name] \in Values(F[i].kind)
    BY <1>1, <2>2 DEF Values
  <2> QED BY <1>2, <2>1, <2>3 DEF IsRecord, Fits
<1>4. d \in Seq(Byte) /\ Len(d) = TIME_MESSAGE_SIZE
  BY <1>2, <1>3, Serialized
<1>5. \A x \in names : \E i \in 1..Len(F) : x = F[i].name
  BY <1>1, <1>2
<1>6. ASSUME NEW old \in TimeType
      PROVE  deserialize(F, old, d).result = 0 /\ deserialize(F, old, d).message = m
  <2>1. <<>> \in Seq(Byte) /\ d \o <<>> = d
    BY <1>4, ConcatEmptySeq
  <2>2. IsRecord(old) /\ Fits(F, old) /\ Fits(F, m) /\ IsRecord(m) /\ DOMAIN m = names
        /\ DOMAIN old = names
    BY <1>3
  <2>3. deserialize(F, old, d \o <<>>)
          = [data |-> d \o <<>>, index |-> TIME_MESSAGE_SIZE, message |-> Over(F, m, old),
             result |-> 0]
    BY <1>2, <2>1, <2>2, ReadBack
  <2>4. Over(F, m, old) = m
    <3>1. \A x \in DOMAIN old : \E i \in 1..Len(F) : x = F[i].name
      BY <1>5, <2>2
    <3> HIDE DEF names
    <3>2. Over(F, m, old) = [x \in DOMAIN old |-> m[x]]
      BY <3>1 DEF Over
    <3> QED BY <2>2, <3>2 DEF IsRecord
  <2> HIDE DEF d
  <2> QED BY <2>1, <2>3, <2>4
<1> QED BY <1>3, <1>4, <1>6 DEF F

LEMMA TimeOfBytes ==
  ASSUME NEW old \in TimeType, NEW data \in Seq(Byte)
  PROVE  /\ deserialize(TimeFields, old, data).message \in TimeType
         /\ Len(data) < TIME_MESSAGE_SIZE => deserialize(TimeFields, old, data).result # 0
<1>1. IsRecord(old) /\ Fits(TimeFields, old)
  BY TimeIsRead
<1>2. Layout(TimeFields, TimeEnds) /\ Len(TimeFields) = 2 /\ TimeEnds[2] = TIME_MESSAGE_SIZE
  BY TimeLayout
<1> DEFINE r == deserialize(TimeFields, old, data)
<1>3. /\ ReadInto(TimeFields, old, r.message)
      /\ r.result = 0 <=> TIME_MESSAGE_SIZE <= Len(data)
  <2>1. ReadOf(TimeFields, TimeEnds, old, data, r)
    BY <1>1, <1>2, Deserialized
  <2> HIDE DEF r
  <2> QED BY <1>2, <2>1 DEF ReadOf
<1> DEFINE M == r.message
<1> HIDE DEF r
<1>4. M \in TimeType
  <2>1. IsRecord(M) /\ DOMAIN M = DOMAIN old /\ Fits(TimeFields, M)
    BY <1>3 DEF ReadInto
  <2>2. DOMAIN old = {"latencySec", "latencyUsec"}
    BY DEF TimeType
  <2>3. \A i \in 1..2 : M[TimeFields[i].name] \in Values(TimeFields[i].kind)
    BY <1>2, <2>1 DEF Fits
  <2>4. M["latencySec"] \in int32 /\ M["latencyUsec"] \in int32
    BY <2>3 DEF TimeFields, Field, Values
  <2> HIDE DEF M
  <2>5. M = [latencySec |-> M["latencySec"], latencyUsec |-> M["latencyUsec"]]
    BY <2>1, <2>2 DEF IsRecord
  <2> QED BY <2>4, <2>5 DEF TimeType
<1>5. Len(data) \in Nat /\ TIME_MESSAGE_SIZE \in Nat
  BY DEF TIME_MESSAGE_SIZE
<1>6. Len(data) < TIME_MESSAGE_SIZE => r.result # 0
  BY <1>3, <1>5
<1> QED BY <1>4, <1>6 DEF r

(* What the client is sent as the body of a chunk, and of a codec header. *)
ChunkFits(c) == /\ c \in [sec : int32, usec : int32, payload : Seq(Byte)]
                /\ Len(c.payload) + 12 \in uint32

ChunkBody(c) ==
  serialize(ChunkFields, [sec |-> c.sec, usec |-> c.usec, size |-> Len(c.payload)], 12).data
    \o c.payload

NoChunk == [sec |-> 0, usec |-> 0, size |-> 0, payload |-> <<>>]

CodecFits(c) == /\ c \in [codec : Seq(Byte), payload : Seq(Byte)]
                /\ Len(c.codec) + Len(c.payload) + 8 \in uint32

CodecBody(c) ==
  write_uint32(Len(c.codec)) \o c.codec \o write_uint32(Len(c.payload)) \o c.payload

NoCodec == [string_size |-> 0, codec |-> <<>>, size |-> 0, payload |-> <<>>]

(* A chunk is read as it was sent, and not at all when its end is missing. *)
LEMMA ChunkIsRead ==
  ASSUME NEW c, ChunkFits(c)
  PROVE  /\ ChunkBody(c) \in Seq(Byte) /\ Len(ChunkBody(c)) = 12 + Len(c.payload)
         /\ \A p, x : Cuts(ChunkBody(c), p, x) =>
              LET read == deserializeChunk(NoChunk, p)
              IN  IF x = <<>>
                    THEN /\ read.result = 0
                         /\ c = [sec |-> read.message.sec, usec |-> read.message.usec,
                                 payload |-> read.message.payload]
                    ELSE read.result # 0
<1> DEFINE F == ChunkFields
           l == Len(c.payload)
           m == [sec |-> c.sec, usec |-> c.usec, size |-> l]
           d == serialize(F, m, 12).data
<1>1. /\ F[1].name = "sec" /\ F[2].name = "usec" /\ F[3].name = "size"
      /\ F[1].kind = "int32" /\ F[2].kind = "int32" /\ F[3].kind = "uint32"
  BY DEF ChunkFields, Field
<1>2. Len(F) = 3 /\ ChunkEnds[Len(F)] = 12 /\ Layout(F, ChunkEnds)
  BY ChunkLayout
<1> HIDE DEF F
<1>3. /\ c.sec \in int32 /\ c.usec \in int32 /\ c.payload \in Seq(Byte)
      /\ c = [sec |-> c.sec, usec |-> c.usec, payload |-> c.payload]
      /\ l \in Nat /\ l + 12 \in uint32
  BY DEF ChunkFits
<1> HIDE DEF l
<1>4. l \in uint32
  BY <1>3, Ranges DEF uint32
<1>5. Fits(F, m)
  <2>1. \A i \in 1..3 : F[i].name \in DOMAIN m /\ m[F[i].name] \in Values(F[i].kind)
    BY <1>1, <1>3, <1>4 DEF Values
  <2> HIDE DEF m
  <2> QED BY <1>2, <2>1 DEF Fits
<1>6. IsRecord(NoChunk) /\ Fits(F, NoChunk)
  <2>1. \A i \in 1..3 : F[i].name \in DOMAIN NoChunk
                        /\ NoChunk[F[i].name] \in Values(F[i].kind)
    BY <1>1, Ranges DEF Values, NoChunk
  <2>2. IsRecord(NoChunk)
    BY DEF NoChunk, IsRecord
  <2> QED BY <1>2, <2>1, <2>2 DEF Fits
<1>7. d \in Seq(Byte) /\ Len(d) = 12
  BY <1>2, <1>5, Serialized
<1>11. ChunkBody(c) = d \o c.payload
  BY DEF ChunkBody, F, l
<1> HIDE DEF d
<1>8. ChunkBody(c) \in Seq(Byte) /\ Len(ChunkBody(c)) = 12 + l
  <2>1. d \o c.payload \in Seq(Byte) /\ Len(d \o c.payload) = Len(d) + Len(c.payload)
    BY <1>3, <1>7, Concat
  <2> QED BY <1>7, <1>11, <2>1 DEF l
<1>9. ASSUME NEW q \in Seq(Byte)
      PROVE  deserialize(F, NoChunk, d \o q)
               = [data |-> d \o q, index |-> 12,
                  message |-> [sec |-> c.sec, usec |-> c.usec, size |-> l,
                               payload |-> <<>>],
                  result |-> 0]
  <2>1. deserialize(F, NoChunk, d \o q)
          = [data |-> d \o q, index |-> 12, message |-> Over(F, m, NoChunk), result |-> 0]
    BY <1>2, <1>5, <1>6, ReadBack DEF d
  <2>2. Over(F, m, NoChunk)
          = [x \in {"sec", "usec", "size", "payload"} |->
               IF x \in {"sec", "usec", "size"} THEN m[x] ELSE NoChunk[x]]
    <3>1. DOMAIN NoChunk = {"sec", "usec", "size", "payload"}
      BY DEF NoChunk
    <3>2. \A x \in DOMAIN NoChunk :
            (\E i \in 1..Len(F) : x = F[i].name) <=> x \in {"sec", "usec", "size"}
      BY <1>1, <1>2
    <3> HIDE DEF m
    <3> QED BY <3>1, <3>2 DEF Over
  <2>3. Over(F, m, NoChunk) = [sec |-> c.sec, usec |-> c.usec, size |-> l, payload |-> <<>>]
    BY <2>2 DEF NoChunk
  <2> QED BY <2>1, <2>3
<1>10. ASSUME NEW p, NEW x, Cuts(ChunkBody(c), p, x)
       PROVE  LET read == deserializeChunk(NoChunk, p)
              IN  IF x = <<>>
                    THEN /\ read.result = 0
                         /\ c = [sec |-> read.message.sec, usec |-> read.message.usec,
                                 payload |-> read.message.payload]
                    ELSE read.result # 0
  <2>0. p \in Seq(Byte) /\ x \in Seq(Byte) /\ ChunkBody(c) = p \o x
    BY <1>10 DEF Cuts
  <2>1. Len(p) + Len(x) = 12 + l /\ Len(p) \in Nat /\ Len(x) \in Nat
    <3>1. Len(p \o x) = Len(p) + Len(x) /\ Len(p) \in Nat /\ Len(x) \in Nat
      BY <2>0, Concat
    <3> QED BY <1>8, <2>0, <3>1
  <2>2. x = <<>> <=> Len(x) = 0
    BY <2>0, EmptySeq
  <2>3. CASE Len(p) < 12
    <3>1. ReadOf(F, ChunkEnds, NoChunk, p, deserialize(F, NoChunk, p))
      BY <1>2, <1>6, <2>0, Deserialized
    <3>2. deserialize(F, NoChunk, p).result # 0
      BY <1>2, <2>1, <2>3, <3>1 DEF ReadOf
    <3>3. deserializeChunk(NoChunk, p) = deserialize(F, NoChunk, p)
      BY <3>2 DEF deserializeChunk, F
    <3> QED BY <1>3, <2>1, <2>2, <2>3, <3>2, <3>3
  <2>4. CASE Len(p) >= 12
    <3>1. PICK q \in Seq(Byte) : p = d \o q /\ c.payload = q \o x
      <4>1. Cuts(ChunkBody(c), d, c.payload) /\ Len(d) <= Len(p)
        BY <1>3, <1>7, <1>11, <2>4 DEF Cuts
      <4>2. \E q : Cuts(p, d, q) /\ Cuts(c.payload, q, x)
        BY <1>10, <4>1, Cut
      <4> QED BY <4>2, Zenon DEF Cuts
    <3>2. /\ Len(p) = 12 + Len(q) /\ Len(q) \in Nat /\ l = Len(q) + Len(x)
          /\ p \in Seq(Byte)
      <4>1. Len(d \o q) = Len(d) + Len(q) /\ Len(q \o x) = Len(q) + Len(x)
            /\ Len(q) \in Nat
        BY <1>7, <2>0, Concat
      <4>2. Len(p) = Len(d) + Len(q)
        BY <3>1, <4>1
      <4>3. l = Len(q) + Len(x)
        BY <3>1, <4>1 DEF l
      <4> QED BY <1>7, <2>0, <4>1, <4>2, <4>3
    <3> DEFINE message == [sec |-> c.sec, usec |-> c.usec, size |-> l, payload |-> <<>>]
               head == [data |-> p, index |-> 12, message |-> message, result |-> 0]
    <3>3. deserialize(F, NoChunk, p) = head
      BY <1>9, <3>1
    <3>4. deserializeChunk(NoChunk, p) = readBytes(head, "payload", l)
      BY <3>3 DEF deserializeChunk, F
    <3>5. Room(head) = Len(q)
      BY <3>2 DEF Room
    <3>6. CASE x = <<>>
      <4>1. q = c.payload
        BY <3>1, <3>6, Concat
      <4>2. ~(Room(head) < l)
        BY <2>2, <3>2, <3>5, <3>6
      <4>3. Bytes(p, 12, l) = c.payload
        <5>1. Bytes(d \o q, Len(d), Len(q)) = q
          BY <1>7, Concat
        <5>2. Len(q) = l
          BY <4>1 DEF l
        <5> QED BY <1>7, <3>1, <4>1, <5>1, <5>2
      <4>4. deserializeChunk(NoChunk, p)
              = [data |-> p, index |-> 12 + l, result |-> 0,
                 message |-> [sec |-> c.sec, usec |-> c.usec, size |-> l,
                              payload |-> c.payload]]
        BY <3>4, <4>2, <4>3 DEF readBytes
      <4> QED BY <1>3, <3>6, <4>4
    <3>7. CASE x # <<>>
      <4>1. Room(head) < l
        BY <2>1, <2>2, <3>2, <3>5, <3>7
      <4>2. deserializeChunk(NoChunk, p).result = 1
        BY <3>4, <4>1 DEF readBytes
      <4> QED BY <3>7, <4>2
    <3> QED BY <3>6, <3>7
  <2> QED BY <2>1, <2>3, <2>4
<1> QED BY <1>8, <1>10 DEF l

Buffer(data, index, m, result) ==
  [data |-> data, index |-> index, message |-> m, result |-> result]

Put(m, name, v) == [m EXCEPT ![name] = v]

(* Reading a size, and reading as many bytes.                              *)
Holds(data, index, s) ==
  /\ data \in Seq(Byte) /\ s \in Seq(Byte) /\ index \in Nat
  /\ index + Len(s) <= Len(data) /\ Bytes(data, index, Len(s)) = s

LEMMA CutHolds ==
  ASSUME NEW data, NEW a, NEW b, Cuts(data, a, b)
  PROVE  /\ data \in Seq(Byte) /\ Holds(data, 0, a) /\ Len(data) = Len(a) + Len(b)
         /\ Len(a) \in Nat /\ Len(b) \in Nat
         /\ \A c, d : Cuts(b, c, d) => Cuts(data, a \o c, d) /\ Holds(data, Len(a), c)
<1>1. a \in Seq(Byte) /\ b \in Seq(Byte) /\ data = a \o b
  BY DEF Cuts
<1>2. /\ data \in Seq(Byte) /\ Len(data) = Len(a) + Len(b)
      /\ Len(a) \in Nat /\ Len(b) \in Nat /\ Bytes(data, 0, Len(a)) = a
  BY <1>1, Concat
<1>3. Holds(data, 0, a)
  <2>1. 0 + Len(a) <= Len(data) /\ 0 \in Nat
    BY <1>2
  <2> QED BY <1>1, <1>2, <2>1 DEF Holds
<1>4. ASSUME NEW c, NEW d, Cuts(b, c, d)
      PROVE  Cuts(data, a \o c, d) /\ Holds(data, Len(a), c)
  <2>1. c \in Seq(Byte) /\ d \in Seq(Byte) /\ b = c \o d
    BY <1>4 DEF Cuts
  <2>2. /\ a \o c \in Seq(Byte) /\ (a \o c) \o d = a \o (c \o d)
        /\ Len(b) = Len(c) + Len(d) /\ Len(c) \in Nat /\ Len(d) \in Nat
        /\ Bytes(b, 0, Len(c)) = c
    BY <1>1, <2>1, Concat
  <2>3. Cuts(data, a \o c, d)
    BY <1>1, <2>1, <2>2 DEF Cuts
  <2> DEFINE k == Len(a)
             n == Len(c)
  <2>4. k \in Nat /\ n \in Nat /\ 0 \in Nat /\ k + 0 = k /\ 0 + n <= Len(b)
        /\ k + n <= Len(data)
    BY <1>2, <2>2
  <2>5. \A index, j \in Nat : index + j <= Len(b) =>
          Bytes(data, k + index, j) = Bytes(b, index, j)
    BY <1>1, BytesOfConcat
  <2>6. Bytes(b, 0, n) = c
    BY <2>2
  <2> HIDE DEF k, n
  <2>7. Bytes(data, k + 0, n) = Bytes(b, 0, n)
    BY <2>4, <2>5
  <2>8. Bytes(data, k, n) = c
    BY <2>4, <2>6, <2>7
  <2>9. Holds(data, k, c)
    BY <1>2, <2>1, <2>4, <2>8 DEF Holds, n
  <2> QED BY <2>3, <2>9 DEF k
<1> QED BY <1>2, <1>3, <1>4

LEMMA SizeIsRead ==
  ASSUME NEW data, NEW index, NEW n \in uint32, Holds(data, index, write_uint32(n)),
         NEW name, NEW m, NEW result
  PROVE  readField(Buffer(data, index, m, result), Field(name, "uint32"))
           = Buffer(data, index + 4, Put(m, name, n), result)
<1> DEFINE w == write_uint32(n)
           f == Field(name, "uint32")
<1>1. /\ w \in Seq(Byte) /\ Len(w) = 4 /\ Decoded("uint32", w) = n
      /\ f.kind = "uint32" /\ f.name = name /\ Width("uint32") = 4
  <2>1. "uint32" \in Kinds /\ n \in Values("uint32") /\ n \in Int
    BY Ranges DEF Kinds, Values
  <2>2. Encoded("uint32", n) = w /\ Width("uint32") = 4
    BY DEF Encoded, Width
  <2> HIDE DEF w
  <2> QED BY <2>1, <2>2, EncodedType, DecodeEncoded DEF Field
<1> HIDE DEF w, f
<1>2. index \in Nat /\ Len(data) \in Nat /\ Bytes(data, index, 4) = w
      /\ index + 4 <= Len(data)
  BY <1>1 DEF Holds, w
<1>3. ~(Len(data) - index < 4)
  BY <1>2
<1>4. readField(Buffer(data, index, m, result), f)
        = Buffer(data, index + 4, Put(m, name, n), result)
  BY <1>1, <1>2, <1>3 DEF readField, Room, Buffer, Put
<1> QED BY <1>4 DEF f

LEMMA PayloadIsRead ==
  ASSUME NEW data, NEW index, NEW s, Holds(data, index, s), NEW name, NEW m, NEW result
  PROVE  readBytes(Buffer(data, index, m, result), name, Len(s))
           = Buffer(data, index + Len(s), Put(m, name, s), result)
<1> DEFINE l == Len(s)
<1>1. index \in Nat /\ Len(data) \in Nat /\ Bytes(data, index, l) = s /\ l \in Nat
      /\ index + l <= Len(data)
  BY DEF Holds
<1> HIDE DEF l
<1>2. ~(Len(data) - index < l)
  BY <1>1
<1>3. readBytes(Buffer(data, index, m, result), name, l)
        = Buffer(data, index + l, Put(m, name, s), result)
  BY <1>1, <1>2 DEF readBytes, Room, Buffer, Put
<1> QED BY <1>3 DEF l

(* A codec header is read as it was sent, and not at all when its end is   *)
(* missing.                                                                *)
LEMMA CodecIsRead ==
  ASSUME NEW c, CodecFits(c)
  PROVE  /\ CodecBody(c) \in Seq(Byte)
         /\ Len(CodecBody(c)) = Len(c.codec) + Len(c.payload) + 8
         /\ \A p, x : Cuts(CodecBody(c), p, x) =>
              LET read == deserializeCodec(NoCodec, p)
              IN  IF x = <<>>
                    THEN /\ read.result = 0
                         /\ c = [codec   |-> read.message.codec,
                                 payload |-> read.message.payload]
                    ELSE read.result # 0
<1> DEFINE name == c.codec
           load == c.payload
           n == Len(name)
           l == Len(load)
           a == write_uint32(n)
           b == write_uint32(l)
<1>1. /\ name \in Seq(Byte) /\ load \in Seq(Byte) /\ n \in Nat /\ l \in Nat
      /\ c = [codec |-> name, payload |-> load] /\ n + l + 8 \in uint32
  BY DEF CodecFits
<1> HIDE DEF name, load
<1>2. n \in uint32 /\ l \in uint32
  <2> HIDE DEF n, l
  <2> QED BY <1>1, Ranges DEF uint32
<1>3. a \in Seq(Byte) /\ Len(a) = 4 /\ b \in Seq(Byte) /\ Len(b) = 4
  <2>1. ASSUME NEW k \in uint32
        PROVE  write_uint32(k) \in Seq(Byte) /\ Len(write_uint32(k)) = 4
    <3>1. "uint32" \in Kinds /\ k \in Int
      BY Ranges DEF Kinds
    <3>2. Encoded("uint32", k) = write_uint32(k) /\ Width("uint32") = 4
      BY DEF Encoded, Width
    <3> QED BY <3>1, <3>2, EncodedType
  <2> HIDE DEF n, l
  <2> QED BY <1>2, <2>1
<1> HIDE DEF a, b
<1>10. /\ a \in Seq(Byte) /\ b \in Seq(Byte) /\ name \in Seq(Byte) /\ load \in Seq(Byte)
       /\ Len(name) = n /\ Len(load) = l /\ n \in Nat /\ l \in Nat
  BY <1>1, <1>3
<1> HIDE DEF n, l
<1>11. a \in Seq(Byte) /\ b \in Seq(Byte) /\ name \in Seq(Byte) /\ load \in Seq(Byte)
  BY <1>1, <1>3
<1> DEFINE tail == b \o load
           rest == name \o tail
<1>4. tail \in Seq(Byte) /\ Len(tail) = 4 + l
  <2>1. b \o load \in Seq(Byte) /\ Len(b \o load) = Len(b) + Len(load)
    BY <1>10, Concat
  <2> QED BY <1>3, <1>10, <2>1
<1> HIDE DEF tail
<1>5. rest \in Seq(Byte) /\ Len(rest) = n + (4 + l)
  <2>1. name \o tail \in Seq(Byte) /\ Len(name \o tail) = Len(name) + Len(tail)
    BY <1>10, <1>4, Concat
  <2> QED BY <1>4, <1>10, <2>1
<1> HIDE DEF rest
<1>6. CodecBody(c) = a \o rest
  <2>1. CodecBody(c) = ((a \o name) \o b) \o load
    BY DEF CodecBody, a, b, n, l, name, load
  <2>2. a \o name \in Seq(Byte) /\ (a \o name) \o tail = a \o (name \o tail)
    BY <1>10, <1>4, ConcatProperties, ConcatAssociative
  <2>3. ((a \o name) \o b) \o load = (a \o name) \o (b \o load)
    BY <1>10, <2>2, ConcatAssociative
  <2> QED BY <2>1, <2>2, <2>3 DEF rest, tail
<1>7. CodecBody(c) \in Seq(Byte) /\ Len(CodecBody(c)) = n + l + 8
  <2>1. a \o rest \in Seq(Byte) /\ Len(a \o rest) = Len(a) + Len(rest)
    BY <1>3, <1>5, Concat
  <2> QED BY <1>3, <1>5, <1>6, <1>10, <2>1
<1>8. /\ Cuts(CodecBody(c), a, rest) /\ Cuts(rest, name, tail) /\ Cuts(tail, b, load)
  BY <1>1, <1>3, <1>4, <1>5, <1>6 DEF Cuts, rest, tail
<1>9. ASSUME NEW p, NEW x, Cuts(CodecBody(c), p, x)
      PROVE  LET read == deserializeCodec(NoCodec, p)
             IN  IF x = <<>>
                   THEN /\ read.result = 0
                        /\ c = [codec   |-> read.message.codec,
                                payload |-> read.message.payload]
                   ELSE read.result # 0
  <2> DEFINE M0 == NoCodec
             M1 == Put(M0, "string_size", n)
             M2 == Put(M1, "codec", name)
             M3 == Put(M2, "size", l)
             M4 == Put(M3, "payload", load)
             buffer(index, m, result) == Buffer(p, index, m, result)
             first == readField(begin(p, NoCodec), Field("string_size", "uint32"))
             codec == readBytes(first, "codec", first.message.string_size)
             second == readField(codec, Field("size", "uint32"))
             payload == readBytes(second, "payload", second.message.size)
             read == deserializeCodec(NoCodec, p)
             Missing == x # <<>> /\ read.result # 0
             Complete == /\ x = <<>> /\ read.result = 0
                         /\ c = [codec   |-> read.message.codec,
                                 payload |-> read.message.payload]
  <2> SUFFICES Missing \/ Complete
    BY Zenon
  <2>1. p \in Seq(Byte) /\ x \in Seq(Byte) /\ Len(p) \in Nat /\ Len(x) \in Nat
        /\ (x = <<>> <=> Len(x) = 0)
    <3>1. p \in Seq(Byte) /\ x \in Seq(Byte)
      BY <1>9 DEF Cuts
    <3> QED BY <3>1, EmptySeq
  <2>2. Len(p) + Len(x) = n + l + 8
    <3>1. Len(p \o x) = Len(p) + Len(x) /\ CodecBody(c) = p \o x
      BY <1>9, <2>1, Concat DEF Cuts
    <3> QED BY <1>7, <3>1
  <2>3. read = IF first.result # 0 THEN first
                 ELSE IF second.result # 0 THEN second ELSE payload
    BY DEF deserializeCodec
  <2>4. begin(p, NoCodec) = buffer(0, M0, 0) /\ Width("uint32") = 4
    BY DEF begin, Width, Buffer
  <2> HIDE DEF read
  <2>5. CASE Len(p) < 4
    <3>1. Room(buffer(0, M0, 0)) < 4
      BY <2>1, <2>5 DEF Room, Buffer
    <3>2. first.result = 1
      BY <2>4, <3>1 DEF readField, Field, Buffer
    <3> HIDE DEF first, second, payload
    <3>3. Len(x) # 0
      BY <1>10, <2>1, <2>2, <2>5
    <3>4. read = first
      BY <2>3, <3>2
    <3> QED BY <2>1, <3>2, <3>3, <3>4
  <2>6. CASE Len(p) >= 4
    <3>1. PICK p1 : Cuts(p, a, p1) /\ Cuts(rest, p1, x)
      BY <1>3, <1>8, <1>9, <2>6, Cut
    <3>2. p1 \in Seq(Byte) /\ p = a \o p1 /\ Len(p) = 4 + Len(p1) /\ Len(p1) \in Nat
      <4>1. p1 \in Seq(Byte) /\ p = a \o p1
        BY <3>1 DEF Cuts
      <4>2. Len(a \o p1) = Len(a) + Len(p1) /\ Len(p1) \in Nat
        BY <1>3, <4>1, Concat
      <4> QED BY <1>3, <4>1, <4>2
    <3>3. first = buffer(4, M1, 0)
      <4>1. Holds(p, 0, write_uint32(n))
        BY <3>1, CutHolds DEF a
      <4> HIDE DEF M0
      <4>2. readField(Buffer(p, 0, M0, 0), Field("string_size", "uint32"))
              = Buffer(p, 0 + 4, M1, 0)
        BY <1>2, <4>1, SizeIsRead
      <4> QED BY <2>4, <4>2
    <3>4. M1.string_size = n
      BY DEF NoCodec, Put
    <3> HIDE DEF first, M1
    <3>8. first.message = M1 /\ first.result = 0
      BY <3>3 DEF Buffer
    <3>5. codec = readBytes(buffer(4, M1, 0), "codec", n)
      BY <3>3, <3>4, <3>8
    <3> HIDE DEF codec
    <3>6. CASE Len(p1) < n
      <4>1. Room(buffer(4, M1, 0)) < n
        BY <3>2, <3>6 DEF Room, Buffer
      <4>2. codec = buffer(4, M1, 1)
        BY <3>5, <4>1 DEF readBytes, Buffer
      <4>3. second.result = 1
        BY <4>2 DEF readField, Buffer
      <4> HIDE DEF second, payload
      <4>4. Len(x) # 0
        BY <1>10, <2>1, <2>2, <3>2, <3>6
      <4>5. read = second
        BY <2>3, <3>8, <4>3
      <4> QED BY <2>1, <4>3, <4>4, <4>5
    <3>7. CASE Len(p1) >= n
      <4>1. PICK p2 : Cuts(p1, name, p2) /\ Cuts(tail, p2, x)
        <5>1. Len(name) <= Len(p1)
          BY <1>10, <3>7
        <5> QED BY <1>8, <3>1, <5>1, Cut
      <4>2. p2 \in Seq(Byte) /\ p1 = name \o p2 /\ Len(p1) = n + Len(p2)
            /\ Len(p2) \in Nat
        <5>1. p2 \in Seq(Byte) /\ p1 = name \o p2
          BY <4>1 DEF Cuts
        <5>2. Len(name \o p2) = Len(name) + Len(p2) /\ Len(p2) \in Nat
          BY <1>10, <5>1, Concat
        <5> QED BY <1>10, <5>1, <5>2
      <4>3. codec = buffer(4 + n, M2, 0)
        <5>1. Holds(p, 4, name)
          <6>1. Holds(p, Len(a), name)
            BY <3>1, <4>1, CutHolds
          <6> QED BY <1>3, <6>1
        <5>2. readBytes(Buffer(p, 4, M1, 0), "codec", Len(name))
                = Buffer(p, 4 + Len(name), M2, 0)
          BY <5>1, PayloadIsRead
        <5> QED BY <1>10, <3>5, <5>2
      <4> HIDE DEF M2
      <4>4. CASE Len(p2) < 4
        <5>1. Room(buffer(4 + n, M2, 0)) < 4
          BY <1>10, <3>2, <4>2, <4>4 DEF Room, Buffer
        <5>2. second.result = 1
          BY <2>4, <4>3, <5>1 DEF readField, Field, Buffer
        <5> HIDE DEF second, payload
        <5>3. Len(x) # 0
          BY <1>10, <2>1, <2>2, <3>2, <4>2, <4>4
        <5>4. read = second
          BY <2>3, <3>8, <5>2
        <5> QED BY <2>1, <5>2, <5>3, <5>4
      <4>5. CASE Len(p2) >= 4
        <5>1. PICK p3 : Cuts(p2, b, p3) /\ Cuts(load, p3, x)
          BY <1>3, <1>8, <4>1, <4>5, Cut
        <5>2. p3 \in Seq(Byte) /\ p2 = b \o p3 /\ Len(p2) = 4 + Len(p3)
              /\ Len(p3) \in Nat /\ load = p3 \o x
          <6>1. p3 \in Seq(Byte) /\ p2 = b \o p3 /\ load = p3 \o x
            BY <5>1 DEF Cuts
          <6>2. Len(b \o p3) = Len(b) + Len(p3) /\ Len(p3) \in Nat
            BY <1>3, <6>1, Concat
          <6> QED BY <1>3, <6>1, <6>2
        <5> DEFINE pre == a \o name
        <5>3. pre \in Seq(Byte) /\ Len(pre) = 4 + n
          <6>1. a \o name \in Seq(Byte) /\ Len(a \o name) = Len(a) + Len(name)
            BY <1>10, Concat
          <6> QED BY <1>3, <1>10, <6>1
        <5>4. Cuts(p, pre, p2)
          BY <3>1, <4>1, CutHolds
        <5> HIDE DEF pre
        <5>5. second = buffer((4 + n) + 4, M3, 0)
          <6>1. Holds(p, 4 + n, write_uint32(l))
            BY <5>1, <5>3, <5>4, CutHolds DEF b
          <6>2. readField(Buffer(p, 4 + n, M2, 0), Field("size", "uint32"))
                  = Buffer(p, (4 + n) + 4, M3, 0)
            BY <1>2, <6>1, SizeIsRead
          <6> QED BY <4>3, <6>2
        <5>6. M3.size = l
          BY DEF M2, M1, NoCodec, Put
        <5> HIDE DEF second, M3
        <5>10. second.message = M3 /\ second.result = 0
          BY <5>5 DEF Buffer
        <5>7. payload = readBytes(buffer((4 + n) + 4, M3, 0), "payload", l)
          BY <5>5, <5>6, <5>10
        <5> HIDE DEF payload
        <5>11. read = payload
          BY <2>3, <3>8, <5>10
        <5>8. CASE x = <<>>
          <6>1. Cuts(p3, load, <<>>)
            BY <1>11, <5>1, <5>2, <5>8, ConcatEmptySeq DEF Cuts
          <6>2. Cuts(p, pre \o b, p3)
            BY <5>1, <5>4, CutHolds
          <6>3. Len(pre \o b) = (4 + n) + 4
            <7>1. Len(pre \o b) = Len(pre) + Len(b)
              BY <1>11, <5>3, Concat
            <7> QED BY <1>3, <5>3, <7>1
          <6>4. Holds(p, (4 + n) + 4, load)
            <7>1. Holds(p, Len(pre \o b), load)
              BY <6>1, <6>2, CutHolds
            <7> QED BY <6>3, <7>1
          <6>5. readBytes(Buffer(p, (4 + n) + 4, M3, 0), "payload", Len(load))
                  = Buffer(p, ((4 + n) + 4) + Len(load), M4, 0)
            BY <6>4, PayloadIsRead
          <6>6. payload = buffer(((4 + n) + 4) + l, M4, 0)
            BY <1>10, <5>7, <6>5
          <6>7. M4.codec = name /\ M4.payload = load
            BY DEF M3, M2, M1, NoCodec, Put
          <6> HIDE DEF M4
          <6>8. read.message = M4 /\ read.result = 0
            BY <5>11, <6>6 DEF Buffer
          <6> QED BY <1>1, <5>8, <6>7, <6>8
        <5>9. CASE x # <<>>
          <6>1. Len(p3) < l
            BY <1>10, <2>1, <2>2, <3>2, <4>2, <5>2, <5>9
          <6>2. Room(buffer((4 + n) + 4, M3, 0)) < l
            BY <1>10, <3>2, <4>2, <5>2, <6>1 DEF Room, Buffer
          <6>3. payload.result = 1
            BY <5>7, <6>2 DEF readBytes, Buffer
          <6> QED BY <5>9, <5>11, <6>3
        <5> QED BY <5>8, <5>9
      <4> QED BY <4>2, <4>4, <4>5
    <3> QED BY <1>10, <3>2, <3>6, <3>7
  <2> QED BY <2>1, <2>5, <2>6
<1> QED BY <1>7, <1>9 DEF name, load, n, l

-----------------------------------------------------------------------------
(***************************************************************************)
(* Messages: records of a base part and a content, in both directions.     *)
(***************************************************************************)
TextFits(j) == j \in Seq(Byte) /\ j # <<>> /\ Len(j) + 4 \in uint32

TextBody(j) == write_uint32(Len(j)) \o j

TimeBody(t) == serialize(TimeFields, t, TIME_MESSAGE_SIZE).data

Messages == [base : BaseType, content : Chunks \cup CodecHeaders \cup TimeType \cup Seq(Byte)]

Body(e) ==
  CASE e.base.type = CODEC_HEADER              -> CodecBody(e.content)
    [] e.base.type = WIRE_CHUNK                -> ChunkBody(e.content)
    [] e.base.type \in {SERVER_SETTINGS, HELLO} -> TextBody(e.content)
    [] e.base.type = TIME                      -> TimeBody(e.content)
    [] e.base.type = STREAM_TAGS               -> <<>>

ContentFits(e) ==
  \/ e.base.type = CODEC_HEADER /\ CodecFits(e.content)
  \/ e.base.type = WIRE_CHUNK /\ ChunkFits(e.content)
  \/ e.base.type \in {SERVER_SETTINGS, HELLO} /\ TextFits(e.content)
  \/ e.base.type = TIME /\ e.content \in TimeType
  \/ e.base.type = STREAM_TAGS /\ e.content = <<>>

Message(e) == e \in Messages /\ ContentFits(e) /\ e.base.size = Len(Body(e))

BaseBytes(base) == serialize(BaseFields, base, BASE_MESSAGE_SIZE).data

Bytewise(e) == BaseBytes(e.base) \o Body(e)

Types == CODEC_HEADER = 1 /\ WIRE_CHUNK = 2 /\ SERVER_SETTINGS = 3 /\ TIME = 4 /\ HELLO = 5
         /\ STREAM_TAGS = 6

LEMMA TypesDiffer == Types
BY DEF Types, CODEC_HEADER, WIRE_CHUNK, SERVER_SETTINGS, TIME, HELLO, STREAM_TAGS

LEMMA TextLength ==
  ASSUME NEW j, TextFits(j)
  PROVE  /\ TextBody(j) \in Seq(Byte) /\ Len(TextBody(j)) = Len(j) + 4
         /\ Cuts(TextBody(j), write_uint32(Len(j)), j) /\ Len(write_uint32(Len(j))) = 4
         /\ Len(j) \in uint32 /\ Len(j) \in Nat /\ Len(j) > 0
         /\ read_uint32(write_uint32(Len(j))) = Len(j)
<1> DEFINE k == Len(j)
           w == write_uint32(k)
<1>1. j \in Seq(Byte) /\ k \in Nat /\ k + 4 \in uint32 /\ k > 0
  BY EmptySeq DEF TextFits
<1> HIDE DEF k
<1>2. k \in uint32 /\ k \in Int
  BY <1>1, Ranges DEF uint32
<1>3. w \in Seq(Byte) /\ Len(w) = 4
  <2>1. "uint32" \in Kinds
    BY DEF Kinds
  <2>2. Encoded("uint32", k) = w /\ Width("uint32") = 4
    BY DEF Encoded, Width
  <2> QED BY <1>2, <2>1, <2>2, EncodedType
<1>4. read_uint32(w) = k
  BY <1>2, RoundTripUint32
<1> HIDE DEF w
<1>5. w \o j \in Seq(Byte) /\ Len(w \o j) = Len(w) + Len(j)
  BY <1>1, <1>3, Concat
<1>6. Len(w \o j) = k + 4
  <2>1. Len(w \o j) = 4 + k
    BY <1>3, <1>5 DEF k
  <2> QED BY <1>1, <2>1
<1>7. Cuts(w \o j, w, j)
  BY <1>1, <1>3 DEF Cuts
<1> QED BY <1>1, <1>2, <1>3, <1>4, <1>5, <1>6, <1>7 DEF TextBody, w, k

(* The types of messages and the sizes that the model gives are numbers    *)
(* that fit.                                                               *)
LEMMA SmallNumbers ==
  /\ 0 \in uint16 /\ 0 \in uint32 /\ 0 \in int32
  /\ 1..6 \subseteq uint16
  /\ BASE_MESSAGE_SIZE \in Nat /\ TIME_MESSAGE_SIZE \in uint32
  /\ uint32 \subseteq Nat
  /\ \A n \in Nat : n % uint16Range \in uint16
<1>1. B \in Nat /\ B >= 4
  BY ProtocolAssumption, WireAssumption
<1>2. uint16Range \in Nat /\ uint16Range >= 16
  <2>1. B * B >= 4 * B
    BY <1>1
  <2> QED BY <1>1, <2>1 DEF uint16Range
<1>3. uint32Range \in Nat /\ uint32Range > 16
  <2> DEFINE p == B * B
             q == B * p
             r == B * q
  <2>1. p \in Nat /\ p >= 16
    BY <1>2 DEF uint16Range
  <2> HIDE DEF p
  <2>2. q \in Nat /\ q >= 4 * p
    BY <1>1, <2>1
  <2> HIDE DEF q
  <2>3. r \in Nat /\ r >= 4 * q
    BY <1>1, <2>1, <2>2
  <2>4. uint32Range = r
    BY DEF uint32Range, p, q
  <2> HIDE DEF r
  <2> QED BY <2>1, <2>2, <2>3, <2>4
<1>4. 0 \in uint16 /\ 0 \in uint32 /\ 1..6 \subseteq uint16
  BY <1>2, <1>3 DEF uint16, uint32
<1>5. 0 \in int32
  BY Ranges
<1>6. BASE_MESSAGE_SIZE \in Nat /\ TIME_MESSAGE_SIZE \in uint32
  BY <1>3 DEF BASE_MESSAGE_SIZE, TIME_MESSAGE_SIZE, uint32
<1>7. uint32 \subseteq Nat
  BY <1>3 DEF uint32
<1>8. ASSUME NEW n \in Nat PROVE n % uint16Range \in uint16
  BY <1>2 DEF uint16
<1> QED BY <1>4, <1>5, <1>6, <1>7, <1>8

LEMMA BodyType ==
  ASSUME NEW e, e \in Messages, ContentFits(e)
  PROVE  Body(e) \in Seq(Byte) /\ Len(Body(e)) \in uint32 /\ Len(Body(e)) \in Nat
<1>1. Types
  BY TypesDiffer
<1>2. CASE e.base.type = CODEC_HEADER
  <2>1. CodecFits(e.content) /\ Body(e) = CodecBody(e.content)
    BY <1>1, <1>2 DEF ContentFits, Body, Types
  <2>2. Body(e) \in Seq(Byte)
    BY <2>1, CodecIsRead
  <2>3. Len(Body(e)) \in uint32
    BY <2>1, CodecIsRead DEF CodecFits
  <2> QED BY <2>2, <2>3
<1>3. CASE e.base.type = WIRE_CHUNK
  <2>1. ChunkFits(e.content) /\ Body(e) = ChunkBody(e.content)
    BY <1>1, <1>3 DEF ContentFits, Body, Types
  <2> DEFINE l == Len(e.content.payload)
  <2>2. Body(e) \in Seq(Byte) /\ Len(Body(e)) = 12 + l
    BY <2>1, ChunkIsRead
  <2>3. l + 12 \in uint32 /\ l \in Nat
    BY <2>1 DEF ChunkFits
  <2> HIDE DEF l
  <2>4. 12 + l = l + 12
    BY <2>3
  <2> QED BY <2>2, <2>3, <2>4
<1>4. CASE e.base.type \in {SERVER_SETTINGS, HELLO}
  <2>1. TextFits(e.content) /\ Body(e) = TextBody(e.content)
    BY <1>1, <1>4 DEF ContentFits, Body, Types
  <2>2. Len(e.content) + 4 \in uint32
    BY <2>1 DEF TextFits
  <2> QED BY <2>1, <2>2, TextLength
<1>5. CASE e.base.type = TIME
  <2>1. e.content \in TimeType /\ Body(e) = TimeBody(e.content)
    BY <1>1, <1>5 DEF ContentFits, Body, Types
  <2>2. Body(e) \in Seq(Byte) /\ Len(Body(e)) = TIME_MESSAGE_SIZE
    BY <2>1, TimeIsRead DEF TimeBody
  <2>3. TIME_MESSAGE_SIZE \in uint32
    BY SmallNumbers
  <2> QED BY <2>2, <2>3
<1>6. CASE e.base.type = STREAM_TAGS
  <2>1. Body(e) = <<>>
    BY <1>1, <1>6 DEF Body, Types
  <2> QED BY <2>1, Ranges
<1> QED BY <1>2, <1>3, <1>4, <1>5, <1>6 DEF ContentFits

(* Every message has its base part before its body. *)
LEMMA BytewiseCut ==
  ASSUME NEW e, Message(e)
  PROVE  /\ Cuts(Bytewise(e), BaseBytes(e.base), Body(e))
         /\ Len(BaseBytes(e.base)) = BASE_MESSAGE_SIZE
         /\ Bytewise(e) \in Seq(Byte) /\ Len(Bytewise(e)) = BASE_MESSAGE_SIZE + Len(Body(e))
         /\ Len(Body(e)) \in Nat /\ e.base \in BaseType
<1>1. e.base \in BaseType
  BY DEF Message, Messages
<1>2. BaseBytes(e.base) \in Seq(Byte) /\ Len(BaseBytes(e.base)) = BASE_MESSAGE_SIZE
  BY <1>1, BaseIsRead DEF BaseBytes
<1>3. Body(e) \in Seq(Byte) /\ Len(Body(e)) \in Nat
  BY BodyType DEF Message
<1>4. /\ BaseBytes(e.base) \o Body(e) \in Seq(Byte)
      /\ Len(BaseBytes(e.base) \o Body(e)) = Len(BaseBytes(e.base)) + Len(Body(e))
  BY <1>2, <1>3, Concat
<1> QED BY <1>1, <1>2, <1>3, <1>4 DEF Bytewise, Cuts

-----------------------------------------------------------------------------
(***************************************************************************)
(* Streams: bytes are the messages ms but for the first n.                 *)
(***************************************************************************)
Talk(ms) == ms \in Seq(Messages) /\ \A i \in 1..Len(ms) : Message(ms[i])

Left(bytes, ms, n) ==
  \E r \in [n..Len(ms) -> Seq(Byte)] :
    /\ r[n] = bytes /\ r[Len(ms)] = <<>>
    /\ \A i \in (n + 1)..Len(ms) : r[i - 1] = Bytewise(ms[i]) \o r[i]

LEMMA LeftEnd ==
  ASSUME NEW ms, Talk(ms)
  PROVE  /\ Left(<<>>, ms, Len(ms))
         /\ \A bytes : Left(bytes, ms, Len(ms)) => bytes = <<>>
<1>1. Len(ms) \in Nat
  BY DEF Talk
<1> DEFINE k == Len(ms)
           r == [i \in k..k |-> <<>>]
<1> HIDE DEF k
<1>2. k \in Nat /\ <<>> \in Seq(Byte)
  BY <1>1, EmptySeq DEF k
<1>3. r \in [k..k -> Seq(Byte)] /\ r[k] = <<>> /\ (k + 1)..k = {}
  BY <1>2
<1>4. Left(<<>>, ms, k)
  BY <1>3 DEF Left, k
<1>5. \A bytes : Left(bytes, ms, k) => bytes = <<>>
  BY DEF Left, k
<1> QED BY <1>4, <1>5 DEF k

LEMMA LeftNext ==
  ASSUME NEW ms, Talk(ms), NEW n \in Nat, n < Len(ms), NEW bytes, Left(bytes, ms, n)
  PROVE  /\ Message(ms[n + 1])
         /\ \E rest, r :
              /\ Cuts(bytes, BaseBytes(ms[n + 1].base), rest)
              /\ Cuts(rest, Body(ms[n + 1]), r)
              /\ Left(r, ms, n + 1)
<1> DEFINE k == Len(ms)
           e == ms[n + 1]
<1>1. k \in Nat /\ n + 1 \in 1..k /\ n \in n..k /\ n + 1 \in n..k /\ n + 1 \in (n + 1)..k
  BY DEF Talk
<1>2. Message(e)
  BY <1>1 DEF Talk
<1>3. PICK f \in [n..k -> Seq(Byte)] :
        /\ f[n] = bytes /\ f[k] = <<>>
        /\ \A i \in (n + 1)..k : f[i - 1] = Bytewise(ms[i]) \o f[i]
  BY DEF Left
<1> DEFINE g == [i \in (n + 1)..k |-> f[i]]
           r == f[n + 1]
           rest == Body(e) \o r
<1>4. bytes = Bytewise(e) \o r /\ r \in Seq(Byte)
  <2>1. (n + 1) - 1 = n
    OBVIOUS
  <2> QED BY <1>1, <1>3, <2>1
<1>5. Left(r, ms, n + 1)
  <2>1. g \in [(n + 1)..k -> Seq(Byte)]
    <3>1. \A i \in (n + 1)..k : i \in n..k
      BY <1>1
    <3> QED BY <1>3, <3>1
  <2>2. g[n + 1] = r /\ g[k] = <<>>
    <3>1. k \in (n + 1)..k
      BY <1>1
    <3> QED BY <1>1, <1>3, <3>1
  <2>3. ASSUME NEW i \in ((n + 1) + 1)..k PROVE g[i - 1] = Bytewise(ms[i]) \o g[i]
    <3>1. i \in (n + 1)..k /\ i - 1 \in (n + 1)..k
      BY <1>1
    <3> QED BY <1>3, <3>1
  <2> HIDE DEF g, r
  <2> QED BY <2>1, <2>2, <2>3 DEF Left
<1>6. Body(e) \in Seq(Byte) /\ BaseBytes(e.base) \in Seq(Byte)
      /\ Bytewise(e) = BaseBytes(e.base) \o Body(e)
  BY <1>2, BytewiseCut DEF Cuts
<1> HIDE DEF r, e
<1>7. rest \in Seq(Byte) /\ (BaseBytes(e.base) \o Body(e)) \o r = BaseBytes(e.base) \o rest
  BY <1>4, <1>6, ConcatAssociative, ConcatProperties
<1>8. Cuts(bytes, BaseBytes(e.base), rest) /\ Cuts(rest, Body(e), r)
  BY <1>4, <1>6, <1>7 DEF Cuts
<1> QED BY <1>2, <1>5, <1>8 DEF e

LEMMA LeftMore ==
  ASSUME NEW ms, Talk(ms), NEW e, Message(e), NEW n \in Nat, n <= Len(ms),
         NEW bytes, Left(bytes, ms, n)
  PROVE  /\ Talk(Append(ms, e)) /\ Len(Append(ms, e)) = Len(ms) + 1
         /\ \A i \in 1..Len(ms) : Append(ms, e)[i] = ms[i]
         /\ Append(ms, e)[Len(ms) + 1] = e
         /\ Left(bytes \o Bytewise(e), Append(ms, e), n)
<1> DEFINE k == Len(ms)
           more == Append(ms, e)
           last == Bytewise(e)
<1>1. ms \in Seq(Messages) /\ e \in Messages /\ k \in Nat
  BY DEF Talk, Message
<1>2. /\ more \in Seq(Messages) /\ Len(more) = k + 1 /\ more[k + 1] = e
      /\ \A i \in 1..k : more[i] = ms[i]
  BY <1>1, AppendProperties
<1>3. last \in Seq(Byte) /\ \A i \in 1..k : Bytewise(ms[i]) \in Seq(Byte)
  BY BytewiseCut DEF Talk
<1> HIDE DEF more, last
<1>4. Talk(more)
  <2>1. ASSUME NEW i \in 1..(k + 1) PROVE Message(more[i])
    <3>1. CASE i = k + 1
      BY <1>2, <3>1
    <3>2. CASE i # k + 1
      <4>1. i \in 1..k
        BY <1>1, <3>2
      <4> QED BY <1>2, <4>1 DEF Talk
    <3> QED BY <3>1, <3>2
  <2> QED BY <1>2, <2>1 DEF Talk
<1>5. PICK f \in [n..k -> Seq(Byte)] :
        /\ f[n] = bytes /\ f[k] = <<>>
        /\ \A i \in (n + 1)..k : f[i - 1] = Bytewise(ms[i]) \o f[i]
  BY DEF Left
<1> HIDE DEF k
<1> DEFINE g == [i \in n..(k + 1) |-> IF i = k + 1 THEN <<>> ELSE f[i] \o last]
<1>10. n \in n..k /\ k \in n..k /\ n <= k /\ <<>> \in Seq(Byte)
  BY <1>1, EmptySeq DEF k
<1>6. g \in [n..(k + 1) -> Seq(Byte)]
  <2>1. ASSUME NEW i \in n..(k + 1)
        PROVE  (IF i = k + 1 THEN <<>> ELSE f[i] \o last) \in Seq(Byte)
    <3>1. CASE i = k + 1
      BY <1>10, <3>1
    <3>2. CASE i # k + 1
      <4>1. i \in n..k
        BY <1>1, <3>2
      <4>2. f[i] \in Seq(Byte)
        BY <1>5, <4>1
      <4>3. f[i] \o last \in Seq(Byte)
        BY <1>3, <4>2, ConcatProperties
      <4> QED BY <3>2, <4>3
    <3> QED BY <3>1, <3>2
  <2> QED BY <2>1
<1>7. g[n] = bytes \o last /\ g[k + 1] = <<>>
  <2>1. n \in n..(k + 1) /\ n # k + 1 /\ k + 1 \in n..(k + 1)
    BY <1>1, <1>10
  <2> QED BY <1>5, <2>1
<1>8. ASSUME NEW i \in (n + 1)..(k + 1) PROVE g[i - 1] = Bytewise(more[i]) \o g[i]
  <2>1. i \in n..(k + 1) /\ i - 1 \in n..(k + 1) /\ i - 1 # k + 1 /\ i - 1 \in n..k
    BY <1>1, <1>10
  <2>2. g[i - 1] = f[i - 1] \o last
    BY <2>1
  <2>3. CASE i = k + 1
    <3>1. i - 1 = k
      BY <1>1, <2>3
    <3>2. f[k] = <<>> /\ more[i] = e /\ g[i] = <<>>
      BY <1>2, <1>5, <2>1, <2>3
    <3>3. <<>> \o last = last /\ last \o <<>> = last
      BY <1>3, Concat
    <3> HIDE DEF g
    <3> QED BY <2>2, <3>1, <3>2, <3>3 DEF last
  <2>4. CASE i # k + 1
    <3>1. i \in (n + 1)..k /\ i \in n..k /\ i \in 1..k
      BY <1>1, <1>10, <2>4
    <3>2. f[i - 1] = Bytewise(ms[i]) \o f[i] /\ f[i] \in Seq(Byte) /\ more[i] = ms[i]
          /\ Bytewise(ms[i]) \in Seq(Byte)
      BY <1>2, <1>3, <1>5, <3>1 DEF k
    <3>3. g[i] = f[i] \o last
      BY <2>1, <2>4
    <3>4. (Bytewise(ms[i]) \o f[i]) \o last = Bytewise(ms[i]) \o (f[i] \o last)
      <4> DEFINE x == Bytewise(ms[i])
                 y == f[i]
      <4>1. x \in Seq(Byte) /\ y \in Seq(Byte)
        BY <3>2
      <4> HIDE DEF x, y
      <4>2. (x \o y) \o last = x \o (y \o last)
        BY ONLY <1>3, <4>1, ConcatAssociative
      <4> QED BY <4>2 DEF x, y
    <3> HIDE DEF g
    <3> QED BY <2>2, <3>2, <3>3, <3>4
  <2> QED BY <2>3, <2>4
<1> HIDE DEF g
<1>9. Left(bytes \o last, more, n)
  BY <1>2, <1>6, <1>7, <1>8 DEF Left
<1> QED BY <1>2, <1>4, <1>9 DEF more, last, k

-----------------------------------------------------------------------------
(***************************************************************************)
(* The types of SnapWire.                                                  *)
(***************************************************************************)
Phases == {"hello", "available", "readBaseMessage", "wait", "readData", "handle",
           "writeTimedMessage", "writeBody", "lost", "crashed"}

TypeInv ==
  /\ wire \in Seq(Byte) /\ late \in Seq(Byte) /\ toServer \in Seq(Byte) /\ body \in Seq(Byte)
  /\ up \in BOOLEAN
  /\ phase \in Phases
  /\ base_message \in BaseType
  /\ time_message \in TimeType
  /\ id_counter \in Nat
  /\ sent \in Seq(Messages)

(* The head of a sequence of bytes and what follows it. *)
LEMMA HeadAndRest ==
  ASSUME NEW s \in Seq(Byte), NEW n \in 0..Len(s)
  PROVE  Cuts(s, SubSeq(s, 1, n), SubSeq(s, n + 1, Len(s)))
<1> DEFINE k == Len(s)
<1>1. k \in Nat /\ s \in [1..k -> Byte]
  BY LenProperties
<1>2. 1 \in 1..(k + 1) /\ n \in (1 - 1)..k /\ k \in n..k
  BY <1>1
<1>3. SubSeq(s, 1, n) \o SubSeq(s, n + 1, k) = SubSeq(s, 1, k)
  BY <1>2, ConcatAdjacentSubSeq
<1>4. SubSeq(s, 1, k) = s
  BY SubSeqFull
<1> HIDE DEF k
<1>5. SubSeq(s, 1, n) \in Seq(Byte)
  <2>1. \A i \in 1..n : s[i] \in Byte
    BY <1>1 DEF k
  <2>2. 1 \in Int /\ n \in Int
    BY <1>1 DEF k
  <2> QED BY <2>1, <2>2, SubSeqProperties
<1>6. SubSeq(s, n + 1, k) \in Seq(Byte)
  <2>1. \A i \in (n + 1)..k : s[i] \in Byte
    BY <1>1 DEF k
  <2>2. n + 1 \in Int /\ k \in Int
    BY <1>1 DEF k
  <2> QED BY <2>1, <2>2, SubSeqProperties
<1> QED BY <1>3, <1>4, <1>5, <1>6 DEF Cuts, k

(* A read of n bytes: all of them, or those that there are.                *)
LEMMA ReadCuts ==
  ASSUME NEW s \in Seq(Byte), NEW n \in Nat
  PROVE  /\ Cuts(s, Bytes(s, 0, n), SubSeq(s, Len(Bytes(s, 0, n)) + 1, Len(s)))
         /\ Len(s) >= n => Len(Bytes(s, 0, n)) = n
         /\ Len(s) < n => /\ Bytes(s, 0, n) = s
                          /\ SubSeq(s, Len(Bytes(s, 0, n)) + 1, Len(s)) = <<>>
<1> DEFINE k == Len(s)
           d == Bytes(s, 0, n)
<1>1. k \in Nat
  BY LenProperties
<1>2. d = SubSeq(s, 1, IF n < k THEN n ELSE k)
  BY DEF Bytes
<1>3. CASE k >= n
  <2>1. n \in 0..k
    BY <1>1, <1>3
  <2>2. Len(d) = n
    <3>1. 0 \in Nat /\ 0 <= k /\ 0 + n <= k
      BY <1>1, <1>3
    <3> QED BY <3>1, BytesType
  <2>3. d = SubSeq(s, 1, n)
    BY <1>1, <1>2, <1>3
  <2>4. Cuts(s, d, SubSeq(s, Len(d) + 1, k))
    BY <2>1, <2>2, <2>3, HeadAndRest
  <2> HIDE DEF k, d
  <2>5. ~(k < n)
    BY <1>1, <1>3
  <2> QED BY <2>2, <2>4, <2>5 DEF k, d
<1>4. CASE k < n
  <2>1. d = s
    BY <1>4, BytesAll
  <2>2. k \in 0..k /\ k + 1 \in Int
    BY <1>1
  <2>3. Cuts(s, SubSeq(s, 1, k), SubSeq(s, k + 1, k)) /\ SubSeq(s, 1, k) = s
    BY <2>2, HeadAndRest, SubSeqFull
  <2>4. SubSeq(s, k + 1, k) = <<>>
    BY <1>1, SubSeqEmpty
  <2>5. Len(d) = k
    BY <2>1
  <2> HIDE DEF k, d
  <2>6. Cuts(s, d, SubSeq(s, Len(d) + 1, k)) /\ SubSeq(s, Len(d) + 1, k) = <<>>
    BY <2>1, <2>3, <2>4, <2>5
  <2>7. ~(k >= n)
    BY <1>1, <1>4
  <2> QED BY <1>4, <2>1, <2>6, <2>7 DEF k, d
<1> QED BY <1>1, <1>3, <1>4

ServerBase(i, type, size) == [Bases[i] EXCEPT !.type = type, !.size = size]

(* The base parts that the server sends, before it fills in type and size.  *)
BlankType == [type : {0}, id : uint16, refersTo : uint16, sentSec : int32, sentUsec : int32,
              receivedSec : int32, receivedUsec : int32, size : {0}]

LEMMA BasesBlank == \A i \in 1..Len(Bases) : Bases[i] \in BlankType
<1> DEFINE k == Len(Bases)
<1>1. Bases \in Seq(BlankType)
  BY WireAssumption DEF BlankType
<1> HIDE DEF k
<1>2. Bases \in [1..k -> BlankType]
  BY <1>1, LenProperties DEF k
<1>3. \A i \in 1..k : Bases[i] \in BlankType
  BY <1>2
<1> QED BY <1>3 DEF k

LEMMA BasesTyped ==
  /\ NoBase \in BaseType
  /\ \A type, id \in uint16, size \in uint32 : Stamped(type, id, size) \in BaseType
  /\ \A base \in BaseType : /\ Received(base) \in BaseType
                            /\ Received(base).type = base.type
                            /\ Received(base).size = base.size
  /\ \A i \in 1..Len(Bases), type \in uint16, size \in uint32 :
       /\ ServerBase(i, type, size) \in BaseType
       /\ ServerBase(i, type, size).type = type /\ ServerBase(i, type, size).size = size
<1>1. 0 \in uint16 /\ 0 \in uint32 /\ 0 \in int32
  BY SmallNumbers
<1>2. Now.sec \in int32 /\ Now.usec \in int32
  BY WireAssumption
<1>3. NoBase \in BaseType
  BY <1>1 DEF NoBase, BaseType
<1>4. \A type, id \in uint16, size \in uint32 : Stamped(type, id, size) \in BaseType
  BY <1>1, <1>2 DEF Stamped, NoBase, BaseType
<1>5. \A base \in BaseType : /\ Received(base) \in BaseType
                             /\ Received(base).type = base.type
                             /\ Received(base).size = base.size
  BY <1>2 DEF Received, BaseType
<1>6. ASSUME NEW i \in 1..Len(Bases), NEW type \in uint16, NEW size \in uint32
      PROVE  /\ ServerBase(i, type, size) \in BaseType
             /\ ServerBase(i, type, size).type = type /\ ServerBase(i, type, size).size = size
  <2>1. Bases[i] \in BlankType
    BY BasesBlank
  <2> QED BY <2>1 DEF ServerBase, BaseType, BlankType
<1> QED BY <1>3, <1>4, <1>5, <1>6

LEMMA TypeInit == Init => TypeInv
BY BasesTyped, EmptySeq, SmallNumbers DEF Init, TypeInv, Phases, TimeType

(* What every step of the server that sends a message does. *)
Msg(base, content) == [base |-> base, content |-> content]

Contents == Chunks \cup CodecHeaders \cup TimeType \cup Seq(Byte)

Sending(e) ==
  /\ Message(e) /\ e.base.type \in {CODEC_HEADER, WIRE_CHUNK, SERVER_SETTINGS, TIME, STREAM_TAGS}
  /\ up /\ late = <<>>
  /\ wire' \in Seq(Byte) /\ late' \in Seq(Byte) /\ wire' \o late' = wire \o Bytewise(e)
  /\ Len(wire') >= Len(wire)
  /\ sent' = Append(sent, e)
  /\ UNCHANGED <<up, client, toServer, id_counter, got, meant, heard>>

LEMMA ServerSends ==
  ASSUME TypeInv, NEW type, NEW bytes, NEW content, ServerSend(type, bytes, content),
         type \in {CODEC_HEADER, WIRE_CHUNK, SERVER_SETTINGS, TIME, STREAM_TAGS},
         content \in Contents,
         \A base : base.type = type => /\ ContentFits(Msg(base, content))
                                       /\ Body(Msg(base, content)) = bytes
  PROVE  \E e : Sending(e)
<1> DEFINE i == Len(sent) + 1
           base == ServerBase(i, type, Len(bytes))
           base0 == ServerBase(i, type, 0)
           e == Msg(base, content)
<1>1. i \in 1..Len(Bases) /\ type \in uint16 /\ 0 \in uint32
  <2>1. type \in 1..6
    BY TypesDiffer DEF Types
  <2>2. Len(Bases) \in Nat /\ Len(sent) \in Nat
    BY WireAssumption DEF TypeInv
  <2>3. Len(sent) < Len(Bases)
    BY DEF ServerSend
  <2> QED BY <2>1, <2>2, <2>3, SmallNumbers
<1> HIDE DEF i
<1>2. bytes \in Seq(Byte) /\ Len(bytes) \in uint32
  <2>1. base0 \in BaseType /\ base0.type = type
    BY <1>1, BasesTyped
  <2> HIDE DEF base0
  <2>2. Msg(base0, content) \in Messages
    BY <2>1 DEF Msg, Messages, Contents
  <2>3. ContentFits(Msg(base0, content)) /\ Body(Msg(base0, content)) = bytes
    BY <2>1
  <2> QED BY <2>2, <2>3, BodyType
<1>3. base \in BaseType /\ base.type = type /\ base.size = Len(bytes)
  BY <1>1, <1>2, BasesTyped
<1>10. base = [Bases[i] EXCEPT !.type = type, !.size = Len(bytes)]
  BY DEF ServerBase
<1> HIDE DEF base
<1>4. /\ e \in Messages /\ ContentFits(e) /\ Body(e) = bytes
      /\ e.base = base /\ e = [base |-> base, content |-> content]
  BY <1>3 DEF Msg, Messages, Contents
<1> HIDE DEF e
<1>5. Message(e)
  BY <1>3, <1>4 DEF Message
<1> DEFINE all == Bytewise(e)
<1>6. all \in Seq(Byte) /\ Len(all) \in Nat /\ Len(all) >= BASE_MESSAGE_SIZE
      /\ all = serialize(BaseFields, base, BASE_MESSAGE_SIZE).data \o bytes
  <2>1. Len(all) = BASE_MESSAGE_SIZE + Len(Body(e)) /\ Len(Body(e)) \in Nat /\ all \in Seq(Byte)
    BY <1>5, BytewiseCut
  <2> DEFINE k == Len(all)
             l == Len(Body(e))
  <2> HIDE DEF k, l
  <2>2. k = BASE_MESSAGE_SIZE + l /\ l \in Nat /\ BASE_MESSAGE_SIZE \in Nat
    BY <2>1, SmallNumbers DEF k, l
  <2>3. k \in Nat /\ k >= BASE_MESSAGE_SIZE
    BY <2>2
  <2> QED BY <1>4, <2>1, <2>3 DEF Bytewise, BaseBytes, k
<1> HIDE DEF all
<1>7. PICK n \in {BASE_MESSAGE_SIZE, Len(all) - 1, Len(all)} :
        wire' = wire \o SubSeq(all, 1, n) /\ late' = SubSeq(all, n + 1, Len(all))
  BY <1>6, <1>10 DEF ServerSend, i
<1>8. /\ wire' \in Seq(Byte) /\ late' \in Seq(Byte)
      /\ wire' \o late' = wire \o all /\ Len(wire') >= Len(wire)
  <2> DEFINE k == Len(all)
             a == SubSeq(all, 1, n)
             b == SubSeq(all, n + 1, k)
  <2>1. n \in 0..k
    BY <1>6 DEF BASE_MESSAGE_SIZE
  <2>2. Cuts(all, a, b)
    BY <1>6, <2>1, HeadAndRest
  <2> HIDE DEF a, b
  <2>3. wire' = wire \o a /\ late' = b
    BY <1>7 DEF a, b
  <2>4. a \in Seq(Byte) /\ b \in Seq(Byte) /\ all = a \o b /\ wire \in Seq(Byte)
    BY <2>2 DEF Cuts, TypeInv
  <2>5. wire \o a \in Seq(Byte) /\ (wire \o a) \o b = wire \o (a \o b)
    BY <2>4, Concat
  <2>6. Len(wire \o a) >= Len(wire)
    <3>1. Len(wire \o a) = Len(wire) + Len(a) /\ Len(wire) \in Nat /\ Len(a) \in Nat
      BY <2>4, Concat
    <3> QED BY <3>1
  <2> QED BY <2>3, <2>4, <2>5, <2>6
<1>9. /\ up /\ late = <<>> /\ sent' = Append(sent, e)
      /\ UNCHANGED <<up, client, toServer, id_counter, got, meant, heard>>
  BY <1>4, <1>10 DEF ServerSend, i
<1> QED BY <1>3, <1>4, <1>5, <1>8, <1>9 DEF Sending, all

LEMMA SendsAre ==
  ASSUME TypeInv, SendChunk \/ SendCodecHeader \/ SendSettings \/ SendTime \/ SendTags
  PROVE  \E e : Sending(e)
<1>1. Types
  BY TypesDiffer
<1>2. CASE SendChunk
  <2>1. PICK c \in Chunks :
          ServerSend(WIRE_CHUNK, serialize(ChunkFields,
            [sec |-> c.sec, usec |-> c.usec, size |-> Len(c.payload)], 12).data \o c.payload, c)
    BY <1>2 DEF SendChunk
  <2>2. ServerSend(WIRE_CHUNK, ChunkBody(c), c)
    BY <2>1 DEF ChunkBody
  <2>3. ChunkFits(c) /\ c \in Contents
    BY WireAssumption DEF ChunkFits, Contents
  <2>4. ASSUME NEW base, base.type = WIRE_CHUNK
        PROVE  ContentFits(Msg(base, c)) /\ Body(Msg(base, c)) = ChunkBody(c)
    BY <1>1, <2>3, <2>4 DEF ContentFits, Body, Msg, Types
  <2> QED BY <2>2, <2>3, <2>4, ServerSends
<1>3. CASE SendCodecHeader
  <2>1. PICK c \in CodecHeaders :
          ServerSend(CODEC_HEADER, write_uint32(Len(c.codec)) \o c.codec
                                     \o write_uint32(Len(c.payload)) \o c.payload, c)
    BY <1>3 DEF SendCodecHeader
  <2>2. ServerSend(CODEC_HEADER, CodecBody(c), c)
    BY <2>1 DEF CodecBody
  <2>3. CodecFits(c) /\ c \in Contents
    BY WireAssumption DEF CodecFits, Contents
  <2>4. ASSUME NEW base, base.type = CODEC_HEADER
        PROVE  ContentFits(Msg(base, c)) /\ Body(Msg(base, c)) = CodecBody(c)
    BY <1>1, <2>3, <2>4 DEF ContentFits, Body, Msg, Types
  <2> QED BY <2>2, <2>3, <2>4, ServerSends
<1>4. CASE SendSettings
  <2>1. PICK j \in Jsons : ServerSend(SERVER_SETTINGS, TextBody(j), j)
    BY <1>4 DEF SendSettings, TextBody
  <2>2. TextFits(j) /\ j \in Contents
    BY WireAssumption DEF TextFits, Contents
  <2>3. ASSUME NEW base, base.type = SERVER_SETTINGS
        PROVE  ContentFits(Msg(base, j)) /\ Body(Msg(base, j)) = TextBody(j)
    BY <1>1, <2>2, <2>3 DEF ContentFits, Body, Msg, Types
  <2> QED BY <2>1, <2>2, <2>3, ServerSends
<1>5. CASE SendTime
  <2> DEFINE m == Bases[Len(sent) + 1]
             t == [latencySec |-> m.sentSec, latencyUsec |-> m.sentUsec]
  <2>1. ServerSend(TIME, TimeBody(t), t)
    BY <1>5 DEF SendTime, TimeBody
  <2>2. t \in TimeType
    <3>1. Len(sent) \in Nat /\ Len(Bases) \in Nat /\ Len(sent) < Len(Bases)
      BY <1>5, WireAssumption DEF TypeInv, SendTime
    <3>2. Len(sent) + 1 \in 1..Len(Bases)
      BY <3>1
    <3>3. m.sentSec \in int32 /\ m.sentUsec \in int32
      BY <3>2, BasesBlank DEF BlankType
    <3> QED BY <3>3 DEF TimeType
  <2> HIDE DEF t
  <2>3. t \in Contents
    BY <2>2 DEF Contents
  <2>4. ASSUME NEW base, base.type = TIME
        PROVE  ContentFits(Msg(base, t)) /\ Body(Msg(base, t)) = TimeBody(t)
    BY <1>1, <2>2, <2>4 DEF ContentFits, Body, Msg, Types
  <2> QED BY <2>1, <2>3, <2>4, ServerSends
<1>6. CASE SendTags
  <2>1. ServerSend(STREAM_TAGS, <<>>, <<>>)
    BY <1>6 DEF SendTags
  <2>2. <<>> \in Contents
    BY EmptySeq DEF Contents
  <2>3. ASSUME NEW base, base.type = STREAM_TAGS
        PROVE  ContentFits(Msg(base, <<>>)) /\ Body(Msg(base, <<>>)) = <<>>
    BY <1>1, <2>3 DEF ContentFits, Body, Msg, Types
  <2> QED BY <2>1, <2>2, <2>3, ServerSends
<1> QED BY <1>2, <1>3, <1>4, <1>5, <1>6

(* What every step of the client that begins a message does. *)
Writing(e) ==
  /\ Message(e) /\ e.base.type \in {HELLO, TIME}
  /\ e.base.type = HELLO => Closed(e.content)
  /\ base_message' = e.base /\ body' = Body(e) /\ phase' = "writeBody"
  /\ up => toServer' = toServer \o BaseBytes(e.base) /\ meant' = Append(meant, e)
  /\ ~up => UNCHANGED <<toServer, meant>>
  /\ UNCHANGED <<wire, late, up, time_message, sent, got, heard>>

LEMMA ClientWrites ==
  ASSUME NEW base \in BaseType, NEW bytes, NEW content \in Contents,
         WriteBase(base, bytes, content), base.type \in {HELLO, TIME},
         base.type = HELLO => Closed(content),
         ContentFits(Msg(base, content)), Body(Msg(base, content)) = bytes,
         base.size = Len(bytes)
  PROVE  \E e : Writing(e)
<1> DEFINE e == Msg(base, content)
<1>1. /\ e \in Messages /\ ContentFits(e) /\ Body(e) = bytes
      /\ e.base = base /\ e.content = content /\ e = [base |-> base, content |-> content]
  BY DEF Msg, Messages, Contents
<1> HIDE DEF e
<1>2. Message(e)
  BY <1>1 DEF Message
<1>3. up => toServer' = toServer \o BaseBytes(e.base) /\ meant' = Append(meant, e)
  BY <1>1 DEF WriteBase, BaseBytes
<1>4. /\ base_message' = e.base /\ body' = Body(e) /\ phase' = "writeBody"
      /\ ~up => UNCHANGED <<toServer, meant>>
      /\ UNCHANGED <<wire, late, up, time_message, sent, got, heard>>
  BY <1>1 DEF WriteBase
<1> QED BY <1>1, <1>2, <1>3, <1>4 DEF Writing

HelloNotClosed ==
  /\ base_message' \in BaseType
  /\ UNCHANGED <<wire, late, up, phase, body, time_message, toServer, sent, got, meant, heard>>

(* The first n bytes of a sequence, or all that there are. *)
LEMMA FirstBytes ==
  ASSUME NEW s \in Seq(Byte), NEW n \in Nat
  PROVE  /\ Bytes(s, 0, n) \in Seq(Byte) /\ Len(Bytes(s, 0, n)) <= Len(s)
         /\ SE!IsPrefix(Bytes(s, 0, n), s)
         /\ Len(s) <= n => Bytes(s, 0, n) = s
         /\ s # <<>> /\ n > 0 => Bytes(s, 0, n) # <<>>
<1> DEFINE d == Bytes(s, 0, n)
           k == Len(s)
           rest == SubSeq(s, Len(d) + 1, k)
<1>1. k \in Nat
  BY LenProperties
<1>2. /\ Cuts(s, d, rest)
      /\ k >= n => Len(d) = n
      /\ k < n => d = s
  BY ReadCuts
<1>3. d = SubSeq(s, 1, IF n < k THEN n ELSE k)
  BY DEF Bytes
<1> HIDE DEF rest, d, k
<1>4. d \in Seq(Byte) /\ Len(d) \in Nat
  BY <1>2 DEF Cuts
<1>5. k >= n \/ k < n
  BY <1>1
<1>6. Len(d) <= k
  BY <1>1, <1>2, <1>4, <1>5 DEF k
<1>7. k <= n => d = s
  <2>1. CASE k < n
    BY <1>2, <2>1
  <2>2. CASE ~(k < n)
    <3> SUFFICES ASSUME k <= n PROVE d = s
      OBVIOUS
    <3>1. n = k
      BY <1>1, <2>2
    <3>2. d = SubSeq(s, 1, k)
      BY <1>3, <3>1
    <3> QED BY <3>2, SubSeqFull DEF k
  <2> QED BY <2>1, <2>2
<1>8. SE!IsPrefix(d, s)
  <2> DEFINE l == Len(d)
  <2>1. d = SubSeq(s, 1, l)
    <3>1. CASE k >= n
      <4>1. l = n
        BY <1>2, <3>1
      <4>2. CASE k = n
        <5>1. d = s
          BY <1>1, <1>7, <4>2
        <5> QED BY <5>1, SubSeqFull
      <4>3. CASE k # n
        <5>1. n < k
          BY <1>1, <3>1, <4>3
        <5> QED BY <1>3, <4>1, <5>1
      <4> QED BY <4>2, <4>3
    <3>2. CASE k < n
      <4>1. d = s
        BY <1>2, <3>2
      <4> QED BY <4>1, SubSeqFull
    <3> QED BY <1>5, <3>1, <3>2
  <2>2. SubSeq(d, 1, l) = d
    BY <1>4, SubSeqFull
  <2> QED BY <1>6, <2>1, <2>2 DEF SE!IsPrefix, k
<1>9. ASSUME s # <<>>, n > 0 PROVE d # <<>>
  <2>1. k > 0
    BY <1>9, EmptySeq DEF k
  <2> SUFFICES ASSUME d = <<>> PROVE FALSE
    OBVIOUS
  <2>2. Len(d) = 0 /\ d # s
    BY <1>9
  <2> QED BY <1>1, <1>2, <1>5, <1>9, <2>1, <2>2
<1> QED BY <1>4, <1>6, <1>7, <1>8, <1>9 DEF d, k

(* A hello is sent when, once it has been cut, it is closed. *)
LEMMA HelloText ==
  ASSUME NEW json \in Hellos
  PROVE  /\ TextFits(to_json(json))
         /\ closed(to_json(json)) => Closed(to_json(json))
<1> DEFINE n == MaxJsonLen - 5
           text == to_json(json)
           l == Len(text)
           k == Len(json)
<1>1. json \in Seq(Byte) /\ json # <<>> /\ k + 4 \in uint32 /\ k \in Nat
  BY WireAssumption
<1>2. n \in Nat /\ n > 0
  BY ProtocolAssumption
<1>3. text = Bytes(json, 0, n)
  BY DEF to_json
<1> HIDE DEF n, text
<1>4. /\ text \in Seq(Byte) /\ l <= k /\ text # <<>> /\ SE!IsPrefix(text, json)
      /\ k <= n => text = json
  BY <1>1, <1>2, <1>3, FirstBytes
<1>5. l \in Nat
  BY <1>4
<1> HIDE DEF l, k
<1>6. l + 4 \in uint32
  <2>1. uint32Range \in Nat
    BY Ranges
  <2> HIDE DEF n
  <2> QED BY <1>1, <1>4, <1>5, <2>1 DEF uint32
<1>7. TextFits(text)
  BY <1>4, <1>6 DEF TextFits, l
<1>8. ASSUME closed(text) PROVE Closed(text)
  BY <1>4, <1>8 DEF closed, Closed, n, k
<1> QED BY <1>7, <1>8 DEF text

LEMMA WritesAre ==
  ASSUME TypeInv, WriteHallo \/ WriteMessage
  PROVE  /\ id_counter' \in Nat
         /\ phase \in {"hello", "writeTimedMessage"}
         /\ (\E e : Writing(e)) \/ (HelloNotClosed /\ phase = "hello")
<1>1. Types
  BY TypesDiffer
<1>2. 1..6 \subseteq uint16 /\ 0 \in uint16 /\ 0 \in uint32
  BY SmallNumbers
<1>3. HELLO \in uint16 /\ TIME \in uint16
  BY <1>1, <1>2 DEF Types
<1>4. CASE WriteHallo
  <2>1. id_counter' \in Nat /\ phase = "hello"
    BY <1>4 DEF WriteHallo, TypeInv
  <2>2. PICK json \in Hellos :
          IF closed(to_json(json))
            THEN WriteBase(Stamped(HELLO, 0, Len(to_json(json)) + 4),
                           serializeHello(to_json(json)), to_json(json))
            ELSE /\ base_message' = Stamped(HELLO, 0, 0)
                 /\ UNCHANGED <<wire, late, up, phase, body, time_message, toServer,
                                sent, got, meant, heard>>
    BY <1>4 DEF WriteHallo
  <2> DEFINE text == to_json(json)
  <2>3. CASE closed(text)
    <3> DEFINE size == Len(text) + 4
               base == Stamped(HELLO, 0, size)
    <3>1. TextFits(text) /\ Closed(text)
      BY <2>3, HelloText
    <3>2. WriteBase(base, serializeHello(text), text)
      BY <2>2, <2>3
    <3> HIDE DEF text
    <3>3. size \in uint32 /\ text \in Seq(Byte)
      BY <3>1 DEF TextFits
    <3> HIDE DEF size
    <3>4. base \in BaseType
      BY <1>2, <1>3, <3>3, BasesTyped
    <3>5. base.type = HELLO /\ base.size = size
      BY DEF Stamped, NoBase
    <3>6. serializeHello(text) = TextBody(text) /\ Len(TextBody(text)) = size
      BY <3>1, TextLength DEF serializeHello, TextBody, size
    <3> HIDE DEF base
    <3>7. ContentFits(Msg(base, text)) /\ Body(Msg(base, text)) = TextBody(text)
      BY <1>1, <3>1, <3>5 DEF ContentFits, Body, Msg, Types
    <3>8. text \in Contents
      BY <3>3 DEF Contents
    <3>9. \E e : Writing(e)
      BY <3>1, <3>2, <3>4, <3>5, <3>6, <3>7, <3>8, ClientWrites
    <3> QED BY <2>1, <3>9
  <2>4. CASE ~closed(text)
    <3>1. Stamped(HELLO, 0, 0) \in BaseType
      BY <1>2, <1>3, BasesTyped
    <3> QED BY <2>1, <2>2, <2>4, <3>1 DEF HelloNotClosed
  <2> QED BY <2>3, <2>4
<1>5. CASE WriteMessage
  <2> DEFINE t == time_message
             id == id_counter % uint16Range
             base == Stamped(TIME, id, TIME_MESSAGE_SIZE)
  <2>1. id_counter' \in Nat /\ phase = "writeTimedMessage" /\ t \in TimeType
    BY <1>5 DEF WriteMessage, TypeInv
  <2>2. id \in uint16 /\ TIME_MESSAGE_SIZE \in uint32
    BY SmallNumbers DEF TypeInv
  <2>3. WriteBase(base, TimeBody(t), t)
    BY <1>5 DEF WriteMessage, TimeBody
  <2> HIDE DEF id
  <2>4. base \in BaseType
    BY <1>3, <2>2, BasesTyped
  <2>5. base.type = TIME /\ base.size = TIME_MESSAGE_SIZE /\ base.type # HELLO
    BY <1>1 DEF Stamped, NoBase, Types
  <2> HIDE DEF base, t
  <2>6. ContentFits(Msg(base, t)) /\ Body(Msg(base, t)) = TimeBody(t)
    BY <1>1, <2>1, <2>5 DEF ContentFits, Body, Msg, Types
  <2>7. t \in Contents /\ Len(TimeBody(t)) = TIME_MESSAGE_SIZE
    BY <2>1, TimeIsRead DEF Contents, TimeBody
  <2>8. \E e : Writing(e)
    BY <2>3, <2>4, <2>5, <2>6, <2>7, ClientWrites
  <2> QED BY <2>1, <2>8
<1> QED BY <1>4, <1>5

(* The cases of a step, with the server's and the client's sends at one.   *)
LEMMA Steps ==
  ASSUME TypeInv, [Next]_vars
  PROVE  \/ \E e : Sending(e)
         \/ Arrive \/ Reset \/ Available \/ ReadBaseMessage \/ WaitForData \/ ReadData
         \/ HandleCodecHeader \/ HandleWireChunk \/ HandleServerSettings \/ HandleTime
         \/ HandleOther
         \/ /\ id_counter' \in Nat /\ phase \in {"hello", "writeTimedMessage"}
            /\ (\E e : Writing(e)) \/ (HelloNotClosed /\ phase = "hello")
         \/ WriteBody
         \/ NoTimedMessage
         \/ ServerRead
         \/ UNCHANGED vars
BY SendsAre, WritesAre DEF Next

LEMMA TypeNext ==
  ASSUME TypeInv, [Next]_vars
  PROVE  TypeInv'
<1> USE DEF TypeInv
<1>1. CASE \E e : Sending(e)
  <2>1. PICK e : Sending(e)
    BY <1>1
  <2>2. sent' \in Seq(Messages)
    BY <2>1, AppendProperties DEF Sending, Message
  <2> QED BY <2>1, <2>2 DEF Sending, client
<1>2. CASE Arrive
  <2>1. wire' \in Seq(Byte) /\ late' \in Seq(Byte)
    BY <1>2, ConcatProperties, EmptySeq DEF Arrive
  <2> QED BY <1>2, <2>1 DEF Arrive, client
<1>3. CASE Reset
  <2>1. PICK n \in 0..Len(wire) : wire' = SubSeq(wire, 1, n)
    BY <1>3 DEF Reset
  <2>2. wire' \in Seq(Byte)
    BY <2>1, HeadAndRest DEF Cuts
  <2>3. late' \in Seq(Byte)
    BY <1>3, EmptySeq DEF Reset
  <2>4. PICK k \in 0..Len(toServer) : toServer' = SubSeq(toServer, 1, k)
    BY <1>3 DEF Reset
  <2>5. toServer' \in Seq(Byte)
    BY <2>4, HeadAndRest DEF Cuts
  <2> QED BY <1>3, <2>2, <2>3, <2>5 DEF Reset, client
<1>4. CASE Available
  BY <1>4 DEF Available, Phases
<1>5. CASE ReadBaseMessage
  <2> DEFINE data == Bytes(wire, 0, BASE_MESSAGE_SIZE)
             read == deserialize(BaseFields, base_message, data)
  <2>1. data \in Seq(Byte) /\ wire' \in Seq(Byte)
    <3>1. Cuts(wire, data, SubSeq(wire, Len(data) + 1, Len(wire)))
      BY ReadCuts, SmallNumbers
    <3> QED BY <1>5, <3>1 DEF ReadBaseMessage, Cuts
  <2> HIDE DEF data
  <2>2. read.message \in BaseType
    BY <2>1, BaseOfBytes
  <2>3. base_message' = IF read.result = 0 THEN Received(read.message) ELSE read.message
    BY <1>5 DEF ReadBaseMessage, Received, data
  <2> HIDE DEF read
  <2>4. base_message' \in BaseType
    BY <2>2, <2>3, BasesTyped
  <2>5. phase' \in Phases
    BY <1>5 DEF ReadBaseMessage, Phases
  <2> QED BY <1>5, <2>1, <2>4, <2>5 DEF ReadBaseMessage
<1>6. CASE WaitForData
  BY <1>6 DEF WaitForData, Phases
<1>7. CASE ReadData
  <2>1. base_message.size \in Nat
    BY SmallNumbers DEF BaseType
  <2>2. Cuts(wire, body', wire')
    BY <1>7, <2>1, ReadCuts DEF ReadData
  <2> QED BY <1>7, <2>2 DEF ReadData, Cuts, Phases
<1>8. CASE HandleCodecHeader \/ HandleWireChunk \/ HandleServerSettings \/ HandleOther
  <2>1. UNCHANGED <<wire, late, toServer, body, up, base_message, time_message,
                    id_counter, sent>> /\ phase' \in {"writeTimedMessage", "crashed"}
    <3>1. CASE HandleCodecHeader
      BY <3>1 DEF HandleCodecHeader, Handled
    <3>2. CASE HandleWireChunk
      BY <3>2 DEF HandleWireChunk, Handled
    <3>3. CASE HandleServerSettings
      BY <3>3 DEF HandleServerSettings, Handled, Crashes
    <3>4. CASE HandleOther
      BY <3>4 DEF HandleOther, Handled
    <3> QED BY <1>8, <3>1, <3>2, <3>3, <3>4
  <2> QED BY <2>1 DEF Phases
<1>9. CASE HandleTime
  <2>1. time_message' \in TimeType
    BY <1>9, TimeOfBytes DEF HandleTime
  <2> QED BY <1>9, <2>1 DEF HandleTime, Handled, Phases
<1>10. CASE /\ id_counter' \in Nat /\ phase \in {"hello", "writeTimedMessage"}
            /\ (\E e : Writing(e)) \/ (HelloNotClosed /\ phase = "hello")
  <2>1. CASE HelloNotClosed
    BY <1>10, <2>1 DEF HelloNotClosed
  <2>2. CASE \E e : Writing(e)
    <3>1. PICK e : Writing(e)
      BY <2>2
    <3>2. /\ Message(e) /\ e.base \in BaseType
          /\ BaseBytes(e.base) \in Seq(Byte) /\ Body(e) \in Seq(Byte)
      BY <3>1, BytewiseCut DEF Writing, Cuts
    <3>3. toServer' \in Seq(Byte)
      <4>1. CASE up
        <5>1. toServer' = toServer \o BaseBytes(e.base)
          BY <3>1, <4>1 DEF Writing
        <5> QED BY <3>2, <5>1, ConcatProperties
      <4>2. CASE ~up
        BY <3>1, <4>2 DEF Writing
      <4> QED BY <4>1, <4>2
    <3>4. phase' \in Phases
      BY <3>1 DEF Writing, Phases
    <3>5. /\ base_message' \in BaseType /\ body' \in Seq(Byte)
          /\ UNCHANGED <<wire, late, up, time_message, sent>>
      BY <3>1, <3>2 DEF Writing
    <3> QED BY <1>10, <3>3, <3>4, <3>5
  <2> QED BY <1>10, <2>1, <2>2
<1>14. CASE WriteBody
  <2> DEFINE b == Bytes(body, 0, base_message.size)
  <2>1. b \in Seq(Byte)
    BY FirstBytes, SmallNumbers DEF BaseType
  <2>2. toServer' = IF up THEN toServer \o b ELSE toServer
    BY <1>14 DEF WriteBody
  <2> HIDE DEF b
  <2>3. toServer \o b \in Seq(Byte)
    BY <2>1, ConcatProperties
  <2> QED BY <1>14, <2>2, <2>3 DEF WriteBody, Phases
<1>11. CASE NoTimedMessage
  BY <1>11 DEF NoTimedMessage, Phases
<1>12. CASE ServerRead
  <2>1. toServer' \in Seq(Byte)
    <3> DEFINE k == Len(toServer)
               m == MessageSize
    <3>1. k \in Nat /\ k >= m /\ toServer' = SubSeq(toServer, m + 1, k)
      BY <1>12 DEF ServerRead
    <3>2. m \in Nat
      <4>1. ToServer \in BaseType
        <5>1. Bytes(toServer, 0, BASE_MESSAGE_SIZE) \in Seq(Byte)
          BY ReadCuts, SmallNumbers DEF Cuts
        <5> QED BY <5>1, BaseOfBytes, BasesTyped DEF ToServer
      <4>2. ToServer.size \in Nat
        BY <4>1, SmallNumbers DEF BaseType
      <4> QED BY <4>2, SmallNumbers DEF MessageSize
    <3> HIDE DEF m
    <3>3. m \in 0..k
      BY <3>1, <3>2
    <3> QED BY <3>1, <3>3, HeadAndRest DEF Cuts
  <2> QED BY <1>12, <2>1 DEF ServerRead, client
<1>13. CASE UNCHANGED vars
  BY <1>13 DEF vars, client
<1> QED BY Steps, <1>1, <1>2, <1>3, <1>4, <1>5, <1>6, <1>7, <1>8, <1>9, <1>10, <1>11,
           <1>12, <1>13, <1>14

LEMMA TypeAlways == Spec => []TypeInv
BY TypeInit, TypeNext, PTL DEF Spec

(* The variables have the types of the code's, whatever is sent or lost:   *)
(* a uint16_t is a uint16_t again after the wire.                          *)
THEOREM WireTypes == Spec => []TypeOK
<1>1. TypeInv => TypeOK
  <2> SUFFICES ASSUME TypeInv PROVE TypeOK
    OBVIOUS
  <2>1. {wire, late, toServer, body} \subseteq Seq(Byte)
    BY Zenon DEF TypeInv
  <2> QED BY <2>1 DEF TypeInv, TypeOK, Phases, BaseType
<1> QED BY <1>1, TypeAlways, PTL

-----------------------------------------------------------------------------
(***************************************************************************)
(* The client keeps its place in the stream of the server.  all is what    *)
(* of the stream was not read: the bytes that can be read, and then those  *)
(* that are late or, without a connection, lost.                           *)
(***************************************************************************)
ServerTypes == {CODEC_HEADER, WIRE_CHUNK, SERVER_SETTINGS, TIME, STREAM_TAGS}

Gone == ~up /\ wire = <<>>

Current == /\ Len(got) < Len(sent)
           /\ base_message = Received(sent[Len(got) + 1].base)

NextBody == Body(sent[Len(got) + 1])

AfterBase(all) == \E r : Cuts(all, NextBody, r) /\ Left(r, sent, Len(got) + 1)

AfterBody(all) ==
  \E x : /\ Cuts(NextBody, body, x)
         /\ x = <<>> => Left(all, sent, Len(got) + 1)
         /\ x # <<>> => Gone

(* Between messages; without a connection nothing is read any more.        *)
Between == {"hello", "available", "writeTimedMessage", "writeBody"}

Place(all) ==
  /\ phase \in Between => Gone \/ Left(all, sent, Len(got))
  /\ phase = "readBaseMessage" => Left(all, sent, Len(got))
  /\ phase \in {"wait", "readData"} => Current /\ AfterBase(all)
  /\ phase = "readData" /\ up => Len(wire) >= base_message.size
  /\ phase = "handle" => Current /\ AfterBody(all)

Stream(all) == \E t : Cuts(all, wire, t) /\ (up => t = late)

ReadInv ==
  /\ got \in Seq(Messages) /\ Len(got) <= Len(sent)
  /\ \A i \in 1..Len(got) :
       \/ Same(got[i], sent[i])
       \/ Gone /\ phase \in Between /\ i = Len(got) /\ Torn(got[i], sent[i])

StreamInv ==
  /\ Talk(sent) /\ \A i \in 1..Len(sent) : sent[i].base.type \in ServerTypes
  /\ ReadInv
  /\ ~up => late = <<>>
  /\ \E all : Stream(all) /\ Place(all)

(* Reading as many bytes as the head of the stream has.                    *)
LEMMA HeadIsRead ==
  ASSUME NEW all, NEW a, NEW r, NEW w, NEW t, Cuts(all, a, r), Cuts(all, w, t)
  PROVE  LET d == Bytes(w, 0, Len(a))
             rest == SubSeq(w, Len(d) + 1, Len(w))
         IN  /\ Len(w) >= Len(a) => d = a /\ Cuts(r, rest, t)
             /\ Len(w) < Len(a) => rest = <<>> /\ \E x : x # <<>> /\ Cuts(a, d, x)
<1> DEFINE k == Len(a)
           d == Bytes(w, 0, k)
           rest == SubSeq(w, Len(d) + 1, Len(w))
<1>1. a \in Seq(Byte) /\ w \in Seq(Byte) /\ k \in Nat /\ Len(w) \in Nat
  BY DEF Cuts
<1>2. ASSUME Len(w) >= k PROVE d = a /\ Cuts(r, rest, t)
  <2>1. PICK q : Cuts(w, a, q) /\ Cuts(r, q, t)
    BY <1>2, Cut
  <2>2. q \in Seq(Byte) /\ w = a \o q
    BY <2>1 DEF Cuts
  <2>3. Bytes(w, 0, Len(a)) = a /\ SubSeq(w, Len(a) + 1, Len(w)) = q
    BY <1>1, <2>2, Concat
  <2>4. d = a
    BY <2>3
  <2>5. rest = q
    BY <2>3, <2>4
  <2> HIDE DEF rest, d
  <2> QED BY <2>1, <2>4, <2>5
<1>3. ASSUME Len(w) < k PROVE rest = <<>> /\ \E x : x # <<>> /\ Cuts(a, d, x)
  <2>1. d = w /\ rest = <<>>
    BY <1>1, <1>3, ReadCuts
  <2>2. PICK x : Cuts(a, w, x)
    <3>1. Len(w) <= Len(a)
      BY <1>1, <1>3
    <3> QED BY <3>1, Cut
  <2>3. x # <<>>
    <3>1. Len(a) = Len(w) + Len(x)
      BY <2>2, CutHolds
    <3>2. SUFFICES ASSUME x = <<>> PROVE FALSE
      OBVIOUS
    <3>3. Len(x) = 0
      BY <3>2
    <3> QED BY <1>1, <1>3, <3>1, <3>3
  <2> HIDE DEF rest, d
  <2> QED BY <2>1, <2>2, <2>3
<1> HIDE DEF rest
<1>4. /\ Len(w) >= k => d = a /\ Cuts(r, rest, t)
      /\ Len(w) < k => rest = <<>> /\ \E x : x # <<>> /\ Cuts(a, d, x)
  BY <1>2, <1>3
<1> QED BY <1>4 DEF rest

(* Bytes that are added at the end, and bytes that are cut off there.      *)
LEMMA CutsMore ==
  ASSUME NEW all, NEW a, NEW b, Cuts(all, a, b)
  PROVE  /\ \A w \in Seq(Byte) : Cuts(all \o w, a, b \o w)
         /\ \A c, d : Cuts(a, c, d) => \E e : Cuts(all, c, e)
         /\ b = <<>> => all = a
<1>1. a \in Seq(Byte) /\ b \in Seq(Byte) /\ all = a \o b
  BY DEF Cuts
<1>2. ASSUME NEW w \in Seq(Byte) PROVE Cuts(all \o w, a, b \o w)
  <2>1. b \o w \in Seq(Byte)
    BY <1>1, ConcatProperties
  <2>2. (a \o b) \o w = a \o (b \o w)
    BY ONLY <1>1, <1>2, ConcatAssociative
  <2> QED BY <1>1, <2>1, <2>2 DEF Cuts
<1>3. ASSUME NEW c, NEW d, Cuts(a, c, d) PROVE \E e : Cuts(all, c, e)
  <2>1. c \in Seq(Byte) /\ d \in Seq(Byte) /\ a = c \o d
    BY <1>3 DEF Cuts
  <2>2. d \o b \in Seq(Byte)
    BY <1>1, <2>1, ConcatProperties
  <2>3. (c \o d) \o b = c \o (d \o b)
    BY ONLY <1>1, <2>1, ConcatAssociative
  <2>4. Cuts(all, c, d \o b)
    BY <1>1, <2>1, <2>2, <2>3 DEF Cuts
  <2> QED BY <2>4
<1>4. b = <<>> => all = a
  BY <1>1, ConcatEmptySeq
<1> QED BY <1>2, <1>3, <1>4

(* The base part that is read is that of the next message; when nothing is *)
(* left, none is read.                                                     *)
LEMMA BaseCut ==
  ASSUME NEW ms, Talk(ms), NEW n \in Nat, n <= Len(ms), NEW all, Left(all, ms, n),
         NEW w, NEW t, Cuts(all, w, t), NEW old \in BaseType
  PROVE  LET d == Bytes(w, 0, BASE_MESSAGE_SIZE)
             read == deserialize(BaseFields, old, d)
         IN  read.result = 0 =>
               /\ n < Len(ms) /\ read.message = ms[n + 1].base
               /\ \E rest, r : /\ Cuts(rest, SubSeq(w, Len(d) + 1, Len(w)), t)
                               /\ Cuts(rest, Body(ms[n + 1]), r)
                               /\ Left(r, ms, n + 1)
<1> DEFINE d == Bytes(w, 0, BASE_MESSAGE_SIZE)
           read == deserialize(BaseFields, old, d)
           left == SubSeq(w, Len(d) + 1, Len(w))
           k == Len(ms)
<1> SUFFICES ASSUME read.result = 0
             PROVE  /\ n < k /\ read.message = ms[n + 1].base
                    /\ \E rest, r : /\ Cuts(rest, left, t)
                                    /\ Cuts(rest, Body(ms[n + 1]), r)
                                    /\ Left(r, ms, n + 1)
  BY Zenon
<1>1. w \in Seq(Byte) /\ Len(w) \in Nat /\ BASE_MESSAGE_SIZE \in Nat /\ k \in Nat
  BY SmallNumbers DEF Cuts, Talk
<1>2. d \in Seq(Byte) /\ Len(d) \in Nat
  <2>1. Cuts(w, d, left)
    BY <1>1, ReadCuts
  <2> HIDE DEF d, left
  <2>2. d \in Seq(Byte)
    BY <2>1 DEF Cuts
  <2> QED BY <2>2
<1>3. ~(Len(d) < BASE_MESSAGE_SIZE)
  <2> HIDE DEF d
  <2> QED BY <1>2, BaseOfBytes
<1>4. Len(w) >= BASE_MESSAGE_SIZE
  <2> SUFFICES ASSUME Len(w) < BASE_MESSAGE_SIZE PROVE FALSE
    BY <1>1
  <2>1. d = w
    BY <1>1, ReadCuts
  <2> QED BY <1>3, <2>1
<1>5. n < k
  <2> SUFFICES ASSUME n = k PROVE FALSE
    BY <1>1
  <2>1. all = <<>>
    BY LeftEnd
  <2>2. Len(all) = Len(w) + Len(t) /\ Len(t) \in Nat
    BY CutHolds
  <2>3. Len(all) = 0
    BY <2>1
  <2> QED BY <1>1, <1>4, <2>2, <2>3 DEF BASE_MESSAGE_SIZE
<1> DEFINE e == ms[n + 1]
           b == BaseBytes(e.base)
<1>6. PICK rest, r : /\ Cuts(all, b, rest) /\ Cuts(rest, Body(e), r) /\ Left(r, ms, n + 1)
  BY <1>5, LeftNext
<1>7. Len(b) = BASE_MESSAGE_SIZE /\ e.base \in BaseType
  BY <1>5, LeftNext, BytewiseCut
<1> HIDE DEF b
<1>8. Bytes(w, 0, Len(b)) = b /\ Cuts(rest, SubSeq(w, Len(Bytes(w, 0, Len(b))) + 1, Len(w)), t)
  BY <1>4, <1>6, <1>7, HeadIsRead
<1>9. d = b /\ Cuts(rest, left, t)
  BY <1>7, <1>8
<1>10. read.message = e.base
  BY <1>7, <1>9, BaseIsRead DEF b, BaseBytes
<1> QED BY <1>5, <1>6, <1>9, <1>10

(* What was made of the messages so far stays what it is. *)
LEMMA ReadKept ==
  ASSUME StreamInv, UNCHANGED <<got, sent>>,
         Gone /\ phase \in Between => Gone' /\ phase' \in Between
  PROVE  ReadInv'
<1>1. got' = got /\ sent' = sent /\ ReadInv
  BY DEF StreamInv
<1>2. ASSUME NEW i \in 1..Len(got)
      PROVE  \/ Same(got[i], sent[i])
             \/ Gone' /\ phase' \in Between /\ i = Len(got) /\ Torn(got[i], sent[i])
  BY <1>1 DEF ReadInv
<1> QED BY <1>1, <1>2 DEF ReadInv

LEMMA StreamInit == Init => StreamInv
<1> SUFFICES ASSUME Init PROVE StreamInv
  OBVIOUS
<1>1. sent = <<>> /\ got = <<>> /\ wire = <<>> /\ late = <<>> /\ up /\ phase = "hello"
  BY DEF Init
<1>2. Talk(<<>>) /\ Len(<<>>) = 0 /\ <<>> \in Seq(Messages) /\ <<>> \in Seq(Byte)
  BY EmptySeq DEF Talk
<1>3. Left(<<>>, sent, Len(got))
  BY <1>1, <1>2, LeftEnd
<1>4. Place(<<>>)
  BY <1>1, <1>3 DEF Place, Between
<1>5. Cuts(<<>>, <<>>, <<>>)
  BY <1>2, ConcatEmptySeq DEF Cuts
<1>6. Stream(<<>>)
  BY <1>1, <1>5 DEF Stream
<1>7. ReadInv
  BY <1>1, <1>2 DEF ReadInv
<1> QED BY <1>1, <1>2, <1>4, <1>6, <1>7 DEF StreamInv

(* The message that is being read.                                         *)
LEMMA CurrentIs ==
  ASSUME TypeInv, StreamInv, Current
  PROVE  LET e == sent[Len(got) + 1]
         IN  /\ Message(e) /\ e.base.type \in ServerTypes /\ e.base \in BaseType
             /\ NextBody = Body(e) /\ Len(NextBody) = base_message.size
             /\ base_message.size \in Nat
             /\ base_message = Received(e.base) /\ base_message.type = e.base.type
             /\ Len(got) \in Nat /\ Len(sent) \in Nat
<1> DEFINE e == sent[Len(got) + 1]
<1>1. Len(got) \in Nat /\ Len(sent) \in Nat /\ Len(got) < Len(sent)
  BY DEF StreamInv, ReadInv, Talk, Current
<1>2. Len(got) + 1 \in 1..Len(sent)
  BY <1>1
<1>3. Message(e) /\ e.base.type \in ServerTypes
  BY <1>2 DEF StreamInv, Talk
<1>4. e.base \in BaseType /\ e.base.size = Len(Body(e)) /\ base_message = Received(e.base)
  BY <1>3 DEF Message, Messages, Current
<1> HIDE DEF e
<1>5. base_message.type = e.base.type /\ base_message.size = e.base.size
  BY <1>4, BasesTyped
<1>6. base_message.size \in Nat
  BY <1>3, <1>4, <1>5, BytewiseCut
<1> QED BY <1>1, <1>3, <1>4, <1>5, <1>6 DEF NextBody, e

(* A message more from the server.                                         *)
LEMMA StreamSending ==
  ASSUME TypeInv, StreamInv, NEW e, Sending(e)
  PROVE  StreamInv'
<1> DEFINE k == Len(sent)
           n == Len(got)
           last == Bytewise(e)
<1>1. PICK all, t : Cuts(all, wire, t) /\ (up => t = late) /\ Place(all)
  BY DEF StreamInv, Stream
<1>2. /\ Message(e) /\ e.base.type \in ServerTypes /\ up /\ late = <<>> /\ t = <<>>
      /\ wire' \in Seq(Byte) /\ late' \in Seq(Byte) /\ wire' \o late' = wire \o last
      /\ sent' = Append(sent, e) /\ Len(wire') >= Len(wire)
      /\ UNCHANGED <<up, phase, base_message, body, got>>
  BY <1>1 DEF Sending, ServerTypes, client
<1>3. Talk(sent) /\ n \in Nat /\ k \in Nat /\ n <= k
  BY DEF StreamInv, Talk, ReadInv
<1>4. last \in Seq(Byte)
  BY <1>2, BytewiseCut
<1>5. all = wire
  BY <1>1, <1>2, CutsMore
<1>6. /\ Talk(sent') /\ Len(sent') = k + 1 /\ sent'[k + 1] = e
      /\ \A i \in 1..k : sent'[i] = sent[i]
      /\ \A m \in Nat : \A bytes :
           m <= k /\ Left(bytes, sent, m) => Left(bytes \o last, sent', m)
  <2>1. <<>> \in Seq(Byte) /\ Left(<<>>, sent, k) /\ k <= k
    BY <1>3, EmptySeq, LeftEnd
  <2>2. /\ Talk(Append(sent, e)) /\ Len(Append(sent, e)) = k + 1
        /\ \A i \in 1..k : Append(sent, e)[i] = sent[i]
        /\ Append(sent, e)[k + 1] = e
    BY <1>2, <1>3, <2>1, LeftMore
  <2>3. ASSUME NEW m \in Nat, NEW bytes, m <= k, Left(bytes, sent, m)
        PROVE  Left(bytes \o last, Append(sent, e), m)
    BY <1>2, <1>3, <2>3, LeftMore
  <2> QED BY <1>2, <2>2, <2>3
<1> HIDE DEF last
<1>7. Cuts(all \o last, wire', late')
  BY <1>2, <1>5 DEF Cuts
<1>8. \A i \in 1..Len(sent') : sent'[i].base.type \in ServerTypes
  <2>1. ASSUME NEW i \in 1..(k + 1) PROVE sent'[i].base.type \in ServerTypes
    <3>1. CASE i = k + 1
      BY <1>2, <1>6, <3>1
    <3>2. CASE i # k + 1
      <4>1. i \in 1..k
        BY <1>3, <3>2
      <4> QED BY <1>6, <4>1 DEF StreamInv
    <3> QED BY <3>1, <3>2
  <2> QED BY <1>6, <2>1
<1>9. ReadInv'
  <2>1. got' \in Seq(Messages) /\ Len(got') <= Len(sent')
    <3>1. n <= k + 1
      BY <1>3
    <3> QED BY <1>2, <1>6, <3>1 DEF StreamInv, ReadInv
  <2>2. ASSUME NEW i \in 1..n PROVE Same(got[i], sent'[i])
    <3>1. i \in 1..k
      BY <1>3
    <3>2. Same(got[i], sent[i])
      BY <1>2 DEF StreamInv, ReadInv, Gone
    <3> QED BY <1>6, <3>1, <3>2
  <2> QED BY <1>2, <2>1, <2>2 DEF ReadInv
<1>10. Left(all, sent, n) => Left(all \o last, sent', n)
  BY <1>3, <1>6
<1>11. ASSUME Current
       PROVE  /\ Current' /\ NextBody' = NextBody
              /\ \A r : Left(r, sent, n + 1) => Left(r \o last, sent', n + 1)
  <2>1. n < k /\ n + 1 \in 1..k /\ n + 1 \in Nat /\ n + 1 <= k /\ n < k + 1
    BY <1>3, <1>11 DEF Current
  <2>2. sent'[n + 1] = sent[n + 1]
    BY <1>6, <2>1
  <2>3. Current'
    BY <1>2, <1>6, <1>11, <2>1, <2>2 DEF Current
  <2>4. NextBody' = NextBody
    BY <1>2, <2>2 DEF NextBody
  <2> QED BY <1>6, <2>1, <2>3, <2>4
<1>12. Place(all \o last)'
  <2>1. ASSUME phase \in Between \cup {"readBaseMessage"}
        PROVE  Left(all \o last, sent', n)
    BY <1>1, <1>2, <1>10, <2>1 DEF Place, Gone
  <2>2. ASSUME phase \in {"wait", "readData"}
        PROVE  Current' /\ AfterBase(all \o last)'
    <3>1. PICK r : Current /\ Cuts(all, NextBody, r) /\ Left(r, sent, n + 1)
      BY <1>1, <2>2 DEF Place, AfterBase
    <3>2. Current' /\ NextBody' = NextBody /\ Left(r \o last, sent', n + 1)
      BY <1>11, <3>1
    <3>3. Cuts(all \o last, NextBody, r \o last)
      BY <1>4, <3>1, CutsMore
    <3> QED BY <1>2, <3>2, <3>3 DEF AfterBase
  <2>3. ASSUME phase = "readData" PROVE Len(wire') >= base_message.size
    <3>1. Len(wire) >= base_message.size
      BY <1>1, <1>2, <2>3 DEF Place
    <3>2. Len(wire) \in Nat /\ Len(wire') \in Nat
      BY <1>2 DEF TypeInv
    <3>3. base_message.size \in Nat
      BY SmallNumbers DEF TypeInv, BaseType
    <3> QED BY <1>2, <3>1, <3>2, <3>3
  <2>4. ASSUME phase = "handle" PROVE Current' /\ AfterBody(all \o last)'
    <3>1. PICK x : /\ Current /\ Cuts(NextBody, body, x)
                   /\ x = <<>> => Left(all, sent, n + 1)
                   /\ x # <<>> => Gone
      BY <1>1, <2>4 DEF Place, AfterBody
    <3>2. x = <<>> /\ Left(all, sent, n + 1)
      BY <1>2, <3>1 DEF Gone
    <3>3. Current' /\ NextBody' = NextBody /\ Left(all \o last, sent', n + 1)
      BY <1>11, <3>1, <3>2
    <3> QED BY <1>2, <3>1, <3>2, <3>3 DEF AfterBody
  <2> QED BY <1>2, <2>1, <2>2, <2>3, <2>4 DEF Place
<1> QED BY <1>2, <1>6, <1>7, <1>8, <1>9, <1>12 DEF StreamInv, Stream

(* A message that was handled counts when nothing of it is missing, or     *)
(* when it is the settings.                                                *)
LEMMA StreamHandled ==
  ASSUME TypeInv, StreamInv, NEW result, NEW content, Handled(result, content),
         \A x : Current /\ Cuts(NextBody, body, x) =>
           IF x = <<>>
             THEN /\ result = 0 /\ content \in Contents
                  /\ Same(Msg(base_message, content), sent[Len(got) + 1])
             ELSE result = 0 => /\ content \in Contents
                                /\ Torn(Msg(base_message, content), sent[Len(got) + 1])
  PROVE  StreamInv'
<1> DEFINE n == Len(got)
           g == Msg(base_message, content)
<1>1. /\ phase = "handle" /\ phase' = "writeTimedMessage"
      /\ got' = (IF result = 0 THEN Append(got, g) ELSE got)
      /\ UNCHANGED <<wire, late, up, sent>>
  BY DEF Handled, Msg
<1>2. PICK all : Stream(all) /\ Place(all)
  BY DEF StreamInv
<1>3. PICK x : /\ Current /\ Cuts(NextBody, body, x)
               /\ x = <<>> => Left(all, sent, n + 1)
               /\ x # <<>> => Gone
  BY <1>1, <1>2 DEF Place, AfterBody
<1>4. Stream(all)' /\ phase' \in Between /\ (Gone => Gone')
  BY <1>1, <1>2 DEF Stream, Between, Gone
<1>5. n \in Nat /\ Len(sent) \in Nat /\ n < Len(sent) /\ got \in Seq(Messages)
  BY <1>3, CurrentIs DEF Current, StreamInv, ReadInv
<1>6. CASE result = 0
  <2>1. /\ content \in Contents
        /\ Same(g, sent[n + 1]) \/ (x # <<>> /\ Torn(g, sent[n + 1]))
    BY <1>3, <1>6
  <2>2. g \in Messages
    BY <2>1 DEF Msg, Messages, Contents, TypeInv
  <2> HIDE DEF g
  <2>3. got' = Append(got, g)
    BY <1>1, <1>6
  <2>4. /\ got' \in Seq(Messages) /\ Len(got') = n + 1 /\ got'[n + 1] = g
        /\ \A i \in 1..n : got'[i] = got[i]
    BY <1>5, <2>2, <2>3, AppendProperties
  <2>5. ASSUME NEW i \in 1..(n + 1)
        PROVE  \/ Same(got'[i], sent[i])
               \/ Gone' /\ i = n + 1 /\ Torn(got'[i], sent[i])
    <3>1. CASE i = n + 1
      BY <1>3, <1>4, <2>1, <2>4, <3>1
    <3>2. CASE i # n + 1
      <4>1. i \in 1..n
        BY <1>5, <3>2
      <4>2. Same(got[i], sent[i])
        BY <1>1, <4>1 DEF StreamInv, ReadInv, Between
      <4> QED BY <2>4, <4>1, <4>2
    <3> QED BY <3>1, <3>2
  <2>6. ReadInv'
    <3>1. n + 1 <= Len(sent)
      BY <1>5
    <3> QED BY <1>1, <1>4, <2>4, <2>5, <3>1 DEF ReadInv
  <2>7. Place(all)'
    BY <1>1, <1>3, <1>4, <2>4 DEF Place
  <2> QED BY <1>1, <1>4, <2>6, <2>7 DEF StreamInv
<1>7. CASE result # 0
  <2>1. got' = got /\ Gone'
    BY <1>1, <1>3, <1>4, <1>7
  <2>2. ReadInv'
    BY <1>1, <1>4, <2>1, ReadKept
  <2>3. Place(all)'
    BY <1>1, <2>1 DEF Place
  <2> QED BY <1>1, <1>4, <2>2, <2>3 DEF StreamInv
<1> QED BY <1>6, <1>7

(* The whole body, and a part of it.                                       *)
LEMMA WholeOrPart ==
  ASSUME NEW a, NEW b, NEW x, Cuts(a, b, x)
  PROVE  /\ x = <<>> => b = a
         /\ x # <<>> => Len(b) < Len(a)
         /\ b \in Seq(Byte) /\ Len(a) \in Nat
<1>1. a = b \o x /\ b \in Seq(Byte) /\ x \in Seq(Byte)
  BY DEF Cuts
<1>2. Len(a) = Len(b) + Len(x) /\ Len(a) \in Nat /\ Len(b) \in Nat /\ Len(x) \in Nat
  <2>1. a \in Seq(Byte) /\ Len(a) = Len(b) + Len(x) /\ Len(b) \in Nat /\ Len(x) \in Nat
    BY CutHolds
  <2> QED BY <2>1
<1>3. x # <<>> => Len(x) > 0
  BY <1>1, EmptySeq
<1>4. x # <<>> => Len(b) < Len(a)
  BY <1>2, <1>3
<1> QED BY <1>1, <1>2, <1>4, ConcatEmptySeq

(* settingsText() gives the text that came, and a character more.          *)
LEMMA SettingsRead ==
  ASSUME NEW s, NEW w, NEW j, Cuts(s, w, j), Len(w) = 4
  PROVE  LET text == settingsText(s)
         IN  /\ text \in Seq(Byte) /\ SE!IsPrefix(j, text)
             /\ SubSeq(text, 1, Len(text) - 1) = j
<1>1. w \in Seq(Byte) /\ j \in Seq(Byte) /\ s = w \o j
  BY DEF Cuts
<1> DEFINE k == Len(j)
           l == Len(s)
<1>2. s \in Seq(Byte) /\ l = Len(w) + k /\ k \in Nat
  BY <1>1, Concat
<1> HIDE DEF k, l
<1>3. l = 4 + k
  BY <1>2
<1>4. SubSeq(s, 4 + 1, l) = j
  <2>1. SubSeq(w \o j, Len(w) + 1, Len(w \o j)) = j
    BY <1>1, Concat
  <2> QED BY <1>1, <2>1 DEF l
<1> DEFINE c == s[l - 3]
           last == <<c>>
           text == j \o last
<1>5. settingsText(s) = text
  <2>1. 4 + 1 = 5
    OBVIOUS
  <2> QED BY <1>4, <2>1 DEF settingsText, l
<1>6. last \in Seq(Byte) /\ Len(last) = 1
  <2>1. l - 3 \in 1..Len(s)
    BY <1>2, <1>3 DEF l
  <2>2. c \in Byte
    BY <1>2, <2>1
  <2> QED BY <2>2
<1> HIDE DEF last
<1>7. text \in Seq(Byte) /\ Len(text) = k + Len(last)
  BY <1>1, <1>6, Concat DEF k
<1> DEFINE m == Len(text)
<1>8. m = k + 1 /\ k <= m /\ m - 1 = k /\ m \in Nat
  BY <1>2, <1>6, <1>7
<1>9. SubSeq(text, 1, k) = j
  <2>1. Bytes(j \o last, 0, Len(j)) = j
    BY <1>1, <1>6, Concat
  <2>2. Bytes(text, 0, k) = SubSeq(text, 0 + 1, IF 0 + k < m THEN 0 + k ELSE m)
    BY DEF Bytes
  <2> HIDE DEF m, text
  <2>3. (IF 0 + k < m THEN 0 + k ELSE m) = k /\ 0 + 1 = 1
    BY <1>2, <1>8
  <2> QED BY <2>1, <2>2, <2>3 DEF k, text
<1>10. SubSeq(j, 1, k) = j
  BY <1>1, SubSeqFull DEF k
<1>11. SubSeq(text, 1, m - 1) = j
  <2> HIDE DEF m
  <2> QED BY <1>8, <1>9
<1>12. SE!IsPrefix(j, text)
  <2> HIDE DEF text
  <2> QED BY <1>8, <1>9, <1>10 DEF SE!IsPrefix, k, m
<1> HIDE DEF text
<1> QED BY <1>5, <1>7, <1>11, <1>12 DEF m

(* Of a text that is cut off, what there is of it follows its length. *)
LEMMA SettingsCut ==
  ASSUME NEW j, TextFits(j), NEW b, NEW x, Cuts(TextBody(j), b, x), Len(b) >= 4
  PROVE  \E y : /\ Cuts(b, write_uint32(Len(j)), y) /\ Cuts(j, y, x)
               /\ SE!IsPrefix(y, j)
<1> DEFINE w == write_uint32(Len(j))
<1>1. Cuts(TextBody(j), w, j) /\ Len(w) = 4
  BY TextLength
<1> HIDE DEF w
<1>2. PICK y : Cuts(b, w, y) /\ Cuts(j, y, x)
  BY <1>1, Cut
<1>3. SE!IsPrefix(y, j)
  <2> DEFINE l == Len(y)
             k == Len(j)
  <2>1. y \in Seq(Byte) /\ x \in Seq(Byte) /\ j = y \o x
    BY <1>2 DEF Cuts
  <2>2. k = l + Len(x) /\ l \in Nat /\ Len(x) \in Nat
    BY <2>1, Concat
  <2>3. Bytes(y \o x, 0, Len(y)) = y
    BY <2>1, Concat
  <2>4. Bytes(j, 0, l) = SubSeq(j, 0 + 1, IF 0 + l < k THEN 0 + l ELSE k)
    BY DEF Bytes
  <2>5. SubSeq(y, 1, l) = y
    BY <2>1, SubSeqFull
  <2> HIDE DEF l, k
  <2>6. (IF 0 + l < k THEN 0 + l ELSE k) = l /\ 0 + 1 = 1 /\ l <= k
    BY <2>2
  <2>7. SubSeq(j, 1, l) = y
    BY <2>1, <2>3, <2>4, <2>6 DEF l
  <2> QED BY <2>5, <2>6, <2>7 DEF SE!IsPrefix, l, k
<1> QED BY <1>2, <1>3 DEF w

LEMMA StreamHandles ==
  ASSUME TypeInv, StreamInv,
         HandleCodecHeader \/ HandleWireChunk \/ HandleServerSettings \/ HandleTime \/ HandleOther
  PROVE  StreamInv'
<1> DEFINE e == sent[Len(got) + 1]
<1>1. Types
  BY TypesDiffer
<1>2. ASSUME Current
      PROVE  /\ e.base.type = base_message.type /\ base_message = Received(e.base)
             /\ ContentFits(e) /\ e.base.type \in ServerTypes /\ NextBody = Body(e)
  BY <1>2, CurrentIs DEF Message
<1> HIDE DEF e
<1>3. ASSUME NEW content, Current,
             IF e.base.type = SERVER_SETTINGS THEN SE!IsPrefix(e.content, content)
                                              ELSE content = e.content
      PROVE  Same(Msg(base_message, content), e)
  BY <1>2, <1>3 DEF Same, Msg, Received
<1>4. CASE HandleCodecHeader
  <2> DEFINE read == deserializeCodec(NoCodec, body)
             content == [codec |-> read.message.codec, payload |-> read.message.payload]
  <2>1. base_message.type = CODEC_HEADER /\ Handled(read.result, content)
    BY <1>4 DEF HandleCodecHeader, NoCodec
  <2>2. ASSUME NEW x, Current, Cuts(NextBody, body, x)
        PROVE  IF x = <<>>
                 THEN /\ read.result = 0 /\ content \in Contents
                      /\ Same(Msg(base_message, content), e)
                 ELSE read.result # 0
    <3>1. CodecFits(e.content) /\ NextBody = CodecBody(e.content)
          /\ e.base.type # SERVER_SETTINGS
      BY <1>1, <1>2, <2>1, <2>2 DEF ContentFits, Body, Types
    <3>2. /\ x = <<>> => read.result = 0 /\ e.content = content
          /\ x # <<>> => read.result # 0
      <4> DEFINE c == e.content
      <4>1. CodecFits(c) /\ Cuts(CodecBody(c), body, x)
        BY <2>2, <3>1
      <4> HIDE DEF c
      <4>2. IF x = <<>> THEN read.result = 0 /\ c = content ELSE read.result # 0
        BY ONLY <4>1, CodecIsRead
      <4> QED BY <4>2 DEF c
    <3>3. e.content \in Contents
      BY <2>2, CurrentIs DEF Message, Messages, Contents, e
    <3> HIDE DEF read, content
    <3>4. ASSUME x = <<>> PROVE Same(Msg(base_message, content), e)
      BY <1>3, <2>2, <3>1, <3>2, <3>4
    <3> QED BY <3>2, <3>3, <3>4
  <2> HIDE DEF read, content
  <2> QED BY <2>1, <2>2, StreamHandled DEF e
<1>5. CASE HandleWireChunk
  <2> DEFINE read == deserializeChunk(NoChunk, body)
             content == [sec |-> read.message.sec, usec |-> read.message.usec,
                         payload |-> read.message.payload]
  <2>1. base_message.type = WIRE_CHUNK /\ Handled(read.result, content)
    BY <1>5 DEF HandleWireChunk, NoChunk
  <2>2. ASSUME NEW x, Current, Cuts(NextBody, body, x)
        PROVE  IF x = <<>>
                 THEN /\ read.result = 0 /\ content \in Contents
                      /\ Same(Msg(base_message, content), e)
                 ELSE read.result # 0
    <3>1. ChunkFits(e.content) /\ NextBody = ChunkBody(e.content)
          /\ e.base.type # SERVER_SETTINGS
      BY <1>1, <1>2, <2>1, <2>2 DEF ContentFits, Body, Types
    <3>2. /\ x = <<>> => read.result = 0 /\ e.content = content
          /\ x # <<>> => read.result # 0
      BY <2>2, <3>1, ChunkIsRead
    <3>3. e.content \in Contents
      BY <2>2, CurrentIs DEF Message, Messages, Contents, e
    <3> HIDE DEF read, content
    <3>4. ASSUME x = <<>> PROVE Same(Msg(base_message, content), e)
      BY <1>3, <2>2, <3>1, <3>2, <3>4
    <3> QED BY <3>2, <3>3, <3>4
  <2> HIDE DEF read, content
  <2> QED BY <2>1, <2>2, StreamHandled DEF e
<1>6. CASE HandleServerSettings /\ ~Crashes
  <2> DEFINE content == settingsText(body)
  <2>1. base_message.type = SERVER_SETTINGS /\ Handled(0, content) /\ Len(body) >= 4
    BY <1>6 DEF HandleServerSettings
  <2>2. ASSUME NEW x, Current, Cuts(NextBody, body, x)
        PROVE  /\ content \in Contents
               /\ x = <<>> => Same(Msg(base_message, content), e)
               /\ Torn(Msg(base_message, content), e)
    <3> DEFINE j == e.content
               w == write_uint32(Len(j))
    <3>1. TextFits(j) /\ NextBody = TextBody(j) /\ e.base.type = SERVER_SETTINGS
      BY <1>1, <1>2, <2>1, <2>2 DEF ContentFits, Body, Types
    <3> HIDE DEF j
    <3>2. PICK y : Cuts(body, w, y) /\ Cuts(j, y, x) /\ SE!IsPrefix(y, j) /\ Len(w) = 4
      BY <2>1, <2>2, <3>1, SettingsCut, TextLength
    <3> HIDE DEF w
    <3>3. /\ content \in Seq(Byte) /\ SE!IsPrefix(y, content)
          /\ SubSeq(content, 1, Len(content) - 1) = y
      BY <3>2, SettingsRead
    <3> HIDE DEF content
    <3>4. ASSUME x = <<>> PROVE Same(Msg(base_message, content), e)
      <4>1. y = j
        BY <3>2, <3>4, WholeOrPart
      <4>2. SE!IsPrefix(e.content, content)
        BY <3>3, <4>1 DEF j
      <4> QED BY <1>3, <2>2, <3>1, <4>2
    <3>5. Torn(Msg(base_message, content), e)
      BY <1>2, <2>1, <2>2, <3>2, <3>3 DEF Torn, Msg, j
    <3> QED BY <3>3, <3>4, <3>5 DEF Contents
  <2> HIDE DEF content
  <2> QED BY <2>1, <2>2, StreamHandled DEF e
<1>9. CASE HandleServerSettings /\ Crashes
  <2>1. PICK all : Stream(all) /\ Place(all)
    BY DEF StreamInv
  <2>2. /\ phase = "handle" /\ phase' = "crashed"
        /\ UNCHANGED <<wire, late, up, base_message, body, sent, got>>
    BY <1>9 DEF Crashes
  <2>3. Stream(all)' /\ Place(all)'
    BY <2>1, <2>2 DEF Stream, Place, Between
  <2>4. ReadInv'
    <3>1. ~(phase \in Between)
      BY <2>2 DEF Between
    <3> QED BY <2>2, <3>1, ReadKept
  <2> QED BY <2>2, <2>3, <2>4 DEF StreamInv
<1>7. CASE HandleTime
  <2> DEFINE read == deserialize(TimeFields, time_message, body)
             content == read.message
  <2>1. base_message.type = TIME /\ Handled(read.result, content)
    BY <1>7 DEF HandleTime, Handled
  <2>2. ASSUME NEW x, Current, Cuts(NextBody, body, x)
        PROVE  IF x = <<>>
                 THEN /\ read.result = 0 /\ content \in Contents
                      /\ Same(Msg(base_message, content), e)
                 ELSE read.result # 0
    <3>1. e.content \in TimeType /\ NextBody = TimeBody(e.content)
          /\ e.base.type # SERVER_SETTINGS
      BY <1>1, <1>2, <2>1, <2>2 DEF ContentFits, Body, Types
    <3>2. Len(NextBody) = TIME_MESSAGE_SIZE
      BY <3>1, TimeIsRead DEF TimeBody
    <3>3. time_message \in TimeType
      BY DEF TypeInv
    <3>4. ASSUME x = <<>> PROVE read.result = 0 /\ content = e.content
      <4>1. body = TimeBody(e.content)
        BY <2>2, <3>1, <3>4, WholeOrPart
      <4> QED BY <3>1, <3>3, <4>1, TimeIsRead DEF TimeBody
    <3>5. ASSUME x # <<>> PROVE read.result # 0
      <4>1. Len(body) < TIME_MESSAGE_SIZE /\ body \in Seq(Byte)
        BY <2>2, <3>2, <3>5, WholeOrPart
      <4> QED BY <3>3, <4>1, TimeOfBytes
    <3> HIDE DEF read, content
    <3>6. ASSUME x = <<>> PROVE Same(Msg(base_message, content), e)
      BY <1>3, <2>2, <3>1, <3>4, <3>6
    <3> QED BY <3>1, <3>4, <3>5, <3>6 DEF Contents
  <2> HIDE DEF read, content
  <2> QED BY <2>1, <2>2, StreamHandled DEF e
<1>8. CASE HandleOther
  <2>1. /\ base_message.type \notin {CODEC_HEADER, WIRE_CHUNK, SERVER_SETTINGS, TIME}
        /\ Handled(0, body)
    BY <1>8 DEF HandleOther
  <2>2. ASSUME NEW x, Current, Cuts(NextBody, body, x)
        PROVE  x = <<>> /\ body \in Contents /\ Same(Msg(base_message, body), e)
    <3>1. e.base.type = STREAM_TAGS
      BY <1>2, <2>1, <2>2 DEF ServerTypes
    <3>2. e.content = <<>> /\ NextBody = <<>> /\ e.base.type # SERVER_SETTINGS
      BY <1>1, <1>2, <2>2, <3>1 DEF ContentFits, Body, Types
    <3>3. body \in Seq(Byte) /\ x \in Seq(Byte) /\ <<>> = body \o x
      BY <2>2, <3>2 DEF Cuts
    <3>4. body = <<>> /\ x = <<>>
      BY <3>3, ConcatEqualIffEmpty
    <3> QED BY <1>3, <2>2, <3>2, <3>3, <3>4 DEF Contents
  <2> QED BY <2>1, <2>2, StreamHandled DEF e
<1> QED BY <1>4, <1>5, <1>6, <1>7, <1>8, <1>9

LEMMA StreamNext ==
  ASSUME TypeInv, StreamInv, [Next]_vars
  PROVE  StreamInv'
<1>1. CASE \E e : Sending(e)
  BY <1>1, StreamSending
<1>2. CASE Arrive
  <2>1. PICK all, t : Cuts(all, wire, t) /\ (up => t = late) /\ Place(all)
    BY DEF StreamInv, Stream
  <2>2. /\ up /\ late # <<>> /\ wire' = wire \o late /\ late' = <<>>
        /\ UNCHANGED <<up, phase, base_message, body, sent, got>>
    BY <1>2 DEF Arrive, client, StreamInv
  <2>3. all = wire' /\ wire' \in Seq(Byte) /\ Len(wire') >= Len(wire)
    <3>1. wire \in Seq(Byte) /\ late \in Seq(Byte) /\ all = wire \o late
      BY <2>1, <2>2 DEF Cuts
    <3>2. wire \o late \in Seq(Byte) /\ Len(wire \o late) >= Len(wire)
      <4>1. /\ Len(wire \o late) = Len(wire) + Len(late) /\ wire \o late \in Seq(Byte)
            /\ Len(wire) \in Nat /\ Len(late) \in Nat
        BY <3>1, ConcatProperties
      <4> QED BY <4>1
    <3> QED BY <2>2, <3>1, <3>2
  <2>4. Stream(all)'
    <3>1. Cuts(all, wire', <<>>)
      BY <2>3, ConcatEmptySeq, EmptySeq DEF Cuts
    <3> QED BY <2>2, <3>1 DEF Stream
  <2>5. Place(all)'
    <3>1. Len(wire') >= base_message.size \/ ~(Len(wire) >= base_message.size)
      <4> DEFINE k == Len(wire)
                 l == Len(wire')
                 size == base_message.size
      <4>1. k \in Nat /\ l \in Nat /\ l >= k
        BY <2>3 DEF TypeInv
      <4>2. size \in Nat
        BY SmallNumbers DEF TypeInv, BaseType
      <4> HIDE DEF k, l, size
      <4>3. l >= size \/ ~(k >= size)
        BY <4>1, <4>2
      <4> QED BY <4>3 DEF k, l, size
    <3>2. AfterBase(all)' = AfterBase(all) /\ Current' = Current
      BY <2>2 DEF AfterBase, Current, NextBody
    <3>3. AfterBody(all) => AfterBody(all)'
      BY <2>2 DEF AfterBody, NextBody, Gone
    <3>4. ~Gone
      BY <2>2 DEF Gone
    <3> QED BY <2>1, <2>2, <3>1, <3>2, <3>3, <3>4 DEF Place, Between
  <2>6. ReadInv'
    BY <2>2, ReadKept DEF Gone
  <2> QED BY <2>2, <2>4, <2>5, <2>6 DEF StreamInv
<1>3. CASE Reset
  <2>1. PICK all, t : Cuts(all, wire, t) /\ (up => t = late) /\ Place(all)
    BY DEF StreamInv, Stream
  <2>2. PICK n \in 0..Len(wire) : wire' = SubSeq(wire, 1, n)
    BY <1>3 DEF Reset
  <2>3. /\ up /\ ~up' /\ late' = <<>>
        /\ UNCHANGED <<phase, base_message, body, sent, got>>
    BY <1>3 DEF Reset, client
  <2>4. Stream(all)'
    <3>1. Cuts(wire, wire', SubSeq(wire, n + 1, Len(wire)))
      BY <2>2, HeadAndRest DEF TypeInv
    <3>2. PICK u : Cuts(all, wire', u)
      BY <2>1, <3>1, CutsMore
    <3> QED BY <2>3, <3>2 DEF Stream
  <2>5. Place(all)'
    <3>1. AfterBase(all)' = AfterBase(all) /\ Current' = Current
      BY <2>3 DEF AfterBase, Current, NextBody
    <3>2. ~Gone
      BY <2>3 DEF Gone
    <3>3. AfterBody(all) => AfterBody(all)'
      BY <2>3, <3>2 DEF AfterBody, NextBody
    <3> QED BY <2>1, <2>3, <3>1, <3>2, <3>3 DEF Place
  <2>6. ReadInv'
    BY <2>3, ReadKept DEF Gone
  <2> QED BY <2>3, <2>4, <2>5, <2>6 DEF StreamInv
<1>4. CASE Available
  <2>1. PICK all : Stream(all) /\ Place(all)
    BY DEF StreamInv
  <2>2. /\ phase = "available" /\ phase' = "readBaseMessage"
        /\ Len(wire) >= BASE_MESSAGE_SIZE
        /\ UNCHANGED <<wire, late, up, base_message, body, sent, got>>
    BY <1>4 DEF Available
  <2>3. ~Gone
    <3>1. wire # <<>>
      <4> SUFFICES ASSUME wire = <<>> PROVE FALSE
        OBVIOUS
      <4>1. Len(wire) = 0
        OBVIOUS
      <4> QED BY <2>2, <4>1 DEF BASE_MESSAGE_SIZE
    <3> QED BY <3>1 DEF Gone
  <2>4. Place(all)' /\ Stream(all)' /\ ReadInv'
    BY <2>1, <2>2, <2>3, ReadKept DEF Place, Stream, Between
  <2> QED BY <2>2, <2>4 DEF StreamInv
<1>5. CASE ReadBaseMessage
  <2> DEFINE data == Bytes(wire, 0, BASE_MESSAGE_SIZE)
             read == deserialize(BaseFields, base_message, data)
             n == Len(got)
  <2>1. PICK all, t : Cuts(all, wire, t) /\ (up => t = late) /\ Place(all)
    BY DEF StreamInv, Stream
  <2>2. /\ phase = "readBaseMessage" /\ wire' = SubSeq(wire, Len(data) + 1, Len(wire))
        /\ base_message' = IF read.result = 0 THEN Received(read.message) ELSE read.message
        /\ phase' = IF read.result = 0 THEN "wait" ELSE "lost"
        /\ UNCHANGED <<late, up, body, sent, got>>
    BY <1>5 DEF ReadBaseMessage, Received
  <2>3. ReadInv' /\ (~up' => late' = <<>>)
    BY <2>2, ReadKept DEF StreamInv, Between
  <2>4. /\ Talk(sent) /\ n \in Nat /\ n <= Len(sent) /\ Left(all, sent, n)
        /\ base_message \in BaseType
    BY <2>1, <2>2 DEF StreamInv, ReadInv, Place, TypeInv
  <2>5. CASE read.result = 0
    <3>1. /\ n < Len(sent) /\ read.message = sent[n + 1].base
          /\ \E rest, r : /\ Cuts(rest, SubSeq(wire, Len(data) + 1, Len(wire)), t)
                          /\ Cuts(rest, Body(sent[n + 1]), r)
                          /\ Left(r, sent, n + 1)
      BY <2>1, <2>4, <2>5, BaseCut
    <3> HIDE DEF data, read
    <3>2. PICK rest, r : /\ Cuts(rest, wire', t)
                         /\ Cuts(rest, Body(sent[n + 1]), r)
                         /\ Left(r, sent, n + 1)
      BY <2>2, <3>1
    <3>3. Current'
      BY <2>2, <2>5, <3>1 DEF Current
    <3>4. AfterBase(rest)'
      BY <2>2, <3>2 DEF AfterBase, NextBody
    <3>5. Stream(rest)'
      BY <2>1, <2>2, <3>2 DEF Stream
    <3>6. Place(rest)'
      BY <2>2, <2>5, <3>3, <3>4 DEF Place, Between
    <3> QED BY <2>2, <2>3, <3>5, <3>6 DEF StreamInv
  <2>6. CASE read.result # 0
    <3>1. Cuts(wire, data, wire')
      BY <2>2, ReadCuts, SmallNumbers DEF TypeInv
    <3> HIDE DEF data, read
    <3>2. wire' \in Seq(Byte) /\ t \in Seq(Byte)
      BY <2>1, <3>1 DEF Cuts
    <3>3. PICK a : Cuts(a, wire', t)
      BY <3>2 DEF Cuts
    <3>4. Stream(a)'
      BY <2>1, <2>2, <3>3 DEF Stream
    <3>5. Place(a)'
      BY <2>2, <2>6 DEF Place, Between
    <3> QED BY <2>2, <2>3, <3>4, <3>5 DEF StreamInv
  <2> QED BY <2>5, <2>6
<1>6. CASE WaitForData
  <2>1. PICK all : Stream(all) /\ Place(all)
    BY DEF StreamInv
  <2>2. /\ phase = "wait" /\ phase' = "readData" /\ Len(wire) >= base_message.size
        /\ UNCHANGED <<wire, late, up, base_message, body, sent, got>>
    BY <1>6 DEF WaitForData
  <2>3. Place(all)'
    <3>1. AfterBase(all)' = AfterBase(all) /\ Current' = Current
      BY <2>2 DEF AfterBase, Current, NextBody
    <3> QED BY <2>1, <2>2, <3>1 DEF Place, Between
  <2>4. Stream(all)' /\ ReadInv'
    BY <2>1, <2>2, ReadKept DEF Stream, Between
  <2> QED BY <2>2, <2>3, <2>4 DEF StreamInv
<1>7. CASE ReadData
  <2> DEFINE n == Len(got)
             k == Len(NextBody)
             data == Bytes(wire, 0, k)
             rest == SubSeq(wire, Len(data) + 1, Len(wire))
  <2>1. PICK all, t : Cuts(all, wire, t) /\ (up => t = late) /\ Place(all)
    BY DEF StreamInv, Stream
  <2>2. /\ phase = "readData" /\ phase' = "handle"
        /\ body' = Bytes(wire, 0, base_message.size)
        /\ wire' = SubSeq(wire, Len(body') + 1, Len(wire))
        /\ UNCHANGED <<late, up, base_message, sent, got>>
    BY <1>7 DEF ReadData
  <2>3. Current /\ AfterBase(all) /\ (up => Len(wire) >= base_message.size)
    BY <2>1, <2>2 DEF Place
  <2>4. PICK r : Cuts(all, NextBody, r) /\ Left(r, sent, n + 1)
    BY <2>3 DEF AfterBase
  <2>5. k = base_message.size /\ k \in Nat
    BY <2>3, CurrentIs
  <2>6. body' = data /\ wire' = rest
    BY <2>2, <2>5
  <2>7. /\ Len(wire) >= k => data = NextBody /\ Cuts(r, rest, t)
        /\ Len(wire) < k => rest = <<>> /\ \E x : x # <<>> /\ Cuts(NextBody, data, x)
    BY <2>1, <2>4, HeadIsRead
  <2> HIDE DEF data, rest
  <2>8. /\ Current' = Current /\ NextBody' = NextBody
    BY <2>2 DEF Current, NextBody
  <2>9. ReadInv' /\ (~up' => late' = <<>>)
    BY <2>2, ReadKept DEF StreamInv, Between
  <2>10. CASE Len(wire) >= k
    <3>1. Cuts(r, wire', t) /\ body' = NextBody
      BY <2>6, <2>7, <2>10
    <3>2. Cuts(NextBody, body', <<>>)
      <4>1. NextBody \in Seq(Byte)
        BY <2>4 DEF Cuts
      <4> QED BY <3>1, <4>1, ConcatEmptySeq, EmptySeq DEF Cuts
    <3>3. AfterBody(r)'
      BY <2>2, <2>4, <2>8, <3>2 DEF AfterBody
    <3>4. Place(r)'
      BY <2>2, <2>3, <2>8, <3>3 DEF Place, Between
    <3>5. Stream(r)'
      BY <2>1, <2>2, <3>1 DEF Stream
    <3> QED BY <2>2, <2>9, <3>4, <3>5 DEF StreamInv
  <2>11. CASE ~(Len(wire) >= k)
    <3>1. Len(wire) \in Nat /\ Len(wire) < k
      <4>1. Len(wire) \in Nat
        BY DEF TypeInv
      <4> QED BY <2>5, <2>11, <4>1
    <3>2. wire' = <<>> /\ \E x : x # <<>> /\ Cuts(NextBody, body', x)
      BY <2>6, <2>7, <3>1
    <3>3. ~up
      BY <2>3, <2>5, <2>11
    <3>4. ASSUME NEW a PROVE Place(a)'
      <4>1. AfterBody(a)'
        BY <2>2, <2>8, <3>2, <3>3 DEF AfterBody, Gone
      <4> QED BY <2>2, <2>3, <2>8, <4>1 DEF Place, Between
    <3>5. Cuts(<<>>, wire', <<>>)
      BY <3>2, ConcatEmptySeq, EmptySeq DEF Cuts
    <3>6. Stream(<<>>)'
      BY <2>2, <3>3, <3>5 DEF Stream
    <3> QED BY <2>2, <2>9, <3>4, <3>6 DEF StreamInv
  <2> QED BY <2>10, <2>11
<1>8. CASE HandleCodecHeader \/ HandleWireChunk \/ HandleServerSettings \/ HandleTime
             \/ HandleOther
  BY <1>8, StreamHandles
<1>9. CASE \/ /\ phase \in {"hello", "writeTimedMessage"}
              /\ (\E e : Writing(e)) \/ (HelloNotClosed /\ phase = "hello")
           \/ WriteBody
           \/ NoTimedMessage
           \/ ServerRead
           \/ UNCHANGED vars
  <2>1. PICK all : Stream(all) /\ Place(all)
    BY DEF StreamInv
  <2>2. /\ UNCHANGED <<wire, late, up, sent, got>>
        /\ \/ phase \in Between /\ phase' \in Between
           \/ UNCHANGED <<phase, base_message, body>>
    <3>1. CASE \E e : Writing(e) /\ phase \in {"hello", "writeTimedMessage"}
      BY <3>1 DEF Writing, Between
    <3>2. CASE HelloNotClosed /\ phase = "hello"
      BY <3>2 DEF HelloNotClosed, Between
    <3>3. CASE NoTimedMessage
      BY <3>3 DEF NoTimedMessage, Between
    <3>4. CASE ServerRead
      BY <3>4 DEF ServerRead, client
    <3>5. CASE UNCHANGED vars
      BY <3>5 DEF vars, client
    <3>6. CASE WriteBody
      BY <3>6 DEF WriteBody, Between
    <3> QED BY <1>9, <3>1, <3>2, <3>3, <3>4, <3>5, <3>6
  <2>3. Stream(all)' /\ ReadInv'
    <3>1. Gone /\ phase \in Between => Gone' /\ phase' \in Between
      BY <2>2 DEF Gone
    <3> QED BY <2>1, <2>2, <3>1, ReadKept DEF Stream
  <2>4. Place(all)'
    <3>1. CASE phase \in Between /\ phase' \in Between
      BY <2>1, <2>2, <3>1 DEF Place, Gone, Between
    <3>2. CASE UNCHANGED <<phase, base_message, body>>
      <4>1. /\ AfterBase(all)' = AfterBase(all) /\ Current' = Current
            /\ AfterBody(all)' = AfterBody(all)
        BY <2>2, <3>2 DEF AfterBase, AfterBody, Current, NextBody, Gone
      <4> QED BY <2>1, <2>2, <3>2, <4>1 DEF Place, Gone
    <3> QED BY <2>2, <3>1, <3>2
  <2> QED BY <2>2, <2>3, <2>4 DEF StreamInv
<1> QED BY Steps, <1>1, <1>2, <1>3, <1>4, <1>5, <1>6, <1>7, <1>8, <1>9

LEMMA StreamAlways == Spec => []StreamInv
<1>1. Init => StreamInv
  BY StreamInit
<1>2. TypeInv /\ StreamInv /\ [Next]_vars => StreamInv'
  BY StreamNext
<1> QED BY <1>1, <1>2, TypeAlways, PTL DEF Spec

(* What the client makes of the messages is what the server sent, in their *)
(* order and none left out in between, wherever the connection ends: no    *)
(* message is made up of parts of two, and of a message that is cut off    *)
(* nothing is made, except for settings (processMessageServerSettings()),  *)
(* of which the part that came counts, as the last of that connection.     *)
THEOREM ReadMeansSent == Spec => []ReadIsSent
<1>1. StreamInv => ReadIsSent
  BY DEF StreamInv, ReadInv, ReadIsSent, Gone
<1> QED BY <1>1, StreamAlways, PTL

(* On a connection that holds, nothing is left over once a rest is too     *)
(* short for a base part: the sizes that the client skips by are those of  *)
(* the messages.                                                           *)
THEOREM SkipsNothing == Spec => []NothingSkipped
<1>1. TypeInv /\ StreamInv => NothingSkipped
  <2> SUFFICES ASSUME TypeInv, StreamInv, up, phase = "available",
                      Len(wire \o late) < BASE_MESSAGE_SIZE
               PROVE  wire \o late = <<>> /\ Len(got) = Len(sent)
    BY DEF NothingSkipped
  <2> DEFINE n == Len(got)
             all == wire \o late
  <2>1. Left(all, sent, n)
    <3>1. PICK a, t : Cuts(a, wire, t) /\ (up => t = late) /\ Place(a)
      BY DEF StreamInv, Stream
    <3>2. a = all
      BY <3>1 DEF Cuts
    <3> QED BY <3>1, <3>2 DEF Place, Gone, Between
  <2>2. Talk(sent) /\ n \in Nat /\ Len(sent) \in Nat /\ n <= Len(sent)
    BY DEF StreamInv, ReadInv, Talk
  <2> HIDE DEF all
  <2>3. n = Len(sent)
    <3> SUFFICES ASSUME n < Len(sent) PROVE FALSE
      BY <2>2
    <3> DEFINE e == sent[n + 1]
    <3>1. PICK rest : Message(e) /\ Cuts(all, BaseBytes(e.base), rest)
      BY <2>1, <2>2, LeftNext
    <3>2. /\ Len(all) = Len(BaseBytes(e.base)) + Len(rest) /\ Len(rest) \in Nat
      BY <3>1, CutHolds
    <3>3. Len(BaseBytes(e.base)) = BASE_MESSAGE_SIZE
      BY <3>1, BytewiseCut
    <3>4. Len(all) = BASE_MESSAGE_SIZE + Len(rest)
      BY <3>2, <3>3
    <3>5. BASE_MESSAGE_SIZE \in Nat /\ Len(all) < BASE_MESSAGE_SIZE
      BY SmallNumbers DEF all
    <3> QED BY <3>2, <3>4, <3>5
  <2>4. all = <<>>
    BY <2>1, <2>2, <2>3, LeftEnd
  <2> QED BY <2>3, <2>4 DEF all
<1> QED BY <1>1, TypeAlways, StreamAlways, PTL

-----------------------------------------------------------------------------
(***************************************************************************)
(* And the server keeps its place in the stream of the client.             *)
(***************************************************************************)
(* What is still to be written of the message that is being written.      *)
Pending == IF phase = "writeBody" THEN Bytes(body, 0, base_message.size) ELSE <<>>

Hearing(all) == \E t : Cuts(all, toServer, t) /\ (up => t = Pending)

HeardInv ==
  /\ Talk(meant) /\ \A i \in 1..Len(meant) : meant[i].base.type \in {HELLO, TIME}
  /\ \A i \in 1..Len(meant) : meant[i].base.type = HELLO => Closed(meant[i].content)
  /\ heard \in Seq(Messages) /\ Len(heard) <= Len(meant)
  /\ \A i \in 1..Len(heard) : heard[i] = meant[i]
  /\ \E all : Hearing(all) /\ Left(all, meant, Len(heard))

(* The bytes of a message, where the server looks for them.                *)
LEMMA MessageIsThere ==
  ASSUME NEW e, Message(e), NEW bytes, NEW rest, NEW r,
         Cuts(bytes, BaseBytes(e.base), rest), Cuts(rest, Body(e), r)
  PROVE  LET size == BASE_MESSAGE_SIZE + Len(Body(e))
         IN  /\ Bytes(bytes, 0, BASE_MESSAGE_SIZE) = BaseBytes(e.base)
             /\ Bytes(bytes, BASE_MESSAGE_SIZE, Len(Body(e))) = Body(e)
             /\ Len(bytes) \in Nat /\ size \in Nat /\ Len(bytes) >= size
             /\ SubSeq(bytes, size + 1, Len(bytes)) = r
<1> DEFINE a == BaseBytes(e.base)
           b == Body(e)
           k == BASE_MESSAGE_SIZE
           l == Len(b)
           size == k + l
<1>2. Len(a) = k /\ l \in Nat /\ k \in Nat
  BY BytewiseCut, SmallNumbers
<1>1. Cuts(bytes, a, rest) /\ Cuts(rest, b, r)
  OBVIOUS
<1> HIDE DEF a, b, k
<1>3. Holds(bytes, 0, a) /\ Holds(bytes, Len(a), b) /\ Cuts(bytes, a \o b, r)
  BY <1>1, CutHolds
<1>4. Bytes(bytes, 0, k) = a /\ Bytes(bytes, k, l) = b
  BY <1>2, <1>3 DEF Holds
<1>5. a \in Seq(Byte) /\ b \in Seq(Byte) /\ r \in Seq(Byte) /\ bytes = (a \o b) \o r
      /\ a \o b \in Seq(Byte)
  BY <1>1, <1>3 DEF Cuts
<1>6. Len(a \o b) = k + l
  BY <1>2, <1>5, Concat
<1> DEFINE ab == a \o b
<1> HIDE DEF ab
<1>7. /\ SubSeq(ab \o r, Len(ab) + 1, Len(ab \o r)) = r
      /\ Len(ab \o r) = Len(ab) + Len(r) /\ Len(r) \in Nat
  BY <1>5, Concat DEF ab
<1>8. SubSeq(bytes, size + 1, Len(bytes)) = r /\ Len(bytes) = size + Len(r)
  BY <1>5, <1>6, <1>7 DEF ab
<1> HIDE DEF l
<1>9. Len(bytes) \in Nat /\ size \in Nat /\ Len(bytes) >= size
  BY <1>2, <1>7, <1>8
<1> QED BY <1>4, <1>8, <1>9 DEF a, b, k, l

(* The server makes of the next message what the client meant, once there  *)
(* is enough of it; t is what of the stream all is not there.              *)
LEMMA NextIsHeard ==
  ASSUME TypeInv, HeardInv, Len(heard) < Len(meant),
         NEW all, NEW t, Cuts(all, toServer, t), Left(all, meant, Len(heard))
  PROVE  LET e    == meant[Len(heard) + 1]
             data == Bytes(toServer, BASE_MESSAGE_SIZE, ToServer.size)
         IN  /\ t = <<>> => Len(toServer) >= MessageSize
             /\ Len(toServer) >= BASE_MESSAGE_SIZE /\ Len(toServer) >= MessageSize =>
                  /\ e \in Messages /\ e.base.type \in {HELLO, TIME}
                  /\ ToServer = e.base
                  /\ IF e.base.type = HELLO
                       THEN Bytes(data, 4, read_uint32(data)) = e.content
                       ELSE deserialize(TimeFields, time_message, data).message = e.content
                  /\ \E r : /\ Cuts(r, SubSeq(toServer, MessageSize + 1, Len(toServer)), t)
                            /\ Left(r, meant, Len(heard) + 1)
<1> DEFINE n == Len(heard)
           e == meant[n + 1]
           a == BaseBytes(e.base)
           b == Body(e)
           k == BASE_MESSAGE_SIZE
           l == Len(toServer)
           data == Bytes(toServer, k, ToServer.size)
           left == SubSeq(toServer, MessageSize + 1, l)
           content == IF e.base.type = HELLO
                        THEN Bytes(b, 4, read_uint32(b)) = e.content
                        ELSE deserialize(TimeFields, time_message, b).message = e.content
<1>1. n \in Nat /\ n < Len(meant) /\ Talk(meant) /\ Len(meant) \in Nat
  BY DEF HeardInv, Talk
<1>2. PICK rest, r : /\ Message(e) /\ Cuts(all, a, rest) /\ Cuts(rest, b, r)
                     /\ Left(r, meant, n + 1)
  BY <1>1, LeftNext
<1>3. e.base.type \in {HELLO, TIME}
  <2>1. n + 1 \in 1..Len(meant)
    BY <1>1
  <2> QED BY <2>1 DEF HeardInv
<1> HIDE DEF e
<1>4. e.base \in BaseType /\ e.base.size = Len(b) /\ e \in Messages /\ ContentFits(e)
  BY <1>2 DEF Message, Messages
<1>5. Len(a) = k /\ k \in Nat /\ Len(b) \in Nat /\ l \in Nat
  BY <1>2, BytewiseCut, SmallNumbers DEF TypeInv
<1>6. ASSUME l >= k
      PROVE  /\ ToServer = e.base /\ MessageSize = k + Len(b)
             /\ \E q : Cuts(toServer, a, q) /\ Cuts(rest, q, t)
  <2>1. PICK q : Cuts(toServer, a, q) /\ Cuts(rest, q, t)
    BY <1>2, <1>5, <1>6, Cut
  <2>2. Bytes(toServer, 0, k) = a
    BY <1>5, <2>1, CutHolds DEF Holds
  <2>3. ToServer = e.base
    BY <1>4, <2>2, BaseIsRead, BasesTyped DEF ToServer, BaseBytes
  <2> QED BY <1>4, <2>1, <2>3 DEF MessageSize
<1>7. t = <<>> => l >= MessageSize
  <2> SUFFICES ASSUME t = <<>> PROVE l >= MessageSize
    OBVIOUS
  <2>1. toServer = all
    BY CutsMore
  <2>2. l >= k + Len(b)
    BY <1>2, <2>1, MessageIsThere
  <2>3. l >= k
    <3> HIDE DEF b, k, l
    <3> QED BY <1>5, <2>2
  <2> QED BY <1>6, <2>2, <2>3
<1>8. Types
  BY TypesDiffer
<1>9. content
  <2>1. CASE e.base.type = HELLO
    <3> DEFINE j == e.content
               w == write_uint32(Len(j))
    <3>1. TextFits(j) /\ b = TextBody(j)
      BY <1>4, <1>8, <2>1 DEF ContentFits, Body, Types
    <3> HIDE DEF j, b
    <3>2. Cuts(b, w, j) /\ Len(w) = 4 /\ read_uint32(w) = Len(j)
      BY <3>1, TextLength
    <3> HIDE DEF w
    <3>3. w \in Seq(Byte) /\ j \in Seq(Byte) /\ b = w \o j
      BY <3>2 DEF Cuts
    <3>4. Bytes(w \o j, Len(w), Len(j)) = j
      BY <3>3, Concat
    <3>5. read_uint32(b) = read_uint32(w)
      <4>1. \A i \in 1..4 : b[i] = w[i]
        <5>1. \A i \in 1..(Len(w) + Len(j)) :
                (w \o j)[i] = IF i <= Len(w) THEN w[i] ELSE j[i - Len(w)]
          BY <3>3, ConcatProperties
        <5> DEFINE m == Len(j)
        <5>2. m \in Nat
          BY <3>3
        <5>3. \A i \in 1..(4 + m) : b[i] = IF i <= 4 THEN w[i] ELSE j[i - 4]
          BY <3>2, <3>3, <5>1
        <5> HIDE DEF m
        <5> QED BY <5>2, <5>3
      <4>2. b[1] = w[1] /\ b[2] = w[2] /\ b[3] = w[3] /\ b[4] = w[4]
        BY <4>1
      <4> QED BY <4>2 DEF read_uint32
    <3>6. Bytes(b, 4, read_uint32(b)) = j
      BY <3>2, <3>3, <3>4, <3>5
    <3> QED BY <2>1, <3>6 DEF b, j
  <2>2. CASE e.base.type = TIME
    <3>1. e.content \in TimeType /\ b = TimeBody(e.content)
      BY <1>4, <1>8, <2>2 DEF ContentFits, Body, Types
    <3>2. time_message \in TimeType
      BY DEF TypeInv
    <3>3. deserialize(TimeFields, time_message, b).message = e.content
      BY <3>1, <3>2, TimeIsRead DEF TimeBody
    <3>4. e.base.type # HELLO
      BY <1>8, <2>2 DEF Types
    <3> HIDE DEF b
    <3> QED BY <3>3, <3>4 DEF b
  <2> QED BY <1>3, <2>1, <2>2
<1>10. ASSUME l >= k, l >= MessageSize
       PROVE  /\ data = b /\ \E x : Cuts(x, left, t) /\ Left(x, meant, n + 1)
  <2>1. PICK q : Cuts(toServer, a, q) /\ Cuts(rest, q, t)
    BY <1>6, <1>10
  <2>2. ToServer.size = Len(b) /\ MessageSize = k + Len(b)
    BY <1>4, <1>6, <1>10
  <2>3. Len(b) <= Len(q)
    <3>1. l = k + Len(q) /\ Len(q) \in Nat
      BY <1>5, <2>1, CutHolds
    <3> HIDE DEF b, k, l
    <3> QED BY <1>5, <1>10, <2>2, <3>1
  <2>4. PICK x : Cuts(q, b, x) /\ Cuts(r, x, t)
    BY <1>2, <2>1, <2>3, Cut
  <2>5. /\ Bytes(toServer, k, Len(b)) = b
        /\ SubSeq(toServer, (k + Len(b)) + 1, l) = x
    BY <1>2, <2>1, <2>4, MessageIsThere
  <2>6. data = b /\ left = x
    BY <2>2, <2>5
  <2> HIDE DEF data, left
  <2> QED BY <1>2, <2>4, <2>6
<1>11. ASSUME l >= k, l >= MessageSize
       PROVE  /\ ToServer = e.base
              /\ IF e.base.type = HELLO
                   THEN Bytes(data, 4, read_uint32(data)) = e.content
                   ELSE deserialize(TimeFields, time_message, data).message = e.content
              /\ \E x : Cuts(x, left, t) /\ Left(x, meant, n + 1)
  BY <1>6, <1>9, <1>10, <1>11
<1> HIDE DEF data, left
<1> QED BY <1>3, <1>4, <1>7, <1>11 DEF e, data, left

LEMMA HeardInit == Init => HeardInv
<1> SUFFICES ASSUME Init PROVE HeardInv
  OBVIOUS
<1>1. meant = <<>> /\ heard = <<>> /\ toServer = <<>> /\ phase = "hello"
  BY DEF Init
<1>2. Talk(<<>>) /\ Len(<<>>) = 0 /\ <<>> \in Seq(Messages) /\ <<>> \in Seq(Byte)
  BY EmptySeq DEF Talk
<1>3. Left(<<>>, meant, Len(heard))
  BY <1>1, <1>2, LeftEnd
<1>4. Hearing(<<>>)
  BY <1>1, <1>2, ConcatEmptySeq DEF Hearing, Pending, Cuts
<1> QED BY <1>1, <1>2, <1>3, <1>4 DEF HeardInv

(* A step that neither writes nor reads for the server.                    *)
LEMMA HeardKept ==
  ASSUME HeardInv, UNCHANGED <<up, toServer, meant, heard>>, Pending' = Pending
  PROVE  HeardInv'
<1>1. PICK all : Hearing(all) /\ Left(all, meant, Len(heard))
  BY DEF HeardInv
<1>2. Hearing(all)'
  BY <1>1 DEF Hearing
<1> QED BY <1>1, <1>2 DEF HeardInv

LEMMA HeardWriting ==
  ASSUME HeardInv, NEW e, Writing(e), phase \in {"hello", "writeTimedMessage"}
  PROVE  HeardInv'
<1> DEFINE n == Len(heard)
           k == Len(meant)
           a == BaseBytes(e.base)
           b == Body(e)
<1>1. n \in Nat /\ k \in Nat /\ n <= k /\ Talk(meant)
  BY DEF HeardInv, Talk
<1>2. PICK all, t : Cuts(all, toServer, t) /\ (up => t = Pending) /\ Left(all, meant, n)
  BY DEF HeardInv, Hearing
<1>3. CASE ~up
  <2>1. UNCHANGED <<up, toServer, meant, heard>>
    BY <1>3 DEF Writing
  <2>2. Hearing(all)'
    BY <1>2, <1>3, <2>1 DEF Hearing
  <2> QED BY <1>2, <2>1, <2>2 DEF HeardInv
<1>4. CASE up
  <2>1. /\ Message(e) /\ e.base.type \in {HELLO, TIME} /\ heard' = heard /\ up' = up
        /\ e.base.type = HELLO => Closed(e.content)
        /\ toServer' = toServer \o a /\ meant' = Append(meant, e)
        /\ base_message' = e.base /\ body' = b /\ phase' = "writeBody"
    BY <1>4 DEF Writing
  <2>2. /\ Talk(meant') /\ Len(meant') = k + 1 /\ meant'[k + 1] = e
        /\ \A i \in 1..k : meant'[i] = meant[i]
        /\ Left(all \o Bytewise(e), meant', n)
    BY <1>1, <1>2, <2>1, LeftMore
  <2>3. Pending' = b
    <3>1. Pending' = Bytes(b, 0, e.base.size)
      BY <2>1 DEF Pending
    <3>2. b \in Seq(Byte) /\ e.base.size = Len(b)
      BY <2>1, BodyType DEF Message
    <3> HIDE DEF b
    <3> QED BY <3>1, <3>2, BytesAll
  <2>4. Hearing(all \o Bytewise(e))'
    <3>1. t = <<>>
      BY <1>2, <1>4 DEF Pending
    <3>2. all = toServer /\ toServer \in Seq(Byte)
      BY <1>2, <3>1, CutsMore DEF Cuts
    <3>3. a \in Seq(Byte) /\ b \in Seq(Byte) /\ Bytewise(e) = a \o b
      BY <2>1, BytewiseCut DEF Cuts
    <3> DEFINE new == toServer \o a
    <3> HIDE DEF a, b
    <3>4. new \in Seq(Byte) /\ toServer \o (a \o b) = new \o b
      <4>1. (toServer \o a) \o b = toServer \o (a \o b)
        BY ONLY <3>2, <3>3, ConcatAssociative
      <4> QED BY <3>2, <3>3, <4>1, ConcatProperties
    <3>5. Cuts(all \o Bytewise(e), new, b)
      BY <3>2, <3>3, <3>4 DEF Cuts
    <3> DEFINE whole == all \o Bytewise(e)
    <3> HIDE DEF new, whole
    <3>6. toServer' = new
      BY <2>1 DEF new, a
    <3>7. Cuts(whole, toServer', b) /\ (up' => b = Pending')
      BY <2>3, <3>5, <3>6 DEF whole, b
    <3> QED BY <3>7 DEF Hearing, whole
  <2>5. ASSUME NEW i \in 1..(k + 1)
        PROVE  /\ meant'[i].base.type \in {HELLO, TIME}
               /\ meant'[i].base.type = HELLO => Closed(meant'[i].content)
    <3>1. CASE i = k + 1
      BY <2>1, <2>2, <3>1
    <3>2. CASE i # k + 1
      <4>1. i \in 1..k
        BY <1>1, <3>2
      <4> QED BY <2>2, <4>1 DEF HeardInv
    <3> QED BY <3>1, <3>2
  <2>6. ASSUME NEW i \in 1..n PROVE heard[i] = meant'[i]
    <3>1. i \in 1..k
      BY <1>1
    <3> QED BY <2>2, <3>1 DEF HeardInv
  <2>7. n <= k + 1
    BY <1>1
  <2> QED BY <2>1, <2>2, <2>4, <2>5, <2>6, <2>7 DEF HeardInv
<1> QED BY <1>3, <1>4

LEMMA HeardReading ==
  ASSUME TypeInv, HeardInv, ServerRead
  PROVE  HeardInv'
<1> DEFINE n == Len(heard)
           k == Len(meant)
           e == meant[n + 1]
           data == Bytes(toServer, BASE_MESSAGE_SIZE, ToServer.size)
           h == [base |-> ToServer,
                 content |-> IF ToServer.type = HELLO
                               THEN Bytes(data, 4, read_uint32(data))
                               ELSE deserialize(TimeFields, time_message, data).message]
           left == SubSeq(toServer, MessageSize + 1, Len(toServer))
<1>1. n \in Nat /\ k \in Nat /\ n <= k /\ Talk(meant)
  BY DEF HeardInv, Talk
<1>2. PICK all, t : Cuts(all, toServer, t) /\ (up => t = Pending) /\ Left(all, meant, n)
  BY DEF HeardInv, Hearing
<1>3. /\ Len(toServer) >= BASE_MESSAGE_SIZE /\ Len(toServer) >= MessageSize
      /\ toServer' = left /\ heard' = Append(heard, h)
      /\ UNCHANGED <<up, meant, phase, body, base_message>>
  BY DEF ServerRead, client
<1>4. n < k
  <2> SUFFICES ASSUME n = k PROVE FALSE
    BY <1>1
  <2>1. all = <<>>
    BY <1>1, <1>2, LeftEnd
  <2>2. Len(all) = Len(toServer) + Len(t) /\ Len(toServer) \in Nat /\ Len(t) \in Nat
    BY <1>2, CutHolds
  <2>3. Len(all) = 0
    BY <2>1
  <2> QED BY <1>3, <2>2, <2>3 DEF BASE_MESSAGE_SIZE
<1>5. /\ e \in Messages /\ ToServer = e.base
      /\ IF e.base.type = HELLO
           THEN Bytes(data, 4, read_uint32(data)) = e.content
           ELSE deserialize(TimeFields, time_message, data).message = e.content
      /\ \E r : Cuts(r, left, t) /\ Left(r, meant, n + 1)
  BY <1>2, <1>3, <1>4, NextIsHeard
<1>6. h = e
  <2>1. e = [base |-> e.base, content |-> e.content]
    BY <1>5 DEF Messages
  <2> HIDE DEF e, data
  <2>2. h.base = e.base /\ h.content = e.content
    BY <1>5
  <2> QED BY <2>1, <2>2
<1> HIDE DEF h, left
<1>7. heard' = Append(heard, e) /\ e \in Messages /\ heard \in Seq(Messages)
  BY <1>3, <1>5, <1>6 DEF HeardInv
<1>8. /\ heard' \in Seq(Messages) /\ Len(heard') = n + 1 /\ heard'[n + 1] = e
      /\ \A i \in 1..n : heard'[i] = heard[i]
  BY <1>7, AppendProperties
<1>9. ASSUME NEW i \in 1..(n + 1) PROVE heard'[i] = meant[i]
  <2>1. CASE i = n + 1
    BY <1>8, <2>1
  <2>2. CASE i # n + 1
    <3>1. i \in 1..n
      BY <1>1, <2>2
    <3> QED BY <1>8, <3>1 DEF HeardInv
  <2> QED BY <2>1, <2>2
<1>10. n + 1 <= k
  BY <1>1, <1>4
<1>11. PICK r : Cuts(r, left, t) /\ Left(r, meant, n + 1)
  BY <1>5
<1>12. Hearing(r)'
  <2>1. Pending' = Pending
    BY <1>3 DEF Pending
  <2> QED BY <1>2, <1>3, <1>11, <2>1 DEF Hearing
<1> QED BY <1>3, <1>8, <1>9, <1>10, <1>11, <1>12 DEF HeardInv

LEMMA HeardNext ==
  ASSUME TypeInv, HeardInv, [Next]_vars
  PROVE  HeardInv'
<1>1. CASE /\ phase \in {"hello", "writeTimedMessage"}
           /\ (\E e : Writing(e)) \/ (HelloNotClosed /\ phase = "hello")
  <2>1. CASE \E e : Writing(e)
    BY <1>1, <2>1, HeardWriting
  <2>2. CASE HelloNotClosed /\ phase = "hello"
    BY <2>2, HeardKept DEF HelloNotClosed, Pending
  <2> QED BY <1>1, <2>1, <2>2
<1>2. CASE WriteBody
  <2> DEFINE b == Bytes(body, 0, base_message.size)
  <2>1. PICK all, t : /\ Cuts(all, toServer, t) /\ (up => t = Pending)
                      /\ Left(all, meant, Len(heard))
    BY DEF HeardInv, Hearing
  <2>2. /\ phase = "writeBody" /\ phase' = "available"
        /\ toServer' = IF up THEN toServer \o b ELSE toServer
        /\ UNCHANGED <<up, meant, heard>>
    BY <1>2 DEF WriteBody
  <2>3. Pending = b /\ Pending' = <<>>
    BY <2>2 DEF Pending
  <2> HIDE DEF b
  <2>4. Hearing(all)'
    <3>1. CASE up
      <4>1. toServer \in Seq(Byte) /\ b \in Seq(Byte) /\ all = toServer \o b
        BY <2>1, <2>3, <3>1 DEF Cuts
      <4>2. all \in Seq(Byte) /\ all \o <<>> = all /\ <<>> \in Seq(Byte)
        BY <4>1, Concat
      <4>3. toServer' = all
        BY <2>2, <3>1, <4>1
      <4>4. Cuts(all, toServer', <<>>)
        BY <4>2, <4>3 DEF Cuts
      <4> QED BY <2>3, <4>4 DEF Hearing
    <3>2. CASE ~up
      BY <2>1, <2>2, <3>2 DEF Hearing
    <3> QED BY <3>1, <3>2
  <2> QED BY <2>1, <2>2, <2>4 DEF HeardInv
<1>3. CASE Reset
  <2>1. PICK all, t : /\ Cuts(all, toServer, t) /\ (up => t = Pending)
                      /\ Left(all, meant, Len(heard))
    BY DEF HeardInv, Hearing
  <2>2. PICK n \in 0..Len(toServer) : toServer' = SubSeq(toServer, 1, n)
    BY <1>3 DEF Reset
  <2>3. ~up' /\ UNCHANGED <<meant, heard>>
    BY <1>3 DEF Reset
  <2>4. Cuts(toServer, toServer', SubSeq(toServer, n + 1, Len(toServer)))
    BY <2>2, HeadAndRest DEF TypeInv
  <2>5. PICK u : Cuts(all, toServer', u)
    BY <2>1, <2>4, CutsMore
  <2>6. Hearing(all)'
    BY <2>3, <2>5 DEF Hearing
  <2> QED BY <2>1, <2>3, <2>6 DEF HeardInv
<1>4. CASE ServerRead
  BY <1>4, HeardReading
<1>5. CASE \E e : Sending(e)
  BY <1>5, HeardKept DEF Sending, client, Pending
<1>6. CASE Arrive \/ Available \/ ReadBaseMessage \/ WaitForData \/ ReadData
           \/ NoTimedMessage
  BY <1>6, HeardKept DEF Arrive, Available, ReadBaseMessage, WaitForData, ReadData,
                         NoTimedMessage, client, Pending
<1>7. CASE HandleCodecHeader \/ HandleWireChunk \/ HandleServerSettings \/ HandleTime
           \/ HandleOther
  BY <1>7, HeardKept DEF HandleCodecHeader, HandleWireChunk, HandleServerSettings,
                         HandleTime, HandleOther, Handled, Crashes, Pending
<1>8. CASE UNCHANGED vars
  BY <1>8, HeardKept DEF vars, client, Pending
<1> QED BY Steps, <1>1, <1>2, <1>3, <1>4, <1>5, <1>6, <1>7, <1>8

LEMMA HeardAlways == Spec => []HeardInv
<1>1. Init => HeardInv
  BY HeardInit
<1>2. TypeInv /\ HeardInv /\ [Next]_vars => HeardInv'
  BY HeardNext
<1> QED BY <1>1, <1>2, TypeAlways, PTL DEF Spec

(* The server reads the messages of the client as they were written, in    *)
(* their order, wherever the connection ends, between the two writes of    *)
(* writeHallo() and writeMessage() too; while it holds and the client is   *)
(* not between them, what the server waits for is there already.  A hello  *)
(* it reads ends with a brace, and is all of the text when that fits.      *)
THEOREM HeardMeansMeant == Spec => []HeardIsMeant
<1>1. TypeInv /\ HeardInv => HeardIsMeant
  <2> SUFFICES ASSUME TypeInv, HeardInv PROVE HeardIsMeant
    OBVIOUS
  <2> DEFINE n == Len(heard)
             k == Len(meant)
             s == SubSeq(meant, 1, n)
  <2>1. /\ n \in Nat /\ k \in Nat /\ n <= k /\ heard \in Seq(Messages)
        /\ meant \in Seq(Messages) /\ \A i \in 1..n : heard[i] = meant[i]
    BY DEF HeardInv, Talk
  <2>2. s = heard
    <3>1. \A i \in 1..n : meant[i] \in Messages
      <4>1. \A i \in 1..k : meant[i] \in Messages
        BY <2>1, LenProperties
      <4> QED BY <2>1, <4>1
    <3>2. 1 \in Int /\ n \in Int
      BY <2>1
    <3>3. /\ s \in Seq(Messages) /\ Len(s) = (IF 1 <= n THEN n - 1 + 1 ELSE 0)
          /\ \A i \in 1..(n - 1 + 1) : s[i] = meant[1 + i - 1]
      BY <3>1, <3>2, SubSeqProperties
    <3> HIDE DEF s
    <3>4. Len(s) = n
      <4> HIDE DEF n
      <4> QED BY <2>1, <3>3
    <3>5. ASSUME NEW i \in 1..n PROVE s[i] = heard[i]
      <4>1. i \in 1..(n - 1 + 1) /\ 1 + i - 1 = i
        <5> HIDE DEF n
        <5> QED BY <2>1
      <4> QED BY <2>1, <3>3, <4>1
    <3> QED BY <2>1, <3>3, <3>4, <3>5, SeqEqual
  <2>3. SE!IsPrefix(heard, meant)
    <3>1. SubSeq(heard, 1, n) = heard
      BY <2>1, SubSeqFull
    <3> QED BY <2>1, <2>2, <3>1 DEF SE!IsPrefix
  <2>4. ASSUME up, phase # "writeBody", heard # meant PROVE Len(toServer) >= MessageSize
    <3>1. n < k
      <4> SUFFICES ASSUME n = k PROVE FALSE
        BY <2>1
      <4>1. heard = meant
        BY <2>1, SeqEqual
      <4> QED BY <2>4, <4>1
    <3>2. PICK all, t : Cuts(all, toServer, t) /\ (up => t = Pending) /\ Left(all, meant, n)
      BY DEF HeardInv, Hearing
    <3>3. t = <<>>
      BY <2>4, <3>2 DEF Pending
    <3> QED BY <3>1, <3>2, <3>3, NextIsHeard
  <2>5. \A i \in 1..n : heard[i].base.type = HELLO => Closed(heard[i].content)
    <3>1. \A i \in 1..n : i \in 1..k
      BY <2>1
    <3> QED BY <2>1, <3>1 DEF HeardInv
  <2> QED BY <2>3, <2>4, <2>5 DEF HeardIsMeant
<1> QED BY <1>1, TypeAlways, HeardAlways, PTL
=============================================================================
