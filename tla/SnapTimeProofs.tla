--------------------------- MODULE SnapTimeProofs ---------------------------
(***************************************************************************)
(* What the other proofs share: induction, and the arithmetic of SnapTime  *)
(* for every width W of the clocks.                                        *)
(***************************************************************************)
EXTENDS SnapTime, TLAPS, WellFoundedInduction

(***************************************************************************)
(* Induction over the natural numbers, for a set instead of a predicate:   *)
(* a number that is not in T would have a smallest one.                    *)
(***************************************************************************)
LEMMA Induction ==
  ASSUME NEW T, 0 \in T, \A n \in T : n \in Nat => n + 1 \in T
  PROVE  Nat \subseteq T
<1> DEFINE U == Nat \ T
           R == OpToRel(<, Nat)
<1> SUFFICES ASSUME U # {} PROVE FALSE
  OBVIOUS
<1>1. IsWellFoundedOn(R, Nat)
  BY NatLessThanWellFounded
<1> HIDE DEF R
<1>2. PICK x \in U : \A y \in U : ~(<<y, x>> \in R)
  BY <1>1, WFMin, Zenon
<1>3. x \in Nat /\ x # 0
  BY <1>2
<1>4. x - 1 \in Nat /\ (x - 1) + 1 = x
  BY <1>3
<1>5. <<x - 1, x>> \in R
  BY <1>3, <1>4 DEF R, OpToRel
<1>6. x - 1 \in T
  BY <1>2, <1>4, <1>5
<1> QED BY <1>2, <1>4, <1>6

-----------------------------------------------------------------------------
(***************************************************************************)
(* Numbers that differ by a multiple of W are the same uint32_t.           *)
(***************************************************************************)
Congruent(x, y) == \E k \in Int : x = y + k * W

LEMMA CongruentSum ==
  ASSUME NEW x \in Int, NEW y \in Int, NEW u \in Int, NEW v \in Int,
         Congruent(x, y), Congruent(u, v)
  PROVE  Congruent(x + u, y + v) /\ Congruent(x - u, y - v)
<1>1. PICK j \in Int : x = y + j * W
  BY DEF Congruent
<1>2. PICK k \in Int : u = v + k * W
  BY DEF Congruent
<1>3. /\ x + u = (y + v) + (j + k) * W
      /\ x - u = (y - v) + (j - k) * W
  BY <1>1, <1>2, WAssumption
<1> QED BY <1>3 DEF Congruent

LEMMA Wraps ==
  ASSUME NEW x \in Int
  PROVE  uint32(x) \in 0..(W - 1) /\ Congruent(uint32(x), x)
<1>1. uint32(x) \in 0..(W - 1) /\ x \div W \in Int
  BY WAssumption DEF uint32
<1>2. uint32(x) = x + (-(x \div W)) * W
  BY WAssumption DEF uint32
<1> QED BY <1>1, <1>2 DEF Congruent

LEMMA SameUint ==
  ASSUME NEW a \in 0..(W - 1), NEW b \in 0..(W - 1), Congruent(a, b)
  PROVE  a = b
BY WAssumption DEF Congruent

LEMMA SameResidue ==
  ASSUME NEW x \in Int, NEW y \in Int, Congruent(x, y)
  PROVE  uint32(x) = uint32(y)
<1>1. PICK i \in Int : x = y + i * W
  BY DEF Congruent
<1>2. PICK j \in Int : uint32(x) = x + j * W
  BY Wraps DEF Congruent
<1>3. PICK k \in Int : uint32(y) = y + k * W
  BY Wraps DEF Congruent
<1>4. uint32(x) = uint32(y) + (i + j - k) * W
  BY <1>1, <1>2, <1>3, WAssumption
<1>5. Congruent(uint32(x), uint32(y))
  BY <1>4 DEF Congruent
<1> QED BY <1>5, Wraps, SameUint

(* A uint32_t taken as an int is still the same number modulo W. *)
LEMMA SameInt ==
  ASSUME NEW x \in Int
  PROVE  int(x) \in Int /\ Congruent(int(x), x)
<1>1. PICK k \in Int : uint32(x) = x + k * W
  BY Wraps DEF Congruent
<1>2. W \in Int /\ uint32(x) \in Int
  BY Wraps, WAssumption
<1>3. uint32(x) - W = x + (k - 1) * W
  BY <1>1, <1>2
<1> QED BY <1>1, <1>2, <1>3 DEF Congruent, int

(* The values of SnapTime. *)
TimeRec == [server_time : Int, server_ms : 0..(W - 1), time_diff : 0..(W - 1)]

(***************************************************************************)
(* After a reply that was sent at s and handled at the same time h of the  *)
(* client's millis(), the server time is s plus what has passed since.     *)
(***************************************************************************)
LEMMA Extrapolated ==
  ASSUME NEW t \in TimeRec, NEW s \in Int, NEW h \in Int, NEW m \in Int,
         t.server_ms = uint32(h), t.time_diff = uint32(t.server_time - s)
  PROVE  serverMillis(t, uint32(m)) = uint32(s + m - h)
<1> DEFINE d == int(t.time_diff)
           r == t.server_time
<1>0. r \in Int
  BY DEF TimeRec
<1>1. /\ uint32(r) \in Int /\ Congruent(uint32(r), r)
      /\ uint32(h) \in Int /\ Congruent(uint32(h), h)
      /\ uint32(m) \in Int /\ Congruent(uint32(m), m)
  BY <1>0, Wraps
<1>2. d \in Int /\ Congruent(d, r - s)
  <2>1. uint32(r - s) \in Int /\ Congruent(uint32(r - s), r - s)
    BY <1>0, Wraps
  <2>2. d \in Int /\ Congruent(d, uint32(r - s))
    BY <2>1, SameInt
  <2>3. PICK j \in Int : d = uint32(r - s) + j * W
    BY <2>2 DEF Congruent
  <2>4. PICK k \in Int : uint32(r - s) = (r - s) + k * W
    BY <2>1 DEF Congruent
  <2>5. d = (r - s) + (j + k) * W
    BY <1>0, <2>1, <2>2, <2>3, <2>4, WAssumption
  <2> QED BY <2>2, <2>5 DEF Congruent
<1>3. serverMillis(t, uint32(m)) = uint32(uint32(r) - uint32(h) + uint32(m) - d)
  BY DEF serverMillis, toMillis, timeDifferenceClientServerMs
<1> HIDE DEF d, r
<1>4. Congruent(uint32(r) - uint32(h) + uint32(m) - d, r - h + m - (r - s))
  <2>1. Congruent(uint32(r) - uint32(h), r - h)
    BY <1>0, <1>1, CongruentSum
  <2>2. Congruent(uint32(r) - uint32(h) + uint32(m), r - h + m)
    BY <1>0, <1>1, <2>1, CongruentSum
  <2> QED BY <1>0, <1>1, <1>2, <2>2, CongruentSum
<1>5. r - h + m - (r - s) = s + m - h
  BY <1>0
<1>6. Congruent(uint32(r) - uint32(h) + uint32(m) - d, s + m - h)
  BY <1>4, <1>5
<1> QED BY <1>1, <1>2, <1>3, <1>6, SameResidue

(* The int of a number is that number if an int can hold it.               *)
Ints == ((W \div 2) - W)..((W \div 2) - 1)

LEMMA IntInRange ==
  ASSUME NEW x \in Int, NEW v \in Ints, Congruent(x, v)
  PROVE  int(x) = v
<1>1. v \in Int /\ W \div 2 \in Int /\ 2 * (W \div 2) <= W /\ W < 2 * (W \div 2) + 2
  BY WAssumption DEF Ints
<1>2. uint32(x) = uint32(v)
  BY <1>1, SameResidue
<1>3. CASE v >= 0
  <2>1. uint32(v) = v /\ v < W \div 2
    BY <1>1, <1>3, WAssumption DEF uint32, Ints
  <2> QED BY <1>2, <2>1 DEF int
<1>4. CASE v < 0
  <2>1. v + W \in 0..(W - 1) /\ v + W >= W \div 2
    BY <1>1, <1>4, WAssumption DEF Ints
  <2>2. uint32(v) \in 0..(W - 1) /\ Congruent(uint32(v), v)
    BY <1>1, Wraps
  <2>3. uint32(v) = v + W
    <3>1. PICK k \in Int : uint32(v) = v + k * W
      BY <2>2 DEF Congruent
    <3>2. v + W = uint32(v) + (1 - k) * W
      BY <1>1, <3>1, WAssumption
    <3>3. Congruent(v + W, uint32(v))
      BY <3>2 DEF Congruent
    <3> QED BY <2>1, <2>2, <3>3, SameUint
  <2>4. int(x) = uint32(v) - W
    BY <1>1, <1>2, <2>1, <2>3, WAssumption DEF int
  <2> QED BY <1>1, <2>3, <2>4, WAssumption
<1> QED BY <1>1, <1>3, <1>4

(***************************************************************************)
(* What a time reply makes of SnapTime: sent by the server's clock and     *)
(* received by the client's, handled at the given millis().                *)
(***************************************************************************)
Replied(t, received, sent, millis) ==
  setTimeDifferenceClientServerMs(updateServerTime(t, received, millis),
                                  timeDifferenceMs(received, sent))

LEMMA AfterReply ==
  ASSUME NEW t \in TimeRec, NEW received \in Int, NEW sent \in Int,
         NEW millis \in 0..(W - 1)
  PROVE  /\ Replied(t, received, sent, millis) \in TimeRec
         /\ Replied(t, received, sent, millis).server_ms = millis
         /\ Replied(t, received, sent, millis).time_diff
              = uint32(Replied(t, received, sent, millis).server_time - sent)
<1> DEFINE d == timeDifferenceMs(received, sent)
<1>1. uint32(d) = uint32(received - sent)
  <2>1. d = uint32(received - sent)
    BY DEF timeDifferenceMs, toMillis
  <2>2. uint32(received - sent) \in Int /\ Congruent(uint32(received - sent), received - sent)
    BY Wraps, WAssumption
  <2>3. uint32(uint32(received - sent)) = uint32(received - sent)
    BY <2>2, SameResidue
  <2> QED BY <2>1, <2>3
<1>2. uint32(received - sent) \in 0..(W - 1)
  BY Wraps
<1> HIDE DEF d
<1>3. Replied(t, received, sent, millis)
        = [t EXCEPT !.server_ms = millis, !.server_time = received,
                    !.time_diff = uint32(received - sent)]
  BY <1>1 DEF Replied, setTimeDifferenceClientServerMs, updateServerTime, TimeRec, d
<1> QED BY <1>2, <1>3 DEF TimeRec
=============================================================================
