------------------------- MODULE SnapTimeSyncProofs -------------------------
(***************************************************************************)
(* Theorems about SnapTimeSync, for every interval, width and clock: the   *)
(* types, that an adjustment of the speed never uses an update twice, and  *)
(* that the speed is one at which the clock that is measured can run.      *)
(***************************************************************************)
EXTENDS SnapTimeSync, SnapTimeProofs

Point == [local_ms : 0..(W - 1), server_ms : 0..(W - 1)]
Factor == [num : 1..(W - 1), den : 1..(W - 1)]

(* The types, with what getFactor() needs of the variants. *)
TypeInv ==
  /\ TypeOK
  /\ Variant \in {"Dynamic", "SinceStart"}
  /\ Variant = "SinceStart" => Len(time_points) = 2

LEMMA TimePointType ==
  ASSUME TypeInv
  PROVE  TimePoint \in Point
<1>1. StartMillis \in Int /\ ServerStart \in Int /\ now \in Int /\ server \in Int
  BY TimeSyncAssumption, WAssumption DEF TypeInv, TypeOK
<1>2. StartMillis + now \in Int /\ ServerStart + server \in Int
  BY <1>1
<1> QED BY <1>2, Wraps DEF TimePoint, Point, millis

(* The factor of two points is one, or a fraction of two spans that are    *)
(* not zero.                                                               *)
LEMMA FactorType ==
  ASSUME TypeInv
  PROVE  getFactor \in Factor
<1> DEFINE first  == time_points[1]
           last   == time_points[Len(time_points)]
           local  == span(last.local_ms, first.local_ms)
           remote == span(last.server_ms, first.server_ms)
<1>1. One \in Factor
  BY WAssumption DEF One, Factor
<1>2. CASE (Variant = "Dynamic" /\ Len(time_points) <= 2) \/ local = 0 \/ remote = 0
  BY <1>1, <1>2 DEF getFactor
<1>3. CASE ~((Variant = "Dynamic" /\ Len(time_points) <= 2) \/ local = 0 \/ remote = 0)
  <2>1. time_points \in Seq(Point) /\ Len(time_points) >= 2
    <3>1. time_points \in Seq(Point)
      BY DEF TypeInv, TypeOK, Point
    <3>2. Len(time_points) \in Nat
      BY <3>1
    <3>3. Variant = "Dynamic" \/ Len(time_points) = 2
      BY DEF TypeInv
    <3>4. Variant = "Dynamic" => ~(Len(time_points) <= 2)
      BY <1>3
    <3> DEFINE n == Len(time_points)
    <3>5. n \in Nat /\ (Variant = "Dynamic" \/ n = 2) /\ (Variant = "Dynamic" => ~(n <= 2))
      BY <3>2, <3>3, <3>4
    <3> HIDE DEF n
    <3>6. n >= 2
      BY <3>5
    <3> QED BY <3>1, <3>6 DEF n
  <2>2. first \in Point /\ last \in Point
    BY <2>1
  <2>3. /\ first.local_ms \in Int /\ last.local_ms \in Int
        /\ first.server_ms \in Int /\ last.server_ms \in Int
    BY <2>2, WAssumption DEF Point
  <2>4. /\ last.local_ms - first.local_ms \in Int
        /\ last.server_ms - first.server_ms \in Int
    BY <2>3
  <2>5. local \in 0..(W - 1) /\ remote \in 0..(W - 1)
    BY <2>4, Wraps DEF span
  <2>6. local \in 1..(W - 1) /\ remote \in 1..(W - 1)
    BY <1>3, <2>5, WAssumption
  <2>7. getFactor = [num |-> remote, den |-> local]
    BY <1>3 DEF getFactor
  <2> HIDE DEF local, remote
  <2> QED BY <2>6, <2>7 DEF Factor
<1> QED BY <1>2, <1>3

(* The window of points never grows beyond interval. *)
LEMMA LatestType ==
  ASSUME NEW points \in Seq(Point), Len(points) <= interval, NEW point \in Point
  PROVE  Latest(points, point) \in Seq(Point) /\ Len(Latest(points, point)) <= interval
<1>1. interval \in Nat /\ interval > 0
  BY TimeSyncAssumption
<1>2. CASE Len(points) >= interval
  <2>1. points # <<>> /\ Tail(points) \in Seq(Point) /\ Len(Tail(points)) = Len(points) - 1
    BY <1>1, <1>2
  <2>2. Latest(points, point) = Append(Tail(points), point)
    BY <1>2 DEF Latest
  <2> QED BY <1>1, <2>1, <2>2
<1>3. CASE ~(Len(points) >= interval)
  <2>1. Latest(points, point) = Append(points, point)
    BY <1>3 DEF Latest
  <2> QED BY <1>1, <1>3, <2>1
<1> QED BY <1>2, <1>3

(* Init satisfies the types and every step keeps them. *)
LEMMA TypeInit ==
  ASSUME Init
  PROVE  TypeInv
<1>1. Variant \in {"Dynamic", "SinceStart"}
  BY TimeSyncAssumption DEF Init
<1>2. factor \in Factor
  BY WAssumption DEF Init, One, Factor
<1>3. Unset \in Point
  BY WAssumption, TimeSyncAssumption DEF Unset, Point
<1>4. /\ time_points \in Seq(Point)
      /\ Len(time_points) <= IF Variant = "Dynamic" THEN interval ELSE 2
      /\ Variant = "SinceStart" => Len(time_points) = 2
  <2>1. CASE Variant = "Dynamic"
    <3>1. time_points = <<>> /\ interval \in Nat
      BY <2>1, TimeSyncAssumption DEF Init
    <3> QED BY <2>1, <3>1
  <2>2. CASE Variant = "SinceStart"
    <3>1. time_points = <<Unset, Unset>>
      BY <2>2 DEF Init
    <3> QED BY <1>3, <2>2, <3>1
  <2> QED BY <1>1, <2>1, <2>2
<1>5. /\ update_count \in 0..updates /\ since \in 0..updates
      /\ {now, server, updates} \subseteq Nat
  BY DEF Init
<1>6. active \in BOOLEAN /\ is_sync_started \in BOOLEAN
  BY DEF Init
<1> QED BY <1>1, <1>2, <1>4, <1>5, <1>6 DEF TypeInv, TypeOK, Point, Factor

(* An update counts, whatever the variant does with the point. *)
LEMMA UpdateType ==
  ASSUME TypeInv, Update
  PROVE  /\ update_count' \in 0..updates'
         /\ since' \in 0..updates'
         /\ active' \in BOOLEAN /\ is_sync_started' \in BOOLEAN
         /\ factor' \in Factor
         /\ {now', server', updates'} \subseteq Nat
         /\ Variant' = Variant
<1>1. /\ update_count' \in 0..updates' /\ since' \in 0..updates'
      /\ updates' \in Nat
  BY DEF TypeInv, TypeOK, Update
<1>2. active' \in BOOLEAN /\ is_sync_started' \in BOOLEAN /\ Variant' = Variant
  BY DEF TypeInv, TypeOK, Update
<1>3. factor' \in Factor /\ now' \in Nat /\ server' \in Nat
  BY DEF TypeInv, TypeOK, Update, Factor
<1> QED BY <1>1, <1>2, <1>3

LEMMA TypeNext ==
  ASSUME TypeInv, [Next]_vars
  PROVE  TypeInv'
<1>1. /\ time_points \in Seq(Point)
      /\ Len(time_points) <= IF Variant = "Dynamic" THEN interval ELSE 2
      /\ factor \in Factor
  BY DEF TypeInv, TypeOK, Point, Factor
<1>2. CASE UpdateServerTimeDynamic
  <2>1. Variant = "Dynamic" /\ Update /\ time_points' = Latest(time_points, TimePoint)
    BY <1>2 DEF UpdateServerTimeDynamic
  <2>2. time_points' \in Seq(Point) /\ Len(time_points') <= interval
    BY <1>1, <2>1, LatestType, TimePointType
  <2> QED BY <2>1, <2>2, UpdateType DEF TypeInv, TypeOK, Point, Factor
<1>3. CASE UpdateServerTimeSinceStart
  <2>1. /\ Variant = "SinceStart" /\ Update
        /\ time_points' = FirstAndLast(time_points, TimePoint)
    BY <1>3 DEF UpdateServerTimeSinceStart
  <2>2. Len(time_points) = 2
    BY <2>1 DEF TypeInv
  <2>3. time_points[1] \in Point /\ TimePoint \in Point
    BY <1>1, <2>2, TimePointType
  <2>4. time_points' \in Seq(Point) /\ Len(time_points') = 2
    BY <2>1, <2>3 DEF FirstAndLast
  <2> QED BY <2>1, <2>4, UpdateType DEF TypeInv, TypeOK, Point, Factor
<1>4. CASE Begin
  <2>1. getFactor \in Factor
    BY FactorType
  <2> QED BY <1>4, <2>1 DEF Begin, TypeInv, TypeOK, Factor
<1>5. CASE StartPlayback
  <2>1. getFactor \in Factor
    BY FactorType
  <2>2. factor' \in Factor /\ is_sync_started' \in BOOLEAN
    BY <1>1, <1>5, <2>1 DEF StartPlayback, TypeInv, TypeOK
  <2>3. update_count' \in 0..updates' /\ since' \in 0..updates'
    BY <1>5 DEF StartPlayback, TypeInv, TypeOK
  <2> QED BY <1>5, <2>2, <2>3 DEF StartPlayback, TypeInv, TypeOK, Factor
<1>6. CASE Synchronize
  <2>1. getFactor \in Factor
    BY FactorType
  <2>2. factor' \in Factor
    BY <1>1, <1>6, <2>1 DEF Synchronize
  <2>3. since' \in 0..updates'
    BY <1>6 DEF Synchronize, TypeInv, TypeOK
  <2> QED BY <1>6, <2>2, <2>3 DEF Synchronize, TypeInv, TypeOK, Factor
<1>7. CASE Tick
  <2>1. now' \in Nat /\ server' \in Nat
    BY <1>7, TimeSyncAssumption DEF Tick, TypeInv, TypeOK
  <2> QED BY <1>7, <2>1 DEF Tick, TypeInv, TypeOK
<1>8. CASE UNCHANGED vars
  BY <1>8 DEF vars, TypeInv, TypeOK
<1> QED BY <1>2, <1>3, <1>4, <1>5, <1>6, <1>7, <1>8 DEF Next

(* Every variable keeps its type; the points never outgrow their window    *)
(* and the factor is never a division by zero.                             *)
THEOREM TypeCorrect == Spec => []TypeOK
<1>1. TypeInv => TypeOK
  BY DEF TypeInv
<1> QED BY <1>1, TypeInit, TypeNext, PTL DEF Spec

-----------------------------------------------------------------------------
(* At the last adjustment the count was a multiple of interval, or it has  *)
(* been reset since; and unless it was reset, active means that an update  *)
(* has come since.                                                         *)
SyncInv ==
  /\ \E k \in Nat : update_count = k * interval + since
  /\ active /\ since = 0 => update_count = 0

(* When it is time for an adjustment there have been interval updates: a   *)
(* multiple of interval lies between two multiples of it.                  *)
LEMMA EnoughUpdates ==
  ASSUME TypeInv, SyncInv, isSync
  PROVE  since >= interval
<1>1. since \in Nat /\ update_count \in Nat /\ interval \in Nat /\ interval > 0
  BY TimeSyncAssumption DEF TypeInv, TypeOK
<1>2. PICK k \in Nat : update_count = k * interval + since
  BY DEF SyncInv
<1>3. active /\ update_count > 2 /\ update_count % interval = 0
  BY DEF isSync
<1>4. since # 0
  BY <1>1, <1>3 DEF SyncInv
<1> DEFINE d == update_count \div interval
<1>5. d \in Int /\ update_count = d * interval
  BY <1>1, <1>3
<1> HIDE DEF d
<1>6. since = (d - k) * interval
  BY <1>1, <1>2, <1>5
<1>7. CASE d - k <= 0
  <2>1. (d - k) * interval <= 0
    BY <1>1, <1>2, <1>5, <1>7
  <2> QED BY <1>1, <1>4, <1>6, <2>1
<1>8. CASE d - k >= 1
  <2>1. (d - k) * interval >= interval
    BY <1>1, <1>2, <1>5, <1>8
  <2> QED BY <1>6, <2>1
<1> QED BY <1>2, <1>5, <1>7, <1>8

LEMMA SyncNext ==
  ASSUME TypeInv, SyncInv, [Next]_vars
  PROVE  SyncInv'
<1>1. since \in Nat /\ update_count \in Nat /\ interval \in Nat
  BY TimeSyncAssumption DEF TypeInv, TypeOK
<1>2. PICK k \in Nat : update_count = k * interval + since
  BY DEF SyncInv
<1>3. CASE Update
  <2>1. update_count' = update_count + 1 /\ since' = since + 1
    BY <1>3 DEF Update
  <2>2. k * interval \in Nat
    BY <1>1
  <2>3. update_count' = k * interval + since'
    BY <1>1, <1>2, <2>1, <2>2
  <2>4. since' # 0
    BY <1>1, <2>1
  <2> QED BY <2>3, <2>4 DEF SyncInv
<1>4. CASE UNCHANGED <<update_count, active, since>>
  BY <1>4 DEF SyncInv
<1>5. CASE StartPlayback
  <2>1. update_count' = 0 /\ since' = 0
    BY <1>5 DEF StartPlayback
  <2>2. update_count' = 0 * interval + since'
    BY <1>1, <2>1
  <2> QED BY <2>1, <2>2 DEF SyncInv
<1>6. CASE Synchronize
  <2>1. active' = FALSE /\ update_count' = update_count
    BY <1>6 DEF Synchronize
  <2>2. CASE isSync
    <3>1. since' = 0 /\ update_count % interval = 0
      BY <1>6, <2>2 DEF Synchronize, isSync
    <3>2. interval > 0
      BY TimeSyncAssumption
    <3> DEFINE d == update_count \div interval
    <3>3. d \in Nat /\ update_count = d * interval
      BY <1>1, <3>1, <3>2
    <3> HIDE DEF d
    <3>4. update_count' = d * interval + since'
      BY <1>1, <2>1, <3>1, <3>3
    <3> QED BY <2>1, <3>3, <3>4 DEF SyncInv
  <2>3. CASE ~isSync
    <3>1. since' = since
      BY <1>6, <2>3 DEF Synchronize
    <3> QED BY <1>2, <2>1, <3>1 DEF SyncInv
  <2> QED BY <2>2, <2>3
<1> QED BY <1>3, <1>4, <1>5, <1>6 DEF Next, UpdateServerTimeDynamic,
        UpdateServerTimeSinceStart, Begin, Tick, vars

(* No update is used for two adjustments, nor one from before the start of *)
(* the playback.                                                           *)
THEOREM AdjustmentsAreSpaced == Spec => SyncSpaced
<1>1. Init => TypeInv /\ SyncInv
  <2>1. Init => update_count = 0 * interval + since /\ update_count = 0
    BY TimeSyncAssumption DEF Init
  <2> QED BY <2>1, TypeInit DEF SyncInv
<1>2. TypeInv /\ SyncInv /\ [Next]_vars => (TypeInv /\ SyncInv)'
  BY TypeNext, SyncNext
<1>3. ASSUME TypeInv, SyncInv, [Next]_vars
      PROVE  [is_sync_started /\ since' < since => since >= interval]_vars
  <2> SUFFICES ASSUME is_sync_started, since' < since PROVE since >= interval
    BY DEF vars
  <2>1. since \in Nat
    BY <1>3 DEF TypeInv, TypeOK
  <2>2. ~StartPlayback
    BY DEF StartPlayback
  <2>3. ~Update
    <3>1. Update => since' = since + 1
      BY DEF Update
    <3> QED BY <2>1, <3>1
  <2>4. since' # since
    BY <2>1
  <2>5. Synchronize
    BY <1>3, <2>2, <2>3, <2>4 DEF Next, UpdateServerTimeDynamic,
       UpdateServerTimeSinceStart, Begin, Tick, vars
  <2>6. isSync
    BY <2>4, <2>5 DEF Synchronize
  <2> QED BY <1>3, <2>6, EnoughUpdates
<1> QED BY <1>1, <1>2, <1>3, PTL DEF Spec, SyncSpaced

-----------------------------------------------------------------------------
(* From a to b the clock that is measured has not run slower than some of  *)
(* ServerSteps, nor faster than some.                                      *)
Ran(a, b) ==
  /\ b.now - a.now \in Nat /\ b.server - a.server \in Nat
  /\ \E slow, fast \in ServerSteps :
       /\ slow * (b.now - a.now) <= b.server - a.server
       /\ b.server - a.server <= fast * (b.now - a.now)

PointAt(c) == [local_ms  |-> uint32(StartMillis + c.now),
               server_ms |-> uint32(ServerStart + c.server)]

ClocksRec == [now : Nat, server : Nat]

(* The points are what the clocks were when they were taken, but for those *)
(* that are not set before the first update.                               *)
Matched ==
  \/ \A i \in 1..Len(taken) : time_points[i] = PointAt(taken[i])
  \/ /\ Variant = "SinceStart" /\ update_count = 0
     /\ time_points[1] = Unset /\ time_points[2] = Unset

TakenInv ==
  /\ taken \in Seq(ClocksRec) /\ Len(taken) = Len(time_points)
  /\ \A i \in 1..Len(taken) : Ran(taken[i], Clocks) /\ Ran(taken[i], taken[Len(taken)])
  /\ Matched

LEMMA Constants ==
  /\ W \in Nat /\ W > 1 /\ StartMillis \in Nat /\ ServerStart \in Nat
  /\ interval \in Nat /\ interval > 0 /\ ServerSteps # {}
  /\ \A step \in ServerSteps : step \in Nat
BY WAssumption, TimeSyncAssumption

LEMMA RanNothing == \A a \in ClocksRec : Ran(a, a)
<1> TAKE a \in ClocksRec
<1>1. PICK step \in ServerSteps : step \in Nat
  BY Constants
<1>2. a.now - a.now = 0 /\ a.server - a.server = 0
  BY DEF ClocksRec
<1>3. step * 0 = 0
  BY <1>1
<1> QED BY <1>1, <1>2, <1>3 DEF Ran

(* The slowest and the fastest step so far bound the clock after one more. *)
LEMMA RanTick ==
  ASSUME NEW a \in ClocksRec, NEW b \in ClocksRec, Ran(a, b),
         NEW c \in ClocksRec, NEW step \in ServerSteps,
         c.now = b.now + 1, c.server = b.server + step
  PROVE  Ran(a, c)
<1> DEFINE n == b.now - a.now
           s == b.server - a.server
<1>1. PICK slow \in ServerSteps, fast \in ServerSteps : slow * n <= s /\ s <= fast * n
  BY DEF Ran
<1>2. n \in Nat /\ s \in Nat /\ slow \in Nat /\ fast \in Nat /\ step \in Nat
  BY Constants DEF Ran
<1>3. c.now - a.now = n + 1 /\ c.server - a.server = s + step
  BY <1>2 DEF ClocksRec
<1> HIDE DEF n, s
<1>4. PICK low \in ServerSteps : low <= slow /\ low <= step
  BY <1>2
<1>5. PICK high \in ServerSteps : fast <= high /\ step <= high
  BY <1>2
<1>6. low \in Nat /\ high \in Nat
  BY Constants
<1>7. low * (n + 1) <= s + step
  <2>1. low * n <= slow * n
    BY <1>2, <1>4, <1>6
  <2>2. low * (n + 1) = low * n + low
    BY <1>2, <1>6
  <2> QED BY <1>1, <1>2, <1>4, <1>6, <2>1, <2>2
<1>8. s + step <= high * (n + 1)
  <2>1. fast * n <= high * n
    BY <1>2, <1>5, <1>6
  <2>2. high * (n + 1) = high * n + high
    BY <1>2, <1>6
  <2> QED BY <1>1, <1>2, <1>5, <1>6, <2>1, <2>2
<1> QED BY <1>2, <1>3, <1>7, <1>8 DEF Ran

(* A span of two clocks that differ by less than W is their difference,    *)
(* though each of them has wrapped.                                        *)
LEMMA SpanIsDifference ==
  ASSUME NEW o \in Int, NEW x \in Int, NEW y \in Int, y - x \in Nat, y - x < W
  PROVE  span(uint32(o + y), uint32(o + x)) = y - x
<1>1. /\ uint32(o + y) \in Int /\ Congruent(uint32(o + y), o + y)
      /\ uint32(o + x) \in Int /\ Congruent(uint32(o + x), o + x)
  BY Wraps, Constants
<1>2. Congruent(uint32(o + y) - uint32(o + x), (o + y) - (o + x))
  BY <1>1, CongruentSum
<1>3. Congruent(uint32(o + y) - uint32(o + x), y - x)
  BY <1>2
<1>4. uint32(uint32(o + y) - uint32(o + x)) = uint32(y - x)
  BY <1>1, <1>3, SameResidue
<1>5. uint32(y - x) = y - x
  BY Constants DEF uint32
<1> QED BY <1>4, <1>5 DEF span

(* The factor is the rate of the first point and the last.                 *)
LEMMA FactorOfTaken ==
  ASSUME TypeInv, TakenInv, taken # <<>>, SpanFits
  PROVE  FactorIsSpeed
<1> DEFINE k == Len(taken)
           a == taken[1]
           b == taken[k]
           local  == span(time_points[k].local_ms, time_points[1].local_ms)
           remote == span(time_points[k].server_ms, time_points[1].server_ms)
<1> SUFFICES \E slow, fast \in ServerSteps \cup {1} :
               slow * getFactor.den <= getFactor.num /\ getFactor.num <= fast * getFactor.den
  BY DEF FactorIsSpeed
<1>1. CASE getFactor = One
  BY <1>1 DEF One
<1>2. CASE getFactor # One
  <2>1. taken \in Seq(ClocksRec) /\ k = Len(time_points)
    BY DEF TakenInv
  <2>2. k \in Nat /\ k >= 1
    BY <2>1
  <2>3. a \in ClocksRec /\ b \in ClocksRec
    BY <2>1, <2>2
  <2>4. Ran(a, b)
    BY <2>2 DEF TakenInv
  <2>5. getFactor = [num |-> remote, den |-> local] /\ local # 0
    BY <1>2, <2>1 DEF getFactor
  <2>6. CASE \A i \in 1..Len(taken) : time_points[i] = PointAt(taken[i])
    <3>1. time_points[1] = PointAt(a) /\ time_points[k] = PointAt(b)
      BY <2>2, <2>6
    <3>2. /\ a.now \in Int /\ b.now \in Int /\ a.server \in Int /\ b.server \in Int
          /\ b.now - a.now \in Nat /\ b.server - a.server \in Nat
      BY <2>3, <2>4 DEF ClocksRec, Ran
    <3>3. b.now - a.now < W /\ b.server - a.server < W
      BY DEF SpanFits
    <3>4. /\ local = span(uint32(StartMillis + b.now), uint32(StartMillis + a.now))
          /\ remote = span(uint32(ServerStart + b.server), uint32(ServerStart + a.server))
      BY <3>1 DEF PointAt
    <3>5. StartMillis \in Int /\ ServerStart \in Int
      BY Constants
    <3> HIDE DEF a, b, local, remote
    <3>6. local = b.now - a.now
      BY <3>2, <3>3, <3>4, <3>5, SpanIsDifference
    <3>7. remote = b.server - a.server
      BY <3>2, <3>3, <3>4, <3>5, SpanIsDifference
    <3> QED BY <2>4, <2>5, <3>6, <3>7 DEF Ran
  <2>7. CASE /\ Variant = "SinceStart" /\ update_count = 0
             /\ time_points[1] = Unset /\ time_points[2] = Unset
    <3>1. k = 2
      BY <2>1, <2>7 DEF TypeInv
    <3>2. local = 0
      <4>1. local = uint32(StartMillis - StartMillis)
        BY <2>7, <3>1 DEF Unset, span
      <4>2. StartMillis - StartMillis = 0 /\ W \in Nat /\ W > 0
        BY Constants
      <4> QED BY <4>1, <4>2 DEF uint32
    <3> QED BY <2>5, <3>2
  <2> QED BY <2>6, <2>7 DEF TakenInv, Matched
<1> QED BY <1>1, <1>2

(* The points taken are clocks of the past, as they were, when the last    *)
(* one is now.                                                             *)
LEMMA TakenUpdate ==
  ASSUME TypeInv, TakenInv, Update,
         NEW s \in Seq(ClocksRec), s # <<>>, s[Len(s)] = Clocks,
         \A j \in 1..Len(s) : s[j] = Clocks \/ \E i \in 1..Len(taken) : s[j] = taken[i],
         taken' = s
  PROVE  /\ taken' \in Seq(ClocksRec)
         /\ \A i \in 1..Len(taken') : /\ Ran(taken'[i], Clocks')
                                      /\ Ran(taken'[i], taken'[Len(taken')])
<1>1. Clocks' = Clocks
  BY DEF Update, Clocks
<1>2. Clocks \in ClocksRec
  BY DEF TypeInv, TypeOK, Clocks, ClocksRec
<1>3. \A j \in 1..Len(s) : Ran(s[j], Clocks)
  BY <1>2, RanNothing DEF TakenInv
<1> QED BY <1>1, <1>3

LEMMA TakenNext ==
  ASSUME TypeInv, TakenInv, [Next]_vars
  PROVE  TakenInv'
<1> DEFINE k == Len(taken)
<1>1. taken \in Seq(ClocksRec) /\ k = Len(time_points) /\ k \in Nat
  BY DEF TakenInv
<1>2. Clocks \in ClocksRec
  BY DEF TypeInv, TypeOK, Clocks, ClocksRec
<1>3. TimePoint = PointAt(Clocks)
  BY DEF TimePoint, PointAt, Clocks, millis
<1>4. CASE UpdateServerTimeDynamic
  <2>1. /\ Variant = "Dynamic" /\ Update
        /\ time_points' = Latest(time_points, TimePoint)
        /\ taken' = Latest(taken, Clocks)
    BY <1>4 DEF UpdateServerTimeDynamic
  <2>2. \A i \in 1..k : time_points[i] = PointAt(taken[i])
    BY <2>1 DEF TakenInv, Matched
  <2>3. time_points \in Seq(Point)
    BY DEF TypeInv, TypeOK, Point
  <2>4. /\ Latest(taken, Clocks) \in Seq(ClocksRec)
        /\ Latest(taken, Clocks) # <<>>
        /\ Latest(taken, Clocks)[Len(Latest(taken, Clocks))] = Clocks
        /\ \A j \in 1..Len(Latest(taken, Clocks)) :
             \/ Latest(taken, Clocks)[j] = Clocks
             \/ \E i \in 1..Len(taken) : Latest(taken, Clocks)[j] = taken[i]
        /\ Len(taken') = Len(time_points')
        /\ \A j \in 1..Len(taken') : time_points'[j] = PointAt(taken'[j])
    <3> DEFINE old == IF k >= interval THEN Tail(taken) ELSE taken
               oldPoints == IF k >= interval THEN Tail(time_points) ELSE time_points
               n == Len(old)
               p == TimePoint
               c == Clocks
    <3>1. taken' = Append(old, c) /\ time_points' = Append(oldPoints, p)
          /\ Latest(taken, Clocks) = taken'
      BY <1>1, <2>1 DEF Latest
    <3>2. p \in Point
      BY TimePointType
    <3>3. /\ old \in Seq(ClocksRec) /\ oldPoints \in Seq(Point)
          /\ n = Len(oldPoints) /\ n \in Nat
          /\ \A j \in 1..n : \E i \in 1..k : old[j] = taken[i] /\ oldPoints[j] = time_points[i]
      <4>1. CASE k >= interval
        <5>1. taken # <<>> /\ time_points # <<>>
          BY <1>1, <4>1, Constants
        <5>2. /\ old = Tail(taken) /\ oldPoints = Tail(time_points)
              /\ old \in Seq(ClocksRec) /\ oldPoints \in Seq(Point)
          BY <1>1, <2>3, <4>1, <5>1
        <5>3. n = k - 1 /\ Len(oldPoints) = k - 1
          BY <1>1, <2>3, <5>1, <5>2
        <5>4. ASSUME NEW j \in 1..n
              PROVE  /\ j + 1 \in 1..k
                     /\ old[j] = taken[j + 1] /\ oldPoints[j] = time_points[j + 1]
          <6>1. j + 1 \in 1..k
            BY <1>1, <5>3
          <6>2. old[j] = taken[j + 1]
            BY <1>1, <5>1, <5>2, <5>3
          <6>3. oldPoints[j] = time_points[j + 1]
            BY <1>1, <2>3, <5>1, <5>2, <5>3
          <6> QED BY <6>1, <6>2, <6>3
        <5> QED BY <1>1, <5>1, <5>2, <5>3, <5>4
      <4>2. CASE ~(k >= interval)
        <5>1. old = taken /\ oldPoints = time_points
          BY <4>2
        <5> QED BY <1>1, <2>3, <5>1
      <4> QED BY <4>1, <4>2
    <3> HIDE DEF old, oldPoints, p, c
    <3>4. c \in ClocksRec /\ p = PointAt(c)
      BY <1>2, <1>3 DEF c, p
    <3>5. /\ Append(old, c) \in Seq(ClocksRec) /\ Len(Append(old, c)) = n + 1
          /\ Append(old, c)[n + 1] = c
          /\ \A j \in 1..n : Append(old, c)[j] = old[j]
      BY <3>3, <3>4
    <3>6. /\ Len(Append(oldPoints, p)) = n + 1
          /\ Append(oldPoints, p)[n + 1] = p
          /\ \A j \in 1..n : Append(oldPoints, p)[j] = oldPoints[j]
      BY <3>2, <3>3
    <3>7. \A j \in 1..(n + 1) : j \in 1..n \/ j = n + 1
      BY <3>3
    <3>8. \A j \in 1..(n + 1) : \/ Append(old, c)[j] = c
                                \/ \E i \in 1..k : Append(old, c)[j] = taken[i]
      BY <3>3, <3>5, <3>7
    <3>9. \A j \in 1..(n + 1) : Append(oldPoints, p)[j] = PointAt(Append(old, c)[j])
      BY <2>2, <3>3, <3>4, <3>5, <3>6, <3>7
    <3>10. Append(old, c) # <<>>
      <4>1. Len(<<>>) = 0 /\ n + 1 # 0
        BY <3>3
      <4> QED BY <3>5, <4>1
    <3> QED BY <3>1, <3>5, <3>6, <3>8, <3>9, <3>10 DEF c
  <2> HIDE DEF k
  <2>5. /\ taken' \in Seq(ClocksRec)
        /\ \A i \in 1..Len(taken') : /\ Ran(taken'[i], Clocks')
                                     /\ Ran(taken'[i], taken'[Len(taken')])
    BY <2>1, <2>4, TakenUpdate
  <2> QED BY <2>4, <2>5 DEF TakenInv, Matched
<1>5. CASE UpdateServerTimeSinceStart
  <2>1. /\ Variant = "SinceStart" /\ Update
        /\ time_points' = FirstAndLast(time_points, TimePoint)
        /\ taken' = FirstAndLast(taken, Clocks)
    BY <1>5 DEF UpdateServerTimeSinceStart
  <2>2. k = 2 /\ Len(time_points) = 2
    BY <1>1, <2>1 DEF TypeInv
  <2> DEFINE c == IF update_count = 0 THEN Clocks ELSE taken[1]
  <2>3. taken' = <<c, Clocks>> /\ c \in ClocksRec
    BY <1>1, <1>2, <2>1, <2>2 DEF FirstAndLast
  <2>4. time_points' = <<PointAt(c), PointAt(Clocks)>>
    <3>1. update_count # 0 => time_points[1] = PointAt(taken[1])
      BY <2>2 DEF TakenInv, Matched
    <3> QED BY <1>3, <2>1, <3>1 DEF FirstAndLast
  <2>5. c = Clocks \/ c = taken[1]
    OBVIOUS
  <2> HIDE DEF c
  <2>6. /\ taken' \in Seq(ClocksRec) /\ taken' # <<>> /\ Len(taken') = 2
        /\ taken'[1] = c /\ taken'[2] = Clocks
    BY <1>2, <2>3
  <2>7. /\ taken' \in Seq(ClocksRec)
        /\ \A i \in 1..Len(taken') : /\ Ran(taken'[i], Clocks')
                                     /\ Ran(taken'[i], taken'[Len(taken')])
    <3> DEFINE s == <<c, Clocks>>
    <3>1. s \in Seq(ClocksRec) /\ s # <<>> /\ Len(s) = 2 /\ s[1] = c /\ s[2] = Clocks
      BY <1>2, <2>3
    <3>2. \A j \in 1..Len(s) : s[j] = Clocks \/ \E i \in 1..Len(taken) : s[j] = taken[i]
      <4>1. \A j \in 1..2 : j = 1 \/ j = 2
        OBVIOUS
      <4>2. 1 \in 1..Len(taken)
        BY <2>2
      <4> QED BY <2>5, <3>1, <4>1, <4>2
    <3> HIDE DEF s
    <3>3. taken' = s
      BY <2>3 DEF s
    <3> QED BY <2>1, <3>1, <3>2, <3>3, TakenUpdate
  <2>8. \A i \in 1..2 : time_points'[i] = PointAt(taken'[i])
    BY <2>4, <2>6
  <2>9. Len(time_points') = 2
    BY <2>4
  <2> QED BY <2>6, <2>7, <2>8, <2>9 DEF TakenInv, Matched
<1>6. CASE Tick
  <2>1. UNCHANGED <<taken, time_points, Variant, update_count>>
    BY <1>6 DEF Tick
  <2>2. PICK step \in ServerSteps : now' = now + 1 /\ server' = server + step
    BY <1>6 DEF Tick
  <2>3. Clocks'.now = Clocks.now + 1 /\ Clocks'.server = Clocks.server + step
    BY <2>2 DEF Clocks
  <2>4. Clocks' \in ClocksRec
    <3>1. now' \in Nat /\ server' \in Nat
      BY <2>2, Constants DEF TypeInv, TypeOK
    <3> QED BY <3>1 DEF Clocks, ClocksRec
  <2>5. ASSUME NEW i \in 1..k PROVE Ran(taken[i], Clocks')
    <3>1. taken[i] \in ClocksRec /\ Ran(taken[i], Clocks)
      BY <1>1 DEF TakenInv
    <3> DEFINE b == Clocks
               c == Clocks'
    <3>2. b \in ClocksRec /\ c \in ClocksRec /\ Ran(taken[i], b)
          /\ c.now = b.now + 1 /\ c.server = b.server + step
      BY <1>2, <2>3, <2>4, <3>1
    <3> HIDE DEF b, c
    <3>3. Ran(taken[i], c)
      BY <3>1, <3>2, RanTick
    <3> QED BY <3>3 DEF c
  <2> QED BY <2>1, <2>5 DEF TakenInv, Matched
<1>7. CASE Begin \/ StartPlayback \/ Synchronize \/ UNCHANGED vars
  <2>1. UNCHANGED <<taken, time_points, Variant, now, server>>
        /\ (update_count' = update_count \/ update_count' = 0)
    BY <1>7 DEF Begin, StartPlayback, Synchronize, vars
  <2>2. Clocks' = Clocks
    BY <2>1 DEF Clocks
  <2>3. Matched'
    BY <2>1 DEF TakenInv, Matched
  <2> QED BY <2>1, <2>2, <2>3 DEF TakenInv
<1> QED BY <1>4, <1>5, <1>6, <1>7 DEF Next

LEMMA TakenInit ==
  ASSUME Init
  PROVE  TakenInv
<1>1. Clocks = [now |-> 0, server |-> 0] /\ Clocks \in ClocksRec
  BY DEF Init, Clocks, ClocksRec
<1>2. CASE Variant = "Dynamic"
  <2>1. taken = <<>> /\ time_points = <<>>
    BY <1>2 DEF Init
  <2>2. <<>> \in Seq(ClocksRec) /\ Len(<<>>) = 0
    OBVIOUS
  <2> QED BY <2>1, <2>2 DEF TakenInv, Matched
<1>3. CASE Variant = "SinceStart"
  <2>1. taken = <<Clocks, Clocks>> /\ time_points = <<Unset, Unset>> /\ update_count = 0
    BY <1>3 DEF Init
  <2>2. taken \in Seq(ClocksRec) /\ Len(taken) = 2 /\ Len(time_points) = 2
        /\ \A i \in 1..2 : taken[i] = Clocks
        /\ time_points[1] = Unset /\ time_points[2] = Unset
    BY <1>1, <2>1
  <2>3. Ran(Clocks, Clocks)
    BY <1>1, RanNothing
  <2> QED BY <1>3, <2>1, <2>2, <2>3 DEF TakenInv, Matched
<1> QED BY <1>2, <1>3, TimeSyncAssumption DEF Init

(* The playback is never adjusted to a speed at which the clock that is    *)
(* measured cannot run, across the wraps of both clocks, as long as the    *)
(* points it is measured from are less than W apart.                       *)
THEOREM FactorIsARate == Spec => []FactorIsSpeed
<1>1. Init => TypeInv /\ TakenInv
  BY TypeInit, TakenInit
<1>2. TypeInv /\ TakenInv /\ [Next]_vars => (TypeInv /\ TakenInv)'
  BY TypeNext, TakenNext
<1>3. TypeInv /\ TakenInv => FactorIsSpeed
  <2>1. ASSUME TypeInv, TakenInv, taken # <<>>, SpanFits PROVE FactorIsSpeed
    BY <2>1, FactorOfTaken
  <2>2. ~(taken # <<>> /\ SpanFits) => FactorIsSpeed
    BY Zenon DEF FactorIsSpeed
  <2> QED BY <2>1, <2>2
<1> QED BY <1>1, <1>2, <1>3, PTL DEF Spec
=============================================================================
