-------------------------- MODULE SnapProcessorProofs --------------------------
(***************************************************************************)
(* Theorems about SnapProcessor, for every width W of the clocks, every    *)
(* start of them, window, chunk size and set of messages: the client says  *)
(* hello once and first, its server time is the server's clock but for the *)
(* age of the reply, and it asks for the time when it is due.              *)
(***************************************************************************)
EXTENDS SnapProcessor, SnapTimeProofs

(* The messages of all times. *)
AllMessages ==
  [type : {"codec"}, codec : Codecs]
    \cup [type : {"chunk"}, timestamp : Int]
    \cup [type : {"settings"}, settings : Settings]
    \cup [type : Others]
    \cup [type : {"time"}, sent : Int]

Types == {"codec", "chunk", "settings", "time"} \cup Others

(***************************************************************************)
(* The messages of s are n units: e[i] is what the first i of them are.    *)
(***************************************************************************)
Sums(s, n) ==
  \E e \in [0..Len(s) -> Int] :
    /\ e[0] = 0 /\ e[Len(s)] = n
    /\ \A i \in 1..Len(s) : e[i] = e[i - 1] + 1 + Units(s[i])

Pending == IF loop_status = "readData" THEN Units(base_message) ELSE 0

LinkType ==
  /\ conn \in {"none", "up", "closed", "reset"}
  /\ stream \in Seq(AllMessages)
  /\ inflight \in Nat /\ avail \in Nat /\ avail <= Window
  /\ hellos \in Nat /\ requests \in Nat

(* StreamAligned, with the sum as it can be reasoned about. *)
Streamed ==
  /\ conn \in {"up", "closed"} => Sums(stream, avail + inflight - Pending)
  /\ conn \in {"none", "reset"} => stream = <<>> /\ avail = 0 /\ inflight = 0

LoopInv ==
  /\ loop_status \in Statuses
  /\ base_message \in AllMessages \cup {NoMessage}
  /\ loop_status = "readData" => base_message \in AllMessages
  /\ loop_status \in Types => base_message.type = loop_status
  /\ received \in Int /\ hello_fits \in BOOLEAN
  /\ now \in Nat /\ now <= MaxTime /\ wall \in WallOffsets
  /\ last_time_sync \in 0..(W - 1)

(* A hello was said on a connection exactly when the loop has left         *)
(* LoopStart, and only a lost connection makes it go back there.           *)
HelloInv ==
  /\ loop_status = "down" => conn = "none"
  /\ conn = "up" /\ loop_status = "LoopStart" => hellos = 0 /\ requests = 0
  /\ conn = "up" /\ loop_status # "LoopStart" => hellos = 1
  /\ loop_status = "LoopEnd" => conn = "reset"
  /\ loop_status = "readBaseMessage" => avail > 0 \/ conn = "reset"

(* No reply is from the future. *)
ReplyInv ==
  /\ \A i \in 1..Len(stream) : stream[i].type = "time" => stream[i].sent <= ServerClock
  /\ base_message.type = "time" => base_message.sent <= ServerClock

(***************************************************************************)
(* The reply handled last was sent at s and handled at tick n.             *)
(***************************************************************************)
LagInv ==
  lag # -1 => \E s \in Int, n \in Nat :
                /\ lag = (StartServer + n) - s /\ lag >= 0
                /\ snap_time.server_ms = uint32(StartMillis + n)
                /\ snap_time.time_diff = uint32(snap_time.server_time - s)

(* When the time was asked for. *)
AskedInv ==
  asked # -1 => /\ asked \in Nat /\ asked <= now
                /\ last_time_sync = uint32(StartMillis + asked)

(* What the handlers keep. *)
OutputRec ==
  [is_audio_begin_called : BOOLEAN, is_sync_started : BOOLEAN,
   vol : 0..100, vol_factor : {1}, vol_stream : Int,
   is_mute : BOOLEAN, header : Int]

HandledType ==
  /\ header_received \in BOOLEAN
  /\ codec_from_server \in {"NO_CODEC"} \cup (Codecs \cap Supported)
  /\ snap_time \in TimeRec /\ output \in OutputRec
  /\ delay \in 0..(U16 - 1)

IInv ==
  /\ LinkType /\ Streamed
  /\ LoopInv
  /\ HelloInv
  /\ ReplyInv
  /\ LagInv
  /\ AskedInv
  /\ HandledType

-----------------------------------------------------------------------------
LEMMA Constants ==
  /\ W \in Nat /\ W > 1 /\ TimeSyncInterval \in Nat /\ TimeSyncInterval > 0
  /\ TimeSyncInterval <= W - 1
  /\ StartMillis \in Nat /\ StartServer \in Nat /\ ChunkUnits \in Nat /\ ChunkUnits > 0
  /\ Window \in Nat /\ MaxTime \in Nat
  /\ Others \subseteq {"tags", "error", "malformed"}
BY WAssumption, SessionAssumption

LEMMA UnitsType ==
  ASSUME NEW m
  PROVE  Units(m) \in Nat /\ Units(m) > 0
BY Constants DEF Units

LEMMA MessageType ==
  ASSUME NEW m \in AllMessages
  PROVE  m.type \in Types /\ (m.type = "time" => m.sent \in Int)
<1>1. CASE m \in [type : {"codec"}, codec : Codecs] \cup [type : {"chunk"}, timestamp : Int]
  BY <1>1, Constants DEF Types
<1>2. CASE m \in [type : {"settings"}, settings : Settings]
  BY <1>2, Constants DEF Types
<1>3. CASE m \in [type : Others]
  BY <1>3, Constants DEF Types
<1>4. CASE m \in [type : {"time"}, sent : Int]
  BY <1>4, Constants DEF Types
<1> QED BY <1>1, <1>2, <1>3, <1>4 DEF AllMessages

(* The units of nothing, of one message more and of one less. *)
LEMMA SumsEmpty == \A n \in Int : Sums(<<>>, n) <=> n = 0
<1> SUFFICES ASSUME NEW n \in Int PROVE Sums(<<>>, n) <=> n = 0
  OBVIOUS
<1>1. ASSUME Sums(<<>>, n) PROVE n = 0
  BY <1>1 DEF Sums
<1>2. ASSUME n = 0 PROVE Sums(<<>>, n)
  <2> DEFINE e == [i \in 0..0 |-> 0]
  <2>1. e \in [0..0 -> Int] /\ e[0] = 0
    OBVIOUS
  <2>2. Len(<<>>) = 0
    OBVIOUS
  <2> HIDE DEF e
  <2> QED BY <1>2, <2>1, <2>2 DEF Sums
<1> QED BY <1>1, <1>2

LEMMA SumsAppend ==
  ASSUME NEW s \in Seq(AllMessages), NEW m \in AllMessages, NEW n \in Int, Sums(s, n)
  PROVE  Sums(Append(s, m), n + 1 + Units(m))
<1> DEFINE k == Len(s)
           t == Append(s, m)
           u == Units(m)
<1>1. PICK e \in [0..k -> Int] :
        /\ e[0] = 0 /\ e[k] = n
        /\ \A i \in 1..k : e[i] = e[i - 1] + 1 + Units(s[i])
  BY DEF Sums
<1>2. k \in Nat /\ u \in Nat /\ Len(t) = k + 1 /\ t[k + 1] = m /\ \A i \in 1..k : t[i] = s[i]
  BY UnitsType
<1> HIDE DEF k, t, u
<1> DEFINE d == [i \in 0..(k + 1) |-> IF i = k + 1 THEN n + 1 + u ELSE e[i]]
<1>3. d \in [0..(k + 1) -> Int]
  <2> SUFFICES ASSUME NEW i \in 0..(k + 1) PROVE (IF i = k + 1 THEN n + 1 + u ELSE e[i]) \in Int
    OBVIOUS
  <2>1. CASE i = k + 1
    BY <1>2, <2>1
  <2>2. CASE i # k + 1
    <3>1. i \in 0..k
      BY <1>2, <2>2
    <3> QED BY <1>1, <2>2, <3>1
  <2> QED BY <2>1, <2>2
<1>4. d[k + 1] = n + 1 + u /\ \A i \in 0..k : d[i] = e[i]
  BY <1>2
<1> HIDE DEF d
<1>5. d[0] = 0
  BY <1>1, <1>2, <1>4
<1>6. ASSUME NEW i \in 1..(k + 1) PROVE d[i] = d[i - 1] + 1 + Units(t[i])
  <2>1. CASE i = k + 1
    <3>1. i - 1 = k /\ k \in 0..k
      BY <1>2, <2>1
    <3>2. d[i - 1] = n
      BY <1>1, <1>4, <3>1
    <3> QED BY <1>2, <1>4, <2>1, <3>2 DEF u
  <2>2. CASE i # k + 1
    <3>1. i \in 1..k /\ i \in 0..k /\ i - 1 \in 0..k
      BY <1>2, <2>2
    <3> QED BY <1>1, <1>2, <1>4, <3>1
  <2> QED BY <2>1, <2>2
<1>7. Sums(t, n + 1 + u)
  BY <1>2, <1>3, <1>4, <1>5, <1>6 DEF Sums
<1> QED BY <1>7 DEF t, u

LEMMA SumsTail ==
  ASSUME NEW s \in Seq(AllMessages), NEW n \in Int, s # <<>>, Sums(s, n)
  PROVE  Sums(Tail(s), n - 1 - Units(Head(s)))
<1> DEFINE k == Len(s)
           t == Tail(s)
           u == Units(s[1])
<1>1. PICK e \in [0..k -> Int] :
        /\ e[0] = 0 /\ e[k] = n
        /\ \A i \in 1..k : e[i] = e[i - 1] + 1 + Units(s[i])
  BY DEF Sums
<1>2. /\ k \in Nat /\ k >= 1 /\ u \in Nat /\ Len(t) = k - 1
      /\ \A i \in 1..(k - 1) : t[i] = s[i + 1]
  BY UnitsType
<1>3. Head(s) = s[1]
  OBVIOUS
<1>4. e[1] = 1 + u /\ e[1] \in Int
  <2>1. 1 \in 1..k /\ 1 - 1 = 0 /\ 1 \in 0..k
    BY <1>2
  <2>2. e[1] = e[1 - 1] + 1 + u
    BY <1>1, <2>1
  <2> QED BY <1>1, <1>2, <2>1, <2>2
<1> HIDE DEF k, t, u
<1> DEFINE d == [i \in 0..(k - 1) |-> e[i + 1] - e[1]]
<1>5. d \in [0..(k - 1) -> Int]
  <2> SUFFICES ASSUME NEW i \in 0..(k - 1) PROVE e[i + 1] - e[1] \in Int
    OBVIOUS
  <2>1. i + 1 \in 0..k
    BY <1>2
  <2>2. e[i + 1] \in Int
    BY <2>1
  <2> QED BY <1>4, <2>2
<1>6. \A i \in 0..(k - 1) : d[i] = e[i + 1] - e[1]
  OBVIOUS
<1> HIDE DEF d
<1>7. d[0] = 0
  <2>1. 0 \in 0..(k - 1) /\ 0 + 1 = 1
    BY <1>2
  <2>2. d[0] = e[1] - e[1]
    BY <1>6, <2>1
  <2> QED BY <1>4, <2>2
<1>8. d[k - 1] = n - 1 - u
  <2>1. k - 1 \in 0..(k - 1) /\ (k - 1) + 1 = k
    BY <1>2
  <2>2. d[k - 1] = e[k] - e[1]
    BY <1>6, <2>1
  <2> QED BY <1>1, <1>2, <1>4, <2>2
<1>9. ASSUME NEW i \in 1..(k - 1) PROVE d[i] = d[i - 1] + 1 + Units(t[i])
  <2>1. /\ i + 1 \in 1..k /\ i \in 0..(k - 1) /\ i - 1 \in 0..(k - 1)
        /\ (i + 1) - 1 = i /\ (i - 1) + 1 = i /\ i \in 0..k /\ i + 1 \in 0..k
    BY <1>2
  <2>2. e[i + 1] = e[i] + 1 + Units(s[i + 1])
    BY <1>1, <2>1
  <2>3. d[i] = e[i + 1] - e[1] /\ d[i - 1] = e[i] - e[1]
    BY <1>6, <2>1
  <2>4. t[i] = s[i + 1] /\ Units(s[i + 1]) \in Nat /\ e[i] \in Int
    BY <1>1, <1>2, <2>1, UnitsType
  <2> QED BY <1>4, <2>2, <2>3, <2>4
<1>10. Sums(t, n - 1 - u)
  BY <1>2, <1>5, <1>7, <1>8, <1>9 DEF Sums
<1> QED BY <1>3, <1>10 DEF t, u

(* The sum is what UnitsOf computes: there is one function that satisfies  *)
(* its recursive definition.                                               *)
LEMMA SumsIsUnitsOf ==
  ASSUME NEW s \in Seq(AllMessages), NEW n \in Int, Sums(s, n)
  PROVE  UnitsOf(s) = n
<1> DEFINE k == Len(s)
           step(f, i) == IF i = 0 THEN 0 ELSE f[i - 1] + 1 + Units(s[i])
           upTo == CHOOSE f : f = [i \in 0..k |-> step(f, i)]
<1>1. k \in Nat
  OBVIOUS
<1>2. PICK e \in [0..k -> Int] :
        /\ e[0] = 0 /\ e[k] = n
        /\ \A i \in 1..k : e[i] = e[i - 1] + 1 + Units(s[i])
  BY DEF Sums
<1>3. UnitsOf(s) = upTo[k]
  BY DEF UnitsOf
<1> HIDE DEF k
<1>4. e = [i \in 0..k |-> step(e, i)]
  <2>1. ASSUME NEW i \in 0..k PROVE e[i] = step(e, i)
    BY <1>1, <1>2
  <2> QED BY <1>2, <2>1
<1>5. upTo = [i \in 0..k |-> step(upTo, i)]
  BY <1>4
<1> HIDE DEF upTo
<1>6. \A i \in 0..k : upTo[i] = e[i]
  <2> DEFINE T == {i \in Nat : i \in 0..k => upTo[i] = e[i]}
  <2>1. 0 \in T
    <3>1. upTo[0] = step(upTo, 0)
      BY <1>1, <1>5
    <3> QED BY <1>2, <3>1
  <2>2. ASSUME NEW i \in T, i \in Nat PROVE i + 1 \in T
    <3>1. CASE i + 1 \in 0..k
      <4>1. i \in 0..k /\ i + 1 \in 1..k /\ i + 1 # 0 /\ (i + 1) - 1 = i
        BY <1>1, <2>2, <3>1
      <4>2. upTo[i + 1] = step(upTo, i + 1)
        BY <1>5, <3>1
      <4>3. upTo[i] = e[i]
        BY <2>2, <4>1
      <4>4. e[i + 1] = e[i] + 1 + Units(s[i + 1])
        BY <1>2, <4>1
      <4> QED BY <2>2, <4>1, <4>2, <4>3, <4>4
    <3>2. CASE i + 1 \notin 0..k
      BY <2>2, <3>2
    <3> QED BY <3>1, <3>2
  <2> HIDE DEF T
  <2>3. Nat \subseteq T
    BY <2>1, <2>2, Induction
  <2> QED BY <1>1, <2>3 DEF T
<1> QED BY <1>1, <1>2, <1>3, <1>6

-----------------------------------------------------------------------------
(* What the server sends is a message, and only its replies are of type    *)
(* "time".                                                                 *)
LEMMA SentType ==
  ASSUME now \in Nat, NEW m \in Messages
  PROVE  m \in AllMessages /\ m.type # "time"
<1>0. ServerClock \in Int
  BY Constants DEF ServerClock
<1>1. CASE m \in [type : {"codec"}, codec : Codecs]
  BY <1>1 DEF AllMessages
<1>2. CASE m \in [type : {"chunk"}, timestamp : {ServerClock - a : a \in ChunkAges}]
  <2>1. {ServerClock - a : a \in ChunkAges} \subseteq Int
    BY <1>0, SessionAssumption
  <2>2. m \in [type : {"chunk"}, timestamp : Int]
    BY <1>2, <2>1
  <2> QED BY <2>2 DEF AllMessages
<1>3. CASE m \in [type : {"settings"}, settings : Settings]
  BY <1>3 DEF AllMessages
<1>4. CASE m \in [type : Others]
  BY <1>4, Constants DEF AllMessages
<1> QED BY <1>1, <1>2, <1>3, <1>4 DEF Messages

LEMMA ReplyType ==
  ASSUME now \in Nat
  PROVE  [type |-> "time", sent |-> ServerClock] \in AllMessages
BY Constants DEF ServerClock, AllMessages

(* Nothing happens to the connection. *)
LEMMA LinkQuiet ==
  ASSUME LinkType, Streamed, UNCHANGED link,
         loop_status # "readData", loop_status' # "readData"
  PROVE  LinkType' /\ Streamed'
BY DEF LinkType, Streamed, link, Pending

(* Connections are made, lost and ended between two messages. *)
LEMMA LinkConnect ==
  ASSUME LinkType, Streamed, loop_status # "readData", loop_status' # "readData",
         NEW result, NEW n \in Nat, ConnectClient(result, n)
  PROVE  LinkType' /\ Streamed'
<1>1. CASE UNCHANGED <<conn, stream, inflight, avail, requests>> /\ hellos' = hellos + n
  BY <1>1 DEF LinkType, Streamed, Pending
<1>2. CASE /\ Disconnected("up") \/ Disconnected("none")
           /\ hellos' = n \/ hellos' = 0
  <2>1. /\ conn' \in {"up", "none"} /\ stream' = <<>> /\ inflight' = 0 /\ avail' = 0
        /\ requests' = 0 /\ hellos' \in Nat
    BY <1>2 DEF Disconnected
  <2>2. <<>> \in Seq(AllMessages)
    OBVIOUS
  <2>3. LinkType'
    BY <2>1, <2>2, Constants DEF LinkType
  <2>4. Sums(stream', 0)
    BY <2>1, SumsEmpty
  <2>5. avail' + inflight' - Pending' = 0
    BY <2>1 DEF Pending
  <2> QED BY <2>1, <2>3, <2>4, <2>5 DEF Streamed
<1> QED BY <1>1, <1>2 DEF ConnectClient

LEMMA LinkLost ==
  ASSUME LinkType, NEW state \in {"none", "reset"}, Disconnected(state), hellos' \in Nat
  PROVE  LinkType' /\ Streamed'
<1>1. <<>> \in Seq(AllMessages)
  OBVIOUS
<1> QED BY <1>1, Constants DEF Disconnected, LinkType, Streamed

(* The server sends one message more. *)
LEMMA LinkSend ==
  ASSUME LinkType, Streamed, NEW m \in AllMessages, Send(m), requests' \in Nat
  PROVE  LinkType' /\ Streamed'
<1>1. Sums(stream, avail + inflight - Pending) /\ conn = "up" /\ conn' = "up"
  BY DEF Send, Streamed
<1>2. Units(m) \in Nat /\ avail \in Nat /\ inflight \in Nat /\ Pending \in Int
  BY UnitsType DEF LinkType, Pending
<1>3. avail' = avail /\ inflight' = inflight + 1 + Units(m) /\ stream' = Append(stream, m)
      /\ Pending' = Pending /\ hellos' = hellos
  BY DEF Send, client, loop, Pending, Units
<1> DEFINE p == Pending
           u == Units(m)
<1>4. Sums(Append(stream, m), (avail + inflight - p) + 1 + u)
  BY <1>1, <1>2, SumsAppend DEF LinkType
<1>5. avail' + inflight' - Pending' = (avail + inflight - p) + 1 + u
  BY <1>2, <1>3
<1>6. Append(stream, m) \in Seq(AllMessages)
  BY DEF LinkType
<1>7. inflight' \in Nat
  BY <1>2, <1>3
<1>8. LinkType'
  BY <1>1, <1>3, <1>6, <1>7 DEF LinkType
<1> QED BY <1>1, <1>3, <1>4, <1>5, <1>8 DEF Streamed

(* As long as there are units to read there is a message.                  *)
LEMMA BaseThere ==
  ASSUME LinkType, Streamed, loop_status = "readBaseMessage", avail > 0
  PROVE  /\ conn \in {"up", "closed"} /\ Sums(stream, avail + inflight)
         /\ stream # <<>>
<1>1. avail \in Nat /\ inflight \in Nat /\ Pending = 0
  BY DEF LinkType, Pending
<1>2. conn \in {"up", "closed"} /\ Sums(stream, avail + inflight)
  BY <1>1 DEF LinkType, Streamed
<1>3. ASSUME stream = <<>> PROVE FALSE
  <2>1. avail + inflight = 0
    BY <1>1, <1>2, <1>3, SumsEmpty
  <2> QED BY <1>1, <2>1
<1> QED BY <1>2, <1>3

(* The base part of the next message is read, or nothing is there to read. *)
LEMMA LinkBase ==
  ASSUME LinkType, Streamed, ReadBaseMessage
  PROVE  LinkType' /\ Streamed' /\ (avail > 0 => base_message' \in AllMessages)
<1>1. loop_status = "readBaseMessage" /\ Pending = 0 /\ avail \in Nat /\ inflight \in Nat
  BY DEF ReadBaseMessage, Pending, LinkType
<1>2. CASE avail > 0
  <2>1. /\ base_message' = Head(stream) /\ stream' = Tail(stream) /\ avail' = avail - 1
        /\ loop_status' = "readData"
        /\ UNCHANGED <<conn, inflight, hellos, requests>>
    BY <1>2 DEF ReadBaseMessage
  <2>2. conn \in {"up", "closed"} /\ Sums(stream, avail + inflight)
    BY <1>1, <1>2, BaseThere
  <2>3. stream # <<>>
    BY <1>1, <1>2, BaseThere
  <2>4. Tail(stream) \in Seq(AllMessages) /\ Head(stream) \in AllMessages
    BY <2>3 DEF LinkType
  <2> DEFINE n == avail + inflight
             u == Units(Head(stream))
  <2>5. Sums(Tail(stream), n - 1 - u)
    BY <1>1, <2>2, <2>3, SumsTail DEF LinkType
  <2>6. Pending' = u
    BY <2>1 DEF Pending, Units
  <2>7. u \in Nat
    BY UnitsType
  <2>8. avail' + inflight' - Pending' = n - 1 - u
    BY <1>1, <2>1, <2>6, <2>7
  <2>9. LinkType'
    BY <1>1, <1>2, <2>1, <2>4, Constants DEF LinkType
  <2> QED BY <2>1, <2>2, <2>4, <2>5, <2>8, <2>9 DEF Streamed
<1>3. CASE ~(avail > 0)
  BY <1>1, <1>3, LinkQuiet DEF ReadBaseMessage, link
<1> QED BY <1>2, <1>3

(* The body is read. *)
LEMMA LinkData ==
  ASSUME LinkType, Streamed, LoopInv, ReadData
  PROVE  LinkType' /\ Streamed'
<1> DEFINE u == Units(base_message)
<1>1. u \in Nat /\ avail \in Nat /\ inflight \in Nat
  BY UnitsType DEF LinkType
<1>2. /\ loop_status = "readData" /\ avail >= u /\ avail' = avail - u
      /\ loop_status' = base_message.type
      /\ UNCHANGED <<conn, stream, inflight, hellos, requests>>
  BY DEF ReadData, BodyRead
<1>3. loop_status' # "readData"
  BY <1>2, MessageType, Constants DEF LoopInv, Types
<1>4. Pending = u /\ Pending' = 0
  BY <1>2, <1>3 DEF Pending
<1> HIDE DEF u
<1>5. avail' + inflight' - Pending' = avail + inflight - Pending
  BY <1>1, <1>2, <1>4
<1>6. LinkType'
  BY <1>1, <1>2, Constants DEF LinkType
<1>7. conn \in {"none", "reset"} => avail' = 0
  BY <1>1, <1>2 DEF Streamed
<1> QED BY <1>2, <1>5, <1>6, <1>7 DEF Streamed

(* Every step keeps the client's place in the stream. *)
LEMMA LinkNext ==
  ASSUME LinkType, Streamed, LoopInv, [Next]_vars
  PROVE  LinkType' /\ Streamed'
<1>1. CASE Begin
  <2>1. loop_status # "readData" /\ loop_status' # "readData"
    BY <1>1 DEF Begin
  <2>2. \E result \in BOOLEAN : ConnectClient(result, 0)
    BY <1>1 DEF Begin
  <2> QED BY <2>1, <2>2, LinkConnect
<1>2. CASE End
  BY <1>2, LinkLost DEF End
<1>3. CASE LoopStart
  <2>1. loop_status # "readData" /\ loop_status' # "readData"
    BY <1>3 DEF LoopStart
  <2>2. ConnectClient(TRUE, 1) \/ ConnectClient(TRUE, 0) \/ ConnectClient(FALSE, 0)
    BY <1>3 DEF LoopStart
  <2> QED BY <2>1, <2>2, LinkConnect
<1>4. CASE LoopStep \/ LoopEnd
  BY <1>4, LinkQuiet DEF LoopStep, LoopEnd
<1>5. CASE ReadBaseMessage
  BY <1>5, LinkBase
<1>6. CASE ReadData
  BY <1>6, LinkData
<1>7. CASE ProcessMessage
  <2>1. loop_status # "readData" /\ loop_status' # "readData" /\ UNCHANGED link
    BY <1>7, Constants
       DEF ProcessMessage, ProcessMessageCodecHeader, ProcessMessageWireChunk,
           SkipWireChunk, ProcessMessageServerSettings, ProcessMessageTime,
           ProcessMessageOther, MessageDone
  <2> QED BY <2>1, LinkQuiet
<1>8. CASE WriteTimedMessage
  <2>1. /\ loop_status = "writeTimedMessage" /\ loop_status' = "LoopStep"
        /\ requests' = requests \/ requests' = requests + 1
        /\ UNCHANGED <<conn, stream, inflight, avail, hellos>>
    BY <1>8 DEF WriteTimedMessage
  <2> QED BY <2>1 DEF LinkType, Streamed, Pending
<1>9. CASE ServerSend
  <2>1. PICK m \in Messages : Send(m)
    BY <1>9 DEF ServerSend
  <2>2. requests' \in Nat
    BY <1>9 DEF ServerSend, LinkType
  <2>3. m \in AllMessages
    BY SentType DEF LoopInv
  <2> QED BY <2>1, <2>2, <2>3, LinkSend
<1>10. CASE ServerReply
  <2>1. requests' \in Nat
    BY <1>10 DEF ServerReply, LinkType
  <2>2. [type |-> "time", sent |-> ServerClock] \in AllMessages
    BY ReplyType DEF LoopInv
  <2>3. Send([type |-> "time", sent |-> ServerClock])
    BY <1>10 DEF ServerReply
  <2> QED BY <2>1, <2>2, <2>3, LinkSend
<1>11. CASE Arrive
  <2>1. /\ inflight > 0 /\ avail < Window /\ inflight' = inflight - 1 /\ avail' = avail + 1
        /\ UNCHANGED <<conn, stream, hellos, requests>> /\ Pending' = Pending
    BY <1>11 DEF Arrive, client, loop, Pending, Units
  <2>2. inflight \in Nat /\ avail \in Nat /\ Pending \in Int
    BY UnitsType DEF LinkType, Pending
  <2>3. avail' + inflight' - Pending' = avail + inflight - Pending
    BY <2>1, <2>2
  <2>4. LinkType'
    BY <2>1, <2>2, Constants DEF LinkType
  <2>5. conn' \notin {"none", "reset"}
    BY <2>1, <2>2 DEF Streamed
  <2> QED BY <2>1, <2>3, <2>4, <2>5 DEF Streamed
<1>12. CASE Close
  <2>1. /\ conn = "up" /\ conn' = "closed" /\ requests' = 0 /\ Pending' = Pending
        /\ UNCHANGED <<stream, inflight, avail, hellos>>
    BY <1>12 DEF Close, client, loop, Pending, Units
  <2> QED BY <2>1 DEF LinkType, Streamed
<1>13. CASE Reset
  BY <1>13, LinkLost DEF Reset, LinkType
<1>14. CASE Tick \/ SetClock \/ UNCHANGED vars
  <2>1. UNCHANGED link /\ Pending' = Pending
    BY <1>14 DEF Tick, SetClock, vars, client, loop, link, Pending, Units
  <2> QED BY <2>1 DEF link, LinkType, Streamed
<1> QED BY <1>1, <1>2, <1>3, <1>4, <1>5, <1>6, <1>7, <1>8, <1>9, <1>10, <1>11, <1>12,
            <1>13, <1>14 DEF Next, DoLoop, Environment

-----------------------------------------------------------------------------
LEMMA MillisType ==
  ASSUME now \in Nat
  PROVE  millis \in 0..(W - 1)
BY Constants, Wraps DEF millis

(* Where the loop is, and the message it is at. *)
LEMMA LoopNext ==
  ASSUME LinkType, Streamed, LoopInv, [Next]_vars
  PROVE  LoopInv'
<1>1. CASE Begin
  <2>1. /\ loop_status' = "LoopStart" /\ hello_fits' \in BOOLEAN
        /\ last_time_sync' = 0
        /\ UNCHANGED <<base_message, received, now, wall>>
    BY <1>1, SessionAssumption DEF Begin, clocks
  <2> QED BY <2>1, Constants DEF LoopInv, Types, Statuses
<1>2. CASE End \/ LoopStart \/ LoopStep \/ LoopEnd
  <2>1. /\ loop_status' \in {"down", "LoopStart", "LoopStep", "readBaseMessage"}
        /\ UNCHANGED <<loop, clocks>>
    BY <1>2 DEF End, LoopStart, LoopStep, LoopEnd, LoopInv
  <2> QED BY <2>1, Constants DEF LoopInv, loop, clocks, Types, Statuses
<1>3. CASE ReadBaseMessage
  <2>1. /\ loop_status' \in {"readData", "LoopEnd"}
        /\ UNCHANGED <<last_time_sync, hello_fits, now, wall>>
    BY <1>3 DEF ReadBaseMessage, clocks
  <2>2. CASE avail > 0
    <3>1. base_message' \in AllMessages
      BY <1>3, <2>2, LinkBase
    <3>2. received' \in Int
      <4>1. received' = now + wall
        BY <1>3, <2>2 DEF ReadBaseMessage
      <4>2. wall \in Int /\ now \in Int
        BY SessionAssumption DEF LoopInv
      <4> QED BY <4>1, <4>2
    <3> QED BY <2>1, <3>1, <3>2, Constants DEF LoopInv, Types, Statuses
  <2>3. CASE ~(avail > 0)
    <3>1. loop_status' = "LoopEnd" /\ UNCHANGED <<base_message, received>>
      BY <1>3, <2>3 DEF ReadBaseMessage
    <3> QED BY <2>1, <3>1, Constants DEF LoopInv, Types, Statuses
  <2> QED BY <2>2, <2>3
<1>4. CASE ReadData
  <2>1. /\ loop_status = "readData" /\ loop_status' = base_message.type
        /\ UNCHANGED <<last_time_sync, base_message, received, hello_fits, now, wall>>
    BY <1>4 DEF ReadData, BodyRead, loop, clocks
  <2>2. base_message \in AllMessages /\ base_message.type \in Types
    BY <2>1, MessageType DEF LoopInv
  <2> QED BY <2>1, <2>2, Constants DEF LoopInv, Types, Statuses
<1>5. CASE ProcessMessage
  <2>1. loop_status' \in {"writeTimedMessage", "LoopStep"} /\ UNCHANGED <<loop, clocks>>
    BY <1>5 DEF ProcessMessage, ProcessMessageCodecHeader, ProcessMessageWireChunk,
                SkipWireChunk, ProcessMessageServerSettings, ProcessMessageTime,
                ProcessMessageOther, MessageDone
  <2> QED BY <2>1, Constants DEF LoopInv, loop, clocks, Types, Statuses
<1>6. CASE WriteTimedMessage
  <2>1. /\ loop_status' = "LoopStep"
        /\ last_time_sync' = last_time_sync \/ last_time_sync' = millis
        /\ UNCHANGED <<base_message, received, hello_fits, now, wall>>
    BY <1>6 DEF WriteTimedMessage, clocks
  <2>2. last_time_sync' \in 0..(W - 1)
    BY <2>1, MillisType DEF LoopInv
  <2> QED BY <2>1, <2>2, Constants DEF LoopInv, Types, Statuses
<1>7. CASE ServerSend \/ ServerReply \/ Arrive \/ Close \/ Reset \/ UNCHANGED vars
  <2>1. UNCHANGED <<client, clocks>>
    BY <1>7 DEF ServerSend, ServerReply, Send, Arrive, Close, Reset, vars
  <2> QED BY <2>1 DEF LoopInv, client, loop, clocks
<1>8. CASE Tick
  <2>1. now' = now + 1 /\ now < MaxTime /\ UNCHANGED <<client, wall>>
    BY <1>8 DEF Tick
  <2>2. now' \in Nat /\ now' <= MaxTime
    BY <2>1, Constants DEF LoopInv
  <2> QED BY <2>1, <2>2 DEF LoopInv, client, loop
<1>9. CASE SetClock
  BY <1>9 DEF SetClock, LoopInv, client, loop
<1> QED BY <1>1, <1>2, <1>3, <1>4, <1>5, <1>6, <1>7, <1>8, <1>9
        DEF Next, DoLoop, Environment

(***************************************************************************)
(* Where hello was said.                                                   *)
(***************************************************************************)
LEMMA HelloNext ==
  ASSUME LinkType, Streamed, LoopInv, HelloInv, [Next]_vars
  PROVE  HelloInv'
<1>1. CASE Begin
  <2>1. loop_status = "down" /\ loop_status' = "LoopStart" /\ conn = "none"
    BY <1>1 DEF Begin, HelloInv
  <2>2. ~connected
    BY <2>1 DEF connected
  <2>3. hellos' = 0 /\ requests' = 0
    BY <1>1, <2>2 DEF Begin, ConnectClient, Disconnected
  <2> QED BY <2>1, <2>3 DEF HelloInv
<1>2. CASE End
  BY <1>2 DEF End, Disconnected, HelloInv
<1>3. CASE LoopStart
  <2>1. loop_status = "LoopStart" /\ loop_status' \in {"LoopStart", "LoopStep"}
    BY <1>3 DEF LoopStart
  <2>2. CASE hello_fits /\ ConnectClient(TRUE, 1) /\ loop_status' = "LoopStep"
    <3>1. conn' = "up" => hellos' = 1
      BY <2>1, <2>2 DEF ConnectClient, Disconnected, HelloInv
    <3> QED BY <2>2, <3>1 DEF HelloInv
  <2>3. CASE ConnectClient(TRUE, 0) /\ UNCHANGED loop_status
    <3>1. conn' = "up" => hellos' = 0 /\ requests' = 0
      BY <2>1, <2>3 DEF ConnectClient, Disconnected, HelloInv
    <3> QED BY <2>1, <2>3, <3>1 DEF HelloInv
  <2>4. CASE ConnectClient(FALSE, 0) /\ UNCHANGED loop_status
    <3>1. conn' = "none"
      BY <2>4 DEF ConnectClient, Disconnected
    <3> QED BY <2>1, <2>4, <3>1 DEF HelloInv
  <2> QED BY <1>3, <2>2, <2>3, <2>4 DEF LoopStart
<1>4. CASE LoopStep \/ LoopEnd
  BY <1>4 DEF LoopStep, LoopEnd, HelloInv, link
<1>5. CASE ReadBaseMessage
  <2>1. loop_status = "readBaseMessage" /\ UNCHANGED <<conn, hellos, requests>>
    BY <1>5 DEF ReadBaseMessage
  <2>2. loop_status' = "readData" \/ (loop_status' = "LoopEnd" /\ ~(avail > 0))
    BY <1>5 DEF ReadBaseMessage
  <2> QED BY <2>1, <2>2 DEF HelloInv
<1>6. CASE ReadData
  <2>1. /\ loop_status = "readData" /\ loop_status' \in Types
        /\ UNCHANGED <<conn, hellos, requests>>
    BY <1>6, MessageType DEF ReadData, BodyRead, LoopInv
  <2> QED BY <2>1, Constants DEF HelloInv, Types
<1>7. CASE ProcessMessage
  <2>1. /\ loop_status \in Types /\ loop_status' \in {"writeTimedMessage", "LoopStep"}
        /\ UNCHANGED <<conn, hellos, requests>>
    BY <1>7 DEF ProcessMessage, ProcessMessageCodecHeader, ProcessMessageWireChunk,
                SkipWireChunk, ProcessMessageServerSettings, ProcessMessageTime,
                ProcessMessageOther, MessageDone, link, Types
  <2> QED BY <2>1, Constants DEF HelloInv, Types
<1>8. CASE WriteTimedMessage
  BY <1>8 DEF WriteTimedMessage, HelloInv
<1>9. CASE ServerSend \/ ServerReply
  <2>1. conn = "up" /\ hellos > 0 /\ UNCHANGED <<conn, avail, hellos, loop_status>>
    BY <1>9 DEF ServerSend, ServerReply, Send, client
  <2>2. loop_status # "LoopStart"
    BY <2>1 DEF HelloInv
  <2> QED BY <2>1, <2>2 DEF HelloInv
<1>10. CASE Arrive
  <2>1. avail \in Nat /\ avail' = avail + 1
        /\ UNCHANGED <<conn, hellos, requests, loop_status>>
    BY <1>10 DEF Arrive, client, LinkType
  <2>2. avail' > 0
    BY <2>1
  <2> QED BY <2>1, <2>2 DEF HelloInv
<1>11. CASE Close
  <2>1. conn = "up" /\ conn' = "closed" /\ UNCHANGED <<avail, loop_status>>
    BY <1>11 DEF Close, client
  <2> QED BY <2>1 DEF HelloInv
<1>12. CASE Reset
  <2>1. conn = "up" /\ conn' = "reset" /\ UNCHANGED loop_status
    BY <1>12 DEF Reset, Disconnected, client
  <2> QED BY <2>1 DEF HelloInv
<1>13. CASE Tick \/ SetClock \/ UNCHANGED vars
  <2>1. UNCHANGED <<loop_status, link>>
    BY <1>13 DEF Tick, SetClock, vars, client
  <2> QED BY <2>1 DEF HelloInv, link
<1> QED BY <1>1, <1>2, <1>3, <1>4, <1>5, <1>6, <1>7, <1>8, <1>9, <1>10, <1>11, <1>12,
            <1>13 DEF Next, DoLoop, Environment

(***************************************************************************)
(* The server's clock never goes back, so no reply is ahead of it.         *)
(***************************************************************************)
LEMMA ReplyNext ==
  ASSUME LinkType, Streamed, LoopInv, ReplyInv, [Next]_vars
  PROVE  ReplyInv'
<1>0. ServerClock \in Int /\ stream \in Seq(AllMessages)
  BY Constants DEF ServerClock, LoopInv, LinkType
<1>1. CASE Begin \/ End \/ LoopStart \/ Reset
  <2>1. \/ stream' = stream
        \/ stream' = <<>>
    BY <1>1 DEF Begin, End, LoopStart, Reset, ConnectClient, Disconnected
  <2>2. UNCHANGED <<base_message, now>>
    BY <1>1 DEF Begin, End, LoopStart, Reset, clocks, loop, client
  <2>3. CASE stream' = stream
    BY <2>2, <2>3 DEF ReplyInv, ServerClock
  <2>4. CASE stream' = <<>>
    BY <2>2, <2>4 DEF ReplyInv, ServerClock
  <2> QED BY <2>1, <2>3, <2>4
<1>2. CASE ReadBaseMessage
  <2>1. UNCHANGED now
    BY <1>2 DEF ReadBaseMessage, clocks
  <2>2. CASE avail > 0
    <3>1. base_message' = Head(stream) /\ stream' = Tail(stream) /\ stream # <<>>
      <4>1. stream # <<>>
        BY <1>2, <2>2, BaseThere DEF ReadBaseMessage
      <4> QED BY <1>2, <2>2, <4>1 DEF ReadBaseMessage
    <3>2. Head(stream) = stream[1] /\ 1 \in 1..Len(stream)
      BY <1>0, <3>1
    <3>3. /\ Len(Tail(stream)) = Len(stream) - 1
          /\ \A i \in 1..Len(Tail(stream)) :
               Tail(stream)[i] = stream[i + 1] /\ i + 1 \in 1..Len(stream)
      BY <1>0, <3>1
    <3> QED BY <2>1, <3>1, <3>2, <3>3 DEF ReplyInv, ServerClock
  <2>3. CASE ~(avail > 0)
    <3>1. UNCHANGED <<base_message, stream>>
      BY <1>2, <2>3 DEF ReadBaseMessage
    <3> QED BY <2>1, <3>1 DEF ReplyInv, ServerClock
  <2> QED BY <2>2, <2>3
<1>3. ASSUME NEW m \in AllMessages, Send(m), m.type = "time" => m.sent <= ServerClock
      PROVE  ReplyInv'
  <2>1. stream' = Append(stream, m) /\ UNCHANGED <<base_message, now>>
    BY <1>3 DEF Send, client, loop, clocks
  <2>2. /\ Len(Append(stream, m)) = Len(stream) + 1
        /\ Append(stream, m)[Len(stream) + 1] = m
        /\ \A i \in 1..Len(stream) : Append(stream, m)[i] = stream[i]
        /\ Len(stream) \in Nat
    BY <1>0
  <2>3. \A i \in 1..(Len(stream) + 1) : i = Len(stream) + 1 \/ i \in 1..Len(stream)
    BY <2>2
  <2> QED BY <1>3, <2>1, <2>2, <2>3 DEF ReplyInv, ServerClock
<1>4. CASE ServerSend
  <2>1. PICK m \in Messages : Send(m)
    BY <1>4 DEF ServerSend
  <2>2. m \in AllMessages /\ m.type # "time"
    BY SentType DEF LoopInv
  <2> QED BY <1>3, <2>1, <2>2
<1>5. CASE ServerReply
  <2> DEFINE m == [type |-> "time", sent |-> ServerClock]
  <2>1. Send(m)
    BY <1>5 DEF ServerReply
  <2>2. m \in AllMessages /\ m.sent <= ServerClock
    BY <1>0, ReplyType DEF LoopInv
  <2> HIDE DEF m
  <2> QED BY <1>3, <2>1, <2>2
<1>6. CASE Tick
  <2>1. now' = now + 1 /\ now \in Nat /\ UNCHANGED <<stream, base_message>>
    BY <1>6 DEF Tick, LoopInv, link, client, loop
  <2>2. ServerClock' = ServerClock + 1
    BY <2>1, Constants DEF ServerClock
  <2>3. ASSUME NEW m \in AllMessages, m.type = "time", m.sent <= ServerClock
        PROVE  m.sent <= ServerClock'
    <3>1. m.sent \in Int
      BY <2>3, MessageType
    <3> QED BY <1>0, <2>2, <2>3, <3>1
  <2>4. \A i \in 1..Len(stream) : stream[i] \in AllMessages
    BY <1>0
  <2>5. base_message.type = "time" => base_message \in AllMessages
    BY DEF LoopInv, NoMessage
  <2>6. ASSUME NEW i \in 1..Len(stream'), stream'[i].type = "time"
        PROVE  stream'[i].sent <= ServerClock'
    BY <2>1, <2>3, <2>4, <2>6 DEF ReplyInv
  <2>7. ASSUME base_message'.type = "time" PROVE base_message'.sent <= ServerClock'
    BY <2>1, <2>3, <2>5, <2>7 DEF ReplyInv
  <2> QED BY <2>6, <2>7 DEF ReplyInv
<1>7. CASE \/ LoopStep \/ ReadData \/ ProcessMessage \/ WriteTimedMessage \/ LoopEnd
           \/ Arrive \/ Close \/ SetClock \/ UNCHANGED vars
  <2>1. UNCHANGED <<stream, base_message, now>>
    BY <1>7 DEF LoopStep, ReadData, BodyRead, WriteTimedMessage, LoopEnd, Arrive, Close,
                SetClock, vars, client, loop, link, clocks,
                ProcessMessage, ProcessMessageCodecHeader, ProcessMessageWireChunk,
                SkipWireChunk, ProcessMessageServerSettings, ProcessMessageTime,
                ProcessMessageOther, MessageDone
  <2> QED BY <2>1 DEF ReplyInv, ServerClock
<1> QED BY <1>1, <1>2, <1>4, <1>5, <1>6, <1>7 DEF Next, DoLoop, Environment

-----------------------------------------------------------------------------
(* Only a reply sets the server time.                                      *)
LEMMA TimeKept ==
  ASSUME [Next]_vars, ~ProcessMessageTime
  PROVE  UNCHANGED <<snap_time, lag>>
<1>1. CASE Begin
  BY <1>1 DEF Begin, HandleBegin
<1>2. CASE End \/ LoopStart \/ LoopStep \/ ReadBaseMessage \/ ReadData \/ WriteTimedMessage
           \/ LoopEnd
  BY <1>2 DEF End, LoopStart, LoopStep, ReadBaseMessage, ReadData, BodyRead,
              WriteTimedMessage, LoopEnd, handled, history
<1>3. CASE ProcessMessage
  BY <1>3 DEF ProcessMessage, ProcessMessageCodecHeader, ProcessMessageWireChunk,
              SkipWireChunk, ProcessMessageServerSettings, ProcessMessageOther,
              HandleCodecHeader, HandleWireChunk, HandleServerSettings,
              handled, history
<1>4. CASE Environment \/ UNCHANGED vars
  BY <1>4 DEF Environment, ServerSend, ServerReply, Send, Arrive, Close, Reset, Tick,
              SetClock, vars, client, handled, history
<1> QED BY <1>1, <1>2, <1>3, <1>4 DEF Next, DoLoop

(* What a reply makes of the server time. *)
LEMMA TimeSet ==
  ASSUME LoopInv, ReplyInv, snap_time \in TimeRec, ProcessMessageTime
  PROVE  /\ snap_time' \in TimeRec
         /\ lag' = ServerClock - base_message.sent /\ lag' >= 0
         /\ base_message.sent \in Int
         /\ snap_time'.server_ms = millis
         /\ snap_time'.time_diff = uint32(snap_time'.server_time - base_message.sent)
<1> DEFINE s == base_message.sent
<1>1. /\ base_message.type = "time" /\ base_message \in AllMessages
      /\ lag' = ServerClock - s
      /\ snap_time' = Replied(snap_time, received, s, millis)
  BY DEF ProcessMessageTime, HandleTime, LoopInv, NoMessage, Types, Replied
<1>2. s \in Int /\ s <= ServerClock /\ ServerClock \in Int /\ received \in Int
  BY <1>1, MessageType, Constants DEF ReplyInv, LoopInv, ServerClock
<1>3. millis \in 0..(W - 1)
  BY MillisType DEF LoopInv
<1> HIDE DEF s
<1>4. /\ snap_time' \in TimeRec /\ snap_time'.server_ms = millis
      /\ snap_time'.time_diff = uint32(snap_time'.server_time - s)
  BY <1>1, <1>2, <1>3, AfterReply
<1>5. lag' >= 0
  BY <1>1, <1>2
<1> QED BY <1>1, <1>2, <1>4, <1>5 DEF s

LEMMA LagNext ==
  ASSUME LoopInv, ReplyInv, LagInv, snap_time \in TimeRec, [Next]_vars
  PROVE  LagInv'
<1>1. CASE ProcessMessageTime
  <2> DEFINE s == base_message.sent
  <2>1. /\ s \in Int /\ now \in Nat
        /\ lag' = (StartServer + now) - s /\ lag' >= 0
        /\ snap_time'.server_ms = uint32(StartMillis + now)
        /\ snap_time'.time_diff = uint32(snap_time'.server_time - s)
    BY <1>1, TimeSet DEF LoopInv, ServerClock, millis
  <2> HIDE DEF s
  <2>2. \E i \in Int, n \in Nat :
          /\ lag' = (StartServer + n) - i /\ lag' >= 0
          /\ snap_time'.server_ms = uint32(StartMillis + n)
          /\ snap_time'.time_diff = uint32(snap_time'.server_time - i)
    BY <2>1, Zenon
  <2> QED BY <2>2, Zenon DEF LagInv
<1>2. CASE ~ProcessMessageTime
  <2>1. UNCHANGED <<snap_time, lag>>
    BY <1>2, TimeKept
  <2> QED BY <2>1 DEF LagInv
<1> QED BY <1>1, <1>2

-----------------------------------------------------------------------------
LEMMA AskedNext ==
  ASSUME LoopInv, AskedInv, [Next]_vars
  PROVE  AskedInv'
<1>1. CASE Begin
  BY <1>1 DEF Begin, AskedInv
<1>2. CASE WriteTimedMessage
  <2>1. UNCHANGED now
    BY <1>2 DEF WriteTimedMessage, clocks
  <2>2. CASE TimeDue
    <3>1. last_time_sync' = uint32(StartMillis + now) /\ asked' = now
      BY <1>2, <2>2 DEF WriteTimedMessage, millis
    <3> QED BY <2>1, <3>1 DEF AskedInv, LoopInv
  <2>3. CASE ~TimeDue
    BY <1>2, <2>1, <2>3 DEF WriteTimedMessage, AskedInv
  <2> QED BY <2>2, <2>3
<1>3. CASE Tick
  <2>1. now' = now + 1 /\ now \in Nat /\ UNCHANGED <<last_time_sync, asked>>
    BY <1>3 DEF Tick, LoopInv, client, loop, history
  <2>2. asked \in Nat /\ asked <= now => asked <= now'
    BY <2>1
  <2> QED BY <2>1, <2>2 DEF AskedInv
<1>4. CASE \/ End \/ LoopStart \/ LoopStep \/ ReadBaseMessage \/ ReadData
           \/ ProcessMessage \/ LoopEnd
  <2>1. UNCHANGED <<last_time_sync, asked, now>>
    BY <1>4 DEF End, LoopStart, LoopStep, ReadBaseMessage, ReadData, BodyRead, LoopEnd,
                ProcessMessage, ProcessMessageCodecHeader, ProcessMessageWireChunk,
                SkipWireChunk, ProcessMessageServerSettings, ProcessMessageTime,
                ProcessMessageOther, MessageDone, loop, clocks, history
  <2> QED BY <2>1 DEF AskedInv
<1>5. CASE \/ ServerSend \/ ServerReply \/ Arrive \/ Close \/ Reset \/ SetClock
           \/ UNCHANGED vars
  <2>1. UNCHANGED <<last_time_sync, asked, now>>
    BY <1>5 DEF ServerSend, ServerReply, Send, Arrive, Close, Reset, SetClock, vars,
                client, loop, clocks, history
  <2> QED BY <2>1 DEF AskedInv
<1> QED BY <1>1, <1>2, <1>3, <1>4, <1>5 DEF Next, DoLoop, Environment

-----------------------------------------------------------------------------
(* What the operators of SnapOutput make of its values.                    *)
LEMMA OutputOps ==
  ASSUME NEW o \in OutputRec
  PROVE  /\ begin(o) \in OutputRec
         /\ \A v \in 0..100 : setVolume(o, v) \in OutputRec
         /\ \A mute \in BOOLEAN : setMute(o, mute) \in OutputRec
         /\ \A ms \in Int : writeHeader(o, ms) \in OutputRec
         /\ \A d : written(o, d) \in OutputRec
<1>1. \A n \in 0..100 : n * 1 \in Int
  OBVIOUS
<1>2. ASSUME NEW p \in OutputRec, NEW n \in 0..100 PROVE setVolume(p, n) \in OutputRec
  <2>1. n * p.vol_factor \in Int
    BY <1>1 DEF OutputRec
  <2> QED BY <2>1 DEF OutputRec, setVolume
<1>3. begin(o) \in OutputRec
  <2>1. o.vol * o.vol_factor \in Int
    BY <1>1 DEF OutputRec
  <2> QED BY <2>1 DEF OutputRec, begin
<1>4. ASSUME NEW mute \in BOOLEAN PROVE setMute(o, mute) \in OutputRec
  <2> DEFINE m == [o EXCEPT !.is_mute = mute]
             n == IF mute THEN 0 ELSE o.vol
  <2>1. m \in OutputRec /\ n \in 0..100
    BY DEF OutputRec
  <2>2. setMute(o, mute) = setVolume(m, n)
    BY DEF setMute
  <2> HIDE DEF m, n
  <2> QED BY <1>2, <2>1, <2>2
<1>5. ASSUME NEW ms \in Int PROVE writeHeader(o, ms) \in OutputRec
  BY DEF OutputRec, writeHeader
<1>6. ASSUME NEW d PROVE written(o, d) \in OutputRec
  <2>1. synchronizePlayback(o, d) \in BOOLEAN
    BY DEF synchronizePlayback, isValid
  <2> QED BY <2>1 DEF OutputRec, written, synchronized
<1> QED BY <1>2, <1>3, <1>4, <1>5, <1>6

(* The members of the messages. *)
LEMMA MemberTypes ==
  ASSUME NEW m \in AllMessages
  PROVE  /\ m.type = "codec" => m.codec \in Codecs
         /\ m.type = "chunk" => m.timestamp \in Int
         /\ m.type = "settings" => m.settings \in Settings
<1>1. CASE m \in [type : {"codec"}, codec : Codecs] \cup [type : {"chunk"}, timestamp : Int]
  BY <1>1
<1>2. CASE m \in [type : {"settings"}, settings : Settings]
  BY <1>2
<1>3. CASE m \in [type : Others] \cup [type : {"time"}, sent : Int]
  BY <1>3, Constants
<1> QED BY <1>1, <1>2, <1>3 DEF AllMessages

LEMMA HandledNext ==
  ASSUME LoopInv, ReplyInv, HandledType, [Next]_vars
  PROVE  HandledType'
<1>1. base_message.type \in Types /\ loop_status = base_message.type =>
        base_message \in AllMessages
  BY Constants DEF LoopInv, NoMessage, Types
<1>2. CASE Begin
  <2>1. output' = output \/ output' = begin(output)
    BY <1>2 DEF Begin, HandleBegin
  <2>2. begin(output) \in OutputRec
    BY OutputOps DEF HandledType
  <2> QED BY <1>2, <2>1, <2>2 DEF Begin, HandleBegin, HandledType
<1>3. CASE ProcessMessageCodecHeader
  <2>1. base_message.codec \in Codecs
    BY <1>1, <1>3, MemberTypes DEF ProcessMessageCodecHeader, LoopInv, Types
  <2>2. begin(output) \in OutputRec
    BY OutputOps DEF HandledType
  <2>3. HandleCodecHeader(base_message.codec)
    BY <1>3 DEF ProcessMessageCodecHeader
  <2> QED BY <2>1, <2>2, <2>3 DEF HandleCodecHeader, HandledType
<1>4. CASE ProcessMessageWireChunk
  <2> DEFINE ms == base_message.timestamp
  <2>1. ms \in Int
    BY <1>1, <1>4, MemberTypes DEF ProcessMessageWireChunk, LoopInv, Types
  <2>2. HandleWireChunk(ms, millis)
    BY <1>4 DEF ProcessMessageWireChunk
  <2> HIDE DEF ms
  <2>3. \A d : written(writeHeader(output, ms), d) \in OutputRec
    <3>1. writeHeader(output, ms) \in OutputRec
      BY <2>1, OutputOps DEF HandledType
    <3> QED BY <3>1, OutputOps
  <2> QED BY <2>2, <2>3 DEF HandleWireChunk, HandledType
<1>5. CASE ProcessMessageServerSettings
  <2> DEFINE s == base_message.settings
             o == IF header_received THEN setMute(output, s.muted) ELSE output
  <2>1. s \in Settings
    BY <1>1, <1>5, MemberTypes DEF ProcessMessageServerSettings, LoopInv, Types
  <2>2. /\ s.buffer_ms \in Nat /\ s.latency \in Nat /\ s.muted \in BOOLEAN
        /\ s.volume \in 0..100
    BY <2>1, SessionAssumption
  <2>3. /\ delay' = setMessageBufferDelay(s.buffer_ms + s.latency)
        /\ output' = setVolume(o, s.volume)
        /\ UNCHANGED <<header_received, codec_from_server, snap_time>>
    BY <1>5 DEF ProcessMessageServerSettings, HandleServerSettings
  <2> HIDE DEF s
  <2>4. o \in OutputRec
    BY <2>2, OutputOps DEF HandledType
  <2> HIDE DEF o
  <2>5. output' \in OutputRec
    BY <2>2, <2>3, <2>4, OutputOps
  <2>6. delay' \in 0..(U16 - 1)
    BY <2>2, <2>3, OutputAssumption DEF setMessageBufferDelay
  <2> QED BY <2>3, <2>5, <2>6 DEF HandledType
<1>6. CASE ProcessMessageTime
  <2>1. snap_time' \in TimeRec
    BY <1>6, TimeSet DEF HandledType
  <2> QED BY <1>6, <2>1 DEF ProcessMessageTime, HandleTime, HandledType
<1>7. CASE \/ End \/ LoopStart \/ LoopStep \/ ReadBaseMessage \/ ReadData \/ SkipWireChunk
           \/ ProcessMessageOther \/ WriteTimedMessage \/ LoopEnd
  <2>1. UNCHANGED handled
    BY <1>7 DEF End, LoopStart, LoopStep, ReadBaseMessage, ReadData, BodyRead,
                SkipWireChunk, ProcessMessageOther, WriteTimedMessage, LoopEnd
  <2> QED BY <2>1 DEF handled, HandledType
<1>8. CASE Environment \/ UNCHANGED vars
  <2>1. UNCHANGED handled
    BY <1>8 DEF Environment, ServerSend, ServerReply, Send, Arrive, Close, Reset, Tick,
                SetClock, vars, client
  <2> QED BY <2>1 DEF handled, HandledType
<1> QED BY <1>2, <1>3, <1>4, <1>5, <1>6, <1>7, <1>8 DEF Next, DoLoop, ProcessMessage

-----------------------------------------------------------------------------
LEMMA Initially ==
  ASSUME Init
  PROVE  IInv
<1>1. LinkType /\ Streamed
  <2>1. <<>> \in Seq(AllMessages)
    OBVIOUS
  <2> QED BY <2>1, Constants DEF Init, LinkType, Streamed
<1>2. LoopInv
  BY SessionAssumption, Constants DEF Init, LoopInv, Statuses, Types
<1>3. HelloInv /\ ReplyInv /\ LagInv /\ AskedInv
  BY DEF Init, HelloInv, ReplyInv, LagInv, AskedInv, NoMessage
<1>4. HandledType
  <2>1. InitialTime \in TimeRec
    BY Constants DEF InitialTime, TimeRec
  <2>2. InitialOutput \in OutputRec
    BY DEF InitialOutput, OutputRec
  <2>3. 0 \in 0..(U16 - 1)
    BY OutputAssumption
  <2> QED BY <2>1, <2>2, <2>3 DEF Init, HandlersInit, HandledType
<1> QED BY <1>1, <1>2, <1>3, <1>4 DEF IInv

LEMMA Inductive == IInv /\ [Next]_vars => IInv'
<1> SUFFICES ASSUME IInv, [Next]_vars PROVE IInv'
  OBVIOUS
<1>1. /\ LinkType /\ Streamed /\ LoopInv /\ HelloInv /\ ReplyInv /\ LagInv /\ AskedInv
      /\ HandledType
  BY DEF IInv
<1>2. snap_time \in TimeRec
  BY <1>1 DEF HandledType
<1>3. LinkType' /\ Streamed' /\ LoopInv' /\ HelloInv' /\ ReplyInv'
  BY <1>1, LinkNext, LoopNext, HelloNext, ReplyNext
<1>4. LagInv' /\ AskedInv' /\ HandledType'
  BY <1>1, <1>2, LagNext, AskedNext, HandledNext
<1> QED BY <1>3, <1>4 DEF IInv

(* What holds in every state of the session. *)
THEOREM InductiveInvariant == Spec => []IInv
<1>1. Init => IInv
  BY Initially
<1> QED BY <1>1, Inductive, PTL DEF Spec

(* Every variable keeps its type, whatever the server sends and when the   *)
(* connection is lost.                                                     *)
THEOREM TypeCorrect == Spec => []TypeOK
<1>1. IInv => TypeOK
  <2> SUFFICES ASSUME IInv PROVE TypeOK
    OBVIOUS
  <2>1. LinkType /\ LoopInv /\ HandledType
    BY DEF IInv
  <2>2. /\ inflight \in Nat /\ avail \in 0..Window /\ requests \in Nat
        /\ conn \in {"none", "up", "closed", "reset"}
    BY <2>1, Constants DEF LinkType
  <2>3. base_message.type \in {"none", "codec", "chunk", "settings", "time"} \cup Others
    BY <2>1, MessageType DEF LoopInv, NoMessage, Types
  <2>4. /\ snap_time.server_ms \in 0..(W - 1) /\ snap_time.time_diff \in 0..(W - 1)
        /\ output.vol \in 0..100
    BY <2>1 DEF HandledType, TimeRec, OutputRec
  <2>5. now \in 0..MaxTime
    BY <2>1, Constants DEF LoopInv
  <2> QED BY <2>1, <2>2, <2>3, <2>4, <2>5 DEF TypeOK, LoopInv, HandledType
<1> QED BY <1>1, InductiveInvariant, PTL

(* The client never loses its place in the byte stream: what is on its way *)
(* or unread is what the messages it has not read are made of, through     *)
(* every read, every reset and every reconnection.                         *)
THEOREM StreamIsAligned == Spec => []StreamAligned
<1>1. IInv => StreamAligned
  <2> SUFFICES ASSUME IInv, conn \in {"up", "closed"}
               PROVE  avail + inflight = UnitsOf(stream) + Pending
    BY DEF StreamAligned, Pending
  <2>1. stream \in Seq(AllMessages) /\ Sums(stream, avail + inflight - Pending)
    BY DEF IInv, LinkType, Streamed
  <2>2. avail \in Int /\ inflight \in Int /\ Pending \in Int
    BY UnitsType DEF IInv, LinkType, Pending
  <2>3. UnitsOf(stream) = avail + inflight - Pending
    BY <2>1, <2>2, SumsIsUnitsOf
  <2> QED BY <2>2, <2>3
<1> QED BY <1>1, InductiveInvariant, PTL

(* On every connection the client says hello, once and before it asks for  *)
(* the time, however often the connection was lost before.                 *)
THEOREM HelloComesFirst == Spec => []HelloFirst
<1>1. IInv => HelloFirst
  BY DEF IInv, HelloInv, HelloFirst, LinkType
<1> QED BY <1>1, InductiveInvariant, PTL

(* serverMillis() is the server's clock but for the age of the last reply, *)
(* whatever the client's clock is set to and across every wrap.            *)
THEOREM ServerTimeIsLate == Spec => []ServerTimeLags
<1>1. IInv => ServerTimeLags
  <2> SUFFICES ASSUME IInv, lag # -1
               PROVE  /\ lag >= 0
                      /\ serverMillis(snap_time, millis) = uint32(ServerClock - lag)
    BY DEF ServerTimeLags
  <2>1. PICK s \in Int, n \in Nat :
          /\ lag = (StartServer + n) - s /\ lag >= 0
          /\ snap_time.server_ms = uint32(StartMillis + n)
          /\ snap_time.time_diff = uint32(snap_time.server_time - s)
    BY DEF IInv, LagInv
  <2>2. now \in Nat /\ snap_time \in TimeRec
    BY DEF IInv, LoopInv, HandledType
  <2> DEFINE h == StartMillis + n
             m == StartMillis + now
  <2>3. h \in Int /\ m \in Int
    BY <2>2, Constants
  <2>4. s + m - h = ServerClock - lag
    BY <2>1, <2>2, Constants DEF ServerClock
  <2>5. millis = uint32(m)
    BY DEF millis
  <2>6. snap_time.server_ms = uint32(h)
    BY <2>1
  <2> HIDE DEF h, m
  <2>7. serverMillis(snap_time, uint32(m)) = uint32(s + m - h)
    BY <2>1, <2>2, <2>3, <2>6, Extrapolated
  <2> QED BY <2>1, <2>4, <2>5, <2>7
<1> QED BY <1>1, InductiveInvariant, PTL

(* Unless the client was kept waiting for as long as its clock takes to    *)
(* wrap, it has asked for the time less than TimeSyncInterval ago whenever *)
(* a message was handled, and never asks sooner.                           *)
THEOREM AsksInTime == MaxTime < W => (Spec => PolledInTime)
<1> SUFFICES ASSUME MaxTime < W PROVE Spec => PolledInTime
  OBVIOUS
<1> DEFINE A == loop_status = "writeTimedMessage" /\ loop_status' = "LoopStep" /\ asked' # -1 =>
                  /\ now - asked' < TimeSyncInterval
                  /\ asked # -1 /\ asked' # asked => asked' - asked >= TimeSyncInterval
<1>1. ASSUME IInv, Next, loop_status = "writeTimedMessage", loop_status' = "LoopStep",
             asked' # -1
      PROVE  /\ now - asked' < TimeSyncInterval
             /\ asked # -1 /\ asked' # asked => asked' - asked >= TimeSyncInterval
  <2>1. LoopInv /\ AskedInv
    BY <1>1 DEF IInv
  <2>2. WriteTimedMessage
    BY <1>1, Constants
       DEF Next, Begin, End, DoLoop, LoopStart, LoopStep, ReadBaseMessage, ReadData,
           ProcessMessage, ProcessMessageCodecHeader, ProcessMessageWireChunk,
           SkipWireChunk, ProcessMessageServerSettings, ProcessMessageTime,
           ProcessMessageOther, MessageDone, LoopEnd, Environment, ServerSend,
           ServerReply, Send, Arrive, Close, Reset, Tick, SetClock, client
  <2>3. asked # -1 => TimeDue = (now - asked >= TimeSyncInterval)
    <3> SUFFICES ASSUME asked # -1 PROVE TimeDue = (now - asked >= TimeSyncInterval)
      OBVIOUS
    <3>1. /\ asked \in Nat /\ asked <= now /\ now \in Nat /\ now <= MaxTime
          /\ last_time_sync = uint32(StartMillis + asked)
      BY <2>1 DEF LoopInv, AskedInv
    <3> DEFINE a == StartMillis + asked
               m == StartMillis + now
    <3>2. a \in Int /\ m \in Int
      BY <3>1, Constants
    <3>3. Congruent(uint32(m) - uint32(a), m - a) /\ uint32(m) \in Int /\ uint32(a) \in Int
      BY <3>2, Wraps, CongruentSum
    <3>4. uint32(uint32(m) - uint32(a)) = uint32(m - a)
      BY <3>2, <3>3, SameResidue
    <3>5. m - a = now - asked /\ now - asked \in 0..(W - 1)
      BY <3>1, Constants
    <3> HIDE DEF a, m
    <3>6. uint32(now - asked) = now - asked
      BY <3>5, Constants DEF uint32
    <3>7. TimeDue = (uint32(uint32(m) - uint32(a)) >= TimeSyncInterval)
      BY <3>1 DEF TimeDue, millis, a, m
    <3> QED BY <3>4, <3>5, <3>6, <3>7
  <2>4. CASE TimeDue
    <3>1. asked' = now
      BY <2>2, <2>4 DEF WriteTimedMessage
    <3>2. now - now < TimeSyncInterval
      BY <2>1, Constants DEF LoopInv
    <3>3. asked # -1 => now - asked >= TimeSyncInterval
      BY <2>3, <2>4, Zenon
    <3> QED BY <3>1, <3>2, <3>3, Zenon
  <2>5. CASE ~TimeDue
    <3>1. asked' = asked
      BY <2>2, <2>5 DEF WriteTimedMessage
    <3>2. asked # -1
      BY <1>1, <3>1, Zenon
    <3>3. ~(now - asked >= TimeSyncInterval)
      BY <2>3, <2>5, <3>2, Zenon
    <3>4. now - asked < TimeSyncInterval
      BY <2>1, <3>2, <3>3, Constants DEF LoopInv, AskedInv
    <3> QED BY <3>1, <3>4, Zenon
  <2> QED BY <2>4, <2>5, Zenon
<1>2. IInv /\ [Next]_vars => [A]_vars
  BY <1>1, Zenon
<1>3. Spec => [][A]_vars
  BY <1>2, InductiveInvariant, PTL DEF Spec
<1> QED BY <1>3 DEF PolledInTime
=============================================================================
