---------------------------- MODULE SnapProcessor ----------------------------
(***************************************************************************)
(* src/api/SnapProcessor.h: the session of the client with the snapcast    *)
(* server, driven by doLoop(): connect, say hello, then read one message   *)
(* after the other and act on it, asking for the server time as it goes.   *)
(* What it does with a message is in SnapHandlers; the audio goes straight *)
(* to SnapOutput, SnapPlayback has the processors that buffer it.          *)
(*                                                                         *)
(* The client is one thread.  Between its steps the server sends, TCP      *)
(* delivers, the connection is lost and time passes.  A message is a base  *)
(* part (one unit of data) and a body (Units of it); available() counts    *)
(* the units that have arrived, at most Window of them unread.             *)
(*                                                                         *)
(* Time is counted in ticks; TimeSyncInterval ticks are the second after   *)
(* which the client asks again.  The speed of the playback is a matter of  *)
(* SnapTimeSync and does not act back on what is modelled here.            *)
(***************************************************************************)
EXTENDS SnapHandlers, Sequences

CONSTANTS
  TimeSyncInterval, \* 1000 ms
  StartMillis,      \* millis() when the application starts
  StartServer,      \* the server's clock then
  WallOffsets,      \* gettimeofday() minus the ticks since then, SNTP may step it
  Codecs,           \* the codecs the server may announce
  Settings,         \* the server settings it may send
  ChunkAges,        \* age of the audio in a chunk when it is sent
  Others,           \* what it may send that the client ignores
  ChunkUnits,       \* body of a chunk; all other bodies are one unit
  Window,           \* units TCP keeps for the client
  FastLoop,         \* is_fast_loop
  OutputStart,      \* output_start
  HelloMayFail,     \* may the application give names beyond MAX_JSON_LEN?
  MaxTime,          \* bounds of the model: ticks,
  MaxSent,          \* messages sent by the server but for time replies,
  MaxConnects,      \* connections
  MaxDrops          \* and connections lost

ASSUME SessionAssumption ==
  /\ TimeSyncInterval \in 1..(W - 1)
  /\ StartMillis \in 0..(W - 1)
  /\ StartServer \in Nat
  /\ WallOffsets \subseteq Int /\ WallOffsets # {}
  /\ \A s \in Settings : s \in [buffer_ms : Nat, latency : Nat, muted : BOOLEAN,
                                volume : 0..100]
  /\ ChunkAges \subseteq Int
  /\ Others \subseteq {"tags", "error", "malformed"}
  /\ ChunkUnits \in Nat \ {0}
  /\ Window \in Nat \ {0}
  /\ {FastLoop, OutputStart, HelloMayFail} \subseteq BOOLEAN
  /\ {MaxTime, MaxSent, MaxConnects, MaxDrops} \subseteq Nat

VARIABLES
  (* the client, besides what the handlers keep *)
  loop_status,      \* LoopStart, LoopStep, LoopEnd, or where in LoopStep
  last_time_sync,
  base_message,     \* the message whose base part was read last
  received,         \* base_message.received
  hello_fits,       \* the names given by the application fit MAX_JSON_LEN
  (* the connection and the server *)
  conn,             \* "none", "up", "closed" by the server, "reset"
  stream,           \* messages sent whose base part has not been read
  inflight,         \* units sent that have not arrived
  avail,            \* units that have arrived and were not read
  hellos,           \* hello messages the server got on this connection
  requests,         \* time messages the server has to answer
  (* time and bounds *)
  now, wall, sent, connects, drops,
  (* history *)
  lag,              \* age of the last time reply when it was handled, or -1
  asked             \* when the last time message was sent since begin(), or -1

loop     == <<last_time_sync, base_message, received, hello_fits>>
client   == <<loop_status, loop, handled>>
link     == <<conn, stream, inflight, avail, hellos, requests>>
clocks   == <<now, wall>>
bounds   == <<sent, connects, drops>>
history  == <<lag, asked>>
vars     == <<client, link, clocks, bounds, history>>

(* millis() and the server's clock *)
millis == uint32(StartMillis + now)
ServerClock == StartServer + now

NoMessage == [type |-> "none"]

Units(m) == IF m.type = "chunk" THEN ChunkUnits ELSE 1

connected == conn = "up" \/ (conn = "closed" /\ avail + inflight > 0)

-----------------------------------------------------------------------------
Init ==
  /\ loop_status = "down"
  /\ HandlersInit
  /\ last_time_sync = 0
  /\ base_message = NoMessage
  /\ received = 0
  /\ hello_fits = TRUE
  /\ conn = "none"
  /\ stream = <<>>
  /\ inflight = 0 /\ avail = 0 /\ hellos = 0 /\ requests = 0
  /\ now = 0 /\ wall \in WallOffsets
  /\ sent = 0 /\ connects = 0 /\ drops = 0
  /\ lag = -1 /\ asked = -1

(***************************************************************************)
(* The connection, as WiFiClient shows it (external).                      *)
(***************************************************************************)

(* stop(): what was on its way is gone. *)
Disconnected(state) ==
  /\ conn' = state
  /\ stream' = <<>> /\ inflight' = 0 /\ avail' = 0 /\ requests' = 0

(* connectClient(): true, with a connection that was up or a new one, or   *)
(* false.  n hello messages follow at once.                                *)
ConnectClient(result, n) ==
  \/ /\ connected /\ result
     /\ hellos' = hellos + n
     /\ UNCHANGED <<conn, stream, inflight, avail, requests, connects>>
  \/ /\ ~connected /\ result
     /\ connects < MaxConnects
     /\ connects' = connects + 1
     /\ Disconnected("up")
     /\ hellos' = n
  \/ /\ ~connected /\ ~result
     /\ Disconnected("none")
     /\ hellos' = 0
     /\ UNCHANGED connects

(***************************************************************************)
(* The client.                                                             *)
(***************************************************************************)
(* The application may have given other names.  The result of connecting   *)
(* does not matter: doLoop() tries again.                                  *)
Begin ==
  /\ loop_status = "down"
  /\ hello_fits' \in {TRUE, ~HelloMayFail}
  /\ HandleBegin(OutputStart)
  /\ \E result \in BOOLEAN : ConnectClient(result, 0)
  /\ last_time_sync' = 0
  /\ loop_status' = "LoopStart"
  /\ asked' = -1
  /\ UNCHANGED <<base_message, received, clocks, sent, drops, lag>>

(* end(): audioEnd() does nothing; doLoop() must not be called any more.   *)
(* The slow loop only returns to the application without a connection.     *)
End ==
  /\ loop_status \in IF FastLoop THEN {"LoopStart", "LoopStep", "LoopEnd"}
                                 ELSE {"LoopStart"}
  /\ Disconnected("none")
  /\ hellos' = 0
  /\ loop_status' = "down"
  /\ UNCHANGED <<loop, handled, clocks, bounds, history>>

(* mutant of LoopStart: the hello is said again and again *)
LoopStartTwice ==
  /\ loop_status = "LoopStart"
  /\ \/ ConnectClient(TRUE, 1) /\ loop_status' \in {"LoopStep", "LoopStart"}
     \/ ConnectClient(FALSE, 0) /\ UNCHANGED loop_status
  /\ UNCHANGED <<loop, handled, clocks, sent, drops, history>>

(* connectClient() and writeHallo(). *)
LoopStart ==
  /\ loop_status = "LoopStart"
  /\ \/ hello_fits /\ ConnectClient(TRUE, 1) /\ loop_status' = "LoopStep"
     \/ ~hello_fits /\ ConnectClient(TRUE, 0) /\ UNCHANGED loop_status
     \/ ConnectClient(FALSE, 0) /\ UNCHANGED loop_status
  /\ UNCHANGED <<loop, handled, clocks, sent, drops, history>>

(* processMessageLoop(): available() >= BASE_MESSAGE_SIZE *)
LoopStep ==
  /\ loop_status = "LoopStep"
  /\ avail > 0
  /\ loop_status' = "readBaseMessage"
  /\ UNCHANGED <<loop, handled, link, clocks, bounds, history>>

(* mutant of ReadBaseMessage: after a short read the loop goes on *)
ReadBaseMessageAgain ==
  /\ loop_status = "readBaseMessage"
  /\ IF avail > 0
       THEN /\ base_message' = Head(stream)
            /\ stream' = Tail(stream)
            /\ avail' = avail - 1
            /\ received' = now + wall
            /\ loop_status' = "readData"
       ELSE /\ loop_status' = "LoopStep"
            /\ UNCHANGED <<base_message, stream, avail, received>>
  /\ UNCHANGED <<handled, last_time_sync, hello_fits, conn, inflight, hellos,
                 requests, clocks, bounds, history>>

(* readBaseMessage(): a read is only short when the connection was reset   *)
(* meanwhile.                                                              *)
ReadBaseMessage ==
  /\ loop_status = "readBaseMessage"
  /\ IF avail > 0
       THEN /\ base_message' = Head(stream)
            /\ stream' = Tail(stream)
            /\ avail' = avail - 1
            /\ received' = now + wall
            /\ loop_status' = "readData"
       ELSE /\ loop_status' = "LoopEnd"
            /\ UNCHANGED <<base_message, stream, avail, received>>
  /\ UNCHANGED <<handled, last_time_sync, hello_fits, conn, inflight, hellos,
                 requests, clocks, bounds, history>>

BodyRead ==
  /\ loop_status' = base_message.type
  /\ UNCHANGED <<loop, handled, conn, stream, inflight, hellos, requests,
                 clocks, bounds, history>>

(* mutant of ReadData: only the start of the body is waited for *)
ReadDataEarly ==
  loop_status = "readData" /\ avail > 0 /\ avail' = 0 /\ BodyRead

(* mutant of ReadData: <= in place of < *)
ReadDataOneMore ==
  /\ loop_status = "readData"
  /\ avail > Units(base_message)
  /\ avail' = avail - Units(base_message)
  /\ BodyRead

(* readData(): waits, for ever if need be, until the whole body is there.  *)
ReadData ==
  /\ loop_status = "readData"
  /\ avail >= Units(base_message)
  /\ avail' = avail - Units(base_message)
  /\ BodyRead

(* The message is handled; then comes the time message.                    *)
MessageDone ==
  /\ loop_status' = "writeTimedMessage"
  /\ UNCHANGED <<loop, link, clocks, bounds, asked>>

ProcessMessageCodecHeader ==
  /\ loop_status = "codec"
  /\ HandleCodecHeader(base_message.codec)
  /\ MessageDone
  /\ UNCHANGED lag

ProcessMessageWireChunk ==
  /\ loop_status = "chunk"
  /\ header_received
  /\ HandleWireChunk(base_message.timestamp, millis)
  /\ MessageDone
  /\ UNCHANGED lag

(* A chunk before any header: not even the time message is considered.     *)
SkipWireChunk ==
  /\ loop_status = "chunk"
  /\ ~header_received
  /\ loop_status' = "LoopStep"
  /\ UNCHANGED <<loop, handled, link, clocks, bounds, history>>

ProcessMessageServerSettings ==
  /\ loop_status = "settings"
  /\ HandleServerSettings(base_message.settings)
  /\ MessageDone
  /\ UNCHANGED lag

ProcessMessageTime ==
  /\ loop_status = "time"
  /\ HandleTime(received, base_message.sent, millis)
  /\ MessageDone
  /\ lag' = ServerClock - base_message.sent

(* Any other type, and a chunk or a time reply that cannot be read, is     *)
(* ignored.                                                                *)
ProcessMessageOther ==
  /\ loop_status \in Others
  /\ MessageDone
  /\ UNCHANGED <<handled, lag>>

(* mutant of TimeDue: signed arithmetic, wrong once millis() has wrapped *)
TimeDueSigned == millis - last_time_sync >= TimeSyncInterval

TimeDue == uint32(millis - last_time_sync) >= TimeSyncInterval

(* writeTimedMessage(), writeMessage(): always true *)
WriteTimedMessage ==
  /\ loop_status = "writeTimedMessage"
  /\ loop_status' = "LoopStep"
  /\ IF TimeDue
       THEN /\ last_time_sync' = millis
            /\ requests' = IF conn = "up" THEN requests + 1 ELSE requests
            /\ asked' = now
       ELSE UNCHANGED <<last_time_sync, requests, asked>>
  /\ UNCHANGED <<handled, base_message, received, hello_fits, conn, stream,
                 inflight, avail, hellos, clocks, bounds, lag>>

LoopEnd ==
  /\ loop_status = "LoopEnd"
  /\ loop_status' = "LoopStart"
  /\ UNCHANGED <<loop, handled, link, clocks, bounds, history>>

-----------------------------------------------------------------------------
(***************************************************************************)
(* The server and the network (external).                                  *)
(***************************************************************************)
Send(m) ==
  /\ conn = "up" /\ hellos > 0
  /\ stream' = Append(stream, m)
  /\ inflight' = inflight + 1 + Units(m)
  /\ UNCHANGED <<client, conn, avail, hellos, clocks, connects, drops, history>>

(* After the hello the server sends codec headers, the audio that is being *)
(* recorded, and settings whenever they change.                            *)
Messages ==
  [type : {"codec"}, codec : Codecs]
    \cup [type : {"chunk"}, timestamp : {ServerClock - a : a \in ChunkAges}]
    \cup [type : {"settings"}, settings : Settings]
    \cup [type : Others]

ServerSend ==
  /\ sent < MaxSent
  /\ sent' = sent + 1
  /\ \E m \in Messages : Send(m)
  /\ UNCHANGED requests

ServerReply ==
  /\ requests > 0
  /\ requests' = requests - 1
  /\ Send([type |-> "time", sent |-> ServerClock])
  /\ UNCHANGED sent

Arrive ==
  /\ inflight > 0
  /\ avail < Window
  /\ inflight' = inflight - 1
  /\ avail' = avail + 1
  /\ UNCHANGED <<client, conn, stream, hellos, requests, clocks, bounds, history>>

(* The server closes: what it has sent still arrives. *)
Close ==
  /\ conn = "up" /\ drops < MaxDrops
  /\ conn' = "closed"
  /\ requests' = 0
  /\ drops' = drops + 1
  /\ UNCHANGED <<client, stream, inflight, avail, hellos, clocks, sent,
                 connects, history>>

(* The connection is reset: unread data is gone. *)
Reset ==
  /\ conn = "up" /\ drops < MaxDrops
  /\ Disconnected("reset")
  /\ drops' = drops + 1
  /\ UNCHANGED <<client, hellos, clocks, sent, connects, history>>

Tick ==
  /\ now < MaxTime
  /\ now' = now + 1
  /\ UNCHANGED <<client, link, wall, bounds, history>>

(* SNTP or the application sets the clock of the client. *)
SetClock ==
  /\ wall' \in WallOffsets \ {wall}
  /\ UNCHANGED <<client, link, now, bounds, history>>

-----------------------------------------------------------------------------
ProcessMessage ==
  \/ ProcessMessageCodecHeader
  \/ ProcessMessageWireChunk
  \/ SkipWireChunk
  \/ ProcessMessageServerSettings
  \/ ProcessMessageTime
  \/ ProcessMessageOther

DoLoop ==
  \/ LoopStart
  \/ LoopStep
  \/ ReadBaseMessage
  \/ ReadData
  \/ ProcessMessage
  \/ WriteTimedMessage
  \/ LoopEnd

Environment ==
  \/ ServerSend
  \/ ServerReply
  \/ Arrive
  \/ Close
  \/ Reset
  \/ Tick
  \/ SetClock

Next == Begin \/ End \/ DoLoop \/ Environment

Spec == Init /\ [][Next]_vars

(* A server that can be reached is reached. *)
Connect == LoopStart /\ loop_status' = "LoopStep"

(* The application calls doLoop() all the time, TCP delivers what it has.  *)
FairSpec == Spec /\ WF_vars(DoLoop) /\ WF_vars(Connect) /\ WF_vars(Arrive)

-----------------------------------------------------------------------------
Statuses ==
  {"down", "LoopStart", "LoopStep", "LoopEnd", "readBaseMessage", "readData",
   "codec", "chunk", "settings", "time", "writeTimedMessage"} \cup Others

TypeOK ==
  /\ loop_status \in Statuses
  /\ header_received \in BOOLEAN /\ hello_fits \in BOOLEAN
  /\ codec_from_server \in {"NO_CODEC"} \cup (Codecs \cap Supported)
  /\ last_time_sync \in 0..(W - 1)
  /\ base_message.type \in {"none", "codec", "chunk", "settings", "time"} \cup Others
  /\ received \in Int
  /\ snap_time.server_ms \in 0..(W - 1) /\ snap_time.time_diff \in 0..(W - 1)
  /\ output.vol \in 0..100
  /\ delay \in 0..(U16 - 1)
  /\ conn \in {"none", "up", "closed", "reset"}
  /\ inflight \in Nat /\ avail \in 0..Window
  /\ requests \in Nat
  /\ now \in 0..MaxTime /\ wall \in WallOffsets

(***************************************************************************)
(* Safety.                                                                 *)
(***************************************************************************)

(* The units that are on their way or unread are those of the messages the *)
(* client has not read: it never loses its place in the byte stream.       *)
UnitsOf(s) ==
  LET upTo[i \in 0..Len(s)] == IF i = 0 THEN 0 ELSE upTo[i - 1] + 1 + Units(s[i])
  IN  upTo[Len(s)]

StreamAligned ==
  conn \in {"up", "closed"} =>
    avail + inflight = UnitsOf(stream)
                         + (IF loop_status = "readData" THEN Units(base_message) ELSE 0)

(* serverMillis() is the server's clock as it was when it sent the reply   *)
(* handled last, plus the time since that was handled: late by the age of  *)
(* the reply, never ahead, whatever the clock of the client is set to and  *)
(* across the wrap of millis().                                            *)
ServerTimeLags ==
  lag # -1 => /\ lag >= 0
              /\ serverMillis(snap_time, millis) = uint32(ServerClock - lag)

(* On every connection the client says hello, once and before it asks for  *)
(* the time.                                                               *)
HelloFirst == conn = "up" => hellos <= 1 /\ (requests > 0 => hellos = 1)

(* Handling a message leaves the last request for the time younger than    *)
(* TimeSyncInterval, and two requests are never closer, across the wrap of *)
(* millis().                                                               *)
PolledInTime ==
  [][loop_status = "writeTimedMessage" /\ loop_status' = "LoopStep" /\ asked' # -1 =>
       /\ now - asked' < TimeSyncInterval
       /\ asked # -1 /\ asked' # asked => asked' - asked >= TimeSyncInterval]_vars

(***************************************************************************)
(* Progress.                                                               *)
(***************************************************************************)

(* A body that fits the window is read, unless it is lost.                 *)
BodyIsRead == loop_status = "readData" ~> (loop_status # "readData" \/ conn = "reset")

(* The client reads all that the server sends, even when it closes the     *)
(* connection right after, unless the connection is lost or ended.         *)
AllIsRead == stream # <<>> ~> stream = <<>>

(* If the connection is lost between available() and the read, the client  *)
(* connects again and says hello on the new connection, unless the         *)
(* application ends it; a connection must be left to be had.               *)
Recovers ==
  (/\ loop_status = "readBaseMessage" /\ conn = "reset" /\ hello_fits
   /\ connects < MaxConnects)
    ~> (hellos = 1 /\ conn \notin {"reset", "none"}) \/ loop_status = "down"

(***************************************************************************)
(* What the source says and the code does not do.                          *)
(***************************************************************************)

(* "Records the actual server time in millisecondes": what the time        *)
(* synchronizer gets is the server's time, late by the age of the reply.   *)
SyncGetsServerTime ==
  loop_status = "time" =>
    uint32(toMillis(received) - toMillis(base_message.sent))
      <= ServerClock - base_message.sent
=============================================================================
