------------------------------ MODULE SnapWire ------------------------------
(***************************************************************************)
(* The bytes between the snapcast server and the client: what one side     *)
(* puts together with src/api/SnapProtocol.h the other takes apart.        *)
(* readBaseMessage() and readData() (src/api/SnapProcessor.h) cut the      *)
(* stream into messages by the size in each base part, which may be there  *)
(* before the last bytes are; a read is only short when the connection is  *)
(* reset after available() had said that all was there.  base_message is   *)
(* one object for reading and for writing.                                 *)
(*                                                                         *)
(* The server's side is external: it is taken to use the same layout.      *)
(* What becomes of a message is the matter of SnapProcessor, chunks before *)
(* the first codec header, which are skipped unread, included.             *)
(***************************************************************************)
EXTENDS SnapProtocol

SE == INSTANCE SequencesExt

CONSTANTS
  Bases,           \* base parts, but for type and size, of the messages that
                   \* the server sends, in turn: they bound the model
  Chunks,          \* records sec, usec, payload
  CodecHeaders,    \* records codec, payload
  Jsons,           \* texts of settings
  Hellos,          \* texts of the hello, depending on the application's names
  Losses,          \* how many of the client's last bytes a reset may lose
  Now              \* the wall clock, which stands still here

ASSUME WireAssumption ==
  /\ B > 2                      \* the types of messages fit a uint16_t
  /\ Bases \in Seq([type : {0}, id : uint16, refersTo : uint16, sentSec : int32,
                   sentUsec : int32, receivedSec : int32, receivedUsec : int32,
                   size : {0}])
  /\ \A c \in Chunks :
       /\ c \in [sec : int32, usec : int32, payload : Seq(Byte)]
       /\ Len(c.payload) + 12 \in uint32
  /\ \A c \in CodecHeaders :
       /\ c \in [codec : Seq(Byte), payload : Seq(Byte)]
       /\ Len(c.codec) + Len(c.payload) + 8 \in uint32
  /\ \A j \in Jsons \cup Hellos :
       j \in Seq(Byte) /\ j # <<>> /\ Len(j) + 4 \in uint32
  /\ \A h \in Hellos : h[Len(h)] = Brace
  /\ Losses \subseteq Nat
  /\ Now \in [sec : int32, usec : int32]

CODEC_HEADER == 1
WIRE_CHUNK == 2
SERVER_SETTINGS == 3
TIME == 4
HELLO == 5
STREAM_TAGS == 6

VARIABLES
  wire,            \* bytes from the server that have come and were not read
  late,            \* the end of its last message, which has not come yet
  up,              \* the connection is up
  phase,           \* "hello", "available", "readBaseMessage", "wait",
                   \* "readData", "handle", "writeTimedMessage", "writeBody",
                   \* "lost", "crashed"
  base_message,
  body,            \* what was read last, or what is written after the base
                   \* part: send_receive_buffer, or the result of the hello
  time_message,
  toServer,        \* bytes from the client that were not read
  id_counter,
  (* history *)
  sent, got,       \* messages of the server and what the client makes of them
  meant, heard     \* messages of the client and what the server makes of them

client == <<phase, base_message, body, time_message>>
vars   == <<wire, late, up, client, toServer, id_counter, sent, got, meant, heard>>

NoBase == [type |-> 0, id |-> 0, refersTo |-> 0, sentSec |-> 0, sentUsec |-> 0,
           receivedSec |-> 0, receivedUsec |-> 0, size |-> 0]

Init ==
  /\ wire = <<>> /\ late = <<>> /\ up = TRUE
  /\ phase = "hello"
  /\ base_message = NoBase /\ body = <<>>
  /\ time_message = [latencySec |-> 0, latencyUsec |-> 0]
  /\ toServer = <<>> /\ id_counter = 0
  /\ sent = <<>> /\ got = <<>> /\ meant = <<>> /\ heard = <<>>

-----------------------------------------------------------------------------
(***************************************************************************)
(* The server writes (external).                                           *)
(***************************************************************************)
(* A message comes at once, or its last byte or all of its body later.     *)
ServerSend(type, bytes, content) ==
  /\ up /\ heard # <<>> /\ late = <<>>
  /\ Len(sent) < Len(Bases)
  /\ LET base == [Bases[Len(sent) + 1] EXCEPT !.type = type, !.size = Len(bytes)]
         all  == serialize(BaseFields, base, BASE_MESSAGE_SIZE).data \o bytes
     IN  /\ \E n \in {BASE_MESSAGE_SIZE, Len(all) - 1, Len(all)} :
              /\ wire' = wire \o SubSeq(all, 1, n)
              /\ late' = SubSeq(all, n + 1, Len(all))
         /\ sent' = Append(sent, [base |-> base, content |-> content])
  /\ UNCHANGED <<up, client, toServer, id_counter, got, meant, heard>>

SendChunk ==
  \E c \in Chunks :
    LET fields == [sec |-> c.sec, usec |-> c.usec, size |-> Len(c.payload)]
    IN  ServerSend(WIRE_CHUNK, serialize(ChunkFields, fields, 12).data \o c.payload, c)

SendCodecHeader ==
  \E c \in CodecHeaders :
    ServerSend(CODEC_HEADER,
               write_uint32(Len(c.codec)) \o c.codec
                 \o write_uint32(Len(c.payload)) \o c.payload, c)

SendSettings ==
  \E j \in Jsons : ServerSend(SERVER_SETTINGS, write_uint32(Len(j)) \o j, j)

(* The latency is any time: that of the base part. *)
SendTime ==
  /\ Len(sent) < Len(Bases)
  /\ LET m == Bases[Len(sent) + 1]
         t == [latencySec |-> m.sentSec, latencyUsec |-> m.sentUsec]
     IN  ServerSend(TIME, serialize(TimeFields, t, TIME_MESSAGE_SIZE).data, t)

SendTags == ServerSend(STREAM_TAGS, <<>>, <<>>)

Arrive ==
  /\ late # <<>>
  /\ wire' = wire \o late
  /\ late' = <<>>
  /\ UNCHANGED <<up, client, toServer, id_counter, sent, got, meant, heard>>

(* The connection is reset: some of what was not read is gone, in both      *)
(* directions.                                                             *)
Reset ==
  /\ up
  /\ up' = FALSE
  /\ late' = <<>>
  /\ \E n \in 0..Len(wire) : wire' = SubSeq(wire, 1, n)
  /\ \E n \in 0..Len(toServer) : /\ Len(toServer) - n \in Losses
                                 /\ toServer' = SubSeq(toServer, 1, n)
  /\ UNCHANGED <<client, id_counter, sent, got, meant, heard>>

-----------------------------------------------------------------------------
(***************************************************************************)
(* The client reads.                                                       *)
(***************************************************************************)
Available ==
  /\ phase = "available"
  /\ Len(wire) >= BASE_MESSAGE_SIZE
  /\ phase' = "readBaseMessage"
  /\ UNCHANGED <<wire, late, up, base_message, body, time_message, toServer, id_counter, sent, got, meant, heard>>

(* readBaseMessage() *)
ReadBaseMessage ==
  LET data == Bytes(wire, 0, BASE_MESSAGE_SIZE)
      read == deserialize(BaseFields, base_message, data)
  IN  /\ phase = "readBaseMessage"
      /\ wire' = SubSeq(wire, Len(data) + 1, Len(wire))
      /\ base_message' = IF read.result = 0
                           THEN [read.message EXCEPT !.receivedSec = Now.sec,
                                                     !.receivedUsec = Now.usec]
                           ELSE read.message
      /\ phase' = IF read.result = 0 THEN "wait" ELSE "lost"
      /\ UNCHANGED <<late, up, body, time_message, toServer,
                     id_counter, sent, got, meant, heard>>

(* mutant of WaitForData: one byte less is enough *)
WaitForDataLess ==
  /\ phase = "wait"
  /\ Len(wire) >= base_message.size - 1
  /\ phase' = "readData"
  /\ UNCHANGED <<wire, late, up, base_message, body, time_message, toServer, id_counter, sent, got, meant, heard>>

(* readData(), the loop ...                                                *)
WaitForData ==
  /\ phase = "wait"
  /\ Len(wire) >= base_message.size
  /\ phase' = "readData"
  /\ UNCHANGED <<wire, late, up, base_message, body, time_message, toServer, id_counter, sent, got, meant, heard>>

(* ... and the read, which is short when the connection was reset since.   *)
ReadData ==
  /\ phase = "readData"
  /\ body' = Bytes(wire, 0, base_message.size)
  /\ wire' = SubSeq(wire, Len(body') + 1, Len(wire))
  /\ phase' = "handle"
  /\ UNCHANGED <<late, up, base_message, time_message, toServer, id_counter, sent, got, meant, heard>>

Handled(result, content) ==
  /\ phase = "handle"
  /\ phase' = "writeTimedMessage"
  /\ got' = IF result = 0
              THEN Append(got, [base |-> base_message, content |-> content])
              ELSE got
  /\ UNCHANGED <<wire, late, up, base_message, body, toServer, id_counter, sent, meant,
                 heard>>

Crashes ==
  /\ phase = "handle"
  /\ phase' = "crashed"
  /\ UNCHANGED <<wire, late, up, base_message, body, toServer, id_counter, sent, got,
                 meant, heard>>

(* codec_header_message is a local variable ... *)
HandleCodecHeader ==
  LET read == deserializeCodec([string_size |-> 0, codec |-> <<>>,
                                size |-> 0, payload |-> <<>>], body)
  IN  /\ base_message.type = CODEC_HEADER
      /\ Handled(read.result, [codec   |-> read.message.codec,
                               payload |-> read.message.payload])
      /\ UNCHANGED time_message

(* ... and so is wire_chunk_message. *)
HandleWireChunk ==
  LET read == deserializeChunk([sec |-> 0, usec |-> 0, size |-> 0,
                                payload |-> <<>>], body)
  IN  /\ base_message.type = WIRE_CHUNK
      /\ Handled(read.result, [sec |-> read.message.sec, usec |-> read.message.usec,
                               payload |-> read.message.payload])
      /\ UNCHANGED time_message

(* How much was read is not looked at: the text is what there is of it.    *)
(* Of less than 4 bytes size - 4 is negative, which memmove() takes for    *)
(* nearly all of the memory.                                               *)
HandleServerSettings ==
  /\ base_message.type = SERVER_SETTINGS
  /\ \/ Len(body) >= 4 /\ Handled(0, settingsText(body))
     \/ Len(body) < 4 /\ Crashes
  /\ UNCHANGED time_message

HandleTime ==
  LET read == deserialize(TimeFields, time_message, body)
  IN  /\ base_message.type = TIME
      /\ time_message' = read.message
      /\ Handled(read.result, time_message')

HandleOther ==
  /\ base_message.type \notin {CODEC_HEADER, WIRE_CHUNK, SERVER_SETTINGS, TIME}
  /\ Handled(0, body)
  /\ UNCHANGED time_message

-----------------------------------------------------------------------------
(***************************************************************************)
(* The client writes the base part, for which base_message is used too,    *)
(* and then the body; the connection may go in between.                    *)
(***************************************************************************)
WriteBase(base, bytes, content) ==
  /\ base_message' = base
  /\ body' = bytes
  /\ toServer' = IF up THEN toServer
                             \o serialize(BaseFields, base, BASE_MESSAGE_SIZE).data
                          ELSE toServer
  /\ meant' = IF up THEN Append(meant, [base |-> base, content |-> content])
                    ELSE meant
  /\ phase' = "writeBody"
  /\ UNCHANGED <<wire, late, up, time_message, sent, got, heard>>

WriteBody ==
  /\ phase = "writeBody"
  /\ toServer' = IF up THEN toServer \o Bytes(body, 0, base_message.size)
                          ELSE toServer
  /\ phase' = "available"
  /\ UNCHANGED <<wire, late, up, base_message, body, time_message, id_counter, sent,
                 got, meant, heard>>

(* sent is the wall clock's time. *)
Stamped(type, id, size) ==
  [NoBase EXCEPT !.type = type, !.id = id, !.sentSec = Now.sec,
                 !.sentUsec = Now.usec, !.size = size]

(* writeHallo(): a hello that is not closed is not sent; the loop tries    *)
(* again, perhaps with other names.                                        *)
WriteHallo ==
  /\ phase = "hello"
  /\ \E json \in Hellos :
       LET text == to_json(json)
       IN  IF closed(text)
             THEN WriteBase(Stamped(HELLO, 0, Len(text) + 4), serializeHello(text), text)
             ELSE /\ base_message' = Stamped(HELLO, 0, 0)
                  /\ UNCHANGED <<wire, late, up, phase, body, time_message, toServer,
                                 sent, got, meant, heard>>
  /\ UNCHANGED id_counter

(* writeTimedMessage() and writeMessage(), if it is time for that.         *)
WriteMessage ==
  /\ phase = "writeTimedMessage"
  /\ id_counter' = id_counter + 1
  /\ WriteBase(Stamped(TIME, id_counter % uint16Range, TIME_MESSAGE_SIZE),
               serialize(TimeFields, time_message, TIME_MESSAGE_SIZE).data,
               time_message)

NoTimedMessage ==
  /\ phase = "writeTimedMessage"
  /\ phase' = "available"
  /\ UNCHANGED <<wire, late, up, base_message, body, time_message, toServer,
                 id_counter, sent, got, meant, heard>>

(* The server reads a message (external).                                  *)
ToServer ==
  deserialize(BaseFields, NoBase, Bytes(toServer, 0, BASE_MESSAGE_SIZE)).message

MessageSize == BASE_MESSAGE_SIZE + ToServer.size

ServerRead ==
  LET data == Bytes(toServer, BASE_MESSAGE_SIZE, ToServer.size)
  IN  /\ Len(toServer) >= BASE_MESSAGE_SIZE
      /\ Len(toServer) >= MessageSize
      /\ toServer' = SubSeq(toServer, MessageSize + 1, Len(toServer))
      /\ heard' = Append(heard,
           [base |-> ToServer,
            content |-> IF ToServer.type = HELLO
                          THEN Bytes(data, 4, read_uint32(data))
                          ELSE deserialize(TimeFields, time_message, data).message])
      /\ UNCHANGED <<wire, late, up, client, id_counter, sent, got, meant>>

Next ==
  \/ SendChunk \/ SendCodecHeader \/ SendSettings \/ SendTime \/ SendTags
  \/ Arrive
  \/ Reset
  \/ Available
  \/ ReadBaseMessage
  \/ WaitForData
  \/ ReadData
  \/ HandleCodecHeader \/ HandleWireChunk \/ HandleServerSettings \/ HandleTime
  \/ HandleOther
  \/ WriteHallo
  \/ WriteMessage
  \/ WriteBody
  \/ NoTimedMessage
  \/ ServerRead

Spec == Init /\ [][Next]_vars

-----------------------------------------------------------------------------
TypeOK ==
  /\ {wire, late, toServer, body} \subseteq Seq(Byte)
  /\ phase \in {"hello", "available", "readBaseMessage", "wait", "readData",
                "handle", "writeTimedMessage", "writeBody", "lost", "crashed"}
  /\ base_message.type \in uint16 /\ base_message.size \in uint32
  /\ base_message.sentSec \in int32

Received(base) == [base EXCEPT !.receivedSec = Now.sec, !.receivedUsec = Now.usec]

Same(g, s) ==
  /\ g.base = Received(s.base)
  /\ IF g.base.type = SERVER_SETTINGS THEN SE!IsPrefix(s.content, g.content)
                                      ELSE g.content = s.content

(* A text of which a part came: of its last character nothing is known.    *)
Torn(g, s) ==
  /\ g.base = Received(s.base) /\ g.base.type = SERVER_SETTINGS
  /\ SE!IsPrefix(SubSeq(g.content, 1, Len(g.content) - 1), s.content)

(* What the client makes of a message is what the server sent, but for the *)
(* time of receipt, message by message, and of settings a text that begins *)
(* with the one that was sent.  A message in which the connection is reset *)
(* counts for nothing, but for settings: the client believes the part that *)
(* came, and that is the last thing it makes of the connection.            *)
ReadIsSent ==
  /\ Len(got) <= Len(sent)
  /\ \A i \in 1..Len(got) :
       \/ Same(got[i], sent[i])
       \/ ~up /\ i = Len(got) /\ Torn(got[i], sent[i])

(* On a connection that holds no message is skipped or taken apart: when   *)
(* what has not been read is too short for a base part, nothing is left    *)
(* and every message has been read.                                        *)
NothingSkipped ==
  up /\ phase = "available" /\ Len(wire \o late) < BASE_MESSAGE_SIZE =>
    wire \o late = <<>> /\ Len(got) = Len(sent)

(* What the server may hear for a hello: a text of the application's that  *)
(* ends with a brace, and all of it if that fits.                          *)
Closed(text) ==
  /\ text # <<>> /\ text[Len(text)] = Brace
  /\ \E json \in Hellos : /\ SE!IsPrefix(text, json)
                          /\ Len(json) <= MaxJsonLen - 5 => text = json

(* The server understands every message as the client wrote it, also those *)
(* it reads when the connection has gone in the middle of a later one, and *)
(* never waits for the rest of one when the client has done writing.  No   *)
(* hello it hears lacks its closing brace.                                 *)
HeardIsMeant ==
  /\ SE!IsPrefix(heard, meant)
  /\ up /\ phase # "writeBody" /\ heard # meant => Len(toServer) >= MessageSize
  /\ \A i \in 1..Len(heard) : heard[i].base.type = HELLO => Closed(heard[i].content)
=============================================================================
