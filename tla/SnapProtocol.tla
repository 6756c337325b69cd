---------------------------- MODULE SnapProtocol ----------------------------
(***************************************************************************)
(* src/api/SnapProtocol.h: how numbers and messages become bytes and back. *)
(* A byte is a number below B, so that n & 0xff is n % B and n >> 8 is     *)
(* n \div B, for negative numbers too.  A buffer that is read or written   *)
(* is a record; its result is 1 once something did not fit, and what does  *)
(* not fit changes nothing else.                                           *)
(*                                                                         *)
(* A message without its variable part is a record of numbers, laid out by *)
(* a sequence of fields.                                                   *)
(***************************************************************************)
EXTENDS Integers, Sequences

CONSTANTS
  B,               \* 256 in the code: even, so that half of the numbers are negative
  MaxJsonLen,      \* MAX_JSON_LEN
  Brace            \* the closing brace, with which a json text ends

ASSUME ProtocolAssumption ==
  /\ B \in Nat /\ B > 1 /\ B % 2 = 0
  /\ MaxJsonLen \in Nat /\ MaxJsonLen > 5
  /\ Brace \in 0..(B - 1)

Byte == 0..(B - 1)

(* What there is of the n bytes after the first index bytes.               *)
Bytes(data, index, n) ==
  SubSeq(data, index + 1, IF index + n < Len(data) THEN index + n ELSE Len(data))

uint16Range == B * B
uint32Range == B * (B * (B * B))
int32Half   == uint32Range \div 2

uint16 == 0..(uint16Range - 1)
uint32 == 0..(uint32Range - 1)
int32  == -int32Half..(int32Half - 1)

(* SnapWriteBuffer: also for signed numbers *)
shr(n) == n \div B

write_uint16(n) == <<n % B, shr(n) % B>>

write_uint32(n) ==
  <<n % B, shr(n) % B, shr(shr(n)) % B, shr(shr(shr(n))) % B>>

(* SnapReadBuffer *)
read_uint16(s) == s[1] + B * s[2]

read_uint32(s) == s[1] + B * (s[2] + B * (s[3] + B * s[4]))

(* mutant of read_int32: the sign is lost *)
read_int32Unsigned(s) == read_uint32(s)

read_int32(s) == IF read_uint32(s) < int32Half THEN read_uint32(s)
                                               ELSE read_uint32(s) - uint32Range

-----------------------------------------------------------------------------
Field(name, kind) == [name |-> name, kind |-> kind]

Width(kind) == IF kind = "uint16" THEN 2 ELSE 4

Encoded(kind, n) == IF kind = "uint16" THEN write_uint16(n) ELSE write_uint32(n)

Decoded(kind, s) ==
  CASE kind = "uint16" -> read_uint16(s)
    [] kind = "uint32" -> read_uint32(s)
    [] kind = "int32"  -> read_int32(s)

(* SnapMessageBase, SnapMessageTime, SnapMessageWireChunk *)
BaseFields ==
  <<Field("type", "uint16"), Field("id", "uint16"), Field("refersTo", "uint16"),
    Field("sentSec", "int32"), Field("sentUsec", "int32"),
    Field("receivedSec", "int32"), Field("receivedUsec", "int32"),
    Field("size", "uint32")>>

TimeFields == <<Field("latencySec", "int32"), Field("latencyUsec", "int32")>>

ChunkFields ==
  <<Field("sec", "int32"), Field("usec", "int32"), Field("size", "uint32")>>

BASE_MESSAGE_SIZE == 26
TIME_MESSAGE_SIZE == 8

(***************************************************************************)
(* Writing.                                                                *)
(***************************************************************************)
write(buffer, bytes) ==
  IF buffer.size - Len(buffer.data) < Len(bytes)
    THEN [buffer EXCEPT !.result = 1]
    ELSE [buffer EXCEPT !.data = @ \o bytes]

serialize(fields, message, reqSize) ==
  LET after[i \in 0..Len(fields)] ==
        IF i = 0 THEN [size |-> reqSize, data |-> <<>>, result |-> 0]
          ELSE write(after[i - 1], Encoded(fields[i].kind, message[fields[i].name]))
  IN  after[Len(fields)]

(* SnapMessageHallo: the text is cut at the end of its buffer, which it     *)
(* shares with its length and the final null character.                    *)
to_json(json) == Bytes(json, 0, MaxJsonLen - 5)

(* mutant of closed: whatever was cut is sent *)
closedUnchecked(text) == TRUE

(* All that is looked at is how the text ends once it has been cut.        *)
closed(text) == text[Len(text)] = Brace

serializeHello(text) == write_uint32(Len(text)) \o text

(***************************************************************************)
(* Reading.                                                                *)
(***************************************************************************)
begin(data, message) ==
  [data |-> data, index |-> 0, message |-> message, result |-> 0]

Room(buffer) == Len(buffer.data) - buffer.index

(* mutant of readBytes: the size is not checked *)
readBytesUnchecked(buffer, name, n) ==
  [buffer EXCEPT
     !.index = @ + n,
     !.message[name] = Bytes(buffer.data, buffer.index, n)]

readBytes(buffer, name, n) ==
  IF Room(buffer) < n THEN [buffer EXCEPT !.result = 1]
    ELSE [buffer EXCEPT
            !.index = @ + n,
            !.message[name] = Bytes(buffer.data, buffer.index, n)]

readField(buffer, f) ==
  LET n == Width(f.kind)
  IN  IF Room(buffer) < n THEN [buffer EXCEPT !.result = 1]
        ELSE [buffer EXCEPT
                !.index = @ + n,
                !.message[f.name] =
                   Decoded(f.kind, Bytes(buffer.data, buffer.index, n))]

deserialize(fields, message, data) ==
  LET after[i \in 0..Len(fields)] ==
        IF i = 0 THEN begin(data, message) ELSE readField(after[i - 1], fields[i])
  IN  after[Len(fields)]

(* SnapMessageWireChunk: the payload stays where it is.                    *)
deserializeChunk(message, data) ==
  LET head == deserialize(ChunkFields, message, data)
  IN  IF head.result # 0 THEN head
        ELSE readBytes(head, "payload", head.message.size)

(* SnapMessageCodecHeader *)
deserializeCodec(message, data) ==
  LET first   == readField(begin(data, message), Field("string_size", "uint32"))
      codec   == readBytes(first, "codec", first.message.string_size)
      second  == readField(codec, Field("size", "uint32"))
      payload == readBytes(second, "payload", second.message.size)
  IN  IF first.result # 0 THEN first
        ELSE IF second.result # 0 THEN second ELSE payload

(* processMessageServerSettings() moves the text over its length; the null *)
(* character that ends it comes one byte late.                             *)
settingsText(body) ==
  SubSeq(body, 5, Len(body)) \o <<body[Len(body) - 3]>>
=============================================================================
