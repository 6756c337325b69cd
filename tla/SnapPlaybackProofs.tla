------------------------- MODULE SnapPlaybackProofs -------------------------
(***************************************************************************)
(* Theorems about SnapPlayback: types, the volume, the codec of what is    *)
(* heard, the header of a WAV decoder and the start of the playback, for   *)
(* every set of processors, settings, codecs and factors and for queues    *)
(* and clocks of every size.                                               *)
(***************************************************************************)
EXTENDS SnapPlayback, SnapTimeProofs

(* The values of SnapOutput. *)
OutputRec ==
  [is_audio_begin_called : BOOLEAN, is_sync_started : BOOLEAN,
   vol : 0..100, vol_factor : Factors \cup {1}, vol_stream : Int,
   is_mute : BOOLEAN, header : Int]

(* The members of the queue and of the history. *)
HistoryType ==
  /\ announced \in Codecs \cup {"none"}
  /\ decoder \in [codec : {"none", "NO_CODEC"} \cup Codecs,
                  first : {"nothing", "header", "audio", "stale"}]
  /\ settled \in [volume : 0..100, factor : Factors \cup {1}]
  /\ heard \in [announced : Codecs \cup {"none"},
                codec : {"none", "NO_CODEC"} \cup Codecs, stale : BOOLEAN]

QueueType ==
  /\ queue \in Seq(Frame) /\ stale \in 0..Len(queue)
  /\ held \in BOOLEAN
  /\ held => Processor = "SnapProcessorRTOS" /\ queue # <<>>
  /\ Waiting <= QueueLen

(* Only SnapProcessorBuffered has a processExt(). *)
ExtBuffered == loop = "processExt" => Processor = "SnapProcessorBuffered"

TypeInv ==
  /\ TypeOK
  /\ ExtBuffered
  /\ output \in OutputRec /\ snap_time \in TimeRec
  /\ HistoryType /\ QueueType

-----------------------------------------------------------------------------
(* What the operators of SnapOutput make of its values.                    *)
LEMMA OutputOps ==
  ASSUME NEW o \in OutputRec, NEW v \in 0..100, NEW f \in Factors \cup {1}
  PROVE  /\ begin(o) \in OutputRec
         /\ begin(o).vol = o.vol /\ begin(o).vol_factor = o.vol_factor
         /\ begin(o).vol_stream = o.vol * o.vol_factor
         /\ setVolume(o, v) \in OutputRec
         /\ setVolume(o, v).vol = v /\ setVolume(o, v).vol_factor = o.vol_factor
         /\ setVolume(o, v).vol_stream = v * o.vol_factor
         /\ setVolumeFactor(o, f) \in OutputRec
         /\ setVolumeFactor(o, f).vol = o.vol
         /\ setVolumeFactor(o, f).vol_stream = o.vol_stream
<1>1. o.vol \in Int /\ o.vol_factor \in Int /\ v \in Int
  <2>1. Factors \subseteq Nat
    BY PlaybackAssumption
  <2>2. o.vol_factor \in Factors \cup {1} /\ o.vol \in 0..100
    BY DEF OutputRec
  <2>3. o.vol_factor \in Int
    <3>1. CASE o.vol_factor = 1
      BY <3>1
    <3>2. CASE o.vol_factor \in Factors
      <4>1. o.vol_factor \in Nat
        BY <2>1, <3>2, Zenon
      <4> QED BY <4>1
    <3> QED BY <2>2, <3>1, <3>2
  <2>4. o.vol \in Int /\ v \in Int
    BY <2>2
  <2> QED BY <2>3, <2>4
<1>2. o.vol * o.vol_factor \in Int /\ v * o.vol_factor \in Int
  BY <1>1
<1>3. begin(o) \in OutputRec /\ setVolume(o, v) \in OutputRec
  BY <1>2 DEF OutputRec, begin, setVolume
<1>4. setVolumeFactor(o, f) \in OutputRec
  BY DEF OutputRec, setVolumeFactor
<1>5. /\ begin(o).vol = o.vol /\ begin(o).vol_factor = o.vol_factor
      /\ begin(o).vol_stream = o.vol * o.vol_factor
  BY DEF OutputRec, begin
<1>6. /\ setVolume(o, v).vol = v /\ setVolume(o, v).vol_factor = o.vol_factor
      /\ setVolume(o, v).vol_stream = v * o.vol_factor
  BY DEF OutputRec, setVolume
<1>7. /\ setVolumeFactor(o, f).vol = o.vol
      /\ setVolumeFactor(o, f).vol_stream = o.vol_stream
  BY DEF OutputRec, setVolumeFactor
<1> QED BY <1>3, <1>4, <1>5, <1>6, <1>7

(* Mute and unmute change the volume only until the next setVolume(). *)
LEMMA MuteOps ==
  ASSUME NEW o \in OutputRec, NEW mute \in BOOLEAN
  PROVE  /\ setMute(o, mute) \in OutputRec
         /\ setMute(o, mute).vol_factor = o.vol_factor
<1> DEFINE m == [o EXCEPT !.is_mute = mute]
           v == IF mute THEN 0 ELSE o.vol
<1>1. m \in OutputRec /\ m.vol_factor = o.vol_factor
  BY DEF OutputRec
<1>2. v \in 0..100
  BY DEF OutputRec
<1>3. setMute(o, mute) = setVolume(m, v)
  BY DEF setMute
<1> HIDE DEF m, v
<1>4. 1 \in Factors \cup {1}
  OBVIOUS
<1> QED BY <1>1, <1>2, <1>3, <1>4, OutputOps

(* Audio leaves the volume alone. *)
LEMMA AudioOps ==
  ASSUME NEW o \in OutputRec, NEW ms \in Int, NEW d
  PROVE  /\ writeHeader(o, ms) \in OutputRec
         /\ written(o, d) \in OutputRec
         /\ written(o, d).vol = o.vol /\ writeHeader(o, ms).vol = o.vol
         /\ written(o, d).vol_stream = o.vol_stream
         /\ writeHeader(o, ms).vol_stream = o.vol_stream
<1>1. /\ writeHeader(o, ms) \in OutputRec /\ writeHeader(o, ms).vol = o.vol
      /\ writeHeader(o, ms).vol_stream = o.vol_stream
  BY DEF OutputRec, writeHeader
<1>2. synchronizePlayback(o, d) \in BOOLEAN
  BY DEF synchronizePlayback
<1>3. /\ synchronized(o, d) \in OutputRec /\ synchronized(o, d).vol = o.vol
      /\ synchronized(o, d).vol_stream = o.vol_stream
  BY <1>2 DEF OutputRec, synchronized
<1> QED BY <1>1, <1>3 DEF written

(* A uint32_t and a uint16_t have their range. *)
LEMMA Uints == \A x \in Int : uint32(x) \in 0..(W - 1) /\ x % U16 \in 0..(U16 - 1)
BY WAssumption, OutputAssumption DEF uint32

(* A setting of the server has its members. *)
LEMMA SettingType ==
  ASSUME NEW s \in Settings
  PROVE  /\ s.buffer_ms \in Nat /\ s.latency \in Nat /\ s.muted \in BOOLEAN
         /\ s.volume \in 0..100
BY PlaybackAssumption

-----------------------------------------------------------------------------
(* Init satisfies the types. *)
LEMMA TypeInit ==
  ASSUME Init
  PROVE  TypeInv
<1>1. output \in OutputRec /\ snap_time \in TimeRec
  <2>1. output \in OutputRec
    BY DEF Init, HandlersInit, InitialOutput, OutputRec
  <2>2. snap_time \in TimeRec
    BY WAssumption DEF Init, HandlersInit, InitialTime, TimeRec
  <2> QED BY <2>1, <2>2
<1>2. HistoryType
  BY DEF Init, HistoryType, Closed, NoFrame
<1>3. QueueType
  <2>1. queue = <<>> /\ held = FALSE /\ stale = 0
    BY DEF Init, FQ!Init
  <2>2. Waiting = 0
    BY <2>1 DEF Waiting, InHand
  <2>3. Waiting <= QueueLen
    BY <2>2, PlaybackAssumption
  <2>4. queue \in Seq(Frame) /\ stale \in 0..Len(queue)
    BY <2>1
  <2> QED BY <2>1, <2>3, <2>4 DEF QueueType
<1>4. TypeOK
  <2>1. snap_time.server_ms \in 0..(W - 1) /\ snap_time.time_diff \in 0..(W - 1)
    BY <1>1 DEF TimeRec
  <2>2. output.vol \in 0..100 /\ output.vol_factor \in Factors \cup {1}
    BY <1>1 DEF OutputRec
  <2>3. delay \in 0..(U16 - 1)
    BY OutputAssumption DEF Init, HandlersInit
  <2>4. FQ!TypeOK /\ Waiting \in 0..QueueLen /\ stale \in 0..Len(queue)
    BY PlaybackAssumption DEF Init, FQ!Init, FQ!TypeOK, Waiting, InHand
  <2>5. now \in 0..MaxTime /\ messages \in 0..MaxMessages
    BY PlaybackAssumption DEF Init
  <2> QED BY <2>1, <2>2, <2>3, <2>4, <2>5 DEF TypeOK, Init, HandlersInit
<1>5. ExtBuffered
  BY DEF Init, ExtBuffered
<1> QED BY <1>1, <1>2, <1>3, <1>4, <1>5 DEF TypeInv

(* The members of TypeOK that are neither records nor sequences. *)
Plain ==
  /\ Processor \in Processors
  /\ loop \in {"down", "message", "wavHeader", "processExt"}
  /\ header_received \in BOOLEAN /\ is_active \in BOOLEAN
  /\ codec_from_server \in {"NO_CODEC"} \cup (Codecs \cap Supported)
  /\ delay \in 0..(U16 - 1)
  /\ now \in 0..MaxTime /\ messages \in 0..MaxMessages

LEMMA TypeParts ==
  TypeOK <=> /\ Plain
             /\ held \in BOOLEAN
             /\ snap_time.server_ms \in 0..(W - 1) /\ snap_time.time_diff \in 0..(W - 1)
             /\ output.vol \in 0..100 /\ output.vol_factor \in Factors \cup {1}
             /\ queue \in Seq(Frame) /\ delivered \in Seq(Frame)
             /\ Waiting \in 0..QueueLen /\ stale \in 0..Len(queue)
BY DEF TypeOK, Plain, FQ!TypeOK

(* Every step keeps the parts in turn, one step of the proof per action.   *)
LEMMA PlainNext ==
  ASSUME TypeInv, [Next]_vars
  PROVE  Plain'
<1> USE TypeParts DEF TypeInv
<1>1. MaxTime \in Nat /\ MaxMessages \in Nat /\ now \in Int /\ messages \in Int
  BY PlaybackAssumption DEF Plain
<1>2. ASSUME Message PROVE messages' \in 0..MaxMessages
  BY <1>1, <1>2 DEF Message, Plain
<1>3. AfterMessage \in {"message", "processExt"}
  BY DEF AfterMessage
<1>4. CASE Begin
  <2>1. is_active' \in BOOLEAN
    BY <1>4 DEF Begin, Plain, queuing
  <2> QED BY <1>4, <2>1 DEF Begin, Plain, HandleBegin, clocks
<1>5. CASE End
  BY <1>5 DEF End, Plain, handled, clocks, queuing
<1>6. CASE SetVolumeFactor
  BY <1>6 DEF SetVolumeFactor, Plain, clocks, queuing
<1>7. CASE Reconnect
  BY <1>7 DEF Reconnect, Plain, handled, clocks, queuing
<1>8. ASSUME NEW codec \in Codecs, CodecHeader(codec) PROVE Plain'
  BY <1>2, <1>3, <1>8 DEF CodecHeader, HandleCodecHeader, Plain, queuing, Message
<1>9. CASE WavHeader
  BY <1>3, <1>9 DEF WavHeader, Plain, handled, clocks, queuing
<1>10. CASE IgnoreWireChunk
  BY <1>2, <1>3, <1>10 DEF IgnoreWireChunk, Plain, handled, queuing, Message
<1>11. ASSUME NEW frame \in Chunks, WriteAudio(frame) PROVE Plain'
  BY <1>2, <1>3, <1>11 DEF WriteAudio, WireChunk, HandleWireChunk, Plain, Message
<1>12. ASSUME NEW frame \in Chunks, WriteAudioRTOS(frame) PROVE Plain'
  <2>1. is_active' \in BOOLEAN
    BY <1>12 DEF WriteAudioRTOS, Plain, queuing
  <2> QED BY <1>2, <1>3, <1>12, <2>1 DEF WriteAudioRTOS, WireChunk, HandleWireChunk, Plain, Message
<1>13. ASSUME NEW frame \in Chunks, WriteAudioBuffered(frame) PROVE Plain'
  BY <1>2, <1>3, <1>13 DEF WriteAudioBuffered, WireChunk, Plain, Message
<1>14. ASSUME NEW s \in Settings, ServerSettings(s) PROVE Plain'
  <2>1. delay' \in 0..(U16 - 1)
    <3>1. s.buffer_ms + s.latency \in Int
      BY SettingType
    <3>2. delay' = (s.buffer_ms + s.latency) % U16
      BY <1>14 DEF ServerSettings, HandleServerSettings, setMessageBufferDelay
    <3> QED BY <3>1, <3>2, Uints
  <2> QED BY <1>2, <1>3, <1>14, <2>1 DEF ServerSettings, HandleServerSettings, Plain, queuing, Message
<1>15. ASSUME NEW age \in ReplyAges, Time(age) PROVE Plain'
  BY <1>2, <1>3, <1>15 DEF Time, HandleTime, Plain, queuing, Message
<1>16. CASE NoMessage
  BY <1>16 DEF NoMessage, Plain, handled, clocks, queuing
<1>17. CASE Dequeue
  BY <1>17 DEF Dequeue, Plain, handled, clocks
<1>18. CASE AudioWrite
  BY <1>18 DEF AudioWrite, Plain, handled, clocks
<1>19. CASE ProcessExt
  <2>1. is_active' \in BOOLEAN
    BY <1>19 DEF ProcessExt, Plain
  <2> QED BY <1>19, <2>1 DEF ProcessExt, Plain, clocks
<1>20. CASE Tick
  <2>1. now' \in 0..MaxTime
    BY <1>1, <1>20 DEF Tick, Plain
  <2> QED BY <1>20, <2>1 DEF Tick, Plain, handled, queuing
<1>21. CASE UNCHANGED vars
  BY <1>21 DEF vars, Plain, handled, clocks, queuing
<1> QED BY <1>4, <1>5, <1>6, <1>7, <1>8, <1>9, <1>10, <1>11, <1>12, <1>13, <1>14,
          <1>15, <1>16, <1>17, <1>18, <1>19, <1>20, <1>21 DEF Next

(* The clocks and what is made of them are numbers. *)
LEMMA ClockType ==
  ASSUME TypeInv
  PROVE  now \in Nat /\ ServerClock \in Int /\ millis \in 0..(W - 1)
<1>1. now \in Nat
  BY TypeParts DEF TypeInv, Plain
<1>2. StartMillis + now \in Int /\ StartServer + now \in Int
  BY <1>1, PlaybackAssumption, WAssumption
<1> QED BY <1>1, <1>2, Uints DEF ServerClock, millis

LEMMA ChunkType ==
  ASSUME TypeInv, NEW frame \in Chunks
  PROVE  frame \in Frame /\ frame.announced = announced /\ frame.timestamp \in Int
<1>1. frame.announced = announced /\ frame \in [announced : {announced}, timestamp : Int]
  <2>1. \A a \in ChunkAges : ServerClock - a \in Int
    BY ClockType, PlaybackAssumption
  <2> QED BY <2>1 DEF Chunks
<1>2. announced \in Codecs \cup {"none"}
  BY DEF TypeInv, HistoryType
<1> QED BY <1>1, <1>2 DEF Frame

(* The volume that was set last is in force: output.vol is that volume and *)
(* vol_stream that volume times the factor.                                *)
VolumeInv ==
  /\ output.vol = settled.volume
  /\ VolumeFollowsServer

(* What the two objects hold, whatever happens ... *)
Objects ==
  /\ output \in OutputRec /\ snap_time \in TimeRec
  /\ settled \in [volume : 0..100, factor : Factors \cup {1}]
  /\ VolumeInv

(* ... and the steps that change them. *)
LEMMA ObjectsOpened ==
  ASSUME TypeInv, VolumeInv, NEW codec, output' = begin(output), Opened(codec),
         snap_time' = snap_time
  PROVE  Objects'
<1>1. /\ output \in OutputRec /\ snap_time \in TimeRec
      /\ settled \in [volume : 0..100, factor : Factors \cup {1}]
  BY DEF TypeInv, HistoryType
<1>2. output.vol \in 0..100 /\ output.vol_factor \in Factors \cup {1}
  BY <1>1 DEF OutputRec
<1>3. settled' = [settled EXCEPT !.factor = output.vol_factor]
  BY DEF Opened
<1>4. /\ settled' \in [volume : 0..100, factor : Factors \cup {1}]
      /\ settled'.volume = settled.volume /\ settled'.factor = output.vol_factor
  BY <1>1, <1>2, <1>3
<1>5. /\ output' \in OutputRec /\ output'.vol = output.vol
      /\ output'.vol_stream = output.vol * output.vol_factor
  BY <1>1, <1>2, OutputOps
<1> QED BY <1>1, <1>4, <1>5 DEF Objects, VolumeInv, VolumeFollowsServer

LEMMA ObjectsSame ==
  ASSUME TypeInv, VolumeInv, settled' = settled, snap_time' = snap_time,
         output' \in OutputRec, output'.vol = output.vol,
         output'.vol_stream = output.vol_stream
  PROVE  Objects'
BY DEF TypeInv, HistoryType, Objects, VolumeInv, VolumeFollowsServer

LEMMA ObjectsNext ==
  ASSUME TypeInv, VolumeInv, [Next]_vars
  PROVE  Objects'
<1>1. output \in OutputRec /\ snap_time \in TimeRec
  BY DEF TypeInv
<1>2. 1 \in Factors \cup {1} /\ output.vol \in 0..100
  BY <1>1 DEF OutputRec
<1>3. ASSUME UNCHANGED <<output, snap_time, settled>> PROVE Objects'
  BY <1>1, <1>3, ObjectsSame
<1>4. CASE Begin
  <2>1. CASE OutputStart
    BY <1>4, <2>1, ObjectsOpened DEF Begin, HandleBegin
  <2>2. CASE ~OutputStart
    BY <1>3, <1>4, <2>2 DEF Begin, HandleBegin
  <2> QED BY <2>1, <2>2
<1>5. CASE SetVolumeFactor
  <2>1. PICK fact \in Factors : output' = setVolumeFactor(output, fact)
    BY <1>5 DEF SetVolumeFactor
  <2>2. /\ output' \in OutputRec /\ output'.vol = output.vol
        /\ output'.vol_stream = output.vol_stream
    BY <1>1, <1>2, <2>1, OutputOps
  <2> QED BY <1>5, <2>2, ObjectsSame DEF SetVolumeFactor, history
<1>6. ASSUME NEW codec \in Codecs, CodecHeader(codec) PROVE Objects'
  <2>1. CASE codec \in Supported
    BY <1>6, <2>1, ObjectsOpened DEF CodecHeader, HandleCodecHeader
  <2>2. CASE codec \notin Supported
    BY <1>3, <1>6, <2>2 DEF CodecHeader, HandleCodecHeader
  <2> QED BY <2>1, <2>2
<1>7. ASSUME NEW frame \in Chunks, WriteAudio(frame) \/ WriteAudioRTOS(frame)
      PROVE  Objects'
  <2>1. HandleWireChunk(frame.timestamp, millis) /\ settled' = settled
    BY <1>7 DEF WriteAudio, WriteAudioRTOS, WireChunk
  <2> DEFINE o == writeHeader(output, frame.timestamp)
             d == delayMs(frame.timestamp, millis)
  <2>2. output' = output \/ output' = written(o, d)
    BY <2>1 DEF HandleWireChunk
  <2>3. /\ o \in OutputRec /\ o.vol = output.vol /\ o.vol_stream = output.vol_stream
    BY <1>1, ChunkType, AudioOps
  <2> HIDE DEF o
  <2>4. /\ written(o, d) \in OutputRec /\ written(o, d).vol = o.vol
        /\ written(o, d).vol_stream = o.vol_stream
    BY <2>3, AudioOps
  <2>5. snap_time' = snap_time
    BY <2>1 DEF HandleWireChunk
  <2> HIDE DEF d
  <2> QED BY <1>1, <2>1, <2>2, <2>3, <2>4, <2>5, ObjectsSame
<1>8. ASSUME NEW frame \in Chunks, WriteAudioBuffered(frame) PROVE Objects'
  <2>1. /\ output' = writeHeader(output, frame.timestamp)
        /\ settled' = settled /\ snap_time' = snap_time
    BY <1>8 DEF WriteAudioBuffered, WireChunk
  <2> QED BY <1>1, <2>1, ChunkType, AudioOps, ObjectsSame
<1>9. ASSUME NEW s \in Settings, ServerSettings(s) PROVE Objects'
  <2> DEFINE o == IF header_received THEN setMute(output, s.muted) ELSE output
  <2>1. s.muted \in BOOLEAN /\ s.volume \in 0..100
    BY SettingType
  <2>2. o \in OutputRec /\ o.vol_factor = output.vol_factor
    BY <1>1, <2>1, MuteOps
  <2>3. /\ output' = setVolume(o, s.volume) /\ snap_time' = snap_time
        /\ settled' = [volume |-> s.volume, factor |-> output.vol_factor]
    BY <1>9 DEF ServerSettings, HandleServerSettings
  <2> HIDE DEF o
  <2>4. /\ output' \in OutputRec /\ output'.vol = s.volume
        /\ output'.vol_stream = s.volume * o.vol_factor
    BY <1>2, <2>1, <2>2, <2>3, OutputOps
  <2>5. output.vol_factor \in Factors \cup {1}
    BY <1>1 DEF OutputRec
  <2>6. /\ settled' \in [volume : 0..100, factor : Factors \cup {1}]
        /\ settled'.volume = s.volume /\ settled'.factor = output.vol_factor
    BY <2>1, <2>3, <2>5
  <2> QED BY <1>1, <2>2, <2>3, <2>4, <2>6 DEF Objects, VolumeInv, VolumeFollowsServer
<1>10. ASSUME NEW age \in ReplyAges, Time(age) PROVE Objects'
  <2>1. HandleTime(now, ServerClock - age, millis) /\ settled' = settled /\ output' = output
    BY <1>10 DEF Time, HandleTime
  <2>2. age \in Nat /\ now \in Nat /\ ServerClock \in Int /\ millis \in 0..(W - 1)
    BY ClockType, PlaybackAssumption
  <2> DEFINE sent == ServerClock - age
             m == millis
  <2>3. sent \in Int /\ m \in 0..(W - 1) /\ snap_time' = Replied(snap_time, now, sent, m)
    BY <2>1, <2>2 DEF HandleTime, Replied
  <2> HIDE DEF sent, m
  <2>4. snap_time' \in TimeRec
    BY <1>1, <2>2, <2>3, AfterReply
  <2> QED BY <1>1, <2>1, <2>4 DEF Objects, VolumeInv, VolumeFollowsServer, TypeInv, HistoryType
<1>11. CASE ProcessExt
  <2>1. settled' = settled /\ snap_time' = snap_time
    BY <1>11 DEF ProcessExt
  <2>2. output' = output \/ \E d : output' = written(output, d)
    BY <1>11 DEF ProcessExt
  <2>3. ASSUME NEW d, output' = written(output, d) PROVE Objects'
    <3>1. 0 \in Int
      OBVIOUS
    <3>2. /\ output' \in OutputRec /\ output'.vol = output.vol
          /\ output'.vol_stream = output.vol_stream
      BY <1>1, <2>3, <3>1, AudioOps
    <3> QED BY <2>1, <3>2, ObjectsSame
  <2> QED BY <1>3, <2>1, <2>2, <2>3
<1>12. CASE End \/ Reconnect \/ WavHeader \/ Dequeue \/ AudioWrite
  BY <1>3, <1>12 DEF End, Reconnect, WavHeader, Dequeue, AudioWrite, handled, history
<1>13. CASE IgnoreWireChunk \/ NoMessage \/ Tick \/ UNCHANGED vars
  BY <1>3, <1>13 DEF IgnoreWireChunk, NoMessage, Tick, vars, handled, history
<1> QED BY <1>4, <1>5, <1>6, <1>7, <1>8, <1>9, <1>10, <1>11, <1>12, <1>13 DEF Next

(* The queue and what has left it. *)
Queues == QueueType /\ delivered \in Seq(Frame)

LEMMA QueuesNow ==
  ASSUME TypeInv
  PROVE  /\ Queues
         /\ queue \in Seq(Frame) /\ delivered \in Seq(Frame)
         /\ Len(queue) \in Nat /\ stale \in 0..Len(queue)
         /\ held => Processor = "SnapProcessorRTOS" /\ queue # <<>>
         /\ Waiting = Len(queue) - InHand /\ InHand \in {0, 1}
BY TypeParts DEF TypeInv, Queues, QueueType, Waiting, InHand

LEMMA QueuesNext ==
  ASSUME TypeInv, [Next]_vars
  PROVE  Queues'
<1> DEFINE n == Len(queue)
<1>1. /\ queue \in Seq(Frame) /\ delivered \in Seq(Frame)
      /\ n \in Nat /\ stale \in 0..n /\ held \in BOOLEAN
      /\ held => Processor = "SnapProcessorRTOS" /\ queue # <<>>
  BY QueuesNow DEF Queues, QueueType
<1>2. QueueLen \in Nat /\ Waiting \in 0..QueueLen
  <2>1. Waiting \in 0..QueueLen
    BY TypeParts DEF TypeInv
  <2> QED BY <2>1, PlaybackAssumption
<1>3. Waiting = n - InHand /\ InHand = (IF held THEN 1 ELSE 0)
  BY DEF Waiting, InHand
<1>4. ASSUME UNCHANGED <<queue, held, Processor>>, delivered' \in Seq(Frame),
             stale' \in 0..n
      PROVE  Queues'
  <2>1. Waiting' = Waiting
    BY <1>4 DEF Waiting, InHand
  <2> QED BY <1>1, <1>2, <1>4, <2>1 DEF Queues, QueueType
<1>5. ASSUME UNCHANGED <<queue, held, Processor, stale, delivered>> PROVE Queues'
  BY <1>1, <1>4, <1>5
<1>6. ASSUME NEW codec, Opened(codec), UNCHANGED <<queue, held, Processor, delivered>>
      PROVE  Queues'
  <2>1. stale' = n
    BY <1>6 DEF Opened
  <2> QED BY <1>1, <1>4, <1>6, <2>1
<1>7. ASSUME NEW frame \in Frame, FQ!Accept(frame), Waiting < QueueLen,
             UNCHANGED <<held, Processor, stale>>
      PROVE  Queues'
  <2>1. queue' = Append(queue, frame) /\ delivered' = delivered
    BY <1>7 DEF FQ!Accept
  <2>2. queue' \in Seq(Frame) /\ Len(queue') = n + 1 /\ queue' # <<>>
    BY <1>1, <2>1
  <2>3. Waiting' = Waiting + 1
    BY <1>1, <1>3, <1>7, <2>2 DEF Waiting, InHand
  <2>4. Waiting' <= QueueLen
    BY <1>2, <1>7, <2>3
  <2>5. stale' \in 0..Len(queue')
    BY <1>1, <1>7, <2>2
  <2> QED BY <1>1, <1>7, <2>1, <2>2, <2>4, <2>5 DEF Queues, QueueType
<1>8. ASSUME Taken, held' = FALSE, Processor' = Processor
      PROVE  Queues'
  <2>1. /\ queue # <<>> /\ queue' = Tail(queue) /\ delivered' = Append(delivered, Head(queue))
        /\ stale' = IF stale > 0 THEN stale - 1 ELSE 0
    BY <1>8 DEF Taken, FQ!Deliver
  <2>2. /\ queue' \in Seq(Frame) /\ Len(queue') = n - 1 /\ n >= 1
        /\ delivered' \in Seq(Frame)
    BY <1>1, <2>1
  <2>3. stale' \in 0..Len(queue')
    BY <1>1, <2>1, <2>2
  <2>4. Waiting' = n - 1
    BY <1>8, <2>2 DEF Waiting, InHand
  <2>5. Waiting' <= QueueLen
    BY <1>1, <1>2, <1>3, <2>4
  <2> QED BY <1>8, <2>2, <2>3, <2>5 DEF Queues, QueueType
<1>9. CASE Begin
  <2>1. CASE Processor = "SnapProcessorBuffered"
    <3>1. /\ queue' = <<>> /\ delivered' = delivered /\ held' = held
          /\ Processor' = Processor /\ held' = FALSE
      BY <1>1, <1>9, <2>1 DEF Begin, FQ!Flush
    <3>2. stale' = 0
      BY <1>9, <3>1 DEF Begin, Opened
    <3>3. Waiting' = 0
      BY <3>1 DEF Waiting, InHand
    <3> QED BY <1>1, <1>2, <3>1, <3>2, <3>3 DEF Queues, QueueType
  <2>2. CASE Processor # "SnapProcessorBuffered"
    <3>1. UNCHANGED <<queue, held, Processor, delivered>>
      BY <1>9, <2>2 DEF Begin, queuing
    <3>2. stale' = n \/ stale' = 0 \/ stale' = stale
      BY <1>9, <3>1 DEF Begin, Opened
    <3> QED BY <1>1, <1>4, <3>1, <3>2
  <2> QED BY <2>1, <2>2
<1>10. CASE End
  <2>1. CASE Processor = "SnapProcessorRTOS"
    <3>1. /\ queue' = <<>> \/ (queue # <<>> /\ queue' = <<Head(queue)>>)
          /\ delivered' = delivered /\ Len(queue') = InHand
          /\ held' = held /\ Processor' = Processor
          /\ stale' = IF stale > InHand THEN InHand ELSE stale
      BY <1>10, <2>1 DEF End, FQ!Flush
    <3>2. queue' \in Seq(Frame)
      <4>1. CASE queue' = <<>>
        BY <4>1
      <4>2. ASSUME queue # <<>>, queue' = <<Head(queue)>> PROVE queue' \in Seq(Frame)
        <5> DEFINE h == Head(queue)
        <5>1. h \in Frame /\ queue' = <<h>>
          BY <1>1, <4>2
        <5> HIDE DEF h
        <5> QED BY <5>1
      <4> QED BY <3>1, <4>1, <4>2
    <3>3. stale' \in 0..Len(queue')
      BY <1>1, <1>3, <3>1
    <3>4. Waiting' = 0
      BY <3>1 DEF Waiting, InHand
    <3>5. held => Len(queue') = 1
      BY <1>3, <3>1
    <3>6. held => queue' # <<>>
      BY <3>5
    <3> QED BY <1>1, <1>2, <2>1, <3>1, <3>2, <3>3, <3>4, <3>6 DEF Queues, QueueType
  <2>2. CASE Processor # "SnapProcessorRTOS"
    BY <1>5, <1>10, <2>2 DEF End, queuing
  <2> QED BY <2>1, <2>2
<1>11. ASSUME NEW codec \in Codecs, CodecHeader(codec) PROVE Queues'
  <2>1. CASE codec \in Supported
    BY <1>6, <1>11, <2>1 DEF CodecHeader, Message, queuing
  <2>2. CASE codec \notin Supported
    BY <1>5, <1>11, <2>2 DEF CodecHeader, Message, queuing
  <2> QED BY <2>1, <2>2
<1>12. ASSUME NEW frame \in Chunks, WriteAudio(frame) PROVE Queues'
  <2>1. delivered' = delivered \/ delivered' = Append(delivered, frame)
    BY <1>12 DEF WriteAudio
  <2>2. delivered' \in Seq(Frame)
    BY <1>1, <2>1, ChunkType
  <2> QED BY <1>1, <1>4, <1>12, <2>2 DEF WriteAudio, WireChunk, Message
<1>13. ASSUME NEW frame \in Chunks, WriteAudioRTOS(frame) PROVE Queues'
  <2>1. Processor' = Processor /\ stale' = stale
    BY <1>13 DEF WriteAudioRTOS, WireChunk, Message
  <2>2. CASE UNCHANGED queuing
    BY <1>5, <2>1, <2>2 DEF queuing
  <2>3. CASE FQ!Accept(frame) /\ Waiting < QueueLen /\ held' = held
    BY <1>7, <2>1, <2>3, ChunkType
  <2> QED BY <1>13, <2>2, <2>3 DEF WriteAudioRTOS
<1>14. ASSUME NEW frame \in Chunks, WriteAudioBuffered(frame) PROVE Queues'
  <2>1. /\ Processor = "SnapProcessorBuffered" /\ n < QueueLen
        /\ FQ!Accept(frame) /\ UNCHANGED <<held, Processor, stale>>
    BY <1>14 DEF WriteAudioBuffered, WireChunk, Message
  <2>2. Waiting < QueueLen
    BY <1>1, <1>2, <1>3, <2>1
  <2> QED BY <1>7, <2>1, <2>2, ChunkType
<1>15. CASE Dequeue
  <2>1. /\ Processor = "SnapProcessorRTOS" /\ queue # <<>> /\ ~held /\ held' = TRUE
        /\ UNCHANGED <<queue, delivered, Processor, stale>>
    BY <1>15 DEF Dequeue, history
  <2>2. Waiting' <= QueueLen
    BY <1>1, <1>2, <1>3, <2>1 DEF Waiting, InHand
  <2> QED BY <1>1, <2>1, <2>2 DEF Queues, QueueType
<1>16. CASE AudioWrite
  BY <1>8, <1>16 DEF AudioWrite
<1>17. CASE ProcessExt
  <2>1. CASE UNCHANGED <<queue, delivered, stale>>
    BY <1>5, <1>17, <2>1 DEF ProcessExt
  <2>2. CASE Taken
    <3>1. CASE held
      <4>1. Processor = "SnapProcessorRTOS"
        BY <1>1, <3>1
      <4>2. loop # "processExt"
        BY <4>1 DEF TypeInv, ExtBuffered
      <4> QED BY <1>17, <4>2 DEF ProcessExt
    <3>2. CASE ~held
      BY <1>1, <1>8, <1>17, <2>2, <3>2 DEF ProcessExt
    <3> QED BY <3>1, <3>2
  <2> QED BY <1>17, <2>1, <2>2 DEF ProcessExt
<1>18. CASE SetVolumeFactor \/ Reconnect \/ WavHeader \/ IgnoreWireChunk
  BY <1>5, <1>18 DEF SetVolumeFactor, Reconnect, WavHeader, IgnoreWireChunk, Message,
                     queuing, history
<1>19. ASSUME NEW s \in Settings, ServerSettings(s) PROVE Queues'
  BY <1>5, <1>19 DEF ServerSettings, Message, queuing
<1>20. ASSUME NEW age \in ReplyAges, Time(age) PROVE Queues'
  BY <1>5, <1>20 DEF Time, Message, queuing
<1>21. CASE NoMessage \/ Tick \/ UNCHANGED vars
  BY <1>5, <1>21 DEF NoMessage, Tick, vars, queuing, history
<1> QED BY <1>9, <1>10, <1>11, <1>12, <1>13, <1>14, <1>15, <1>16, <1>17, <1>18,
          <1>19, <1>20, <1>21 DEF Next

LEMMA ExtNext ==
  ASSUME TypeInv, [Next]_vars
  PROVE  ExtBuffered'
<1>1. ExtBuffered /\ (AfterMessage = "processExt" => Processor = "SnapProcessorBuffered")
  BY DEF TypeInv, AfterMessage
<1>2. ASSUME UNCHANGED <<loop, Processor>> PROVE ExtBuffered'
  BY <1>1, <1>2 DEF ExtBuffered
<1>3. ASSUME loop' = AfterMessage, Processor' = Processor PROVE ExtBuffered'
  BY <1>1, <1>3 DEF ExtBuffered
<1>4. CASE Begin \/ End \/ NoMessage \/ ProcessExt
  BY <1>4 DEF Begin, End, NoMessage, ProcessExt, ExtBuffered
<1>5. CASE SetVolumeFactor \/ Reconnect \/ Dequeue \/ AudioWrite \/ Tick \/ UNCHANGED vars
  BY <1>2, <1>5 DEF SetVolumeFactor, Reconnect, Dequeue, AudioWrite, Tick, vars
<1>6. ASSUME NEW codec \in Codecs, CodecHeader(codec) PROVE ExtBuffered'
  <2>1. CASE codec = "pcm"
    BY <1>6, <2>1 DEF CodecHeader, Message, ExtBuffered
  <2>2. CASE codec # "pcm"
    BY <1>3, <1>6, <2>2 DEF CodecHeader, Message
  <2> QED BY <2>1, <2>2
<1>7. CASE WavHeader \/ IgnoreWireChunk
  BY <1>3, <1>7 DEF WavHeader, IgnoreWireChunk, Message
<1>8. ASSUME NEW frame \in Chunks,
             WriteAudio(frame) \/ WriteAudioRTOS(frame) \/ WriteAudioBuffered(frame)
      PROVE  ExtBuffered'
  BY <1>3, <1>8 DEF WriteAudio, WriteAudioRTOS, WriteAudioBuffered, WireChunk, Message
<1>9. ASSUME NEW s \in Settings, ServerSettings(s) PROVE ExtBuffered'
  BY <1>3, <1>9 DEF ServerSettings, Message
<1>10. ASSUME NEW age \in ReplyAges, Time(age) PROVE ExtBuffered'
  BY <1>3, <1>10 DEF Time, Message
<1> QED BY <1>4, <1>5, <1>6, <1>7, <1>8, <1>9, <1>10 DEF Next

-----------------------------------------------------------------------------
Audio == {"none", "NO_CODEC"} \cup Codecs
Firsts == {"nothing", "header", "audio", "stale"}

(* What was announced, what the decoder is open for and what it was given. *)
LEMMA FirstType ==
  ASSUME TypeInv, NEW what \in Firsts, First(what)
  PROVE  /\ decoder' \in [codec : Audio, first : Firsts]
         /\ decoder'.codec = decoder.codec
         /\ decoder'.first = IF decoder.first = "nothing" THEN what ELSE decoder.first
BY DEF TypeInv, HistoryType, First, Audio, Firsts

LEMMA DecodedType ==
  ASSUME TypeInv, NEW frame \in Frame, NEW isStale \in BOOLEAN, Decoded(frame, isStale)
  PROVE  /\ decoder' \in [codec : Audio, first : Firsts]
         /\ decoder'.codec = decoder.codec
         /\ decoder'.first = IF decoder.first # "nothing" THEN decoder.first
                               ELSE IF isStale THEN "stale" ELSE "audio"
         /\ heard' \in [announced : Codecs \cup {"none"}, codec : Audio, stale : BOOLEAN]
         /\ heard'.announced = frame.announced /\ heard'.codec = decoder.codec
         /\ heard'.stale = isStale
<1> DEFINE what == IF isStale THEN "stale" ELSE "audio"
<1>1. what \in Firsts /\ First(what)
  BY DEF Decoded, Firsts
<1>2. frame.announced \in Codecs \cup {"none"} /\ decoder.codec \in Audio
  BY DEF Frame, TypeInv, HistoryType, Audio
<1>3. heard' = [announced |-> frame.announced, codec |-> decoder.codec, stale |-> isStale]
  BY DEF Decoded
<1>4. decoder.first \in Firsts
  BY DEF TypeInv, HistoryType, Firsts
<1> HIDE DEF what
<1>5. /\ decoder' \in [codec : Audio, first : Firsts]
      /\ decoder'.codec = decoder.codec
      /\ decoder'.first = IF decoder.first = "nothing" THEN what ELSE decoder.first
  BY <1>1, FirstType
<1>6. decoder'.first = IF decoder.first # "nothing" THEN decoder.first
                         ELSE IF isStale THEN "stale" ELSE "audio"
  BY <1>5 DEF what
<1> QED BY <1>2, <1>3, <1>5, <1>6

LEMMA OpenedType ==
  ASSUME NEW codec \in Audio, Opened(codec)
  PROVE  /\ decoder' \in [codec : Audio, first : Firsts]
         /\ decoder' = [codec |-> codec, first |-> "nothing"]
         /\ stale' = Len(queue')
BY DEF Opened, Firsts

(* The decoder is open for the codec that was announced, and a frame that  *)
(* was queued since is of its codec.                                       *)
Announced == announced \in Supported => announced = decoder.codec

QueueMatches ==
  \A i \in 1..Len(queue) :
    i > stale /\ queue[i].announced \in Supported => queue[i].announced = decoder.codec

CodecInv == Announced /\ QueueMatches /\ CodecMatches

(* A WAV decoder that has got nothing waits for its header, and all that   *)
(* is in the queue is older than it.                                       *)
HeaderInv ==
  /\ decoder.codec = "pcm" /\ decoder.first = "nothing"
       => loop = "wavHeader" /\ stale = Len(queue)
  /\ HeaderFirstInDecoder

DecoderType ==
  /\ announced \in Codecs \cup {"none"}
  /\ decoder \in [codec : Audio, first : Firsts]
  /\ heard \in [announced : Codecs \cup {"none"}, codec : Audio, stale : BOOLEAN]

LEMMA CodecsNow ==
  ASSUME TypeInv
  PROVE  DecoderType
BY DEF TypeInv, HistoryType, DecoderType, Audio, Firsts

LEMMA CodecNext ==
  ASSUME TypeInv, CodecInv, [Next]_vars
  PROVE  DecoderType' /\ CodecInv'
<1>1. DecoderType /\ Announced /\ QueueMatches /\ CodecMatches
  BY CodecsNow DEF CodecInv
<1>2. /\ queue \in Seq(Frame) /\ Len(queue) \in Nat /\ stale \in 0..Len(queue)
  BY QueuesNow
<1>3. ASSUME UNCHANGED <<announced, decoder, heard, queue, stale>>
      PROVE  DecoderType' /\ CodecInv'
  BY <1>1, <1>3 DEF DecoderType, CodecInv, Announced, QueueMatches, CodecMatches
<1>4. ASSUME NEW codec \in Audio, Opened(codec), heard' = heard,
             announced' \in Codecs \cup {"none"},
             announced' \in Supported => announced' = codec
      PROVE  DecoderType' /\ CodecInv'
  <2>1. /\ decoder' \in [codec : Audio, first : Firsts] /\ decoder'.codec = codec
        /\ stale' = Len(queue')
    BY <1>4, OpenedType
  <2>2. QueueMatches'
    <3> SUFFICES ASSUME NEW i \in 1..Len(queue'), i > stale' PROVE FALSE
      BY DEF QueueMatches
    <3> DEFINE n == Len(queue')
    <3>1. i \in 1..n /\ i > n /\ n \in Nat
      <4>1. queue' \in Seq(Frame)
        BY QueuesNext DEF Queues, QueueType
      <4> QED BY <2>1, <4>1
    <3> HIDE DEF n
    <3> QED BY <3>1
  <2>3. Announced' /\ CodecMatches'
    BY <1>1, <1>4, <2>1 DEF Announced, CodecMatches
  <2> QED BY <1>1, <1>4, <2>1, <2>2, <2>3 DEF DecoderType, CodecInv
(* A header reaches the decoder, or nothing: the queue may have lost its rest. *)
<1>5. ASSUME decoder' \in [codec : Audio, first : Firsts], decoder'.codec = decoder.codec,
             QueueMatches', heard' = heard,
             announced' = announced \/ announced' = "none"
      PROVE  DecoderType' /\ CodecInv'
  <2>1. Announced'
    BY <1>1, <1>5 DEF Announced, Supported
  <2>2. CodecMatches'
    BY <1>1, <1>5 DEF CodecMatches
  <2> QED BY <1>1, <1>5, <2>1, <2>2 DEF DecoderType, CodecInv
<1>6. ASSUME decoder'.codec = decoder.codec, UNCHANGED <<queue, stale>> PROVE QueueMatches'
  BY <1>1, <1>6 DEF QueueMatches
<1>7. ASSUME NEW frame \in Frame, FQ!Accept(frame), frame.announced = announced,
             UNCHANGED <<stale, decoder>>
      PROVE  QueueMatches'
  <2> DEFINE n == Len(queue)
  <2>1. queue' = Append(queue, frame)
    BY <1>7 DEF FQ!Accept
  <2>2. Len(queue') = n + 1 /\ n \in Nat
    BY <1>2, <2>1
  <2>3. \A i \in 1..n : queue'[i] = queue[i]
    BY <1>2, <2>1
  <2>4. queue'[n + 1] = frame
    BY <1>2, <2>1
  <2> SUFFICES ASSUME NEW i \in 1..(n + 1), i > stale', queue'[i].announced \in Supported
               PROVE  queue'[i].announced = decoder'.codec
    BY <2>2 DEF QueueMatches
  <2>5. CASE i = n + 1
    BY <1>1, <1>7, <2>4, <2>5 DEF Announced
  <2>6. CASE i # n + 1
    <3>1. i \in 1..n
      BY <2>2, <2>6
    <3> QED BY <1>1, <1>7, <2>3, <3>1 DEF QueueMatches
  <2> QED BY <2>5, <2>6
<1>8. ASSUME Taken, decoder'.codec = decoder.codec PROVE QueueMatches'
  <2> DEFINE n == Len(queue)
  <2>1. /\ queue # <<>> /\ queue' = Tail(queue)
        /\ stale' = IF stale > 0 THEN stale - 1 ELSE 0
    BY <1>8 DEF Taken, FQ!Deliver
  <2>2. Len(queue') = n - 1 /\ n \in Nat /\ n >= 1
    BY <1>2, <2>1
  <2>3. \A i \in 1..(n - 1) : queue'[i] = queue[i + 1]
    BY <1>2, <2>1
  <2> SUFFICES ASSUME NEW i \in 1..(n - 1), i > stale', queue'[i].announced \in Supported
               PROVE  queue'[i].announced = decoder'.codec
    BY <2>2 DEF QueueMatches
  <2>4. i + 1 \in 1..n /\ i + 1 > stale
    BY <1>2, <2>1, <2>2
  <2>5. queue[i + 1].announced \in Supported
    BY <2>3
  <2>6. queue[i + 1].announced = decoder.codec
    BY <1>1, <2>4, <2>5 DEF QueueMatches
  <2> QED BY <1>8, <2>3, <2>6
<1>9. ASSUME NEW frame \in Frame, NEW isStale \in BOOLEAN, Decoded(frame, isStale),
             announced' = announced,
             ~isStale /\ frame.announced \in Supported => frame.announced = decoder.codec,
             decoder'.codec = decoder.codec => QueueMatches'
      PROVE  DecoderType' /\ CodecInv'
  <2>1. /\ decoder' \in [codec : Audio, first : Firsts] /\ decoder'.codec = decoder.codec
        /\ heard' \in [announced : Codecs \cup {"none"}, codec : Audio, stale : BOOLEAN]
        /\ heard'.announced = frame.announced /\ heard'.codec = decoder.codec
        /\ heard'.stale = isStale
    BY <1>9, DecodedType
  <2>2. CodecMatches'
    BY <1>9, <2>1 DEF CodecMatches
  <2>3. Announced'
    BY <1>1, <1>9, <2>1 DEF Announced
  <2> QED BY <1>1, <1>9, <2>1, <2>2, <2>3 DEF DecoderType, CodecInv
<1>10. decoder \in [codec : Audio, first : Firsts]
  BY <1>1 DEF DecoderType
<1>11. CASE Begin
  <2>1. announced' = "none" /\ heard' = heard
    BY <1>11 DEF Begin
  <2>2. CASE OutputStart
    BY <1>4, <1>11, <2>1, <2>2 DEF Begin, Audio, Supported
  <2>3. CASE ~OutputStart
    <3>1. decoder' = decoder
      BY <1>11, <2>3 DEF Begin
    <3>2. CASE queue' = <<>>
      <4>1. QueueMatches'
        BY <3>2 DEF QueueMatches
      <4> QED BY <1>5, <1>10, <2>1, <3>1, <4>1
    <3>3. CASE queue' # <<>>
      <4>1. UNCHANGED <<queue, stale>>
        BY <1>11, <2>3, <3>3 DEF Begin, queuing
      <4> QED BY <1>5, <1>6, <1>10, <2>1, <3>1, <4>1
    <3> QED BY <3>2, <3>3
  <2> QED BY <2>2, <2>3
<1>12. CASE End
  <2>1. announced' = announced /\ heard' = heard /\ decoder' = decoder
    BY <1>12 DEF End
  <2>2. QueueMatches'
    <3>1. CASE UNCHANGED <<queue, stale>>
      BY <1>6, <2>1, <3>1
    <3>2. CASE queue' = <<>>
      BY <3>2 DEF QueueMatches
    <3>3. ASSUME queue # <<>>, queue' = <<Head(queue)>>, Len(queue') = InHand,
                 stale' = IF stale > InHand THEN InHand ELSE stale
          PROVE  QueueMatches'
      <4>1. Len(queue') = 1 /\ queue'[1] = queue[1] /\ Len(queue) >= 1
        BY <1>2, <3>3
      <4>2. stale' = IF stale > 1 THEN 1 ELSE stale
        BY <3>3, <4>1
      <4> SUFFICES ASSUME NEW i \in 1..1, i > stale', queue'[i].announced \in Supported
                   PROVE  queue'[i].announced = decoder'.codec
        BY <4>1 DEF QueueMatches
      <4>3. i = 1 /\ stale' < 1
        OBVIOUS
      <4>4. 1 > stale /\ 1 \in 1..Len(queue)
        BY <1>2, <4>1, <4>2, <4>3
      <4> QED BY <1>1, <2>1, <4>1, <4>3, <4>4 DEF QueueMatches
    <3> QED BY <1>12, <3>1, <3>2, <3>3 DEF End, queuing, FQ!Flush
  <2> QED BY <1>5, <1>10, <2>1, <2>2
<1>13. CASE Reconnect
  BY <1>5, <1>6, <1>10, <1>13 DEF Reconnect, queuing
<1>14. ASSUME NEW codec \in Codecs, CodecHeader(codec) PROVE DecoderType' /\ CodecInv'
  <2>1. announced' = codec /\ heard' = heard /\ UNCHANGED queue
    BY <1>14 DEF CodecHeader, queuing
  <2>2. CASE codec \in Supported
    <3>1. codec_from_server' = codec /\ Opened(codec_from_server')
      BY <1>14, <2>2 DEF CodecHeader, HandleCodecHeader
    <3> QED BY <1>4, <2>1, <3>1 DEF Audio
  <2>3. CASE codec \notin Supported
    <3>1. UNCHANGED <<decoder, stale>>
      BY <1>14, <2>3 DEF CodecHeader
    <3>2. QueueMatches'
      BY <1>6, <2>1, <3>1
    <3>3. Announced' /\ CodecMatches'
      BY <1>1, <2>1, <2>3 DEF Announced, CodecMatches
    <3> QED BY <1>1, <2>1, <3>1, <3>2, <3>3 DEF DecoderType, CodecInv
  <2> QED BY <2>2, <2>3
<1>15. CASE WavHeader
  <2>1. First("header") /\ UNCHANGED <<queue, stale, heard, announced>>
    BY <1>15 DEF WavHeader, queuing
  <2>2. decoder' \in [codec : Audio, first : Firsts] /\ decoder'.codec = decoder.codec
    BY <2>1, FirstType DEF Firsts
  <2> QED BY <1>5, <1>6, <2>1, <2>2
<1>16. ASSUME NEW frame \in Chunks, WriteAudio(frame) PROVE DecoderType' /\ CodecInv'
  <2>1. UNCHANGED <<queue, stale, announced>>
    BY <1>16 DEF WriteAudio, WireChunk
  <2>2. CASE UNCHANGED <<decoder, heard>>
    BY <1>3, <2>1, <2>2
  <2>3. CASE Decoded(frame, FALSE)
    <3>1. frame \in Frame /\ frame.announced = announced
      BY ChunkType
    <3>2. frame.announced \in Supported => frame.announced = decoder.codec
      BY <1>1, <3>1 DEF Announced
    <3> QED BY <1>6, <1>9, <2>1, <2>3, <3>1, <3>2
  <2> QED BY <1>16, <2>2, <2>3 DEF WriteAudio
<1>17. ASSUME NEW frame \in Chunks, WriteAudioRTOS(frame) \/ WriteAudioBuffered(frame)
       PROVE  DecoderType' /\ CodecInv'
  <2>1. UNCHANGED <<announced, decoder, stale, heard>>
    BY <1>17 DEF WriteAudioRTOS, WriteAudioBuffered, WireChunk
  <2>2. CASE queue' = queue
    BY <1>3, <2>1, <2>2
  <2>3. CASE FQ!Accept(frame)
    <3>1. frame \in Frame /\ frame.announced = announced
      BY ChunkType
    <3> QED BY <1>5, <1>7, <1>10, <2>1, <2>3, <3>1
  <2> QED BY <1>17, <2>2, <2>3 DEF WriteAudioRTOS, WriteAudioBuffered, queuing
<1>18. ASSUME Taken, Decoded(Head(queue), stale > 0), announced' = announced
       PROVE  DecoderType' /\ CodecInv'
  <2> DEFINE h == Head(queue)
             b == stale > 0
  <2>1. h \in Frame /\ h = queue[1] /\ 1 \in 1..Len(queue)
    BY <1>2, <1>18 DEF Taken, FQ!Deliver
  <2>2. b \in BOOLEAN
    OBVIOUS
  <2>3. ~b => 1 > stale
    BY <1>2
  <2>4. ~b /\ h.announced \in Supported => h.announced = decoder.codec
    BY <1>1, <2>1, <2>3 DEF QueueMatches
  <2>5. Decoded(h, b)
    BY <1>18
  <2> HIDE DEF h, b
  <2> QED BY <1>8, <1>9, <1>18, <2>1, <2>2, <2>4, <2>5
<1>19. CASE AudioWrite
  BY <1>18, <1>19 DEF AudioWrite
<1>20. CASE ProcessExt
  <2>1. announced' = announced
    BY <1>20 DEF ProcessExt
  <2>2. CASE Taken /\ Decoded(Head(queue), stale > 0)
    BY <1>18, <2>1, <2>2
  <2>3. CASE Taken /\ UNCHANGED <<decoder, heard>>
    BY <1>5, <1>8, <1>10, <2>1, <2>3
  <2>4. CASE UNCHANGED <<queue, stale, decoder, heard>>
    BY <1>3, <2>1, <2>4
  <2> QED BY <1>20, <2>2, <2>3, <2>4 DEF ProcessExt
<1>21. ASSUME NEW s \in Settings, ServerSettings(s) PROVE DecoderType' /\ CodecInv'
  BY <1>3, <1>21 DEF ServerSettings, queuing
<1>22. ASSUME NEW age \in ReplyAges, Time(age) PROVE DecoderType' /\ CodecInv'
  BY <1>3, <1>22 DEF Time, queuing
<1>23. CASE SetVolumeFactor \/ IgnoreWireChunk \/ NoMessage \/ Dequeue \/ Tick \/ UNCHANGED vars
  BY <1>3, <1>23 DEF SetVolumeFactor, IgnoreWireChunk, NoMessage, Dequeue, Tick, vars,
                     queuing, history
<1> QED BY <1>11, <1>12, <1>13, <1>14, <1>15, <1>16, <1>17, <1>19, <1>20, <1>21, <1>22,
          <1>23 DEF Next

LEMMA HeaderNext ==
  ASSUME TypeInv, HeaderInv, [Next]_vars
  PROVE  HeaderInv'
<1> DEFINE fresh == decoder.codec = "pcm" /\ decoder.first = "nothing"
           n == Len(queue)
<1>1. /\ decoder \in [codec : Audio, first : Firsts]
      /\ fresh => loop = "wavHeader" /\ stale = n
      /\ HeaderFirstInDecoder
  BY CodecsNow DEF HeaderInv, DecoderType
<1>2. queue \in Seq(Frame) /\ n \in Nat /\ stale \in 0..n
  BY QueuesNow
<1>3. Processor' = Processor
  BY DEF Next, Begin, End, SetVolumeFactor, Reconnect, CodecHeader, WavHeader,
         IgnoreWireChunk, WriteAudio, WriteAudioRTOS, WriteAudioBuffered, ServerSettings,
         Time, NoMessage, Dequeue, AudioWrite, ProcessExt, Tick, WireChunk, Message, vars
<1>4. ASSUME decoder' = decoder,
             fresh => loop' = "wavHeader" /\ UNCHANGED <<queue, stale>>
      PROVE  HeaderInv'
  BY <1>1, <1>3, <1>4 DEF HeaderInv, HeaderFirstInDecoder
<1>5. ASSUME loop # "wavHeader", decoder'.codec = decoder.codec,
             decoder.first # "nothing" => decoder'.first = decoder.first
      PROVE  HeaderInv'
  BY <1>1, <1>3, <1>5 DEF HeaderInv, HeaderFirstInDecoder
<1>6. ASSUME NEW codec \in Audio, Opened(codec), codec = "pcm" => loop' = "wavHeader"
      PROVE  HeaderInv'
  <2>1. decoder' = [codec |-> codec, first |-> "nothing"] /\ stale' = Len(queue')
    BY <1>6, OpenedType
  <2>2. decoder'.codec = codec /\ decoder'.first = "nothing"
    BY <2>1
  <2> QED BY <1>6, <2>1, <2>2 DEF HeaderInv, HeaderFirstInDecoder
<1>7. CASE Begin
  <2>1. CASE OutputStart
    BY <1>6, <1>7, <2>1 DEF Begin, Audio
  <2>2. CASE ~OutputStart
    BY <1>5, <1>7, <2>2 DEF Begin
  <2> QED BY <2>1, <2>2
<1>8. CASE End \/ SetVolumeFactor \/ Reconnect
  BY <1>5, <1>8 DEF End, SetVolumeFactor, Reconnect, history
<1>9. ASSUME NEW codec \in Codecs, CodecHeader(codec) PROVE HeaderInv'
  <2>1. CASE codec \in Supported
    <3>1. codec_from_server' = codec /\ Opened(codec_from_server')
      BY <1>9, <2>1 DEF CodecHeader, HandleCodecHeader
    <3>2. codec = "pcm" => loop' = "wavHeader"
      BY <1>9 DEF CodecHeader
    <3> QED BY <1>6, <3>1, <3>2 DEF Audio
  <2>2. CASE codec \notin Supported
    BY <1>5, <1>9, <2>2 DEF CodecHeader, Message
  <2> QED BY <2>1, <2>2
<1>10. CASE WavHeader
  <2>1. First("header") /\ loop = "wavHeader"
    BY <1>10 DEF WavHeader
  <2>2. /\ decoder'.codec = decoder.codec
        /\ decoder'.first = IF decoder.first = "nothing" THEN "header" ELSE decoder.first
    BY <2>1, FirstType DEF Firsts
  <2> QED BY <1>1, <1>3, <2>2 DEF HeaderInv, HeaderFirstInDecoder
<1>11. ASSUME NEW frame \in Frame, NEW isStale \in BOOLEAN, Decoded(frame, isStale)
       PROVE  /\ decoder'.codec = decoder.codec
              /\ decoder.first # "nothing" => decoder'.first = decoder.first
              /\ decoder'.first # "nothing"
              /\ isStale /\ decoder.first = "nothing" => decoder'.first = "stale"
  <2>1. /\ decoder'.codec = decoder.codec
        /\ decoder'.first = IF decoder.first # "nothing" THEN decoder.first
                              ELSE IF isStale THEN "stale" ELSE "audio"
    BY <1>11, DecodedType
  <2> QED BY <2>1
<1>12. ASSUME NEW frame \in Chunks, WriteAudio(frame) PROVE HeaderInv'
  <2>1. frame \in Frame /\ loop # "wavHeader"
    BY <1>12, ChunkType DEF WriteAudio, WireChunk, Message
  <2>2. CASE Decoded(frame, FALSE)
    BY <1>5, <1>11, <2>1, <2>2
  <2>3. CASE decoder' = decoder
    BY <1>5, <2>1, <2>3
  <2> QED BY <1>12, <2>2, <2>3 DEF WriteAudio
<1>13. ASSUME NEW frame \in Chunks, WriteAudioRTOS(frame) \/ WriteAudioBuffered(frame)
       PROVE  HeaderInv'
  BY <1>5, <1>13 DEF WriteAudioRTOS, WriteAudioBuffered, WireChunk, Message
<1>14. ASSUME NEW s \in Settings, ServerSettings(s) PROVE HeaderInv'
  BY <1>5, <1>14 DEF ServerSettings, Message
<1>15. ASSUME NEW age \in ReplyAges, Time(age) PROVE HeaderInv'
  BY <1>5, <1>15 DEF Time, Message
<1>16. CASE IgnoreWireChunk \/ NoMessage
  BY <1>5, <1>16 DEF IgnoreWireChunk, NoMessage, Message, history
<1>17. CASE Dequeue \/ Tick \/ UNCHANGED vars
  BY <1>1, <1>4, <1>17 DEF Dequeue, Tick, vars, queuing, history
<1>18. ASSUME Taken PROVE Head(queue) \in Frame /\ n >= 1
  BY <1>2, <1>18 DEF Taken, FQ!Deliver
<1>19. CASE AudioWrite
  <2> DEFINE h == Head(queue)
             b == stale > 0
  <2>1. Taken /\ Decoded(h, b) /\ Processor = "SnapProcessorRTOS" /\ b \in BOOLEAN
    BY <1>19 DEF AudioWrite
  <2>2. h \in Frame /\ (fresh => b)
    BY <1>1, <1>2, <1>18, <2>1
  <2> HIDE DEF h, b
  <2>3. /\ decoder'.codec = decoder.codec /\ decoder'.first # "nothing"
        /\ decoder.first # "nothing" => decoder'.first = decoder.first
        /\ b /\ decoder.first = "nothing" => decoder'.first = "stale"
    BY <1>11, <2>1, <2>2
  <2>4. ASSUME decoder'.codec = "pcm" PROVE decoder'.first \in {"nothing", "header", "stale"}
    <3>1. CASE decoder.first = "nothing"
      BY <2>2, <2>3, <2>4, <3>1
    <3>2. CASE decoder.first # "nothing"
      BY <1>1, <2>1, <2>3, <2>4, <3>2 DEF HeaderFirstInDecoder
    <3> QED BY <3>1, <3>2
  <2>5. HeaderFirstInDecoder'
    BY <1>3, <2>1, <2>4 DEF HeaderFirstInDecoder
  <2>6. ~(decoder'.codec = "pcm" /\ decoder'.first = "nothing")
    BY <2>3
  <2> QED BY <2>5, <2>6 DEF HeaderInv
<1>20. CASE ProcessExt
  <2>1. loop # "wavHeader"
    BY <1>20 DEF ProcessExt
  <2>2. CASE Taken /\ Decoded(Head(queue), stale > 0)
    <3> DEFINE h == Head(queue)
               b == stale > 0
    <3>1. h \in Frame /\ b \in BOOLEAN /\ Decoded(h, b)
      BY <1>18, <2>2
    <3> HIDE DEF h, b
    <3>2. /\ decoder'.codec = decoder.codec
          /\ decoder.first # "nothing" => decoder'.first = decoder.first
      BY <1>11, <3>1
    <3> QED BY <1>5, <2>1, <3>2
  <2>3. CASE decoder' = decoder
    BY <1>5, <2>1, <2>3
  <2> QED BY <1>20, <2>2, <2>3 DEF ProcessExt
<1> QED BY <1>7, <1>8, <1>9, <1>10, <1>12, <1>13, <1>14, <1>15, <1>16, <1>17, <1>19,
          <1>20 DEF Next

-----------------------------------------------------------------------------
(* The reply handled last was sent at s and handled at tick n.             *)
LagInv ==
  lag # -1 => /\ lag \in ReplyAges
              /\ \E s \in Int, n \in Nat :
                   /\ lag = (StartServer + n) - s
                   /\ snap_time.server_ms = uint32(StartMillis + n)
                   /\ snap_time.time_diff = uint32(snap_time.server_time - s)

(* Only a reply sets the server time.                                      *)
LEMMA TimeKept ==
  ASSUME [Next]_vars, ~(\E age \in ReplyAges : Time(age))
  PROVE  UNCHANGED <<snap_time, lag>>
<1>1. ASSUME NEW codec \in Codecs, CodecHeader(codec) PROVE UNCHANGED <<snap_time, lag>>
  BY <1>1 DEF CodecHeader, HandleCodecHeader
<1>2. ASSUME NEW frame \in Chunks,
             WriteAudio(frame) \/ WriteAudioRTOS(frame) \/ WriteAudioBuffered(frame)
      PROVE  UNCHANGED <<snap_time, lag>>
  BY <1>2 DEF WriteAudio, WriteAudioRTOS, WriteAudioBuffered, WireChunk, HandleWireChunk
<1>3. ASSUME NEW s \in Settings, ServerSettings(s) PROVE UNCHANGED <<snap_time, lag>>
  BY <1>3 DEF ServerSettings, HandleServerSettings
<1>4. CASE Begin \/ End \/ SetVolumeFactor \/ Reconnect \/ WavHeader
  BY <1>4 DEF Begin, End, SetVolumeFactor, Reconnect, WavHeader, HandleBegin, handled, history
<1>5. CASE Dequeue \/ AudioWrite \/ ProcessExt
  BY <1>5 DEF Dequeue, AudioWrite, ProcessExt, handled, history
<1>6. CASE IgnoreWireChunk \/ NoMessage \/ Tick \/ UNCHANGED vars
  BY <1>6 DEF IgnoreWireChunk, NoMessage, Tick, vars, handled, history
<1> QED BY <1>1, <1>2, <1>3, <1>4, <1>5, <1>6 DEF Next

LEMMA LagNext ==
  ASSUME TypeInv, LagInv, [Next]_vars
  PROVE  LagInv'
<1>1. ASSUME NEW age \in ReplyAges, Time(age) PROVE LagInv'
  <2> DEFINE s == ServerClock - age
             m == millis
  <2>1. lag' = age /\ snap_time' = Replied(snap_time, now, s, m)
    BY <1>1 DEF Time, HandleTime, Replied
  <2>2. age \in Nat /\ now \in Nat /\ m \in 0..(W - 1) /\ ServerClock \in Int
    BY ClockType, PlaybackAssumption
  <2>3. s \in Int /\ age = (StartServer + now) - s
    BY <2>2 DEF ServerClock
  <2>4. m = uint32(StartMillis + now)
    BY DEF millis
  <2> HIDE DEF s, m
  <2>5. snap_time' \in TimeRec /\ snap_time'.server_ms = m
        /\ snap_time'.time_diff = uint32(snap_time'.server_time - s)
    BY <2>1, <2>2, <2>3, AfterReply DEF TypeInv
  <2>6. \E i \in Int, n \in Nat :
          /\ lag' = (StartServer + n) - i
          /\ snap_time'.server_ms = uint32(StartMillis + n)
          /\ snap_time'.time_diff = uint32(snap_time'.server_time - i)
    <3>1. lag' = (StartServer + now) - s /\ snap_time'.server_ms = uint32(StartMillis + now)
      BY <2>1, <2>3, <2>4, <2>5
    <3> QED BY <2>2, <2>3, <2>5, <3>1, Zenon
  <2> QED BY <2>1, <2>6, Zenon DEF LagInv
<1>2. CASE ~(\E age \in ReplyAges : Time(age))
  <2>1. UNCHANGED <<snap_time, lag>>
    BY <1>2, TimeKept
  <2> QED BY <2>1 DEF LagInv
<1> QED BY <1>1, <1>2

(* The delay of the audio is how far its time, with the start delay, is    *)
(* ahead of the server time of the client.                                 *)
LEMMA DelayIsAhead ==
  ASSUME TypeInv, LagInv, lag # -1, NEW frame \in Chunks
  PROVE  delayMs(frame.timestamp, millis)
           = frame.timestamp + getStartDelay(delay) - (ServerClock - lag)
<1> DEFINE ts == frame.timestamp
           clock == ServerClock
           diff == getStartDelay(delay)
           server == serverMillis(snap_time, millis)
<1>1. PICK a \in ChunkAges : ts = clock - a
  BY DEF Chunks
<1>2. a \in Int /\ lag \in ReplyAges /\ lag \in Nat /\ clock \in Int
  BY ClockType, PlaybackAssumption DEF LagInv
<1>3. lag - a \in Ints
  BY <1>2, AgesAssumption DEF Ints
<1>4. server = uint32(clock - lag)
  <2>1. PICK s \in Int, n \in Nat :
          /\ lag = (StartServer + n) - s
          /\ snap_time.server_ms = uint32(StartMillis + n)
          /\ snap_time.time_diff = uint32(snap_time.server_time - s)
    BY DEF LagInv
  <2>2. StartMillis \in Int /\ StartServer \in Int /\ now \in Int
    BY ClockType, PlaybackAssumption, WAssumption
  <2> DEFINE h == StartMillis + n
             m == StartMillis + now
  <2>3. h \in Int /\ m \in Int /\ (s + m) - h = clock - lag /\ s + m - h = (s + m) - h
    BY <2>1, <2>2 DEF ServerClock
  <2>4. millis = uint32(m)
    BY DEF millis
  <2> HIDE DEF h, m, clock
  <2>5. serverMillis(snap_time, uint32(m)) = uint32(s + m - h)
    BY <2>1, <2>3, Extrapolated DEF TypeInv, h
  <2> QED BY <2>3, <2>4, <2>5
<1>5. diff \in Int
  BY OutputAssumption, TypeParts DEF TypeInv, Plain, getStartDelay
<1>6. delayMs(ts, millis) = int(uint32(ts) - server) + diff
  <2>1. output \in OutputRec
    BY DEF TypeInv
  <2>2. writeHeader(output, ts).header = ts
    BY <2>1 DEF writeHeader, OutputRec
  <2> QED BY <2>2 DEF delayMs, getDelayMs, toMillis
<1> HIDE DEF ts, clock, server, diff
<1>7. int(uint32(ts) - server) = lag - a
  <2> DEFINE x == uint32(ts)
             y == uint32(clock - lag)
  <2>1. ts \in Int /\ clock - lag \in Int /\ ts - (clock - lag) = lag - a
    BY <1>1, <1>2
  <2>2. x \in Int /\ y \in Int /\ Congruent(x, ts) /\ Congruent(y, clock - lag)
    BY <2>1, Wraps, WAssumption
  <2> HIDE DEF x, y
  <2>3. Congruent(x - y, ts - (clock - lag))
    BY <2>1, <2>2, CongruentSum
  <2>4. x - y \in Int /\ Congruent(x - y, lag - a)
    BY <2>1, <2>2, <2>3
  <2>5. int(x - y) = lag - a
    BY <1>3, <2>4, IntInRange
  <2> QED BY <1>4, <2>5 DEF x, y
<1>8. delayMs(ts, millis) = (lag - a) + diff
  BY <1>6, <1>7
<1>9. ts + diff - (clock - lag) = (lag - a) + diff
  BY <1>1, <1>2, <1>5
<1> QED BY <1>8, <1>9 DEF ts, diff, clock

(* Audio that is handed to SnapOutput as it comes only starts the playback *)
(* when it is valid.                                                       *)
LEMMA StartedValid ==
  ASSUME TypeInv, LagInv, NEW frame \in Chunks,
         HandleWireChunk(frame.timestamp, millis), Started(frame)
  PROVE  start' = start \/ (start'.known => start'.ahead \in 0..MaxDelay)
<1> DEFINE ts == frame.timestamp
           d == delayMs(ts, millis)
           ahead == ts + getStartDelay(delay) - (ServerClock - lag)
<1> SUFFICES ASSUME output'.is_sync_started, ~output.is_sync_started, lag # -1,
                    start' = [known |-> lag # -1, ahead |-> ahead]
             PROVE  ahead \in 0..MaxDelay
  BY DEF Started
<1> DEFINE o == writeHeader(output, ts)
<1>1. o.is_sync_started = output.is_sync_started
  <2>1. output \in OutputRec
    BY DEF TypeInv
  <2> QED BY <2>1 DEF writeHeader, OutputRec
<1>2. o \in OutputRec
  BY ChunkType, AudioOps DEF TypeInv
<1>3. output' = written(o, d)
  BY DEF HandleWireChunk
<1> HIDE DEF o, d
<1>4. isValid(d)
  <2>1. written(o, d) = synchronized(o, d)
    BY <1>1, <1>3 DEF written
  <2>2. output'.is_sync_started = synchronizePlayback(o, d)
    BY <1>2, <1>3, <2>1 DEF synchronized, OutputRec
  <2> QED BY <1>1, <2>2 DEF synchronizePlayback
<1>5. d = ahead
  BY DelayIsAhead DEF d
<1>6. ahead \in Int
  <2>1. ts \in Int /\ ServerClock \in Int
    BY ChunkType, ClockType
  <2>2. lag \in Int
    BY PlaybackAssumption DEF LagInv
  <2>3. getStartDelay(delay) \in Int
    BY OutputAssumption, TypeParts DEF TypeInv, Plain, getStartDelay
  <2> QED BY <2>1, <2>2, <2>3
<1> HIDE DEF ahead
<1> QED BY <1>4, <1>5, <1>6, OutputAssumption DEF isValid

LEMMA StartNext ==
  ASSUME TypeInv, LagInv, StartIsFresh, [Next]_vars
  PROVE  StartIsFresh'
<1>1. ASSUME UNCHANGED <<start, Processor>> PROVE StartIsFresh'
  BY <1>1 DEF StartIsFresh
<1>2. ASSUME NEW frame \in Chunks, WriteAudio(frame) \/ WriteAudioRTOS(frame)
      PROVE  StartIsFresh'
  <2>1. HandleWireChunk(frame.timestamp, millis) /\ Started(frame) /\ UNCHANGED Processor
    BY <1>2 DEF WriteAudio, WriteAudioRTOS, WireChunk, Message
  <2>2. start' = start \/ (start'.known => start'.ahead \in 0..MaxDelay)
    BY <2>1, StartedValid
  <2>3. CASE start' = start
    BY <1>1, <2>1, <2>3
  <2>4. CASE start'.known => start'.ahead \in 0..MaxDelay
    BY <2>4, Zenon DEF StartIsFresh
  <2> QED BY <2>2, <2>3, <2>4
<1>3. CASE ProcessExt
  <2>1. Processor = "SnapProcessorBuffered" /\ Processor' = Processor
    BY <1>3 DEF ProcessExt, TypeInv, ExtBuffered
  <2> QED BY <2>1 DEF StartIsFresh
<1>4. ASSUME NEW codec \in Codecs, CodecHeader(codec) PROVE StartIsFresh'
  BY <1>1, <1>4 DEF CodecHeader, Message
<1>5. ASSUME NEW frame \in Chunks, WriteAudioBuffered(frame) PROVE StartIsFresh'
  BY <1>1, <1>5 DEF WriteAudioBuffered, WireChunk, Message
<1>6. ASSUME NEW s \in Settings, ServerSettings(s) PROVE StartIsFresh'
  BY <1>1, <1>6 DEF ServerSettings, Message
<1>7. ASSUME NEW age \in ReplyAges, Time(age) PROVE StartIsFresh'
  BY <1>1, <1>7 DEF Time, Message
<1>8. CASE Begin \/ End \/ SetVolumeFactor \/ Reconnect \/ WavHeader \/ Dequeue \/ AudioWrite
  BY <1>1, <1>8 DEF Begin, End, SetVolumeFactor, Reconnect, WavHeader, Dequeue, AudioWrite,
                    history
<1>9. CASE IgnoreWireChunk \/ NoMessage \/ Tick \/ UNCHANGED vars
  BY <1>1, <1>9 DEF IgnoreWireChunk, Message, NoMessage, Tick, vars, history
<1> QED BY <1>2, <1>3, <1>4, <1>5, <1>6, <1>7, <1>8, <1>9 DEF Next

-----------------------------------------------------------------------------
IInv == TypeInv /\ VolumeInv /\ CodecInv /\ HeaderInv /\ LagInv /\ StartIsFresh

LEMMA Initially ==
  ASSUME Init
  PROVE  IInv
<1>1. VolumeInv
  BY DEF Init, HandlersInit, InitialOutput, VolumeInv, VolumeFollowsServer
<1>2. CodecInv
  <2>1. queue = <<>> /\ announced = "none" /\ heard = NoFrame
    BY DEF Init, FQ!Init
  <2>2. QueueMatches
    BY <2>1 DEF QueueMatches
  <2> QED BY <2>1, <2>2 DEF CodecInv, Announced, CodecMatches, NoFrame, Supported
<1>3. HeaderInv
  BY DEF Init, Closed, HeaderInv, HeaderFirstInDecoder
<1>4. LagInv /\ StartIsFresh
  BY DEF Init, LagInv, StartIsFresh, NoStart
<1> QED BY <1>1, <1>2, <1>3, <1>4, TypeInit DEF IInv

LEMMA Inductive ==
  ASSUME IInv, [Next]_vars
  PROVE  IInv'
<1>1. TypeInv /\ VolumeInv /\ CodecInv /\ HeaderInv /\ LagInv /\ StartIsFresh
  BY DEF IInv
<1>2. Plain' /\ ExtBuffered' /\ Queues'
  BY <1>1, PlainNext, ExtNext, QueuesNext
<1>3. Objects' /\ DecoderType' /\ CodecInv' /\ HeaderInv'
  BY <1>1, ObjectsNext, CodecNext, HeaderNext
<1>4. HistoryType'
  BY <1>3 DEF HistoryType, DecoderType, Objects, Audio, Firsts
<1>5. Waiting' \in 0..QueueLen
  <2>1. /\ queue' \in Seq(Frame) /\ held' \in BOOLEAN /\ (held' => queue' # <<>>)
        /\ Waiting' <= QueueLen
    BY <1>2 DEF Queues, QueueType
  <2> DEFINE n == Len(queue')
  <2>2. n \in Nat /\ (held' => n >= 1)
    BY <2>1
  <2>3. Waiting' = n - (IF held' THEN 1 ELSE 0)
    BY DEF Waiting, InHand
  <2> HIDE DEF n
  <2>4. Waiting' \in Nat
    BY <2>1, <2>2, <2>3
  <2> QED BY <2>1, <2>4, PlaybackAssumption
<1>6. TypeOK'
  <2>1. /\ output' \in OutputRec /\ snap_time' \in TimeRec
    BY <1>3 DEF Objects
  <2>2. /\ snap_time'.server_ms \in 0..(W - 1) /\ snap_time'.time_diff \in 0..(W - 1)
        /\ output'.vol \in 0..100 /\ output'.vol_factor \in Factors \cup {1}
    BY <2>1 DEF OutputRec, TimeRec
  <2>3. /\ queue' \in Seq(Frame) /\ delivered' \in Seq(Frame) /\ held' \in BOOLEAN
        /\ stale' \in 0..Len(queue')
    BY <1>2 DEF Queues, QueueType
  <2> QED BY <1>2, <1>5, <2>2, <2>3 DEF TypeOK, Plain, FQ!TypeOK
<1>7. LagInv' /\ StartIsFresh'
  BY <1>1, LagNext, StartNext
<1> QED BY <1>2, <1>3, <1>4, <1>6, <1>7 DEF IInv, TypeInv, Queues, Objects

LEMMA Always == Spec => []IInv
BY Initially, Inductive, PTL DEF Spec

(* Every variable keeps its type, the queue its bound, and the frames that *)
(* are older than the decoder are among those that wait.                   *)
THEOREM TypeCorrect == Spec => []TypeOK
<1>1. IInv => TypeOK
  BY DEF IInv, TypeInv
<1> QED BY <1>1, Always, PTL

(* Neither opening the output again nor mute and unmute, nor a factor that *)
(* the application sets in between, loses the volume of the server.        *)
THEOREM VolumeIsKept == Spec => []VolumeFollowsServer
<1>1. IInv => VolumeFollowsServer
  BY DEF IInv, VolumeInv
<1> QED BY <1>1, Always, PTL

(* A frame that came after the header of a supported codec is decoded as   *)
(* that codec, unless another header has overtaken it in the queue:        *)
(* whatever the processor, the length of the queue and the codecs before,  *)
(* also those of an earlier connection.  Of the others, which the code     *)
(* decodes with whatever decoder is open, it says nothing.                 *)
THEOREM DecodedAsAnnounced == Spec => []CodecMatches
<1>1. IInv => CodecMatches
  BY DEF IInv, CodecInv
<1> QED BY <1>1, Always, PTL

(* A WAV decoder gets its header first, but for frames that waited.        *)
THEOREM WavHeaderFirst == Spec => []HeaderFirstInDecoder
<1>1. IInv => HeaderFirstInDecoder
  BY DEF IInv, HeaderInv
<1> QED BY <1>1, Always, PTL

(* Except with SnapProcessorBuffered, where it is not so (see              *)
(* OnlyValidAudioStarts), and before the first time reply, the frame that  *)
(* starts the playback is neither late nor more than MaxDelay early by the *)
(* server time of the client, across the wrap of every uint32_t and        *)
(* whatever the delay of the settings.                                     *)
THEOREM StartIsInTime == Spec => []StartIsFresh
<1>1. IInv => StartIsFresh
  BY DEF IInv
<1> QED BY <1>1, Always, PTL
=============================================================================
