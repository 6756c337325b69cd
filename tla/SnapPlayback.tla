---------------------------- MODULE SnapPlayback ----------------------------
(***************************************************************************)
(* The way of the audio, composed: the handlers of the messages            *)
(* (SnapHandlers), the frame queue of the processor, which is the abstract *)
(* one that the processors implement (SnapFrameQueue), and the decoder,    *)
(* which is opened again while frames may still wait.                      *)
(*                                                                         *)
(* The application chooses the processor: SnapProcessor has no queue;      *)
(* SnapProcessorRTOS (and SnapProcessorRP2040 alike) asks SnapOutput about *)
(* the start before it queues a frame, and a task or the other core takes  *)
(* the frames out at any time; SnapProcessorBuffered queues every frame    *)
(* and asks when it takes one out, once in a round of the loop.            *)
(*                                                                         *)
(* How messages arrive is the matter of SnapProcessor: here they come in   *)
(* any order.  All frames have one size, so that the fill level is the     *)
(* number of frames.  The bytes have room whenever the size has: damaged   *)
(* framing is the matter of the modules of the processors.                 *)
(***************************************************************************)
EXTENDS SnapHandlers, Sequences

CONSTANTS
  Processors,      \* the processors that the application chooses from
  OutputStart,     \* output_start
  StartMillis,     \* millis() when the application starts
  StartServer,     \* the server's clock then
  Codecs,          \* the codecs the server may announce
  Settings,        \* the server settings it may send
  ChunkAges,       \* age of the audio in a chunk when it is handled
  ReplyAges,       \* age of a time reply when it is handled
  Factors,         \* volume factors of the application
  QueueLen,        \* frames that the queue of sizes holds
  Level,           \* fill level at which the queue becomes active
  MaxTime,         \* bounds of the model: ticks
  MaxMessages      \* and messages

ASSUME PlaybackAssumption ==
  /\ Processors \subseteq {"SnapProcessor", "SnapProcessorRTOS", "SnapProcessorBuffered"}
  /\ OutputStart \in BOOLEAN
  /\ StartMillis \in 0..(W - 1)
  /\ StartServer \in Nat
  /\ \A s \in Settings : s \in [buffer_ms : Nat, latency : Nat, muted : BOOLEAN,
                                volume : 0..100]
  /\ ChunkAges \subseteq Int /\ ReplyAges \subseteq Nat
  /\ Factors \subseteq Nat
  /\ QueueLen \in Nat \ {0} /\ Level \in 1..QueueLen
  /\ {MaxTime, MaxMessages} \subseteq Nat

(* The server time of the client and the time of the audio are never half  *)
(* the range of uint32_t apart, which is 24 days.                          *)
ASSUME AgesAssumption ==
  \A age \in ReplyAges, a \in ChunkAges :
    age - a \in ((W \div 2) - W)..((W \div 2) - 1)

VARIABLES
  Processor,       \* the one that was chosen
  loop,            \* "down", "message", "wavHeader" or "processExt"
  queue,           \* frames in the queue of the processor
  delivered,       \* frames it has handed on
  is_active,       \* it has reached its level; with RTOS: the task is started
  held,            \* the task of RTOS has taken the first of the queue
  now, messages,
  (* history *)
  announced,       \* codec of the last header on this connection
  decoder,         \* the codec for which it was opened and what came first
  stale,           \* frames at the head of the queue older than the decoder
  heard,           \* the last frame decoded and the decoder then
  start,           \* the frame with which the playback started last
  lag,             \* age of the last time reply when it was handled, or -1
  settled          \* volume last set and the factor when it was applied last

queuing == <<queue, delivered, is_active, held>>
clocks  == <<now, messages>>
history == <<announced, decoder, stale, heard, start, lag, settled>>
vars    == <<Processor, loop, handled, queuing, clocks, history>>

(* millis() and the server's clock *)
millis == uint32(StartMillis + now)
ServerClock == StartServer + now

Frame == [announced : Codecs \cup {"none"}, timestamp : Int]

FQ == INSTANCE SnapFrameQueue
        WITH Frames <- Frame, queued <- queue, delivered <- delivered

Closed == [codec |-> "none", first |-> "nothing"]
NoFrame == [announced |-> "none", codec |-> "none", stale |-> FALSE]
NoStart == [known |-> FALSE, ahead |-> 0]

Init ==
  /\ Processor \in Processors
  /\ loop = "down"
  /\ HandlersInit
  /\ FQ!Init /\ is_active = FALSE /\ held = FALSE
  /\ now = 0 /\ messages = 0
  /\ announced = "none" /\ decoder = Closed /\ stale = 0 /\ heard = NoFrame
  /\ start = NoStart /\ lag = -1
  /\ settled = [volume |-> 100, factor |-> 1]

(* Frames that have left the queue of the processor and not got anywhere.  *)
InHand == IF held THEN 1 ELSE 0

Waiting == Len(queue) - InHand

(* processExt() is the rest of a round; it only matters when Buffered.     *)
AfterMessage == IF Processor = "SnapProcessorBuffered" THEN "processExt" ELSE "message"

Message ==
  /\ loop = "message"
  /\ messages < MaxMessages
  /\ messages' = messages + 1
  /\ UNCHANGED <<Processor, now>>

(* The output chain is opened: the decoder too, the volume is applied.     *)
Opened(codec) ==
  /\ decoder' = [codec |-> codec, first |-> "nothing"]
  /\ stale' = Len(queue')
  /\ settled' = [settled EXCEPT !.factor = output.vol_factor]

(* Something reaches the decoder. *)
First(what) ==
  decoder' = IF decoder.first = "nothing" THEN [decoder EXCEPT !.first = what]
                                          ELSE decoder

(* A frame reaches the decoder. *)
Decoded(frame, isStale) ==
  /\ First(IF isStale THEN "stale" ELSE "audio")
  /\ heard' = [announced |-> frame.announced, codec |-> decoder.codec,
               stale |-> isStale]

(* Was it this frame that started the playback?                            *)
Started(frame) ==
  start' = IF output'.is_sync_started /\ ~output.is_sync_started
             THEN [known |-> lag # -1,
                   ahead |-> frame.timestamp + getStartDelay(delay)
                               - (ServerClock - lag)]
             ELSE start

-----------------------------------------------------------------------------
(***************************************************************************)
(* The application.                                                        *)
(***************************************************************************)
Begin ==
  /\ loop = "down"
  /\ loop' = "message"
  /\ HandleBegin(OutputStart)
  /\ IF Processor = "SnapProcessorBuffered"
       THEN FQ!Flush /\ queue' = <<>> /\ is_active' = FALSE /\ UNCHANGED held
       ELSE UNCHANGED queuing
  /\ announced' = "none"
  /\ IF OutputStart THEN Opened("none")
       ELSE stale' = (IF queue' = <<>> THEN 0 ELSE stale) /\ UNCHANGED <<decoder, settled>>
  /\ UNCHANGED <<Processor, clocks, heard, start, lag>>

(* end(): the task of RTOS is suspended; the frame it holds survives.      *)
End ==
  /\ loop = "message"
  /\ loop' = "down"
  /\ IF Processor = "SnapProcessorRTOS"
       THEN /\ is_active' = FALSE
            /\ FQ!Flush /\ Len(queue') = InHand
            /\ stale' = IF stale > InHand THEN InHand ELSE stale
            /\ UNCHANGED held
       ELSE UNCHANGED <<queuing, stale>>
  /\ UNCHANGED <<Processor, handled, clocks, announced, decoder, heard, start,
                 lag, settled>>

SetVolumeFactor ==
  /\ loop = "message"
  /\ \E fact \in Factors : output' = setVolumeFactor(output, fact)
  /\ UNCHANGED <<Processor, loop, header_received, codec_from_server, snap_time,
                 delay, queuing, clocks, history>>

(* The connection is lost and made again. *)
Reconnect ==
  /\ loop = "message"
  /\ announced' = "none"
  /\ UNCHANGED <<Processor, loop, handled, queuing, clocks, decoder, stale,
                 heard, start, lag, settled>>

-----------------------------------------------------------------------------
(***************************************************************************)
(* The messages.                                                           *)
(***************************************************************************)
(* mutant of CodecHeader: no WAV header for the decoder *)
CodecHeaderNoWav(codec) ==
  /\ Message
  /\ HandleCodecHeader(codec)
  /\ loop' = AfterMessage
  /\ UNCHANGED queuing
  /\ announced' = codec
  /\ IF codec \in Supported THEN Opened(codec_from_server')
                            ELSE UNCHANGED <<decoder, stale, settled>>
  /\ UNCHANGED <<heard, start, lag>>

CodecHeader(codec) ==
  /\ Message
  /\ HandleCodecHeader(codec)
  /\ loop' = IF codec = "pcm" THEN "wavHeader" ELSE AfterMessage
  /\ UNCHANGED queuing
  /\ announced' = codec
  /\ IF codec \in Supported THEN Opened(codec_from_server')
                            ELSE UNCHANGED <<decoder, stale, settled>>
  /\ UNCHANGED <<heard, start, lag>>

(* processMessageCodecHeaderWav() goes on: a WAV decoder needs the header. *)
WavHeader ==
  /\ loop = "wavHeader"
  /\ loop' = AfterMessage
  /\ First("header")
  /\ UNCHANGED <<Processor, handled, queuing, clocks, announced, stale, heard,
                 start, lag, settled>>

(* A chunk that goes no further than SnapProcessor.                        *)
IgnoreWireChunk ==
  /\ Message
  /\ ~header_received \/ codec_from_server = "NO_CODEC"
  /\ loop' = AfterMessage
  /\ UNCHANGED <<handled, queuing, history>>

(* wireChunk() up to the call of writeAudio().                             *)
WireChunk(frame) ==
  /\ Message
  /\ header_received /\ codec_from_server # "NO_CODEC"
  /\ loop' = AfterMessage
  /\ UNCHANGED <<announced, lag, settled>>

(* SnapProcessor::writeAudio() *)
WriteAudio(frame) ==
  /\ Processor = "SnapProcessor"
  /\ WireChunk(frame)
  /\ HandleWireChunk(frame.timestamp, millis)
  /\ Started(frame)
  /\ IF audible(output, delayMs(frame.timestamp, millis))
       THEN delivered' = Append(delivered, frame) /\ Decoded(frame, FALSE)
       ELSE UNCHANGED <<delivered, decoder, heard>>
  /\ UNCHANGED <<queue, is_active, held, stale>>

(* SnapProcessorRTOS::writeAudio(): the decision is taken here, but the    *)
(* frame is turned away if the queue is full.                              *)
WriteAudioRTOS(frame) ==
  /\ Processor = "SnapProcessorRTOS"
  /\ WireChunk(frame)
  /\ HandleWireChunk(frame.timestamp, millis)
  /\ Started(frame)
  /\ IF audible(output, delayMs(frame.timestamp, millis)) /\ Waiting < QueueLen
       THEN /\ FQ!Accept(frame)
            /\ is_active' = (is_active \/ Waiting + 1 > Level)
            /\ UNCHANGED held
       ELSE UNCHANGED queuing
  /\ UNCHANGED <<decoder, stale, heard>>

(* SnapProcessorBuffered::writeAudio(): KeepsUp of that module keeps the   *)
(* queue from being full.                                                  *)
WriteAudioBuffered(frame) ==
  /\ Processor = "SnapProcessorBuffered"
  /\ Len(queue) < QueueLen
  /\ WireChunk(frame)
  /\ output' = writeHeader(output, frame.timestamp)
  /\ FQ!Accept(frame)
  /\ UNCHANGED <<header_received, codec_from_server, snap_time, delay, is_active,
                 held, decoder, stale, heard, start>>

ServerSettings(s) ==
  /\ Message
  /\ HandleServerSettings(s)
  /\ loop' = AfterMessage
  /\ settled' = [volume |-> s.volume, factor |-> output.vol_factor]
  /\ UNCHANGED <<queuing, announced, decoder, stale, heard, start, lag>>

Time(age) ==
  /\ Message
  /\ HandleTime(now, ServerClock - age, millis)
  /\ loop' = AfterMessage
  /\ lag' = age
  /\ UNCHANGED <<queuing, announced, decoder, stale, heard, start, settled>>

(* A round of the loop without a message. *)
NoMessage ==
  /\ loop = "message" /\ Processor = "SnapProcessorBuffered"
  /\ loop' = "processExt"
  /\ UNCHANGED <<Processor, handled, queuing, clocks, history>>

-----------------------------------------------------------------------------
(***************************************************************************)
(* The other end of the queue.                                             *)
(***************************************************************************)
Taken ==
  /\ FQ!Deliver
  /\ stale' = IF stale > 0 THEN stale - 1 ELSE 0

(* The task of RTOS, copy(): it takes a frame from the queue ...           *)
Dequeue ==
  /\ Processor = "SnapProcessorRTOS" /\ is_active
  /\ ~held /\ queue # <<>>
  /\ held' = TRUE
  /\ UNCHANGED <<Processor, loop, handled, queue, delivered, is_active, clocks,
                 history>>

(* ... and writes it to the decoder.                                       *)
AudioWrite ==
  /\ Processor = "SnapProcessorRTOS" /\ is_active
  /\ held
  /\ held' = FALSE
  /\ Taken
  /\ Decoded(Head(queue), stale > 0)
  /\ UNCHANGED <<Processor, loop, handled, is_active, clocks, announced, start,
                 lag, settled>>

(* SnapProcessorBuffered::processExt(): SnapOutput judges the frame by its *)
(* header, which is that of the newest frame.                              *)
ProcessExt ==
  /\ loop = "processExt"
  /\ loop' = "message"
  /\ is_active' = (is_active \/ Len(queue) >= Level)
  /\ IF is_active' /\ queue # <<>>
       THEN LET delay_ms == delayMs(output.header, millis)
            IN  /\ Taken
                /\ output' = written(output, delay_ms)
                /\ Started(Head(queue))
                /\ IF audible(output, delay_ms)
                     THEN Decoded(Head(queue), stale > 0)
                     ELSE UNCHANGED <<decoder, heard>>
       ELSE UNCHANGED <<queue, delivered, output, decoder, stale, heard, start>>
  /\ UNCHANGED <<Processor, held, header_received, codec_from_server, snap_time, delay,
                 clocks, announced, lag, settled>>

Tick ==
  /\ now < MaxTime
  /\ now' = now + 1
  /\ UNCHANGED <<Processor, loop, handled, queuing, messages, history>>

-----------------------------------------------------------------------------
Chunks == [announced : {announced}, timestamp : {ServerClock - a : a \in ChunkAges}]

Next ==
  \/ Begin
  \/ End
  \/ SetVolumeFactor
  \/ Reconnect
  \/ \E codec \in Codecs : CodecHeader(codec)
  \/ WavHeader
  \/ IgnoreWireChunk
  \/ \E frame \in Chunks : WriteAudio(frame)
  \/ \E frame \in Chunks : WriteAudioRTOS(frame)
  \/ \E frame \in Chunks : WriteAudioBuffered(frame)
  \/ \E s \in Settings : ServerSettings(s)
  \/ \E age \in ReplyAges : Time(age)
  \/ NoMessage
  \/ Dequeue
  \/ AudioWrite
  \/ ProcessExt
  \/ Tick

Spec == Init /\ [][Next]_vars

-----------------------------------------------------------------------------
TypeOK ==
  /\ Processor \in Processors
  /\ loop \in {"down", "message", "wavHeader", "processExt"}
  /\ header_received \in BOOLEAN /\ {is_active, held} \subseteq BOOLEAN
  /\ codec_from_server \in {"NO_CODEC"} \cup (Codecs \cap Supported)
  /\ snap_time.server_ms \in 0..(W - 1) /\ snap_time.time_diff \in 0..(W - 1)
  /\ output.vol \in 0..100 /\ output.vol_factor \in Factors \cup {1}
  /\ delay \in 0..(U16 - 1)
  /\ FQ!TypeOK /\ Waiting \in 0..QueueLen
  /\ stale \in 0..Len(queue)
  /\ now \in 0..MaxTime /\ messages \in 0..MaxMessages

(* Audio that starts the playback after the first time reply is never due  *)
(* earlier than now, or more than MaxDelay later, by the server time of    *)
(* the client; but for SnapProcessorBuffered, see OnlyValidAudioStarts.    *)
StartIsFresh ==
  start.known /\ Processor # "SnapProcessorBuffered" => start.ahead \in 0..MaxDelay

(* A frame that came after the header of a supported codec is decoded as   *)
(* that codec, also when an earlier codec or connection had another: but   *)
(* for frames that still waited when the next header came.  Of frames that *)
(* came before the first header of their connection, or after one of a     *)
(* codec that is not supported, this says nothing.                         *)
CodecMatches ==
  heard.announced \in Supported /\ ~heard.stale => heard.codec = heard.announced

(* A WAV decoder gets the WAV header before any audio.  Only the output    *)
(* task may be faster, and only with audio that waited for the decoder     *)
(* that was opened before.                                                 *)
HeaderFirstInDecoder ==
  decoder.codec = "pcm" =>
    decoder.first \in {"nothing", "header"}
      \cup (IF Processor = "SnapProcessorRTOS" THEN {"stale"} ELSE {})

(* The volume in force is that of the last settings, times the factor the  *)
(* application had set when they came or when the output was opened since: *)
(* neither opening the output again nor mute and unmute change it.         *)
VolumeFollowsServer == output.vol_stream = settled.volume * settled.factor

(***************************************************************************)
(* What the source says and the code does not do.                          *)
(***************************************************************************)

(* "mute / unmute": a muted client is silent.                              *)
MuteSilences == output.is_mute => output.vol_stream = 0

(* "start to play audio only in valid server time: return false if to be   *)
(* ignored": whatever the processor, no audio that is due earlier than now *)
(* starts the playback.                                                    *)
OnlyValidAudioStarts == start.known => start.ahead >= 0
=============================================================================
