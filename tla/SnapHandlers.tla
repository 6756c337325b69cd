---------------------------- MODULE SnapHandlers ----------------------------
(***************************************************************************)
(* What SnapProcessor (src/api/SnapProcessor.h) does with the messages of  *)
(* the server, whatever brings them and whatever becomes of the audio: one *)
(* action per handler over the objects the handlers change.  Each handler  *)
(* calls SnapTime, SnapOutput and SnapTimeSync at once, so their operators *)
(* are composed in the order of the calls.  SnapProcessor and SnapPlayback *)
(* extend these actions.                                                   *)
(***************************************************************************)
EXTENDS SnapOutput

VARIABLES
  header_received,   \* a codec header came since begin()
  codec_from_server,
  snap_time,         \* SnapTime
  output,            \* SnapOutput
  delay              \* SnapTimeSync::message_buffer_delay_ms

handled == <<header_received, codec_from_server, snap_time, output, delay>>

(* Any other codec, or a header that cannot be read, is of no use.         *)
Supported == {"opus", "flac", "ogg", "pcm"}

HandlersInit ==
  /\ header_received = FALSE
  /\ codec_from_server = "NO_CODEC"
  /\ snap_time = InitialTime
  /\ output = InitialOutput
  /\ delay = 0

(* begin(), which opens the output if the application says so.             *)
HandleBegin(output_start) ==
  /\ header_received' = FALSE
  /\ output' = IF output_start THEN begin(output) ELSE output
  /\ UNCHANGED <<codec_from_server, snap_time, delay>>

(* mutant of HandleCodecHeader: the codec of the first header stays *)
HandleCodecHeaderOnce(codec) ==
  /\ header_received' = TRUE
  /\ output' = begin(output)
  /\ codec_from_server' = IF codec_from_server = "NO_CODEC" THEN codec
                                                            ELSE codec_from_server
  /\ UNCHANGED <<snap_time, delay>>

(* processMessageCodecHeader(), whose result is ignored.                   *)
HandleCodecHeader(codec) ==
  /\ header_received' = TRUE
  /\ IF codec \in Supported
       THEN output' = begin(output) /\ codec_from_server' = codec
       ELSE UNCHANGED <<output, codec_from_server>>
  /\ UNCHANGED <<snap_time, delay>>

(* The delay of the audio with this timestamp, at the given millis().      *)
delayMs(timestamp, millis) ==
  getDelayMs(writeHeader(output, timestamp), serverMillis(snap_time, millis),
             getStartDelay(delay))

(* write() of SnapOutput: what it makes of audio when o is the output and  *)
(* whether the audio goes to the decoder.                                  *)
written(o, delay_ms) ==
  IF o.is_audio_begin_called THEN synchronized(o, delay_ms) ELSE o

audible(o, delay_ms) ==
  o.is_audio_begin_called /\ synchronizePlayback(o, delay_ms)

(* processMessageWireChunk(), wireChunk() and the writeAudio() of          *)
(* SnapProcessor; with NO_CODEC nothing happens.                           *)
HandleWireChunk(timestamp, millis) ==
  /\ output' = IF codec_from_server = "NO_CODEC" THEN output
                 ELSE written(writeHeader(output, timestamp),
                              delayMs(timestamp, millis))
  /\ UNCHANGED <<header_received, codec_from_server, snap_time, delay>>

(* mutant of HandleServerSettings: the width of the delay is left out *)
HandleServerSettingsWide(s) ==
  LET o == IF header_received THEN setMute(output, s.muted) ELSE output
  IN  /\ delay' = s.buffer_ms + s.latency
      /\ output' = setVolume(o, s.volume)
      /\ UNCHANGED <<header_received, codec_from_server, snap_time>>

(* processMessageServerSettings(): all four settings are in the message.   *)
HandleServerSettings(s) ==
  LET o == IF header_received THEN setMute(output, s.muted) ELSE output
  IN  /\ delay' = setMessageBufferDelay(s.buffer_ms + s.latency)
      /\ output' = setVolume(o, s.volume)
      /\ UNCHANGED <<header_received, codec_from_server, snap_time>>

(* mutant of HandleTime: the time of the reply is taken as the server's,   *)
(* without the difference of the clocks                                    *)
HandleTimeNoDiff(received, sent, millis) ==
  /\ snap_time' = updateServerTime(snap_time, received, millis)
  /\ UNCHANGED <<header_received, codec_from_server, output, delay>>

(* processMessageTime(): the reply was sent at a time of the server's      *)
(* clock and received at one of the client's.                              *)
HandleTime(received, sent, millis) ==
  /\ snap_time' = setTimeDifferenceClientServerMs(
                    updateServerTime(snap_time, received, millis),
                    timeDifferenceMs(received, sent))
  /\ UNCHANGED <<header_received, codec_from_server, output, delay>>
=============================================================================
