----------------------------- MODULE SnapOutput -----------------------------
(***************************************************************************)
(* src/api/SnapOutput.h, the volume, the start of the playback and what    *)
(* reaches the decoder; with the start delay of src/api/SnapTimeSync.h.    *)
(* The audio tools behind it (decoder, resampler, output) are not          *)
(* modelled: only the volume that vol_stream has been given is kept.       *)
(*                                                                         *)
(* A value o of SnapOutput is a record of the members of the class.  The   *)
(* output, the decoder and the synchronizer are always set: SnapClient     *)
(* sets them before begin().                                               *)
(***************************************************************************)
EXTENDS SnapTime

CONSTANTS
  U16,             \* 2^16 in the code: the range of uint16_t
  ProcessingLag,   \* CONFIG_PROCESSING_TIME_MS, -172 by default
  MaxDelay         \* 100000 ms: a longer start delay is invalid

ASSUME OutputAssumption ==
  /\ U16 \in Nat \ {0}
  /\ ProcessingLag \in Int
  /\ MaxDelay \in Nat

InitialOutput ==
  [is_audio_begin_called |-> FALSE,
   is_sync_started       |-> FALSE,
   vol                   |-> 100,      \* percent
   vol_factor            |-> 1,
   vol_stream            |-> 100,      \* the volume in force
   is_mute               |-> FALSE,
   header                |-> 0]        \* SnapAudioHeader: its time in ms

(* mutant of setMessageBufferDelay: the width of the member is left out *)
setMessageBufferDelayWide(ms) == ms

(* SnapTimeSync: uint16_t message_buffer_delay_ms = ms; *)
setMessageBufferDelay(ms) == ms % U16

getStartDelay(message_buffer_delay_ms) ==
  IF message_buffer_delay_ms + ProcessingLag < 0 THEN 0
    ELSE message_buffer_delay_ms + ProcessingLag

(* mutant of begin: the chain is opened without the factor *)
beginNoFactor(o) ==
  [o EXCEPT !.is_sync_started       = FALSE,
            !.is_audio_begin_called = TRUE,
            !.vol_stream            = o.vol]

(* begin() and audioBegin(): the chain is opened with the known volume.    *)
begin(o) ==
  [o EXCEPT !.is_sync_started       = FALSE,
            !.is_audio_begin_called = TRUE,
            !.vol_stream            = o.vol * o.vol_factor]

(* The factor is applied with the next volume, or when the chain is opened. *)
setVolumeFactor(o, fact) == [o EXCEPT !.vol_factor = fact]

setVolume(o, vol) == [o EXCEPT !.vol = vol, !.vol_stream = vol * o.vol_factor]

setMute(o, mute) ==
  setVolume([o EXCEPT !.is_mute = mute], IF mute THEN 0 ELSE o.vol)

writeHeader(o, ms) == [o EXCEPT !.header = ms]

(* int arithmetic on the uint32_t difference. *)
getDelayMs(o, server_time, start_delay) ==
  int(toMillis(o.header) - server_time) + start_delay

(* mutant of isValid: expired audio is played *)
isValidExpired(delay_ms) == delay_ms <= MaxDelay

(* synchronizeOnStart(): may the playback start with this delay?           *)
isValid(delay_ms) == delay_ms >= 0 /\ delay_ms <= MaxDelay

(* synchronizePlayback(): whether the audio is to be played ...            *)
synchronizePlayback(o, delay_ms) == o.is_sync_started \/ isValid(delay_ms)

(* ... and the output afterwards: the first audio that is valid starts it. *)
synchronized(o, delay_ms) ==
  [o EXCEPT !.is_sync_started = synchronizePlayback(o, delay_ms)]
=============================================================================
