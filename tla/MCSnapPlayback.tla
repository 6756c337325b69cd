--------------------------- MODULE MCSnapPlayback ---------------------------
(***************************************************************************)
(* Instances of SnapPlayback for TLC: values that a configuration cannot   *)
(* spell.                                                                  *)
(***************************************************************************)
EXTENDS SnapPlayback

MCSetting(buffer_ms, muted, volume) ==
  [buffer_ms |-> buffer_ms, latency |-> 0, muted |-> muted, volume |-> volume]

(* With U16 = 8 the second buffer is truncated to 1. *)
TwoServerSettings == {MCSetting(2, FALSE, 40), MCSetting(9, TRUE, 70)}

(* Decoder, resampler and output add a tick. *)
OneTick == -1
=============================================================================
