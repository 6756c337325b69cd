-------------------------- MODULE MCSnapProcessor --------------------------
(***************************************************************************)
(* Instances of SnapProcessor for TLC: values that a configuration cannot  *)
(* spell.                                                                  *)
(***************************************************************************)
EXTENDS SnapProcessor

MCSetting(buffer_ms, muted, volume) ==
  [buffer_ms |-> buffer_ms, latency |-> 0, muted |-> muted, volume |-> volume]

NoServerSettings == {}
(* With U16 = 8 the buffer is truncated to 1. *)
OneServerSettings == {MCSetting(9, FALSE, 70)}

(* Decoder, resampler and output add a tick. *)
OneTick == -1
=============================================================================
