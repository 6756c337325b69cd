----------------------------- MODULE MCSnapWire -----------------------------
(***************************************************************************)
(* An instance of SnapWire for TLC.  With bytes below 4 a uint16_t is      *)
(* below 16 and an int32_t is in -128..127.                                *)
(***************************************************************************)
EXTENDS SnapWire

Base(id, sec, usec) ==
  [NoBase EXCEPT !.id = id, !.sentSec = sec, !.sentUsec = usec]

MCBases == <<Base(9, 27, 99), Base(0, -128, -1), Base(15, 0, 6)>>

MCChunks == {[sec |-> 113, usec |-> -2, payload |-> <<3, 1>>]}

MCCodecHeaders == {[codec |-> <<2, 1, 3>>, payload |-> <<1>>]}

MCJsons == {<<1, 2>>, <<3, 2, 1, 1, 2, 3>>}

MCNow == [sec |-> 99, usec |-> 27]

(* The longest that fits, one that is cut, and one whose cut shows a brace. *)
MCHellos == {<<1, 2, 3>>, <<1, 2, 1, 3>>, <<2, 1, 3, 1, 3>>}

(* Nothing, a part of a body, a body and a part of its base part. *)
MCLosses == {0, 5, 20}
=============================================================================
