------------------------------ MODULE SnapTime ------------------------------
(***************************************************************************)
(* src/api/SnapTime.h: the server time, kept as the last server message    *)
(* and extrapolated with millis().  All results are uint32_t milliseconds  *)
(* and wrap around at W.  A timeval is its number of milliseconds, which   *)
(* does not wrap; the rounding of microseconds is left out.                *)
(*                                                                         *)
(* A value t of SnapTime is a record of server_time, server_ms, time_diff. *)
(***************************************************************************)
EXTENDS Integers

CONSTANT W               \* 2^32 in the code: the range of uint32_t

ASSUME WAssumption == W \in Nat /\ W > 1

uint32(x) == x % W

(* int x = (uint32_t) ...; *)
int(x) == IF uint32(x) < W \div 2 THEN uint32(x) ELSE uint32(x) - W

(* The singleton is static: zero until the first updateServerTime(). *)
InitialTime == [server_time |-> 0, server_ms |-> 0, time_diff |-> 0]

toMillis(tv) == uint32(tv)

timeDifferenceMs(t1, t2) == toMillis(t1 - t2)

updateServerTime(t, server, millis) ==
  [t EXCEPT !.server_ms = millis, !.server_time = server]

setTimeDifferenceClientServerMs(t, diff) == [t EXCEPT !.time_diff = uint32(diff)]

timeDifferenceClientServerMs(t) == int(t.time_diff)

serverMillis(t, millis) ==
  uint32(toMillis(t.server_time) - t.server_ms + millis
           - timeDifferenceClientServerMs(t))
=============================================================================
