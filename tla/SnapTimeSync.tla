---------------------------- MODULE SnapTimeSync ----------------------------
(***************************************************************************)
(* src/api/SnapTimeSync.h: the speed of the playback follows the server's  *)
(* clock.  The session hands every server time to updateServerTime(), the  *)
(* output (src/api/SnapOutput.h) asks with every chunk whether it is time  *)
(* to adjust the resampler and by which factor.                            *)
(*                                                                         *)
(* The two variants that measure are modelled: SnapTimeSyncDynamic, over   *)
(* the last updates, and SnapTimeSyncDynamicSinceStart, over all of them.  *)
(* (SnapTimeSyncFixed keeps no state.)  A factor is a fraction; its        *)
(* rounding to float is left out.  The synchronizer is a global variable,  *)
(* so what its constructor does not set is zero.                           *)
(***************************************************************************)
EXTENDS SnapTime, Sequences

CONSTANTS
  Variants,        \* the classes of the synchronizer, "Dynamic" and "SinceStart"
  interval,        \* updates between two adjustments, constructor argument
  StartMillis,     \* millis() at the start
  ServerStart,     \* the clock whose time is handed over, at the start,
  ServerSteps,     \* and by how much it may go on in a tick of millis()
  MaxTime,         \* bounds of the model: ticks,
  MaxUpdates       \* and updates of the server time

ASSUME TimeSyncAssumption ==
  /\ Variants \subseteq {"Dynamic", "SinceStart"}
  /\ interval \in Nat \ {0}
  /\ {StartMillis, ServerStart} \subseteq 0..(W - 1)
  /\ ServerSteps \subseteq Nat /\ ServerSteps # {}
  /\ {MaxTime, MaxUpdates} \subseteq Nat

VARIABLES
  Variant,         \* the one that the application has chosen
  update_count, active,
  time_points,     \* Dynamic: the last updates; SinceStart: the first and the last
  is_sync_started, \* SnapOutput: the playback has started
  factor,          \* step size of the resampler
  now, server,     \* the clocks, unbounded
  taken,           \* history: the clocks when time_points were taken,
  updates,         \* number of updates,
  since            \* and of those since the last adjustment or ts.begin()

vars == <<Variant, update_count, active, time_points, is_sync_started, factor, now,
          server, taken, updates, since>>

millis == uint32(StartMillis + now)

TimePoint == [local_ms |-> millis, server_ms |-> uint32(ServerStart + server)]

(* start_time and current_time when the sketch constructs them as part of  *)
(* a global object: server_ms is 0.  begin() may read them before an       *)
(* update; with no time between them, the factor is then 1.                *)
Unset == [local_ms |-> StartMillis, server_ms |-> 0]

Clocks == [now |-> now, server |-> server]

One == [num |-> 1, den |-> 1]

-----------------------------------------------------------------------------
Init ==
  /\ Variant \in Variants
  /\ update_count = 0
  /\ active = FALSE
  /\ time_points = IF Variant = "Dynamic" THEN <<>> ELSE <<Unset, Unset>>
  /\ is_sync_started = FALSE
  /\ factor = One
  /\ now = 0 /\ server = 0
  /\ taken = IF Variant = "Dynamic" THEN <<>> ELSE <<Clocks, Clocks>>
  /\ updates = 0 /\ since = 0

(* mutant of span: signed differences *)
spanSigned(later, earlier) == later - earlier

span(later, earlier) == uint32(later - earlier)

getFactor ==
  LET first  == time_points[1]
      last   == time_points[Len(time_points)]
      local  == span(last.local_ms, first.local_ms)
      remote == span(last.server_ms, first.server_ms)
  IN  IF (Variant = "Dynamic" /\ Len(time_points) <= 2) \/ local = 0 \/ remote = 0
        THEN One ELSE [num |-> remote, den |-> local]

Update ==
  /\ updates < MaxUpdates
  /\ updates' = updates + 1
  /\ since' = since + 1
  /\ update_count' = update_count + 1
  /\ active' = TRUE
  /\ UNCHANGED <<Variant, is_sync_started, factor, now, server>>

(* mutant of Latest: off by one *)
LatestAndOneMore(points, point) ==
  Append(IF Len(points) > interval THEN Tail(points) ELSE points, point)

(* The last interval points. *)
Latest(points, point) ==
  Append(IF Len(points) >= interval THEN Tail(points) ELSE points, point)

(* SnapTimeSyncDynamic::updateServerTime() *)
UpdateServerTimeDynamic ==
  /\ Variant = "Dynamic"
  /\ Update
  /\ time_points' = Latest(time_points, TimePoint)
  /\ taken' = Latest(taken, Clocks)

(* The first point since ts.begin() and the last one. *)
FirstAndLast(points, point) ==
  <<IF update_count = 0 THEN point ELSE points[1], point>>

(* SnapTimeSyncDynamicSinceStart::updateServerTime() *)
UpdateServerTimeSinceStart ==
  /\ Variant = "SinceStart"
  /\ Update
  /\ time_points' = FirstAndLast(time_points, TimePoint)
  /\ taken' = FirstAndLast(taken, Clocks)

(* SnapOutput::begin(): the resampler is opened with the factor. *)
Begin ==
  /\ is_sync_started' = FALSE
  /\ factor' = getFactor
  /\ UNCHANGED <<Variant, update_count, active, time_points, now, server,
                 taken, updates, since>>

(* A chunk before the playback has started: every one begins the           *)
(* synchronizer anew, the first that is valid starts the playback.         *)
StartPlayback ==
  /\ ~is_sync_started
  /\ update_count' = 0
  /\ since' = 0
  /\ \/ is_sync_started' = TRUE /\ factor' = getFactor
     \/ UNCHANGED <<is_sync_started, factor>>
  /\ UNCHANGED <<Variant, active, time_points, now, server, taken,
                 updates>>

(* mutant of isSync: every update is followed by an adjustment *)
isSyncEvery == active /\ update_count > 2

isSync == active /\ update_count > 2 /\ update_count % interval = 0

(* A chunk that is played. *)
Synchronize ==
  /\ is_sync_started
  /\ active' = FALSE
  /\ IF isSync THEN factor' = getFactor /\ since' = 0
               ELSE UNCHANGED <<factor, since>>
  /\ UNCHANGED <<Variant, update_count, time_points, is_sync_started, now,
                 server, taken, updates>>

(* Time passes (external). *)
Tick ==
  /\ now < MaxTime
  /\ now' = now + 1
  /\ \E step \in ServerSteps : server' = server + step
  /\ UNCHANGED <<Variant, update_count, active, time_points, is_sync_started,
                 factor, taken, updates, since>>

Next ==
  \/ UpdateServerTimeDynamic
  \/ UpdateServerTimeSinceStart
  \/ Begin
  \/ StartPlayback
  \/ Synchronize
  \/ Tick

Spec == Init /\ [][Next]_vars

-----------------------------------------------------------------------------
TypeOK ==
  /\ update_count \in 0..updates
  /\ active \in BOOLEAN
  /\ time_points \in Seq([local_ms : 0..(W - 1), server_ms : 0..(W - 1)])
  /\ Len(time_points) <= IF Variant = "Dynamic" THEN interval ELSE 2
  /\ is_sync_started \in BOOLEAN
  /\ factor \in [num : 1..(W - 1), den : 1..(W - 1)]
  /\ {now, server, updates} \subseteq Nat
  /\ since \in 0..updates

(* As long as the updates are less than W apart by either clock, the       *)
(* factor is a speed at which the clock that is measured can run against   *)
(* millis(), though both wrap around: never one of the huge or negative    *)
(* factors that a span across a wrap would give.  (Beyond, which the last  *)
(* updates never are but those since the start are after 49 days, it is    *)
(* not.)                                                                   *)
SpanFits ==
  LET first == taken[1]
      last  == taken[Len(taken)]
  IN  last.now - first.now < W /\ last.server - first.server < W

FactorIsSpeed ==
  taken # <<>> /\ SpanFits =>
    \E slow, fast \in ServerSteps \cup {1} :
      slow * getFactor.den <= getFactor.num /\ getFactor.num <= fast * getFactor.den

(* Between two adjustments, and between the start of the playback and the  *)
(* first one, there are at least interval updates: no update is used for   *)
(* two of them.                                                            *)
SyncSpaced ==
  [][is_sync_started /\ since' < since => since >= interval]_vars
=============================================================================
