# A verification of arduino-snapclient in TLA+

arduino-snapclient is a snapcast client for microcontrollers: it connects to a
snapcast server, reads encoded audio and settings from one TCP connection, and
plays the audio in time with the server. This directory holds TLA+ modules that
model its control, TLC configurations that check them on small instances, and
theorems that TLAPS proves for all values of the constants.

Paths below are relative to `src/` of the repository (`src/api/X.h` is the
header `X.h` of the library).

## 1. The system

| part | source | state | operations |
|---|---|---|---|
| client facade | `src/SnapClient.h` | pointers to the other parts | forwards `begin`, `end`, `doLoop`; WiFi, NVS, mDNS |
| session | `src/api/SnapProcessor.h` | `loop_status`, `header_received`, `codec_from_server`, `last_time_sync`, `base_message` | `begin`, `end`, `doLoop` (fast and slow loop): connect, hello, read a message, handle it, ask for the time |
| server time | `src/api/SnapTime.h` | `server_time`, `server_ms`, `time_diff` | `updateServerTime`, `setTimeDifferenceClientServerMs`, `serverMillis` |
| speed of the playback | `src/api/SnapTimeSync.h` | `update_count`, `active`, `time_points`, `message_buffer_delay_ms` | `updateServerTime`, `isSync`, `getFactor`, `getStartDelay` |
| output | `src/api/SnapOutput.h` | volume, mute, `is_sync_started`, `header` | `begin`, `write`, `writeHeader`, `synchronizePlayback`, `audioWrite`, `setVolume`, `setMute` |
| RTOS processor | `src/api/SnapProcessorRTOS.h` | byte stream, size queue, `task_started` | `writeAudio` on the loop's thread, `copy` on an output task |
| RP2040 processor | `src/api/SnapProcessorRP2040.h` | byte queue, size queue, `is_active` | `writeAudio` on one core, `doLoop1` on the other |
| Buffered processor | `src/api/SnapProcessorBuffered.h` | two ring buffers, `is_active` | `writeAudio`, `processExt`, one thread |
| wire format | `src/api/SnapProtocol.h` | buffers with an index | serialise, deserialise, JSON |

How they interact. The application calls `doLoop()` all the time. The session
calls the server time and the synchronizer on a time message, the output on a
codec header, a chunk or settings; all of this is synchronous, on one thread. A
chunk reaches the output through the virtual `writeAudio()`: directly in
`SnapProcessor`, through a buffer in its three subclasses, two of which have a
second thread. There is one source of concurrency on the other side of the
connection: the server, TCP, the clocks.

What is hard:

* the size of a frame and its bytes travel on two channels between two threads,
  and nothing but the order of the calls keeps them aligned;
* `end()` and `begin()` come while the other thread is between two reads;
* everything that can be full: the size queue before the reader has started, the
  byte buffer before the activation level is reached;
* a blocking read of a message body; a connection that is closed or reset
  between two reads; state that survives a reconnect;
* four 32 bit millisecond counters of two clocks, combined after time has passed,
  across their wrap, with a wall clock that may be set;
* the order of settings, codec header and audio.

`PROJECT.json` lists these hazards line by line, with the properties that
cover each.

## 2. The modules

| module | models | composed of |
|---|---|---|
| `SnapFrameQueue` | abstract: frames are delivered whole, once, in order; a flush may drop what waits | |
| `SnapProcessorRTOS` | loop thread and output task | implements `SnapFrameQueue` |
| `SnapProcessorRTOSProofs` | its theorems | |
| `SnapProcessorRP2040Proofs` | theorems about `SnapProcessorRP2040` | |
| `SnapProcessorBufferedProofs` | theorems about `SnapProcessorBuffered` | |
| `SnapProcessorProofs` | theorems about `SnapProcessor` | |
| `SnapPlaybackProofs` | theorems about `SnapPlayback` | |
| `SnapTimeSyncProofs` | theorems about `SnapTimeSync` | |
| `SnapWireProofs` | theorems about `SnapProtocol` and `SnapWire` | |
| `SnapTimeProofs` | lemmas about `SnapTime`, for the proofs of the session, the playback and the speed | |
| `SnapProcessorRP2040` | the two cores | implements `SnapFrameQueue` |
| `SnapProcessorBuffered` | the rounds of the loop over two ring buffers | implements `SnapFrameQueue` |
| `SnapTime` | the arithmetic of the server time | |
| `SnapOutput` | volume, factor, mute, decision to start | extends `SnapTime` |
| `SnapHandlers` | what each message changes in the objects of the client | extends `SnapOutput` |
| `SnapProcessor` | the session, with server and network | extends `SnapHandlers` |
| `SnapPlayback` | the way of the audio from a chunk to the decoder, for every processor | extends `SnapHandlers`, uses `SnapFrameQueue` for the queue |
| `SnapTimeSync` | when and how the resampler is adjusted | extends `SnapTime` |
| `SnapProtocol` | the bytes of numbers and messages | |
| `SnapWire` | both directions of the connection, byte by byte | extends `SnapProtocol` |
| `MC...` | instances for TLC | |

Conventions. Definitions have the names of the functions they stand for. An
operator that starts with "mutant of" in its comment is a plausible mistake in
the definition after it; it is used by no specification and shows, when put in
its place, that a property depends on that code.

**SnapProcessorRTOS.** A stream buffer is a FIFO, so a byte is identified by its
position since the start of the program: `written` and `readPos` are the two
ends of the stream, a frame is an interval of positions, and what the decoder
gets is the interval that was read. `writeAudio()` is `Enqueue` (up to the
queueing of the size), then `WriteBuffer` or `WriteShort` (the write into the
stream, with the check that starts the task); `Oversize` is the endless loop of
`stop()`. `copy()` is `Dequeue`, `ReadBuffer`, `AudioWrite`. Threads interleave
between these. `End` suspends the task at any point of `copy()`; the locals of
the task survive and are there when a later `StartTask` resumes it.
`interrupted` and `overflowed` record the two events after which the framing is
lost: `end()` between dequeue and read, and a write that was cut short.

**SnapProcessorRP2040.** The same two channels, but the byte queue waits byte by
byte in both directions, so `WriteByte` and `ReadByte` move one byte. `end()` is
two steps, one per queue, and the other core may do anything between them.
`isBufferActive()` is three: it reads the level (`CheckActive`), sets the flag
(`Activate`) and reads it again (`ReturnActive`); with `end()` and `begin()` in
between the flag is set for an empty queue, and a frame may be taken before the
queue is filled.

**SnapProcessorBuffered.** One thread. Neither ring buffer waits; each drops what
does not fit without telling the other, and sizes are stored in 16 bits.
`WriteAudio`, `OtherMessage`, `NoMessage` and `ShortRead` are the message part of a
round of the loop, `ProcessExt` is its end. A round may have to wait, and
`processExt()` with it: in `readData()` for the body of a message, in `LoopStart` for
a server that cannot be reached. The module keeps as much of the session as this
needs: `loop_status` and whether the server is `connected`.

**SnapTime, SnapOutput, SnapHandlers.** The objects `SnapTime` and `SnapOutput`
are records, their methods operators on them. A handler is one action, in which
the methods are composed in the order of the calls. What a message carries is
abstracted to what the handlers use; time in ticks wraps at `W`.

**SnapProcessor.** The handlers in the session: one thread against an
environment. A message is a base part and a body of some units; `stream` holds
messages sent whose base part has not been read, `inflight` and `avail` count
units. The environment: `ServerSend`, `ServerReply`, `Arrive`, `Close` (what was
sent still arrives), `Reset` (it does not), `Tick`, `SetClock`. `hello_fits` says
whether the names the application gave fit the buffer of the hello.

**SnapPlayback.** The handlers with what is behind them: a queue of frames, the
one that the processors are shown to implement, and the decoder, which each codec
header opens again, whatever waits in the queue. With RTOS the decision to start
is made before the queue and the task (`Dequeue`, `AudioWrite`) runs between any
two steps of the loop; with Buffered it is made behind the queue, in `ProcessExt`.
Messages come in any order. The history follows a frame: what the server had
announced when it was sent, whether the decoder was opened while it waited, with
which codec it was decoded, whether it started the playback and how early.

**SnapProtocol, SnapWire.** Numbers become sequences of bytes and back; a byte is below
`B`, and shifting and masking are division and remainder by `B`. A message is laid out
by a sequence of fields. A buffer is a record with an index and a result; what does not
fit sets the result and leaves the rest as it was. `SnapWire` puts the messages of both
sides on the wire; the end of a message may be late and a reset cuts both directions:
what has come at any byte, and of what the server has not read as many of the last bytes
as `Losses` says. `base_message` is one variable for reading and for writing, as in the
code. The client writes a message in two steps, `WriteBase` and `WriteBody`, as the code
does; a reset may come in between. The text of the hello is cut to its buffer
(`to_json`), and sent if what is left ends with a brace (`closed`), whether or not that
is the brace that was meant. Each read is checked but that of settings: of a body that
was cut off `HandleServerSettings` takes the part that came, and of less than 4 bytes,
where `size - 4` is negative, the client `Crashes`.

**SnapTimeSync.** The updates, the chunks and the clocks in any order; a
factor is a fraction.

## 3. What the runs check

Passing runs:

| run | question | instance | why it is enough |
|---|---|---|---|
| `rtos_threads` | do sizes and bytes stay aligned, does the assertion in `copy()` hold, does anybody wait or fill the queue without a reader, is it a queue of frames, do the task and `writeAudio()` make progress? | stream of 4, queue of 3, frames 1, 2 and one that never fits (5), writes may be short, 8 bytes | the stream wraps past its capacity, the queue fills, the task is stopped in every state of `copy()` and resumed |
| `rp2040_cores` | the same for the two cores | queue of 3 bytes and 3 sizes, 100 percent, frames 1, 2 and one that never fits (4), 6 bytes | the activation level is the full queue, the tightest case |
| `buffered_frames` | the same, with losses, one thread | buffer of 4, 3 sizes, frames 1, 2, 3, 5; 16 bits shrunk so that sizes from 3 on are negative; the connection is lost at any point and made again | each kind of loss occurs alone and with a restart, with frames waiting and without |
| `session_link` | is the server time right, is the time asked for once per interval, is the byte stream read in step, is hello said once, does the client read all that arrives and recover from a reset? | W = 16, `millis()` and the server's clock wrap, the client's clock is set by 5; one message of each kind, a body as large as the window; 2 connections, 1 lost; names that fit or not | a reset between any two steps, with the second connection for the new hello (`Recovers` speaks of a loss after which a connection is left), a reply on each side of a wrap |
| `playback` | is the start of the playback fresh, does the decoder get frames of the announced codec after its header, is the volume the server's? | all processors, codecs with, without header and unsupported, 2 settings (one buffer beyond the width of its member), chunk ages 0 and 2, reply ages 0 and 1, `MaxDelay` 1, 2 volume factors, queue of 2, 5 messages | audio is from too late to one tick too early, so that both ends of what may start are reached; settings, reply, header and two chunks fit, and so do two headers with chunks between |
| `wire` | does each side understand what the other wrote? | B = 4 (a uint16_t is below 16, an int32_t in -128..127), buffer of 8 for the hello, 3 messages of the server, a hello and a time message after each; resets that lose 0, 5 or 20 bytes of the client's | extreme and negative numbers, empty and longer bodies, a hello that just fits, one that is cut and one that is cut where it has a brace; a cut at every byte of the server's messages, and in the body, at its end and in the base part of the client's |
| `sync_factor` | is the factor always a speed, is an adjustment made with enough new updates? | both variants, interval 3, both clocks wrap, the measured clock runs at 1 to 2 times | more updates than the interval, spans beyond the wrap |

Properties in words are in the comments of the modules. The important ones:

* `FrameIntegrity`, `Framing`, `FrameQueue`: what the decoder gets in one call is
  one frame that was accepted, in order.
* `BlockedOnlyBehindReader`, `WriteReturns`: no thread waits for room that nobody
  makes. `QueueFullOnlyBehindReader`: a size queue that is full has a reader.
* `KeepsUp`, `EveryFrameDecoded`, `PlaybackProgress`: what waits is played; with the
  Buffered processor unless the loop is `Stuck`.
* `ServerTimeLags`: the server time the client computes is the server's own time,
  late by exactly the age of the last reply.
* `StreamAligned`: the client knows at each moment where it is in the stream.
* `PolledInTime`: no time request too early, none forgotten.
* `AllIsRead`, `BodyIsRead`, `Recovers`: nothing is left unread, and a read that a
  reset cut short leads to a new connection and a new hello on it.
* `StartIsFresh`: but for the Buffered processor, and for a start before the first
  time reply, the frame that starts the playback is not late.
* `CodecMatches`, `HeaderFirstInDecoder`: what came after the header of a supported
  codec is decoded as that, but for frames that the next header has overtaken in the
  queue; WAV header first.
* `VolumeFollowsServer`: the volume in force is that of the last settings times
  the factor, whatever was opened, muted and unmuted in between.
* `ReadIsSent`, `NothingSkipped`, `HeardIsMeant`: the bytes mean the same on both
  sides. A message that was cut off counts for nothing, but for settings, of which
  the client believes the part that came, as the last thing on that connection.
* `FactorIsSpeed`: while the spans fit 32 bits the factor is a speed the clock
  really had.

Runs that show the code differ from what its comments say:

| run | the source says | the code does |
|---|---|---|
| `rtos_assert` | `assert(read == size)` (SnapProcessorRTOS.h:118) | after `end()` between the two reads of `copy()` and a `begin()` the held size is read from the new stream; that takes bytes of the new frames, and the assertion of a later `copy()` fails |
| `rtos_silent` | "A RTOS task feeds the output from the queue" (SnapProcessorRTOS.h:13) | small frames fill the size queue before the activation level is reached; `writeAudio()` returns before it would start the task |
| `playback_mute` | "mute / unmute" (SnapOutput.h:75) | the volume of the settings is set after the mute and cancels it |
| `playback_buffered` | "start to play audio only in valid server time" (SnapOutput.h:141) | the Buffered processor has the oldest frame judged by the header of the newest: a frame that was expired when it came, or has expired while it waited, starts the playback |
| `session_sync` | "Records the actual server time" (SnapTimeSync.h:29) | it records the time of the client's clock |

Observed while modelling and not the subject of a run: the RTOS task starts above the
limit, the other processors at it; the result of the codec header handler is ignored, so
audio in an unsupported codec goes to the decoder with the codec before; frames that
still wait when a codec header comes go to the new decoder; the playback may start
before any server time is known; nothing waits for the first chunk to become due
("starting after %d ms"); `isSync()` misses its turn when two updates come between two
chunks ("10 means every 10 updates", SnapTimeSync.h:56); `processExt()` is "some
additional processing while we wait for data" (SnapProcessor.h:197), but `readData()`
waits for a body, and `LoopStart` for a server, without it, so that after a connection
lost in a body what the Buffered processor has buffered is never decoded; a lag
documented as subtracted is added (SnapTimeSync.h:52, 63); after a lost connection
`available()` stays 0 and the loop does not connect again unless a read was short; a
volume factor waits for the next volume; without messages no time is asked for; a buffer
of more than 65 s is truncated to 16 bits; a hello that is cut where it has a brace is
sent cut; settings that are cut off are parsed as far as they came; audio that comes
before the first codec header of a connection goes to the decoder of the connection
before; the null character that ends the settings comes one byte late
(SnapProcessor.h:527), which the parser does not mind.

### Bounds

Each module names its bounds in its CONSTANTS: `MaxBytes`, `MaxTime`, `MaxSent`,
`MaxConnects`, `MaxDrops`, `MaxUpdates`, `MaxMessages`, the length of `Bases`. They
limit how long the environment goes on, never what the code does. Deadlock is not
checked: at a bound the environment stops, and the code itself has places where it stops
for good (`stop()`, the assertion).

### Fairness

`rtos_threads`: the scheduler of FreeRTOS runs both threads (weak fairness of the write
and of `copy()`), nobody has to send frames. `rp2040_cores`: both cores run all the time
and call their loops. `buffered_frames`: the application calls `doLoop()` in a loop, and
TCP delivers the rest of a message that has begun (weak fairness of `Round`, a round
that does not have to wait) unless the connection is lost. That a lost server is reached
again is not assumed, and a loss in a body is for ever, so `EveryFrameDecoded` excepts a
loop that is `Stuck`. `session_link`: it does so too, TCP delivers what is sent on a
connection that stays, and a server that can be reached is reached (weak fairness of
`Connect`: the loop tries again and again, and some try succeeds). No fairness is
assumed of the server's sending, of ticks, of resets, or of `begin()` and `end()`.

## 4. What is proved

`SnapProcessorRTOSProofs`, for every buffer size, activation level, queue length
and set of frame sizes that satisfy `BufferAssumption`:

| theorem | establishes |
|---|---|
| `TypeCorrect` | `Spec => []TypeOK` |
| `NoWaitWithoutReader` | `Spec => []BlockedOnlyBehindReader` |
| `InductiveInvariant` | `Spec => []Inv` |
| `FramesArriveWhole` | `Spec => []FrameIntegrity` |
| `AssertNeverFails` | `Spec => []AssertHolds` |
| `NoSilentQueue` | `Spec => []QueueFullOnlyBehindReader` |
| `ImplementsFrameQueue` | `Spec => FrameQueue` |

The argument. `FrameIntegrity` is about `played` only; it is not inductive,
because it says nothing of what is on its way. The strengthening `Inv` has

* `StreamInv`: the stream never holds more than its capacity, the frame being
  written begins where the stream ends, and before the task is started the stream
  is not above the limit;
* `Framing`: the frames not yet read lie end to end from `readPos` to `Finish`,
  and their sizes are the one `copy()` holds followed by those in the queue: this
  is what aligns the two channels, and it is lost when a held size meets an empty
  stream, so it holds while `Intact`;
* `Ordering`: whatever was played lies before what `copy()` holds and that lies
  before `readPos`;
* `Backlog`: before the task runs, each queued size stands for that many bytes,
  so the queue cannot fill before the level is passed.

`ReadIsWhole` is the heart: whenever `copy()` gets to read and a byte is there, all bytes of its
frame are, because the first of them come in one write. The refinement maps
the frame that `copy()` has read but not written, followed by the frames not yet
read, to the abstract queue; `FrameQueue` asks for it as long as the framing is
intact. Assumptions: only `BufferAssumption`; `MaxBytes` is
an arbitrary number.

`SnapProcessorRP2040Proofs`, for every byte queue, queue of sizes, activation level
and set of frame sizes that satisfy `BufferAssumption`:

| theorem | establishes |
|---|---|
| `TypeCorrect` | `Spec => []TypeOK` |
| `InductiveInvariant` | `Spec => []IInv` |
| `ImplementsFrameQueue` | `Spec => FrameQueue` |

That a frame is taken from the abstract queue when `doLoop1()` has decoded it needs that
there is one: `Counted` says that each frame that waits has its size in the queue, but
for the one in hand, and no interruption breaks that, because `end()` drops the frames
whose sizes it drops and leaves the one in hand. `Aligned` holds until `end()` catches
`doLoop1()` in the middle of a frame: the frame in hand is the first that waits, the
sizes are those of the others, and these are a `Chain`, end to end in the stream from
`From` to what was written, so that the bytes that are read are those of the first frame
(`ChainTail`) and a new frame continues the chain (`ChainAppend`).

`SnapProcessorBufferedProofs`, for every pair of ring buffers, activation level, set of
frame sizes and (even) range `I16` of an `int16_t`:

| theorem | establishes |
|---|---|
| `TypeCorrect` | `Spec => []TypeOK` |
| `FramesStayWhole` | `Spec => []Framing` |
| `DoesNotFallBehind` | `Spec => []KeepsUp` |
| `ImplementsFrameQueue` | `Spec => FrameQueue` |

`Framing`, here `Aligned`, is not inductive; what it needs is `Positive` (a size that
wraps below 0 is counted as a loss) and `Inside`: the bytes of a frame that waits have
been written. `KeepsUpInv` allows one frame more in the middle of a round, the one that
came with it, which the same round takes out again.

`SnapTimeProofs` has what three of the following modules need to know about `SnapTime`, for
every width `W`: two numbers that differ by a multiple of `W` are the same
`uint32_t` (`Congruent`, `SameResidue`) and the same `int`, which is the number
itself if an `int` can hold it (`IntInRange`); a reply leaves a record (`AfterReply`)
from which the server's time is calculated right ever after (`Extrapolated`).

`SnapTimeSyncProofs`, for every interval, width `W`, set of clock rates and variant
that satisfy `TimeSyncAssumption` and `WAssumption`:

| theorem | establishes |
|---|---|
| `TypeCorrect` | `Spec => []TypeOK`: the points are `uint32_t`, the factor a fraction without a 0 |
| `AdjustmentsAreSpaced` | `Spec => SyncSpaced` |
| `FactorIsARate` | `Spec => []FactorIsSpeed` |

`TypeOK` needs that the list of `Dynamic` has more than two points before the factor
is computed from it, and that of `SinceStart` exactly two: `TypeInv`. `SyncSpaced`
compares the updates since the last adjustment with the interval, and `update_count`
is never reset: `SyncInv` says that it is a multiple of the interval plus
the updates since the last adjustment, so that one at a multiple again is at
least an interval away (`EnoughUpdates`). `FactorIsSpeed` compares two differences
of wrapped numbers with the clocks as they were: `TakenInv` keeps for each point when
it was taken, and that from each of these moments to the last, and to now, the measured
clock ran at a rate between two of the given ones (`Ran`), which adds up over ticks
of different rates.

`SnapWireProofs`, for every even size `B` above 2 of a byte, buffer of the hello, sequence of
base parts, and set of contents whose numbers and sizes fit their members
(`ProtocolAssumption`, `WireAssumption`):

| theorem | establishes |
|---|---|
| `RoundTripUint16`, `RoundTripUint32` | reading what was written gives the number |
| `RoundTripInt32` | the same below 0 |
| `ReadBack` | the same for a message of numbers, for every layout of fields and whatever bytes follow |
| `WireTypes` | `Spec => []TypeOK` |
| `ReadMeansSent` | `Spec => []ReadIsSent` |
| `SkipsNothing` | `Spec => []NothingSkipped` |
| `HeardMeansMeant` | `Spec => []HeardIsMeant` |

A number is its lowest byte plus `B` times what the shift leaves (`DivMod`);
four times that is `FourBytes`, and what four shifts leave is 0 for a number that
is not negative and -1 for one that is (`FourShifts`). Reading back adds `uint32Range` in the
second case, which the cast to `int32_t` takes away. A message of numbers has a
`Layout`: where each field ends. By induction over the fields, writing puts each one
there (`Serialized`), and reading takes each one from there or fails if the bytes end
before (`Deserialized`). `ChunkIsRead` and `CodecIsRead` add the variable parts: from all
of its bytes a content is read as it was sent, from fewer it is not read at all.

None of the properties of `SnapWire` is inductive, because they say nothing of the bytes on
their way. `Cuts(all, a, b)` says that `a` and then `b` make up all the bytes, and
two ways to cut the same bytes compare (`Cut`); `Left(bytes, ms, n)` says that these
bytes are the messages of `ms` after the first `n`. `StreamInv` says where the client is:
there are bytes of which those that can be read are the first, and the others late or lost,
and between two messages they are all messages that it has not read; after a base part
they are the body of that message and the messages after it; and with a body in hand,
either it is whole and they are the messages after it, or the connection is gone
and so are they. That the last case ends in a message that does not count is what
the check of each read is for; that of settings has none, and what comes of them is `Torn`
and the last. `HeardInv` is the same for the server: what was written and not yet heard,
and the body that is still to be written, are the messages of `meant` that it has not heard,
all of them while the connection is up, as far as the cut without. Every hello among them is
`Closed`, because what is not is not written.

`SnapProcessorProofs`, for every width `W` and start of the clocks, interval, window, chunk
size, set of messages and bound that satisfy `SessionAssumption`, `OutputAssumption` and
`WAssumption`:

| theorem | establishes |
|---|---|
| `TypeCorrect` | `Spec => []TypeOK` |
| `InductiveInvariant` | `Spec => []IInv` |
| `HelloComesFirst` | `Spec => []HelloFirst` |
| `ServerTimeIsLate` | `Spec => []ServerTimeLags` |
| `AsksInTime` | `MaxTime < W => (Spec => PolledInTime)` |
| `StreamIsAligned` | `Spec => []StreamAligned` |

Everything rests on `Streamed`, which is `StreamAligned` with the sum of the units
as a function that exists (`Sums`) in place of the recursive one, so that messages can be
added and taken away (`SumsAppend`, `SumsTail`): whenever a unit is there to be read, a
message is (`BaseThere`). That the two sums are the same is an induction over the length
(`SumsIsUnitsOf`). `HelloInv` adds to `HelloFirst` at which status of the loop hello was said,
and that it only goes back to `LoopStart` when the connection was reset. `ServerTimeLags` is
about four counters that wrap; `LagInv` keeps the tick at which the last reply was
handled and when it was sent, `ReplyInv` says that no reply is from the future, and
`Extrapolated` calculates modulo `W`.
`AskedInv` ties `last_time_sync` to the tick of the last request; the condition
`MaxTime < W` of `AsksInTime` is that of the code, whose difference of two `millis()`
is right for spans below the wrap.

`SnapPlaybackProofs`, for every set of processors, settings, codecs, ages and factors,
every queue length, level, start of the clocks and bound that satisfy
`PlaybackAssumption`, `AgesAssumption`, `OutputAssumption` and `WAssumption`:

| theorem | establishes |
|---|---|
| `TypeCorrect` | `Spec => []TypeOK` |
| `VolumeIsKept` | `Spec => []VolumeFollowsServer` |
| `DecodedAsAnnounced` | `Spec => []CodecMatches` |
| `WavHeaderFirst` | `Spec => []HeaderFirstInDecoder` |
| `StartIsInTime` | `Spec => []StartIsFresh` |

None of the four properties is inductive. `VolumeInv` adds that `output.vol`, from which
the next `begin()` takes the volume, is that of the last settings: the 0 that
`setMute()` leaves there is gone at the end of the handler. `CodecInv` adds that the
decoder is open for what was announced and that every frame of the queue behind the
`stale` ones is of its codec. `HeaderInv` adds that a WAV decoder which has got nothing
is between the two steps of the codec header, with nothing in the queue that is newer
than it. `TypeInv` adds the shape of the records and that only the task of RTOS holds a
frame, and then the queue is not empty. For `StartIsFresh` `LagInv` keeps when the last
reply was sent and handled (before there is one, `StartIsFresh` says nothing, nor does
it of the Buffered processor, whose frames are judged by another frame's header); the
delay that a frame is judged by is then its age less that of the reply, and
`AgesAssumption` says that an `int` can hold this (`IntInRange`), which in the code is a
span of 24 days. That audio and a reply are further apart is nothing the code provides
for.

Induction over data is used in the form of a set that contains 0 and with a number the
next one (`Induction`), so `UnitsOf`, `serialize` and `deserialize` are functions,
recursive in the number of messages or fields that are done.

Only model-checked: liveness (fairness and ENABLED are outside the prover): `WriteReturns`,
`EveryFrameDecoded`, `PlaybackProgress`, `AllIsRead`, `BodyIsRead`, `Recovers`. Every safety
property of the passing runs is a theorem.

## 5. Not modelled

* `SnapClient.h`, `SnapConfig.h`, `SnapLogger.h`: set-up of hardware and network
  services, constants, log macros. `SnapTime.h`: SNTP and printing.
* The search for the values in the text of the settings (`indexOf`, `atoi`) and the
  putting together of the hello from the names; what happens after the `memmove()` of
  settings of which less than 4 bytes came.
* The audio tools behind the output (decoder, resampler, volume stream): external.
  So are the interleavings of `setMute()`, which writes silence, with the output task.
* Rounding: microseconds, floats.
* `begin()` called twice without `end()`; the choice of another output, decoder,
  client or address while the client runs.
* `docs/html`, with the JavaScript in it, is the API documentation as Doxygen
  generates it from the headers: no part of the client runs there.

## 6. Plan

1. Done: frame queues (abstract, RTOS with proofs, RP2040, Buffered), session,
   time, output, synchronizer.
2. Done: the wire format in both directions; the handlers composed with the frame
   queue and the decoder for every processor; reconnects after a reset; failing
   deserialisation; the volume factor; spans beyond the wrap.
3. Done, theorems: every invariant and every action property that a passing run checks, and
   the three refinements.
4. Next: an abstract channel of messages that `SnapWire` implements in both directions;
   that the session never waits for bytes when none are on their way, as the safe part of
   `AllIsRead`.
