# A verified model of WaveStation

WaveStation is an ESP32 that offers its microphone, speaker, infrared
transceiver and three sensors to one home server ("backend") at a time, over a
TCP connection that carries WSP packets. This directory holds TLA+ models of
the firmware in `src/esp32`, configurations that check them with TLC, and
theorems about them proved with TLAPS. Line numbers below are those of
`src/esp32/app.cpp` unless a file is named.

## The system

| Part | State | Operations | Talks to |
|---|---|---|---|
| Session (`app.cpp`) | `client`, `sub`, `*Seq`, `last*Ms`, `haveLast*`, `last*Value` | `appLoop`, `handle*`, `poll*`, `disconnectClient`, `resetSessionState` | every driver, the packet writer |
| Receive path (`app.cpp`) | `rxBuffer`, `rxSize` | `pollTcpReceive`, `processRxBuffer` | the socket; calls `dispatchPacket` |
| Packet writer (`wsp_packet.cpp`) | none that outlives a call | `wspSend*`, `wspWritePacket` | the socket |
| Protocol (`wave_station.h`) | - | types, headers, bodies, limits | - |
| IR driver (`ir_driver.cpp`) | the library's receiver, one finished capture | `irClearReceive`, `irReceiveRaw`, `irSendRaw` | an interrupt fills the capture |
| Sensor driver (`sensor_driver.cpp`) | which sensors came up | `sensorsBegin`, `sensorsReadAll` | DHT22, BH1750 |
| Opus (`opus_codec.cpp`) | encoder, decoder; both live as long as the firmware | encode, decode, reset | - |
| Microphone, speaker (`i2s_mic.cpp`, `speaker_driver.cpp`) | DMA queues of 4 and 6 buffers | read a frame, play a frame | I2S, which runs by itself |
| Host backend (`test_backend/wave_station_test_backend.py`) | request and sequence numbers, a send lock, two threads | connect, send, read, heartbeat, close | the station |
| Host tools, case | files, geometry | - | - |

The firmware is one loop task. An iteration of `appLoop` (738-764) looks after
Wi-Fi, takes a waiting client if it has none, and otherwise receives, polls the
infrared receiver, the sensors and the microphone, in this order. Nothing in it
is locked; what runs concurrently is the network (a connection may be lost
between any two calls, a write may time out half way), the infrared interrupt
and time. All the session's state is global and is reset in two places: when a
client is accepted and when `disconnectClient` closes one, which any polling
routine may do while its caller still holds values it read before.

What makes the parts correct:

- *receive path*: packets are acted on whole, once, in order, for every
  segmentation; the buffer arithmetic never under- or overflows; a connection
  is dropped for overflow only when there was something to take out;
- *session*: subscriptions are those the current connection asked for; data is
  of a subscribed stream; sequence numbers have no gap; a closed session is
  clean; a waiting backend is served; every packet is handled;
- *sensors*: asked when the interval is over, across the wrap of `millis()`,
  and the backend's value stays near the sensor's;
- *writer*: every packet it is asked for fits its arrays and what the backend
  reads; no packet follows one written in part;
- *audio*: the loop serves both directions without losing microphone frames, and
  does not drop a backend that sends on time; what is heard after a key frame is
  this backend's own;
- *host*: its two threads do not mix packets on the socket, a packet given up
  half way does bounded damage, and neither end waits for the other for ever.

The hazards behind these properties are listed line by line in `PROJECT.json`.

## The modules

| Module | Models | Extends |
|---|---|---|
| `PacketChannel` | what the receive path promises: an in-order channel of whole packets | |
| `WspReceive` | `pollTcpReceive` and `processRxBuffer`, byte by byte; implements `PacketChannel` | |
| `WspService` | what a backend may rely on: one session, packets in order, answers, numbered data | |
| `Station` | the session: `appLoop`, all handlers and polling routines, on whole packets; implements `WspService` | |
| `SensorPoll` | one sensor of `pollSensors`/`maybeSendSensor` over time | |
| `WspFormat` | sizes: every builder and every check of both programs, and the 16-bit arithmetic of the infrared sender | |
| `Media` | speaker, microphone, infrared and pacing through one loop task, in time | `WspFormat` |
| `HostClient` | the backend's two threads, its lock and its socket | |
| `Link` | backend and station at the ends of one TCP connection with finite buffers | `HostClient` |
| `WspReceiveProofs`, `StationProofs`, `SensorPollProofs`, `WspFormatProofs`, `MediaProofs`, `LinkProofs` | theorems | the module they name |
| `SessionProofs` | theorems about one connection of `Station`, from its first packet to its end | `StationProofs` |
| `MCWspReceive`, `MCStation`, `MCSensorPoll`, `MCMedia`, `MCLink` | constants for TLC | the module they name |

How they fit together:

- `WspReceive` is what allows `Station` to work on whole packets: its property
  `Reassembly` says that `dispatchPacket` sees the packets the peer wrote, and
  `ImplementsChannel` that nothing else of it can be observed. `ReadsChannel` is
  the other side: the session is a reader of the same `PacketChannel`, so the two
  modules meet in one specification.
- `WspFormat` says which packets `Station` may call well-formed, and shows that
  the real sizes meet the assumption about sizes that `WspReceive` makes.
- `SensorPoll` refines one choice of `Station`, which sensors are due, with the
  clock that `Station` leaves out. `Media` does the same for audio: `Station` has
  all the control of those routines, `Media` how long they take.
- `Link` composes the backend's client with a station reduced to its receive
  path and its writer; what a handler does to a session is in `Station`.

### WspReceive

A byte is a pair of a packet's number and a position in it, so that a byte out
of place shows. `net` is what is in flight, `rxBuffer` the first `rxSize` bytes
of the array; `Read` takes any prefix of `net` that fits, which is every way TCP
may cut the stream. `pc` splits `pollTcpReceive` and `processRxBuffer` at the
points where the program's view of the buffer matters: reading, parsing, and
between `dispatchPacket` and the `memmove`, where the local `totalSize` is used
with the global `rxSize`. The invalid packet stands for a bad magic or version.
`SendFailed` is a polling routine that closes the connection between two polls.

### Station

`conn` tells apart an open connection, one that is lost but still held by
`client`, and none. `pc` is the place in `appLoop`. Packets of the peer are
`reqs`; `taken` counts those in `rxBuffer`, `handled` those dispatched. Every
write goes to the log `tx`, with how much of it reached the socket: all, a part
(the one second of `wspWritePacket` ran out) or nothing. The log and the ghost
fields of `capture` are there for the properties; no action reads them except
through `MaxTx`. A packet has the type, the target, whether it passes its
handler's size and format checks (`wellFormed`), and OnChangeOnly. A step is one
packet dispatched or one polling routine up to its next write, so the connection
may be lost between MicPCM and MicComp of a frame, or between two sensors of a
poll: `due` holds `pollSensors`' locals `need*`, which survive
`disconnectClient`. `RxFault` closes the connection for any reason of the
receive path, at any point of the parsing.

### SensorPoll

`now` is `millis()` modulo `Wrap`. One pass of `appLoop` takes 1 to `MaxLag`
ticks. `lastMs = 0` is the program's "never". A Subscribe that asks for 0 gets
`DefaultMs`, and nothing below `MinMs` is granted. `since` and `asked` record real
time and the last question since the latest Subscribe; `heard` is what the
backend was sent since: quality and value of the last packet, 0 and 0 for a
failed measurement (633, 682), and apart from that the value of the last good one.
`ChangedEnough` compares as the program does, in 32-bit floats: `Float` is the
nearest float of a temperature in tenths of a degree, from 4.0 to 80.0 degrees,
in units of 2^-21, where the step of a float grows with the power of two
(`Ulp`); the difference of two such floats is exact, and 0.2f is
13421773 * 2^-26. Of the 759 changes by exactly two tenths in that range 311 are
not seen as a change, which is why `BackendClose` allows two tenths and not less
than two.

`BackendClose` and `Told` judge what the backend was *sent*. That leaves one case
out of step, and both name it (`Failed`): under OnChangeOnly a failed measurement
is sent as quality 0 and value 0 but does not reset change detection, so a reading
near the last good one is kept back and the backend is left with zeros. For that
case `BackendClose` says only that the reading is near the last good one sent; the
run `sensor_quality` shows it.

### WspService

The state is what the station owes a backend: whether a session is running, the
streams that are on, each stream's next number, how many packets were taken, and
the log of what was sent. `Station` maps its variables to these directly
(`Service`), and `ImplementsService` says that each step of the loop is a step of
the service or none of its business. What makes this more than a restatement are
the failures: every write may fail in the middle of any routine, after locals
were read and before others are set. In the service a failure has three forms
only: the session ends and leaves nothing behind (`End`), a number of MicComp is
spent on a packet that did not get through (`Skip`), or a routine that was
already running finds the connection closed (`Late`) and what it writes reaches
nobody and is numbered 0.

### WspFormat

No state: the packed structs field by field, what each `wspSend*` makes of the
sizes its caller passes (a size or `Refused`), what each handler answers to a
`payloadSize` and the fields it checks, what the backend's `build_*` functions
accept, and the limits of the drivers in between (captures, Opus frames, the
speaker's buffer). The limits are written down in `wave_station.h`,
`wsp_packet.cpp`, `app.cpp`, the drivers and the Python program independently of
each other, so it is theorems about them that are wanted rather than runs.

### Media

A tick is 4 ms, the duration of 64 samples, so that a frame of 20 ms is 5 ticks,
a speaker buffer of 256 samples 4, and nothing is rounded. The microphone fills
its DMA buffers whether or not anybody reads them; the loop takes one frame per
pass and waits when there is none (`PollMic`). The speaker's driver sends its six
buffers round and round, and gets one back only when all of it has been sent:
`sent` is how much of the one under way is out, `avail` what a write can place at
once (the free buffers, five at most, and the rest of the one begun). A frame that
does not fit waits for the ends of as many transmissions as it needs (`Wait`), and
meanwhile the microphone records on. `Costs` is all other time of a pass, with
decoding and encoding, and is less than a frame; a station whose pass costs a frame or
more keeps up with nothing. It is counted at the end of the pass, after the writes
have waited, which only makes passes longer. The backend's frames are due every
20 ms; the network may hold back up to `Ahead` of them and deliver them in a burst.
`HandleIrTransmit` and
`WriteStall` hold the loop up for as long as the transmission or a blocked write
takes; `behind` remembers that until the loop has nothing left to catch up with.
`decoder` and `synced` follow the Opus decoder, which outlives sessions.
Frames begun before a Subscribe (`old`) are not counted as lost. A loss that
DMA causes takes no sequence number, which is why it would not show anywhere
(README.md:176 speaks of gaps in the numbers as the sign of loss). The backend
built here never sets the KeyFrame flag, so its own SpkComp streams are never
synchronised in the sense of `KeySync`; the flag is a promise to others
(README.md:318).

### HostClient and Link

A thread is at a place of `pc`; `todo` is what main has yet to send, a Heartbeat,
its Subscribes and speaker packets, or after Ctrl+C its Unsubscribes. A packet is
a few cells, header first, and a cell carries its position, so that one out of
place shows; `Put` is one cell accepted by the send buffer, and between two of
them anything may happen: the other thread runs, the second of `sendall` is over
with the buffer full, Ctrl+C, the connection goes. `cuts` counts the packets
given up half way. `close()` is three steps, because the heartbeat thread may run
between them. `Link` adds the two buffers of the connection and the station:
reading only when it does not write, checking headers, acting on what it takes
for a packet (`garbled` counts those nobody sent), answering, sending data of its
one subscription, giving up after a second. Control packets are answered, audio is
played silently or refused, garbled or not, since audio whose sizes fit is not
looked at further (362-377); a garbled Subscribe may still count. Data that does not
get out ends the connection, or, if it is MicComp's, is dropped (`DataLost`,
`FrameDropped`). After the station has closed, or the
process exited, the model stops: a new process starts it anew.

## What TLC checks

Each property of a passing run is also shown to be broken by a plausible bug: a
variant of one definition, kept beside it and marked "Broken variant".

| Run | Instance | Shows |
|---|---|---|
| `receive` | header 2, payloads 0, 2 and 6 bytes, maximum 2, buffer 6, 3 packets, 2 connections | `Reassembly`, `NoUnderflow`, `BoundedResidue`, `OverflowMeansBacklog`, `Progress`, and that it implements `PacketChannel` |
| `streams` | MicPCM, MicComp, IrReceive; 3 packets, 3 writes, 2 connections | `SubscriptionsFollowRequests`, `DataOnlyWhileSubscribed`, `SequenceContiguous`, `FreshCapture` |
| `sensors` | three sensors, Temperature with OnChangeOnly; 2 packets, 4 writes, 2 connections | `IdleClean`, `FirstReport`, `FailedSendEnds`, `PassBounded`, and that it implements `WspService` |
| `commands` | heartbeat, speaker, infrared, refused and malformed packets; all drivers or only the DHT22; 2 connections | `AnsweredInOrder`, `Reconnect`, `EventuallyHandled`, and that it reads from `PacketChannel` (`ReadsChannel`) |
| `sensor_time` | counter of 12 ticks, minimum 3, intervals asked for 0 (default 5) and 1, passes of 1 or 2, four temperatures around 32 degrees and a failed reading | `Punctual`, `NeverEarly`, `FirstAtOnce`, `BackendClose`, `Told` |
| `media` | bursts with up to 2 late frames, passes of 0 or 16 ms besides audio, signals of 68 ms sent twice, writes blocked for 240 ms; 4.5 million states | `MicSurvives`, `OverflowMeansHeldUp`, `KeySync`, `RecoveryShortens` |
| `media_recovery` | the same with a punctual network and passes of 16 ms; 1.1 million states | `CatchesUp` |
| `link` | one subscription, one speaker packet of 4 cells, buffers of 3 and 2 cells; 347,593 states | `WholeOnWire`, `CrashOnlyAtClose`, `StationWindsDown`, `WritesEnd`, `StopNoticed`, `StationFree` |

Bounds. In `receive` the buffer holds a maximal packet and a half, as 8192 holds
one of 4112 and most of another; the sizes allow a header cut in two, several
packets in one read, an overflow, and leftovers for a second connection. Two
connections are enough to see state carried from one to the next, since
`ResetSession` at every accept makes the third like the second. Three packets
allow Subscribe, Unsubscribe, Subscribe. `MaxTx` stops new data only, never a
reply, so no handler is cut off. In `sensor_time` the wrap is a few intervals
away, so a run crosses it many times; the four temperatures lie where the floats
become coarser: from 31.8 to 32.0 is a change, from 31.9 to 32.1 as floats is not.

In `media` the DMA queues, the frame length, the receive buffer and the
infrared pause are the code's own numbers. `Ahead` = 2 is the largest burst the
firmware stands without losing a frame of the microphone: with 3 and passes of
16 ms TLC finds one recorded over, when a burst of four comes soon after a
Subscribe and its writes wait for the speaker's buffers in turn. With 2 the cost of
a pass does not matter as long as it is below a frame (`MicKept`); the run keeps
the least and the greatest. That frames survive a burst is owed to the depth of the
speaker's queue (with four buffers instead of six they do not), less to the number
of microphone buffers. Deadlock is checked, so the loop always has a next step.
Three restrictions are deliberate: while the loop recovers
from one disturbance there is no other and the network is on time (`Delayed`,
`HeldUp`), a stream starts when the one before has played, and after a hold-up
*during* a speaker stream nothing is claimed of the microphone until the stream
has ended, since the loop then has no spare time to catch up in. In `link`, each
buffer is smaller than the largest packet its end sends, so a write can block
and be given up in the middle of every packet; one subscription and one speaker
packet give main four sends, two heartbeats may come between them, and Ctrl+C
may come at every point. The station's state after the first closed connection
is that of `Station` and needs no second one here.

Fairness. `WspReceive` and `Station`: weak fairness of the loop task, which
Arduino runs for ever and in which every call returns (writes after a second,
infrared sends after their repeats) except `connectWifi`;
strong fairness of reading what has arrived, because each visit to
`pollTcpReceive` finds the bytes TCP has delivered by then. For `connectWifi`
(137-140) this assumes that Wi-Fi comes back. Nothing makes a backend connect,
a connection fail, or a write succeed. `SensorPoll` and `Media`: weak fairness of
the loop. `Link`: weak fairness of main, of the heartbeat thread and of the
station's loop, each of which the operating system or Arduino runs whenever it
can go on, and in which every blocking call has a time limit; and strong fairness
of main taking the send lock, because the heartbeat thread, which could take it
first for ever, sleeps for seconds between two beats
(`start_heartbeat_loop`). Ctrl+C and failures are nobody's duty.

## Where the code and its documents disagree

| Run | What it shows |
|---|---|
| `torn_packet` (`TornIsLast`) | a MicComp write that times out half way is dropped (581-585), the connection goes on and the next packet, an Ack, follows the torn one; README.md:379 promises that a failed send closes the client |
| `sensor_period` (`MinimumPeriod`) | 0 means "never asked" and is also a value of `millis()`: after the wrap a reading may be repeated on the next pass (656-658); README.md:604 promises 2000 ms |
| `sensor_quality` (`QualityKnown`) | with OnChangeOnly, a sensor that recovers near its old value stays reported with quality 0 (628-642); README.md:368 |
| `mic_ready` (`AckMeansReady`) | a Subscribe of a microphone stream is acknowledged whether or not the microphone came up (173-178), and stays silent; README.md:37 promises an error for what is not ready |

Met on the way, without a run of their own: `repeat` = 65535 transmits nothing
instead of 65536 times (`ir_driver.cpp:89`, theorem `Repetitions`); an Error of
the backend falls into the default branch and is answered with an Error (482-487),
where `doc/wave-station-esp32-guide.md:296` wants it logged; the
`requestId` of an Error about a Data packet is that packet's sequence number,
which the backend counts separately, so it cannot tell which of the two is meant
(README.md:175, `doc/wave-station-protocol.md:219`).

The properties of the passing runs hold beside these because they leave out
exactly the case at hand (`SequenceContiguous` and `FailedSendEnds` except
MicComp, `NeverEarly` the millisecond 0, `BackendClose` and `Told` what follows a
failed measurement under OnChangeOnly).
How far each disagreement reaches is proved: `FailedSendIsLast` (nothing follows
a failed send of any stream but MicComp), `AskedNotEarly` (an early question only
after one at millisecond 0), `QualityWithoutFilter` (the quality a backend holds
is that of the last measurement whenever OnChangeOnly is off), and
`SubscribedHasDriver` (a stream that is on has every driver it needs except the
microphone's own).

## What is proved

With TLAPS, for every value of the constants, from the assumptions named in the
modules: `SizesAssumption` (the header is not empty and a maximal packet is
smaller than the buffer), `RequestsAssumption` and `ReadyAssumption` (requests
and drivers are of their types), `TimeAssumption` (an interval and a pass are
together shorter than the counter's period), `ReadingsAssumption` (temperatures
at which `Float` is exact, 4.0 to 80.0 degrees), `MediaAssumption` (a pass takes
less than a frame outside the audio drivers), `HostAssumption`, `UpAssumption`
and `DownAssumption` (numbers, and buffers of at least a cell).

*StationProofs.* The properties are not inductive one by one: that data is of a
subscribed stream depends on the locals of `pollMic` and `pollSensors` still
agreeing with `sub` when they are used. `SessionInv` adds those links
(`CompSubscribed`: between MicPCM and MicComp the stream is on; `DueSubscribed`:
a needed sensor is subscribed unless the session ended), the freshness of a
capture (`CaptureFresh`), and that no packet was sent after more packets than
were dispatched. `IdleClean` is the part that lets `pollSensors` continue after
`disconnectClient`: every further write fails and resets the session again.
`SessionCorrect` is the invariant; `TypeCorrect`, `DisconnectResets`,
`SubscriptionsCorrect`, `DataIsSubscribed` and `CapturesAreFresh` follow.
`ServiceImplemented`: under `SessionInv`, and because of `IdleClean` above all,
every step is one of `WspService`. `NumbersCorrect` is then proved of the
*service's* steps, of which there are six, and not of the station's: the next
number of a stream is how many of its packets were heard (`Counting`), and every
step keeps that. `FirstReportSent` needs that also a remembered value, not only a
question, implies a report since the latest Subscribe (`KnownReported`).

*SessionProofs.* Four results about one connection. `RepliesMatchPackets`: by
cases on the handlers every packet that is not data gets exactly one reply, with
its own number, and the numbers dispatched only grow; the strengthening is that no
reply is about a packet still in the buffer (`RepliesBounded`). `FailedSendIsLast`
needs that a failed send leaves the connection closed until the next accept
(`FailureCloses`), since what `pollSensors` still writes then finds it closed.
`ChannelRead` maps the steps of the session to those of `PacketChannel`;
`IdleClean` is what excludes a dispatch after `disconnectClient`. `PassIsBounded`
shows a rank (`PassRank`: packets read but not dispatched, then the place in the
pass) that every step of the loop task lowers by at least what it writes and that
nothing else raises: the pass that was under way when anything happens ends after
a number of writes known when it began.

*WspReceiveProofs.* `TypeCorrect`, `ConsumeNeverUnderflows`,
`ResidueIsBounded` and `OverflowIsBacklog` need what the buffer holds at each
`pc`. `ReassemblyCorrect` needs more: the bytes acted on, the buffer and what is
in flight are, one after the other, the bytes of the packets sent, up to a
suffix. Stated by concatenation this would ask for an induction over the
sequence of packets; instead the invariant (`StreamInv`) names the position at
which each packet starts, and every action moves one boundary.
`ChannelImplemented` follows from it: what `Consume` takes out is the next packet.
`PollEnds` is about the loop in `pollTcpReceive` that reads while anything is
available: it returns however fast the peer writes, because what is read is taken
from the room left in `rxBuffer` and a packet takes at least a header out of it.
`PassIsBounded` starts where it ends, so the two bound a whole iteration of
`appLoop`.

*SensorPollProofs.* `SensorInv` says that the unsigned difference of `now` and
`lastMs` is the time since the last question for as long as it matters, and that
the last good value the backend was sent is what the filter compares with. The
arithmetic of the wrap is in two lemmas (`Remainder`, `Distance`), that of the
floats in two (`Rounding`, `FilterIsFine`). `AskedInTime`, `AskedNotEarly` and
`BackendInStep` follow, for 2^32 as for 12, and so does `FirstReadingAtOnce`, for
which a sensor not asked since its Subscribe must have no value to compare with.

*WspFormatProofs.* What a handler accepts lies within its packet
(`SpkPCMWithinPacket`, `SpkCompWithinPacket`, `IrTransmitWithinPacket`); what the
backend builds is accepted (`HostPCMAccepted`, `HostCompAccepted`,
`HostIrAccepted`); what the firmware builds is never refused and within what the
backend reads (`DataPacketsFit`, `OpusFramesFit`, `RepliesFit`); the receive
buffer holds a packet (`RxBufferHoldsAPacket`); and `Repetitions`,
`CarrierIsSome` of the infrared sender.

*MediaProofs.* `TypeCorrect` bounds both DMA queues: a frame that does not fit
waits, however frames arrive. `KeyFrameSyncs` is inductive by itself. The two
others answer how late the network may be, for all costs of a pass below a frame,
all infrared signals and all stalls. `KeepsPace` is the heart of both: unless the
loop was held up, what the backend has produced and the speaker has not sent
(`Backlog`) never exceeds `Room`. It does not grow while the speaker plays, since
audio is produced at the rate it is played; the speaker runs dry only in a pass
that found nothing to play, and then no more waits than came with the last burst
(`Fed`, `Burst`). So with `Ahead` at most 11 no more than the 12 frames that
`rxBuffer` holds ever wait (`OverflowExcused`). With `Ahead` at most 2 a write
still waits, but for the end of one transmission only, and only in its second half,
and the next wait can come no sooner than another half later: what waits in the
microphone's buffers, with the wait that may still come (`MayWait`), keeps within a
bound (`ReadInTime`), and every frame is read before it is recorded over
(`MicKept`). Both limits are sharp: TLC finds `OverflowMeansHeldUp` violated with
`Ahead` = 12, and `MicSurvives` with `Ahead` = 3 and a pass of 4 ticks.
`HeldUpLoopRecovers` is about the time after a hold-up: a weighted sum of the
frames to dispatch, the time to play and the time recorded (`LeftToDo`) falls with
every call the loop makes.

*LinkProofs.* `TypeCorrect` contains that a thread is in `sendall` exactly when
it holds the lock. `PacketsStayWhole` is about everything on its way to the
station, `buffer` and `up` in one (`WireInv`): wherever a cell does not follow
the one before (`Breaks`), wherever the last packet ends early with no sender to
continue it (`Dangling`), and for every packet acted on that nobody sent, a
packet was given up half way, and each for a different one. Giving up a packet
leaves a dangling end, the next packet turns it into a break, and acting on a
garbled packet takes at least one break out of the buffer. `CrashIsLate` needs
only that the socket is taken away after `_stop` is set. `GoneBackendWindsDown`
shows that each turn of the station without its backend leaves less in `Remaining`,
a reply that nobody takes included.

Only model-checked: liveness (`Progress`, `Reconnect`, `EventuallyHandled`,
`Told`, `CatchesUp`, `WritesEnd`, `StopNoticed`, `StationFree`), which is out of
the prover's reach, since it rests on fairness. What can be proved of it is: that a
quantity in the natural numbers falls with every step of the process whose
fairness the property assumes, for all sizes. `PassIsBounded` is that for
`EventuallyHandled` and `Reconnect`, `PollEnds` for `Progress`,
`HeldUpLoopRecovers` for `CatchesUp`, `GoneBackendWindsDown` for `StationFree`;
`AskedInTime` and `BackendInStep` bound the wait and the error that `Told` is
about. That the loop task takes such a step is fairness, and left to TLC.
`WritesEnd` and `StopNoticed` have no such theorem: the steps that end those waits
are time limits running out, which no quantity of the state counts.

## What is not modelled

- Values that are only copied: `requestId`s beyond their order, audio samples,
  raw infrared timings, `lux` and `humidity` (they run the code of `temperature`
  with other thresholds), log output, message texts.
- `IRremoteESP8266`, lwIP, the Opus, DHT and BH1750 libraries and FreeRTOS are
  external and appear as the choices they leave open; the infrared library's own
  buffering of a second capture, and the DHT library's cache of two seconds, are
  left out.
- The conversion of microphone samples (`i2s_mic.cpp`: slot choice, gain,
  clipping) and the doubling of speaker samples are signal processing without
  control state; `sensor_driver.cpp` is bus traffic and two flags, which are in
  `ready`.
- `TimestampPrefix` and the flags HasTimestamp and LastFrame: declared, and used
  by no code of the firmware.
- The backend's `PacketLogger` writes files and prints; its one counter
  (`check_sequence`) compares with what `SequenceContiguous` states.
- Wi-Fi, beyond `connectWifi` that waits; a half-open connection, for which the
  firmware has no time-out and hence no promise.
- `raw_to_wav.py`, `check_raw.py` and `send_spkpcm_tone.py` are straight-line
  scripts; the case is geometry.

## Plan

Everything the first plan named is there: receive path, session, sensors,
formats, service, audio in time, backend, link. What could follow:

1. `Link`: more than one session, with the backlog of `Station`, and the Opus
   decoder of `Media` across them.
2. Theorems about `WspService` itself, which hold of `Station` by
   `ServiceImplemented`.
3. The backend's reader against `WspFormat`: which `WspType`s it refuses, and
   what `PacketLogger` reports of a stream that `Station` numbered.
