-------------------------------- MODULE Media --------------------------------
(***************************************************************************)
(* Audio in both directions through one loop task, in time.  The           *)
(* microphone records into its DMA buffers whether the loop reads them or  *)
(* not (esp32/i2s_mic.cpp); the speaker plays from its own, and a write to *)
(* a full queue blocks the loop (esp32/speaker_driver.cpp); the backend    *)
(* sends a frame every 20 ms and makes up for delays in bursts             *)
(* (test_backend); an infrared transmission holds everything up            *)
(* (esp32/ir_driver.cpp).  Module Station has the logic of the same        *)
(* routines; here it is how long they take that counts.                    *)
(*                                                                         *)
(* A tick is 4 ms, the time of 64 samples.                                 *)
(***************************************************************************)
EXTENDS WspFormat

CONSTANTS
  Ahead,             \* bound: frames delayed on their way, to arrive in a burst
  Costs,             \* ticks a pass may spend outside the audio drivers,
                     \* the Opus codec included
  SampleRates,       \* --spk-sample-rate of the backend
  IrSignals,         \* durations of infrared signals, in ticks
  IrRepeats,         \* repeat fields of IrTransmit
  Stalls             \* ticks a write to a full socket may block

Ticks(samples) == samples \div 64
FrameTicks == Ticks(320)

(* Of the microphone's four DMA buffers, a frame each, one is recorded     *)
(* into and three are full; the oldest of them is recorded over next.      *)
MicBuffers == 4
MicHold == MicBuffers - 1

(* The speaker's six DMA buffers of 256 samples are sent round and round;  *)
(* one that has been sent is free to be written again, so that five are    *)
(* free when nothing is left to play.                                      *)
SpkBuffersFew == 4               \* Broken variant: dma_buf_count
SpkBuffers == 6
SpkBufferTicks == Ticks(256)
SpkFree == SpkBuffers - 1

(* Frames of 20 ms that rxBuffer has room for. *)
SpkPacket == kHeaderSize + AudioPCMBody + 640
RxFramesFew == 1536 \div SpkPacket    \* Broken variant
RxFrames == RxBufferSize \div SpkPacket

Flags == {{}, {"Key"}, {"Key", "Last"}}

(* Outside the audio drivers a pass takes less than a frame (20 ms), all   *)
(* its decoding and encoding included.  It is counted at the end, after    *)
(* the writes have waited for the speaker, which can only lengthen a pass. *)
ASSUME MediaAssumption == /\ Ahead \in Nat /\ Costs \subseteq 0..FrameTicks - 1
                          /\ SampleRates \subseteq Nat /\ IrSignals \subseteq Nat
                          /\ IrRepeats \subseteq UInt16 /\ Stalls \subseteq Nat

VARIABLES
  pc,                \* where the loop task is: "rx" or "poll"
  micOn,             \* mic_pcm or mic_comp
  fill,              \* ticks recorded into the current DMA buffer
  held,              \* full DMA buffers
  old,               \* those, the current one included, begun before Subscribe
  avail,             \* ticks of audio the speaker's driver takes at once: its
                     \* free buffers, and the rest of the one being written
  sent,              \* ticks sent of the buffer being sent
  streaming,         \* the backend is sending SpkPCM or SpkComp
  phase,             \* ticks since its last deadline
  late,              \* frames due, but not arrived
  inbox,             \* frames arrived, in the TCP stack or rxBuffer
  batch,             \* frames read by this pass and not yet dispatched
  behind,            \* the loop was held up and has not recovered since
  lost,              \* a frame of a subscribed microphone was recorded over
                     \* though the loop was not held up
  decoder,           \* whose frames shaped the Opus decoder: "clean" nobody's,
                     \* "own" this session's only, "foreign"
  synced             \* this session had a key frame decoded

mic == <<micOn, fill, held, old>>
speaker == <<avail, sent>>
host == <<streaming, phase, late, inbox>>
opus == <<decoder, synced>>
vars == <<pc, mic, speaker, host, batch, behind, lost, opus>>

AtLeast0(n) == IF n < 0 THEN 0 ELSE n

(* The speaker's buffers have been round since speakerBegin. *)
Init == /\ pc = "rx"
        /\ micOn = FALSE /\ fill = 0 /\ held = 0 /\ old = 0
        /\ avail = SpkFree * SpkBufferTicks /\ sent \in 0..SpkBufferTicks - 1
        /\ streaming = FALSE /\ phase = 0 /\ late = 0 /\ inbox = 0
        /\ batch = 0
        /\ behind = FALSE /\ lost = FALSE
        /\ decoder = "clean" /\ synced = FALSE

---------------------------------------------------------------------------
(* d ticks go by, and at their end the microphone is read or not, and the  *)
(* speaker is given n ticks of audio.                                      *)

Recorded(d) == (fill + d) \div FrameTicks
Overrun(d) == AtLeast0(held + Recorded(d) - MicHold)
Freed(d) == (sent + d) \div SpkBufferTicks
Avail(d) == (avail % SpkBufferTicks)
              + SpkBufferTicks * Smaller((avail \div SpkBufferTicks) + Freed(d), SpkFree)
Due(d) == IF streaming THEN (phase + d) \div FrameTicks ELSE 0

Record(d, read) ==
  /\ fill' = (fill + d) % FrameTicks
  /\ held' = Smaller(held + Recorded(d), MicHold) - read
  /\ old' = AtLeast0(old - Overrun(d) - read)
  /\ lost' = (lost \/ (micOn /\ ~behind /\ ~behind' /\ Overrun(d) > old))

(* The backend's deadlines, and the network: at most Ahead frames late.    *)
(* Bound: not while the loop catches up, one disturbance at a time.        *)
Delayed == IF behind THEN 0 ELSE Ahead
Arrive(d) ==
  /\ phase' = IF streaming THEN (phase + d) % FrameTicks ELSE 0
  /\ late' \in 0..Smaller(Delayed, late + Due(d))
  /\ inbox' = inbox + late + Due(d) - late'
  /\ UNCHANGED streaming

Elapse(d, read, n) == /\ Record(d, read) /\ Arrive(d)
                      /\ avail' = Avail(d) - n
                      /\ sent' = (sent + d) % SpkBufferTicks

---------------------------------------------------------------------------
(* The backend.                                                            *)

(* All that was to be played has been sent, or is being sent. *)
SpkIdle == avail >= SpkFree * SpkBufferTicks

(* A stream's first frame is due at once. A stream that follows another    *)
(* without a pause is the same one going on.                               *)
StreamStart == /\ ~streaming /\ late = 0 /\ inbox = 0 /\ batch = 0 /\ SpkIdle
               /\ streaming' = TRUE
               /\ late' = 0 /\ inbox' = 1 /\ phase' = 0
               /\ UNCHANGED <<pc, mic, speaker, batch, behind, lost, opus>>

StreamEnd == /\ streaming
             /\ streaming' = FALSE
             /\ phase' = 0
             /\ UNCHANGED <<pc, mic, speaker, late, inbox, batch, behind, lost, opus>>

---------------------------------------------------------------------------
(* pollTcpReceive and the handlers.                                        *)

Receive == /\ pc = "rx" /\ batch = 0
           /\ inbox <= RxFrames
           /\ batch' = inbox
           /\ inbox' = 0
           /\ pc' = IF inbox = 0 THEN "poll" ELSE "rx"
           /\ UNCHANGED <<mic, speaker, streaming, phase, late, behind, lost, opus>>

(* Subscribe and Unsubscribe of a microphone stream; the DMA buffers stay  *)
(* as they are.                                                            *)
SubscribeMic == /\ pc = "rx" /\ batch = 0
                /\ micOn' = ~micOn
                /\ old' = IF micOn' THEN held + 1 ELSE 0
                /\ UNCHANGED <<pc, fill, held, speaker, host, batch, behind, lost, opus>>

(* The connection ends, for whatever reason, and the next backend's is     *)
(* accepted: subscriptions and input are gone, DMA buffers and decoder are *)
(* as they were.                                                           *)
NextSession == /\ micOn' = FALSE /\ old' = 0
               /\ streaming' = FALSE /\ phase' = 0 /\ late' = 0 /\ inbox' = 0
               /\ batch' = 0
               /\ decoder' = IF decoder = "clean" THEN "clean" ELSE "foreign"
               /\ synced' = FALSE
               /\ UNCHANGED <<pc, fill, held, speaker, behind, lost>>

PeerLost == pc = "rx" /\ NextSession

(* More has arrived than rxBuffer takes, and packets are only taken out    *)
(* when all of it has been read.                                           *)
Overflow == pc = "rx" /\ batch = 0 /\ inbox > RxFrames /\ NextSession

(* speakerPlayPCM16Mono: wait until enough buffers are free; each becomes  *)
(* so at the end of its transmission, which is far below the 100 ms that   *)
(* i2s_write would wait for it.                                            *)
Missing(n) == (n - avail + SpkBufferTicks - 1) \div SpkBufferTicks
Wait(n) == IF avail >= n THEN 0 ELSE SpkBufferTicks * Missing(n) - sent

PlayedAtOnce(n) == Elapse(0, 0, n)    \* Broken variant: does not wait
Played(n) == Elapse(Wait(n), 0, n)
NotPlayed == UNCHANGED <<fill, held, old, speaker, host, lost>>

NextFrame == /\ pc = "rx" /\ batch > 0
             /\ batch' = batch - 1
             /\ pc' = IF batch = 1 THEN "poll" ELSE "rx"
             /\ UNCHANGED <<micOn, behind>>

HandleSpkPCM ==
  /\ NextFrame
  /\ \E rate \in SampleRates :
       IF SpkPCMVerdict(HostPCM(320, rate)) = "accepted" THEN Played(FrameTicks) ELSE NotPlayed
  /\ UNCHANGED opus

(* Does a frame with these flags reset the decoder before it is decoded?   *)
ResetsIfAlone(flags) == flags = {"Key"}   \* Broken variant: compared as a number
Resets(flags) == "Key" \in flags

(* opusDecoderReset, and what a frame leaves behind in the decoder.        *)
AfterReset(flags) == IF Resets(flags) THEN "clean" ELSE decoder
AfterFrame(state) == IF state = "foreign" THEN "foreign" ELSE "own"

(* A frame that Opus refuses is not played, and leaves the decoder as the  *)
(* reset, if any, left it.                                                 *)
HandleSpkComp ==
  /\ NextFrame
  /\ \E rate \in SampleRates :
       IF SpkCompVerdict(HostComp(40, rate)) = "accepted"
       THEN \E flags \in Flags :
              /\ synced' = (synced \/ "Key" \in flags)
              /\ \/ decoder' = AfterFrame(AfterReset(flags)) /\ Played(FrameTicks)
                 \/ decoder' = AfterReset(flags) /\ NotPlayed
       ELSE NotPlayed /\ UNCHANGED opus

(* irSendRaw: every repetition is followed by a pause of 50 ms.            *)
IrPause == 13
IrTicks(signal, repeat) == SendCount(repeat) * (signal + IrPause)

HeldUp(d) == /\ pc = "rx" /\ batch = 0
             /\ ~behind
             /\ behind' = TRUE
             /\ Elapse(d, 0, 0)
             /\ UNCHANGED <<pc, micOn, streaming, batch, opus>>

HandleIrTransmit ==
  \E signal \in IrSignals, repeat \in IrRepeats : HeldUp(IrTicks(signal, repeat))

(* wspWritePacket waits for room in the send buffer, at most a second. *)
WriteStall == \E d \in Stalls : HeldUp(d)

---------------------------------------------------------------------------
(* The polling routines, and the delay at the end of appLoop.              *)

PassCostSlow == {5 + d : d \in Costs}    \* Broken variant: delay(20)
PassCost == Costs

(* micReadFrame takes the oldest full buffer, or waits for the one that    *)
(* fills next. The loop has caught up when it waits and nothing is left to *)
(* play.                                                                   *)
MicWaits(d) == held + Recorded(d) = 0
CaughtUp == inbox = 0 /\ late = 0 /\ SpkIdle

PollMic == /\ pc = "poll" /\ micOn
           /\ pc' = "rx"
           /\ \E d \in PassCost :
                /\ behind' = (behind /\ ~(MicWaits(d) /\ CaughtUp))
                /\ Elapse(IF MicWaits(d) THEN FrameTicks - fill ELSE d, 1, 0)
           /\ UNCHANGED <<micOn, batch, opus>>

(* Nobody listens; delay(1) counts as a tick. *)
PollMicOff == /\ pc = "poll" /\ ~micOn
              /\ pc' = "rx"
              /\ behind' = (behind /\ ~CaughtUp)
              /\ \E d \in PassCost : Elapse(d + 1, 0, 0)
              /\ UNCHANGED <<micOn, batch, opus>>

---------------------------------------------------------------------------
Loop == \/ Receive \/ Overflow \/ HandleSpkPCM \/ HandleSpkComp
        \/ PollMic \/ PollMicOff

Environment == \/ StreamStart \/ StreamEnd \/ SubscribeMic \/ PeerLost
               \/ HandleIrTransmit \/ WriteStall

Next == Loop \/ Environment

(* Arduino runs loop() for ever, and its calls return. *)
Spec == Init /\ [][Next]_vars /\ WF_vars(Loop)

---------------------------------------------------------------------------
(* Properties.                                                             *)

(* Types, and the levels the DMA queues cannot exceed. *)
TypeOK == /\ pc \in {"rx", "poll"}
          /\ {micOn, streaming, behind, lost, synced} \subseteq BOOLEAN
          /\ fill \in 0..FrameTicks - 1
          /\ held \in 0..MicHold
          /\ old \in 0..held + 1
          /\ avail \in 0..SpkBuffers * SpkBufferTicks - 1
          /\ sent \in 0..SpkBufferTicks - 1
          /\ phase \in 0..FrameTicks - 1
          /\ late \in 0..Ahead
          /\ {inbox, batch} \subseteq Nat
          /\ decoder \in {"clean", "own", "foreign"}

(* Full duplex: as long as the network delays no more than Ahead frames    *)
(* and no infrared transmission or blocked write held the loop up, no      *)
(* frame of a subscribed microphone is lost while a write waits for the    *)
(* speaker (pollMic, app.cpp:556-596). With Ahead = 3 one can be. Such a   *)
(* loss would not show: the frame has no sequence number yet.              *)
MicSurvives == ~lost

(* Under the same conditions a backend that sends its frames on time is    *)
(* not disconnected for an rx buffer overflow (pollTcpReceive, 532-537).   *)
OverflowMeansHeldUp == [][Overflow => behind]_vars

(* README.md:318: a key frame starts the decoder anew, so from then on     *)
(* what a backend hears depends on its own frames alone.                   *)
KeySync == synced => decoder # "foreign"

(* Once the speaker stream has ended, the loop catches up with what it     *)
(* missed: it reads buffered frames faster than they are recorded.         *)
Quiet == micOn /\ ~streaming /\ late = 0
CatchesUp == []<>(~behind) \/ []<>(~Quiet)

(* What is left to catch up with, in units no single call can hide: frames *)
(* to dispatch, time to play, time recorded, and the turn of the loop.     *)
Turn == CASE batch > 0 -> 0
          [] batch = 0 /\ inbox > 0 -> IF pc = "poll" THEN 2 ELSE 1
          [] batch = 0 /\ inbox = 0 -> IF pc = "poll" THEN 0 ELSE 1
Queued == SpkBuffers * SpkBufferTicks - avail + FrameTicks * held + fill
LeftToDo == 150 * (inbox + batch) + 3 * Queued + Turn

(* The same, step by step: a loop that was held up is closer to its normal *)
(* state after every call it makes, for every cost of a pass that is less  *)
(* than a frame; none of the queues it drains fills another for good.      *)
RecoveryShortens ==
  [][behind /\ Quiet /\ behind' /\ Quiet' => LeftToDo' < LeftToDo]_vars
=============================================================================
