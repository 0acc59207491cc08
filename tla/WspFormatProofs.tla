-------------------------- MODULE WspFormatProofs --------------------------
(***************************************************************************)
(* The sizes of WspFormat fit together, for every input.                   *)
(***************************************************************************)
EXTENDS WspFormat, TLAPS

Audio(p) == /\ p.payloadSize \in Nat /\ p.payloadSize <= kMaxPayload
            /\ p.sampleRate \in Nat /\ p.channels \in Nat
Pcm(p) == Audio(p) /\ p.bitsPerSample \in Nat /\ p.sampleCount \in UInt16
Comp(p) == Audio(p) /\ p.codec \in Nat /\ p.encodedSize \in UInt16
Ir(p) == p.payloadSize \in Nat /\ p.payloadSize <= kMaxPayload /\ p.length \in UInt16

---------------------------------------------------------------------------
(* The real sizes satisfy what WspReceiveProofs assumes of sizes: a header *)
(* is not empty, and a maximal packet fits into rxBuffer with room to      *)
(* spare (app.cpp:62, wave_station.h:15).                                  *)
THEOREM RxBufferHoldsAPacket ==
  HeaderFields = kHeaderSize /\ kHeaderSize > 0 /\ kHeaderSize + kMaxPayload < RxBufferSize
BY DEF HeaderFields, kHeaderSize, kMaxPayload, RxBufferSize

---------------------------------------------------------------------------
(* What the handlers read.                                                 *)

LEMMA PcmBytes ==
  ASSUME NEW b, b.channels = 1, b.bitsPerSample = 16, b.sampleCount \in UInt16
  PROVE  PcmDataSize(b) = 2 * b.sampleCount
<1>1. b.bitsPerSample \div 8 = 2
  OBVIOUS
<1>2. b.sampleCount * b.channels = b.sampleCount
  BY DEF UInt16
<1>3. PcmDataSize(b) = b.sampleCount * 2
  BY <1>1, <1>2 DEF PcmDataSize
<1> QED BY <1>3 DEF UInt16

(* A SpkPCM that handleSpkPCM plays has exactly the samples it counts in   *)
(* its payload, so the pointer it passes on is read within the packet, and *)
(* no more than g_stereoBuffer holds (app.cpp:356-378).                    *)
THEOREM SpkPCMWithinPacket ==
  ASSUME NEW p, Pcm(p), SpkPCMVerdict(p) = "accepted"
  PROVE  /\ AudioPCMBody + 2 * p.sampleCount = p.payloadSize
         /\ p.sampleCount \in 1..960
         /\ kHeaderSize + p.payloadSize < RxBufferSize
<1>1. /\ p.channels = 1 /\ p.bitsPerSample = 16
      /\ p.payloadSize = AudioPCMBody + PcmDataSize(p) /\ p.sampleCount \in 1..960
  BY DEF SpkPCMVerdict
<1>2. PcmDataSize(p) = 2 * p.sampleCount
  BY <1>1, PcmBytes DEF Pcm
<1>3. p.payloadSize \in Nat /\ p.payloadSize <= kMaxPayload
  BY DEF Pcm, Audio
<1>4. kHeaderSize + p.payloadSize < RxBufferSize
  BY <1>3 DEF kHeaderSize, kMaxPayload, RxBufferSize
<1> QED BY <1>1, <1>2, <1>4

(* A SpkComp that handleSpkComp decodes has at least one encoded byte, and *)
(* all of them in its payload (app.cpp:402-427).                           *)
THEOREM SpkCompWithinPacket ==
  ASSUME NEW p, Comp(p), SpkCompVerdict(p) = "accepted"
  PROVE  AudioCompBody + p.encodedSize = p.payloadSize /\ p.encodedSize > 0
<1>1. p.payloadSize = AudioCompBody + p.encodedSize /\ p.encodedSize # 0
  BY DEF SpkCompVerdict
<1>2. p.encodedSize \in Nat
  BY DEF Comp, UInt16
<1> QED BY <1>1, <1>2

(* The timings of an IrTransmit that handleIrTransmit copies are all in    *)
(* its payload and fit its array of 512 (app.cpp:308-334).                 *)
THEOREM IrTransmitWithinPacket ==
  ASSUME NEW p, Ir(p), IrTransmitVerdict(p) = "accepted"
  PROVE  IrTransmitBody + 2 * p.length = p.payloadSize /\ p.length \in 1..512
BY DEF IrTransmitVerdict, IrRawDataSize, IrTransmitBody

---------------------------------------------------------------------------
(* What the backend builds is what the firmware accepts.                   *)

(* Whatever frame length --frame-ms or the WAV file gives, a SpkPCM that   *)
(* the backend builds at 16000 Hz is played (backend:274-300).             *)
THEOREM HostPCMAccepted ==
  ASSUME NEW n \in Nat, HostBuildsPCM(n)
  PROVE  SpkPCMVerdict(HostPCM(n, 16000)) = "accepted"
<1> DEFINE p == HostPCM(n, 16000)
<1>1. /\ p.payloadSize = AudioPCMBody + 2 * n /\ p.sampleRate = 16000
      /\ p.channels = 1 /\ p.bitsPerSample = 16 /\ p.sampleCount = n
  BY DEF HostPCM
<1>2. n \in 1..960 /\ n \in UInt16
  BY DEF HostBuildsPCM, UInt16
<1>3. PcmDataSize(p) = 2 * n
  <2> HIDE DEF p
  <2> QED BY <1>1, <1>2, PcmBytes
<1> HIDE DEF p
<1>4. SpkPCMVerdict(p) = "accepted"
  BY <1>1, <1>2, <1>3 DEF SpkPCMVerdict, AudioPCMBody
<1> QED BY <1>4 DEF p

(* A SpkComp that the backend builds at 16000 Hz is passed to the decoder, *)
(* whatever the length of the .opusframe file (backend:366-388).           *)
THEOREM HostCompAccepted ==
  ASSUME NEW n \in Nat, HostBuildsComp(n)
  PROVE  SpkCompVerdict(HostComp(n, 16000)) = "accepted"
BY DEF HostBuildsComp, HostComp, SpkCompVerdict, AudioCompBody, kMaxPayload

(* An IrTransmit that the backend builds is sent, and none is too large.   *)
THEOREM HostIrAccepted ==
  ASSUME NEW n \in Nat, NEW hz, NEW repeat, HostBuildsIr(n)
  PROVE  /\ IrTransmitVerdict(HostIr(n, hz, repeat)) = "accepted"
         /\ HostIr(n, hz, repeat).payloadSize <= kMaxPayload
BY DEF HostBuildsIr, HostIr, IrTransmitVerdict, IrRawDataSize, IrTransmitBody, kMaxPayload

---------------------------------------------------------------------------
(* What the firmware builds.                                               *)

(* The builders write what their callers pass them, refusing none of it:   *)
(* frames of 320 samples, 1 to OPUS_MAX_ENCODED_BYTES encoded bytes, every *)
(* capture of irReceiveRaw that has a mark in it, and a reading.  No such  *)
(* packet exceeds what the backend reads (wsp_packet.cpp:102-243).         *)
THEOREM DataPacketsFit ==
  /\ MicPCMPacket(320) = 664
  /\ \A n \in 1..512 : MicCompPacket(n) \in 26..537
  /\ \A rawlen \in UInt16 \ {0, 1} : IrReceivePacket(IrCaptured(rawlen)) \in 22..1044
  /\ SensorPacket = 24
<1>1. MicPCMPacket(320) = 664
  <2> DEFINE b == [sampleCount |-> 320, channels |-> 1, bitsPerSample |-> 16]
  <2>1. PcmDataSize(b) = 640
    <3>1. b.channels = 1 /\ b.bitsPerSample = 16 /\ b.sampleCount = 320 /\ 320 \in UInt16
      BY DEF UInt16
    <3> HIDE DEF b
    <3> QED BY <3>1, PcmBytes
  <2>2. MicPCMPacket(320) = DataPacket(AudioPCMBody, PcmDataSize(b), 640)
    BY DEF MicPCMPacket
  <2> QED BY <2>1, <2>2 DEF DataPacket, AudioPCMBody, kHeaderSize, kMaxPayload
<1>2. ASSUME NEW n \in 1..512 PROVE MicCompPacket(n) \in 26..537
  BY DEF MicCompPacket, DataPacket, AudioCompBody, kHeaderSize, kMaxPayload
<1>3. ASSUME NEW rawlen \in UInt16 \ {0, 1}
      PROVE  IrReceivePacket(IrCaptured(rawlen)) \in 22..1044
  <2>1. IrCaptured(rawlen) \in 1..512
    BY DEF IrCaptured, Smaller, UInt16
  <2> QED BY <2>1 DEF IrReceivePacket, IrRawDataSize, DataPacket, IrReceiveBody,
                      kHeaderSize, kMaxPayload
<1>4. SensorPacket = 24
  BY DEF SensorPacket, SensorBody, kHeaderSize
<1> QED BY <1>1, <1>2, <1>3, <1>4

(* Whatever Opus answers, a frame that opusEncodeFrame lets through fits a *)
(* MicComp packet, and one that opusDecodeFrame lets through is what the   *)
(* speaker takes and its buffer holds (app.cpp:573-585, 427-433).          *)
THEOREM OpusFramesFit ==
  ASSUME NEW n \in Int
  PROVE  /\ EncodedSize(n) # Refused => MicCompPacket(EncodedSize(n)) # Refused
         /\ DecodedSamples(n) # Refused => /\ SpeakerTakes(DecodedSamples(n))
                                          /\ 2 * DecodedSamples(n) <= StereoSlots
BY DEF EncodedSize, DecodedSamples, OpusFrame, MicCompPacket, DataPacket, AudioCompBody,
       kHeaderSize, kMaxPayload, Refused, SpeakerTakes, StereoSlots

(* No Error is refused for the length of its message, and neither Ack nor  *)
(* Heartbeat is (wsp_packet.cpp:32-100).                                   *)
THEOREM RepliesFit ==
  /\ \A msgLen \in Nat : ErrorPacket(msgLen) \in 24..120
  /\ ControlPacket(AckBody) = 24
  /\ ControlPacket(0) = kHeaderSize
BY DEF ErrorPacket, ControlPacket, Smaller, ErrorBody, AckBody, Refused, kHeaderSize, kMaxPayload

---------------------------------------------------------------------------
(* The infrared sender.                                                    *)

(* wave_station.h:206 promises repeat + 1 transmissions: so it is for      *)
(* every repeat but the largest, for which there is none (irSendRaw).      *)
THEOREM Repetitions ==
  /\ \A repeat \in UInt16 \ {65535} : SendCount(repeat) = repeat + 1
  /\ SendCount(65535) = 0
<1>1. ASSUME NEW repeat \in UInt16 \ {65535} PROVE SendCount(repeat) = repeat + 1
  <2>1. repeat + 1 \in Nat /\ repeat + 1 < 65536
    BY DEF UInt16
  <2> QED BY <2>1 DEF SendCount
<1>2. SendCount(65535) = 0
  BY DEF SendCount
<1> QED BY <1>1, <1>2

(* irSendRaw always sends with some carrier: what does not make a whole    *)
(* kilohertz, and what wraps to none, is sent with 38 kHz.                 *)
THEOREM CarrierIsSome ==
  ASSUME NEW hz \in Nat
  PROVE  CarrierKHz(hz) \in UInt16 \ {0}
BY DEF CarrierKHz, UInt16
=============================================================================
