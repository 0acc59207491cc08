----------------------------- MODULE WspFormat -----------------------------
(***************************************************************************)
(* Sizes: what a packet of each kind takes (wave_station.h), which packets *)
(* the firmware's builders refuse to build (wsp_packet.cpp), which the     *)
(* backend refuses to build, and which the firmware's handlers refuse to   *)
(* act on (app.cpp).  The limits are written down in three files and two   *)
(* languages; WspFormatProofs shows that they fit together.                *)
(***************************************************************************)
EXTENDS Integers

kHeaderSize == 16
kMaxPayload == 4096
RxBufferSize == 8192

(* Packed structs, field by field. *)
HeaderFields == 4 + 1 + 1 + 2 + 4 + 4
AckBody == 4 + 1 + 3
ErrorBody == 4 + 4
AudioPCMBody == 4 + 1 + 1 + 2
AudioCompBody == 1 + 4 + 1 + 1 + 2
IrReceiveBody == 2 + 1 + 1
IrTransmitBody == 2 + 4 + 2
SensorBody == 1 + 1 + 2 + 4

UInt16 == {n \in Nat : n <= 65535}

PcmDataSize(b) == b.sampleCount * b.channels * (b.bitsPerSample \div 8)
IrRawDataSize(length) == 2 * length

Smaller(m, n) == IF m < n THEN m ELSE n

---------------------------------------------------------------------------
(* The firmware's builders: the size of the packet they write, or Refused. *)

Refused == 0

(* sendControl's packet array holds 128 bytes of payload. *)
ControlPacket(payload) ==
  IF payload > kMaxPayload \/ payload > 128 THEN Refused ELSE kHeaderSize + payload

ErrorPacket(msgLen) == ControlPacket(ErrorBody + Smaller(msgLen, 96))

(* A data builder writes body and tail into an array with room for so much *)
(* tail.                                                                   *)
DataPacket(body, tail, room) ==
  IF tail = 0 \/ body + tail > kMaxPayload \/ tail > room
  THEN Refused ELSE kHeaderSize + body + tail

MicPCMPacket(samples) ==
  DataPacket(AudioPCMBody,
             PcmDataSize([sampleCount |-> samples, channels |-> 1, bitsPerSample |-> 16]), 640)
MicCompPacket(encodedSize) == DataPacket(AudioCompBody, encodedSize, 512)
IrReceivePacket(length) == DataPacket(IrReceiveBody, IrRawDataSize(length), 1024)
SensorPacket == kHeaderSize + SensorBody

(* irReceiveRaw: the marks and spaces of a capture, without the leading    *)
(* gap, as many as an IrCapture holds.                                     *)
IrCaptured(rawlen) == IF rawlen <= 1 THEN 0 ELSE Smaller(rawlen - 1, 512)

(* opusEncodeFrame and opusDecodeFrame: what they make of the library's    *)
(* answer, a size or an error below 0, for a buffer of so much room.       *)
OpusFrame(n, capacity) == IF n \in 1..capacity THEN n ELSE Refused
EncodedSize(n) == OpusFrame(n, 512)
DecodedSamples(n) == OpusFrame(n, 960)

(* speakerPlayPCM16Mono copies every sample into both slots of a buffer.   *)
StereoSlots == 960 * 2
SpeakerTakes(samples) == samples # 0 /\ samples <= 960

---------------------------------------------------------------------------
(* The handlers: what becomes of a packet with this payloadSize and these  *)
(* fields in its body.                                                     *)

SpkPCMVerdict(p) ==
  IF p.payloadSize < AudioPCMBody THEN "InvalidPayload"
  ELSE IF p.sampleRate # 16000 \/ p.channels # 1 \/ p.bitsPerSample # 16 THEN "Unsupported"
  ELSE IF p.payloadSize = AudioPCMBody + PcmDataSize(p) /\ p.sampleCount \in 1..960
  THEN "accepted"
  ELSE "InvalidPayload"

SpkCompVerdict(p) ==
  IF p.payloadSize < AudioCompBody THEN "InvalidPayload"
  ELSE IF p.codec # 1 \/ p.sampleRate # 16000 \/ p.channels # 1 THEN "Unsupported"
  ELSE IF p.payloadSize = AudioCompBody + p.encodedSize /\ p.encodedSize # 0
  THEN "accepted"
  ELSE "InvalidPayload"

IrTransmitVerdict(p) ==
  IF /\ p.payloadSize >= IrTransmitBody
     /\ p.payloadSize = IrTransmitBody + IrRawDataSize(p.length)
     /\ p.length \in 1..512
  THEN "accepted" ELSE "InvalidPayload"

(* irSendRaw: the carrier in kHz, and a 16-bit count of repetitions.       *)
CarrierKHz(hz) == IF (hz \div 1000) % 65536 = 0 THEN 38 ELSE (hz \div 1000) % 65536
SendCount(repeat) == (repeat + 1) % 65536

---------------------------------------------------------------------------
(* The backend's builders: whether they build it, and what they build.     *)

HostBuildsPCM(samples) == samples \in 1..960 /\ AudioPCMBody + 2 * samples <= kMaxPayload
HostPCM(samples, rate) ==
  [payloadSize |-> AudioPCMBody + 2 * samples, sampleRate |-> rate, channels |-> 1,
   bitsPerSample |-> 16, sampleCount |-> samples]

HostBuildsComp(size) == size > 0 /\ AudioCompBody + size <= kMaxPayload
HostComp(size, rate) ==
  [payloadSize |-> AudioCompBody + size, codec |-> 1, sampleRate |-> rate, channels |-> 1,
   encodedSize |-> size]

HostBuildsIr(length) == length \in 1..512
HostIr(length, hz, repeat) ==
  [payloadSize |-> IrTransmitBody + 2 * length, length |-> length, carrierHz |-> hz,
   repeat |-> repeat]
=============================================================================
