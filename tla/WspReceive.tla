---------------------------- MODULE WspReceive ----------------------------
(***************************************************************************)
(* The receive path of the firmware, byte by byte: pollTcpReceive fills    *)
(* rxBuffer from the socket, processRxBuffer cuts packets out of it        *)
(* (esp32/app.cpp).  The module keeps the buffer arithmetic and the early  *)
(* returns; what a handler does with a packet is the module Station.       *)
(*                                                                         *)
(* A byte is a pair <<n, i>>: byte i of the n-th packet the peer wrote on  *)
(* this connection.  A TCP segment is a prefix of what is in flight, of    *)
(* any length, so "available() is 0" is a choice the network makes.        *)
(***************************************************************************)
EXTENDS Integers, Sequences

CONSTANTS
  kHeaderSize,       \* 16 in the code
  kMaxPayload,       \* 4096
  RX_BUFFER_SIZE,    \* 8192
  Payloads,          \* payload sizes a peer writes, too large ones included
  MaxSent,           \* bound: packets per connection
  MaxSessions        \* bound: connections

ASSUME SizesAssumption ==
  /\ kHeaderSize \in Nat \ {0}
  /\ kMaxPayload \in Nat
  /\ RX_BUFFER_SIZE \in Nat
  /\ kHeaderSize + kMaxPayload < RX_BUFFER_SIZE
  /\ Payloads \subseteq Nat

VARIABLES
  conn,              \* "open"; "lost": connected() is false; "stopped": closed here
  sessions,          \* connections accepted so far
  sent,              \* packets the peer wrote on this connection
  net,               \* bytes written and not yet read by the station
  rxBuffer,          \* the first rxSize bytes of rxBuffer; rxSize = Len(rxBuffer)
  pc,                \* where the loop is: "poll", "read", "parse", "consume"
  totalSize,         \* processRxBuffer's local, set before dispatchPacket
  dispatched         \* the bytes handed to dispatchPacket, packet by packet

vars == <<conn, sessions, sent, net, rxBuffer, pc, totalSize, dispatched>>
peerVars == <<conn, sessions, sent, net>>

(* A packet as its header announces it: magic and version right or not,    *)
(* and payloadSize.                                                        *)
Packet == [valid : BOOLEAN, payloadSize : Payloads]

Size(p) == kHeaderSize + p.payloadSize
Bytes(n, p) == [i \in 1..Size(p) |-> <<n, i>>]

(* memcpy of the first kHeaderSize bytes.  Bytes that are not the header   *)
(* of one packet do not carry the magic number.                            *)
Header(buf) ==
  LET n == buf[1][1] IN
  IF /\ n \in 1..Len(sent)
     /\ \A i \in 1..kHeaderSize : buf[i] = <<n, i>>
  THEN sent[n]
  ELSE [valid |-> FALSE, payloadSize |-> 0]

(* Broken variant: the payload limit is not checked. *)
HeaderAcceptedAnySize(hdr) == hdr.valid

HeaderAccepted(hdr) == hdr.valid /\ hdr.payloadSize <= kMaxPayload

(* Broken variant: `rxSize <= totalSize` waits for one byte too many. *)
IncompleteOffByOne(buf) ==
  Len(buf) >= kHeaderSize =>
    HeaderAccepted(Header(buf)) /\ Len(buf) <= Size(Header(buf))

(* processRxBuffer can do nothing with the buffer before more bytes come. *)
Incomplete(buf) ==
  Len(buf) >= kHeaderSize =>
    HeaderAccepted(Header(buf)) /\ Len(buf) < Size(Header(buf))

---------------------------------------------------------------------------
Init == /\ conn = "stopped"
        /\ sessions = 0
        /\ sent = << >>
        /\ net = << >>
        /\ rxBuffer = << >>
        /\ pc = "poll"
        /\ totalSize = 0
        /\ dispatched = << >>

(* Broken variant: the reset forgets rxSize. *)
KeepRx == UNCHANGED rxBuffer

(* resetSessionState, as far as the receive path is concerned. *)
ResetRx == rxBuffer' = << >>

(* disconnectClient: the socket goes, and with it what it still held. *)
Disconnect == /\ conn' = "stopped"
              /\ net' = << >>
              /\ ResetRx
              /\ pc' = "poll"
              /\ UNCHANGED <<sessions, sent, totalSize, dispatched>>

(* appLoop takes the next client of the listening socket. *)
Accept == /\ pc = "poll"
          /\ conn # "open"
          /\ sessions < MaxSessions
          /\ conn' = "open"
          /\ sessions' = sessions + 1
          /\ ResetRx
          /\ sent' = << >>
          /\ net' = << >>
          /\ dispatched' = << >>
          /\ UNCHANGED <<pc, totalSize>>

(* No client is waiting: appLoop comes round again. *)
Idle == pc = "poll" /\ conn # "open" /\ UNCHANGED vars

(* The peer writes one packet: send_all in the host puts all its bytes in. *)
PeerSend == /\ conn = "open"
            /\ Len(sent) < MaxSent
            /\ \E p \in Packet :
                 /\ sent' = Append(sent, p)
                 /\ net' = net \o Bytes(Len(sent) + 1, p)
            /\ UNCHANGED <<conn, sessions, rxBuffer, pc, totalSize, dispatched>>

(* From here on connected() is false; unread bytes are never read. *)
PeerLost == /\ conn = "open"
            /\ conn' = "lost"
            /\ net' = << >>
            /\ UNCHANGED <<sessions, sent, rxBuffer, pc, totalSize, dispatched>>

(* A write of pollIrReceive, pollSensors or pollMic fails, because it       *)
(* timed out or the connection was lost under it: disconnectClient.        *)
SendFailed == pc = "poll" /\ conn # "stopped" /\ Disconnect

PollStart == /\ pc = "poll"
             /\ conn = "open"
             /\ pc' = "read"
             /\ UNCHANGED <<peerVars, rxBuffer, totalSize, dispatched>>

(* Broken variant: the read is not limited to the free space. *)
ReadUnbounded == /\ pc = "read"
                 /\ conn = "open"
                 /\ \E n \in 1..Len(net) :
                      /\ rxBuffer' = rxBuffer \o SubSeq(net, 1, n)
                      /\ net' = SubSeq(net, n + 1, Len(net))
                 /\ UNCHANGED <<conn, sessions, sent, pc, totalSize, dispatched>>

(* One turn of the while loop: read what has arrived, at most what fits. *)
Read == /\ pc = "read"
        /\ conn = "open"
        /\ \E n \in 1..Len(net) :
             /\ n <= RX_BUFFER_SIZE - Len(rxBuffer)
             /\ rxBuffer' = rxBuffer \o SubSeq(net, 1, n)
             /\ net' = SubSeq(net, n + 1, Len(net))
        /\ UNCHANGED <<conn, sessions, sent, pc, totalSize, dispatched>>

Overflow == /\ pc = "read"
            /\ conn = "open"
            /\ net # << >>
            /\ Len(rxBuffer) = RX_BUFFER_SIZE
            /\ Disconnect

(* available() is 0: nothing more has arrived, or the connection is gone. *)
ReadDone == /\ pc = "read"
            /\ pc' = "parse"
            /\ UNCHANGED <<peerVars, rxBuffer, totalSize, dispatched>>

(* processRxBuffer leaves its loop: no whole header, or no whole packet. *)
ParseWait == /\ pc = "parse"
             /\ Incomplete(rxBuffer)
             /\ pc' = "poll"
             /\ UNCHANGED <<peerVars, rxBuffer, totalSize, dispatched>>

(* Bad magic, bad version or payload too large. *)
ParseReject == /\ pc = "parse"
               /\ Len(rxBuffer) >= kHeaderSize
               /\ ~HeaderAccepted(Header(rxBuffer))
               /\ Disconnect

(* Broken variant: a handler whose reply fails calls disconnectClient. *)
AfterDispatchResets(buf, replied) == IF replied THEN buf ELSE << >>

(* What dispatchPacket leaves of the receive buffer: no handler            *)
(* disconnects, whether its reply goes out or not.                         *)
AfterDispatch(buf, replied) == buf

Dispatch == /\ pc = "parse"
            /\ Len(rxBuffer) >= kHeaderSize
            /\ ~Incomplete(rxBuffer)
            /\ HeaderAccepted(Header(rxBuffer))
            /\ totalSize' = Size(Header(rxBuffer))
            /\ dispatched' = Append(dispatched, SubSeq(rxBuffer, 1, totalSize'))
            /\ \E replied \in BOOLEAN :
                 rxBuffer' = AfterDispatch(rxBuffer, replied)
            /\ pc' = "consume"
            /\ UNCHANGED peerVars

(* Broken variant: rxSize shrinks and the bytes are not moved. *)
ConsumeWithoutMove ==
  /\ pc = "consume"
  /\ rxBuffer' = SubSeq(rxBuffer, 1, Len(rxBuffer) - totalSize)
  /\ pc' = "parse"
  /\ UNCHANGED <<peerVars, totalSize, dispatched>>

(* memmove of the remaining rxSize - totalSize bytes to the front. *)
Consume == /\ pc = "consume"
           /\ rxBuffer' = SubSeq(rxBuffer, totalSize + 1, Len(rxBuffer))
           /\ pc' = "parse"
           /\ UNCHANGED <<peerVars, totalSize, dispatched>>

Device == \/ PollStart \/ Read \/ Overflow \/ ReadDone
          \/ ParseWait \/ ParseReject \/ Dispatch \/ Consume

Next == Device \/ Accept \/ Idle \/ PeerSend \/ PeerLost \/ SendFailed

(* The loop task always takes its next step, and TCP does not withhold     *)
(* bytes for ever from a station that keeps polling.                       *)
Fairness == WF_vars(Device) /\ SF_vars(Read)

Spec == Init /\ [][Next]_vars /\ Fairness

---------------------------------------------------------------------------
Byte == Nat \X Nat

(* Every variable keeps its type; rxSize never passes RX_BUFFER_SIZE, so   *)
(* client.read never writes behind rxBuffer.                               *)
TypeOK == /\ conn \in {"open", "lost", "stopped"}
          /\ sessions \in Nat
          /\ sent \in Seq(Packet)
          /\ net \in Seq(Byte)
          /\ rxBuffer \in Seq(Byte)
          /\ Len(rxBuffer) <= RX_BUFFER_SIZE
          /\ pc \in {"poll", "read", "parse", "consume"}
          /\ totalSize \in Nat
          /\ dispatched \in Seq(Seq(Byte))

(* `rxSize - totalSize` in processRxBuffer subtracts a size read before    *)
(* dispatchPacket from a global read after it: it never goes below zero,   *)
(* because no handler resets the session.                                  *)
NoUnderflow == pc = "consume" => totalSize <= Len(rxBuffer)

(* Outside pollTcpReceive the buffer holds less than one maximal packet,   *)
(* so the packet being received always fits and the parser cannot wedge.   *)
BoundedResidue == pc = "poll" => Len(rxBuffer) < kHeaderSize + kMaxPayload

(* The k-th packet acted on is, byte for byte, the k-th packet the peer    *)
(* wrote on this connection: nothing is skipped, repeated, torn, or left   *)
(* over from the connection before, for any segmentation.                  *)
Reassembly ==
  \A k \in 1..Len(dispatched) :
    k <= Len(sent) /\ dispatched[k] = Bytes(k, sent[k])

(* A peer is dropped for "rx buffer overflow" only when the full buffer    *)
(* holds something the parser could have taken out: never while the        *)
(* station is still waiting for the rest of one packet.                    *)
OverflowMeansBacklog == [][Overflow => ~Incomplete(rxBuffer)]_vars

(* A packet whose predecessors were all acceptable is acted on, or the     *)
(* connection ends.                                                        *)
Progress ==
  \A k \in 1..MaxSent :
    (/\ conn = "open"
     /\ Len(sent) >= k
     /\ \A j \in 1..k : HeaderAccepted(sent[j]))
      ~> (Len(dispatched) >= k \/ conn # "open")

(* The bytes acted on, read as packets; a garbled one is no packet. *)
Delivered ==
  [k \in 1..Len(dispatched) |->
     LET n == dispatched[k][1][1] IN
     IF n \in 1..Len(sent) /\ dispatched[k] = Bytes(n, sent[n])
     THEN sent[n] ELSE [valid |-> FALSE, payloadSize |-> 0]]

Channel == INSTANCE PacketChannel WITH link <- conn, delivered <- Delivered

(* The receive path implements an in-order, whole-packet channel. *)
ImplementsChannel == Channel!Spec
=============================================================================
