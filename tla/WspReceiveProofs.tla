-------------------------- MODULE WspReceiveProofs --------------------------
(***************************************************************************)
(* What holds of the receive path for every header size, payload limit,    *)
(* buffer size, number of packets and segmentation.                        *)
(***************************************************************************)
EXTENDS WspReceive, SequenceTheorems, TLAPS

Header0 == [valid : BOOLEAN, payloadSize : Nat]

LEMMA PacketSize ==
  ASSUME NEW p \in Packet
  PROVE  p.payloadSize \in Nat /\ Size(p) \in Nat /\ Size(p) >= kHeaderSize /\ Size(p) >= 1
<1>1. p.payloadSize \in Payloads
  BY DEF Packet
<1>2. p.payloadSize \in Nat /\ kHeaderSize \in Nat \ {0}
  BY <1>1, SizesAssumption
<1> QED BY <1>2 DEF Size

LEMMA BytesType ==
  ASSUME NEW n \in Nat, NEW p \in Packet
  PROVE  /\ Bytes(n, p) \in Seq(Byte)
         /\ Len(Bytes(n, p)) = Size(p)
         /\ \A i \in 1..Size(p) : Bytes(n, p)[i] = <<n, i>>
<1>1. Size(p) \in Nat
  BY PacketSize
<1>2. Bytes(n, p) \in [1..Size(p) -> Byte]
  BY <1>1 DEF Bytes, Byte
<1>3. Bytes(n, p) \in Seq(Byte)
  BY <1>1, <1>2
<1>4. Len(Bytes(n, p)) = Size(p)
  BY <1>1, <1>2, <1>3 DEF Bytes
<1> QED BY <1>3, <1>4 DEF Bytes

LEMMA HeaderType ==
  ASSUME TypeOK
  PROVE  Header(rxBuffer) \in Header0 /\ Size(Header(rxBuffer)) \in Nat
<1>1. \A n \in 1..Len(sent) : sent[n] \in Packet
  BY DEF TypeOK
<1>2. Header(rxBuffer) \in Packet \/ Header(rxBuffer) = [valid |-> FALSE, payloadSize |-> 0]
  BY <1>1 DEF Header
<1>3. Header(rxBuffer) \in Header0
  <2>1. Packet \subseteq Header0
    BY SizesAssumption DEF Packet, Header0
  <2>2. [valid |-> FALSE, payloadSize |-> 0] \in Header0
    BY DEF Header0
  <2> QED BY <1>2, <2>1, <2>2
<1> QED BY <1>3, SizesAssumption DEF Header0, Size

LEMMA DisconnectType ==
  ASSUME TypeOK, Disconnect
  PROVE  TypeOK'
BY SizesAssumption DEF TypeOK, Disconnect, ResetRx

LEMMA TypeStep ==
  ASSUME TypeOK, NoUnderflow, [Next]_vars
  PROVE  TypeOK'
<1> USE DEF peerVars
<1>1. CASE PollStart \/ ReadDone \/ ParseWait
  BY <1>1 DEF PollStart, ReadDone, ParseWait, TypeOK
<1>2. CASE Read
  <2>1. PICK n \in 1..Len(net) :
          /\ n <= RX_BUFFER_SIZE - Len(rxBuffer)
          /\ rxBuffer' = rxBuffer \o SubSeq(net, 1, n)
          /\ net' = SubSeq(net, n + 1, Len(net))
    BY <1>2 DEF Read
  <2>2. net \in Seq(Byte) /\ rxBuffer \in Seq(Byte) /\ RX_BUFFER_SIZE \in Nat
    BY SizesAssumption DEF TypeOK
  <2>3. SubSeq(net, 1, n) \in Seq(Byte) /\ Len(SubSeq(net, 1, n)) = n
    BY <2>2
  <2>4. rxBuffer' \in Seq(Byte) /\ Len(rxBuffer') <= RX_BUFFER_SIZE
    BY <2>1, <2>2, <2>3
  <2>5. net' \in Seq(Byte)
    BY <2>1, <2>2
  <2> QED BY <1>2, <2>4, <2>5 DEF Read, TypeOK
<1>3. CASE Overflow \/ ParseReject \/ SendFailed
  BY <1>3, DisconnectType DEF Overflow, ParseReject, SendFailed
<1>4. CASE Dispatch
  <2>1. totalSize' \in Nat /\ totalSize' <= Len(rxBuffer)
    BY <1>4, HeaderType, SizesAssumption DEF Dispatch, Incomplete, TypeOK
  <2>2. SubSeq(rxBuffer, 1, totalSize') \in Seq(Byte)
    BY <2>1 DEF TypeOK
  <2>3. dispatched' \in Seq(Seq(Byte))
    BY <1>4, <2>2 DEF Dispatch, TypeOK
  <2> QED BY <1>4, <2>1, <2>3 DEF Dispatch, AfterDispatch, TypeOK
<1>5. CASE Consume
  <2>1. rxBuffer \in Seq(Byte) /\ totalSize \in Nat /\ totalSize <= Len(rxBuffer)
    BY <1>5 DEF Consume, TypeOK, NoUnderflow
  <2>2. rxBuffer' = SubSeq(rxBuffer, totalSize + 1, Len(rxBuffer))
    BY <1>5 DEF Consume
  <2>3. rxBuffer' \in Seq(Byte) /\ Len(rxBuffer') <= Len(rxBuffer)
    BY <2>1, <2>2
  <2> QED BY <1>5, <2>3, SizesAssumption DEF Consume, TypeOK
<1>6. CASE Accept
  BY <1>6, SizesAssumption DEF Accept, ResetRx, TypeOK
<1>7. CASE PeerSend
  <2>1. PICK p \in Packet : /\ sent' = Append(sent, p)
                            /\ net' = net \o Bytes(Len(sent) + 1, p)
    BY <1>7 DEF PeerSend
  <2>2. sent \in Seq(Packet) /\ net \in Seq(Byte) /\ Len(sent) + 1 \in Nat
    BY DEF TypeOK
  <2>3. sent' \in Seq(Packet) /\ net' \in Seq(Byte)
    BY <2>1, <2>2, BytesType
  <2> QED BY <1>7, <2>3 DEF PeerSend, TypeOK
<1>8. CASE PeerLost
  BY <1>8 DEF PeerLost, TypeOK
<1>9. CASE Idle \/ UNCHANGED vars
  BY <1>9 DEF Idle, vars, TypeOK
<1> QED BY <1>1, <1>2, <1>3, <1>4, <1>5, <1>6, <1>7, <1>8, <1>9 DEF Next, Device

(* A packet is dispatched only when it is in the buffer as a whole, and    *)
(* nothing shrinks the buffer until it is taken out.                       *)
LEMMA NoUnderflowStep ==
  ASSUME TypeOK, NoUnderflow, [Next]_vars
  PROVE  NoUnderflow'
<1> SUFFICES ASSUME pc' = "consume" PROVE totalSize' <= Len(rxBuffer')
  BY DEF NoUnderflow
<1>1. CASE Dispatch
  BY <1>1, HeaderType, SizesAssumption DEF Dispatch, AfterDispatch, Incomplete, TypeOK
<1>2. CASE PeerSend \/ PeerLost \/ UNCHANGED vars
  BY <1>2 DEF PeerSend, PeerLost, vars, NoUnderflow
<1>3. CASE \/ PollStart \/ Read \/ Overflow \/ ReadDone \/ ParseWait \/ ParseReject
           \/ Consume \/ Accept \/ Idle \/ SendFailed
  <2>1. pc' # "consume"
    BY <1>3 DEF PollStart, Read, Overflow, ReadDone, ParseWait, ParseReject, Consume,
       Accept, Idle, SendFailed, Disconnect, vars
  <2> QED BY <2>1
<1> QED BY <1>1, <1>2, <1>3 DEF Next, Device

(* rxBuffer is never written behind its end. *)
THEOREM TypeCorrect == Spec => []TypeOK
<1>1. Init => TypeOK /\ NoUnderflow
  BY SizesAssumption DEF Init, TypeOK, NoUnderflow
<1>2. TypeOK /\ NoUnderflow /\ [Next]_vars => TypeOK' /\ NoUnderflow'
  BY TypeStep, NoUnderflowStep
<1> QED BY <1>1, <1>2, PTL DEF Spec

(* `rxSize - totalSize` never goes below zero. *)
THEOREM ConsumeNeverUnderflows == Spec => []NoUnderflow
<1>1. Init => TypeOK /\ NoUnderflow
  BY SizesAssumption DEF Init, TypeOK, NoUnderflow
<1>2. TypeOK /\ NoUnderflow /\ [Next]_vars => TypeOK' /\ NoUnderflow'
  BY TypeStep, NoUnderflowStep
<1> QED BY <1>1, <1>2, PTL DEF Spec

(* What the parser waits with is less than one maximal packet. *)
LEMMA IncompleteIsSmall ==
  ASSUME TypeOK, Incomplete(rxBuffer)
  PROVE  Len(rxBuffer) < kHeaderSize + kMaxPayload
BY HeaderType, SizesAssumption DEF Incomplete, HeaderAccepted, Header0, Size, TypeOK

LEMMA BoundedResidueStep ==
  ASSUME TypeOK, BoundedResidue, [Next]_vars
  PROVE  BoundedResidue'
<1> SUFFICES ASSUME pc' = "poll" PROVE Len(rxBuffer') < kHeaderSize + kMaxPayload
  BY DEF BoundedResidue
<1>1. CASE ParseWait
  BY <1>1, IncompleteIsSmall DEF ParseWait
<1>2. CASE Accept \/ Overflow \/ ParseReject \/ SendFailed
  BY <1>2, SizesAssumption DEF Accept, Overflow, ParseReject, SendFailed, Disconnect, ResetRx
<1>3. CASE PeerSend \/ PeerLost \/ Idle \/ UNCHANGED vars
  BY <1>3 DEF PeerSend, PeerLost, Idle, vars, BoundedResidue
<1>4. CASE PollStart \/ Read \/ ReadDone \/ Dispatch \/ Consume
  BY <1>4 DEF PollStart, Read, ReadDone, Dispatch, Consume
<1> QED BY <1>1, <1>2, <1>3, <1>4 DEF Next, Device

(* Between two polls the buffer has room for the rest of any packet. *)
THEOREM ResidueIsBounded == Spec => []BoundedResidue
<1>1. Init => TypeOK /\ NoUnderflow /\ BoundedResidue
  BY SizesAssumption DEF Init, TypeOK, NoUnderflow, BoundedResidue
<1>2. TypeOK /\ NoUnderflow /\ BoundedResidue /\ [Next]_vars
        => TypeOK' /\ NoUnderflow' /\ BoundedResidue'
  BY TypeStep, NoUnderflowStep, BoundedResidueStep
<1> QED BY <1>1, <1>2, PTL DEF Spec

(* A peer is never dropped for an overflow while the station waits for the *)
(* rest of one packet: that needs 16 + 4096 < 8192 and nothing else.       *)
THEOREM OverflowIsBacklog == Spec => OverflowMeansBacklog
<1>1. TypeOK /\ [Next]_vars => [Overflow => ~Incomplete(rxBuffer)]_vars
  <2> SUFFICES ASSUME TypeOK, Overflow, Incomplete(rxBuffer) PROVE FALSE
    OBVIOUS
  <2>1. Len(rxBuffer) = RX_BUFFER_SIZE
    BY DEF Overflow
  <2>2. Len(rxBuffer) < kHeaderSize + kMaxPayload
    BY IncompleteIsSmall
  <2> QED BY <2>1, <2>2, SizesAssumption
<1> QED BY <1>1, TypeCorrect, PTL DEF Spec, OverflowMeansBacklog

---------------------------------------------------------------------------
(* Reassembly: what is in rxBuffer and in flight is the rest of the byte   *)
(* stream, and st[n] is how far from its front packet n starts (negative   *)
(* once it is taken out).  No induction over the stream is needed, because *)
(* the positions of all packets are kept at once.                          *)

Total == Len(rxBuffer) + Len(net)
At(k) == IF k <= Len(rxBuffer) THEN rxBuffer[k] ELSE net[k - Len(rxBuffer)]

(* The packet at the front of rxBuffer. *)
AtFront == IF pc = "consume" THEN Len(dispatched) ELSE Len(dispatched) + 1

LayoutBy(st) ==
  /\ st \in [1..Len(sent) + 1 -> Int]
  /\ \A n \in 1..Len(sent) : st[n + 1] = st[n] + Size(sent[n])
  /\ \A n \in 1..Len(sent) + 1 : st[n] <= st[Len(sent) + 1]
  /\ AtFront \in 1..Len(sent) + 1
  /\ st[AtFront] = 0
  /\ \A n \in 1..Len(sent) : \A i \in 1..Size(sent[n]) :
       st[n] + i \in 1..Total => At(st[n] + i) = <<n, i>>
  /\ Total <= st[Len(sent) + 1]
  /\ conn = "open" => Total = st[Len(sent) + 1]

Layout == \E st : LayoutBy(st)

(* The local totalSize is still the size of the packet just dispatched. *)
Pending == pc = "consume" => /\ Len(dispatched) >= 1
                             /\ totalSize = Size(sent[Len(dispatched)])

StreamInv == TypeOK /\ NoUnderflow /\ Reassembly /\ Layout /\ Pending

(* Steps that add nothing to the stream and take nothing from its front.   *)
LEMMA LayoutKept ==
  ASSUME NEW st, LayoutBy(st), sent' = sent, AtFront' = AtFront,
         Total' \in Nat, Total \in Nat, Total' <= Total,
         \A k \in 1..Total' : At(k)' = At(k),
         conn' = "open" => conn = "open" /\ Total' = Total
  PROVE  LayoutBy(st)'
<1>1. ASSUME NEW n \in 1..Len(sent), NEW i \in 1..Size(sent[n]), st[n] + i \in 1..Total'
      PROVE  At(st[n] + i)' = <<n, i>>
  <2>1. st[n] + i \in 1..Total
    BY <1>1
  <2>2. At(st[n] + i) = <<n, i>>
    BY <1>1, <2>1 DEF LayoutBy
  <2>3. \A k \in 1..Total' : k = st[n] + i => At(k)' = <<n, i>>
    BY <2>2
  <2> QED BY <1>1, <2>3
<1>2. st[Len(sent) + 1] \in Int
  BY DEF LayoutBy
<1>3. Total' <= st[Len(sent) + 1]
  BY <1>2 DEF LayoutBy
<1> QED BY <1>1, <1>3 DEF LayoutBy, Size

(* The header that is accepted is that of the packet at the front. *)
LEMMA FrontHeader ==
  ASSUME TypeOK, NEW st, LayoutBy(st), pc = "parse",
         Len(rxBuffer) >= kHeaderSize, HeaderAccepted(Header(rxBuffer))
  PROVE  /\ AtFront = Len(dispatched) + 1
         /\ AtFront \in 1..Len(sent)
         /\ Header(rxBuffer) = sent[AtFront]
<1>1. AtFront = Len(dispatched) + 1
  BY DEF AtFront
<1>2. Len(rxBuffer) >= 1 /\ Len(rxBuffer) \in Nat /\ Total \in Nat /\ Total >= Len(rxBuffer)
  BY SizesAssumption DEF TypeOK, Total
<1>3. AtFront \in 1..Len(sent)
  <2>1. Total <= st[Len(sent) + 1] /\ st[AtFront] = 0 /\ Total >= 1
    BY <1>2 DEF LayoutBy
  <2>2. AtFront # Len(sent) + 1
    BY <1>2, <2>1
  <2>3. AtFront \in 1..Len(sent) + 1 /\ Len(sent) \in Nat
    BY DEF LayoutBy, TypeOK
  <2> QED BY <2>2, <2>3
<1>4. sent[AtFront] \in Packet
  BY <1>3 DEF TypeOK
<1>5. Size(sent[AtFront]) \in Nat /\ 1 \in 1..Size(sent[AtFront])
  BY <1>4, PacketSize
<1>6. At(1) = <<AtFront, 1>>
  <2>1. st[AtFront] + 1 = 1
    BY DEF LayoutBy
  <2>2. st[AtFront] + 1 \in 1..Total => At(st[AtFront] + 1) = <<AtFront, 1>>
    BY <1>3, <1>5 DEF LayoutBy
  <2> QED BY <1>2, <2>1, <2>2
<1>7. rxBuffer[1] = <<AtFront, 1>>
  BY <1>2, <1>6 DEF At
<1>8. Header(rxBuffer) = sent[AtFront]
  BY <1>3, <1>7 DEF Header, HeaderAccepted
<1> QED BY <1>1, <1>3, <1>8

(* Disconnecting leaves nothing of the stream. *)
LEMMA LayoutEmptied ==
  ASSUME NEW st, LayoutBy(st), Total \in Nat, sent' = sent, AtFront' = AtFront,
         rxBuffer' = << >>, net' = << >>, conn' # "open"
  PROVE  LayoutBy(st)'
<1>1. Total' = 0
  BY DEF Total
<1>2. \A k \in 1..Total' : At(k)' = At(k)
  BY <1>1
<1> QED BY <1>1, <1>2, LayoutKept

LEMMA LayoutAccept ==
  ASSUME Accept
  PROVE  Layout'
<1> DEFINE st == [n \in 1..1 |-> 0]
<1>1. /\ sent' = << >> /\ rxBuffer' = << >> /\ net' = << >> /\ dispatched' = << >>
      /\ pc' = "poll"
  BY DEF Accept, ResetRx
<1>2. Len(sent') = 0 /\ Total' = 0 /\ AtFront' = 1
  BY <1>1 DEF Total, AtFront
<1>3. LayoutBy(st)'
  BY <1>2 DEF LayoutBy
<1> QED BY <1>3 DEF Layout

(* Read moves bytes from the network to the buffer; the stream is the same. *)
LEMMA LayoutRead ==
  ASSUME TypeOK, NEW st, LayoutBy(st), Read
  PROVE  LayoutBy(st)'
<1>1. PICK n \in 1..Len(net) :
        /\ n <= RX_BUFFER_SIZE - Len(rxBuffer)
        /\ rxBuffer' = rxBuffer \o SubSeq(net, 1, n)
        /\ net' = SubSeq(net, n + 1, Len(net))
  BY DEF Read
<1>2. rxBuffer \in Seq(Byte) /\ net \in Seq(Byte)
  BY DEF TypeOK
<1>3. Len(rxBuffer') = Len(rxBuffer) + n /\ Len(net') = Len(net) - n
  BY <1>1, <1>2
<1>4. Total' = Total /\ Total \in Nat
  BY <1>2, <1>3 DEF Total
<1>5. ASSUME NEW k \in 1..Total
      PROVE  At(k)' = At(k)
  <2>1. CASE k <= Len(rxBuffer)
    <3>1. rxBuffer'[k] = rxBuffer[k]
      BY <1>1, <1>2, <2>1
    <3> QED BY <1>2, <1>3, <2>1, <3>1 DEF At
  <2>2. CASE k > Len(rxBuffer) /\ k <= Len(rxBuffer) + n
    <3>1. rxBuffer'[k] = net[k - Len(rxBuffer)]
      BY <1>1, <1>2, <2>2
    <3> QED BY <1>2, <1>3, <2>2, <3>1 DEF At
  <2>3. CASE k > Len(rxBuffer) + n
    <3>1. k - (Len(rxBuffer) + n) \in 1..Len(net) - n
      BY <1>2, <2>3 DEF Total
    <3>2. net'[k - (Len(rxBuffer) + n)] = net[k - Len(rxBuffer)]
      BY <1>1, <1>2, <3>1
    <3> QED BY <1>2, <1>3, <2>3, <3>2 DEF At
  <2> QED BY <1>2, <2>1, <2>2, <2>3
<1>6. sent' = sent /\ AtFront' = AtFront /\ conn' = conn
  BY DEF Read, AtFront
<1> QED BY <1>4, <1>5, <1>6, LayoutKept

(* The peer writes one more packet behind all others. *)
LEMMA LayoutSend ==
  ASSUME TypeOK, NEW st, LayoutBy(st), PeerSend
  PROVE  Layout'
<1>1. PICK p \in Packet : /\ sent' = Append(sent, p)
                          /\ net' = net \o Bytes(Len(sent) + 1, p)
  BY DEF PeerSend
<1>0. PICK l \in Nat : l = Len(sent)
  BY DEF TypeOK
<1>s. PICK size \in Nat : size = Size(p) /\ size >= 1
  BY PacketSize
<1> DEFINE new == [n \in 1..l + 2 |-> IF n = l + 2 THEN st[l + 1] + size ELSE st[n]]
<1>2. /\ sent \in Seq(Packet) /\ net \in Seq(Byte) /\ rxBuffer \in Seq(Byte)
      /\ st \in [1..l + 1 -> Int]
  BY <1>0 DEF TypeOK, LayoutBy
<1>3. Len(sent') = l + 1 /\ sent'[l + 1] = p /\ \A n \in 1..l : sent'[n] = sent[n]
  BY <1>0, <1>1, <1>2
<1>4. /\ Bytes(l + 1, p) \in Seq(Byte) /\ Len(Bytes(l + 1, p)) = size
      /\ \A i \in 1..size : Bytes(l + 1, p)[i] = <<l + 1, i>>
  BY <1>s, BytesType
<1>5. conn = "open" /\ UNCHANGED <<conn, rxBuffer, pc, dispatched>>
  BY DEF PeerSend
<1>6. AtFront' = AtFront
  BY <1>5 DEF AtFront
<1>t. PICK total \in Nat : total = Total
  BY <1>2 DEF Total
<1>u. total = st[l + 1]
  BY <1>0, <1>5, <1>t DEF LayoutBy
<1>v. net' = net \o Bytes(l + 1, p)
  BY <1>0, <1>1
<1>w. Total' = total + size
  <2>1. Len(net') = Len(net) + size
    BY <1>2, <1>4, <1>v, ConcatProperties
  <2>4. Len(net) \in Nat /\ Len(rxBuffer) \in Nat
    BY <1>2
  <2>2. Total' = Len(rxBuffer) + Len(net')
    BY <1>5 DEF Total
  <2>3. total = Len(rxBuffer) + Len(net)
    BY <1>t DEF Total
  <2> QED BY <2>1, <2>2, <2>3, <2>4
<1>7. ASSUME NEW k \in 1..total
      PROVE  At(k)' = At(k)
  <2>1. CASE k <= Len(rxBuffer)
    BY <1>5, <2>1 DEF At
  <2>2. CASE k > Len(rxBuffer)
    <3>1. k - Len(rxBuffer) \in 1..Len(net)
      BY <1>2, <1>t, <2>2 DEF Total
    <3>2. net'[k - Len(rxBuffer)] = net[k - Len(rxBuffer)]
      BY <1>v, <1>2, <1>4, <3>1
    <3> QED BY <1>5, <1>2, <2>2, <3>2 DEF At
  <2> QED BY <1>2, <2>1, <2>2
<1>8. ASSUME NEW k \in Int, NEW i \in 1..size, k = total + i
      PROVE  At(k)' = <<l + 1, i>>
  <2>1. net'[Len(net) + i] = <<l + 1, i>>
    BY <1>v, <1>2, <1>4
  <2>2. k > Len(rxBuffer) /\ k - Len(rxBuffer) = Len(net) + i
    BY <1>2, <1>t, <1>8 DEF Total
  <2> QED BY <1>2, <1>5, <2>1, <2>2 DEF At
<1>9. new \in [1..l + 2 -> Int]
  <2>1. st[l + 1] + size \in Int
    BY <1>2
  <2>2. \A n \in 1..l + 2 : n # l + 2 => n \in 1..l + 1
    OBVIOUS
  <2> QED BY <1>2, <2>1, <2>2
<1>n. /\ new[l + 2] = st[l + 1] + size
      /\ \A n \in 1..l + 1 : new[n] = st[n]
  OBVIOUS
<1> HIDE DEF new
<1>10. \A n \in 1..l + 1 : new[n + 1] = new[n] + Size(sent'[n])
  <2> SUFFICES ASSUME NEW n \in 1..l + 1 PROVE new[n + 1] = new[n] + Size(sent'[n])
    OBVIOUS
  <2>1. CASE n = l + 1
    BY <1>s, <1>3, <1>n, <2>1
  <2>2. CASE n # l + 1
    <3>1. n \in 1..l /\ n + 1 \in 1..l + 1
      BY <2>2
    <3>2. st[n + 1] = st[n] + Size(sent[n])
      BY <1>0, <3>1 DEF LayoutBy
    <3> QED BY <1>3, <1>n, <3>1, <3>2
  <2> QED BY <2>1, <2>2
<1>11. \A n \in 1..l + 2 : new[n] <= new[l + 2]
  <2> SUFFICES ASSUME NEW n \in 1..l + 2 PROVE new[n] <= new[l + 2]
    OBVIOUS
  <2>1. CASE n = l + 2
    BY <1>9, <2>1
  <2>2. CASE n # l + 2
    <3>1. n \in 1..l + 1
      BY <2>2
    <3>2. st[n] <= st[l + 1]
      <4>1. \A m \in 1..Len(sent) + 1 : st[m] <= st[Len(sent) + 1]
        BY DEF LayoutBy
      <4> QED BY <1>0, <3>1, <4>1
    <3>3. st[n] \in Int /\ st[l + 1] \in Int
      BY <1>2, <3>1
    <3> QED BY <1>n, <3>1, <3>2, <3>3
  <2> QED BY <2>1, <2>2
<1>12. AtFront \in 1..l + 1 /\ new[AtFront] = 0
  BY <1>0, <1>n DEF LayoutBy
<1>13. ASSUME NEW n \in 1..l + 1, NEW i \in 1..Size(sent'[n]), new[n] + i \in 1..Total'
       PROVE  At(new[n] + i)' = <<n, i>>
  <2>1. CASE n = l + 1
    BY <1>2, <1>s, <1>3, <1>u, <1>n, <1>8, <1>13, <2>1
  <2>2. CASE n # l + 1
    <3>1. n \in 1..l /\ sent'[n] = sent[n] /\ new[n] = st[n] /\ sent[n] \in Packet
      BY <1>0, <1>2, <1>3, <1>n, <2>2
    <3>2. st[n + 1] = st[n] + Size(sent[n]) /\ st[n + 1] <= st[l + 1]
      BY <1>0, <1>2, <3>1 DEF LayoutBy
    <3>3. Size(sent[n]) \in Nat /\ st[n] \in Int /\ st[n + 1] \in Int /\ st[l + 1] \in Int
      BY <1>2, <3>1, PacketSize
    <3>4. st[n] + i \in 1..total
      BY <1>u, <1>w, <1>13, <3>1, <3>2, <3>3
    <3>5. PICK k \in 1..total : k = st[n] + i
      BY <3>4
    <3>6. At(k) = <<n, i>>
      BY <1>0, <1>13, <1>t, <3>1, <3>4, <3>5 DEF LayoutBy
    <3>7. At(k)' = <<n, i>>
      BY <1>7, <3>6
    <3> QED BY <3>1, <3>5, <3>7
  <2> QED BY <2>1, <2>2
<1>14. Total' = new[l + 2]
  BY <1>u, <1>w, <1>n
<1>15. new[l + 2] \in Int
  BY <1>9
<1>16. LayoutBy(new)'
  <2>1. Len(sent') + 1 = l + 2 /\ Len(sent') = l + 1
    BY <1>3
  <2> QED BY <1>6, <1>9, <1>10, <1>11, <1>12, <1>13, <1>14, <1>15, <2>1 DEF LayoutBy
<1> QED BY <1>16 DEF Layout

(* Consume shifts the stream, and every position with it. *)
LEMMA LayoutConsume ==
  ASSUME TypeOK, NoUnderflow, Reassembly, Pending, NEW st, LayoutBy(st), Consume
  PROVE  Layout'
<1>0. PICK l \in Nat : l = Len(sent)
  BY DEF TypeOK
<1>d. PICK d \in Nat : d = Len(dispatched)
  BY DEF TypeOK
<1>t. PICK size \in Nat : size = totalSize
  BY DEF TypeOK
<1> DEFINE new == [n \in 1..l + 1 |-> st[n] - size]
<1>1. /\ pc = "consume" /\ pc' = "parse"
      /\ rxBuffer' = SubSeq(rxBuffer, size + 1, Len(rxBuffer))
      /\ UNCHANGED <<conn, sent, net, dispatched>>
  BY <1>t DEF Consume, peerVars
<1>2. /\ rxBuffer \in Seq(Byte) /\ net \in Seq(Byte) /\ st \in [1..l + 1 -> Int]
      /\ size <= Len(rxBuffer) /\ sent \in Seq(Packet)
  BY <1>0, <1>1, <1>t DEF TypeOK, NoUnderflow, LayoutBy
<1>3. Len(rxBuffer') = Len(rxBuffer) - size
      /\ \A k \in 1..Len(rxBuffer) - size : rxBuffer'[k] = rxBuffer[k + size]
  BY <1>1, <1>2
<1>4. Total' = Total - size /\ Total \in Nat /\ Total' \in Nat
  <2>1. Len(rxBuffer) \in Nat /\ Len(net) \in Nat /\ net' = net
    BY <1>1, <1>2
  <2>2. Total' = Len(rxBuffer') + Len(net) /\ Total = Len(rxBuffer) + Len(net)
    BY <2>1 DEF Total
  <2> QED BY <1>2, <1>3, <2>1, <2>2
<1>5. ASSUME NEW k \in 1..Total'
      PROVE  At(k)' = At(k + size)
  <2>1. CASE k <= Len(rxBuffer) - size
    BY <1>2, <1>3, <2>1 DEF At
  <2>2. CASE k > Len(rxBuffer) - size
    <3>1. k - (Len(rxBuffer) - size) = (k + size) - Len(rxBuffer)
      BY <1>2
    <3> QED BY <1>1, <1>2, <1>3, <2>2, <3>1 DEF At
  <2> QED BY <1>2, <2>1, <2>2
<1>6. AtFront = d /\ AtFront' = d + 1 /\ d \in 1..l
  <2>1. AtFront = d /\ AtFront' = d + 1
    BY <1>1, <1>d DEF AtFront
  <2>2. d >= 1 /\ d <= l
    BY <1>0, <1>1, <1>d DEF Pending, Reassembly
  <2> QED BY <2>1, <2>2
<1>7. st[d] = 0 /\ st[d + 1] = size
  <2>1. st[d] = 0
    BY <1>6 DEF LayoutBy
  <2>2. st[d + 1] = st[d] + Size(sent[d])
    BY <1>0, <1>6 DEF LayoutBy
  <2>3. Size(sent[d]) = size
    BY <1>1, <1>d, <1>t DEF Pending
  <2> QED BY <2>1, <2>2, <2>3
<1>8. new \in [1..l + 1 -> Int] /\ \A n \in 1..l + 1 : new[n] = st[n] - size
  BY <1>2
<1> HIDE DEF new
<1>9. \A n \in 1..l : new[n + 1] = new[n] + Size(sent'[n])
  <2> SUFFICES ASSUME NEW n \in 1..l PROVE new[n + 1] = new[n] + Size(sent'[n])
    OBVIOUS
  <2>1. st[n + 1] = st[n] + Size(sent[n]) /\ sent[n] \in Packet
    BY <1>0, <1>2 DEF LayoutBy
  <2>2. st[n] \in Int /\ st[n + 1] \in Int /\ Size(sent[n]) \in Nat
    BY <1>2, <2>1, PacketSize
  <2>3. new[n + 1] = st[n + 1] - size /\ new[n] = st[n] - size
    BY <1>8
  <2> QED BY <1>1, <2>1, <2>2, <2>3
<1>10. \A n \in 1..l + 1 : new[n] <= new[l + 1]
  <2> SUFFICES ASSUME NEW n \in 1..l + 1 PROVE new[n] <= new[l + 1]
    OBVIOUS
  <2>1. \A m \in 1..Len(sent) + 1 : st[m] <= st[Len(sent) + 1]
    BY DEF LayoutBy
  <2>2. st[n] <= st[l + 1] /\ st[n] \in Int /\ st[l + 1] \in Int
    BY <1>0, <1>2, <2>1
  <2> QED BY <1>8, <2>2
<1>11. AtFront' \in 1..l + 1 /\ new[AtFront'] = 0
  BY <1>6, <1>7, <1>8
<1>12. ASSUME NEW n \in 1..l, NEW i \in 1..Size(sent'[n]), new[n] + i \in 1..Total'
       PROVE  At(new[n] + i)' = <<n, i>>
  <2>1. i \in 1..Size(sent[n])
    BY <1>1
  <2>2. PICK k \in 1..Total' : k = new[n] + i
    BY <1>12
  <2>3. sent[n] \in Packet
    BY <1>0, <1>2
  <2>4. st[n] \in Int /\ new[n] = st[n] - size /\ i \in Int
    BY <1>2, <1>8, <2>1, <2>3, PacketSize
  <2>5. st[n] + i = k + size /\ k + size \in 1..Total
    BY <1>4, <2>2, <2>4
  <2>6. At(k + size) = <<n, i>>
    BY <1>0, <2>1, <2>5 DEF LayoutBy
  <2>7. At(k)' = <<n, i>>
    BY <1>5, <2>6
  <2> QED BY <2>2, <2>7
<1>13. Total' <= new[l + 1] /\ (conn = "open" => Total' = new[l + 1])
  <2>1. Total <= st[l + 1] /\ (conn = "open" => Total = st[l + 1])
    BY <1>0 DEF LayoutBy
  <2>2. st[l + 1] \in Int /\ new[l + 1] = st[l + 1] - size
    BY <1>2, <1>8
  <2> QED BY <1>4, <2>1, <2>2
<1>14. LayoutBy(new)'
  <2>1. Len(sent') = l /\ conn' = conn
    BY <1>0, <1>1
  <2> QED BY <1>8, <1>9, <1>10, <1>11, <1>12, <1>13, <2>1 DEF LayoutBy
<1> QED BY <1>14 DEF Layout

(* What is dispatched is the packet at the front, byte for byte. *)
LEMMA DispatchWhole ==
  ASSUME TypeOK, NEW st, LayoutBy(st), Dispatch
  PROVE  LET n == Len(dispatched) + 1 IN
         /\ n \in 1..Len(sent)
         /\ totalSize' = Size(sent[n])
         /\ dispatched' = Append(dispatched, Bytes(n, sent[n]))
<1>0. PICK n \in Nat : n = Len(dispatched) + 1
  BY DEF TypeOK
<1>1. /\ AtFront = n /\ n \in 1..Len(sent) /\ Header(rxBuffer) = sent[n]
      /\ sent[n] \in Packet
  BY <1>0, FrontHeader DEF Dispatch, TypeOK
<1>2. PICK size \in Nat : size = Size(sent[n]) /\ size >= 1
  BY <1>1, PacketSize
<1>3. totalSize' = size /\ size <= Len(rxBuffer)
  <2>1. totalSize' = size
    BY <1>1, <1>2 DEF Dispatch
  <2>2. Len(rxBuffer) \in Nat
    BY DEF TypeOK
  <2>3. ~ (Len(rxBuffer) < size)
    BY <1>1, <1>2 DEF Dispatch, Incomplete
  <2> QED BY <2>1, <2>2, <2>3
<1>4. ASSUME NEW i \in 1..size
      PROVE  rxBuffer[i] = <<n, i>>
  <2>1. st[n] = 0
    BY <1>1 DEF LayoutBy
  <2>2. i \in 1..Total /\ i <= Len(rxBuffer)
    BY <1>3 DEF Total, TypeOK
  <2>3. st[n] + i \in 1..Total => At(st[n] + i) = <<n, i>>
    BY <1>1, <1>2 DEF LayoutBy
  <2>4. At(i) = <<n, i>>
    BY <2>1, <2>2, <2>3
  <2> QED BY <2>2, <2>4 DEF At
<1>5. SubSeq(rxBuffer, 1, size) = Bytes(n, sent[n])
  <2>1. /\ SubSeq(rxBuffer, 1, size) \in Seq(Byte)
        /\ Len(SubSeq(rxBuffer, 1, size)) = size
        /\ \A i \in 1..size : SubSeq(rxBuffer, 1, size)[i] = rxBuffer[i]
    BY <1>3 DEF TypeOK
  <2>2. /\ Bytes(n, sent[n]) \in Seq(Byte)
        /\ Len(Bytes(n, sent[n])) = size
        /\ \A i \in 1..size : Bytes(n, sent[n])[i] = <<n, i>>
    BY <1>1, <1>2, BytesType
  <2> QED BY <1>4, <2>1, <2>2, SeqEqual
<1>6. dispatched' = Append(dispatched, SubSeq(rxBuffer, 1, size))
  BY <1>3 DEF Dispatch
<1> QED BY <1>0, <1>1, <1>2, <1>3, <1>5, <1>6

LEMMA LayoutStep ==
  ASSUME StreamInv, [Next]_vars
  PROVE  Layout'
<1> USE DEF StreamInv
<1>0. PICK st : LayoutBy(st)
  BY DEF Layout
<1>1. Total \in Nat
  BY DEF Total, TypeOK
<1>2. ASSUME Disconnect, pc # "consume"
      PROVE  Layout'
  <2>1. sent' = sent /\ rxBuffer' = << >> /\ net' = << >> /\ conn' = "stopped"
        /\ pc' = "poll" /\ dispatched' = dispatched
    BY <1>2 DEF Disconnect, ResetRx
  <2>2. AtFront' = AtFront
    BY <1>2, <2>1 DEF AtFront
  <2> QED BY <1>0, <1>1, <2>1, <2>2, LayoutEmptied DEF Layout
<1>3. ASSUME UNCHANGED <<conn, sent, net, rxBuffer, dispatched>>,
             (pc = "consume") <=> (pc' = "consume")
      PROVE  Layout'
  <2>1. Total' = Total /\ AtFront' = AtFront /\ \A k \in 1..Total' : At(k)' = At(k)
    BY <1>3 DEF Total, AtFront, At
  <2> QED BY <1>0, <1>1, <1>3, <2>1, LayoutKept DEF Layout
<1>4. CASE PollStart \/ ReadDone \/ ParseWait \/ Idle \/ UNCHANGED vars
  BY <1>3, <1>4 DEF PollStart, ReadDone, ParseWait, Idle, peerVars, vars
<1>5. CASE Overflow \/ ParseReject \/ SendFailed
  BY <1>2, <1>5 DEF Overflow, ParseReject, SendFailed
<1>6. CASE Accept
  BY <1>6, LayoutAccept
<1>7. CASE Read
  BY <1>0, <1>7, LayoutRead DEF Layout
<1>8. CASE PeerSend
  BY <1>0, <1>8, LayoutSend
<1>9. CASE Consume
  BY <1>0, <1>9, LayoutConsume
<1>10. CASE Dispatch
  <2>1. UNCHANGED <<conn, sent, net, rxBuffer>> /\ pc = "parse" /\ pc' = "consume"
    BY <1>10 DEF Dispatch, AfterDispatch, peerVars
  <2>2. Len(dispatched') = Len(dispatched) + 1
    BY <1>10 DEF Dispatch, TypeOK
  <2>3. Total' = Total /\ AtFront' = AtFront /\ \A k \in 1..Total' : At(k)' = At(k)
    BY <2>1, <2>2 DEF Total, AtFront, At
  <2> QED BY <1>0, <1>1, <2>1, <2>3, LayoutKept DEF Layout
<1>11. CASE PeerLost
  <2>1. /\ net' = << >> /\ conn' = "lost"
        /\ UNCHANGED <<sent, rxBuffer, pc, dispatched>>
    BY <1>11 DEF PeerLost
  <2>2. Total' = Len(rxBuffer) /\ Len(rxBuffer) \in Nat /\ Len(net) \in Nat
    BY <2>1 DEF Total, TypeOK
  <2>3. Total' \in Nat /\ Total' <= Total
    BY <2>2 DEF Total
  <2>4. \A k \in 1..Total' : At(k)' = At(k)
    BY <2>1, <2>2 DEF At
  <2>5. AtFront' = AtFront
    BY <2>1 DEF AtFront
  <2> QED BY <1>0, <1>1, <2>1, <2>3, <2>4, <2>5, LayoutKept DEF Layout
<1> QED
  BY <1>4, <1>5, <1>6, <1>7, <1>8, <1>9, <1>10, <1>11 DEF Next, Device

LEMMA ReassemblyStep ==
  ASSUME StreamInv, [Next]_vars
  PROVE  Reassembly' /\ Pending'
<1> USE DEF StreamInv
<1>1. CASE Dispatch
  <2>0. PICK st : LayoutBy(st)
    BY DEF Layout
  <2>1. PICK n \in Nat : n = Len(dispatched) + 1
    BY DEF TypeOK
  <2>2. /\ n \in 1..Len(sent) /\ totalSize' = Size(sent[n])
        /\ dispatched' = Append(dispatched, Bytes(n, sent[n]))
    BY <1>1, <2>0, <2>1, DispatchWhole
  <2>3. sent' = sent /\ pc' = "consume"
    BY <1>1 DEF Dispatch, peerVars
  <2>4. /\ Len(dispatched') = n
        /\ dispatched'[n] = Bytes(n, sent[n])
        /\ \A k \in 1..n : k # n => k \in 1..Len(dispatched) /\ dispatched'[k] = dispatched[k]
    BY <2>1, <2>2 DEF TypeOK
  <2>5. Reassembly'
    <3> SUFFICES ASSUME NEW k \in 1..n
                 PROVE  k <= Len(sent) /\ dispatched'[k] = Bytes(k, sent[k])
      BY <2>3, <2>4 DEF Reassembly
    <3>1. CASE k = n
      BY <2>2, <2>4, <3>1
    <3>2. CASE k # n
      BY <2>4, <3>2 DEF Reassembly
    <3> QED BY <3>1, <3>2
  <2>6. Pending'
    BY <2>2, <2>3, <2>4 DEF Pending, Size
  <2> QED BY <2>5, <2>6
<1>2. CASE PeerSend
  <2>1. PICK p \in Packet : sent' = Append(sent, p)
    BY <1>2 DEF PeerSend
  <2>2. Len(sent') = Len(sent) + 1 /\ \A k \in 1..Len(sent) : sent'[k] = sent[k]
    BY <2>1 DEF TypeOK
  <2>3. UNCHANGED <<dispatched, totalSize, pc>> /\ Len(sent) \in Nat /\ Len(dispatched) \in Nat
    BY <1>2 DEF PeerSend, TypeOK
  <2>4. \A k \in 1..Len(dispatched) : k \in 1..Len(sent)
    BY <2>3 DEF Reassembly
  <2>5. Reassembly'
    <3> SUFFICES ASSUME NEW k \in 1..Len(dispatched)
                 PROVE  k <= Len(sent') /\ dispatched[k] = Bytes(k, sent'[k])
      BY <2>3 DEF Reassembly, Bytes, Size
    <3>1. k \in 1..Len(sent) /\ dispatched[k] = Bytes(k, sent[k])
      BY <2>4 DEF Reassembly
    <3> QED BY <2>2, <2>3, <3>1
  <2>6. Pending'
    <3> SUFFICES ASSUME pc = "consume"
                 PROVE  Len(dispatched) >= 1 /\ totalSize = Size(sent'[Len(dispatched)])
      BY <2>3 DEF Pending, Size
    <3>1. Len(dispatched) \in 1..Len(sent)
      BY <2>3, <2>4 DEF Pending
    <3> QED BY <2>2, <3>1 DEF Pending
  <2> QED BY <2>5, <2>6
<1>3. CASE Accept
  <2>1. dispatched' = << >> /\ pc' # "consume"
    BY <1>3 DEF Accept
  <2> QED BY <2>1 DEF Reassembly, Pending
<1>4. CASE \/ PollStart \/ Read \/ Overflow \/ ReadDone \/ ParseWait \/ ParseReject
           \/ Consume \/ Idle \/ PeerLost \/ SendFailed \/ UNCHANGED vars
  <2>1. UNCHANGED <<sent, dispatched>>
    BY <1>4 DEF PollStart, Read, Overflow, ReadDone, ParseWait, ParseReject, Consume,
       Idle, PeerLost, SendFailed, Disconnect, peerVars, vars
  <2>2. pc' = "consume" => pc = "consume" /\ totalSize' = totalSize
    BY <1>4 DEF PollStart, Read, Overflow, ReadDone, ParseWait, ParseReject, Consume,
       Idle, PeerLost, SendFailed, Disconnect, peerVars, vars
  <2>3. Reassembly'
    BY <2>1 DEF Reassembly, Bytes, Size
  <2> QED BY <2>1, <2>2, <2>3 DEF Pending, Size
<1> QED BY <1>1, <1>2, <1>3, <1>4 DEF Next, Device

LEMMA StreamCorrect == Spec => []StreamInv
<1>1. Init => StreamInv
  <2> SUFFICES ASSUME Init PROVE StreamInv
    OBVIOUS
  <2>1. TypeOK /\ NoUnderflow
    BY SizesAssumption DEF Init, TypeOK, NoUnderflow
  <2>2. Reassembly /\ Pending
    BY DEF Init, Reassembly, Pending
  <2>3. Layout
    <3> DEFINE st == [n \in 1..1 |-> 0]
    <3>1. Len(sent) = 0 /\ Total = 0 /\ AtFront = 1
      BY DEF Init, Total, AtFront
    <3>2. LayoutBy(st)
      BY <3>1 DEF LayoutBy
    <3> QED BY <3>2 DEF Layout
  <2> QED BY <2>1, <2>2, <2>3 DEF StreamInv
<1>2. StreamInv /\ [Next]_vars => StreamInv'
  BY TypeStep, NoUnderflowStep, LayoutStep, ReassemblyStep DEF StreamInv
<1> QED BY <1>1, <1>2, PTL DEF Spec

(* What the station acts on is what the peer wrote on this connection,     *)
(* packet by packet and byte for byte, for every segmentation.             *)
THEOREM ReassemblyCorrect == Spec => []Reassembly
<1>1. StreamInv => Reassembly
  BY DEF StreamInv
<1> QED BY <1>1, StreamCorrect, PTL

---------------------------------------------------------------------------
(* The receive path implements PacketChannel.                              *)

(* A connection is not closed here between pollTcpReceive and the end of   *)
(* processRxBuffer.                                                        *)
Alive == pc # "poll" => conn # "stopped"

LEMMA AliveStep == Alive /\ [Next]_vars => Alive'
BY DEF Alive, Next, Device, vars, peerVars, Accept, Idle, PeerSend, PeerLost, SendFailed,
       PollStart, Read, Overflow, ReadDone, ParseWait, ParseReject, Dispatch, Consume,
       Disconnect

(* Read as packets, what was dispatched is a prefix of what was sent. *)
Prefix == Delivered = [k \in 1..Len(dispatched) |-> sent[k]]

LEMMA DeliveredIsPrefix ==
  ASSUME TypeOK, Reassembly
  PROVE  Prefix
<1>1. SUFFICES ASSUME NEW k \in 1..Len(dispatched)
               PROVE  /\ dispatched[k][1][1] = k /\ k \in 1..Len(sent)
                      /\ dispatched[k] = Bytes(k, sent[k])
  BY DEF Delivered, Prefix
<1>2. /\ k \in Nat \ {0} /\ Len(sent) \in Nat
      /\ k <= Len(sent) /\ dispatched[k] = Bytes(k, sent[k])
  BY DEF Reassembly, TypeOK
<1>3. sent[k] \in Packet
  BY <1>2 DEF TypeOK
<1>4. 1 \in 1..Size(sent[k])
  BY <1>3, PacketSize
<1>5. dispatched[k][1] = <<k, 1>>
  BY <1>2, <1>3, <1>4, BytesType
<1> QED BY <1>2, <1>5

LEMMA DeliveredType ==
  ASSUME TypeOK, Reassembly
  PROVE  /\ Delivered \in Seq(Packet) /\ Len(Delivered) = Len(dispatched)
         /\ Len(dispatched) \in Nat /\ Len(dispatched) <= Len(sent)
<1>1. Len(dispatched) \in Nat /\ Len(sent) \in Nat
  BY DEF TypeOK
<1>2. Len(dispatched) <= Len(sent)
  BY <1>1 DEF Reassembly
<1>3. \A k \in 1..Len(dispatched) : sent[k] \in Packet
  BY <1>1, <1>2 DEF TypeOK
<1> QED BY <1>1, <1>2, <1>3, DeliveredIsPrefix DEF Prefix

LEMMA ChannelStep ==
  ASSUME StreamInv, Prefix, Prefix', Alive, [Next]_vars
  PROVE  [Channel!Next]_(Channel!vars)
<1> USE DEF StreamInv
<1>1. CASE dispatched' = dispatched /\ sent' = sent
  <2>1. Delivered' = Delivered
    BY <1>1 DEF Delivered, Bytes, Size
  <2>2. \/ conn' = conn
        \/ conn = "open" /\ conn' = "lost"
        \/ conn # "stopped" /\ conn' = "stopped"
        \/ conn # "open" /\ conn' = "open" /\ sent' = << >> /\ dispatched' = << >>
    BY DEF TypeOK, Next, Device, vars, peerVars, Accept, Idle, PeerSend, PeerLost, SendFailed,
           PollStart, Read, Overflow, ReadDone, ParseWait, ParseReject, Dispatch, Consume,
           Disconnect
  <2>3. dispatched' = << >> => Delivered' = << >>
    BY DEF Delivered
  <2> QED BY <1>1, <2>1, <2>2, <2>3
          DEF Channel!Next, Channel!vars, Channel!Lose, Channel!Stop, Channel!Open
<1>2. CASE Accept
  <2>1. conn # "open" /\ conn' = "open" /\ sent' = << >> /\ dispatched' = << >>
    BY <1>2 DEF Accept
  <2>2. Delivered' = << >>
    BY <2>1 DEF Delivered
  <2> QED BY <2>1, <2>2 DEF Channel!Next, Channel!Open
<1>3. CASE PeerSend
  <2>1. PICK p \in Packet : conn = "open" /\ sent' = Append(sent, p)
    BY <1>3 DEF PeerSend
  <2>2. conn' = conn /\ dispatched' = dispatched
    BY <1>3 DEF PeerSend
  <2>3. \A k \in 1..Len(dispatched) : sent'[k] = sent[k]
    BY <2>1, DeliveredType DEF TypeOK
  <2>4. /\ Delivered = [k \in 1..Len(dispatched) |-> sent[k]]
        /\ Delivered' = [k \in 1..Len(dispatched') |-> sent'[k]]
    BY DEF Prefix
  <2>5. Delivered' = Delivered
    BY <2>2, <2>3, <2>4
  <2> QED BY <2>1, <2>2, <2>5 DEF Channel!Next, Channel!Send
<1>4. CASE Dispatch
  <2>1. PICK st : LayoutBy(st)
    BY DEF Layout
  <2>2. PICK n \in Nat : n = Len(dispatched) + 1
    BY DEF TypeOK
  <2>3. n \in 1..Len(sent) /\ dispatched' = Append(dispatched, Bytes(n, sent[n]))
    BY <1>4, <2>1, <2>2, DispatchWhole
  <2>4. conn' = conn /\ sent' = sent /\ conn # "stopped"
    BY <1>4 DEF Dispatch, peerVars, Alive
  <2>5. Len(dispatched') = n
    BY <2>2, <2>3 DEF TypeOK
  <2>6. /\ Delivered = [k \in 1..Len(dispatched) |-> sent[k]]
        /\ Delivered' = [k \in 1..Len(dispatched') |-> sent'[k]]
    BY DEF Prefix
  <2>7. /\ Delivered \in Seq(Packet) /\ Len(Delivered) = Len(dispatched)
        /\ Len(dispatched) \in Nat /\ sent[n] \in Packet
    BY <2>3, DeliveredType DEF TypeOK
  <2>8. Delivered' = Append(Delivered, sent[n])
    BY <2>2, <2>4, <2>5, <2>6, <2>7
  <2>9. Len(Delivered) < Len(sent) /\ n = Len(Delivered) + 1
    BY <2>2, <2>3, <2>7 DEF TypeOK
  <2> QED BY <2>4, <2>8, <2>9 DEF Channel!Next, Channel!Deliver
<1> QED BY <1>1, <1>2, <1>3, <1>4
        DEF Next, Device, vars, peerVars, Idle, PeerLost, SendFailed,
            PollStart, Read, Overflow, ReadDone, ParseWait, ParseReject, Consume, Disconnect

(* For the backend the receive path is the in-order, whole-packet channel  *)
(* of PacketChannel, however TCP cuts the byte stream into reads, and      *)
(* wherever the connection ends.                                           *)
THEOREM ChannelImplemented == Spec => ImplementsChannel
<1>1. Init => Channel!Init /\ Alive
  <2> SUFFICES ASSUME Init PROVE Channel!Init /\ Alive
    OBVIOUS
  <2>1. dispatched = << >> /\ sent = << >> /\ conn = "stopped" /\ pc = "poll"
    BY DEF Init
  <2>2. Delivered = << >>
    BY <2>1 DEF Delivered
  <2> QED BY <2>1, <2>2 DEF Channel!Init, Alive
<1>2. StreamInv => Prefix
  BY DeliveredIsPrefix DEF StreamInv
<1>3. StreamInv /\ Prefix /\ Prefix' /\ Alive /\ [Next]_vars
        => [Channel!Next]_(Channel!vars) /\ Alive'
  BY ChannelStep, AliveStep
<1> QED BY <1>1, <1>2, <1>3, StreamCorrect, PTL DEF Spec, ImplementsChannel, Channel!Spec

---------------------------------------------------------------------------
(* The length of a poll.                                                   *)

(* Room to read into, then two steps for each byte a packet could consist  *)
(* of, since every packet takes a header out of the buffer.                *)
PollRank == CASE pc = "read" -> 3 * RX_BUFFER_SIZE - Len(rxBuffer) + 2
              [] pc = "parse" -> 2 * Len(rxBuffer) + 1
              [] pc = "consume" -> 2 * Len(rxBuffer)
              [] OTHER -> 0

(* A poll comes to its end although pollTcpReceive reads for as long as    *)
(* available() finds something: a peer that writes faster than the station *)
(* reads fills rxBuffer instead of keeping appLoop there (:532, :534).     *)
PollReturns == [][pc # "poll" => /\ PollRank' <= PollRank
                                 /\ Device => PollRank' < PollRank]_vars

(* What processRxBuffer takes out is a header at least. *)
TakesHeader == pc = "consume" => totalSize >= 1

LEMMA TakesHeaderStep ==
  ASSUME TypeOK, TakesHeader, [Next]_vars
  PROVE  TakesHeader'
<1>1. CASE Dispatch
  <2>1. Header(rxBuffer).payloadSize \in Nat /\ kHeaderSize \in Nat \ {0}
    BY HeaderType, SizesAssumption DEF Header0
  <2>2. totalSize' = kHeaderSize + Header(rxBuffer).payloadSize
    BY <1>1 DEF Dispatch, Size
  <2> QED BY <2>1, <2>2 DEF TakesHeader
<1> QED BY <1>1 DEF TakesHeader, Next, Device, vars, peerVars, Accept, Idle, PeerSend,
           PeerLost, SendFailed, PollStart, Read, Overflow, ReadDone, ParseWait,
           ParseReject, Consume, Disconnect

(* The arithmetic of a step: the buffer of size b holds n and then m bytes. *)
LEMMA PollFalls ==
  ASSUME NEW b \in Nat, NEW n \in 0..b, NEW m \in 0..b
  PROVE  /\ m > n => 3 * b - m + 2 < 3 * b - n + 2
         /\ 2 * n + 1 < 3 * b - n + 2
         /\ 2 * n < 2 * n + 1
         /\ m < n => 2 * m + 1 < 2 * n
         /\ 0 < 2 * n + 1 /\ 0 < 3 * b - n + 2
OBVIOUS

LEMMA PollStep ==
  ASSUME TypeOK, TypeOK', NoUnderflow, TakesHeader, Next, pc # "poll"
  PROVE  PollRank' <= PollRank /\ (Device => PollRank' < PollRank)
<1>0. /\ RX_BUFFER_SIZE \in Nat
      /\ Len(rxBuffer) \in 0..RX_BUFFER_SIZE /\ Len(rxBuffer') \in 0..RX_BUFFER_SIZE
      /\ rxBuffer \in Seq(Byte) /\ net \in Seq(Byte)
  BY SizesAssumption DEF TypeOK
<1>1. PICK b \in Nat, n \in Nat, m \in Nat :
        /\ b = RX_BUFFER_SIZE /\ n = Len(rxBuffer) /\ m = Len(rxBuffer')
        /\ n \in 0..b /\ m \in 0..b
  BY <1>0
<1>2. /\ pc = "read" => PollRank = 3 * b - n + 2
      /\ pc = "parse" => PollRank = 2 * n + 1
      /\ pc = "consume" => PollRank = 2 * n
      /\ pc' = "read" => PollRank' = 3 * b - m + 2
      /\ pc' = "parse" => PollRank' = 2 * m + 1
      /\ pc' = "consume" => PollRank' = 2 * m
      /\ pc' = "poll" => PollRank' = 0
  BY <1>1 DEF PollRank
<1>3. CASE Read
  <2>1. pc = "read" /\ pc' = "read"
    BY <1>3 DEF Read
  <2>2. PICK k \in 1..Len(net) : rxBuffer' = rxBuffer \o SubSeq(net, 1, k)
    BY <1>3 DEF Read
  <2>3. SubSeq(net, 1, k) \in Seq(Byte) /\ Len(SubSeq(net, 1, k)) = k
    BY <1>0
  <2>4. m = n + k
    BY <1>0, <1>1, <2>2, <2>3
  <2>5. m > n
    BY <2>4
  <2> QED BY <1>1, <1>2, <2>1, <2>5, PollFalls
<1>4. CASE ReadDone
  <2>1. pc = "read" /\ pc' = "parse" /\ m = n
    BY <1>1, <1>4 DEF ReadDone
  <2> QED BY <1>1, <1>2, <2>1, PollFalls
<1>5. CASE Dispatch
  <2>1. pc = "parse" /\ pc' = "consume" /\ m = n
    BY <1>1, <1>5 DEF Dispatch, AfterDispatch
  <2> QED BY <1>1, <1>2, <2>1, PollFalls
<1>6. CASE Consume
  <2>1. /\ pc = "consume" /\ pc' = "parse"
        /\ rxBuffer' = SubSeq(rxBuffer, totalSize + 1, Len(rxBuffer))
    BY <1>6 DEF Consume
  <2>2. totalSize \in Nat /\ totalSize >= 1 /\ totalSize <= Len(rxBuffer)
    BY <2>1 DEF TypeOK, NoUnderflow, TakesHeader
  <2>3. PICK k \in Nat : k = totalSize /\ k >= 1 /\ k <= n
    BY <1>1, <2>2
  <2>4. Len(SubSeq(rxBuffer, k + 1, n)) = n - k
    BY <1>0, <1>1, <2>3
  <2>5. m = n - k
    BY <1>1, <2>1, <2>3, <2>4
  <2>6. m < n
    BY <2>3, <2>5
  <2>7. 2 * m + 1 < 2 * n
    BY <1>1, <2>6, PollFalls
  <2>8. PollRank = 2 * n /\ PollRank' = 2 * m + 1
    BY <1>2, <2>1
  <2>9. PollRank' < PollRank
    BY <2>7, <2>8
  <2>10. PICK p \in Nat, q \in Nat : p = PollRank /\ q = PollRank'
    BY <2>8
  <2> QED BY <2>9, <2>10
<1>7. CASE Overflow \/ ParseReject \/ ParseWait
  <2>1. pc' = "poll" /\ (pc = "read" \/ pc = "parse")
    BY <1>7 DEF Overflow, ParseReject, ParseWait, Disconnect
  <2> QED BY <1>1, <1>2, <2>1, PollFalls
<1>8. CASE (PeerSend \/ PeerLost) /\ ~Device
  <2>1. pc' = pc /\ rxBuffer' = rxBuffer
    BY <1>8 DEF PeerSend, PeerLost
  <2>2. PollRank' = PollRank
    BY <2>1 DEF PollRank
  <2>3. PollRank \in Int
    BY <1>1, <1>2 DEF TypeOK
  <2> QED BY <1>8, <2>2, <2>3
<1> QED BY <1>3, <1>4, <1>5, <1>6, <1>7, <1>8
        DEF Next, Device, PollStart, Accept, Idle, SendFailed

(* pollTcpReceive and processRxBuffer return, whatever the peer writes     *)
(* meanwhile, for any sizes: at most one more step for each free byte, and *)
(* two for each byte read. PassIsBounded of SessionProofs counts from here.*)
THEOREM PollEnds == Spec => PollReturns
<1>1. Init => NoUnderflow /\ TakesHeader
  BY DEF Init, NoUnderflow, TakesHeader
<1>2. TypeOK /\ TakesHeader /\ [Next]_vars => TakesHeader'
  BY TakesHeaderStep
<1>3. TypeOK /\ TypeOK' /\ NoUnderflow /\ TakesHeader /\ [Next]_vars
        => [pc # "poll" => /\ PollRank' <= PollRank
                           /\ Device => PollRank' < PollRank]_vars
  BY PollStep
<1> QED BY <1>1, <1>2, <1>3, TypeCorrect, ConsumeNeverUnderflows, PTL DEF Spec, PollReturns
=============================================================================
