--------------------------- MODULE SessionProofs ---------------------------
(***************************************************************************)
(* One connection of Station from its first packet to its end, for every   *)
(* set of requests and drivers: replies, the end of what is sent, the      *)
(* channel it reads from, and the length of a pass of appLoop.             *)
(***************************************************************************)
EXTENDS StationProofs

USE DEF AtTop, WriteResults

---------------------------------------------------------------------------
(* Replies.                                                                *)

(* A handler answers with the number of its packet; only data may go       *)
(* without an answer.                                                      *)
LEMMA DispatchAnswers ==
  ASSUME TypeOK, DispatchPacket
  PROVE  \/ tx' = tx /\ Current.op \notin Asking
         \/ \E e : tx' = Append(tx, e) /\ e.kind \in Replies /\ e.id = handled + 1
<1>1. Current \in Request
  BY DispatchingType DEF DispatchPacket, HandleHeartbeat, HandleSubscribe,
     HandleUnsubscribe, HandleIrTransmit, HandleSpkPCM, HandleSpkComp, HandleUnsupported
<1>2. ASSUME NEW k \in Replies, Reply(k, Id)
      PROVE  \E e : tx' = Append(tx, e) /\ e.kind \in Replies /\ e.id = handled + 1
  BY <1>2 DEF Reply, Write, Id
<1>3. CASE HandleHeartbeat \/ HandleSubscribe \/ HandleUnsubscribe \/ HandleUnsupported
  <2>1. \E k \in Replies : Reply(k, Id)
    BY <1>1, <1>3, AnswerTypes DEF HandleHeartbeat, HandleSubscribe, HandleUnsubscribe,
       HandleUnsupported, Replies
  <2> QED BY <1>2, <2>1
<1>4. CASE HandleIrTransmit \/ HandleSpkPCM \/ HandleSpkComp
  <2>1. Current.op \notin Asking
    BY <1>4 DEF HandleIrTransmit, HandleSpkPCM, HandleSpkComp, Dispatching, Asking
  <2>2. PICK answers \in SUBSET (Replies \union {"none"}) : AnswerData(answers)
    BY <1>1, <1>4, AnswerTypes DEF HandleIrTransmit, HandleSpkPCM, HandleSpkComp
  <2>3. tx' = tx \/ \E k \in Replies : Reply(k, Id)
    BY <2>2 DEF AnswerData
  <2> QED BY <1>2, <2>1, <2>3
<1> QED BY <1>3, <1>4 DEF DispatchPacket

(* Every other step begins a log, keeps it, or adds data to it.            *)
LEMMA LogForms ==
  ASSUME TypeOK, CompSubscribed, DueSubscribed, [Next]_vars
  PROVE  \/ Accept
         \/ DispatchPacket
         \/ /\ handled' = handled
            /\ reqs' = reqs \/ \E r : reqs' = Append(reqs, r)
            /\ tx' = tx \/ \E e : tx' = Append(tx, e) /\ e.kind \in Streams
<1>1. CASE Still
  BY <1>1 DEF Still
<1>2. CASE PollTcpReceive \/ PeerRequest \/ PeerLost \/ RxFault
  BY <1>2 DEF PollTcpReceive, PeerRequest, PeerLost, RxFault, Disconnect, session, rx
<1>3. CASE SenseSkip
  BY <1>3 DEF SenseSkip, SenseNext, Moves
<1>4. CASE Sending
  BY <1>4, SendingKeeps, SendingWrites
<1> QED BY <1>1, <1>2, <1>3, <1>4, StepCases DEF Sending

(* No reply is about a packet that was not dispatched yet. *)
RepliesBounded == \A k \in 1..Len(tx) : tx[k].kind \in Replies => tx[k].id <= handled

RepliesInOrder ==
  \A i, j \in 1..Len(tx) :
    i < j /\ {tx[i].kind, tx[j].kind} \subseteq Replies => tx[i].id < tx[j].id
AllAnswered == \A k \in 1..handled : reqs[k].op \in Asking => Answers(k) # {}

(* A log that is one entry longer. *)
LEMMA Longer ==
  ASSUME tx \in Seq(Entry), NEW e, tx' = Append(tx, e)
  PROVE  /\ Len(tx) \in Nat /\ Len(tx') = Len(tx) + 1
         /\ tx'[Len(tx) + 1] = e
         /\ \A k \in 1..Len(tx) : tx'[k] = tx[k]
         /\ \A k \in 1..Len(tx') : k \in 1..Len(tx) \/ k = Len(tx) + 1
OBVIOUS

LEMMA EntryId ==
  ASSUME tx \in Seq(Entry), NEW k \in 1..Len(tx)
  PROVE  tx[k].id \in Nat
<1>1. tx[k] \in Entry
  OBVIOUS
<1> QED BY <1>1 DEF Entry

(* Answers stay. *)
LEMMA AnswersKept ==
  ASSUME tx \in Seq(Entry), tx' = tx \/ \E e : tx' = Append(tx, e), NEW k
  PROVE  Answers(k) \subseteq Answers(k)'
<1>1. CASE tx' = tx
  BY <1>1 DEF Answers
<1>2. CASE \E e : tx' = Append(tx, e)
  <2>1. \A i \in 1..Len(tx) : i \in 1..Len(tx') /\ tx'[i] = tx[i]
    BY <1>2, Longer
  <2> QED BY <2>1 DEF Answers
<1> QED BY <1>1, <1>2

LEMMA AnsweredStep ==
  ASSUME SessionInv, RepliesBounded, RepliesInOrder, AllAnswered, [Next]_vars
  PROVE  RepliesBounded' /\ RepliesInOrder' /\ AllAnswered'
<1>0. /\ tx \in Seq(Entry) /\ reqs \in Seq(Request)
      /\ handled \in Nat /\ handled <= Len(reqs) /\ taken <= Len(reqs) /\ taken \in Nat
      /\ TypeOK /\ CompSubscribed /\ DueSubscribed
  BY DEF SessionInv, TypeOK
<1>1. CASE Accept
  <2>1. tx' = << >> /\ handled' = 0
    BY <1>1 DEF Accept
  <2> QED BY <2>1 DEF RepliesBounded, RepliesInOrder, AllAnswered
<1>2. ASSUME tx' = tx, handled' \in Nat, handled' >= handled
      PROVE  RepliesBounded' /\ RepliesInOrder'
  <2>1. \A k \in 1..Len(tx) : tx[k].kind \in Replies => tx[k].id <= handled'
    BY <1>0, <1>2, EntryId DEF RepliesBounded
  <2> QED BY <1>2, <2>1 DEF RepliesBounded, RepliesInOrder
<1>3. ASSUME NEW e, tx' = Append(tx, e), handled' \in Nat, handled' >= handled,
             e.kind \in Replies => e.id = handled' /\ handled' > handled
      PROVE  RepliesBounded' /\ RepliesInOrder'
  <2>1. ASSUME NEW k \in 1..Len(tx'), tx'[k].kind \in Replies
        PROVE  tx'[k].id <= handled'
    <3>1. CASE k \in 1..Len(tx)
      <4>1. tx'[k] = tx[k] /\ tx[k].id \in Nat
        BY <1>0, <1>3, <3>1, Longer, EntryId
      <4> QED BY <1>0, <1>3, <2>1, <3>1, <4>1 DEF RepliesBounded
    <3>2. CASE k = Len(tx) + 1
      BY <1>0, <1>3, <2>1, <3>2, Longer
    <3> QED BY <1>0, <1>3, <3>1, <3>2, Longer
  <2>2. ASSUME NEW i \in 1..Len(tx'), NEW j \in 1..Len(tx'), i < j,
               tx'[i].kind \in Replies, tx'[j].kind \in Replies
        PROVE  tx'[i].id < tx'[j].id
    <3>1. i \in 1..Len(tx) /\ tx'[i] = tx[i] /\ tx[i].id \in Nat
      <4>1. i \in 1..Len(tx)
        BY <1>0, <1>3, <2>2, Longer
      <4> QED BY <1>0, <1>3, <4>1, Longer, EntryId
    <3>2. CASE j \in 1..Len(tx)
      <4>1. tx'[j] = tx[j]
        BY <1>0, <1>3, <3>2, Longer
      <4> QED BY <2>2, <3>1, <3>2, <4>1 DEF RepliesInOrder
    <3>3. CASE j = Len(tx) + 1
      <4>1. tx'[j] = e
        BY <1>0, <1>3, <3>3, Longer
      <4>2. tx[i].id <= handled
        BY <2>2, <3>1 DEF RepliesBounded
      <4> QED BY <1>0, <1>3, <2>2, <3>1, <4>1, <4>2
    <3> QED BY <1>0, <1>3, <3>2, <3>3, Longer
  <2> QED BY <2>1, <2>2 DEF RepliesBounded, RepliesInOrder
<1>4. ASSUME NEW k \in 1..handled, reqs' = reqs \/ (\E r : reqs' = Append(reqs, r)),
             tx' = tx \/ \E e : tx' = Append(tx, e), reqs'[k].op \in Asking
      PROVE  Answers(k)' # {}
  <2>1. k \in 1..Len(reqs) /\ reqs'[k] = reqs[k]
    BY <1>0, <1>4
  <2> QED BY <1>0, <1>4, <2>1, AnswersKept DEF AllAnswered
<1>5. CASE DispatchPacket
  <2>1. handled' = handled + 1 /\ reqs' = reqs
    BY <1>5, DispatchFrame
  <2>2. \/ tx' = tx /\ Current.op \notin Asking
        \/ \E e : tx' = Append(tx, e) /\ e.kind \in Replies /\ e.id = handled + 1
    BY <1>0, <1>5, DispatchAnswers
  <2>3. RepliesBounded' /\ RepliesInOrder'
    BY <1>0, <1>2, <1>3, <2>1, <2>2
  <2>4. ASSUME NEW k \in 1..handled + 1, reqs[k].op \in Asking
        PROVE  Answers(k)' # {}
    <3>1. CASE k \in 1..handled
      BY <1>4, <2>1, <2>2, <2>4, <3>1
    <3>2. CASE k = handled + 1
      <4>1. PICK e : tx' = Append(tx, e) /\ e.kind \in Replies /\ e.id = handled + 1
        BY <2>2, <2>4, <3>2 DEF Current
      <4>2. Len(tx) + 1 \in 1..Len(tx') /\ tx'[Len(tx) + 1] = e
        BY <1>0, <4>1, Longer
      <4>3. Len(tx) + 1 \in Answers(k)'
        BY <3>2, <4>1, <4>2 DEF Answers
      <4> QED BY <4>3
    <3> QED BY <1>0, <3>1, <3>2
  <2> QED BY <2>1, <2>3, <2>4 DEF AllAnswered
<1>6. CASE /\ handled' = handled
           /\ reqs' = reqs \/ \E r : reqs' = Append(reqs, r)
           /\ tx' = tx \/ \E e : tx' = Append(tx, e) /\ e.kind \in Streams
  <2>1. RepliesBounded' /\ RepliesInOrder'
    BY <1>0, <1>2, <1>3, <1>6, ReplyKinds
  <2> QED BY <1>4, <1>6, <2>1 DEF AllAnswered
<1> QED BY <1>0, <1>1, <1>5, <1>6, LogForms

(* A backend that pipelines its packets gets its replies in their order,   *)
(* one at most for a packet and one for each that is not data, whatever of *)
(* them the network lost (the handlers of app.cpp, each of whose returns   *)
(* follows exactly one wspSend*, and dispatchPacket's default).            *)
THEOREM RepliesMatchPackets == Spec => []AnsweredInOrder
<1>1. Init => RepliesBounded /\ RepliesInOrder /\ AllAnswered
  <2> SUFFICES ASSUME Init PROVE RepliesBounded /\ RepliesInOrder /\ AllAnswered
    OBVIOUS
  <2>1. tx = << >> /\ handled = 0
    BY DEF Init
  <2> QED BY <2>1 DEF RepliesBounded, RepliesInOrder, AllAnswered
<1>2. SessionInv /\ RepliesBounded /\ RepliesInOrder /\ AllAnswered /\ [Next]_vars
        => RepliesBounded' /\ RepliesInOrder' /\ AllAnswered'
  BY AnsweredStep
<1>3. RepliesInOrder /\ AllAnswered => AnsweredInOrder
  BY DEF RepliesInOrder, AllAnswered, AnsweredInOrder
<1> QED BY <1>1, <1>2, <1>3, SessionCorrect, PTL DEF Spec

---------------------------------------------------------------------------
(* The end of what is sent.                                                *)

FailedData(k) == tx[k].kind \in Streams \ {"MicComp"} /\ tx[k].wrote # "whole"

(* After a failed send the connection is closed, and stays so until the    *)
(* next one is accepted.                                                   *)
FailureCloses == (\E k \in 1..Len(tx) : FailedData(k)) => conn = "stopped"

LEMMA SendDataEnds ==
  ASSUME NEW s, NEW asked, NEW have, SendData(s, asked, have)
  PROVE  \E e : /\ tx' = Append(tx, e)
                /\ e.wrote = "nothing" \/ conn = "open"
                /\ e.wrote = "whole" \/ conn' = "stopped"
                /\ conn' \in {conn, "stopped"}
<1>1. PICK w \in WriteResults :
        /\ Write(s, seq[s], w)
        /\ IF w = "whole" THEN conn' = conn ELSE conn' = "stopped"
  BY DEF SendData, Disconnect
<1> QED BY <1>1 DEF Write

(* A write to a connection that is not open writes nothing, and failed     *)
(* data closes the one it was for; only Accept opens another.              *)
LEMMA EndingForms ==
  ASSUME TypeOK, [Next]_vars
  PROVE  \/ Accept
         \/ tx' = tx /\ (conn = "stopped" => conn' = "stopped")
         \/ \E e : /\ tx' = Append(tx, e)
                   /\ e.wrote = "nothing" \/ conn = "open"
                   /\ e.kind \in Streams \ {"MicComp"} /\ e.wrote # "whole"
                        => conn' = "stopped"
                   /\ conn = "stopped" => conn' = "stopped"
<1>1. CASE Still
  BY <1>1 DEF Still
<1>2. CASE PollTcpReceive \/ PeerRequest \/ PeerLost \/ RxFault \/ SenseSkip
  BY <1>2 DEF PollTcpReceive, PeerRequest, PeerLost, RxFault, SenseSkip, Disconnect, rx
<1>3. CASE DispatchPacket
  <2>1. conn' = conn /\ Current \in Request
    BY <1>3, DispatchFrame, DispatchingType DEF DispatchPacket, HandleHeartbeat,
       HandleSubscribe, HandleUnsubscribe, HandleIrTransmit, HandleSpkPCM, HandleSpkComp,
       HandleUnsupported
  <2>2. tx' = tx \/ \E k \in Replies : Reply(k, Id)
    <3>1. ASSUME NEW answers \in SUBSET (Replies \union {"none"}), AnswerData(answers)
          PROVE  tx' = tx \/ \E k \in Replies : Reply(k, Id)
      BY <3>1 DEF AnswerData
    <3> QED BY <1>3, <2>1, <3>1, AnswerTypes DEF DispatchPacket, HandleHeartbeat,
            HandleSubscribe, HandleUnsubscribe, HandleIrTransmit, HandleSpkPCM,
            HandleSpkComp, HandleUnsupported, Replies
  <2>3. ASSUME NEW k \in Replies, Reply(k, Id)
        PROVE  \E e : /\ tx' = Append(tx, e) /\ e.kind \in Replies
                      /\ e.wrote = "nothing" \/ conn = "open"
    BY <2>3 DEF Reply, Write
  <2> QED BY <2>1, <2>2, <2>3, ReplyKinds
<1>4. CASE IrSend \/ SenseSend \/ MicPCM
  <2>1. PICK s, asked, have : SendData(s, asked, have)
    BY <1>4 DEF IrSend, SenseSend, MicPCM
  <2> QED BY <2>1, SendDataEnds
<1>5. CASE MicComp
  BY <1>5 DEF MicComp, Write
<1> QED BY <1>1, <1>2, <1>3, <1>4, <1>5, StepCases

LEMMA FailedStep ==
  ASSUME TypeOK, FailureCloses, FailedSendEnds, [Next]_vars
  PROVE  FailureCloses' /\ FailedSendEnds'
<1>0. tx \in Seq(Entry)
  BY DEF TypeOK
<1>1. CASE Accept
  BY <1>1 DEF Accept, FailureCloses, FailedSendEnds
<1>2. CASE tx' = tx /\ (conn = "stopped" => conn' = "stopped")
  BY <1>2 DEF FailureCloses, FailedSendEnds, FailedData
<1>3. ASSUME NEW e, tx' = Append(tx, e), e.wrote = "nothing" \/ conn = "open",
             e.kind \in Streams \ {"MicComp"} /\ e.wrote # "whole" => conn' = "stopped",
             conn = "stopped" => conn' = "stopped"
      PROVE  FailureCloses' /\ FailedSendEnds'
  <2>1. FailureCloses'
    <3> SUFFICES ASSUME NEW k \in 1..Len(tx'), FailedData(k)' PROVE conn' = "stopped"
      BY DEF FailureCloses
    <3>1. CASE k \in 1..Len(tx)
      <4>1. FailedData(k)
        BY <1>0, <1>3, <3>1, Longer DEF FailedData
      <4> QED BY <1>3, <3>1, <4>1 DEF FailureCloses
    <3>2. CASE k = Len(tx) + 1
      BY <1>0, <1>3, <3>2, Longer DEF FailedData
    <3> QED BY <1>0, <1>3, <3>1, <3>2, Longer
  <2>2. FailedSendEnds'
    <3> SUFFICES ASSUME NEW k \in 1..Len(tx'), FailedData(k)',
                        NEW j \in k + 1..Len(tx')
                 PROVE  tx'[j].wrote = "nothing"
      BY DEF FailedSendEnds, FailedData
    <3>1. k \in 1..Len(tx) /\ tx'[k] = tx[k]
      <4>1. k \in 1..Len(tx)
        BY <1>0, <1>3, Longer
      <4> QED BY <1>0, <1>3, <4>1, Longer
    <3>2. FailedData(k)
      BY <3>1 DEF FailedData
    <3>3. CASE j \in k + 1..Len(tx)
      <4>1. j \in 1..Len(tx) /\ tx'[j] = tx[j]
        <5>1. j \in 1..Len(tx)
          BY <3>3
        <5> QED BY <1>0, <1>3, <5>1, Longer
      <4> QED BY <3>1, <3>2, <3>3, <4>1 DEF FailedSendEnds, FailedData
    <3>4. CASE j = Len(tx) + 1
      <4>1. conn = "stopped"
        BY <3>1, <3>2 DEF FailureCloses
      <4> QED BY <1>0, <1>3, <3>4, <4>1, Longer
    <3>5. j \in k + 1..Len(tx) \/ j = Len(tx) + 1
      BY <1>0, <1>3, <3>1, Longer
    <3> QED BY <3>3, <3>4, <3>5
  <2> QED BY <2>1, <2>2
<1> QED BY <1>1, <1>2, <1>3, EndingForms

(* A packet of data that does not get out whole is the last thing a        *)
(* backend gets on its connection: pollMic, pollIrReceive and each of the  *)
(* three sensors in pollSensors call disconnectClient, and whatever they   *)
(* still send after that goes nowhere. What TornIsLast says of all packets *)
(* is so true of all but the replies and MicComp.                          *)
THEOREM FailedSendIsLast == Spec => []FailedSendEnds
<1>1. Init => FailureCloses /\ FailedSendEnds
  <2> SUFFICES ASSUME Init PROVE FailureCloses /\ FailedSendEnds
    OBVIOUS
  <2>1. tx = << >>
    BY DEF Init
  <2> QED BY <2>1 DEF FailureCloses, FailedSendEnds
<1>2. TypeOK /\ FailureCloses /\ FailedSendEnds /\ [Next]_vars
        => FailureCloses' /\ FailedSendEnds'
  BY FailedStep
<1> QED BY <1>1, <1>2, TypeCorrect, PTL DEF Spec
---------------------------------------------------------------------------
(* The channel the session reads from.                                     *)

(* The first n entries of a sequence, one by one. *)
LEMMA FirstEntries ==
  ASSUME NEW S, NEW q \in Seq(S), NEW n \in 0..Len(q)
  PROVE  /\ SubSeq(q, 1, n) \in Seq(S)
         /\ Len(SubSeq(q, 1, n)) = n
         /\ SubSeq(q, 1, n) = [k \in 1..n |-> q[k]]
OBVIOUS

(* More packets sent change nothing about those handled; one more handled  *)
(* is the next of those sent.                                              *)
LEMMA LongerEntries ==
  ASSUME NEW S, NEW q \in Seq(S), NEW n \in 0..Len(q)
  PROVE  /\ \A r \in S : SubSeq(Append(q, r), 1, n) = SubSeq(q, 1, n)
         /\ n < Len(q) => SubSeq(q, 1, n + 1) = Append(SubSeq(q, 1, n), q[n + 1])
<1>1. ASSUME NEW r \in S
      PROVE  SubSeq(Append(q, r), 1, n) = SubSeq(q, 1, n)
  <2>1. Append(q, r) \in Seq(S) /\ n \in 0..Len(Append(q, r))
    OBVIOUS
  <2>2. \A k \in 1..n : Append(q, r)[k] = q[k]
    OBVIOUS
  <2> QED BY <2>1, <2>2, FirstEntries
<1>2. ASSUME n < Len(q)
      PROVE  SubSeq(q, 1, n + 1) = Append(SubSeq(q, 1, n), q[n + 1])
  BY <1>2, FirstEntries
<1> QED BY <1>1, <1>2

Handled == SubSeq(reqs, 1, handled)

LEMMA ChannelStep ==
  ASSUME TypeOK, IdleClean, [Next]_vars
  PROVE  [Channel!Next]_(Channel!vars)
<1>0. /\ conn \in {"open", "lost", "stopped"}
      /\ reqs \in Seq(Request) /\ handled \in 0..Len(reqs)
      /\ Len(Handled) = handled
  BY FirstEntries DEF TypeOK, Handled
<1>1. CASE Accept
  <2>1. conn # "open" /\ conn' = "open" /\ reqs' = << >> /\ handled' = 0
    BY <1>1 DEF Accept
  <2>2. SubSeq(reqs', 1, handled') = << >>
    BY <2>1
  <2> QED BY <2>1, <2>2 DEF Channel!Next, Channel!Open
<1>2. CASE PeerRequest
  <2>1. PICK r \in Requests : conn = "open" /\ reqs' = Append(reqs, r)
    BY <1>2 DEF PeerRequest
  <2>2. conn' = conn /\ handled' = handled
    BY <1>2 DEF PeerRequest
  <2>3. SubSeq(reqs', 1, handled') = SubSeq(reqs, 1, handled)
    BY <1>0, <2>1, <2>2, LongerEntries, RequestsAssumption
  <2> QED BY <2>1, <2>2, <2>3 DEF Channel!Next, Channel!Send
<1>3. CASE DispatchPacket
  <2>1. /\ handled < taken /\ handled' = handled + 1
        /\ conn' = conn /\ reqs' = reqs
    BY <1>3, DispatchFrame
  <2>2. conn # "stopped" /\ handled < Len(reqs)
    <3>1. taken \in Nat /\ handled \in Nat /\ taken <= Len(reqs)
      BY DEF TypeOK
    <3>2. conn = "stopped" => taken = handled
      BY DEF IdleClean, Clean
    <3> QED BY <1>0, <2>1, <3>1, <3>2
  <2>3. SubSeq(reqs, 1, handled + 1) = Append(SubSeq(reqs, 1, handled), reqs[handled + 1])
    BY <1>0, <2>2, LongerEntries
  <2>4. SubSeq(reqs', 1, handled') = Append(Handled, reqs[handled + 1])
    BY <2>1, <2>3 DEF Handled
  <2> QED BY <1>0, <2>1, <2>2, <2>4 DEF Channel!Next, Channel!Deliver, Handled
<1>4. ASSUME UNCHANGED <<reqs, handled>>,
             \/ conn' = conn
             \/ conn' = "stopped"
             \/ conn = "open" /\ conn' = "lost"
      PROVE  [Channel!Next]_(Channel!vars)
  BY <1>4 DEF Channel!Next, Channel!vars, Channel!Lose, Channel!Stop
<1>5. CASE Still
  BY <1>4, <1>5 DEF Still
<1>6. CASE PeerLost \/ RxFault \/ PollTcpReceive \/ SenseSkip
  BY <1>4, <1>6 DEF PeerLost, RxFault, PollTcpReceive, SenseSkip, SenseNext, Moves,
     Disconnect, rx
<1>7. CASE Sending
  BY <1>4, <1>7, SendingKeeps
<1> QED BY <1>1, <1>2, <1>3, <1>5, <1>6, <1>7, StepCases DEF Sending

(* dispatchPacket is called for the packets of this connection's backend,  *)
(* each once and in order, and for none after disconnectClient: the        *)
(* session reads the channel that the receive path implements              *)
(* (ChannelImplemented in WspReceiveProofs).                               *)
THEOREM ChannelRead == Spec => ReadsChannel
<1>1. Init => Channel!Init
  BY DEF Init, Channel!Init
<1>2. SessionInv /\ [Next]_vars => [Channel!Next]_(Channel!vars)
  BY ChannelStep DEF SessionInv
<1> QED BY <1>1, <1>2, SessionCorrect, PTL DEF Spec, ReadsChannel, Channel!Spec
---------------------------------------------------------------------------
(* The length of a pass.                                                   *)

LEMMA SensorCount ==
  ASSUME NEW D \in SUBSET Sensors
  PROVE  /\ Cardinality(D) \in 0..3
         /\ \A s \in D : Cardinality(D) > 0 /\ Cardinality(D \ {s}) = Cardinality(D) - 1
<1>1. IsFiniteSet(Sensors) /\ Cardinality(Sensors) = 3
  <2>1. IsFiniteSet({"AmbientLight"}) /\ Cardinality({"AmbientLight"}) = 1
    BY FS_Singleton
  <2>2. /\ IsFiniteSet({"AmbientLight"} \union {"Temperature"})
        /\ Cardinality({"AmbientLight"} \union {"Temperature"}) = 2
    BY <2>1, FS_AddElement
  <2>3. {"AmbientLight"} \union {"Temperature"} \union {"Humidity"} = Sensors
    BY DEF Sensors
  <2>4. "Humidity" \notin {"AmbientLight"} \union {"Temperature"}
    OBVIOUS
  <2> QED BY <2>2, <2>3, <2>4, FS_AddElement
<1>2. IsFiniteSet(D) /\ Cardinality(D) \in Nat /\ Cardinality(D) <= 3
  BY <1>1, FS_Subset, FS_CardinalityType
<1>3. ASSUME NEW s \in D
      PROVE  Cardinality(D) > 0 /\ Cardinality(D \ {s}) = Cardinality(D) - 1
  <2>1. Cardinality(D) # 0
    BY <1>2, <1>3, FS_EmptySet
  <2>2. Cardinality(D \ {s}) = Cardinality(D) - 1
    BY <1>2, <1>3, FS_RemoveElement
  <2> QED BY <1>2, <2>1, <2>2
<1> QED BY <1>2, <1>3

(* The rank as a function of what it is made of. *)
Rank(p, n, d) == CASE p = "rx" -> 8 + n
                   [] p = "ir" -> 7
                   [] p = "sensors" -> 6
                   [] p = "sense" -> 2 + d
                   [] p = "mic" -> 2
                   [] p = "comp" -> 1
                   [] OTHER -> 0

LEMMA RankValues ==
  ASSUME NEW n, NEW d
  PROVE  /\ Rank("rx", n, d) = 8 + n
         /\ Rank("ir", n, d) = 7
         /\ Rank("sensors", n, d) = 6
         /\ Rank("sense", n, d) = 2 + d
         /\ Rank("mic", n, d) = 2
         /\ Rank("comp", n, d) = 1
         /\ Rank("loop", n, d) = 0
BY DEF Rank

Unread == taken - handled

LEMMA RankIs ==
  ASSUME TypeOK
  PROVE  /\ PassRank = Rank(pc, Unread, Cardinality(due))
         /\ Unread \in Nat
BY DEF PassRank, Rank, Unread, TypeOK

LEMMA RankWillBe ==
  ASSUME TypeOK'
  PROVE  /\ PassRank' = Rank(pc', Unread', Cardinality(due'))
         /\ Unread' \in Nat
BY DEF PassRank, Rank, Unread, TypeOK

AtEnds == {"loop", "wifi", "connected"}

(* Where the loop task goes from where it is. *)
LEMMA PassMoves ==
  ASSUME TypeOK, TypeOK', Loop, pc \notin AtEnds
  PROVE  \/ pc = "rx" /\ pc' = "ir"
         \/ /\ pc = "rx" /\ pc' = "rx" /\ handled < taken
            /\ handled' = handled + 1 /\ taken' = taken
         \/ pc = "ir" /\ pc' = "sensors"
         \/ pc = "sensors" /\ pc' \in {"sense", "mic"}
         \/ /\ pc = "sense" /\ pc' \in {"sense", "mic"}
            /\ due # {} /\ due' = due \ {FirstDue}
         \/ pc = "mic" /\ pc' \in {"comp", "loop"}
         \/ pc = "comp" /\ pc' = "loop"
<1>1. CASE DispatchPacket
  BY <1>1, DispatchFrame
<1>2. CASE WifiUp \/ NoClient \/ Accept \/ PollTcpReceive
  BY <1>2 DEF WifiUp, NoClient, Accept, PollTcpReceive, AtEnds
<1>3. CASE RxDone
  BY <1>3 DEF RxDone
<1>4. CASE IrIdle \/ IrEmpty \/ IrSend
  BY <1>4 DEF IrIdle, IrEmpty, IrSend, IrTaken, Moves
<1>5. CASE SensorsIdle \/ SensorsDue
  BY <1>5 DEF SensorsIdle, SensorsDue, Moves
<1>6. CASE SenseSkip \/ SenseSend
  BY <1>6 DEF SenseSkip, SenseSend, SenseNext, Moves
<1>7. CASE MicIdle \/ MicPCM \/ MicCompOnly \/ MicCompDrop \/ MicComp
  BY <1>7 DEF MicIdle, MicPCM, MicCompOnly, MicCompDrop, MicComp, Moves
<1> QED BY <1>1, <1>2, <1>3, <1>4, <1>5, <1>6, <1>7 DEF Loop
(* The arithmetic of one step: n and m packets read but not dispatched, d  *)
(* and e sensors due, before and after.                                    *)
LEMMA RankFalls ==
  ASSUME NEW p, NEW q, NEW n \in Nat, NEW m \in Nat, NEW d \in 0..3, NEW e \in 0..3,
         \/ p = "rx" /\ q = "ir"
         \/ p = "rx" /\ q = "rx" /\ m = n - 1
         \/ p = "ir" /\ q = "sensors"
         \/ p = "sensors" /\ q \in {"sense", "mic"}
         \/ p = "sense" /\ q \in {"sense", "mic"} /\ d > 0 /\ e = d - 1
         \/ p = "mic" /\ q \in {"comp", "loop"}
         \/ p = "comp" /\ q = "loop"
  PROVE  Rank(p, n, d) \in Nat /\ Rank(q, m, e) \in Nat /\ Rank(q, m, e) < Rank(p, n, d)
<1>1. CASE p = "rx" /\ q = "ir"
  BY <1>1, RankValues
<1>2. CASE p = "rx" /\ q = "rx" /\ m = n - 1
  BY <1>2, RankValues
<1>3. CASE p = "ir" /\ q = "sensors"
  BY <1>3, RankValues
<1>4. CASE p = "sensors" /\ q \in {"sense", "mic"}
  BY <1>4, RankValues
<1>5. CASE p = "sense" /\ q \in {"sense", "mic"} /\ d > 0 /\ e = d - 1
  BY <1>5, RankValues
<1>6. CASE p = "mic" /\ q \in {"comp", "loop"}
  BY <1>6, RankValues
<1>7. CASE p = "comp" /\ q = "loop"
  BY <1>7, RankValues
<1> QED BY <1>1, <1>2, <1>3, <1>4, <1>5, <1>6, <1>7

(* Every step of the loop task in a pass lowers the rank. *)
LEMMA LoopFalls ==
  ASSUME TypeOK, TypeOK', Loop, pc \notin AtEnds
  PROVE  PassRank \in Nat /\ PassRank' \in Nat /\ PassRank' < PassRank
<1>1. PICK n \in Nat, m \in Nat : n = Unread /\ m = Unread'
  BY RankIs, RankWillBe
<1>2. due \in SUBSET Sensors /\ due' \in SUBSET Sensors
  BY DEF TypeOK
<1>3. PICK d \in 0..3, e \in 0..3 : d = Cardinality(due) /\ e = Cardinality(due')
  BY <1>2, SensorCount
<1>4. handled' = handled + 1 /\ taken' = taken => m = n - 1
  <2>1. handled \in Nat /\ taken \in Nat
    BY DEF TypeOK
  <2> QED BY <1>1, <2>1 DEF Unread
<1>5. due # {} /\ due' = due \ {FirstDue} => d > 0 /\ e = d - 1
  BY <1>2, <1>3, SensorCount, FirstDueIsDue
<1>6. Rank(pc, n, d) \in Nat /\ Rank(pc', m, e) \in Nat /\ Rank(pc', m, e) < Rank(pc, n, d)
  BY <1>4, <1>5, PassMoves, RankFalls
<1> QED BY <1>1, <1>3, <1>6, RankIs, RankWillBe

LEMMA PassStep ==
  ASSUME TypeOK, TypeOK', Next, PassRank > 0
  PROVE  /\ PassRank' <= PassRank
         /\ Loop => PassRank' < PassRank
         /\ Len(tx') <= Len(tx) + PassRank - PassRank'
<1>1. pc \notin AtEnds
  BY DEF PassRank, AtEnds
<1>2. Len(tx) \in Nat /\ Len(tx') \in {Len(tx), Len(tx) + 1}
  <2>1. tx \in Seq(Entry) /\ ~Accept
    BY <1>1 DEF TypeOK, Accept, AtEnds
  <2> QED BY <2>1, EndingForms, Longer
<1>3. CASE Loop
  <2>1. PICK n \in Nat, m \in Nat : n = PassRank /\ m = PassRank' /\ m < n
    BY <1>1, <1>3, LoopFalls
  <2> QED BY <1>2, <2>1
<1>4. CASE RxFault
  <2>1. PICK n \in Nat : n = Unread
    BY RankIs
  <2>2. PassRank = 8 + n /\ PassRank' = 7 /\ tx' = tx
    BY <1>4, <2>1, RankIs, RankWillBe, RankValues DEF RxFault
  <2> QED BY <1>2, <1>3, <2>2
<1>5. CASE Environment /\ ~RxFault /\ ~Loop
  <2>1. pc' = pc /\ due' = due /\ taken' = taken /\ handled' = handled /\ tx' = tx
    BY <1>1, <1>5 DEF Environment, PeerConnect, PeerRequest, PeerLost, IrSignal, WifiDown,
       AtEnds, rx
  <2>2. PassRank' = PassRank /\ Unread' = Unread
    BY <2>1 DEF PassRank, Unread
  <2>3. PassRank \in Nat
    <3>1. PICK n \in Nat : n = Unread
      BY RankIs
    <3>2. PICK d \in 0..3 : d = Cardinality(due)
      BY SensorCount DEF TypeOK
    <3>3. Rank(pc, n, d) \in Nat
      BY DEF Rank
    <3> QED BY <3>1, <3>2, <3>3, RankIs
  <2> QED BY <1>2, <1>5, <2>1, <2>2, <2>3
<1> QED BY <1>3, <1>4, <1>5 DEF Next

(* A pass of appLoop ends, however much arrives while it is under way: it  *)
(* works off the packets that pollTcpReceive found, one capture, three     *)
(* sensors and one frame, and writes at most one packet a step.            *)
THEOREM PassIsBounded == Spec => PassBounded
<1>1. TypeOK /\ TypeOK' /\ [Next]_vars
        => [PassRank > 0 => /\ PassRank' <= PassRank
                            /\ Loop => PassRank' < PassRank
                            /\ Len(tx') <= Len(tx) + PassRank - PassRank']_vars
  BY PassStep
<1> QED BY <1>1, TypeCorrect, PTL DEF Spec, PassBounded
---------------------------------------------------------------------------
(* Drivers behind the streams.                                             *)

(* A stream that is on has the drivers its data comes from, but for the    *)
(* microphone itself: AckMeansReady (README.md:37) fails for that driver   *)
(* alone, about which handleSubscribe does not ask.                        *)
SubscribedIsReady ==
  conn # "stopped" =>
    \A s \in Streams : sub[s] => Sources(s) \ {"mic"} \subseteq ready
THEOREM SubscribedHasDriver == Spec => []SubscribedIsReady
<1>1. SessionInv => SubscribedIsReady
  <2> SUFFICES ASSUME SessionInv, conn # "stopped", NEW s \in Streams, sub[s]
               PROVE  Needed(s) \subseteq ready
    BY DEF SubscribedIsReady, Sources
  <2>1. SubscribedAfter(handled, s)
    BY DEF SessionInv, SubscriptionsFollowRequests
  <2>2. PICK i \in 1..handled : Starts(i, s)
    BY <2>1 DEF SubscribedAfter
  <2>3. SubscribeAnswer(reqs[i]) = "Ack" /\ reqs[i].target = s
    BY <2>2 DEF Starts
  <2> QED BY <2>3 DEF SubscribeAnswer
<1> QED BY <1>1, SessionCorrect, PTL
=============================================================================
