--------------------------- MODULE StationProofs ---------------------------
(***************************************************************************)
(* What holds of Station for every set of requests, every combination of   *)
(* drivers and any number of packets, sessions and bytes sent: the bounds  *)
(* of the module are nowhere used.                                         *)
(***************************************************************************)
EXTENDS Station, FiniteSetTheorems, TLAPS

USE DEF AtTop, WriteResults

(* The streams and the sensors among them, as facts instead of definitions. *)
LEMMA StreamNames ==
  /\ Sensors \subseteq Streams
  /\ "MicPCM" \in Streams /\ "MicComp" \in Streams /\ "IrReceive" \in Streams
BY DEF Sensors, Streams

LEMMA CleanTypes ==
  /\ AllStreams(FALSE) \in [Streams -> BOOLEAN]
  /\ AllSensors(FALSE) \in [Sensors -> BOOLEAN]
  /\ AllStreams(0) \in [Streams -> Nat]
  /\ NoCapture \in [full : BOOLEAN, session : Nat, subscribed : BOOLEAN]
BY DEF AllStreams, AllSensors, NoCapture

(* Off keeps a flag function a flag function. *)
LEMMA OffType ==
  ASSUME NEW S, NEW f \in [S -> BOOLEAN], NEW s
  PROVE  Off(f, s) \in [S -> BOOLEAN]
BY DEF Off

(* Any write appends one entry to the log. *)
LEMMA WriteType ==
  ASSUME TypeOK, NEW kind \in Replies \union Streams, NEW id \in Nat,
         NEW w \in WriteResults, handled' \in Nat, Write(kind, id, w)
  PROVE  tx' \in Seq(Entry)
<1>1. [kind |-> kind, id |-> id, after |-> handled', wrote |-> w] \in Entry
  BY DEF Entry
<1>2. tx \in Seq(Entry)
  BY DEF TypeOK
<1> QED BY <1>1, <1>2 DEF Write

LEMMA ReplyType ==
  ASSUME TypeOK, NEW kind \in Replies, NEW id \in Nat, handled' \in Nat,
         Reply(kind, id)
  PROVE  tx' \in Seq(Entry)
BY WriteType DEF Reply

LEMMA ResetType ==
  ASSUME TypeOK, ResetSession, handled' \in Nat
  PROVE  /\ sub' \in [Streams -> BOOLEAN]
         /\ onChange' \in [Sensors -> BOOLEAN]
         /\ polled' \in [Sensors -> BOOLEAN]
         /\ haveLast' \in [Sensors -> BOOLEAN]
         /\ seq' \in [Streams -> Nat]
         /\ taken' = handled'
BY CleanTypes DEF ResetSession

LEMMA CountUp ==
  ASSUME NEW s \in Streams, seq \in [Streams -> Nat], seq' = [seq EXCEPT ![s] = @ + 1]
  PROVE  seq' \in [Streams -> Nat]
<1>1. seq[s] + 1 \in Nat
  OBVIOUS
<1> QED BY <1>1

LEMMA SendDataType ==
  ASSUME TypeOK, NEW s \in Streams, UNCHANGED handled,
         NEW asked \in [Sensors -> BOOLEAN], NEW have \in [Sensors -> BOOLEAN],
         SendData(s, asked, have)
  PROVE  /\ conn' \in {conn, "stopped"}
         /\ sub' \in [Streams -> BOOLEAN]
         /\ onChange' \in [Sensors -> BOOLEAN]
         /\ polled' \in [Sensors -> BOOLEAN]
         /\ haveLast' \in [Sensors -> BOOLEAN]
         /\ seq' \in [Streams -> Nat]
         /\ taken' \in {taken, handled}
         /\ tx' \in Seq(Entry)
<1>1. PICK w \in WriteResults :
        /\ Write(s, seq[s], w)
        /\ IF w = "whole"
           THEN /\ seq' = [seq EXCEPT ![s] = @ + 1]
                /\ polled' = asked
                /\ haveLast' = have
                /\ UNCHANGED <<conn, sub, onChange, taken>>
           ELSE Disconnect
  BY DEF SendData
<1>2. seq[s] \in Nat /\ handled' \in Nat
  BY DEF TypeOK
<1>3. tx' \in Seq(Entry)
  BY <1>1, <1>2, WriteType
<1>4. CASE w = "whole"
  <2>1. seq' \in [Streams -> Nat]
    <3>1. seq' = [seq EXCEPT ![s] = @ + 1]
      BY <1>1, <1>4
    <3>2. seq \in [Streams -> Nat]
      BY DEF TypeOK
    <3> QED BY <3>1, <3>2, CountUp
  <2>2. UNCHANGED <<conn, sub, onChange, taken>> /\ polled' = asked /\ haveLast' = have
    BY <1>1, <1>4
  <2> QED BY <2>1, <2>2, <1>3 DEF TypeOK
<1>5. CASE w # "whole"
  BY <1>1, <1>2, <1>3, <1>5, ResetType DEF Disconnect
<1> QED BY <1>4, <1>5

(* The packet being dispatched is one of those the backend sent. *)
LEMMA DispatchingType ==
  ASSUME TypeOK, NEW ops, Dispatching(ops)
  PROVE  /\ Current \in Request
         /\ Id \in Nat
         /\ handled' = handled + 1
         /\ handled' \in Nat
         /\ handled' <= taken
         /\ UNCHANGED <<conn, backlog, sessions, pc, ready, due, reqs, taken>>
BY DEF Dispatching, TypeOK, Current, Id

(* A handler that changes the flags in a well-typed way keeps the types.   *)
LEMMA HandlerType ==
  ASSUME TypeOK, NEW ops, Dispatching(ops),
         sub' \in [Streams -> BOOLEAN],
         onChange' \in [Sensors -> BOOLEAN],
         polled' \in [Sensors -> BOOLEAN],
         haveLast' \in [Sensors -> BOOLEAN],
         UNCHANGED seq,
         capture' \in {capture, NoCapture},
         tx' \in Seq(Entry)
  PROVE  TypeOK'
BY DispatchingType, CleanTypes DEF TypeOK

LEMMA AnswerDataType ==
  ASSUME TypeOK, NEW ops, Dispatching(ops),
         NEW answers \in SUBSET (Replies \union {"none"}), AnswerData(answers)
  PROVE  TypeOK'
<1>1. handled' \in Nat /\ Id \in Nat
  BY DispatchingType
<1>2. PICK a \in answers : IF a = "none" THEN UNCHANGED tx ELSE Reply(a, Id)
  BY DEF AnswerData
<1>3. tx' \in Seq(Entry)
  <2>1. CASE a = "none"
    BY <1>2, <2>1 DEF TypeOK
  <2>2. CASE a # "none"
    BY <1>1, <1>2, <2>2, ReplyType
  <2> QED BY <2>1, <2>2
<1>4. UNCHANGED <<sub, onChange, polled, haveLast, seq, capture>>
  BY DEF AnswerData, session
<1> QED BY <1>3, <1>4, HandlerType DEF TypeOK

LEMMA StartStreamType ==
  ASSUME TypeOK, NEW r \in Request, StartStream(r)
  PROVE  /\ sub' \in [Streams -> BOOLEAN]
         /\ onChange' \in [Sensors -> BOOLEAN]
         /\ polled' \in [Sensors -> BOOLEAN]
         /\ haveLast' \in [Sensors -> BOOLEAN]
         /\ UNCHANGED seq
         /\ capture' \in {capture, NoCapture}
<1>1. sub' \in [Streams -> BOOLEAN]
  BY DEF TypeOK, StartStream
<1>2. onChange' \in [Sensors -> BOOLEAN]
  BY DEF TypeOK, StartStream, Request
<1>3. polled' \in [Sensors -> BOOLEAN] /\ haveLast' \in [Sensors -> BOOLEAN]
  BY OffType DEF TypeOK, StartStream
<1>4. UNCHANGED seq /\ capture' \in {capture, NoCapture}
  BY DEF StartStream
<1> QED BY <1>1, <1>2, <1>3, <1>4

LEMMA AnswerTypes ==
  ASSUME NEW r \in Request
  PROVE  /\ SubscribeAnswer(r) \in Replies
         /\ UnsubscribeAnswer(r) \in Replies
         /\ IrTransmitAnswers(r) \in SUBSET (Replies \union {"none"})
         /\ SpkPCMAnswers(r) \in SUBSET (Replies \union {"none"})
         /\ SpkCompAnswers(r) \in SUBSET (Replies \union {"none"})
BY DEF SubscribeAnswer, UnsubscribeAnswer, IrTransmitAnswers, SpkPCMAnswers,
       SpkCompAnswers, Replies

LEMMA DispatchKeepsTypes ==
  ASSUME TypeOK, DispatchPacket
  PROVE  TypeOK'
<1> USE DEF session
<1>1. CASE HandleHeartbeat
  <2>1. tx' \in Seq(Entry)
    BY <1>1, DispatchingType, ReplyType DEF HandleHeartbeat, Replies
  <2> QED BY <1>1, <2>1, HandlerType DEF HandleHeartbeat, TypeOK
<1>2. CASE HandleSubscribe
  <2>1. tx' \in Seq(Entry)
    BY <1>2, DispatchingType, ReplyType, AnswerTypes DEF HandleSubscribe
  <2>2. CASE SubscribeAnswer(Current) = "Ack"
    BY <1>2, <2>1, <2>2, DispatchingType, StartStreamType, HandlerType DEF HandleSubscribe
  <2>3. CASE SubscribeAnswer(Current) # "Ack"
    BY <1>2, <2>1, <2>3, HandlerType DEF HandleSubscribe, TypeOK
  <2> QED BY <2>2, <2>3
<1>3. CASE HandleUnsubscribe
  <2>1. tx' \in Seq(Entry)
    BY <1>3, DispatchingType, ReplyType, AnswerTypes DEF HandleUnsubscribe
  <2>2. sub' \in [Streams -> BOOLEAN]
    BY <1>3, OffType DEF HandleUnsubscribe, TypeOK
  <2> QED BY <1>3, <2>1, <2>2, HandlerType DEF HandleUnsubscribe, TypeOK
<1>4. CASE HandleIrTransmit
  BY <1>4, DispatchingType, AnswerTypes, AnswerDataType DEF HandleIrTransmit
<1>5. CASE HandleSpkPCM
  BY <1>5, DispatchingType, AnswerTypes, AnswerDataType DEF HandleSpkPCM
<1>6. CASE HandleSpkComp
  BY <1>6, DispatchingType, AnswerTypes, AnswerDataType DEF HandleSpkComp
<1>7. CASE HandleUnsupported
  <2>1. tx' \in Seq(Entry)
    BY <1>7, DispatchingType, ReplyType DEF HandleUnsupported, Replies
  <2> QED BY <1>7, <2>1, HandlerType DEF HandleUnsupported, TypeOK
<1> QED BY <1>1, <1>2, <1>3, <1>4, <1>5, <1>6, <1>7 DEF DispatchPacket

(* The polling routines: what SendData leaves well typed, the rest of the  *)
(* step leaves alone.                                                      *)
LEMMA PollKeepsTypes ==
  ASSUME TypeOK,
         \/ IrIdle \/ IrEmpty \/ IrSend
         \/ SensorsIdle \/ SensorsDue \/ SenseSkip \/ SenseSend
         \/ MicIdle \/ MicPCM \/ MicCompOnly \/ MicCompDrop \/ MicComp
  PROVE  TypeOK'
<1> USE DEF Moves, Quiet, session
<1>a. /\ polled \in [Sensors -> BOOLEAN]
      /\ haveLast \in [Sensors -> BOOLEAN]
      /\ seq \in [Streams -> Nat]
  BY DEF TypeOK
<1>b. FirstDue \in Streams
  BY DEF FirstDue, Streams, Sensors
<1>1. CASE IrIdle
  BY <1>1 DEF IrIdle, TypeOK
<1>2. CASE IrEmpty
  BY <1>2, CleanTypes DEF IrEmpty, IrTaken, TypeOK
<1>3. CASE IrSend
  <2>1. UNCHANGED handled /\ SendData("IrReceive", polled, haveLast)
    BY <1>3 DEF IrSend, IrTaken
  <2>2. /\ conn' \in {conn, "stopped"}
        /\ sub' \in [Streams -> BOOLEAN]
        /\ onChange' \in [Sensors -> BOOLEAN]
        /\ polled' \in [Sensors -> BOOLEAN]
        /\ haveLast' \in [Sensors -> BOOLEAN]
        /\ seq' \in [Streams -> Nat]
        /\ taken' \in {taken, handled}
        /\ tx' \in Seq(Entry)
    BY <1>a, <2>1, StreamNames, SendDataType
  <2>3. /\ pc = "ir" /\ pc' = "sensors" /\ capture' = NoCapture
        /\ UNCHANGED <<backlog, sessions, ready, reqs, handled, due>>
    BY <1>3 DEF IrSend, IrTaken
  <2> QED BY <2>2, <2>3, CleanTypes DEF TypeOK
<1>4. CASE SensorsIdle
  BY <1>4 DEF SensorsIdle, TypeOK
<1>5. CASE SensorsDue
  <2>1. due' \subseteq Sensors /\ due' # {}
    BY <1>5 DEF SensorsDue, Subscribed
  <2>2. /\ pc = "sensors" /\ pc' = "sense"
        /\ UNCHANGED <<conn, backlog, sessions, ready, sub, onChange, polled,
                       haveLast, seq, capture, reqs, taken, handled, tx>>
    BY <1>5 DEF SensorsDue
  <2> QED BY <2>1, <2>2 DEF TypeOK
<1>6. CASE SenseSkip
  BY <1>6 DEF SenseSkip, SenseNext, TypeOK
<1>7. CASE SenseSend
  <2>1. PICK valid \in BOOLEAN :
          SendData(FirstDue, [polled EXCEPT ![FirstDue] = TRUE],
                   [haveLast EXCEPT ![FirstDue] = @ \/ valid])
    BY <1>7 DEF SenseSend
  <2>2. [polled EXCEPT ![FirstDue] = TRUE] \in [Sensors -> BOOLEAN]
    BY <1>a
  <2>3. [haveLast EXCEPT ![FirstDue] = @ \/ valid] \in [Sensors -> BOOLEAN]
    BY <1>a
  <2>4. UNCHANGED handled
    BY <1>7 DEF SenseSend, SenseNext
  <2>5. /\ due' \subseteq Sensors
        /\ due' # {} <=> pc' = "sense"
        /\ pc' \in {"mic", "sense"}
        /\ UNCHANGED <<backlog, sessions, ready, reqs, handled, capture>>
    BY <1>7 DEF SenseSend, SenseNext, TypeOK
  <2>6. /\ conn' \in {conn, "stopped"}
        /\ sub' \in [Streams -> BOOLEAN]
        /\ onChange' \in [Sensors -> BOOLEAN]
        /\ polled' \in [Sensors -> BOOLEAN]
        /\ haveLast' \in [Sensors -> BOOLEAN]
        /\ seq' \in [Streams -> Nat]
        /\ taken' \in {taken, handled}
        /\ tx' \in Seq(Entry)
    BY <1>b, <2>1, <2>2, <2>3, <2>4, SendDataType
  <2> QED BY <2>5, <2>6 DEF TypeOK
<1>8. CASE MicIdle
  BY <1>8 DEF MicIdle, TypeOK
<1>9. CASE MicPCM
  <2>1. UNCHANGED handled /\ SendData("MicPCM", polled, haveLast)
    BY <1>9 DEF MicPCM
  <2>2. /\ conn' \in {conn, "stopped"}
        /\ sub' \in [Streams -> BOOLEAN]
        /\ onChange' \in [Sensors -> BOOLEAN]
        /\ polled' \in [Sensors -> BOOLEAN]
        /\ haveLast' \in [Sensors -> BOOLEAN]
        /\ seq' \in [Streams -> Nat]
        /\ taken' \in {taken, handled}
        /\ tx' \in Seq(Entry)
    BY <1>a, <2>1, StreamNames, SendDataType
  <2>3. /\ pc = "mic" /\ pc' \in {"comp", "loop"}
        /\ UNCHANGED <<backlog, sessions, ready, reqs, handled, due, capture>>
    BY <1>9 DEF MicPCM, MicFrame
  <2> QED BY <2>2, <2>3 DEF TypeOK
<1>10. CASE MicCompOnly
  BY <1>10 DEF MicCompOnly, MicFrame, TypeOK
<1>11. CASE MicCompDrop
  BY <1>11 DEF MicCompDrop, TypeOK
<1>12. CASE MicComp
  <2>1. seq["MicComp"] \in Nat /\ handled' \in Nat
    BY <1>12, StreamNames DEF MicComp, TypeOK
  <2>2. tx' \in Seq(Entry)
    BY <1>12, <2>1, StreamNames, WriteType DEF MicComp
  <2>3. seq' \in [Streams -> Nat]
    <3>1. seq' = [seq EXCEPT !["MicComp"] = @ + 1]
      BY <1>12 DEF MicComp
    <3> QED BY <3>1, <1>a, StreamNames, CountUp
  <2> QED BY <1>12, <2>2, <2>3 DEF MicComp, TypeOK
<1> QED BY <1>1, <1>2, <1>3, <1>4, <1>5, <1>6, <1>7, <1>8, <1>9, <1>10, <1>11, <1>12

(* Every variable keeps its type. *)
LEMMA TypeStep ==
  ASSUME TypeOK, [Next]_vars
  PROVE  TypeOK'
<1> USE DEF session, rx
<1>1. CASE WifiUp
  BY <1>1 DEF WifiUp, TypeOK
<1>2. CASE NoClient
  BY <1>2 DEF NoClient, TypeOK
<1>3. CASE Accept
  <2>1. handled' \in Nat /\ ResetSession
    BY <1>3 DEF Accept
  <2>2. tx' \in Seq(Entry) /\ reqs' \in Seq(Request) /\ Len(reqs') = 0
    BY <1>3 DEF Accept
  <2> QED BY <1>3, <2>1, <2>2, ResetType DEF Accept, TypeOK
<1>4. CASE PollTcpReceive
  BY <1>4 DEF PollTcpReceive, TypeOK
<1>5. CASE RxDone
  BY <1>5 DEF RxDone, TypeOK
<1>6. CASE DispatchPacket
  BY <1>6, DispatchKeepsTypes
<1>7. CASE PeerConnect
  BY <1>7 DEF PeerConnect, TypeOK
<1>8. CASE PeerRequest
  <2>1. PICK r \in Requests : reqs' = Append(reqs, r)
    BY <1>8 DEF PeerRequest
  <2>2. r \in Request /\ reqs \in Seq(Request)
    BY RequestsAssumption DEF TypeOK
  <2>3. reqs' \in Seq(Request) /\ Len(reqs') = Len(reqs) + 1
    BY <2>1, <2>2
  <2> QED BY <1>8, <2>3 DEF PeerRequest, TypeOK
<1>9. CASE PeerLost
  BY <1>9 DEF PeerLost, TypeOK
<1>10. CASE IrSignal
  BY <1>10, StreamNames DEF IrSignal, TypeOK
<1>11. CASE WifiDown
  BY <1>11 DEF WifiDown, TypeOK
<1>12. CASE RxFault
  <2>1. handled' \in Nat /\ ResetSession /\ conn' = "stopped"
    BY <1>12 DEF RxFault, Disconnect, TypeOK
  <2> QED BY <1>12, <2>1, ResetType DEF RxFault, TypeOK
<1>13. CASE UNCHANGED vars
  BY <1>13 DEF vars, TypeOK
<1> QED
  BY <1>1, <1>2, <1>3, <1>4, <1>5, <1>6, <1>7, <1>8, <1>9, <1>10, <1>11, <1>12,
     <1>13, PollKeepsTypes DEF Next, Loop, Environment

LEMMA TypeInit == Init => TypeOK
<1> SUFFICES ASSUME Init PROVE TypeOK
  OBVIOUS
<1>1. ready \subseteq Drivers
  BY ReadyAssumption DEF Init
<1>2. reqs \in Seq(Request) /\ tx \in Seq(Entry) /\ Len(reqs) = 0
  BY DEF Init
<1>3. handled = 0 /\ taken = 0 /\ due = {} /\ pc = "loop" /\ conn = "stopped"
  BY DEF Init
<1>4. /\ backlog = 0 /\ sessions = 0
      /\ sub = AllStreams(FALSE) /\ onChange = AllSensors(FALSE)
      /\ polled = AllSensors(FALSE) /\ haveLast = AllSensors(FALSE)
      /\ seq = AllStreams(0) /\ capture = NoCapture
  BY DEF Init
<1>5. /\ sub \in [Streams -> BOOLEAN] /\ onChange \in [Sensors -> BOOLEAN]
      /\ polled \in [Sensors -> BOOLEAN] /\ haveLast \in [Sensors -> BOOLEAN]
      /\ seq \in [Streams -> Nat]
      /\ capture \in [full : BOOLEAN, session : Nat, subscribed : BOOLEAN]
  BY <1>4, CleanTypes
<1>6. /\ conn \in {"open", "lost", "stopped"}
      /\ pc \in {"loop", "wifi", "connected", "rx", "ir", "sensors", "sense", "mic", "comp"}
      /\ due \subseteq Sensors
      /\ due # {} <=> pc = "sense"
  BY <1>3
<1>7. /\ backlog \in Nat /\ sessions \in Nat /\ handled \in Nat /\ taken \in Nat
      /\ handled <= taken /\ taken <= Len(reqs)
  BY <1>2, <1>3, <1>4
<1> QED BY <1>1, <1>2, <1>5, <1>6, <1>7 DEF TypeOK

(* Type correctness, for every set of requests and drivers. *)
THEOREM TypeCorrect == Spec => []TypeOK
<1>1. Init => TypeOK
  BY TypeInit
<1>2. TypeOK /\ [Next]_vars => TypeOK'
  BY TypeStep
<1> QED BY <1>1, <1>2, PTL DEF Spec

---------------------------------------------------------------------------
(* The session after a disconnect.                                         *)

LEMMA ResetCleans == ASSUME ResetSession PROVE Clean'
BY DEF ResetSession, Clean

(* A failed or impossible write resets; one that succeeds found the        *)
(* connection open and leaves it so.                                       *)
LEMMA SendDataOutcome ==
  ASSUME NEW s, NEW asked, NEW have, SendData(s, asked, have)
  PROVE  \/ /\ conn = "open" /\ conn' = "open"
            /\ UNCHANGED <<sub, onChange, taken>>
         \/ /\ conn' = "stopped" /\ Clean'
<1>1. PICK w \in WriteResults :
        IF w = "whole"
        THEN UNCHANGED <<conn, sub, onChange, taken>>
        ELSE Disconnect
  BY DEF SendData
<1>2. CASE w = "whole"
  BY <1>1, <1>2
<1>3. CASE w # "whole"
  BY <1>1, <1>3, ResetCleans DEF Disconnect
<1> QED BY <1>2, <1>3

(* Steps that leave the connection, the session and the log alone. *)
Still == UNCHANGED <<conn, sessions, ready, sub, onChange, polled, haveLast, seq, reqs,
                     taken, handled, tx>>

LEMMA StillSteps ==
  ASSUME \/ WifiUp \/ WifiDown \/ NoClient \/ RxDone \/ IrIdle \/ IrEmpty
         \/ SensorsIdle \/ SensorsDue \/ MicIdle \/ MicCompOnly \/ MicCompDrop
         \/ PeerConnect \/ IrSignal \/ UNCHANGED vars
  PROVE  Still
BY DEF WifiUp, WifiDown, NoClient, RxDone, IrIdle, IrEmpty, IrTaken, SensorsIdle,
       SensorsDue, MicIdle, MicCompOnly, MicCompDrop, MicFrame, PeerConnect,
       IrSignal, vars, Still, Moves, Quiet, session, rx

(* A step is still, or one of these. *)
LEMMA StepCases ==
  ASSUME [Next]_vars
  PROVE  \/ Still \/ Accept \/ PollTcpReceive \/ RxFault \/ DispatchPacket
         \/ PeerRequest \/ PeerLost
         \/ IrSend \/ SenseSkip \/ SenseSend \/ MicPCM \/ MicComp
BY StillSteps DEF Next, Loop, Environment

LEMMA DispatchFrame ==
  ASSUME DispatchPacket
  PROVE  /\ pc = "rx" /\ handled < taken /\ handled' = handled + 1
         /\ UNCHANGED <<conn, backlog, sessions, pc, ready, due, reqs, taken>>
BY DEF DispatchPacket, HandleHeartbeat, HandleSubscribe, HandleUnsubscribe,
       HandleIrTransmit, HandleSpkPCM, HandleSpkComp, HandleUnsupported, Dispatching

(* disconnectClient leaves a new session behind, and nothing the caller    *)
(* still does spoils it.                                                   *)
LEMMA IdleCleanStep ==
  ASSUME TypeOK, IdleClean, CompSubscribed, [Next]_vars
  PROVE  IdleClean'
<1> SUFFICES ASSUME conn' = "stopped" PROVE Clean'
  BY DEF IdleClean
<1>1. CASE Still
  BY <1>1 DEF Still, IdleClean, Clean, AllStreams, AllSensors
<1>2. CASE Accept
  BY <1>2 DEF Accept
<1>3. CASE PollTcpReceive \/ PeerRequest \/ PeerLost
  BY <1>3 DEF PollTcpReceive, PeerRequest, PeerLost
<1>4. CASE RxFault
  BY <1>4, ResetCleans DEF RxFault, Disconnect
<1>5. CASE DispatchPacket
  <2>1. conn = "stopped" /\ handled < taken
    BY <1>5, DispatchFrame
  <2> QED BY <2>1 DEF IdleClean, Clean, TypeOK
<1>6. CASE IrSend
  BY <1>6, SendDataOutcome DEF IrSend
<1>7. CASE SenseSkip
  <2>1. conn = "stopped" /\ onChange[FirstDue]
    BY <1>7 DEF SenseSkip
  <2>2. FirstDue \in Sensors
    BY DEF FirstDue, Sensors
  <2> QED BY <2>1, <2>2 DEF IdleClean, Clean, AllSensors
<1>8. CASE SenseSend
  BY <1>8, SendDataOutcome DEF SenseSend
<1>9. CASE MicPCM
  BY <1>9, SendDataOutcome DEF MicPCM
<1>10. CASE MicComp
  BY <1>10 DEF MicComp, Moves, CompSubscribed
<1> QED BY <1>1, <1>2, <1>3, <1>4, <1>5, <1>6, <1>7, <1>8, <1>9, <1>10, StepCases

---------------------------------------------------------------------------
(* What pollMic and pollSensors carry from their checks to their writes.   *)

LEMMA CompSubscribedStep ==
  ASSUME TypeOK, CompSubscribed, [Next]_vars
  PROVE  CompSubscribed'
<1> SUFFICES ASSUME pc' = "comp" PROVE conn' # "stopped" /\ sub'["MicComp"]
  BY DEF CompSubscribed
<1>1. CASE MicPCM
  <2>1. sub'["MicComp"]
    BY <1>1 DEF MicPCM
  <2>2. conn' = "open" \/ Clean'
    BY <1>1, SendDataOutcome DEF MicPCM
  <2>3. ~ Clean'
    BY <2>1, StreamNames DEF Clean, AllStreams
  <2> QED BY <2>1, <2>2, <2>3
<1>2. CASE MicCompOnly
  BY <1>2 DEF MicCompOnly, Moves, MicFrame, Quiet, session
<1>3. CASE PeerConnect \/ PeerRequest \/ PeerLost \/ IrSignal \/ UNCHANGED vars
  BY <1>3 DEF PeerConnect, PeerRequest, PeerLost, IrSignal, vars, CompSubscribed, session
<1>4. CASE DispatchPacket
  BY <1>4, DispatchFrame
<1>5. CASE \/ WifiUp \/ NoClient \/ Accept \/ PollTcpReceive \/ RxDone
           \/ IrIdle \/ IrEmpty \/ IrSend \/ SensorsIdle \/ SensorsDue
           \/ SenseSkip \/ SenseSend \/ MicIdle \/ MicCompDrop \/ MicComp
           \/ WifiDown \/ RxFault
  <2>1. pc' # "comp"
    BY <1>5 DEF WifiUp, NoClient, Accept, PollTcpReceive, RxDone, IrIdle, IrEmpty,
       IrSend, IrTaken, SensorsIdle, SensorsDue, SenseSkip, SenseSend, SenseNext,
       MicIdle, MicCompDrop, MicComp, WifiDown, RxFault, Moves
  <2> QED BY <2>1
<1> QED BY <1>1, <1>2, <1>3, <1>4, <1>5 DEF Next, Loop, Environment

LEMMA DueSubscribedStep ==
  ASSUME TypeOK, DueSubscribed, [Next]_vars
  PROVE  DueSubscribed'
<1> SUFFICES ASSUME conn' # "stopped", NEW s \in due' PROVE sub'[s]
  BY DEF DueSubscribed
<1>1. CASE SensorsDue
  BY <1>1 DEF SensorsDue, Subscribed, Moves, Quiet, session
<1>2. CASE SenseSkip
  BY <1>2 DEF SenseSkip, SenseNext, DueSubscribed
<1>3. CASE SenseSend
  BY <1>3, SendDataOutcome DEF SenseSend, SenseNext, DueSubscribed
<1>4. CASE PeerConnect \/ PeerRequest \/ PeerLost \/ IrSignal \/ UNCHANGED vars
  BY <1>4 DEF PeerConnect, PeerRequest, PeerLost, IrSignal, vars, DueSubscribed, session
<1>5. CASE DispatchPacket
  BY <1>5, DispatchFrame DEF TypeOK
<1>6. CASE \/ WifiUp \/ NoClient \/ Accept \/ PollTcpReceive \/ RxDone
           \/ IrIdle \/ IrEmpty \/ IrSend \/ SensorsIdle
           \/ MicIdle \/ MicPCM \/ MicCompOnly \/ MicCompDrop \/ MicComp
           \/ WifiDown \/ RxFault
  <2>1. due' = due /\ pc # "sense"
    BY <1>6 DEF WifiUp, NoClient, Accept, AtTop, PollTcpReceive, RxDone, IrIdle, IrEmpty,
       IrSend, IrTaken, SensorsIdle, MicIdle, MicPCM, MicFrame, MicCompOnly,
       MicCompDrop, MicComp, WifiDown, RxFault, Moves
  <2> QED BY <2>1 DEF TypeOK
<1> QED BY <1>1, <1>2, <1>3, <1>4, <1>5, <1>6 DEF Next, Loop, Environment

---------------------------------------------------------------------------
(* The infrared receiver.                                                  *)

LEMMA CaptureFreshStep ==
  ASSUME TypeOK, CaptureFresh, [Next]_vars
  PROVE  CaptureFresh'
<1> SUFFICES ASSUME sub'["IrReceive"], capture'.full
             PROVE  capture'.session = sessions' /\ capture'.subscribed
  BY DEF CaptureFresh
<1>0. ~ Clean'
  BY StreamNames DEF Clean, AllStreams
<1>1. CASE IrSignal
  BY <1>1 DEF IrSignal, session
<1>2. CASE Accept
  BY <1>2, StreamNames DEF Accept, ResetSession, AllStreams
<1>3. CASE RxFault
  BY <1>0, <1>3, ResetCleans DEF RxFault, Disconnect
<1>4. CASE HandleSubscribe
  <2>1. CASE SubscribeAnswer(Current) = "Ack"
    <3>1. StartStream(Current) /\ UNCHANGED sessions
      BY <1>4, <2>1 DEF HandleSubscribe, Dispatching
    <3>2. CASE Current.target = "IrReceive"
      BY <3>1, <3>2 DEF StartStream, NoCapture
    <3>3. CASE Current.target # "IrReceive"
      BY <3>1, <3>3, StreamNames DEF StartStream, CaptureFresh, TypeOK
    <3> QED BY <3>2, <3>3
  <2>2. CASE SubscribeAnswer(Current) # "Ack"
    BY <1>4, <2>2 DEF HandleSubscribe, Dispatching, session, CaptureFresh
  <2> QED BY <2>1, <2>2
<1>5. CASE HandleUnsubscribe
  <2>1. UNCHANGED <<sessions, capture>>
    BY <1>5 DEF HandleUnsubscribe, Dispatching
  <2>2. sub["IrReceive"]
    BY <1>5, StreamNames DEF HandleUnsubscribe, Off, TypeOK
  <2> QED BY <2>1, <2>2 DEF CaptureFresh
<1>6. CASE HandleHeartbeat \/ HandleIrTransmit \/ HandleSpkPCM \/ HandleSpkComp
           \/ HandleUnsupported
  BY <1>6 DEF HandleHeartbeat, HandleIrTransmit, HandleSpkPCM, HandleSpkComp,
     HandleUnsupported, AnswerData, Dispatching, session, CaptureFresh
<1>7. CASE IrEmpty \/ IrSend
  BY <1>7 DEF IrEmpty, IrSend, IrTaken, NoCapture
<1>8. CASE SenseSend
  BY <1>0, <1>8, SendDataOutcome DEF SenseSend, SenseNext, Moves, CaptureFresh
<1>9. CASE MicPCM
  BY <1>0, <1>9, SendDataOutcome DEF MicPCM, MicFrame, CaptureFresh
<1>10. CASE SenseSkip \/ MicComp
  BY <1>10 DEF SenseSkip, SenseNext, MicComp, Moves, CaptureFresh
<1>11. CASE \/ WifiUp \/ NoClient \/ PollTcpReceive \/ RxDone \/ IrIdle
            \/ SensorsIdle \/ SensorsDue \/ MicIdle \/ MicCompOnly \/ MicCompDrop
            \/ WifiDown \/ PeerConnect \/ PeerRequest \/ PeerLost \/ UNCHANGED vars
  BY <1>11 DEF WifiUp, NoClient, PollTcpReceive, RxDone, IrIdle, SensorsIdle,
     SensorsDue, MicIdle, MicCompOnly, MicFrame, MicCompDrop, WifiDown, PeerConnect,
     PeerRequest, PeerLost, Moves, Quiet, session, vars, CaptureFresh
<1> QED
  BY <1>1, <1>2, <1>3, <1>4, <1>5, <1>6, <1>7, <1>8, <1>9, <1>10, <1>11
  DEF Next, Loop, Environment, DispatchPacket

(* After disconnectClient the session is as new, whatever the routine that *)
(* called it goes on to do.                                                *)
THEOREM DisconnectResets == Spec => []IdleClean
<1> DEFINE IInv == TypeOK /\ IdleClean /\ CompSubscribed
<1>1. Init => IInv
  BY TypeInit DEF Init, IdleClean, Clean, CompSubscribed
<1>2. IInv /\ [Next]_vars => IInv'
  BY TypeStep, IdleCleanStep, CompSubscribedStep
<1>3. IInv => IdleClean
  OBVIOUS
<1> QED BY <1>1, <1>2, <1>3, PTL DEF Spec

(* A capture that is sent was recorded on this connection while IrReceive  *)
(* was subscribed.                                                         *)
THEOREM CapturesAreFresh == Spec => FreshCapture
<1>1. Init => TypeOK /\ CaptureFresh
  BY TypeInit DEF Init, CaptureFresh, NoCapture
<1>2. TypeOK /\ CaptureFresh /\ [Next]_vars => TypeOK' /\ CaptureFresh'
  BY TypeStep, CaptureFreshStep
<1>3. CaptureFresh /\ [Next]_vars
        => [IrSend => capture.session = sessions /\ capture.subscribed]_vars
  BY DEF CaptureFresh, IrSend, IrTaken
<1> QED BY <1>1, <1>2, <1>3, PTL DEF Spec, FreshCapture

---------------------------------------------------------------------------
(* Subscriptions as a function of the packets handled.                     *)

(* One more packet. *)
LEMMA SubscribedNext ==
  ASSUME NEW n \in Nat, NEW s
  PROVE  SubscribedAfter(n + 1, s) <=>
           Starts(n + 1, s) \/ (SubscribedAfter(n, s) /\ ~Stops(n + 1, s))
<1>1. ASSUME SubscribedAfter(n + 1, s)
      PROVE  Starts(n + 1, s) \/ (SubscribedAfter(n, s) /\ ~Stops(n + 1, s))
  <2>1. PICK i \in 1..n+1 : Starts(i, s) /\ \A j \in i+1..n+1 : ~Stops(j, s)
    BY <1>1 DEF SubscribedAfter
  <2>2. CASE i = n + 1
    BY <2>1, <2>2
  <2>3. CASE i # n + 1
    <3>1. i \in 1..n /\ n + 1 \in i+1..n+1
      BY <2>3
    <3>2. \A j \in i+1..n : j \in i+1..n+1
      OBVIOUS
    <3> QED BY <2>1, <3>1, <3>2 DEF SubscribedAfter
  <2> QED BY <2>2, <2>3
<1>2. ASSUME Starts(n + 1, s)
      PROVE  SubscribedAfter(n + 1, s)
  <2>1. n + 1 \in 1..n+1 /\ (n + 1) + 1 .. n + 1 = {}
    OBVIOUS
  <2> QED BY <1>2, <2>1 DEF SubscribedAfter
<1>3. ASSUME SubscribedAfter(n, s), ~Stops(n + 1, s)
      PROVE  SubscribedAfter(n + 1, s)
  <2>1. PICK i \in 1..n : Starts(i, s) /\ \A j \in i+1..n : ~Stops(j, s)
    BY <1>3 DEF SubscribedAfter
  <2>2. i \in 1..n+1
    OBVIOUS
  <2>3. \A j \in i+1..n+1 : j = n + 1 \/ j \in i+1..n
    OBVIOUS
  <2> QED BY <1>3, <2>1, <2>2, <2>3 DEF SubscribedAfter
<1> QED BY <1>1, <1>2, <1>3

(* More packets from the backend do not change what the first n did. *)
LEMMA SubscribedFrame ==
  ASSUME TypeOK, UNCHANGED ready, NEW n \in Nat, n <= Len(reqs), NEW s,
         reqs' = reqs \/ \E r : reqs' = Append(reqs, r)
  PROVE  SubscribedAfter(n, s)' <=> SubscribedAfter(n, s)
<1>1. \A i \in 1..n : reqs'[i] = reqs[i]
  BY DEF TypeOK
<1>2. \A i \in 1..n : /\ Starts(i, s)' <=> Starts(i, s)
                      /\ Stops(i, s)' <=> Stops(i, s)
  BY <1>1 DEF Starts, Stops, SubscribeAnswer, UnsubscribeAnswer
<1>3. \A i \in 1..n : \A j \in i+1..n : j \in 1..n
  OBVIOUS
<1> QED BY <1>2, <1>3 DEF SubscribedAfter

(* What one packet does to the subscriptions. *)
LEMMA DispatchSubscribes ==
  ASSUME TypeOK, DispatchPacket, NEW s \in Streams
  PROVE  sub'[s] <=> Starts(handled + 1, s) \/ (sub[s] /\ ~Stops(handled + 1, s))
<1>0. sub \in [Streams -> BOOLEAN]
  BY DEF TypeOK
<1>1. CASE HandleSubscribe
  <2>1. Current.op = "Subscribe"
    BY <1>1 DEF HandleSubscribe, Dispatching
  <2>2. CASE SubscribeAnswer(Current) = "Ack"
    <3>1. sub' = [sub EXCEPT ![Current.target] = TRUE]
      BY <1>1, <2>2 DEF HandleSubscribe, StartStream
    <3> QED BY <1>0, <2>1, <2>2, <3>1 DEF Starts, Stops, Current
  <2>3. CASE SubscribeAnswer(Current) # "Ack"
    <3>1. sub' = sub
      BY <1>1, <2>3 DEF HandleSubscribe, session
    <3> QED BY <2>1, <2>3, <3>1 DEF Starts, Stops, Current
  <2> QED BY <2>2, <2>3
<1>2. CASE HandleUnsubscribe
  <2>1. Current.op = "Unsubscribe"
    BY <1>2 DEF HandleUnsubscribe, Dispatching
  <2>2. CASE UnsubscribeAnswer(Current) = "Ack"
    <3>1. sub' = Off(sub, Current.target)
      BY <1>2, <2>2 DEF HandleUnsubscribe
    <3>2. sub'[s] <=> sub[s] /\ s # Current.target
      BY <1>0, <3>1 DEF Off
    <3> QED BY <2>1, <2>2, <3>2 DEF Starts, Stops, Current
  <2>3. CASE UnsubscribeAnswer(Current) # "Ack"
    <3>1. sub' = sub
      BY <1>2, <2>3 DEF HandleUnsubscribe
    <3> QED BY <2>1, <2>3, <3>1 DEF Starts, Stops, Current
  <2> QED BY <2>2, <2>3
<1>3. CASE HandleHeartbeat \/ HandleIrTransmit \/ HandleSpkPCM \/ HandleSpkComp
           \/ HandleUnsupported
  <2>1. sub' = sub
    BY <1>3 DEF HandleHeartbeat, HandleIrTransmit, HandleSpkPCM, HandleSpkComp,
       HandleUnsupported, AnswerData, session
  <2>2. Current.op # "Subscribe" /\ Current.op # "Unsubscribe"
    BY <1>3 DEF HandleHeartbeat, HandleIrTransmit, HandleSpkPCM, HandleSpkComp,
       HandleUnsupported, Dispatching
  <2> QED BY <2>1, <2>2 DEF Starts, Stops, Current
<1> QED BY <1>1, <1>2, <1>3 DEF DispatchPacket

(* Steps of the polling routines that write to the socket. *)
Sending == IrSend \/ SenseSend \/ MicPCM \/ MicComp

(* They keep the subscriptions or end the session. *)
LEMMA SendingKeeps ==
  ASSUME Sending
  PROVE  /\ conn' = "stopped" \/ (conn' = conn /\ sub' = sub)
         /\ UNCHANGED <<sessions, ready, reqs, handled>>
BY SendDataOutcome DEF Sending, IrSend, IrTaken, SenseSend, SenseNext, MicPCM, MicComp,
   Moves

LEMMA SubscriptionsStep ==
  ASSUME TypeOK, SubscriptionsFollowRequests, [Next]_vars
  PROVE  SubscriptionsFollowRequests'
<1> SUFFICES ASSUME conn' # "stopped", NEW s \in Streams
             PROVE  sub'[s] <=> SubscribedAfter(handled, s)'
  BY DEF SubscriptionsFollowRequests
<1>0. handled \in Nat /\ handled <= Len(reqs)
  BY DEF TypeOK
<1>1. ASSUME UNCHANGED <<sub, ready, handled>>, conn # "stopped",
             reqs' = reqs \/ \E r : reqs' = Append(reqs, r)
      PROVE  sub'[s] <=> SubscribedAfter(handled, s)'
  <2>1. \A n \in Nat : n <= Len(reqs) =>
          (SubscribedAfter(n, s)' <=> SubscribedAfter(n, s))
    BY <1>1, SubscribedFrame
  <2>2. SubscribedAfter(handled, s)' <=> SubscribedAfter(handled, s)
    <3>1. PICK n \in Nat : n = handled
      BY <1>0
    <3>2. SubscribedAfter(n, s)' <=> SubscribedAfter(n, s)
      BY <1>0, <2>1, <3>1
    <3>3. n = handled'
      BY <1>1, <3>1
    <3> QED BY <3>1, <3>2, <3>3 DEF SubscribedAfter, Starts, Stops
  <2> QED BY <1>1, <2>2 DEF SubscriptionsFollowRequests
<1>2. CASE Still
  BY <1>1, <1>2 DEF Still
<1>3. CASE Accept
  BY <1>3 DEF Accept, ResetSession, AllStreams, SubscribedAfter
<1>4. CASE PollTcpReceive \/ PeerRequest \/ PeerLost
  BY <1>1, <1>4 DEF PollTcpReceive, PeerRequest, PeerLost, session, rx
<1>5. CASE RxFault
  BY <1>5 DEF RxFault, Disconnect
<1>6. CASE DispatchPacket
  <2>1. /\ handled' = handled + 1 /\ handled + 1 <= Len(reqs)
        /\ UNCHANGED <<conn, ready, reqs>>
    BY <1>6, DispatchFrame DEF TypeOK
  <2>2. sub'[s] <=> SubscribedAfter(handled + 1, s)
    <3>1. sub[s] <=> SubscribedAfter(handled, s)
      BY <2>1 DEF SubscriptionsFollowRequests
    <3> QED BY <1>0, <1>6, <3>1, SubscribedNext, DispatchSubscribes
  <2>3. PICK n \in Nat : n = handled + 1
    BY <1>0
  <2>4. SubscribedAfter(n, s)' <=> SubscribedAfter(n, s)
    BY <2>1, <2>3, SubscribedFrame
  <2>5. n = handled'
    BY <2>1, <2>3
  <2> QED BY <2>2, <2>3, <2>4, <2>5 DEF SubscribedAfter, Starts, Stops
<1>7. CASE SenseSkip
  BY <1>1, <1>7 DEF SenseSkip, SenseNext, Moves
<1>8. CASE Sending
  BY <1>1, <1>8, SendingKeeps
<1> QED BY <1>2, <1>3, <1>4, <1>5, <1>6, <1>7, <1>8, StepCases DEF Sending

(* A subscription is on exactly when the packets of this connection put it *)
(* on.                                                                     *)
THEOREM SubscriptionsCorrect == Spec => []SubscriptionsFollowRequests
<1>1. Init => TypeOK /\ SubscriptionsFollowRequests
  BY TypeInit DEF Init, SubscriptionsFollowRequests
<1>2. TypeOK /\ SubscriptionsFollowRequests /\ [Next]_vars
        => TypeOK' /\ SubscriptionsFollowRequests'
  BY TypeStep, SubscriptionsStep
<1> QED BY <1>1, <1>2, PTL DEF Spec

---------------------------------------------------------------------------
(* What is written to the socket.                                          *)

LEMMA ReplyKinds == \A k \in Replies : k \notin Streams
BY DEF Replies, Streams, Sensors

(* SendData appends one entry of its stream; on a connection that is not   *)
(* open, nothing reaches the socket.                                       *)
LEMMA SendDataWrites ==
  ASSUME NEW s, NEW asked, NEW have, SendData(s, asked, have)
  PROVE  \E e : /\ tx' = Append(tx, e)
                /\ e.kind = s /\ e.id = seq[s] /\ e.after = handled'
                /\ e.wrote = "nothing" \/ conn = "open"
BY DEF SendData, Write

(* A sensor that pollSensors is about to send is due, and so subscribed.   *)
LEMMA FirstDueIsDue ==
  ASSUME TypeOK, due # {}
  PROVE  FirstDue \in due /\ FirstDue \in Streams
BY DEF TypeOK, FirstDue, Sensors, Streams

(* Data is written only of streams that are on. *)
LEMMA SendingWrites ==
  ASSUME TypeOK, CompSubscribed, DueSubscribed, Sending
  PROVE  \E e : /\ tx' = Append(tx, e)
                /\ e.after = handled /\ e.kind \in Streams
                /\ e.wrote = "nothing" \/ (conn = "open" /\ sub[e.kind])
<1>1. CASE IrSend
  <2>1. SendData("IrReceive", polled, haveLast) /\ handled' = handled
        /\ sub["IrReceive"]
    BY <1>1 DEF IrSend, IrTaken, Moves
  <2> QED BY <2>1, SendDataWrites, StreamNames
<1>2. CASE SenseSend
  <2>1. due # {} /\ handled' = handled
    BY <1>2 DEF SenseSend, SenseNext, Moves
  <2>2. FirstDue \in Streams /\ (conn = "open" => sub[FirstDue])
    BY <2>1, FirstDueIsDue DEF DueSubscribed
  <2> QED BY <1>2, <2>1, <2>2, SendDataWrites DEF SenseSend
<1>3. CASE MicPCM
  <2>1. SendData("MicPCM", polled, haveLast) /\ handled' = handled /\ sub["MicPCM"]
    BY <1>3 DEF MicPCM
  <2> QED BY <2>1, SendDataWrites, StreamNames
<1>4. CASE MicComp
  <2>1. handled' = handled /\ sub["MicComp"]
    BY <1>4 DEF MicComp, Moves, CompSubscribed
  <2>2. PICK w \in WriteResults : Write("MicComp", seq["MicComp"], w)
    BY <1>4 DEF MicComp
  <2> QED BY <2>1, <2>2, StreamNames DEF Write
<1> QED BY <1>1, <1>2, <1>3, <1>4 DEF Sending

(* Handlers write replies only. *)
LEMMA DispatchWrites ==
  ASSUME TypeOK, DispatchPacket
  PROVE  \/ tx' = tx
         \/ \E e : /\ tx' = Append(tx, e)
                   /\ e.after = handled' /\ e.kind \in Replies
<1>1. Current \in Request
  BY DispatchingType DEF DispatchPacket, HandleHeartbeat, HandleSubscribe,
     HandleUnsubscribe, HandleIrTransmit, HandleSpkPCM, HandleSpkComp, HandleUnsupported
<1>2. ASSUME NEW k \in Replies, Reply(k, Id)
      PROVE  \E e : tx' = Append(tx, e) /\ e.after = handled' /\ e.kind \in Replies
  BY <1>2 DEF Reply, Write
<1>3. ASSUME NEW answers \in SUBSET (Replies \union {"none"}), AnswerData(answers)
      PROVE  tx' = tx \/ \E k \in Replies : Reply(k, Id)
  BY <1>3 DEF AnswerData
<1>4. tx' = tx \/ \E k \in Replies : Reply(k, Id)
  BY <1>1, <1>3, AnswerTypes DEF DispatchPacket, HandleHeartbeat, HandleSubscribe,
     HandleUnsubscribe, HandleIrTransmit, HandleSpkPCM, HandleSpkComp,
     HandleUnsupported, Replies
<1> QED BY <1>2, <1>4

(* The log is emptied, kept, or longer by one entry that is in order.      *)
LEMMA LogStep ==
  ASSUME TypeOK, CompSubscribed, DueSubscribed, [Next]_vars
  PROVE  \/ tx' = << >>
         \/ /\ reqs' = reqs \/ \E r : reqs' = Append(reqs, r)
            /\ handled' >= handled /\ ready' = ready
            /\ \/ tx' = tx
               \/ \E e : /\ tx' = Append(tx, e) /\ e.after = handled'
                         /\ e.kind \in Streams =>
                              /\ e.after = handled
                              /\ e.wrote = "nothing" \/ (conn = "open" /\ sub[e.kind])
<1>0. handled \in Nat
  BY DEF TypeOK
<1>1. CASE Still
  BY <1>0, <1>1 DEF Still
<1>2. CASE Accept
  BY <1>2 DEF Accept
<1>3. CASE PollTcpReceive \/ PeerRequest \/ PeerLost \/ RxFault
  BY <1>0, <1>3 DEF PollTcpReceive, PeerRequest, PeerLost, RxFault, Disconnect, session, rx
<1>4. CASE DispatchPacket
  <2>1. handled' >= handled /\ UNCHANGED <<ready, reqs>>
    BY <1>0, <1>4, DispatchFrame
  <2> QED BY <1>4, <2>1, DispatchWrites, ReplyKinds
<1>5. CASE SenseSkip
  BY <1>0, <1>5 DEF SenseSkip, SenseNext, Moves
<1>6. CASE Sending
  BY <1>0, <1>6, SendingKeeps, SendingWrites
<1> QED BY <1>1, <1>2, <1>3, <1>4, <1>5, <1>6, StepCases DEF Sending

LEMMA EntryAfter ==
  ASSUME tx \in Seq(Entry), NEW k \in 1..Len(tx)
  PROVE  tx[k].after \in Nat
<1>1. tx[k] \in Entry
  OBVIOUS
<1> QED BY <1>1 DEF Entry

LEMMA AfterBoundedStep ==
  ASSUME TypeOK, CompSubscribed, DueSubscribed, AfterBounded, [Next]_vars
  PROVE  AfterBounded'
<1> SUFFICES ASSUME NEW k \in 1..Len(tx') PROVE tx'[k].after <= handled'
  BY DEF AfterBounded
<1>0. tx \in Seq(Entry) /\ handled \in Nat /\ handled' \in Nat
  BY TypeStep DEF TypeOK
<1>1. CASE tx' = << >>
  BY <1>1
<1>2. CASE tx' = tx /\ handled' >= handled
  <2>1. tx[k].after <= handled /\ tx[k].after \in Nat
    BY <1>0, <1>2, EntryAfter DEF AfterBounded
  <2> QED BY <1>0, <1>2, <2>1
<1>3. ASSUME NEW e, tx' = Append(tx, e), e.after = handled', handled' >= handled
      PROVE  tx'[k].after <= handled'
  <2>1. CASE k = Len(tx) + 1
    BY <1>0, <1>3, <2>1
  <2>2. CASE k # Len(tx) + 1
    <3>1. k \in 1..Len(tx) /\ tx'[k] = tx[k]
      BY <1>0, <1>3, <2>2
    <3>2. tx[k].after <= handled /\ tx[k].after \in Nat
      BY <1>0, <3>1, EntryAfter DEF AfterBounded
    <3> QED BY <1>0, <1>3, <3>1, <3>2
  <2> QED BY <2>1, <2>2
<1> QED BY <1>1, <1>2, <1>3, LogStep

LEMMA DataStep ==
  ASSUME SessionInv, [Next]_vars
  PROVE  DataOnlyWhileSubscribed'
<1> USE DEF SessionInv
<1> SUFFICES ASSUME NEW k \in 1..Len(tx'), tx'[k].kind \in Streams
             PROVE  \/ SubscribedAfter(tx[k].after, tx[k].kind)'
                    \/ tx'[k].wrote = "nothing"
  BY DEF DataOnlyWhileSubscribed
<1>0. tx \in Seq(Entry) /\ handled \in Nat /\ handled <= Len(reqs)
  BY DEF TypeOK
<1>1. CASE tx' = << >>
  BY <1>1
<1>2. ASSUME reqs' = reqs \/ (\E r : reqs' = Append(reqs, r)), ready' = ready,
             k \in 1..Len(tx), tx'[k] = tx[k]
      PROVE  \/ SubscribedAfter(tx[k].after, tx[k].kind)'
             \/ tx'[k].wrote = "nothing"
  <2>1. tx[k].after \in Nat /\ tx[k].after <= handled
    BY <1>0, <1>2, EntryAfter DEF AfterBounded
  <2>2. PICK n, s : n = tx[k].after /\ s = tx[k].kind
    BY <2>1
  <2>3. SubscribedAfter(n, s)' <=> SubscribedAfter(n, s)
    BY <1>0, <1>2, <2>1, <2>2, SubscribedFrame
  <2>4. SubscribedAfter(n, s) \/ tx[k].wrote = "nothing"
    BY <1>2, <2>2 DEF DataOnlyWhileSubscribed
  <2>5. n = tx'[k].after /\ s = tx'[k].kind
    BY <1>2, <2>2
  <2> QED BY <1>2, <2>3, <2>4, <2>5 DEF SubscribedAfter, Starts, Stops
<1>3. ASSUME NEW e, tx' = Append(tx, e), k = Len(tx) + 1,
             reqs' = reqs \/ (\E r : reqs' = Append(reqs, r)), ready' = ready,
             e.kind \in Streams =>
               /\ e.after = handled
               /\ e.wrote = "nothing" \/ (conn = "open" /\ sub[e.kind])
      PROVE  \/ SubscribedAfter(tx[k].after, tx[k].kind)'
             \/ tx'[k].wrote = "nothing"
  <2>1. tx'[k] = e
    BY <1>0, <1>3
  <2>2. CASE e.wrote = "nothing"
    BY <2>1, <2>2
  <2>3. CASE conn = "open" /\ sub[e.kind]
    <3>1. PICK n, s : n = handled /\ s = e.kind
      BY <1>0
    <3>2. SubscribedAfter(n, s)
      BY <2>1, <2>3, <3>1 DEF SubscriptionsFollowRequests
    <3>3. SubscribedAfter(n, s)'
      BY <1>0, <1>3, <3>1, <3>2, SubscribedFrame
    <3>4. n = tx'[k].after /\ s = tx'[k].kind
      BY <1>3, <2>1, <3>1
    <3> QED BY <3>3, <3>4 DEF SubscribedAfter, Starts, Stops
  <2> QED BY <1>3, <2>1, <2>2, <2>3
<1>4. ASSUME NEW e, tx' = Append(tx, e)
      PROVE  k = Len(tx) + 1 \/ (k \in 1..Len(tx) /\ tx'[k] = tx[k])
  BY <1>0, <1>4
<1> QED BY <1>1, <1>2, <1>3, <1>4, LogStep

(* The inductive invariant of the session. *)
THEOREM SessionCorrect == Spec => []SessionInv
<1>1. Init => SessionInv
  <2> SUFFICES ASSUME Init PROVE SessionInv
    OBVIOUS
  <2>1. TypeOK /\ conn = "stopped" /\ pc = "loop" /\ due = {} /\ tx = << >>
        /\ capture = NoCapture
    BY TypeInit DEF Init
  <2>2. IdleClean
    BY DEF Init, IdleClean, Clean
  <2>3. CompSubscribed /\ DueSubscribed /\ CaptureFresh
    BY <2>1 DEF CompSubscribed, DueSubscribed, CaptureFresh, NoCapture
  <2>4. AfterBounded /\ SubscriptionsFollowRequests /\ DataOnlyWhileSubscribed
    BY <2>1 DEF AfterBounded, SubscriptionsFollowRequests, DataOnlyWhileSubscribed
  <2> QED BY <2>1, <2>2, <2>3, <2>4 DEF SessionInv
<1>2. SessionInv /\ [Next]_vars => SessionInv'
  BY TypeStep, IdleCleanStep, CompSubscribedStep, DueSubscribedStep, CaptureFreshStep,
     AfterBoundedStep, SubscriptionsStep, DataStep DEF SessionInv
<1> QED BY <1>1, <1>2, PTL DEF Spec

(* Whatever the station sends of a stream, it sends between a Subscribe it *)
(* accepted on this connection and the Unsubscribe that ends it.           *)
THEOREM DataIsSubscribed == Spec => []DataOnlyWhileSubscribed
<1>1. SessionInv => DataOnlyWhileSubscribed
  BY DEF SessionInv
<1> QED BY <1>1, SessionCorrect, PTL

---------------------------------------------------------------------------
(* The station implements WspService.                                      *)

SentAs(s, fates) == Service!Sending(s, seq[s], fates)

(* Steps that change nothing a backend can see. *)
LEMMA HiddenStep ==
  ASSUME UNCHANGED <<sub, seq, handled, tx>>, conn' = "stopped" <=> conn = "stopped"
  PROVE  UNCHANGED Service!vars
BY DEF Service!vars

LEMMA ResetIsNothing ==
  ASSUME Clean' PROVE Service!Nothing
BY DEF Clean, Service!Nothing, AllStreams

(* A stopped connection has nothing on, and numbers from 0. *)
LEMMA StoppedIsNothing ==
  ASSUME IdleClean, conn = "stopped"
  PROVE  /\ {s \in Streams : sub[s]} = {}
         /\ seq = [s \in Streams |-> 0]
BY DEF IdleClean, Clean, AllStreams

(* A data packet: sent, or the end of the session, or after it. *)
LEMMA SendDataServes ==
  ASSUME TypeOK, IdleClean, NEW s \in Streams, NEW asked, NEW have,
         SendData(s, asked, have), handled' = handled, conn # "stopped" => sub[s]
  PROVE  Service!Next
<1>1. PICK w \in WriteResults :
        /\ Write(s, seq[s], w)
        /\ IF w = "whole"
           THEN /\ seq' = [seq EXCEPT ![s] = @ + 1]
                /\ UNCHANGED <<conn, sub, onChange, taken>>
           ELSE Disconnect
  BY DEF SendData
<1>2. CASE w = "whole"
  <2>1. conn = "open" /\ SentAs(s, Service!Whole)
    BY <1>1, <1>2 DEF SentAs, Service!Sending, Service!Whole, Write
  <2> QED BY <1>1, <1>2, <2>1 DEF Service!Next, Service!Send, SentAs
<1>3. CASE w # "whole"
  <2>1. conn' = "stopped" /\ Clean' /\ SentAs(s, Service!Failed)
    BY <1>1, <1>3, ResetCleans DEF Disconnect, SentAs, Service!Sending, Service!Failed, Write
  <2>2. CASE conn # "stopped"
    BY <2>1, <2>2, ResetIsNothing DEF Service!Next, Service!End, SentAs
  <2>3. CASE conn = "stopped"
    <3>1. w = "nothing" /\ seq[s] = 0
      BY <1>1, <1>3, <2>3, StoppedIsNothing
    <3>2. Service!Sending(s, 0, {"nothing"})
      BY <1>1, <3>1 DEF Service!Sending, Write
    <3>3. UNCHANGED <<conn, seq>> /\ {x \in Streams : sub'[x]} = {x \in Streams : sub[x]}
      BY <2>1, <2>3, StoppedIsNothing DEF Clean, AllStreams
    <3> QED BY <2>3, <3>2, <3>3 DEF Service!Next, Service!Late
  <2> QED BY <2>2, <2>3
<1> QED BY <1>2, <1>3

(* MicComp is sent, or costs a number. *)
LEMMA MicCompServes ==
  ASSUME TypeOK, CompSubscribed, MicComp
  PROVE  Service!Next
<1>1. PICK w \in WriteResults : Write("MicComp", seq["MicComp"], w)
  BY DEF MicComp
<1>2. /\ conn # "stopped" /\ sub["MicComp"] /\ "MicComp" \in Streams
      /\ UNCHANGED <<conn, sub, handled>>
      /\ seq' = [seq EXCEPT !["MicComp"] = @ + 1]
  BY StreamNames DEF MicComp, Moves, CompSubscribed
<1>3. CASE w = "whole"
  <2>1. SentAs("MicComp", Service!Whole)
    BY <1>1, <1>3 DEF SentAs, Service!Sending, Service!Whole, Write
  <2> QED BY <1>2, <2>1 DEF Service!Next, Service!Send, SentAs
<1>4. CASE w # "whole"
  <2>1. SentAs("MicComp", Service!Failed)
    BY <1>1, <1>4 DEF SentAs, Service!Sending, Service!Failed, Write
  <2> QED BY <1>2, <2>1 DEF Service!Next, Service!Skip, SentAs
<1> QED BY <1>3, <1>4

LEMMA ReplyServes ==
  ASSUME NEW kind, Reply(kind, Id), handled' = Id
  PROVE  Service!Sending(kind, handled', Service!Whole \union Service!Failed)
BY DEF Reply, Write, Service!Sending, Service!Whole, Service!Failed

(* A packet dispatched is taken; only an acknowledged one switches a stream. *)
LEMMA DispatchServes ==
  ASSUME TypeOK, IdleClean, DispatchPacket
  PROVE  Service!Take
<1>1. conn # "stopped" /\ handled' = Id /\ conn' = conn
  <2>1. handled < taken /\ handled' = handled + 1 /\ conn' = conn
    BY DispatchFrame
  <2>2. handled \in Nat /\ (conn = "stopped" => taken = handled)
    BY DEF TypeOK, IdleClean, Clean
  <2> QED BY <2>1, <2>2 DEF Id
<1>2. Current \in Request
  BY DispatchingType DEF DispatchPacket, HandleHeartbeat, HandleSubscribe,
     HandleUnsubscribe, HandleIrTransmit, HandleSpkPCM, HandleSpkComp, HandleUnsupported
<1>3. sub \in [Streams -> BOOLEAN]
  BY DEF TypeOK
<1> DEFINE on == {s \in Streams : sub[s]}
           onNext == {s \in Streams : sub'[s]}
<1>4. ASSUME seq' = seq, onNext = on, tx' = tx \/ \E k \in Replies : Reply(k, Id)
      PROVE  Service!Take
  <2>1. tx' = tx \/ \E k \in Replies :
                      Service!Sending(k, handled', Service!Whole \union Service!Failed)
    BY <1>1, <1>4, ReplyServes
  <2> QED BY <1>1, <1>4, <2>1 DEF Service!Take, Id
<1>5. ASSUME seq' = seq, NEW s \in Streams, onNext \in {on \union {s}, on \ {s}},
             Reply("Ack", Id)
      PROVE  Service!Take
  <2>1. Service!Sending("Ack", handled', Service!Whole \union Service!Failed)
    BY <1>1, <1>5, ReplyServes
  <2> QED BY <1>1, <1>5, <2>1 DEF Service!Take, Id
<1>6. CASE HandleSubscribe
  <2>1. CASE SubscribeAnswer(Current) = "Ack"
    <3>1. Current.target \in Streams /\ Reply("Ack", Id)
          /\ sub' = [sub EXCEPT ![Current.target] = TRUE] /\ seq' = seq
      BY <1>6, <2>1 DEF HandleSubscribe, SubscribeAnswer, StartStream
    <3>2. onNext = on \union {Current.target}
      BY <1>3, <3>1
    <3> QED BY <1>5, <3>1, <3>2
  <2>2. CASE SubscribeAnswer(Current) # "Ack"
    <3>1. UNCHANGED <<sub, seq>> /\ Reply(SubscribeAnswer(Current), Id)
      BY <1>6, <2>2 DEF HandleSubscribe, session
    <3> QED BY <1>4, <3>1 DEF SubscribeAnswer, Replies
  <2> QED BY <2>1, <2>2
<1>7. CASE HandleUnsubscribe
  <2>1. CASE UnsubscribeAnswer(Current) = "Ack"
    <3>1. Current.target \in Streams /\ Reply("Ack", Id)
          /\ sub' = Off(sub, Current.target) /\ seq' = seq
      BY <1>7, <2>1 DEF HandleUnsubscribe, UnsubscribeAnswer
    <3>2. onNext = on \ {Current.target}
      BY <1>3, <3>1 DEF Off
    <3> QED BY <1>5, <3>1, <3>2
  <2>2. CASE UnsubscribeAnswer(Current) # "Ack"
    <3>1. UNCHANGED <<sub, seq>> /\ Reply(UnsubscribeAnswer(Current), Id)
      BY <1>7, <2>2 DEF HandleUnsubscribe
    <3> QED BY <1>4, <3>1 DEF UnsubscribeAnswer, Replies
  <2> QED BY <2>1, <2>2
<1>8. CASE HandleHeartbeat \/ HandleUnsupported
  BY <1>4, <1>8 DEF HandleHeartbeat, HandleUnsupported, session, Replies
<1>9. CASE HandleIrTransmit \/ HandleSpkPCM \/ HandleSpkComp
  <2>1. ASSUME NEW answers \in SUBSET (Replies \union {"none"}), AnswerData(answers)
        PROVE  UNCHANGED <<sub, seq>> /\ (tx' = tx \/ \E k \in Replies : Reply(k, Id))
    BY <2>1 DEF AnswerData, session
  <2>2. UNCHANGED <<sub, seq>> /\ (tx' = tx \/ \E k \in Replies : Reply(k, Id))
    BY <1>2, <1>9, <2>1, AnswerTypes DEF HandleIrTransmit, HandleSpkPCM, HandleSpkComp
  <2> QED BY <1>4, <2>2
<1> QED BY <1>6, <1>7, <1>8, <1>9 DEF DispatchPacket

(* Every step of the station is one of the service's, or none. *)
LEMMA ServiceStep ==
  ASSUME SessionInv, [Next]_vars
  PROVE  [Service!Next]_(Service!vars)
<1> USE DEF SessionInv
<1>1. CASE Still
  BY <1>1, HiddenStep DEF Still
<1>2. CASE PollTcpReceive \/ PeerRequest \/ PeerLost
  BY <1>2, HiddenStep DEF PollTcpReceive, PeerRequest, PeerLost, session, rx
<1>3. CASE Accept
  <2>1. Service!Nothing
    BY <1>3, ResetCleans, ResetIsNothing DEF Accept
  <2> QED BY <1>3, <2>1 DEF Accept, Service!Next, Service!Begin
<1>4. CASE RxFault
  <2>1. conn' = "stopped" /\ Clean' /\ UNCHANGED <<handled, tx>>
    BY <1>4, ResetCleans DEF RxFault, Disconnect
  <2>2. CASE conn = "stopped"
    <3>1. seq' = seq /\ {s \in Streams : sub'[s]} = {s \in Streams : sub[s]}
      BY <2>1, <2>2, StoppedIsNothing DEF Clean, AllStreams
    <3> QED BY <2>1, <2>2, <3>1 DEF Service!vars
  <2>3. CASE conn # "stopped"
    BY <2>1, <2>3, ResetIsNothing DEF Service!Next, Service!End
  <2> QED BY <2>2, <2>3
<1>5. CASE DispatchPacket
  BY <1>5, DispatchServes DEF Service!Next
<1>6. CASE IrSend
  <2>1. SendData("IrReceive", polled, haveLast) /\ handled' = handled /\ sub["IrReceive"]
    BY <1>6 DEF IrSend, IrTaken, Moves
  <2> QED BY <2>1, SendDataServes, StreamNames
<1>7. CASE SenseSkip
  BY <1>7, HiddenStep DEF SenseSkip, SenseNext, Moves
<1>8. CASE SenseSend
  <2>1. due # {} /\ handled' = handled
    BY <1>8 DEF SenseSend, SenseNext, Moves
  <2>2. FirstDue \in Streams /\ (conn # "stopped" => sub[FirstDue])
    BY <2>1, FirstDueIsDue DEF DueSubscribed
  <2> QED BY <1>8, <2>1, <2>2, SendDataServes DEF SenseSend
<1>9. CASE MicPCM
  <2>1. SendData("MicPCM", polled, haveLast) /\ handled' = handled /\ sub["MicPCM"]
    BY <1>9 DEF MicPCM
  <2> QED BY <2>1, SendDataServes, StreamNames
<1>10. CASE MicComp
  BY <1>10, MicCompServes
<1> QED BY <1>1, <1>2, <1>3, <1>4, <1>5, <1>6, <1>7, <1>8, <1>9, <1>10, StepCases

(* For a backend the station is the service of WspService, whatever fails. *)
THEOREM ServiceImplemented == Spec => ImplementsService
<1>1. Init => Service!Init
  BY DEF Init, Service!Init, AllStreams
<1>2. SessionInv /\ [Next]_vars => [Service!Next]_(Service!vars)
  BY ServiceStep
<1> QED BY <1>1, <1>2, SessionCorrect, PTL DEF Spec, ImplementsService, Service!Spec

---------------------------------------------------------------------------
(* Sequence numbers, from the service's point of view.                     *)

Heard(s) == {j \in 1..Len(tx) : tx[j].kind = s /\ tx[j].wrote # "nothing"}

(* The next number of a running session is how many packets were heard, or *)
(* with MicComp more than each of them.                                    *)
Counting ==
  conn # "stopped" =>
    \A s \in Streams : IF s = "MicComp" THEN \A j \in Heard(s) : tx[j].id < seq[s]
                       ELSE seq[s] = Cardinality(Heard(s))

LEMMA HeardFinite ==
  ASSUME tx \in Seq(Entry), NEW s
  PROVE  IsFiniteSet(Heard(s)) /\ Cardinality(Heard(s)) \in Nat
<1>1. Heard(s) \subseteq 1..Len(tx) /\ IsFiniteSet(1..Len(tx))
  BY FS_Interval DEF Heard
<1> QED BY <1>1, FS_Subset, FS_CardinalityType

(* One more entry in the log. *)
LEMMA HeardGrows ==
  ASSUME tx \in Seq(Entry), NEW e, tx' = Append(tx, e)
  PROVE  /\ \A k \in 1..Len(tx) : tx'[k] = tx[k] /\ Earlier(k)' = Earlier(k)
         /\ \A k : k = Len(tx) + 1 => tx'[k] = e /\ Earlier(k)' = Heard(e.kind)
         /\ Len(tx') = Len(tx) + 1 /\ Len(tx) \in Nat
         /\ \A s : Heard(s)' = IF e.kind = s /\ e.wrote # "nothing"
                               THEN Heard(s) \union {Len(tx) + 1} ELSE Heard(s)
<1>1. /\ Len(tx) \in Nat /\ Len(tx') = Len(tx) + 1
      /\ \A k \in 1..Len(tx) : tx'[k] = tx[k]
      /\ tx'[Len(tx) + 1] = e
  OBVIOUS
<1>2. ASSUME NEW k \in 1..Len(tx) PROVE Earlier(k)' = Earlier(k)
  <2>1. k \in 1..Len(tx) /\ \A j \in 1..k - 1 : j \in 1..Len(tx)
    BY <1>1
  <2> QED BY <1>1, <2>1 DEF Earlier
<1>3. ASSUME NEW k, k = Len(tx) + 1 PROVE Earlier(k)' = Heard(e.kind)
  <2>1. k - 1 = Len(tx)
    BY <1>1, <1>3
  <2> QED BY <1>1, <1>3, <2>1 DEF Earlier, Heard
<1>4. ASSUME NEW s
      PROVE  Heard(s)' = IF e.kind = s /\ e.wrote # "nothing"
                         THEN Heard(s) \union {Len(tx) + 1} ELSE Heard(s)
  <2>1. 1..Len(tx') = 1..Len(tx) \union {Len(tx) + 1}
    BY <1>1
  <2> QED BY <1>1, <2>1 DEF Heard
<1> QED BY <1>1, <1>2, <1>3, <1>4

(* An entry with the right number keeps all numbers right. *)
LEMMA NumberedEntry ==
  ASSUME tx \in Seq(Entry), SequenceContiguous, NEW e, tx' = Append(tx, e),
         e.kind \in Streams /\ e.wrote # "nothing" =>
           IF e.kind = "MicComp" THEN \A j \in Heard("MicComp") : tx[j].id < e.id
           ELSE e.id = Cardinality(Heard(e.kind))
  PROVE  SequenceContiguous'
<1>1. SUFFICES ASSUME NEW k \in 1..Len(tx'),
                      tx'[k].kind \in Streams, tx'[k].wrote # "nothing"
               PROVE  IF tx'[k].kind = "MicComp"
                      THEN \A j \in Earlier(k)' : tx'[j].id < tx'[k].id
                      ELSE tx'[k].id = Cardinality(Earlier(k)')
  BY DEF SequenceContiguous
<1>2. CASE k \in 1..Len(tx)
  <2>1. tx'[k] = tx[k] /\ Earlier(k)' = Earlier(k)
    BY <1>2, HeardGrows
  <2>2. \A j \in Earlier(k) : tx'[j] = tx[j]
    <3>1. \A j \in Earlier(k) : j \in 1..Len(tx)
      BY <1>2 DEF Earlier
    <3> QED BY <3>1, HeardGrows
  <2> QED BY <1>1, <1>2, <2>1, <2>2 DEF SequenceContiguous
<1>3. CASE k = Len(tx) + 1
  <2>1. tx'[k] = e /\ Earlier(k)' = Heard(e.kind)
    BY <1>3, HeardGrows
  <2>2. \A j \in Heard(e.kind) : tx'[j] = tx[j]
    BY HeardGrows DEF Heard
  <2> QED BY <1>1, <2>1, <2>2
<1>4. Len(tx') = Len(tx) + 1 /\ Len(tx) \in Nat
  BY HeardGrows
<1>5. k \in 1..Len(tx) \/ k = Len(tx) + 1
  BY <1>4
<1> QED BY <1>2, <1>3, <1>5

(* Data of stream s that reached the backend, and the number it took. *)
LEMMA CountedEntry ==
  ASSUME TypeOK, SequenceContiguous, Counting, conn # "stopped",
         NEW e, NEW s \in Streams, tx' = Append(tx, e), e.kind = s, e.id = seq[s],
         seq' = [seq EXCEPT ![s] = @ + 1], e.wrote = "whole" \/ s = "MicComp"
  PROVE  SequenceContiguous' /\ Counting'
<1>1. tx \in Seq(Entry) /\ seq \in [Streams -> Nat]
  BY DEF TypeOK
<1>2. SequenceContiguous'
  BY <1>1, NumberedEntry DEF Counting
<1>3. ASSUME NEW r \in Streams
      PROVE  IF r = "MicComp" THEN \A j \in Heard(r)' : tx'[j].id < seq'[r]
             ELSE seq'[r] = Cardinality(Heard(r)')
  <2>1. Heard(r)' = IF s = r /\ e.wrote # "nothing"
                    THEN Heard(r) \union {Len(tx) + 1} ELSE Heard(r)
    BY <1>1, HeardGrows
  <2>2. seq'[r] = IF r = s THEN seq[r] + 1 ELSE seq[r]
    BY <1>1
  <2>3. \A j \in Heard(r) : tx'[j] = tx[j] /\ tx[j].id \in Nat /\ j # Len(tx) + 1
    <3>1. \A j \in Heard(r) : j \in 1..Len(tx) /\ tx[j] \in Entry
      BY <1>1 DEF Heard
    <3> QED BY <1>1, <3>1, HeardGrows DEF Entry
  <2>4. IsFiniteSet(Heard(r)) /\ Len(tx) + 1 \notin Heard(r)
    BY <1>1, <2>3, HeardFinite
  <2>5. CASE r = "MicComp"
    <3>0. \A j \in Heard(r) : tx[j].id < seq[r]
      BY <2>5 DEF Counting
    <3>1. \A j \in Heard(r) : tx'[j].id < seq'[r]
      <4>1. seq[r] \in Nat /\ (seq'[r] = seq[r] \/ seq'[r] = seq[r] + 1)
        BY <1>1, <2>2
      <4>2. ASSUME NEW j \in Heard(r) PROVE tx'[j].id < seq'[r]
        <5>1. tx'[j].id = tx[j].id
          BY <2>3
        <5>2. tx[j].id \in Nat
          BY <2>3
        <5>3. tx[j].id < seq[r]
          BY <3>0
        <5>4. tx[j].id < seq'[r]
          BY <4>1, <5>2, <5>3
        <5> QED BY <5>1, <5>4
      <4> QED BY <4>2
    <3>2. tx'[Len(tx) + 1] = e
      BY <1>1
    <3>3. s = r => e.id < seq'[r]
      BY <1>1, <2>2
    <3> QED BY <2>1, <2>5, <3>1, <3>2, <3>3
  <2>6. CASE r # "MicComp"
    <3>1. seq[r] = Cardinality(Heard(r))
      BY <2>6 DEF Counting
    <3>2. s = r => Cardinality(Heard(r) \union {Len(tx) + 1}) = Cardinality(Heard(r)) + 1
      BY <2>4, FS_AddElement
    <3>3. s = r => e.wrote # "nothing"
      BY <2>6
    <3> QED BY <2>1, <2>2, <2>6, <3>1, <3>2, <3>3
  <2> QED BY <2>5, <2>6
<1> QED BY <1>2, <1>3 DEF Counting

LEMMA NumbersStep ==
  ASSUME TypeOK, SequenceContiguous, Counting, [Service!Next]_(Service!vars)
  PROVE  SequenceContiguous' /\ Counting'
<1>0. tx \in Seq(Entry)
  BY DEF TypeOK
<1>1. CASE tx' = tx /\ (conn' = "stopped" \/ (conn # "stopped" /\ seq' = seq))
  BY <1>1 DEF SequenceContiguous, Counting, Earlier, Heard
<1>2. CASE UNCHANGED Service!vars
  BY <1>1, <1>2 DEF Service!vars
<1>3. CASE Service!Begin
  <2>1. tx' = << >> /\ seq' = [s \in Streams |-> 0]
    BY <1>3 DEF Service!Begin, Service!Nothing
  <2>2. \A s : Heard(s)' = {}
    BY <2>1 DEF Heard
  <2>3. Cardinality({}) = 0
    BY FS_EmptySet
  <2>4. SequenceContiguous'
    BY <2>1 DEF SequenceContiguous
  <2>5. \A s \in Streams : seq'[s] = 0
    BY <2>1
  <2>6. Counting'
    BY <2>2, <2>3, <2>5 DEF Counting
  <2> QED BY <2>4, <2>6
<1>4. CASE Service!Take
  <2>1. (conn' # "stopped") = (conn # "stopped") /\ conn # "stopped" /\ seq' = seq
    BY <1>4 DEF Service!Take
  <2>2. CASE tx' = tx
    BY <1>1, <2>1, <2>2
  <2>3. CASE tx' # tx
    <3>0. PICK a \in Replies : Service!Sending(a, handled', Service!Whole \union Service!Failed)
      BY <1>4, <2>3 DEF Service!Take, Replies
    <3>1. PICK e : tx' = Append(tx, e) /\ e.kind \in Replies
      BY <3>0 DEF Service!Sending
    <3>2. e.kind \notin Streams
      BY <3>1, ReplyKinds
    <3>3. SequenceContiguous'
      BY <1>0, <3>1, <3>2, NumberedEntry
    <3>4. ASSUME NEW s \in Streams
          PROVE  Heard(s)' = Heard(s) /\ \A j \in Heard(s) : tx'[j] = tx[j]
      BY <1>0, <3>1, <3>2, HeardGrows DEF Heard
    <3>5. Counting'
      BY <2>1, <3>4 DEF Counting
    <3> QED BY <3>3, <3>5
  <2> QED BY <2>2, <2>3
<1>5. ASSUME NEW s \in Streams, Service!Send(s) PROVE SequenceContiguous' /\ Counting'
  <2>1. PICK e : /\ tx' = Append(tx, e) /\ e.kind = s /\ e.id = seq[s] /\ e.wrote = "whole"
    BY <1>5 DEF Service!Send, Service!Sending, Service!Whole
  <2>2. conn # "stopped" /\ seq' = [seq EXCEPT ![s] = @ + 1]
    BY <1>5 DEF Service!Send
  <2> QED BY <2>1, <2>2, CountedEntry
<1>6. ASSUME NEW s \in Streams, Service!Skip(s) PROVE SequenceContiguous' /\ Counting'
  <2>1. PICK e : /\ tx' = Append(tx, e) /\ e.kind = s /\ e.id = seq[s]
    BY <1>6 DEF Service!Skip, Service!Sending
  <2>2. conn # "stopped" /\ seq' = [seq EXCEPT ![s] = @ + 1] /\ s = "MicComp"
    BY <1>6 DEF Service!Skip
  <2> QED BY <2>1, <2>2, CountedEntry
<1>7. CASE Service!End
  <2>1. conn # "stopped" /\ conn' = "stopped"
    BY <1>7 DEF Service!End
  <2>2. CASE tx' = tx
    BY <1>1, <2>1, <2>2
  <2>3. CASE tx' # tx
    <3>0. PICK s \in Streams : Service!Sending(s, seq[s], Service!Failed)
      BY <1>7, <2>3 DEF Service!End
    <3>1. PICK e : /\ tx' = Append(tx, e) /\ e.kind = s /\ e.id = seq[s]
      BY <3>0 DEF Service!Sending
    <3>2. SequenceContiguous'
      BY <1>0, <2>1, <3>1, NumberedEntry DEF Counting
    <3> QED BY <2>1, <3>2 DEF Counting
  <2> QED BY <2>2, <2>3
<1>8. CASE Service!Late
  <2>1. PICK e : tx' = Append(tx, e) /\ e.wrote = "nothing"
    BY <1>8 DEF Service!Late, Service!Sending
  <2>2. conn' = "stopped"
    BY <1>8 DEF Service!Late
  <2>3. SequenceContiguous'
    BY <1>0, <2>1, NumberedEntry
  <2> QED BY <2>2, <2>3 DEF Counting
<1> QED BY <1>2, <1>3, <1>4, <1>5, <1>6, <1>7, <1>8 DEF Service!Next

(* Without a gap a backend sees the numbers 0, 1, 2, ... of each stream on *)
(* a connection, over any number of re-subscriptions and failures in the   *)
(* middle of any routine; those of MicComp only grow (send*Frame, seq++).  *)
THEOREM NumbersCorrect == Spec => []SequenceContiguous
<1>1. Init => SequenceContiguous /\ Counting
  BY DEF Init, SequenceContiguous, Counting
<1>2. SessionInv /\ SequenceContiguous /\ Counting /\ [Next]_vars
        => SequenceContiguous' /\ Counting'
  BY ServiceStep, NumbersStep DEF SessionInv
<1> QED BY <1>1, <1>2, SessionCorrect, PTL DEF Spec

---------------------------------------------------------------------------
(* OnChangeOnly and the first reading.                                     *)

(* A sensor that counts as asked, or as sent before, has been reported     *)
(* since its latest Subscribe.                                             *)
Known(s) == polled[s] \/ haveLast[s]
KnownReported == conn # "stopped" => \A s \in Sensors : Known(s) => ReportedSince(s)

(* A report counts until the next Subscribe of its sensor. *)
LEMMA ReportKept ==
  ASSUME TypeOK, NEW s, ReportedSince(s), ready' = ready,
         reqs' = reqs \/ \E r : reqs' = Append(reqs, r),
         tx' = tx \/ \E e : tx' = Append(tx, e),
         \/ handled' = handled
         \/ handled' = handled + 1 /\ handled + 1 <= Len(reqs) /\ ~Starts(handled + 1, s)
  PROVE  ReportedSince(s)'
<1>0. /\ tx \in Seq(Entry) /\ reqs \in Seq(Request)
      /\ handled \in Nat /\ handled <= Len(reqs)
  BY DEF TypeOK
<1>1. PICK k \in 1..Len(tx) : /\ tx[k].kind = s
                              /\ \A i \in tx[k].after + 1 .. handled : ~Starts(i, s)
  BY DEF ReportedSince
<1>2. PICK n \in Nat : n = tx[k].after
  BY <1>0, EntryAfter
<1>3. k \in 1..Len(tx') /\ tx'[k] = tx[k]
  BY <1>0
<1>4. ASSUME NEW i \in n + 1 .. handled' PROVE ~Starts(i, s)'
  <2>1. i \in 1..Len(reqs) /\ ~Starts(i, s)
    BY <1>0, <1>1, <1>2
  <2>2. reqs'[i] = reqs[i]
    BY <1>0, <2>1
  <2> QED BY <2>1, <2>2 DEF Starts, SubscribeAnswer
<1> QED BY <1>1, <1>2, <1>3, <1>4 DEF ReportedSince

(* A handler keeps what is known of a sensor, or it is its Subscribe. *)
LEMMA DispatchKnows ==
  ASSUME TypeOK, DispatchPacket, NEW s \in Sensors, Known(s)'
  PROVE  Known(s) /\ ~Starts(handled + 1, s)
<1>0. polled \in [Sensors -> BOOLEAN] /\ haveLast \in [Sensors -> BOOLEAN]
  BY DEF TypeOK
<1>1. CASE HandleSubscribe /\ SubscribeAnswer(Current) = "Ack"
  <2>1. polled' = Off(polled, Current.target) /\ haveLast' = Off(haveLast, Current.target)
    BY <1>1 DEF HandleSubscribe, StartStream
  <2>2. s # Current.target /\ Known(s)
    BY <1>0, <2>1 DEF Known, Off
  <2> QED BY <2>2 DEF Starts, Current
<1>2. CASE HandleSubscribe /\ SubscribeAnswer(Current) # "Ack"
  BY <1>2 DEF HandleSubscribe, session, Known, Starts, Current
<1>3. CASE DispatchPacket /\ ~HandleSubscribe
  <2>1. UNCHANGED <<polled, haveLast>> /\ Current.op # "Subscribe"
    BY <1>3 DEF DispatchPacket, HandleHeartbeat, HandleUnsubscribe, HandleIrTransmit,
       HandleSpkPCM, HandleSpkComp, HandleUnsupported, AnswerData, Dispatching, session
  <2> QED BY <2>1 DEF Known, Starts, Current
<1> QED BY <1>1, <1>2, <1>3

(* What is sent of the first due sensor is its report. *)
LEMMA SenseReports ==
  ASSUME TypeOK, SenseSend, NEW s, s = FirstDue
  PROVE  ReportedSince(s)'
<1>0. tx \in Seq(Entry) /\ handled \in Nat
  BY DEF TypeOK
<1>2. handled' = handled
  BY DEF SenseSend, SenseNext, Moves
<1>3. PICK e : tx' = Append(tx, e) /\ e.kind = s /\ e.after = handled'
  BY SendDataWrites DEF SenseSend
<1>4. Len(tx) + 1 \in 1..Len(tx') /\ tx'[Len(tx) + 1] = e
  BY <1>0, <1>3
<1>5. handled' + 1 .. handled' = {}
  BY <1>0, <1>2
<1> QED BY <1>3, <1>4, <1>5 DEF ReportedSince

LEMMA KnownStep ==
  ASSUME SessionInv, KnownReported, [Next]_vars
  PROVE  KnownReported'
<1> USE DEF SessionInv
<1> SUFFICES ASSUME conn' # "stopped", NEW s \in Sensors, Known(s)'
             PROVE  ReportedSince(s)'
  BY DEF KnownReported
<1>0. polled \in [Sensors -> BOOLEAN] /\ haveLast \in [Sensors -> BOOLEAN]
  BY DEF TypeOK
<1>1. ASSUME Known(s), conn # "stopped" PROVE ReportedSince(s)
  BY <1>1 DEF KnownReported
<1>2. CASE Still
  BY <1>1, <1>2, ReportKept DEF Still, Known
<1>3. CASE Accept
  BY <1>3 DEF Accept, ResetSession, AllSensors, Known
<1>4. CASE PollTcpReceive \/ PeerRequest \/ PeerLost
  <2>1. Known(s) /\ conn # "stopped" /\ UNCHANGED <<ready, tx, handled>>
        /\ (reqs' = reqs \/ \E r : reqs' = Append(reqs, r))
    BY <1>4 DEF PollTcpReceive, PeerRequest, PeerLost, session, rx, Known
  <2> QED BY <1>1, <2>1, ReportKept
<1>5. CASE RxFault
  BY <1>5 DEF RxFault, Disconnect
<1>6. CASE DispatchPacket
  <2>1. /\ UNCHANGED <<conn, ready, reqs>>
        /\ handled' = handled + 1 /\ handled + 1 <= Len(reqs)
    BY <1>6, DispatchFrame DEF TypeOK
  <2>2. Known(s) /\ ~Starts(handled + 1, s)
    BY <1>6, DispatchKnows
  <2>3. tx' = tx \/ \E e : tx' = Append(tx, e)
    BY <1>6, DispatchWrites
  <2> QED BY <1>1, <2>1, <2>2, <2>3, ReportKept
<1>7. CASE SenseSkip
  <2>1. /\ UNCHANGED <<conn, ready, reqs, handled, tx>>
        /\ haveLast[FirstDue]
        /\ polled' = [polled EXCEPT ![FirstDue] = TRUE] /\ haveLast' = haveLast
    BY <1>7 DEF SenseSkip, SenseNext, Moves
  <2>2. Known(s)
    BY <1>0, <2>1 DEF Known
  <2> QED BY <1>1, <2>1, <2>2, ReportKept
<1>8. ASSUME Sending, UNCHANGED <<polled, haveLast>> PROVE ReportedSince(s)'
  <2>1. UNCHANGED <<conn, ready, reqs, handled>> /\ \E e : tx' = Append(tx, e)
    BY <1>8, SendingKeeps, SendingWrites
  <2> QED BY <1>1, <1>8, <2>1, ReportKept DEF Known
<1>9. CASE IrSend \/ MicPCM \/ MicComp
  <2>1. UNCHANGED <<polled, haveLast>>
    BY <1>9 DEF IrSend, MicPCM, MicComp, SendData, Disconnect
  <2> QED BY <1>8, <1>9, <2>1 DEF Sending
<1>10. CASE SenseSend
  <2>1. CASE s = FirstDue
    BY <1>10, <2>1, SenseReports
  <2>2. CASE s # FirstDue
    <3>1. Known(s)
      BY <1>0, <1>10, <2>2 DEF SenseSend, SendData, Disconnect, Known
    <3>2. UNCHANGED <<conn, ready, reqs, handled>> /\ \E e : tx' = Append(tx, e)
      BY <1>10, SendingKeeps, SendingWrites DEF Sending
    <3> QED BY <1>1, <3>1, <3>2, ReportKept
  <2> QED BY <2>1, <2>2
<1> QED BY <1>2, <1>3, <1>4, <1>5, <1>6, <1>7, <1>9, <1>10, StepCases

(* However often a backend subscribes to a sensor again, and whatever it   *)
(* was sent before, OnChangeOnly does not swallow the first reading that   *)
(* follows (haveLast* = false in handleSubscribe).                         *)
THEOREM FirstReportSent == Spec => []FirstReport
<1>1. Init => KnownReported
  BY DEF Init, KnownReported
<1>2. SessionInv /\ KnownReported /\ [Next]_vars => KnownReported'
  BY KnownStep
<1>3. KnownReported => FirstReport
  BY DEF KnownReported, Known, FirstReport
<1> QED BY <1>1, <1>2, <1>3, SessionCorrect, PTL DEF Spec
=============================================================================
