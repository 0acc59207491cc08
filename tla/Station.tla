------------------------------ MODULE Station ------------------------------
(***************************************************************************)
(* The firmware's session: appLoop and the handlers and polling routines   *)
(* it calls (esp32/app.cpp), serving one backend at a time over TCP.       *)
(*                                                                         *)
(* The program is one loop task; what interleaves with it is the network   *)
(* (clients connecting, packets arriving, connections lost, writes that    *)
(* time out half way), the infrared receiver's interrupt, and time.  A     *)
(* step of the module is one packet handled, or one stretch of a polling   *)
(* routine up to and including its next write to the socket.               *)
(*                                                                         *)
(* Packets are whole here: module WspReceive shows that rxBuffer delivers  *)
(* them so.  The k-th packet of a connection carries k in its header's     *)
(* last field, requestId or sequence.                                      *)
(***************************************************************************)
EXTENDS Integers, Sequences, FiniteSets

CONSTANTS
  Requests,          \* the packets backends send, a subset of Request
  ReadySets,         \* which drivers may have come up at boot
  MaxRequests,       \* bound: packets a backend sends on one connection
  MaxTx,             \* bound: no new data once the log is this long
  MaxSessions        \* bound: connections

Sensors == {"AmbientLight", "Temperature", "Humidity"}
Streams == {"MicPCM", "MicComp", "IrReceive"} \union Sensors
Ops == {"Heartbeat", "Subscribe", "Unsubscribe", "IrTransmit", "SpkPCM",
        "SpkComp", "Error", "Other"}

(* A packet as the handlers tell packets apart. wellFormed: the payload    *)
(* passes every size and format check of its handler. "NoTarget": any      *)
(* target type that is not one of the streams.                             *)
Request == [op : Ops, target : Streams \union {"NoTarget"},
            wellFormed : BOOLEAN, onChange : BOOLEAN]

Drivers == {"mic", "opusEncoder", "opusDecoder", "light", "dht", "speaker"}

ASSUME RequestsAssumption == Requests \subseteq Request
ASSUME ReadyAssumption == ReadySets \subseteq SUBSET Drivers

VARIABLES
  conn,              \* "open"; "lost": connected() is false; "stopped": closed here
  backlog,           \* clients waiting in the listening socket
  sessions,          \* connections accepted so far
  pc,                \* where the loop task is
  ready,             \* drivers that came up in appSetup
  sub,               \* SubscriptionState: which streams are on
  onChange,          \* *_on_change_only of the sensors
  polled,            \* last*Ms # 0; the wrap of millis() is SensorPoll's
  haveLast,          \* haveLast*
  seq,               \* *Seq, the next sequence number of each stream
  due,               \* pollSensors' locals need*, those not yet worked off
  capture,           \* the infrared receiver's finished capture
  reqs,              \* packets the backend sent on this connection
  taken,             \* how many of them have been read into rxBuffer
  handled,           \* how many of them were dispatched
  tx                 \* every wspWritePacket of this connection, in order

session == <<sub, onChange, polled, haveLast, seq>>
rx == <<reqs, taken, handled>>
vars == <<conn, backlog, sessions, pc, ready, session, due, capture, rx, tx>>

---------------------------------------------------------------------------
(* Writing to the socket.                                                  *)

Replies == {"Ack", "Heartbeat", "Unsupported", "InvalidPayload", "Busy"}

(* kind: a reply or the stream; id: requestId or sequence; after: packets  *)
(* dispatched before; wrote: how much of it reached the socket.            *)
Entry == [kind : Replies \union Streams, id : Nat, after : Nat,
          wrote : {"whole", "part", "nothing"}]

(* wspWritePacket: refuses a closed connection, and on an open one gives   *)
(* up after a second of a full send buffer, with whatever was written.     *)
WriteResults == IF conn = "open" THEN {"whole", "part", "nothing"} ELSE {"nothing"}

Write(kind, id, w) ==
  tx' = Append(tx, [kind |-> kind, id |-> id, after |-> handled', wrote |-> w])

(* Ack, Error and Heartbeat replies: nobody looks at the result. *)
Reply(kind, id) == \E w \in WriteResults : Write(kind, id, w)

---------------------------------------------------------------------------
(* The session.                                                            *)

AllStreams(x) == [s \in Streams |-> x]
AllSensors(x) == [s \in Sensors |-> x]
NoCapture == [full |-> FALSE, session |-> 0, subscribed |-> FALSE]

(* Broken variant: rxSize is cleared, the packet being handled is not.     *)
ResetSessionFromScratch == /\ sub' = AllStreams(FALSE)
                           /\ onChange' = AllSensors(FALSE)
                           /\ polled' = AllSensors(FALSE)
                           /\ haveLast' = AllSensors(FALSE)
                           /\ seq' = AllStreams(0)
                           /\ taken' = 0

(* Broken variant: `sub = SubscriptionState{}` is missing. *)
ResetSessionKeepsSub == /\ polled' = AllSensors(FALSE)
                        /\ haveLast' = AllSensors(FALSE)
                        /\ seq' = AllStreams(0)
                        /\ taken' = handled'
                        /\ UNCHANGED <<sub, onChange>>

(* resetSessionState, of which rxSize = 0 is the last conjunct. *)
ResetSession == /\ sub' = AllStreams(FALSE)
                /\ onChange' = AllSensors(FALSE)
                /\ polled' = AllSensors(FALSE)
                /\ haveLast' = AllSensors(FALSE)
                /\ seq' = AllStreams(0)
                /\ taken' = handled'

(* disconnectClient *)
Disconnect == conn' = "stopped" /\ ResetSession

Init == /\ conn = "stopped"
        /\ backlog = 0
        /\ sessions = 0
        /\ pc = "loop"
        /\ ready \in ReadySets
        /\ sub = AllStreams(FALSE)
        /\ onChange = AllSensors(FALSE)
        /\ polled = AllSensors(FALSE)
        /\ haveLast = AllSensors(FALSE)
        /\ seq = AllStreams(0)
        /\ due = {}
        /\ capture = NoCapture
        /\ reqs = << >>
        /\ taken = 0
        /\ handled = 0
        /\ tx = << >>

---------------------------------------------------------------------------
(* Environment: backends, the network, the infrared receiver.              *)

PeerConnect == /\ sessions + backlog < MaxSessions
               /\ backlog' = backlog + 1
               /\ UNCHANGED <<conn, sessions, pc, ready, session, due, capture,
                              rx, tx>>

PeerRequest == /\ conn = "open"
               /\ Len(reqs) < MaxRequests
               /\ \E r \in Requests : reqs' = Append(reqs, r)
               /\ UNCHANGED <<conn, backlog, sessions, pc, ready, session, due,
                              capture, taken, handled, tx>>

PeerLost == /\ conn = "open"
            /\ conn' = "lost"
            /\ UNCHANGED <<backlog, sessions, pc, ready, session, due, capture,
                           rx, tx>>

(* The receiver holds one finished capture until decode() takes it; what   *)
(* arrives meanwhile is not recorded.  The fields remember what was        *)
(* subscribed when the signal ended.                                       *)
IrSignal == /\ ~capture.full
            /\ capture' = [full |-> TRUE, session |-> sessions,
                           subscribed |-> sub["IrReceive"]]
            /\ UNCHANGED <<conn, backlog, sessions, pc, ready, session, due,
                           rx, tx>>

---------------------------------------------------------------------------
(* appLoop: Wi-Fi and the listening socket.                                *)

WifiDown == /\ pc = "loop"
            /\ pc' = "wifi"
            /\ UNCHANGED <<conn, backlog, sessions, ready, session, due, capture,
                           rx, tx>>

(* connectWifi returns, and the iteration goes on. *)
WifiUp == /\ pc = "wifi"
          /\ pc' = "connected"
          /\ UNCHANGED <<conn, backlog, sessions, ready, session, due, capture,
                         rx, tx>>

AtTop == pc \in {"loop", "connected"}

NoClient == /\ AtTop
            /\ conn # "open"
            /\ backlog = 0
            /\ pc' = "loop"
            /\ UNCHANGED <<conn, backlog, sessions, ready, session, due, capture,
                           rx, tx>>

(* Broken variant: `!client` alone decides, so a client that was lost, but *)
(* never stopped here, keeps its place.                                    *)
AcceptIfNoClient == /\ AtTop
                    /\ conn = "stopped"
                    /\ backlog > 0
                    /\ backlog' = backlog - 1
                    /\ conn' = "open"
                    /\ sessions' = sessions + 1
                    /\ pc' = "loop"
                    /\ reqs' = << >>
                    /\ handled' = 0
                    /\ tx' = << >>
                    /\ ResetSession
                    /\ UNCHANGED <<ready, due, capture>>

Accept == /\ AtTop
          /\ conn # "open"
          /\ backlog > 0
          /\ backlog' = backlog - 1
          /\ conn' = "open"
          /\ sessions' = sessions + 1
          /\ pc' = "loop"
          /\ reqs' = << >>
          /\ handled' = 0
          /\ tx' = << >>
          /\ ResetSession
          /\ UNCHANGED <<ready, due, capture>>

(* pollTcpReceive reads whatever has arrived. *)
PollTcpReceive == /\ AtTop
                  /\ conn = "open"
                  /\ taken' \in taken..Len(reqs)
                  /\ pc' = "rx"
                  /\ UNCHANGED <<conn, backlog, sessions, ready, session, due,
                                 capture, reqs, handled, tx>>

(* Receive buffer overflow, or a header that is refused. *)
RxFault == /\ pc = "rx"
           /\ pc' = "ir"
           /\ UNCHANGED <<backlog, sessions, ready, due, capture, reqs, handled, tx>>
           /\ Disconnect

(* Broken variant: what has arrived meanwhile is read as well. *)
RxDoneReadsOn == /\ pc = "rx"
                 /\ handled = taken
                 /\ taken' = Len(reqs)
                 /\ pc' = IF taken' = taken THEN "ir" ELSE "rx"
                 /\ UNCHANGED <<conn, backlog, sessions, ready, session, due,
                                capture, reqs, handled, tx>>

RxDone == /\ pc = "rx"
          /\ handled = taken
          /\ pc' = "ir"
          /\ UNCHANGED <<conn, backlog, sessions, ready, session, due, capture,
                         rx, tx>>

---------------------------------------------------------------------------
(* processRxBuffer and dispatchPacket: one packet per step.                *)

Current == reqs[handled + 1]
Id == handled + 1

Dispatching(ops) == /\ pc = "rx"
                    /\ handled < taken
                    /\ Current.op \in ops
                    /\ handled' = handled + 1
                    /\ UNCHANGED <<conn, backlog, sessions, pc, ready, due, reqs,
                                   taken>>

HandleHeartbeat == /\ Dispatching({"Heartbeat"})
                   /\ Reply("Heartbeat", Id)
                   /\ UNCHANGED <<session, capture>>

(* Nothing asks whether the microphone came up. *)
Needed(s) == CASE s = "MicComp" -> {"opusEncoder"}
               [] s = "AmbientLight" -> {"light"}
               [] s \in {"Temperature", "Humidity"} -> {"dht"}
               [] OTHER -> {}

SubscribeAnswer(r) ==
  IF ~r.wellFormed THEN "InvalidPayload"
  ELSE IF r.target \in Streams /\ Needed(r.target) \subseteq ready THEN "Ack"
  ELSE "Unsupported"

(* Off(f, s): f with s, if it is one of f's arguments, turned off. *)
Off(f, s) == [x \in DOMAIN f |-> f[x] /\ x # s]

(* Broken variant: irClearReceive is not called. *)
StartStreamKeepsCapture(r) ==
  /\ sub' = [sub EXCEPT ![r.target] = TRUE]
  /\ onChange' = [s \in Sensors |-> IF s = r.target THEN r.onChange ELSE onChange[s]]
  /\ polled' = Off(polled, r.target)
  /\ haveLast' = Off(haveLast, r.target)
  /\ UNCHANGED <<seq, capture>>

(* Broken variant: haveLast* survives a second Subscribe. *)
StartStreamKeepsLast(r) ==
  /\ sub' = [sub EXCEPT ![r.target] = TRUE]
  /\ onChange' = [s \in Sensors |-> IF s = r.target THEN r.onChange ELSE onChange[s]]
  /\ polled' = Off(polled, r.target)
  /\ capture' = IF r.target = "IrReceive" THEN NoCapture ELSE capture
  /\ UNCHANGED <<seq, haveLast>>

(* What an accepted Subscribe changes before its Ack: the sensor timers    *)
(* start anew, the sequence numbers do not.                                *)
StartStream(r) ==
  /\ sub' = [sub EXCEPT ![r.target] = TRUE]
  /\ onChange' = [s \in Sensors |-> IF s = r.target THEN r.onChange ELSE onChange[s]]
  /\ polled' = Off(polled, r.target)
  /\ haveLast' = Off(haveLast, r.target)
  /\ capture' = IF r.target = "IrReceive" THEN NoCapture ELSE capture
  /\ UNCHANGED seq

HandleSubscribe ==
  /\ Dispatching({"Subscribe"})
  /\ Reply(SubscribeAnswer(Current), Id)
  /\ IF SubscribeAnswer(Current) = "Ack"
     THEN StartStream(Current)
     ELSE UNCHANGED <<session, capture>>

UnsubscribeAnswer(r) ==
  IF ~r.wellFormed THEN "InvalidPayload"
  ELSE IF r.target \in Streams THEN "Ack" ELSE "Unsupported"

(* Broken variant: the branch of MicPCM clears the flag of MicComp. *)
HandleUnsubscribeWrongMic ==
  /\ Dispatching({"Unsubscribe"})
  /\ Reply(UnsubscribeAnswer(Current), Id)
  /\ sub' = IF UnsubscribeAnswer(Current) # "Ack" THEN sub
            ELSE Off(sub, IF Current.target = "MicPCM" THEN "MicComp" ELSE Current.target)
  /\ UNCHANGED <<onChange, polled, haveLast, seq, capture>>

(* Broken variant: the size check returns without an Error. *)
HandleUnsubscribeSilent ==
  /\ Dispatching({"Unsubscribe"})
  /\ IF Current.wellFormed THEN Reply(UnsubscribeAnswer(Current), Id) ELSE UNCHANGED tx
  /\ sub' = IF UnsubscribeAnswer(Current) = "Ack" THEN Off(sub, Current.target) ELSE sub
  /\ UNCHANGED <<onChange, polled, haveLast, seq, capture>>

HandleUnsubscribe ==
  /\ Dispatching({"Unsubscribe"})
  /\ Reply(UnsubscribeAnswer(Current), Id)
  /\ sub' = IF UnsubscribeAnswer(Current) = "Ack" THEN Off(sub, Current.target) ELSE sub
  /\ UNCHANGED <<onChange, polled, haveLast, seq, capture>>

(* Data packets are answered only when they are refused.                   *)
IrTransmitAnswers(r) == IF r.wellFormed THEN {"none"} ELSE {"InvalidPayload"}

(* A format the firmware does not play is Unsupported, a size that does    *)
(* not fit is InvalidPayload; a full I2S queue is Busy.                    *)
SpkPCMAnswers(r) == IF "speaker" \notin ready THEN {"Unsupported"}
                    ELSE IF ~r.wellFormed THEN {"InvalidPayload", "Unsupported"}
                    ELSE {"none", "Busy"}

(* Opus may also refuse to decode a frame of the right shape.              *)
SpkCompAnswers(r) == IF ~({"speaker", "opusDecoder"} \subseteq ready) THEN {"Unsupported"}
                     ELSE IF ~r.wellFormed THEN {"InvalidPayload", "Unsupported"}
                     ELSE {"none", "Busy", "InvalidPayload"}

AnswerData(answers) ==
  /\ \E a \in answers :
       IF a = "none" THEN UNCHANGED tx ELSE Reply(a, Id)
  /\ UNCHANGED <<session, capture>>

HandleIrTransmit == Dispatching({"IrTransmit"}) /\ AnswerData(IrTransmitAnswers(Current))
HandleSpkPCM == Dispatching({"SpkPCM"}) /\ AnswerData(SpkPCMAnswers(Current))
HandleSpkComp == Dispatching({"SpkComp"}) /\ AnswerData(SpkCompAnswers(Current))

(* Broken variant: the parse loop goes round again without taking the      *)
(* packet out of the buffer.                                               *)
HandleUnsupportedNotConsumed == /\ pc = "rx"
                                /\ handled < taken
                                /\ Current.op \in {"Error", "Other"}
                                /\ UNCHANGED vars

(* Broken variant: an unknown type throws the whole buffer away. *)
HandleUnsupportedDropsRest == /\ pc = "rx"
                              /\ handled < taken
                              /\ Current.op \in {"Error", "Other"}
                              /\ handled' = taken
                              /\ Reply("Unsupported", Id)
                              /\ UNCHANGED <<conn, backlog, sessions, pc, ready, session,
                                             due, capture, reqs, taken>>

(* Every other type, an Error or Ack of the host among them. *)
HandleUnsupported == /\ Dispatching({"Error", "Other"})
                     /\ Reply("Unsupported", Id)
                     /\ UNCHANGED <<session, capture>>

DispatchPacket == \/ HandleHeartbeat \/ HandleSubscribe \/ HandleUnsubscribe
                  \/ HandleIrTransmit \/ HandleSpkPCM \/ HandleSpkComp
                  \/ HandleUnsupported

---------------------------------------------------------------------------
(* Sending data.                                                           *)

(* Broken variant: a failed write drops the packet, as for MicComp. *)
SendDataKeepsGoing(s, asked, have) ==
  \E w \in WriteResults :
    /\ Write(s, seq[s], w)
    /\ seq' = [seq EXCEPT ![s] = @ + 1]
    /\ polled' = asked
    /\ haveLast' = IF w = "whole" THEN have ELSE haveLast
    /\ UNCHANGED <<conn, sub, onChange, taken>>

(* Broken variant: disconnectClient does nothing when there is no client   *)
(* any more.                                                               *)
SendDataResetsOnce(s, asked, have) ==
  \E w \in WriteResults :
    /\ Write(s, seq[s], w)
    /\ IF w = "whole" \/ conn = "stopped"
       THEN /\ seq' = [seq EXCEPT ![s] = @ + 1]
            /\ polled' = asked
            /\ haveLast' = IF w = "whole" THEN have ELSE haveLast
            /\ UNCHANGED <<conn, sub, onChange, taken>>
       ELSE Disconnect

(* The next packet of stream s. A sensor packet sent whole also updates    *)
(* the sensor's change detection; a failed one ends the session.           *)
SendData(s, asked, have) ==
  \E w \in WriteResults :
    /\ Write(s, seq[s], w)
    /\ IF w = "whole"
       THEN /\ seq' = [seq EXCEPT ![s] = @ + 1]
            /\ polled' = asked
            /\ haveLast' = have
            /\ UNCHANGED <<conn, sub, onChange, taken>>
       ELSE Disconnect

Moves(from, to) == /\ pc = from
                   /\ pc' = to
                   /\ UNCHANGED <<backlog, sessions, ready, reqs, handled>>

Quiet == UNCHANGED <<conn, session, taken, tx>>

(* pollIrReceive has nothing to send. *)
IrIdle == /\ Moves("ir", "sensors")
          /\ (conn = "open" /\ sub["IrReceive"]) => ~capture.full
          /\ Quiet
          /\ UNCHANGED <<due, capture>>

(* decode() takes the capture; irReceiveRaw drops one with no mark in it. *)
IrTaken == /\ Moves("ir", "sensors")
           /\ conn = "open" /\ sub["IrReceive"] /\ capture.full
           /\ capture' = NoCapture
           /\ UNCHANGED due

IrEmpty == IrTaken /\ Quiet

IrSend == IrTaken /\ Len(tx) < MaxTx /\ SendData("IrReceive", polled, haveLast)

(* Sensors that need a reading: those never asked since their Subscribe,   *)
(* and those whose interval has passed, which time decides (SensorPoll).   *)
NeverAsked == {s \in Sensors : sub[s] /\ ~polled[s]}
Subscribed == {s \in Sensors : sub[s]}

SensorsIdle == /\ Moves("sensors", "mic")
               /\ conn = "open" => NeverAsked = {} \/ Len(tx) >= MaxTx
               /\ Quiet
               /\ UNCHANGED <<due, capture>>

SensorsDue == /\ Moves("sensors", "sense")
              /\ conn = "open"
              /\ Len(tx) < MaxTx
              /\ due' \in (SUBSET Subscribed) \ {{}}
              /\ NeverAsked \subseteq due'
              /\ Quiet
              /\ UNCHANGED capture

FirstDue == IF "AmbientLight" \in due THEN "AmbientLight"
            ELSE IF "Temperature" \in due THEN "Temperature" ELSE "Humidity"

(* Work off the next needed sensor, whatever became of the session since   *)
(* the need was computed.                                                  *)
SenseNext == /\ due # {}
             /\ due' = due \ {FirstDue}
             /\ Moves("sense", IF due' = {} THEN "mic" ELSE "sense")
             /\ UNCHANGED capture

(* maybeSendSensor: a valid reading near the last one sent is skipped.     *)
SenseSkip == /\ SenseNext
             /\ onChange[FirstDue] /\ haveLast[FirstDue]
             /\ polled' = [polled EXCEPT ![FirstDue] = TRUE]
             /\ UNCHANGED <<conn, sub, onChange, haveLast, seq, taken, tx>>

SenseSend == /\ SenseNext
             /\ \E valid \in BOOLEAN :
                  SendData(FirstDue, [polled EXCEPT ![FirstDue] = TRUE],
                           [haveLast EXCEPT ![FirstDue] = @ \/ valid])

(* pollMic: nobody listens, or no whole frame could be read. *)
MicIdle == /\ Moves("mic", "loop")
           /\ Quiet
           /\ UNCHANGED <<due, capture>>

(* micReadFrame returned a frame, as it never does when micBegin failed.   *)
MicFrame == /\ conn = "open" /\ "mic" \in ready
            /\ Len(tx) < MaxTx
            /\ UNCHANGED <<due, capture>>

MicPCM == /\ pc = "mic"
          /\ MicFrame /\ sub["MicPCM"]
          /\ UNCHANGED <<backlog, sessions, ready, reqs, handled>>
          /\ SendData("MicPCM", polled, haveLast)
          /\ pc' = IF sub'["MicComp"] THEN "comp" ELSE "loop"

MicCompOnly == /\ Moves("mic", "comp")
               /\ MicFrame /\ ~sub["MicPCM"] /\ sub["MicComp"]
               /\ Quiet

(* The encoder fails: the frame is gone and no sequence number with it. *)
MicCompDrop == /\ Moves("comp", "loop")
               /\ Quiet
               /\ UNCHANGED <<due, capture>>

(* A failed write of MicComp drops the frame and keeps the connection. *)
MicComp == /\ Moves("comp", "loop")
           /\ \E w \in WriteResults : Write("MicComp", seq["MicComp"], w)
           /\ seq' = [seq EXCEPT !["MicComp"] = @ + 1]
           /\ UNCHANGED <<conn, sub, onChange, polled, haveLast, taken, due, capture>>

---------------------------------------------------------------------------
Loop == \/ WifiUp \/ NoClient \/ Accept
        \/ PollTcpReceive \/ RxDone \/ DispatchPacket
        \/ IrIdle \/ IrEmpty \/ IrSend
        \/ SensorsIdle \/ SensorsDue \/ SenseSkip \/ SenseSend
        \/ MicIdle \/ MicPCM \/ MicCompOnly \/ MicCompDrop \/ MicComp

Environment == \/ PeerConnect \/ PeerRequest \/ PeerLost \/ IrSignal
               \/ WifiDown \/ RxFault

Next == Loop \/ Environment

(* Everything in flight has arrived. *)
ReceiveAll == PollTcpReceive /\ taken' = Len(reqs)

(* The loop task keeps running, Wi-Fi comes back, TCP delivers; nothing    *)
(* makes the network fail or a backend appear.                             *)
Fairness == WF_vars(Loop) /\ SF_vars(ReceiveAll)

Spec == Init /\ [][Next]_vars /\ Fairness

---------------------------------------------------------------------------
(* Properties.                                                             *)

(* Every variable keeps its type; the packets dispatched, read and sent    *)
(* are ordered; pollSensors leaves no reading behind when it returns.      *)
TypeOK == /\ conn \in {"open", "lost", "stopped"}
          /\ backlog \in Nat
          /\ sessions \in Nat
          /\ pc \in {"loop", "wifi", "connected", "rx", "ir", "sensors", "sense",
                     "mic", "comp"}
          /\ ready \subseteq Drivers
          /\ sub \in [Streams -> BOOLEAN]
          /\ onChange \in [Sensors -> BOOLEAN]
          /\ polled \in [Sensors -> BOOLEAN]
          /\ haveLast \in [Sensors -> BOOLEAN]
          /\ seq \in [Streams -> Nat]
          /\ due \subseteq Sensors
          /\ due # {} <=> pc = "sense"
          /\ capture \in [full : BOOLEAN, session : Nat, subscribed : BOOLEAN]
          /\ reqs \in Seq(Request)
          /\ handled \in Nat /\ taken \in Nat
          /\ handled <= taken /\ taken <= Len(reqs)
          /\ tx \in Seq(Entry)

(* After disconnectClient the session is as new, whatever the routine that *)
(* called it still does with values it read before: pollSensors goes on to *)
(* the next sensor, sets its timer and counts its sequence number.         *)
Clean == /\ sub = AllStreams(FALSE)
         /\ onChange = AllSensors(FALSE)
         /\ polled = AllSensors(FALSE)
         /\ haveLast = AllSensors(FALSE)
         /\ seq = AllStreams(0)
         /\ taken = handled
IdleClean == conn = "stopped" => Clean

(* The first n packets of this connection leave stream s subscribed. *)
Starts(i, s) == /\ reqs[i].op = "Subscribe"
                /\ reqs[i].target = s
                /\ SubscribeAnswer(reqs[i]) = "Ack"
Stops(i, s) == /\ reqs[i].op = "Unsubscribe"
               /\ reqs[i].target = s
               /\ UnsubscribeAnswer(reqs[i]) = "Ack"
SubscribedAfter(n, s) ==
  \E i \in 1..n : Starts(i, s) /\ \A j \in i+1..n : ~Stops(j, s)

(* A subscription is on exactly when the packets of this very connection   *)
(* put it on: none survives from the backend before.                       *)
SubscriptionsFollowRequests ==
  conn # "stopped" => \A s \in Streams : sub[s] <=> SubscribedAfter(handled, s)

(* Why the data below is always of a subscribed stream: the locals that    *)
(* pollMic and pollSensors carry from their checks to their writes.        *)
CompSubscribed == pc = "comp" => conn # "stopped" /\ sub["MicComp"]
DueSubscribed == conn # "stopped" => \A s \in due : sub[s]
CaptureFresh == sub["IrReceive"] /\ capture.full =>
                  capture.session = sessions /\ capture.subscribed
AfterBounded == \A k \in 1..Len(tx) : tx[k].after <= handled

(* Whatever the station sends of a stream, it sends between a Subscribe it *)
(* accepted on this connection and the Unsubscribe that ends it.           *)
DataOnlyWhileSubscribed ==
  \A k \in 1..Len(tx) :
    tx[k].kind \in Streams => \/ SubscribedAfter(tx[k].after, tx[k].kind)
                             \/ tx[k].wrote = "nothing"

(* The packets of the stream of entry k that reached the socket before it. *)
Earlier(k) == {j \in 1..k - 1 : tx[j].kind = tx[k].kind /\ tx[j].wrote # "nothing"}

(* README.md:177: a backend sees the numbers 0, 1, 2, ... of a stream on   *)
(* a connection, without a gap, over any number of re-subscriptions; only  *)
(* MicComp, which outlives failed writes, may skip numbers.                *)
SequenceContiguous ==
  \A k \in 1..Len(tx) :
    tx[k].kind \in Streams /\ tx[k].wrote # "nothing" =>
      IF tx[k].kind = "MicComp"
      THEN \A j \in Earlier(k) : tx[j].id < tx[k].id
      ELSE tx[k].id = Cardinality(Earlier(k))

(* A report of sensor s was sent, or tried, since its latest Subscribe. *)
ReportedSince(s) ==
  \E k \in 1..Len(tx) : /\ tx[k].kind = s
                        /\ \A i \in tx[k].after + 1 .. handled : ~Starts(i, s)

(* A sensor asked since its latest Subscribe has been reported since then: *)
(* OnChangeOnly never swallows the first reading after a Subscribe.        *)
FirstReport == conn # "stopped" => \A s \in Sensors : polled[s] => ReportedSince(s)

(* A capture that is sent was recorded on this connection while IrReceive  *)
(* was on: irClearReceive in Subscribe throws older ones away.             *)
FreshCapture == [][IrSend => capture.session = sessions /\ capture.subscribed]_vars

(* README.md:379: a packet of data that does not get out whole is the last *)
(* thing a backend gets on its connection, whatever the routine it failed  *)
(* in had still to send; MicComp alone is no end.                          *)
FailedSendEnds ==
  \A k \in 1..Len(tx) :
    tx[k].kind \in Streams \ {"MicComp"} /\ tx[k].wrote # "whole" =>
      \A j \in k + 1..Len(tx) : tx[j].wrote = "nothing"

(* The replies to the packet with number k. *)
Answers(k) == {i \in 1..Len(tx) : tx[i].kind \in Replies /\ tx[i].id = k}

(* A backend that pipelines its packets can match the replies: they come   *)
(* in the order of the packets, at most one for each, and every packet     *)
(* that is not data gets, or cost, one.                                    *)
Asking == {"Heartbeat", "Subscribe", "Unsubscribe", "Error", "Other"}
AnsweredInOrder ==
  /\ \A i, j \in 1..Len(tx) :
       i < j /\ {tx[i].kind, tx[j].kind} \subseteq Replies => tx[i].id < tx[j].id
  /\ \A k \in 1..handled : reqs[k].op \in Asking => Answers(k) # {}

(* What of a pass of appLoop is left: packets to dispatch, then at most    *)
(* one packet of infrared, three of sensors and two of the microphone.     *)
PassRank == CASE pc = "rx" -> 8 + taken - handled
              [] pc = "ir" -> 7
              [] pc = "sensors" -> 6
              [] pc = "sense" -> 2 + Cardinality(due)
              [] pc = "mic" -> 2
              [] pc = "comp" -> 1
              [] OTHER -> 0

(* Nothing a backend or the network does while a pass is under way makes   *)
(* it longer, and each step of the loop task, which may block for a second *)
(* in its one write, shortens it: the socket is looked at again.           *)
PassBounded == [][PassRank > 0 => /\ PassRank' <= PassRank
                                  /\ Loop => PassRank' < PassRank
                                  /\ Len(tx') <= Len(tx) + PassRank - PassRank']_vars

(* The inductive invariant of the safety properties above. *)
SessionInv == /\ TypeOK
              /\ IdleClean
              /\ CompSubscribed
              /\ DueSubscribed
              /\ CaptureFresh
              /\ AfterBounded
              /\ SubscriptionsFollowRequests
              /\ DataOnlyWhileSubscribed

(* What all this amounts to for a backend. *)
Service == INSTANCE WspService WITH Lossy <- {"MicComp"},
                                    up <- conn # "stopped",
                                    on <- {s \in Streams : sub[s]},
                                    next <- seq,
                                    done <- handled,
                                    log <- tx

(* The station is such a service, whatever fails: every write that goes    *)
(* wrong, in the middle of any routine, ends the session or costs a number *)
(* of MicComp only, and a refused packet changes nothing.                  *)
ImplementsService == Service!Spec

(* What the receive path hands over, the session handles. *)
Channel == INSTANCE PacketChannel WITH Packet <- Requests,
                                       link <- conn,
                                       sent <- reqs,
                                       delivered <- SubSeq(reqs, 1, handled)

(* The packets handled are those the backend of this very connection sent, *)
(* each once and in order: the session is a reader of the channel that     *)
(* the receive path implements, wherever in a pass the connection ends.    *)
ReadsChannel == Channel!Spec

(* A waiting backend is served once the connection before it is gone. *)
Reconnect == (conn # "open" /\ backlog > 0) ~> conn = "open"

(* Every packet a backend sends is handled, or its connection ends. *)
EventuallyHandled ==
  \A k \in 1..MaxRequests : Len(reqs) >= k ~> (handled >= k \/ conn # "open")

(* README.md:379: a failed send ends the connection, so nothing follows a  *)
(* packet of data that was written in part.                                *)
TornIsLast ==
  \A k \in 1..Len(tx) :
    tx[k].kind \in Streams /\ tx[k].wrote = "part" =>
      \A j \in k + 1..Len(tx) : tx[j].wrote = "nothing"

(* README.md:37: a command that is not ready is answered with an Error;    *)
(* so a stream that was acknowledged has the drivers its data comes from.  *)
Sources(s) == IF s \in {"MicPCM", "MicComp"} THEN Needed(s) \union {"mic"} ELSE Needed(s)
AckMeansReady == conn # "stopped" => \A s \in Streams : sub[s] => Sources(s) \subseteq ready
=============================================================================
