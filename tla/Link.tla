-------------------------------- MODULE Link --------------------------------
(***************************************************************************)
(* The backend's client and the station at the two ends of one TCP         *)
(* connection with finite buffers: both write with a time limit, and       *)
(* neither reads while it writes.  The station is the receive path and the *)
(* writer of the firmware on cells (esp32/app.cpp, esp32/wsp_packet.cpp);  *)
(* its one subscription stands for all of them.                            *)
(***************************************************************************)
EXTENDS HostClient

CONSTANT DownSize          \* bound: cells on their way from the station

ASSUME DownAssumption == DownSize \in Nat \ {0}

VARIABLES
  loop,              \* the station's loop task: "read", "parse", "write"
  buffer,            \* rxBuffer
  out,               \* the packet being written: "none", "Reply", "Data"
  written,           \* the cells of it that are out
  subscribed,        \* a stream is on
  garbled,           \* packets acted on that nobody sent
  refused            \* a header was refused

stationVars == <<loop, buffer, out, written, subscribed, garbled, refused>>
vars == <<hostVars, stationVars>>

Init == /\ HostInit
        /\ loop = "read" /\ buffer = << >>
        /\ out = "none" /\ written = 0
        /\ subscribed = FALSE
        /\ garbled = 0 /\ refused = FALSE

Host == HostNext /\ UNCHANGED stationVars

HostUnchanged == UNCHANGED <<sender, subscriptions, todo, leaving, stop, sock, got, cuts>>

(* disconnectClient *)
Disconnect == /\ station' = "closed"
              /\ loop' = "read" /\ buffer' = << >>
              /\ out' = "none" /\ written' = 0
              /\ subscribed' = FALSE
              /\ HostUnchanged

---------------------------------------------------------------------------
(* pollTcpReceive and processRxBuffer.                                     *)

Connected == station = "open"

Receive == /\ loop = "read" /\ Connected
           /\ sock = "open" \/ up # << >>
           /\ buffer' = buffer \o up
           /\ up' = << >>
           /\ loop' = "parse"
           /\ HostUnchanged
           /\ UNCHANGED <<down, station, out, written, subscribed, garbled, refused>>

(* The header is in: its second cell says what the packet is.              *)
HasHeader == Len(buffer) >= 2
HeaderOK == buffer[1].i = 1 /\ buffer[2].i = 2
Arriving == buffer[2].op
Complete == HasHeader /\ HeaderOK /\ Len(buffer) >= Size[Arriving]

Incomplete == /\ loop = "parse" /\ Connected
              /\ HasHeader => HeaderOK /\ ~Complete
              /\ loop' = "poll"
              /\ HostUnchanged
              /\ UNCHANGED <<wire, buffer, out, written, subscribed, garbled, refused>>

Refuse == /\ loop = "parse" /\ Connected
          /\ HasHeader /\ ~HeaderOK
          /\ refused' = TRUE
          /\ Disconnect
          /\ UNCHANGED <<up, down, garbled>>

(* dispatchPacket: control packets are answered, audio only when it is     *)
(* refused. A packet with another's bytes in it may still be acted on: a   *)
(* Subscribe whose target was out before the cut, SpkPCM whose sizes fit   *)
(* (handleSpkPCM, 362-377).                                                *)
Whole == \A i \in 1..Size[Arriving] : buffer[i] = Cell(Arriving, i)
Wanted == CASE Arriving = "Subscribe" -> TRUE
            [] Arriving = "Unsubscribe" -> FALSE
            [] OTHER -> subscribed

Dispatch ==
  /\ loop = "parse" /\ Connected /\ Complete
  /\ buffer' = SubSeq(buffer, Size[Arriving] + 1, Len(buffer))
  /\ garbled' = IF Whole THEN garbled ELSE garbled + 1
  /\ subscribed' \in IF Whole THEN {Wanted} ELSE {Wanted, subscribed}
  /\ \/ Arriving = "SpkPCM" /\ UNCHANGED <<loop, out>>
     \/ loop' = "write" /\ out' = "Reply"
  /\ HostUnchanged
  /\ UNCHANGED <<wire, written, refused>>

---------------------------------------------------------------------------
(* The polling routines and wspWritePacket.                                *)

(* There may be something to send. *)
Poll == /\ loop = "poll" /\ Connected
        /\ \/ loop' = "read" /\ UNCHANGED out
           \/ subscribed /\ loop' = "write" /\ out' = "Data"
        /\ HostUnchanged
        /\ UNCHANGED <<wire, buffer, written, subscribed, garbled, refused>>

(* Where the loop goes on after a reply or data. *)
AfterWrite == IF out = "Reply" THEN "parse" ELSE "read"

Write == /\ loop = "write" /\ Connected
         /\ sock = "open" /\ Len(down) < DownSize
         /\ down' = Append(down, Cell(out, written + 1))
         /\ IF written + 1 < Size[out]
            THEN written' = written + 1 /\ UNCHANGED <<loop, out>>
            ELSE written' = 0 /\ loop' = AfterWrite /\ out' = "none"
         /\ HostUnchanged
         /\ UNCHANGED <<up, station, buffer, subscribed, garbled, refused>>

(* Broken variant: retried until it succeeds, without a time limit and     *)
(* without a look at the connection.                                       *)
WriteGivesUpNever == FALSE

(* A second has passed with the buffer full, or the peer is gone. *)
WriteGivesUp == loop = "write" /\ Connected /\ (Len(down) = DownSize \/ sock # "open")

(* Broken variant: a reply that did not get out is sent again. *)
ReplyRetried == /\ WriteGivesUp /\ out = "Reply"
                /\ written' = 0
                /\ HostUnchanged
                /\ UNCHANGED <<wire, loop, out, buffer, subscribed, garbled, refused>>

(* Nobody looks at the result of a reply.                                  *)
ReplyLost == /\ WriteGivesUp /\ out = "Reply"
             /\ written' = 0 /\ loop' = AfterWrite /\ out' = "none"
             /\ HostUnchanged
             /\ UNCHANGED <<wire, buffer, subscribed, garbled, refused>>

(* Data that does not get out ends the connection, but MicComp's frame is  *)
(* dropped and the connection goes on (pollMic, 571, 582).                 *)
DataLost == /\ WriteGivesUp /\ out = "Data"
            /\ Disconnect
            /\ UNCHANGED <<up, down, garbled, refused>>

FrameDropped == /\ WriteGivesUp /\ out = "Data"
                /\ written' = 0 /\ loop' = AfterWrite /\ out' = "none"
                /\ HostUnchanged
                /\ UNCHANGED <<wire, buffer, subscribed, garbled, refused>>

(* connected() turns false: no input is left, or a reset has thrown it     *)
(* away.                                                                   *)
PeerGone == /\ loop = "read" /\ Connected /\ sock # "open"
            /\ Disconnect
            /\ UNCHANGED <<up, down, garbled, refused>>

StationNext == \/ Receive \/ Incomplete \/ Refuse \/ Dispatch
               \/ Poll \/ Write \/ ReplyLost \/ DataLost
               \/ FrameDropped \/ PeerGone

Next == Host \/ StationNext

(* Threads run; the lock is free for seconds between two heartbeats, so    *)
(* main gets it; the loop task runs.                                       *)
Spec == /\ Init /\ [][Next]_vars
        /\ WF_vars(Main /\ UNCHANGED stationVars)
        /\ WF_vars(Heartbeat /\ UNCHANGED stationVars)
        /\ SF_vars(Acquire("main") /\ UNCHANGED stationVars)
        /\ WF_vars(StationNext)

---------------------------------------------------------------------------
(* Properties.                                                             *)

(* Types of both ends; who holds the lock is who sends. *)
TypeOK == /\ HostTypeOK
          /\ Len(down) <= DownSize
          /\ loop \in {"read", "parse", "poll", "write"}
          /\ out \in {"none", "Reply", "Data"}
          /\ loop = "write" <=> out # "none"
          /\ written \in 0..1
          /\ buffer \in Seq(Cells)
          /\ subscribed \in BOOLEAN /\ refused \in BOOLEAN /\ garbled \in Nat

(* The two threads of the backend share the socket without mixing packets, *)
(* and a send that was given up half way (a timeout, Ctrl+C) makes the     *)
(* station act on at most one packet that nobody sent; it refuses a header *)
(* only then (send_all, :208; main, :763).                                 *)
WholeOnWire == garbled <= cuts /\ (refused => cuts > 0)

(* The heartbeat thread dies of an exception it does not catch only when   *)
(* main is closing anyway; before that its failures set _stop (close, :183 *)
(* and start_heartbeat_loop, :409).                                        *)
CrashOnlyAtClose == pc["heartbeat"] = "crashed" => stop

(* Both ends may block in a write with full buffers, neither reading;      *)
(* their time limits end it (wspWritePacket, :9; sendall).                 *)
WritesEnd == []<>(lock = "free") /\ []<>(loop # "write")

(* main notices that the heartbeat failed, unless it goes on sending, or   *)
(* a subscribed stream keeps recv from timing out (recv_exact, :429).      *)
StopNoticed == stop ~> (pc["main"] = "exited" \/ subscribed)

(* When the backend has closed, the station gives the connection up, and   *)
(* can serve another.                                                      *)
StationFree == sock # "open" ~> station = "closed"

(* What the station has still to do for a backend that is gone: input to   *)
(* read and to handle, and where its loop is.                              *)
Turn == CASE loop = "read" -> 0
          [] loop = "poll" -> 2
          [] loop = "parse" -> 3
          [] loop = "write" -> IF out = "Data" THEN 1 ELSE 4
Remaining == 5 * Len(up) + Len(buffer) + Turn

(* The same, step by step: nothing is added to what the backend left       *)
(* behind, and each step of the loop task works some of it off, a reply    *)
(* nobody takes included, until the connection is closed.                  *)
StationWindsDown ==
  [][sock # "open" /\ station = "open" =>
       /\ Remaining' <= Remaining
       /\ StationNext => station' = "closed" \/ Remaining' < Remaining]_vars
=============================================================================
