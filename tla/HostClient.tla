----------------------------- MODULE HostClient -----------------------------
(***************************************************************************)
(* The backend's client (test_backend/wave_station_test_backend.py): the   *)
(* main thread, which sends its commands and then reads until Ctrl+C or an *)
(* error, and the heartbeat thread, which writes to the same socket.       *)
(* Module Link gives it a station to talk to.                              *)
(*                                                                         *)
(* A packet on the wire is cut into cells: two for the header, magic and   *)
(* the rest, and the others for the body.  Cell i of a packet carries i,   *)
(* so that a cell out of place shows.                                      *)
(***************************************************************************)
EXTENDS Integers, Sequences

CONSTANTS
  MaxSubscriptions,  \* bound: types in the --subscribe list
  Plays,             \* speaker packets main sends
  UpSize             \* bound: cells the socket's send buffer and the network hold

Size == [Heartbeat |-> 2, Subscribe |-> 3, Unsubscribe |-> 3, SpkPCM |-> 4,
         Reply |-> 2, Data |-> 2]
HostOps == {"Heartbeat", "Subscribe", "Unsubscribe", "SpkPCM"}
Cell(o, i) == [op |-> o, i |-> i]
Cells == {c \in [op : DOMAIN Size, i : 1..4] : c.i <= Size[c.op]}

ASSUME HostAssumption == MaxSubscriptions \in Nat /\ Plays \in Nat
ASSUME UpAssumption == UpSize \in Nat \ {0}

VARIABLES
  pc,                \* where each thread is
  sent,              \* the cells of its packet that are out
  lock,              \* _send_lock: "free" or the thread that holds it
  subscriptions,     \* how many types main subscribes to
  todo,              \* what main has yet to send
  leaving,           \* main is in its KeyboardInterrupt handler
  stop,              \* _stop
  sock,              \* self.sock: "open", "shut", "none"
  got,               \* cells main has read of a packet
  cuts,              \* packets that were given up half way
  up,                \* cells on their way to the station
  down,              \* cells on their way from it
  station            \* the connection at the station's end: "open", "closed"

Threads == {"main", "heartbeat"}
sender == <<pc, sent, lock>>
wire == <<up, down, station>>
hostVars == <<sender, subscriptions, todo, leaving, stop, sock, got, cuts, wire>>

Times(n, packet) == [i \in 1..n |-> packet]

(* --heartbeat-interval 0 turns the heartbeat thread off. *)
HostInit == /\ pc \in [Threads -> {"idle", "unborn", "never"}]
            /\ pc["main"] = "idle" /\ pc["heartbeat"] # "idle"
            /\ sent = [t \in Threads |-> 0]
            /\ lock = "free"
            /\ subscriptions \in 0..MaxSubscriptions
            /\ todo = <<"Heartbeat">> \o Times(subscriptions, "Subscribe")
                                     \o Times(Plays, "SpkPCM")
            /\ leaving = FALSE
            /\ stop = FALSE
            /\ sock = "open"
            /\ got = 0
            /\ cuts = 0
            /\ up = << >> /\ down = << >>
            /\ station = "open"

(* The packet a thread is sending. *)
Packet(t) == IF t = "main" THEN Head(todo) ELSE "Heartbeat"

Goes(t, p) == pc' = [pc EXCEPT ![t] = p]
Release(t) == lock' = IF lock = t THEN "free" ELSE lock

---------------------------------------------------------------------------
(* send_all, in either thread.                                             *)

(* Broken variant: send_all without `with self._send_lock`. *)
AcquireNothing(t) == /\ pc[t] = "lock"
                     /\ Goes(t, "send")
                     /\ UNCHANGED <<sent, lock, subscriptions, todo, leaving, stop, sock, got, cuts, wire>>

Acquire(t) == /\ pc[t] = "lock" /\ lock = "free"
              /\ lock' = t
              /\ Goes(t, "send")
              /\ UNCHANGED <<sent, subscriptions, todo, leaving, stop, sock, got, cuts, wire>>

(* The first Heartbeat is followed by start_heartbeat_loop. *)
Born == IF pc["heartbeat"] = "unborn" THEN "wait" ELSE pc["heartbeat"]

(* sendall: one more cell, of which the last ends the call.                *)
Put(t) ==
  /\ pc[t] = "send"
  /\ sock = "open" /\ station = "open" /\ Len(up) < UpSize
  /\ up' = Append(up, Cell(Packet(t), sent[t] + 1))
  /\ IF sent[t] + 1 < Size[Packet(t)]
     THEN sent' = [sent EXCEPT ![t] = @ + 1] /\ UNCHANGED <<pc, lock, todo>>
     ELSE /\ sent' = [sent EXCEPT ![t] = 0]
          /\ Release(t)
          /\ pc' = IF t = "main" THEN [main |-> "idle", heartbeat |-> Born]
                                 ELSE [pc EXCEPT ![t] = "wait"]
          /\ todo' = IF t = "main" THEN Tail(todo) ELSE todo
  /\ UNCHANGED <<subscriptions, leaving, stop, sock, got, cuts, down, station>>

(* An exception leaves the packet where it is, and the `with` block. *)
Cut(t) == /\ cuts' = IF sent[t] > 0 THEN cuts + 1 ELSE cuts
          /\ sent' = [sent EXCEPT ![t] = 0]
          /\ Release(t)

(* sendall raises an OSError: its second has passed with the buffer full,  *)
(* or the connection is gone.  main gives up, or, in its handler, goes on  *)
(* with the next Unsubscribe; the heartbeat thread sets _stop and ends.    *)
SendFails(t) ==
  /\ pc[t] = "send"
  /\ \/ sock = "open" /\ Len(up) = UpSize
     \/ sock = "shut"
     \/ station = "closed"
  /\ Cut(t)
  /\ IF t = "main"
     THEN /\ Goes(t, IF leaving THEN "idle" ELSE "close")
          /\ todo' = IF leaving THEN Tail(todo) ELSE todo
          /\ UNCHANGED stop
     ELSE Goes(t, "ended") /\ stop' = TRUE /\ UNCHANGED todo
  /\ UNCHANGED <<subscriptions, leaving, sock, got, wire>>

---------------------------------------------------------------------------
(* The heartbeat thread.                                                   *)

(* The interval is over; send_all finds a socket, or raises RuntimeError,  *)
(* which the loop does not catch.                                          *)
Beat == /\ pc["heartbeat"] = "wait" /\ ~stop
        /\ Goes("heartbeat", IF sock = "none" THEN "crashed" ELSE "lock")
        /\ UNCHANGED <<sent, lock, subscriptions, todo, leaving, stop, sock, got, cuts, wire>>

BeatStops == /\ pc["heartbeat"] = "wait" /\ stop
             /\ Goes("heartbeat", "ended")
             /\ UNCHANGED <<sent, lock, subscriptions, todo, leaving, stop, sock, got, cuts, wire>>

(* close() came between the check and the call: AttributeError, not caught *)
(* either.                                                                 *)
BeatCrashes == /\ pc["heartbeat"] = "send" /\ sock = "none"
               /\ Goes("heartbeat", "crashed")
               /\ Cut("heartbeat")
               /\ UNCHANGED <<subscriptions, todo, leaving, stop, sock, got, wire>>

---------------------------------------------------------------------------
(* The main thread.                                                        *)

NextCommand ==
  /\ pc["main"] = "idle"
  /\ Goes("main", IF todo # << >> THEN "lock" ELSE IF leaving THEN "close" ELSE "read")
  /\ UNCHANGED <<sent, lock, subscriptions, todo, leaving, stop, sock, got, cuts, wire>>

(* Ctrl+C, anywhere in main's try block; sendall is left where it is.      *)
Interrupt == /\ pc["main"] \in {"idle", "lock", "send", "read"} /\ ~leaving
             /\ leaving' = TRUE
             /\ todo' = Times(subscriptions, "Unsubscribe")
             /\ Goes("main", "idle")
             /\ IF pc["main"] = "send" THEN Cut("main")
                                       ELSE UNCHANGED <<sent, cuts, lock>>
             /\ UNCHANGED <<subscriptions, stop, sock, got, wire>>

(* recv_exact and read_packet: the next cell of a packet; a ValueError     *)
(* when it is not what a packet has there.                                 *)
Get == /\ pc["main"] = "read" /\ down # << >>
       /\ down' = Tail(down)
       /\ got' = IF got + 1 < Size[Head(down).op] THEN got + 1 ELSE 0
       /\ Goes("main", IF Head(down).i = got + 1 THEN "read" ELSE "close")
       /\ UNCHANGED <<sent, lock, subscriptions, todo, leaving, stop, sock, cuts, up, station>>

(* Broken variant: settimeout(None), recv never times out. *)
RecvForever == FALSE /\ UNCHANGED hostVars

(* recv times out after a second without a byte, and asks for _stop. *)
RecvTimeout == /\ pc["main"] = "read" /\ down = << >> /\ stop
               /\ Goes("main", "close")
               /\ UNCHANGED <<sent, lock, subscriptions, todo, leaving, stop, sock, got, cuts, wire>>

(* The station has closed: the end of its stream, or a reset before it. *)
Eof == /\ pc["main"] = "read" /\ station = "closed"
       /\ Goes("main", "close")
       /\ UNCHANGED <<sent, lock, subscriptions, todo, leaving, stop, sock, got, cuts, wire>>

(* Broken variant: close() does not set _stop. *)
CloseStopForgotten == /\ pc["main"] = "close"
                      /\ Goes("main", "shutdown")
                      /\ UNCHANGED <<sent, lock, subscriptions, todo, leaving, stop, sock, got, cuts, wire>>

(* close(): _stop first, then the socket, then self.sock = None.           *)
CloseStop == /\ pc["main"] = "close"
             /\ stop' = TRUE
             /\ Goes("main", "shutdown")
             /\ UNCHANGED <<sent, lock, subscriptions, todo, leaving, sock, got, cuts, wire>>

CloseShut == /\ pc["main"] = "shutdown"
             /\ sock' = "shut"
             /\ Goes("main", "drop")
             /\ UNCHANGED <<sent, lock, subscriptions, todo, leaving, stop, got, cuts, wire>>

CloseDrop == /\ pc["main"] = "drop"
             /\ sock' = "none"
             /\ Goes("main", "return")
             /\ UNCHANGED <<sent, lock, subscriptions, todo, leaving, stop, got, cuts, wire>>

(* The process exits, and the heartbeat thread, a daemon, with it. *)
Exit == /\ pc["main"] = "return"
        /\ pc' = [main |-> "exited",
                  heartbeat |-> IF pc["heartbeat"] = "crashed" THEN "crashed" ELSE "ended"]
        /\ lock' = "free"
        /\ UNCHANGED <<sent, subscriptions, todo, leaving, stop, sock, got, cuts, wire>>

---------------------------------------------------------------------------
Main == \/ NextCommand \/ Acquire("main") \/ Put("main") \/ SendFails("main")
        \/ Get \/ RecvTimeout \/ Eof
        \/ CloseStop \/ CloseShut \/ CloseDrop \/ Exit

Heartbeat == \/ Beat \/ BeatStops \/ BeatCrashes
             \/ Acquire("heartbeat") \/ Put("heartbeat") \/ SendFails("heartbeat")

HostNext == Main \/ Heartbeat \/ Interrupt

HostTypeOK ==
  /\ pc["main"] \in {"idle", "lock", "send", "read", "close", "shutdown", "drop",
                     "return", "exited"}
  /\ pc["heartbeat"] \in {"never", "unborn", "wait", "lock", "send", "ended", "crashed"}
  /\ sent \in [Threads -> 0..4]
  /\ lock \in {"free"} \union Threads
  /\ \A t \in Threads : pc[t] = "send" <=> lock = t
  /\ subscriptions \in 0..MaxSubscriptions
  /\ todo \in Seq(HostOps)
  /\ {leaving, stop} \subseteq BOOLEAN
  /\ sock \in {"open", "shut", "none"}
  /\ got \in 0..1
  /\ cuts \in Nat
  /\ up \in Seq(Cells) /\ Len(up) <= UpSize
  /\ down \in Seq(Cells)
  /\ station \in {"open", "closed"}
=============================================================================
