--------------------------- MODULE PacketChannel ---------------------------
(***************************************************************************)
(* What the receive path of a WaveStation promises to the backend that     *)
(* holds the connection: the WSP packets it acts on are the packets the    *)
(* backend sent on this connection, whole, each once and in order, however *)
(* TCP cuts the byte stream into reads; when the station closes the        *)
(* connection it acts on nothing more of it.  A connection that is lost    *)
(* loses a suffix of what was sent, never a packet in the middle.          *)
(***************************************************************************)
EXTENDS Naturals, Sequences

CONSTANT Packet      \* the packets a backend may send

VARIABLES
  link,              \* "open", "lost" (seen closed by the peer), "stopped"
  sent,              \* packets the backend sent on the current connection
  delivered          \* packets the station acted on, on this connection

vars == <<link, sent, delivered>>

Init == /\ link = "stopped"
        /\ sent = << >>
        /\ delivered = << >>

Open == /\ link # "open"
        /\ link' = "open"
        /\ sent' = << >>
        /\ delivered' = << >>

Send == /\ link = "open"
        /\ \E p \in Packet : sent' = Append(sent, p)
        /\ UNCHANGED <<link, delivered>>

(* Packets received before the loss are still delivered after it. *)
Deliver == /\ link # "stopped"
           /\ Len(delivered) < Len(sent)
           /\ delivered' = Append(delivered, sent[Len(delivered) + 1])
           /\ UNCHANGED <<link, sent>>

Lose == /\ link = "open"
        /\ link' = "lost"
        /\ UNCHANGED <<sent, delivered>>

(* Closing twice is closing once: link may already be "lost". *)
Stop == /\ link # "stopped"
        /\ link' = "stopped"
        /\ UNCHANGED <<sent, delivered>>

Next == Open \/ Send \/ Deliver \/ Lose \/ Stop

Spec == Init /\ [][Next]_vars
=============================================================================
