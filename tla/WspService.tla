---------------------------- MODULE WspService ----------------------------
(***************************************************************************)
(* What a backend may rely on, without the loop, the drivers, the socket   *)
(* and the buffers: the station serves one session at a time, takes the    *)
(* session's packets in order, answers each at most once before it takes   *)
(* the next, and sends data of the streams that are on, numbered from 0.   *)
(* A session may end at any moment and leaves nothing behind.              *)
(***************************************************************************)
EXTENDS Naturals, Sequences

CONSTANTS Streams,   \* the data streams
          Lossy,     \* those of them whose failed packets end nothing
          Replies    \* kinds of answers

VARIABLES up,        \* a session is running
          on,        \* the streams that are on
          next,      \* the number of each stream's next packet
          done,      \* packets taken from the backend in this session
          log        \* what was sent in this session, or tried to

vars == <<up, on, next, done, log>>

(* after: how many packets had been taken; a backend sees of the packet    *)
(* what was written of it.                                                 *)
Sending(kind, id, fates) ==
  \E w \in fates :
    log' = Append(log, [kind |-> kind, id |-> id, after |-> done', wrote |-> w])

Whole == {"whole"}
Failed == {"part", "nothing"}

Nothing == on' = {} /\ next' = [s \in Streams |-> 0]

Init == /\ up = FALSE
        /\ on = {}
        /\ next = [s \in Streams |-> 0]
        /\ done = 0
        /\ log = << >>

Begin == /\ up' = TRUE
         /\ done' = 0
         /\ log' = << >>
         /\ Nothing

(* A packet of the backend: only with an Ack does a stream change. *)
Take == /\ up
        /\ done' = done + 1
        /\ \/ on' = on /\ log' = log
           \/ on' = on /\ \E a \in Replies : Sending(a, done', Whole \union Failed)
           \/ \E s \in Streams : /\ on' \in {on \union {s}, on \ {s}}
                               /\ Sending("Ack", done', Whole \union Failed)
        /\ UNCHANGED <<up, next>>

Send(s) == /\ up
           /\ s \in on
           /\ Sending(s, next[s], Whole)
           /\ next' = [next EXCEPT ![s] = @ + 1]
           /\ UNCHANGED <<up, on, done>>

Skip(s) == /\ up
           /\ s \in on \intersect Lossy
           /\ Sending(s, next[s], Failed)
           /\ next' = [next EXCEPT ![s] = @ + 1]
           /\ UNCHANGED <<up, on, done>>

(* The session ends by itself, or with a packet that could not be sent.    *)
End == /\ up
       /\ up' = FALSE
       /\ Nothing
       /\ UNCHANGED done
       /\ log' = log \/ \E s \in on : Sending(s, next[s], Failed)

(* A routine that goes on after the end writes to a closed connection.     *)
Late == /\ ~up
        /\ \E s \in Streams : Sending(s, 0, {"nothing"})
        /\ UNCHANGED <<up, on, next, done>>

Next == Begin \/ Take \/ End \/ Late \/ \E s \in Streams : Send(s) \/ Skip(s)

Spec == Init /\ [][Next]_vars
=============================================================================
