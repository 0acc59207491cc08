----------------------------- MODULE LinkProofs -----------------------------
(***************************************************************************)
(* Safety of module Link for every value of its constants: types and the   *)
(* send lock, the end of the heartbeat thread, and packets that stay whole *)
(* on the wire.                                                            *)
(***************************************************************************)
EXTENDS Link, FiniteSetTheorems, FunctionTheorems, TLAPS

MainStates == {"idle", "lock", "send", "read", "close", "shutdown", "drop", "return", "exited"}
BeatStates == {"never", "unborn", "wait", "lock", "send", "ended", "crashed"}
DownCells == [op : {"Reply", "Data"}, i : 1..2]

LEMMA Sizes ==
  /\ DOMAIN Size = HostOps \union {"Reply", "Data"}
  /\ \A o \in DOMAIN Size : Size[o] \in 2..4
  /\ Size["Reply"] = 2 /\ Size["Data"] = 2 /\ Size["Heartbeat"] = 2
BY DEF Size, HostOps

LEMMA CellFacts ==
  /\ \A o \in DOMAIN Size, i \in 1..4 : i <= Size[o] => Cell(o, i) \in Cells
  /\ \A o \in {"Reply", "Data"}, i \in 1..2 : Cell(o, i) \in DownCells
  /\ DownCells \subseteq Cells
  /\ \A c \in Cells : c.op \in DOMAIN Size /\ c.i \in 1..4 /\ c.i <= Size[c.op]
  /\ \A c \in DownCells : c.op \in {"Reply", "Data"} /\ c.i \in 1..2
BY Sizes DEF Cell, Cells, DownCells

(* The host's part of TypeOK, and what it needs to be kept: a thread that  *)
(* sends has a packet that is not out yet.                                 *)
HostTypes ==
  /\ pc \in [Threads -> MainStates \union BeatStates]
  /\ pc["main"] \in MainStates /\ pc["heartbeat"] \in BeatStates
  /\ sent \in [Threads -> 0..4]
  /\ lock \in {"free"} \union Threads
  /\ \A t \in Threads : pc[t] = "send" <=> lock = t
  /\ subscriptions \in 0..MaxSubscriptions
  /\ todo \in Seq(HostOps)
  /\ pc["main"] \in {"lock", "send"} => todo # << >>
  /\ leaving \in BOOLEAN /\ stop \in BOOLEAN
  /\ sock \in {"open", "shut", "none"}
  /\ got \in 0..1
  /\ cuts \in Nat

Sending ==
  \A t \in Threads : /\ pc[t] = "send" => sent[t] < Size[Packet(t)]
                     /\ pc[t] \notin {"send", "ended"} => sent[t] = 0

WireTypes == /\ up \in Seq(Cells) /\ Len(up) <= UpSize
             /\ down \in Seq(DownCells) /\ Len(down) <= DownSize
             /\ station \in {"open", "closed"}

StationTypes == /\ loop \in {"read", "parse", "poll", "write"}
                /\ out \in {"none", "Reply", "Data"}
                /\ loop = "write" <=> out # "none"
                /\ written \in 0..1
                /\ buffer \in Seq(Cells)
                /\ subscribed \in BOOLEAN /\ refused \in BOOLEAN /\ garbled \in Nat

Types == HostTypes /\ Sending /\ WireTypes /\ StationTypes

LEMMA TypesImplyTypeOK == Types => TypeOK
<1> SUFFICES ASSUME Types PROVE TypeOK
  OBVIOUS
<1>1. down \in Seq(Cells)
  BY CellFacts DEF Types, WireTypes
<1>2. leaving \in BOOLEAN /\ stop \in BOOLEAN
  BY DEF Types, HostTypes
<1>3. HostTypeOK
  BY <1>1, <1>2 DEF Types, HostTypes, WireTypes, HostTypeOK, MainStates, BeatStates
<1> QED BY <1>3 DEF Types, WireTypes, StationTypes, TypeOK

LEMMA PacketType ==
  ASSUME HostTypes, NEW t \in Threads, t = "main" => todo # << >>
  PROVE  Packet(t) \in HostOps /\ Packet(t) \in DOMAIN Size /\ Size[Packet(t)] \in 2..4
BY Sizes DEF HostTypes, Packet, HostOps, Threads

HostOK == HostTypes /\ Sending /\ WireTypes

---------------------------------------------------------------------------
(* The steps of the host keep HostOK.                                      *)

LEMMA SendSteps ==
  ASSUME HostOK, NEW t \in Threads, Acquire(t) \/ Put(t) \/ SendFails(t)
  PROVE  HostOK'
<1> USE DEF HostOK, Threads, wire, sender
<1>1. t = "main" /\ pc[t] \in {"lock", "send"} => todo # << >>
  BY DEF HostTypes
<1>2. pc[t] \in {"lock", "send"}
  BY DEF Acquire, Put, SendFails
<1>3. Packet(t) \in HostOps /\ Packet(t) \in DOMAIN Size /\ Size[Packet(t)] \in 2..4
  BY <1>1, <1>2, PacketType
<1>4. todo # << >> => Tail(todo) \in Seq(HostOps)
  BY DEF HostTypes
<1>5. CASE Acquire(t)
  <2>1. HostTypes'
    BY <1>1, <1>5 DEF Acquire, Goes, HostTypes, MainStates, BeatStates
  <2>2. Sending'
    BY <1>1, <1>3, <1>5 DEF Acquire, Goes, HostTypes, Sending, Packet
  <2>3. WireTypes'
    BY <1>5 DEF Acquire, WireTypes
  <2> QED BY <2>1, <2>2, <2>3
<1>6. CASE Put(t)
  <2>1. Cell(Packet(t), sent[t] + 1) \in Cells
    BY <1>3, <1>6, CellFacts DEF Put, Sending, HostTypes
  <2>2. WireTypes'
    <3>1. up' = Append(up, Cell(Packet(t), sent[t] + 1)) /\ Len(up) < UpSize
      BY <1>6 DEF Put
    <3>2. up' \in Seq(Cells) /\ Len(up') = Len(up) + 1
      BY <2>1, <3>1 DEF WireTypes
    <3>3. Len(up') <= UpSize
      BY <3>1, <3>2, UpAssumption DEF WireTypes
    <3> QED BY <1>6, <3>2, <3>3 DEF Put, WireTypes
  <2>3. CASE sent[t] + 1 < Size[Packet(t)]
    <3>1. HostTypes'
      BY <1>3, <1>6, <2>3 DEF Put, HostTypes
    <3>2. Sending'
      BY <1>3, <1>6, <2>3 DEF Put, HostTypes, Sending, Packet
    <3> QED BY <2>2, <3>1, <3>2
  <2>4. CASE ~(sent[t] + 1 < Size[Packet(t)])
    <3>1. /\ sent' = [sent EXCEPT ![t] = 0]
          /\ lock = t /\ lock' = "free"
          /\ todo' = IF t = "main" THEN Tail(todo) ELSE todo
          /\ pc' = IF t = "main" THEN [main |-> "idle", heartbeat |-> Born]
                                 ELSE [pc EXCEPT !["heartbeat"] = "wait"]
          /\ UNCHANGED <<subscriptions, leaving, stop, sock, got, cuts>>
      BY <1>6, <2>4 DEF Put, Release, HostTypes
    <3>2. sent' \in [Threads -> 0..4] /\ todo' \in Seq(HostOps)
      BY <1>4, <1>1, <1>6, <3>1 DEF HostTypes, Put
    <3>3. ASSUME pc' \in [Threads -> MainStates \union BeatStates],
                 pc'["main"] \in MainStates \ {"send"},
                 pc'["heartbeat"] \in BeatStates \ {"send"},
                 pc'["main"] = "lock" => todo' # << >>
          PROVE  HostTypes'
      BY <3>1, <3>2, <3>3 DEF HostTypes
    <3>4. ASSUME t = "main" PROVE HostTypes'
      <4>1. pc["heartbeat"] \in BeatStates \ {"send"}
        BY <3>1, <3>4 DEF HostTypes
      <4>2. Born \in BeatStates \ {"send"}
        BY <4>1 DEF Born, BeatStates
      <4> DEFINE q == [main |-> "idle", heartbeat |-> Born]
      <4>3. /\ q \in [Threads -> MainStates \union BeatStates]
            /\ q["main"] = "idle" /\ q["heartbeat"] = Born
        BY <4>2 DEF MainStates
      <4>4. pc' = q
        BY <3>1, <3>4
      <4> HIDE DEF q
      <4>5. pc'["main"] \in MainStates \ {"send"} /\ pc'["main"] # "lock"
        BY <4>3, <4>4 DEF MainStates
      <4> QED BY <4>2, <4>3, <4>4, <4>5, <3>3
    <3>5. ASSUME t = "heartbeat" PROVE HostTypes'
      <4> DEFINE q == [pc EXCEPT !["heartbeat"] = "wait"]
      <4>1. /\ q \in [Threads -> MainStates \union BeatStates]
            /\ q["main"] = pc["main"] /\ q["heartbeat"] = "wait"
        BY DEF HostTypes, BeatStates
      <4>2. pc' = q /\ todo' = todo /\ pc["main"] # "send"
        BY <3>1, <3>5 DEF HostTypes
      <4>3. pc["main"] = "lock" => todo' # << >>
        BY <4>2 DEF HostTypes
      <4> HIDE DEF q
      <4>4. pc["main"] \in MainStates /\ "wait" \in BeatStates \ {"send"}
        BY DEF HostTypes, BeatStates
      <4> QED BY <4>1, <4>2, <4>3, <4>4, <3>3
    <3>6. HostTypes'
      BY <3>4, <3>5
    <3>7. Sending'
      BY <1>6, <2>4 DEF Put, HostTypes, Sending, Release, Born
    <3> QED BY <2>2, <3>6, <3>7
  <2> QED BY <2>3, <2>4
<1>7. CASE SendFails(t)
  <2>1. cuts' \in Nat
    BY <1>7 DEF SendFails, Cut, HostTypes
  <2>2. HostTypes'
    <3>1. /\ sent' = [sent EXCEPT ![t] = 0] /\ lock = t /\ lock' = "free"
          /\ UNCHANGED <<subscriptions, leaving, sock, got>>
      BY <1>7 DEF SendFails, Cut, Release, HostTypes
    <3>2. CASE t = "main"
      <4>1. /\ pc' \in {[pc EXCEPT !["main"] = "idle"], [pc EXCEPT !["main"] = "close"]}
            /\ todo' \in {todo, Tail(todo)} /\ stop' = stop
        BY <1>7, <3>2 DEF SendFails, Goes
      <4>2. todo' \in Seq(HostOps)
        BY <1>1, <1>2, <1>4, <3>2, <4>1 DEF HostTypes
      <4> QED BY <2>1, <3>1, <3>2, <4>1, <4>2 DEF HostTypes, MainStates, BeatStates
    <3>3. CASE t = "heartbeat"
      <4>1. pc' = [pc EXCEPT !["heartbeat"] = "ended"] /\ stop' = TRUE /\ todo' = todo
        BY <1>7, <3>3 DEF SendFails, Goes
      <4> QED BY <2>1, <3>1, <3>3, <4>1 DEF HostTypes, MainStates, BeatStates
    <3> QED BY <3>2, <3>3
  <2>3. Sending'
    BY <1>7 DEF SendFails, Cut, Goes, Release, HostTypes, Sending
  <2>4. WireTypes'
    BY <1>7 DEF SendFails, WireTypes
  <2> QED BY <2>2, <2>3, <2>4
<1> QED BY <1>5, <1>6, <1>7

LEMMA BeatSteps ==
  ASSUME HostOK, Beat \/ BeatStops \/ BeatCrashes
  PROVE  HostOK'
<1> USE DEF HostOK, Threads, wire, sender
<1>1. CASE Beat
  <2>1. HostTypes'
    BY <1>1 DEF Beat, Goes, HostTypes, MainStates, BeatStates
  <2>2. Sending' /\ WireTypes'
    BY <1>1 DEF Beat, Goes, HostTypes, Sending, WireTypes, Packet
  <2> QED BY <2>1, <2>2
<1>2. CASE BeatStops
  <2>1. HostTypes'
    BY <1>2 DEF BeatStops, Goes, HostTypes, MainStates, BeatStates
  <2>2. Sending' /\ WireTypes'
    BY <1>2 DEF BeatStops, Goes, HostTypes, Sending, WireTypes, Packet
  <2> QED BY <2>1, <2>2
<1>3. CASE BeatCrashes
  <2>1. cuts' \in Nat
    BY <1>3 DEF BeatCrashes, Cut, HostTypes
  <2>2. HostTypes'
    BY <1>3, <2>1 DEF BeatCrashes, Cut, Goes, Release, HostTypes, MainStates, BeatStates
  <2>3. Sending' /\ WireTypes'
    BY <1>3 DEF BeatCrashes, Cut, Goes, Release, HostTypes, Sending, WireTypes, Packet
  <2> QED BY <2>2, <2>3
<1> QED BY <1>1, <1>2, <1>3

LEMMA TimesType ==
  ASSUME NEW n \in Nat, NEW packet \in HostOps
  PROVE  Times(n, packet) \in Seq(HostOps)
BY DEF Times

LEMMA MainSteps ==
  ASSUME HostOK,
         NextCommand \/ Interrupt \/ Get \/ RecvTimeout \/ Eof
           \/ CloseStop \/ CloseShut \/ CloseDrop \/ Exit
  PROVE  HostOK'
<1> USE DEF HostOK, Threads, wire, sender
<1>1. CASE NextCommand
  <2>1. HostTypes'
    BY <1>1 DEF NextCommand, Goes, HostTypes, MainStates, BeatStates
  <2>2. Sending' /\ WireTypes'
    BY <1>1 DEF NextCommand, Goes, HostTypes, Sending, WireTypes, Packet
  <2> QED BY <2>1, <2>2
<1>2. CASE Interrupt
  <2>1. cuts' \in Nat
    BY <1>2 DEF Interrupt, Cut, HostTypes
  <2>2. todo' \in Seq(HostOps)
    BY <1>2, TimesType, HostAssumption DEF Interrupt, HostTypes, HostOps
  <2>3. HostTypes'
    BY <1>2, <2>1, <2>2 DEF Interrupt, Cut, Goes, Release, HostTypes, MainStates, BeatStates
  <2>4. Sending' /\ WireTypes'
    BY <1>2 DEF Interrupt, Cut, Goes, Release, HostTypes, Sending, WireTypes, Packet
  <2> QED BY <2>3, <2>4
<1>3. CASE Get
  <2>1. Head(down) \in DownCells /\ Tail(down) \in Seq(DownCells) /\ Len(Tail(down)) <= DownSize
    BY <1>3, DownAssumption DEF Get, WireTypes
  <2>2. got' \in 0..1
    BY <1>3, <2>1, CellFacts, Sizes DEF Get, HostTypes
  <2>3. HostTypes'
    BY <1>3, <2>2 DEF Get, Goes, HostTypes, MainStates, BeatStates
  <2>4. Sending' /\ WireTypes'
    BY <1>3, <2>1 DEF Get, Goes, HostTypes, Sending, WireTypes, Packet
  <2> QED BY <2>3, <2>4
<1>4. CASE RecvTimeout \/ Eof \/ CloseStop
  <2>1. HostTypes'
    BY <1>4 DEF RecvTimeout, Eof, CloseStop, Goes, HostTypes, MainStates, BeatStates
  <2>2. Sending' /\ WireTypes'
    BY <1>4 DEF RecvTimeout, Eof, CloseStop, Goes, HostTypes, Sending, WireTypes, Packet
  <2> QED BY <2>1, <2>2
<1>5. CASE CloseShut \/ CloseDrop
  <2>1. HostTypes'
    BY <1>5 DEF CloseShut, CloseDrop, Goes, HostTypes, MainStates, BeatStates
  <2>2. Sending' /\ WireTypes'
    BY <1>5 DEF CloseShut, CloseDrop, Goes, HostTypes, Sending, WireTypes, Packet
  <2> QED BY <2>1, <2>2
<1>6. CASE Exit
  <2>1. HostTypes'
    BY <1>6 DEF Exit, HostTypes, MainStates, BeatStates
  <2>2. Sending' /\ WireTypes'
    BY <1>6 DEF Exit, HostTypes, Sending, WireTypes, Packet
  <2> QED BY <2>1, <2>2
<1> QED BY <1>1, <1>2, <1>3, <1>4, <1>5, <1>6

---------------------------------------------------------------------------
(* The steps of the station.                                               *)

LEMMA StationSteps ==
  ASSUME Types, StationNext
  PROVE  HostUnchanged /\ WireTypes' /\ StationTypes'
<1> USE DEF Types, wire
<1>1. ASSUME Disconnect, UNCHANGED <<up, down>>, refused' \in BOOLEAN, garbled' = garbled
      PROVE  HostUnchanged /\ WireTypes' /\ StationTypes'
  <2>1. subscribed' \in BOOLEAN /\ HostUnchanged
    BY <1>1 DEF Disconnect
  <2> QED BY <1>1, <2>1 DEF Disconnect, WireTypes, StationTypes
<1>2. CASE Receive
  <2>1. buffer' \in Seq(Cells) /\ up' \in Seq(Cells) /\ Len(up') <= UpSize
    BY <1>2, UpAssumption DEF Receive, WireTypes, StationTypes
  <2> QED BY <1>2, <2>1 DEF Receive, WireTypes, StationTypes
<1>3. CASE Incomplete
  BY <1>3 DEF Incomplete, WireTypes, StationTypes
<1>4. CASE Refuse
  <2>1. refused' \in BOOLEAN
    BY <1>4 DEF Refuse
  <2> QED BY <1>4, <1>1, <2>1 DEF Refuse
<1>5. CASE Dispatch
  <2>1. Len(buffer) >= 2 /\ buffer[2] \in Cells
    BY <1>5 DEF Dispatch, Complete, HasHeader, StationTypes
  <2>2. Size[Arriving] \in 2..4 /\ Size[Arriving] <= Len(buffer)
    BY <1>5, <2>1, CellFacts, Sizes DEF Dispatch, Complete, Arriving
  <2>3. buffer' \in Seq(Cells)
    <3>1. buffer \in Seq(Cells) /\ Size[Arriving] + 1 \in 1..Len(buffer) + 1
      BY <2>2 DEF StationTypes
    <3> QED BY <1>5, <3>1 DEF Dispatch
  <2>4. subscribed' \in BOOLEAN
    BY <1>5 DEF Dispatch, Wanted, StationTypes
  <2>5. garbled' \in Nat
    BY <1>5 DEF Dispatch, StationTypes
  <2>6. loop' \in {"parse", "write"} /\ out' \in {"none", "Reply"} /\ (loop' = "write" <=> out' # "none")
    BY <1>5 DEF Dispatch, StationTypes
  <2> QED BY <1>5, <2>3, <2>4, <2>5, <2>6 DEF Dispatch, WireTypes, StationTypes
<1>6. CASE Poll
  BY <1>6 DEF Poll, WireTypes, StationTypes
<1>7. CASE Write
  <2>1. out \in {"Reply", "Data"} /\ Size[out] = 2
    BY <1>7, Sizes DEF Write, StationTypes
  <2>2. Cell(out, written + 1) \in DownCells
    BY <2>1, CellFacts DEF StationTypes
  <2>3. down' = Append(down, Cell(out, written + 1)) /\ Len(down) < DownSize
    BY <1>7 DEF Write
  <2>4. down' \in Seq(DownCells) /\ Len(down') <= DownSize
    BY <2>2, <2>3, DownAssumption DEF WireTypes
  <2>5. StationTypes'
    BY <1>7, <2>1 DEF Write, AfterWrite, StationTypes
  <2> QED BY <1>7, <2>4, <2>5 DEF Write, WireTypes
<1>8. CASE ReplyLost
  BY <1>8 DEF ReplyLost, AfterWrite, WireTypes, StationTypes
<1>9. CASE DataLost
  BY <1>9, <1>1 DEF DataLost, StationTypes
<1>10. CASE FrameDropped
  BY <1>10 DEF FrameDropped, AfterWrite, WireTypes, StationTypes
<1>11. CASE PeerGone
  BY <1>11, <1>1 DEF PeerGone, StationTypes
<1> QED BY <1>2, <1>3, <1>4, <1>5, <1>6, <1>7, <1>8, <1>9, <1>10, <1>11 DEF StationNext

LEMMA TypesInductive == Types /\ [Next]_vars => Types'
<1> SUFFICES ASSUME Types, [Next]_vars PROVE Types'
  OBVIOUS
<1>1. CASE Host
  <2>1. HostOK
    BY DEF Types, HostOK
  <2>2. HostOK'
    BY <1>1, <2>1, SendSteps, BeatSteps, MainSteps
       DEF Host, HostNext, Main, Heartbeat, Threads
  <2>3. StationTypes'
    BY <1>1 DEF Host, stationVars, Types, StationTypes
  <2> QED BY <2>2, <2>3 DEF Types, HostOK
<1>2. CASE StationNext
  <2>1. HostUnchanged /\ WireTypes' /\ StationTypes'
    BY <1>2, StationSteps
  <2>2. HostTypes' /\ Sending'
    BY <2>1 DEF HostUnchanged, sender, Types, HostTypes, Sending, Packet
  <2> QED BY <2>1, <2>2 DEF Types
<1>3. CASE UNCHANGED vars
  BY <1>3 DEF vars, hostVars, stationVars, sender, wire, Types, HostTypes, Sending, Packet,
              WireTypes, StationTypes
<1> QED BY <1>1, <1>2, <1>3 DEF Next

LEMMA TypesInitially == Init => Types
<1> SUFFICES ASSUME Init PROVE Types
  OBVIOUS
<1>1. todo \in Seq(HostOps)
  <2>1. /\ todo = <<"Heartbeat">> \o Times(subscriptions, "Subscribe") \o Times(Plays, "SpkPCM")
        /\ subscriptions \in Nat
    BY HostAssumption DEF Init, HostInit
  <2>2. /\ Times(subscriptions, "Subscribe") \in Seq(HostOps)
        /\ Times(Plays, "SpkPCM") \in Seq(HostOps)
        /\ <<"Heartbeat">> \in Seq(HostOps)
    BY <2>1, TimesType, HostAssumption DEF HostOps
  <2> QED BY <2>1, <2>2
<1>2. HostTypes
  <2>1. leaving \in BOOLEAN /\ stop \in BOOLEAN
    BY DEF Init, HostInit
  <2>2. /\ pc \in [Threads -> MainStates \union BeatStates]
        /\ pc["main"] = "idle" /\ pc["heartbeat"] \in {"unborn", "never"}
    BY DEF Init, HostInit, Threads, MainStates, BeatStates
  <2>3. pc["main"] \in MainStates /\ pc["heartbeat"] \in BeatStates
    BY <2>2 DEF MainStates, BeatStates
  <2>4. /\ sent = [t \in Threads |-> 0] /\ lock = "free" /\ got = 0 /\ cuts = 0
        /\ sock = "open" /\ subscriptions \in 0..MaxSubscriptions
    BY DEF Init, HostInit
  <2> QED BY <1>1, <2>1, <2>2, <2>3, <2>4 DEF HostTypes, Threads
<1>3. Sending
  BY DEF Init, HostInit, Sending, Threads
<1>4. WireTypes /\ StationTypes
  <2>1. subscribed \in BOOLEAN /\ refused \in BOOLEAN
    BY DEF Init
  <2>2. /\ up = << >> /\ down = << >> /\ station = "open"
        /\ loop = "read" /\ buffer = << >> /\ out = "none" /\ written = 0 /\ garbled = 0
    BY DEF Init, HostInit
  <2> QED BY <2>1, <2>2, UpAssumption, DownAssumption DEF WireTypes, StationTypes
<1> QED BY <1>2, <1>3, <1>4 DEF Types

(* Types of both ends, the bounds of the buffers, and the send lock: a     *)
(* thread writes to the socket if and only if it holds _send_lock          *)
(* (send_all, :208), whatever fails, is interrupted or is closed meanwhile.*)
THEOREM TypeCorrect == Spec => []TypeOK
BY TypesInitially, TypesInductive, TypesImplyTypeOK, PTL DEF Spec

---------------------------------------------------------------------------
(* The end of the heartbeat thread.                                        *)

(* An exception the heartbeat thread does not catch (RuntimeError or       *)
(* AttributeError, :209, :212) can only come up after close() has set      *)
(* _stop (:184), because it is only there that self.sock is taken away.    *)
THEOREM CrashIsLate == Spec => []CrashOnlyAtClose
<1> DEFINE Inv == /\ pc \in [Threads -> MainStates \union BeatStates]
                  /\ pc["main"] \in {"shutdown", "drop", "return", "exited"} => stop = TRUE
                  /\ sock # "open" => stop = TRUE
                  /\ pc["heartbeat"] = "crashed" => stop = TRUE
<1>1. Init => Inv
  <2> SUFFICES ASSUME Init PROVE Inv
    OBVIOUS
  <2>1. pc \in [Threads -> MainStates \union BeatStates]
    BY TypesInitially DEF Types, HostTypes
  <2>2. pc["main"] = "idle" /\ pc["heartbeat"] \in {"unborn", "never"} /\ sock = "open"
    BY DEF Init, HostInit, Threads
  <2> QED BY <2>1, <2>2
<1>2. Types /\ Types' /\ Inv /\ [Next]_vars => Inv'
  <2> SUFFICES ASSUME Types, Types', Inv, [Next]_vars PROVE Inv'
    OBVIOUS
  <2> USE DEF Threads
  <2>0. pc' \in [Threads -> MainStates \union BeatStates]
    BY DEF Types, HostTypes
  <2>1. ASSUME NEW t \in Threads, Acquire(t) PROVE Inv'
    BY <2>0, <2>1 DEF Acquire, Goes
  <2>2. ASSUME NEW t \in Threads, Put(t) PROVE Inv'
    BY <2>0, <2>2 DEF Put, Born
  <2>3. ASSUME NEW t \in Threads, SendFails(t) PROVE Inv'
    BY <2>0, <2>3 DEF SendFails, Goes
  <2>4. CASE Beat
    BY <2>0, <2>4 DEF Beat, Goes
  <2>5. CASE BeatStops
    BY <2>0, <2>5 DEF BeatStops, Goes
  <2>6. CASE BeatCrashes
    BY <2>0, <2>6 DEF BeatCrashes, Goes
  <2>7. CASE NextCommand \/ Interrupt \/ Get \/ RecvTimeout \/ Eof
    BY <2>0, <2>7 DEF NextCommand, Interrupt, Get, RecvTimeout, Eof, Goes
  <2>8. CASE CloseStop \/ CloseShut \/ CloseDrop \/ Exit
    BY <2>0, <2>8 DEF CloseStop, CloseShut, CloseDrop, Exit, Goes
  <2>9. CASE StationNext
    BY <2>9, StationSteps DEF HostUnchanged, sender
  <2>10. CASE UNCHANGED vars
    BY <2>10 DEF vars, hostVars, sender
  <2> QED BY <2>1, <2>2, <2>3, <2>4, <2>5, <2>6, <2>7, <2>8, <2>9, <2>10
          DEF Next, Host, HostNext, Main, Heartbeat
<1>3. Inv => CrashOnlyAtClose
  BY DEF CrashOnlyAtClose
<1> QED BY <1>1, <1>2, <1>3, TypesInitially, TypesInductive, PTL DEF Spec

---------------------------------------------------------------------------
(* Packets stay whole.                                                     *)

(* What is on its way to dispatchPacket, in rxBuffer or before it. *)
WireLen == Len(buffer) + Len(up)
At(k) == IF k <= Len(buffer) THEN buffer[k] ELSE up[k - Len(buffer)]

(* A break is a place where a cell is not followed by the cell that the    *)
(* sender of a whole packet writes next.                                   *)
Follows(a, b) == IF a.i < Size[a.op] THEN b = Cell(a.op, a.i + 1) ELSE b.i = 1
Breaks == {k \in 1..WireLen - 1 : ~Follows(At(k), At(k + 1))}

(* The last packet is not complete, and nobody is completing it.           *)
Continued == \E t \in Threads : pc[t] = "send" /\ At(WireLen) = Cell(Packet(t), sent[t])
Dangling == WireLen > 0 /\ At(WireLen).i < Size[At(WireLen).op] /\ ~Continued

(* Every break, every packet acted on that nobody sent, and an end that    *)
(* dangles has cost a packet given up half way.                            *)
Accounted ==
  /\ garbled + Cardinality(Breaks) <= cuts
  /\ WireLen > 0 /\ At(1).i # 1 => cuts > 0
Attended ==
  /\ Dangling => garbled + Cardinality(Breaks) + 1 <= cuts
  /\ \A t \in Threads :
       pc[t] = "send" /\ sent[t] > 0 =>
         \/ WireLen > 0 /\ At(WireLen) = Cell(Packet(t), sent[t])
         \/ WireLen = 0 /\ cuts > 0

WireInv ==
  /\ garbled <= cuts
  /\ refused => cuts > 0
  /\ pc["main"] \in {"drop", "return", "exited"} => sock # "open"
  /\ station = "open" => Accounted
  /\ station = "open" /\ sock = "open" => Attended

LEMMA WireFacts ==
  ASSUME Types
  PROVE  /\ WireLen \in Nat
         /\ \A k \in 1..WireLen : /\ At(k) \in Cells
                                 /\ At(k).op \in DOMAIN Size /\ Size[At(k).op] \in 2..4
                                 /\ At(k).i \in 1..4 /\ At(k).i <= Size[At(k).op]
         /\ IsFiniteSet(Breaks) /\ Cardinality(Breaks) \in Nat
<1>1. Len(buffer) \in Nat /\ Len(up) \in Nat /\ WireLen \in Nat
  BY DEF Types, WireTypes, StationTypes, WireLen
<1>2. ASSUME NEW k \in 1..WireLen PROVE At(k) \in Cells
  <2>1. CASE k <= Len(buffer)
    BY <1>1, <2>1 DEF At, Types, StationTypes
  <2>2. CASE ~(k <= Len(buffer))
    <3>1. k - Len(buffer) \in 1..Len(up)
      BY <1>1, <2>2 DEF WireLen
    <3> QED BY <2>2, <3>1 DEF At, Types, WireTypes
  <2> QED BY <2>1, <2>2
<1>3. IsFiniteSet(Breaks) /\ Cardinality(Breaks) \in Nat
  <2>1. IsFiniteSet(1..WireLen - 1)
    BY <1>1, FS_Interval
  <2>2. Breaks \subseteq 1..WireLen - 1
    BY DEF Breaks
  <2> QED BY <2>1, <2>2, FS_Subset, FS_CardinalityType
<1> QED BY <1>1, <1>2, <1>3, CellFacts, Sizes

(* A step that leaves the cells where they are, or moves them into         *)
(* rxBuffer.                                                               *)
LEMMA SameWire ==
  ASSUME Types, UNCHANGED <<buffer, up>> \/ (buffer' = buffer \o up /\ up' = << >>)
  PROVE  /\ WireLen' = WireLen
         /\ \A k \in 1..WireLen : At(k)' = At(k)
         /\ Breaks' = Breaks
<1>1. CASE UNCHANGED <<buffer, up>>
  BY <1>1 DEF WireLen, At, Breaks
<1>2. CASE buffer' = buffer \o up /\ up' = << >>
  <2>1. /\ buffer \in Seq(Cells) /\ up \in Seq(Cells)
        /\ Len(buffer) \in Nat /\ Len(up) \in Nat
    BY DEF Types, WireTypes, StationTypes
  <2>2. WireLen' = WireLen /\ Len(buffer') = WireLen
    BY <1>2, <2>1 DEF WireLen
  <2>3. ASSUME NEW k \in 1..WireLen PROVE At(k)' = At(k)
    BY <1>2, <2>1, <2>2 DEF At, WireLen
  <2>4. \A k \in 1..WireLen - 1 : At(k)' = At(k) /\ At(k + 1)' = At(k + 1)
    BY <2>1, <2>3 DEF WireLen
  <2>5. Breaks' = Breaks
    BY <2>2, <2>4 DEF Breaks
  <2> QED BY <2>2, <2>3, <2>5
<1> QED BY <1>1, <1>2

(* A step that leaves the cells in their place, and every packet that is   *)
(* partly out with its sender.                                             *)
SendersStay == \A t \in Threads :
  (pc[t] = "send" /\ sent[t] > 0) \/ (pc'[t] = "send" /\ sent'[t] > 0) =>
    /\ pc[t] = "send" /\ pc'[t] = "send"
    /\ sent'[t] = sent[t] /\ Packet(t)' = Packet(t)

LEMMA QuietSteps ==
  ASSUME Types, Types', WireInv,
         UNCHANGED <<buffer, up>> \/ (buffer' = buffer \o up /\ up' = << >>),
         garbled' = garbled, cuts' = cuts, refused' => refused \/ cuts' > 0,
         station' = "open" => station = "open",
         sock' = "open" => sock = "open" /\ SendersStay,
         pc'["main"] \in {"drop", "return", "exited"} => sock' # "open"
  PROVE  WireInv'
<1>1. /\ WireLen' = WireLen /\ WireLen \in Nat /\ Breaks' = Breaks
      /\ \A k \in 1..WireLen : At(k)' = At(k) /\ At(k).i \in 1..4
  BY SameWire, WireFacts
<1>2. WireLen > 0 => At(1)' = At(1) /\ At(WireLen)' = At(WireLen) /\ At(WireLen).i \in 1..4
  BY <1>1
<1>3. station' = "open" => Accounted'
  BY <1>1, <1>2 DEF WireInv, Accounted
<1>4. ASSUME station' = "open", sock' = "open" PROVE Attended'
  <2>1. Attended /\ SendersStay
    BY <1>4 DEF WireInv
  <2>2. Continued /\ WireLen > 0 => Continued'
    <3>1. SUFFICES ASSUME WireLen > 0,
                          NEW t \in Threads, pc[t] = "send", At(WireLen) = Cell(Packet(t), sent[t])
                   PROVE  Continued'
      BY DEF Continued
    <3>2. sent[t] > 0
      BY <1>2, <3>1 DEF Cell
    <3>3. pc'[t] = "send" /\ sent'[t] = sent[t] /\ Packet(t)' = Packet(t)
      BY <2>1, <3>1, <3>2 DEF SendersStay
    <3>4. At(WireLen)' = Cell(Packet(t)', sent'[t])
      BY <1>1, <1>2, <3>1, <3>3 DEF Cell
    <3> QED BY <1>1, <3>3, <3>4 DEF Continued
  <2>3. Dangling' => Dangling
    BY <1>1, <1>2, <2>2 DEF Dangling
  <2>4. ASSUME NEW t \in Threads, pc'[t] = "send", sent'[t] > 0
        PROVE  \/ WireLen' > 0 /\ At(WireLen)' = Cell(Packet(t), sent[t])'
               \/ WireLen' = 0 /\ cuts' > 0
    BY <1>1, <1>2, <2>1, <2>4 DEF Attended, SendersStay, Cell
  <2> QED BY <1>1, <2>1, <2>3, <2>4 DEF Attended
<1> QED BY <1>3, <1>4 DEF WireInv

(* A packet that is given up: one more on the account, and nobody holds    *)
(* the lock.                                                               *)
LEMMA CutSteps ==
  ASSUME Types, Types', WireInv, NEW t \in Threads, pc[t] = "send", Cut(t),
         UNCHANGED <<buffer, up, garbled, refused, station, sock>>,
         \A s \in Threads : pc'[s] # "send",
         pc'["main"] \notin {"drop", "return", "exited"} \/ sock # "open"
  PROVE  WireInv'
<1>1. sent[t] \in Nat /\ cuts \in Nat /\ garbled \in Nat
  <2>1. sent[t] \in 0..4
    BY DEF Types, HostTypes
  <2> QED BY <2>1 DEF Types, HostTypes, StationTypes
<1>2. CASE sent[t] = 0
  <2>1. \A s \in Threads : s # t => pc[s] # "send"
    BY DEF Types, HostTypes
  <2>2. SendersStay
    BY <1>2, <2>1 DEF SendersStay
  <2>3. cuts' = cuts /\ garbled' = garbled
    BY <1>2 DEF Cut
  <2> QED BY <2>2, <2>3, QuietSteps
<1>3. CASE sent[t] > 0
  <2>1. cuts' = cuts + 1
    BY <1>3 DEF Cut
  <2>2. /\ WireLen' = WireLen /\ Breaks' = Breaks
        /\ WireLen > 0 => At(1)' = At(1)
        /\ Cardinality(Breaks) \in Nat
    BY SameWire, WireFacts
  <2>3. station' = "open" => Accounted' /\ garbled' + Cardinality(Breaks') + 1 <= cuts'
    BY <1>1, <2>1, <2>2 DEF WireInv, Accounted
  <2>4. station' = "open" => Attended'
    BY <2>3 DEF Attended
  <2> QED BY <1>1, <2>1, <2>3, <2>4 DEF WireInv
<1> QED BY <1>1, <1>2, <1>3

(* One more cell at the end.                                               *)
LEMMA PutGrows ==
  ASSUME Types, NEW c, up' = Append(up, c), buffer' = buffer, NEW L, L = WireLen
  PROVE  /\ L \in Nat /\ WireLen' = L + 1
         /\ \A k \in 1..L : At(k)' = At(k)
         /\ At(L + 1)' = c
         /\ Breaks' = IF L > 0 /\ ~Follows(At(L), c) THEN Breaks \union {L} ELSE Breaks
<1>1. /\ buffer \in Seq(Cells) /\ up \in Seq(Cells)
      /\ Len(buffer) \in Nat /\ Len(up) \in Nat
  BY DEF Types, WireTypes, StationTypes
<1>2. Len(up') = Len(up) + 1 /\ WireLen' = L + 1 /\ L \in Nat
  BY <1>1 DEF WireLen
<1>3. ASSUME NEW k \in 1..L PROVE At(k)' = At(k)
  BY <1>1 DEF At, WireLen
<1>4. ASSUME NEW k, k = L + 1 PROVE At(k)' = c
  <2>1. ~(k <= Len(buffer)) /\ k - Len(buffer) = Len(up) + 1
    BY <1>1, <1>4 DEF WireLen
  <2>2. At(k)' = up'[Len(up) + 1]
    BY <2>1 DEF At
  <2> QED BY <1>1, <2>2
<1>5. \A k \in 1..L - 1 : At(k)' = At(k) /\ At(k + 1)' = At(k + 1)
  BY <1>2, <1>3
<1>6. Breaks' = {k \in 1..L : ~Follows(At(k)', At(k + 1)')}
  <2>1. L + 1 - 1 = L
    BY <1>2
  <2> QED BY <1>2, <2>1 DEF Breaks
<1>7. Breaks' = IF L > 0 /\ ~Follows(At(L), c) THEN Breaks \union {L} ELSE Breaks
  <2>1. CASE L = 0
    <3>1. Breaks' = {}
      BY <1>6, <2>1
    <3>2. Breaks = {}
      BY <2>1 DEF Breaks
    <3> QED BY <2>1, <3>1, <3>2
  <2>2. CASE L > 0
    <3>1. 1..L = (1..L - 1) \union {L} /\ L \in 1..L
      BY <1>2, <2>2
    <3>2. Follows(At(L)', At(L + 1)') <=> Follows(At(L), c)
      BY <1>3, <1>4, <3>1
    <3>3. \A k \in 1..L - 1 : Follows(At(k)', At(k + 1)') <=> Follows(At(k), At(k + 1))
      BY <1>5
    <3>4. Breaks' = {k \in 1..L - 1 : ~Follows(At(k)', At(k + 1)')}
                    \union {k \in {L} : ~Follows(At(k)', At(k + 1)')}
      BY <1>6, <3>1
    <3>5. {k \in 1..L - 1 : ~Follows(At(k)', At(k + 1)')} = Breaks
      BY <3>3 DEF Breaks
    <3> QED BY <2>2, <3>2, <3>4, <3>5
  <2> QED BY <1>2, <2>1, <2>2
<1> QED BY <1>2, <1>3, <1>4, <1>7

LEMMA PutKeeps ==
  ASSUME Types, Types', WireInv, NEW t \in Threads, Put(t),
         UNCHANGED <<buffer, garbled, refused>>
  PROVE  WireInv'
<1>0. PICK L : L = WireLen
  OBVIOUS
<1>1. PICK n : n = sent[t] + 1
  OBVIOUS
<1>2. PICK c : c = Cell(Packet(t), n)
  OBVIOUS
<1>3. /\ pc[t] = "send" /\ lock = t /\ \A s \in Threads : s # t => pc[s] # "send"
      /\ sock = "open" /\ station = "open" /\ Accounted /\ Attended
      /\ UNCHANGED <<sock, station, cuts, garbled, refused>>
      /\ cuts \in Nat /\ garbled \in Nat
  BY DEF Types, HostTypes, StationTypes, Put, WireInv
<1>4. sent[t] \in 0..4 /\ Packet(t) \in HostOps /\ Packet(t) \in DOMAIN Size
      /\ Size[Packet(t)] \in 2..4 /\ sent[t] < Size[Packet(t)]
  <2>1. t = "main" => todo # << >>
    BY <1>3 DEF Types, HostTypes
  <2> QED BY <1>3, <2>1, PacketType DEF Types, HostTypes, Sending
<1>5. /\ L \in Nat /\ WireLen' = L + 1
      /\ \A k \in 1..L : At(k)' = At(k)
      /\ At(L + 1)' = c
      /\ Breaks' = IF L > 0 /\ ~Follows(At(L), c) THEN Breaks \union {L} ELSE Breaks
  <2>1. up' = Append(up, c)
    BY <1>1, <1>2 DEF Put
  <2> QED BY <1>0, <2>1, PutGrows
<1>6. c.op = Packet(t) /\ c.i = n
  BY <1>2 DEF Cell
<1>7. n < Size[Packet(t)] => Continued'
  <2>1. SUFFICES ASSUME n < Size[Packet(t)] PROVE Continued'
    OBVIOUS
  <2>2. pc' = pc /\ todo' = todo /\ sent'[t] = n
    BY <1>1, <1>4, <2>1 DEF Put, Types, HostTypes
  <2>3. Packet(t)' = Packet(t)
    BY <2>2 DEF Packet
  <2>4. At(WireLen)' = c
    BY <1>5
  <2> QED BY <1>2, <1>3, <2>2, <2>3, <2>4 DEF Continued, Cell
<1>8. ~Dangling'
  <2>1. At(WireLen)' = c
    BY <1>5
  <2> QED BY <1>6, <1>7, <2>1 DEF Dangling
<1>9. L > 0 /\ ~Follows(At(L), c) => garbled + Cardinality(Breaks) + 1 <= cuts
  <2>1. SUFFICES ASSUME L > 0, ~Follows(At(L), c) PROVE Dangling
    BY <1>3 DEF Attended
  <2>2. /\ At(L).i \in 1..4
        /\ At(L) = Cell(Packet(t), sent[t]) => At(L).op = Packet(t) /\ At(L).i = sent[t]
    <3>1. L \in 1..WireLen
      BY <1>0, <1>5, <2>1
    <3> QED BY <3>1, WireFacts DEF Cell
  <2>3. sent[t] = 0
    <3>1. SUFFICES ASSUME sent[t] > 0 PROVE FALSE
      BY <1>4
    <3>2. At(WireLen) = Cell(Packet(t), sent[t])
      BY <1>0, <1>3, <2>1, <3>1 DEF Attended
    <3>3. At(L).op = Packet(t) /\ At(L).i = sent[t]
      BY <1>0, <2>2, <3>2
    <3>4. At(L).i < Size[At(L).op] /\ c = Cell(At(L).op, At(L).i + 1)
      BY <1>1, <1>2, <1>4, <3>3
    <3> QED BY <2>1, <3>4 DEF Follows
  <2>4. At(L).i < Size[At(L).op]
    BY <1>1, <1>6, <2>1, <2>3 DEF Follows
  <2>5. ~Continued
    BY <1>0, <1>3, <2>2, <2>3 DEF Continued
  <2> QED BY <1>0, <2>1, <2>4, <2>5 DEF Dangling
<1>10. IsFiniteSet(Breaks) /\ Cardinality(Breaks) \in Nat /\ L \notin Breaks
  BY <1>0, <1>5, WireFacts DEF Breaks
<1>11. garbled' + Cardinality(Breaks') <= cuts'
  <2>1. Cardinality(Breaks \union {L}) = Cardinality(Breaks) + 1
    BY <1>10, FS_AddElement
  <2>2. CASE L > 0 /\ ~Follows(At(L), c)
    <3>1. Breaks' = Breaks \union {L} /\ garbled' = garbled /\ cuts' = cuts
      BY <1>3, <1>5, <2>2
    <3>2. Cardinality(Breaks') = Cardinality(Breaks) + 1
      BY <2>1, <3>1
    <3>3. garbled + Cardinality(Breaks) + 1 <= cuts
      BY <1>9, <2>2
    <3> QED BY <1>3, <1>10, <3>1, <3>2, <3>3
  <2>3. CASE ~(L > 0 /\ ~Follows(At(L), c))
    BY <1>3, <1>5, <2>3 DEF Accounted
  <2> QED BY <2>2, <2>3
<1>12. At(1)'.i # 1 => cuts' > 0
  <2>1. CASE L = 0
    <3>1. At(1)' = c
      BY <1>5, <2>1
    <3>2. sent[t] > 0 => cuts > 0
      BY <1>0, <1>3, <2>1 DEF Attended
    <3> QED BY <1>1, <1>3, <1>4, <1>6, <3>1, <3>2
  <2>2. CASE L > 0
    <3>1. At(1)' = At(1)
      BY <1>5, <2>2
    <3> QED BY <1>0, <1>3, <2>2, <3>1 DEF Accounted
  <2> QED BY <1>5, <2>1, <2>2
<1>13. ASSUME NEW s \in Threads, pc'[s] = "send", sent'[s] > 0
       PROVE  WireLen' > 0 /\ At(WireLen)' = Cell(Packet(s), sent[s])'
  <2>1. CASE n < Size[Packet(t)]
    <3>1. pc' = pc /\ todo' = todo /\ sent'[t] = n
      BY <1>1, <1>4, <2>1 DEF Put, Types, HostTypes
    <3>2. s = t /\ Packet(t)' = Packet(t)
      BY <1>3, <1>13, <3>1 DEF Packet
    <3>3. At(WireLen)' = c
      BY <1>5
    <3> QED BY <1>2, <1>5, <3>1, <3>2, <3>3 DEF Cell
  <2>2. CASE ~(n < Size[Packet(t)])
    <3>1. pc'[t] # "send" /\ lock' = "free"
      BY <1>1, <1>3, <2>2 DEF Put, Release, Types, HostTypes, Threads
    <3> QED BY <1>13, <3>1 DEF Types, HostTypes, Threads
  <2> QED BY <2>1, <2>2
<1>14. Accounted' /\ Attended'
  BY <1>8, <1>11, <1>12, <1>13 DEF Accounted, Attended
<1>15. garbled' <= cuts' /\ (refused' => cuts' > 0)
  BY <1>3 DEF WireInv
<1>16. pc'["main"] \notin {"drop", "return", "exited"}
  BY <1>3 DEF Put, WireInv, Types, HostTypes, Threads
<1> QED BY <1>14, <1>15, <1>16 DEF WireInv

(* A packet is taken off the front.                                        *)
LEMMA TakeShifts ==
  ASSUME Types, NEW n \in Nat, n <= Len(buffer),
         buffer' = SubSeq(buffer, n + 1, Len(buffer)), up' = up,
         NEW L, L = WireLen
  PROVE  /\ WireLen' = L - n /\ L \in Nat /\ n <= L
         /\ \A k \in 1..L - n : At(k)' = At(k + n)
<1>1. /\ buffer \in Seq(Cells) /\ up \in Seq(Cells)
      /\ Len(buffer) \in Nat /\ Len(up) \in Nat
  BY DEF Types, WireTypes, StationTypes
<1>2. /\ Len(buffer') = Len(buffer) - n
      /\ \A k \in 1..Len(buffer) - n : buffer'[k] = buffer[k + n]
  BY <1>1
<1>3. WireLen' = L - n /\ L \in Nat /\ n <= L
  BY <1>1, <1>2 DEF WireLen
<1>4. ASSUME NEW k \in 1..L - n PROVE At(k)' = At(k + n)
  <2>1. At(k)' = IF k <= Len(buffer) - n THEN buffer'[k] ELSE up[k - (Len(buffer) - n)]
    BY <1>2 DEF At
  <2>2. k + n <= Len(buffer) <=> k <= Len(buffer) - n
    BY <1>1
  <2>3. k - (Len(buffer) - n) = k + n - Len(buffer)
    BY <1>1
  <2>4. At(k + n) = IF k + n <= Len(buffer) THEN buffer[k + n] ELSE up[k + n - Len(buffer)]
    BY DEF At
  <2>5. k <= Len(buffer) - n => buffer'[k] = buffer[k + n]
    BY <1>1, <1>2
  <2> QED BY <2>1, <2>2, <2>3, <2>4, <2>5
<1> QED BY <1>3, <1>4

(* What dispatchPacket takes for a packet holds a break, unless it is one. *)
LEMMA TornBreaks ==
  ASSUME Types, Complete, ~Whole
  PROVE  \E k \in Breaks : k < Size[Arriving]
<1>1. /\ Len(buffer) >= 2 /\ buffer[1].i = 1 /\ buffer[2].i = 2
      /\ Len(buffer) >= Size[Arriving] /\ Arriving = buffer[2].op
  BY DEF Complete, HasHeader, HeaderOK, Arriving
<1>2. /\ Len(buffer) \in Nat /\ WireLen \in Nat /\ Len(buffer) <= WireLen
      /\ \A k \in 1..Len(buffer) : At(k) = buffer[k] /\ buffer[k] \in Cells
  BY DEF Types, StationTypes, WireTypes, WireLen, At
<1>3. /\ buffer[1] \in Cells /\ buffer[2] \in Cells
      /\ Arriving \in DOMAIN Size /\ Size[Arriving] \in 2..4
  BY <1>1, <1>2, CellFacts, Sizes
<1>4. SUFFICES ASSUME \A k \in 1..Size[Arriving] - 1 : Follows(buffer[k], buffer[k + 1])
               PROVE  Whole
  BY <1>1, <1>2, <1>3 DEF Breaks
<1>5. buffer[2] = Cell(buffer[1].op, 2) /\ buffer[1].op = Arriving
  <2>1. Follows(buffer[1], buffer[2])
    <3>1. 1 \in 1..Size[Arriving] - 1 /\ 1 + 1 = 2
      BY <1>3
    <3> QED BY <1>4, <3>1
  <2>2. buffer[1].i < Size[buffer[1].op]
    <3>1. Size[buffer[1].op] \in 2..4
      BY <1>3, CellFacts, Sizes
    <3> QED BY <1>1, <3>1
  <2>3. buffer[2] = Cell(buffer[1].op, 2)
    BY <1>1, <2>1, <2>2 DEF Follows
  <2> QED BY <1>1, <2>3 DEF Cell
<1>6. buffer[1] = Cell(Arriving, 1)
  <2>1. buffer[1] = [op |-> buffer[1].op, i |-> buffer[1].i]
    BY <1>3 DEF Cells
  <2> QED BY <1>1, <1>5, <2>1 DEF Cell
<1>7. Size[Arriving] >= 3 => buffer[3] = Cell(Arriving, 3)
  BY <1>3, <1>4, <1>5 DEF Follows, Cell
<1>8. Size[Arriving] >= 4 => buffer[4] = Cell(Arriving, 4)
  BY <1>3, <1>4, <1>7 DEF Follows, Cell
<1> QED BY <1>3, <1>5, <1>6, <1>7, <1>8 DEF Whole

(* The breaks that are left were breaks further back.                      *)
LEMMA FewerBreaks ==
  ASSUME Types, NEW n \in Nat, n <= Len(buffer),
         buffer' = SubSeq(buffer, n + 1, Len(buffer)), up' = up,
         NEW B, B \subseteq Breaks, \A k \in Breaks : k > n => k \in B
  PROVE  IsFiniteSet(Breaks') /\ Cardinality(Breaks') <= Cardinality(B)
<1>0. PICK L : L = WireLen
  OBVIOUS
<1>1. /\ WireLen' = L - n /\ L \in Nat /\ n <= L
      /\ \A k \in 1..L - n : At(k)' = At(k + n)
  BY <1>0, TakeShifts
<1>2. ASSUME NEW k \in Breaks' PROVE k \in Nat /\ k + n \in B
  <2>1. k \in 1..L - n - 1 /\ ~Follows(At(k)', At(k + 1)')
    BY <1>1, <1>2 DEF Breaks
  <2>2. At(k)' = At(k + n) /\ At(k + 1)' = At(k + 1 + n)
    BY <1>1, <2>1
  <2>3. k + n \in 1..L - 1 /\ k + 1 + n = k + n + 1 /\ k + n > n
    BY <1>1, <2>1
  <2>4. k + n \in Breaks
    BY <1>0, <2>1, <2>2, <2>3 DEF Breaks
  <2> QED BY <2>1, <2>3, <2>4
<1> DEFINE f == [k \in Breaks' |-> k + n]
<1>3. f \in [Breaks' -> B] /\ \A j, k \in Breaks' : f[j] = f[k] => j = k
  BY <1>2
<1>4. f \in Injection(Breaks', B)
  BY <1>3, Fun_IsInj
<1>5. IsFiniteSet(B)
  BY WireFacts, FS_Subset
<1> QED BY <1>4, <1>5, FS_Injection

LEMMA DispatchKeeps ==
  ASSUME Types, Types', WireInv, Dispatch
  PROVE  WireInv'
<1>0. PICK L : L = WireLen
  OBVIOUS
<1>1. PICK n : n = Size[Arriving]
  OBVIOUS
<1>2. /\ Len(buffer) >= n /\ Len(buffer) >= 2 /\ Arriving = buffer[2].op
      /\ buffer' = SubSeq(buffer, n + 1, Len(buffer))
      /\ UNCHANGED <<pc, sent, lock, todo, sock, cuts, up, station, refused>>
      /\ station = "open" /\ Complete
  BY <1>1 DEF Dispatch, Complete, HasHeader, Arriving, HostUnchanged, wire, sender, Connected
<1>3. /\ n \in 2..4 /\ Len(buffer) \in Nat /\ garbled \in Nat /\ cuts \in Nat
  <2>1. buffer[2] \in Cells
    BY <1>2 DEF Types, StationTypes
  <2> QED BY <1>1, <1>2, <2>1, CellFacts, Sizes DEF Types, StationTypes, HostTypes
<1>4. /\ WireLen' = L - n /\ L \in Nat /\ n <= L
      /\ \A k \in 1..L - n : At(k)' = At(k + n)
  BY <1>0, <1>2, <1>3, TakeShifts
<1>5. Accounted /\ Cardinality(Breaks) \in Nat /\ IsFiniteSet(Breaks)
      /\ Breaks \subseteq 1..L - 1
  BY <1>0, <1>2, WireFacts DEF WireInv, Breaks
<1>6. /\ IsFiniteSet(Breaks') /\ Cardinality(Breaks') \in Nat
      /\ Cardinality(Breaks') <= Cardinality(Breaks)
  <2>1. IsFiniteSet(Breaks') /\ Cardinality(Breaks') <= Cardinality(Breaks)
    <3>1. PICK B : B = Breaks
      OBVIOUS
    <3>2. B \subseteq Breaks /\ \A k \in Breaks : k > n => k \in B
      BY <3>1
    <3> QED BY <1>2, <1>3, <3>1, <3>2, FewerBreaks
  <2> QED BY <2>1, FS_CardinalityType
<1>7. garbled' + Cardinality(Breaks') <= garbled + Cardinality(Breaks)
  <2>1. CASE Whole
    <3>1. garbled' = garbled
      BY <2>1 DEF Dispatch
    <3> QED BY <1>3, <1>5, <1>6, <3>1
  <2>2. CASE ~Whole
    <3>1. PICK b \in Breaks : b < n
      BY <1>1, <1>2, <2>2, TornBreaks
    <3>2. Cardinality(Breaks \ {b}) = Cardinality(Breaks) - 1
      BY <1>5, <3>1, FS_RemoveElement
    <3>3. IsFiniteSet(Breaks') /\ Cardinality(Breaks') <= Cardinality(Breaks \ {b})
      <4>1. \A k \in Breaks : k > n => k \in Breaks \ {b}
        BY <1>3, <1>5, <3>1
      <4> QED BY <1>2, <1>3, <4>1, FewerBreaks
    <3>4. garbled' = garbled + 1
      BY <2>2 DEF Dispatch
    <3> QED BY <1>3, <1>5, <1>6, <3>2, <3>3, <3>4
  <2> QED BY <2>1, <2>2
<1>8. Cardinality(Breaks') \in Nat /\ garbled' \in Nat /\ cuts' = cuts
  BY <1>2, <1>6 DEF Types, StationTypes
<1>9. Breaks # {} => cuts > 0
  BY <1>3, <1>5, FS_EmptySet DEF Accounted
<1>10. ~Whole => cuts > 0
  BY <1>1, <1>2, <1>9, TornBreaks
<1>11. At(n).i < Size[At(n).op] => ~Whole
  <2>1. Whole => buffer[n] = Cell(Arriving, n)
    BY <1>1, <1>3 DEF Whole
  <2>2. At(n) = buffer[n]
    BY <1>2, <1>3 DEF At
  <2> QED BY <1>1, <1>3, <2>1, <2>2 DEF Cell
<1>12. WireLen' > 0 /\ At(1)'.i # 1 => cuts' > 0
  <2>1. SUFFICES ASSUME L - n > 0, At(1)'.i # 1, Whole PROVE cuts > 0
    BY <1>2, <1>4, <1>10
  <2>2. At(1)' = At(n + 1)
    BY <1>3, <1>4, <2>1
  <2>3. ~Follows(At(n), At(n + 1))
    BY <1>11, <2>1, <2>2 DEF Follows
  <2>4. n \in Breaks
    BY <1>0, <1>3, <1>4, <2>1, <2>3 DEF Breaks
  <2> QED BY <1>9, <2>4
<1>13. ASSUME sock' = "open" PROVE Attended'
  <2>1. Attended
    BY <1>2, <1>13 DEF WireInv
  <2>2. WireLen' > 0 => At(WireLen)' = At(L)
    <3>1. PICK m : m = L - n
      OBVIOUS
    <3>2. m > 0 => At(m)' = At(L)
      BY <1>3, <1>4, <3>1
    <3> QED BY <1>4, <3>1, <3>2
  <2>3. \A t \in Threads : Packet(t)' = Packet(t)
    BY <1>2 DEF Packet
  <2>4. WireLen' > 0 /\ Continued => Continued'
    BY <1>0, <1>2, <2>2, <2>3 DEF Continued, Cell
  <2>5. Dangling' => Dangling
    BY <1>0, <1>3, <1>4, <2>2, <2>4 DEF Dangling
  <2>6. Dangling' => garbled' + Cardinality(Breaks') + 1 <= cuts'
    BY <1>3, <1>5, <1>7, <1>8, <2>1, <2>5 DEF Attended
  <2>7. ASSUME NEW t \in Threads, pc'[t] = "send", sent'[t] > 0
        PROVE  \/ WireLen' > 0 /\ At(WireLen)' = Cell(Packet(t), sent[t])'
               \/ WireLen' = 0 /\ cuts' > 0
    <3>1. At(WireLen) = Cell(Packet(t), sent[t])
      BY <1>0, <1>2, <1>3, <1>4, <2>1, <2>7 DEF Attended
    <3>2. CASE L > n
      BY <1>0, <1>2, <1>3, <1>4, <2>2, <2>3, <3>1, <3>2 DEF Cell
    <3>3. CASE L = n
      <4>1. sent[t] < Size[Packet(t)]
        BY <1>2, <2>7 DEF Types, Sending
      <4>2. At(n).i < Size[At(n).op]
        BY <1>0, <3>1, <3>3, <4>1 DEF Cell
      <4> QED BY <1>2, <1>4, <1>10, <1>11, <3>3, <4>2
    <3> QED BY <1>3, <1>4, <3>2, <3>3
  <2> QED BY <2>6, <2>7 DEF Attended
<1>14. Accounted'
  BY <1>2, <1>3, <1>5, <1>7, <1>8, <1>12 DEF Accounted
<1>15. garbled' <= cuts'
  BY <1>3, <1>8, <1>14 DEF Accounted
<1> QED BY <1>2, <1>13, <1>14, <1>15 DEF WireInv

(* A header is refused only behind a break, or at a cell that starts none. *)
LEMMA RefuseIsDue ==
  ASSUME Types, WireInv, Refuse
  PROVE  cuts > 0
<1>1. /\ Len(buffer) >= 2 /\ ~(buffer[1].i = 1 /\ buffer[2].i = 2)
      /\ Accounted
  BY DEF Refuse, HasHeader, HeaderOK, Connected, WireInv
<1>2. /\ Len(buffer) \in Nat /\ WireLen \in Nat /\ Len(buffer) <= WireLen
      /\ At(1) = buffer[1] /\ At(2) = buffer[2] /\ At(1) \in Cells /\ At(2) \in Cells
  <2>1. Len(buffer) \in Nat /\ Len(up) \in Nat /\ buffer \in Seq(Cells)
    BY DEF Types, StationTypes, WireTypes
  <2> QED BY <1>1, <2>1 DEF WireLen, At
<1>3. CASE At(1).i # 1
  BY <1>1, <1>2, <1>3 DEF Accounted
<1>4. CASE At(1).i = 1
  <2>1. 1 < Size[At(1).op]
    BY <1>2, CellFacts, Sizes
  <2>2. ~Follows(At(1), At(2))
    BY <1>1, <1>2, <1>4, <2>1 DEF Follows, Cell
  <2>3. 1 \in Breaks
    <3>1. 1 \in 1..WireLen - 1 /\ 1 + 1 = 2
      BY <1>1, <1>2
    <3> QED BY <2>2, <3>1 DEF Breaks
  <2>4. Cardinality(Breaks) \in Nat /\ Cardinality(Breaks) # 0
    BY <2>3, WireFacts, FS_EmptySet
  <2> QED BY <1>1, <2>4 DEF Accounted, Types, HostTypes, StationTypes
<1> QED BY <1>3, <1>4

LEMMA HostKeeps ==
  ASSUME Types, Types', WireInv, Host
  PROVE  WireInv'
<1> USE DEF Threads
<1>0. /\ UNCHANGED <<buffer, garbled, refused>>
      /\ pc["main"] \in {"drop", "return", "exited"} => sock # "open"
      /\ \A t \in Threads : pc[t] \in {"idle", "wait", "lock", "read"} => sent[t] = 0
      /\ \A t \in Threads : pc[t] = "send" <=> lock = t
      /\ \A t \in Threads : pc'[t] = "send" <=> lock' = t
      /\ pc \in [Threads -> MainStates \union BeatStates]
  BY DEF Host, stationVars, WireInv, Types, HostTypes, Sending
<1>1. ASSUME NEW t \in Threads, Acquire(t) PROVE WireInv'
  <2>1. SendersStay
    BY <1>0, <1>1 DEF SendersStay, Acquire, Goes, Packet
  <2>2. UNCHANGED <<up, cuts, station, sock>> /\ (pc'["main"] = "send" \/ pc'["main"] = pc["main"])
    BY <1>0, <1>1 DEF Acquire, Goes, wire
  <2> QED BY <1>0, <2>1, <2>2, QuietSteps
<1>2. ASSUME NEW t \in Threads, Put(t) PROVE WireInv'
  BY <1>0, <1>2, PutKeeps
<1>3. ASSUME NEW t \in Threads, SendFails(t) PROVE WireInv'
  <2>1. pc[t] = "send" /\ Cut(t) /\ UNCHANGED <<up, station, sock>>
    BY <1>3 DEF SendFails, wire
  <2>2. lock' = "free" /\ \A s \in Threads : pc'[s] # "send"
    BY <1>0, <2>1 DEF Cut, Release
  <2>3. pc'["main"] \notin {"drop", "return", "exited"} \/ sock # "open"
    BY <1>0, <1>3 DEF SendFails, Goes
  <2> QED BY <1>0, <2>1, <2>2, <2>3, CutSteps
<1>4. CASE BeatCrashes
  <2>1. /\ pc["heartbeat"] = "send" /\ Cut("heartbeat") /\ UNCHANGED <<up, station, sock>>
        /\ sock = "none"
    BY <1>4 DEF BeatCrashes, wire
  <2>2. lock' = "free" /\ \A s \in Threads : pc'[s] # "send"
    BY <1>0, <2>1 DEF Cut, Release
  <2> QED BY <1>0, <2>1, <2>2, CutSteps
<1>5. CASE Interrupt
  <2>1. UNCHANGED <<up, station, sock>> /\ pc'["main"] = "idle"
    BY <1>0, <1>5 DEF Interrupt, Goes, wire
  <2>2. CASE pc["main"] = "send"
    <3>1. Cut("main")
      BY <1>5, <2>2 DEF Interrupt
    <3>2. lock' = "free" /\ \A s \in Threads : pc'[s] # "send"
      BY <1>0, <2>2, <3>1 DEF Cut, Release
    <3> QED BY <1>0, <2>1, <2>2, <3>1, <3>2, CutSteps
  <2>3. CASE pc["main"] # "send"
    <3>1. UNCHANGED <<sent, cuts, lock>> /\ pc' = [pc EXCEPT !["main"] = "idle"]
      BY <1>5, <2>3 DEF Interrupt, Goes
    <3>2. SendersStay
      BY <1>0, <2>3, <3>1 DEF SendersStay, Packet
    <3> QED BY <1>0, <2>1, <3>1, <3>2, QuietSteps
  <2> QED BY <2>2, <2>3
<1>6. CASE Exit
  <2>1. UNCHANGED <<up, station, sock, cuts>> /\ sock # "open"
    BY <1>0, <1>6 DEF Exit, wire
  <2> QED BY <1>0, <2>1, QuietSteps
<1>7. CASE CloseShut \/ CloseDrop
  <2>1. UNCHANGED <<up, station, cuts>> /\ sock' # "open"
    BY <1>7 DEF CloseShut, CloseDrop, wire
  <2> QED BY <1>0, <2>1, QuietSteps
<1>8. CASE Beat \/ BeatStops \/ NextCommand \/ Get \/ RecvTimeout \/ Eof \/ CloseStop
  <2>1. UNCHANGED <<sent, lock, todo, up, station, sock, cuts>>
    BY <1>8 DEF Beat, BeatStops, NextCommand, Get, RecvTimeout, Eof, CloseStop, wire
  <2>2. SendersStay
    BY <1>0, <2>1 DEF SendersStay, Packet
  <2>3. pc'["main"] \in {"drop", "return", "exited"} => pc'["main"] = pc["main"]
    BY <1>0, <1>8 DEF Beat, BeatStops, NextCommand, Get, RecvTimeout, Eof, CloseStop, Goes
  <2> QED BY <1>0, <2>1, <2>2, <2>3, QuietSteps
<1> QED BY <1>1, <1>2, <1>3, <1>4, <1>5, <1>6, <1>7, <1>8 DEF Host, HostNext, Main, Heartbeat

LEMMA StationKeeps ==
  ASSUME Types, Types', WireInv, StationNext
  PROVE  WireInv'
<1>1. CASE Dispatch
  BY <1>1, DispatchKeeps
<1>2. CASE ~Dispatch
  <2>1. UNCHANGED <<pc, sent, lock, todo, sock, cuts, garbled>>
    BY <1>2 DEF StationNext, Receive, Incomplete, Refuse, Poll, Write, ReplyLost, DataLost,
                FrameDropped, PeerGone, HostUnchanged, Disconnect, sender
  <2>2. SendersStay
    BY <2>1 DEF SendersStay, Packet
  <2>3. pc'["main"] \in {"drop", "return", "exited"} => sock' # "open"
    BY <2>1 DEF WireInv
  <2>4. CASE Receive \/ Incomplete \/ Poll \/ Write \/ ReplyLost \/ FrameDropped
    <3>1. UNCHANGED <<station, refused>>
      BY <2>4 DEF Receive, Incomplete, Poll, Write, ReplyLost, FrameDropped, wire
    <3>2. UNCHANGED <<buffer, up>> \/ (buffer' = buffer \o up /\ up' = << >>)
      BY <2>4 DEF Receive, Incomplete, Poll, Write, ReplyLost, FrameDropped, wire
    <3> QED BY <2>1, <2>2, <2>3, <3>1, <3>2, QuietSteps
  <2>5. CASE Refuse \/ DataLost \/ PeerGone
    <3>1. station' = "closed" /\ (Refuse \/ refused' = refused)
      BY <2>5 DEF Refuse, DataLost, PeerGone, Disconnect
    <3>2. refused' => cuts' > 0
      BY <2>1, <3>1, RefuseIsDue DEF WireInv
    <3> QED BY <2>1, <2>3, <3>1, <3>2 DEF WireInv
  <2> QED BY <1>2, <2>4, <2>5 DEF StationNext
<1> QED BY <1>1, <1>2

LEMMA WireInductive == Types /\ Types' /\ WireInv /\ [Next]_vars => WireInv'
<1> SUFFICES ASSUME Types, Types', WireInv, [Next]_vars PROVE WireInv'
  OBVIOUS
<1>1. CASE UNCHANGED vars
  <2>1. /\ UNCHANGED <<pc, sent, todo, sock, cuts, up, station>>
        /\ UNCHANGED <<buffer, garbled, refused>>
    BY <1>1 DEF vars, hostVars, stationVars, sender, wire
  <2>2. SendersStay
    BY <2>1 DEF SendersStay, Packet
  <2> QED BY <2>1, <2>2, QuietSteps DEF WireInv
<1> QED BY <1>1, HostKeeps, StationKeeps DEF Next

LEMMA WireInitially == Init => WireInv
<1> SUFFICES ASSUME Init PROVE WireInv
  OBVIOUS
<1>1. /\ buffer = << >> /\ up = << >> /\ garbled = 0 /\ cuts = 0 /\ refused = FALSE
      /\ pc["main"] = "idle" /\ \A t \in Threads : sent[t] = 0
  BY DEF Init, HostInit, Threads
<1>2. WireLen = 0 /\ Breaks = {}
  BY <1>1 DEF WireLen, Breaks
<1>3. Cardinality(Breaks) = 0
  BY <1>2, FS_EmptySet
<1> QED BY <1>1, <1>2, <1>3 DEF WireInv, Accounted, Attended, Dangling

(* The lock keeps packets whole, and the damage is bounded: the station    *)
(* acts on no more packets that nobody sent than were given up half way    *)
(* (a timeout of sendall, Ctrl+C within it), however the two threads, the  *)
(* buffers and the connection interleave, and it refuses a header only     *)
(* after one (send_all, :208; processRxBuffer, app.cpp).                   *)
THEOREM PacketsStayWhole == Spec => []WholeOnWire
<1>1. WireInv => WholeOnWire
  BY DEF WireInv, WholeOnWire
<1> QED BY <1>1, WireInitially, WireInductive, TypesInitially, TypesInductive, PTL DEF Spec

---------------------------------------------------------------------------
(* The station after its backend has gone.                                 *)

LEMMA TurnType == Types => Turn \in 0..4
<1> SUFFICES ASSUME Types PROVE Turn \in 0..4
  OBVIOUS
<1>1. loop \in {"read", "parse", "poll", "write"}
  BY DEF Types, StationTypes
<1> QED BY <1>1 DEF Turn

(* The measure of a state is that of its three parts. *)
LEMMA RemainingIs ==
  ASSUME NEW u \in Nat, NEW b \in Nat, NEW t \in 0..4,
         NEW v \in Nat, NEW c \in Nat, NEW r \in 0..4
  PROVE  /\ v = u /\ c = b /\ r < t => 5 * v + c + r < 5 * u + b + t
         /\ v = u /\ c + 2 <= b /\ r <= t + 1 => 5 * v + c + r < 5 * u + b + t
         /\ v = 0 /\ u > 0 /\ c = b + u /\ r <= t + 3 => 5 * v + c + r < 5 * u + b + t
         /\ v = u /\ c = 0 /\ r = 0 => 5 * v + c + r <= 5 * u + b + t
OBVIOUS

LEMMA StationWinds ==
  ASSUME Types, Types', StationNext, sock # "open"
  PROVE  /\ Remaining' <= Remaining
         /\ station' = "closed" \/ Remaining' < Remaining
<1>1. /\ up \in Seq(Cells) /\ buffer \in Seq(Cells)
      /\ up' \in Seq(Cells) /\ buffer' \in Seq(Cells)
      /\ loop = "write" <=> out # "none"
      /\ out \in {"none", "Reply", "Data"}
  BY DEF Types, WireTypes, StationTypes
<1>2. PICK u \in Nat, b \in Nat, t \in 0..4 :
        u = Len(up) /\ b = Len(buffer) /\ t = Turn /\ Remaining = 5 * u + b + t
  BY <1>1, TurnType DEF Remaining
<1>3. PICK v \in Nat, c \in Nat, r \in 0..4 :
        v = Len(up') /\ c = Len(buffer') /\ r = Turn' /\ Remaining' = 5 * v + c + r
  <2>1. loop' \in {"read", "parse", "poll", "write"}
    BY DEF Types, StationTypes
  <2>2. Turn' \in 0..4
    BY <2>1 DEF Turn
  <2> QED BY <1>1, <2>2 DEF Remaining
<1>4. ASSUME \/ v = u /\ c = b /\ r < t
             \/ v = u /\ c + 2 <= b /\ r <= t + 1
             \/ v = 0 /\ u > 0 /\ c = b + u /\ r <= t + 3
      PROVE  Remaining' < Remaining /\ Remaining' <= Remaining
  <2>1. PICK m \in Int, n \in Int : m = Remaining' /\ n = Remaining
    BY <1>2, <1>3
  <2>2. m < n
    BY <1>2, <1>3, <1>4, <2>1, RemainingIs
  <2> QED BY <2>1, <2>2
<1>5. CASE Receive
  <2>1. up # << >> /\ up' = << >> /\ buffer' = buffer \o up /\ loop' = "parse" /\ loop = "read"
    BY <1>5 DEF Receive
  <2>2. u > 0 /\ v = 0 /\ c = b + u
    BY <1>1, <1>2, <1>3, <2>1
  <2>3. r = 3 /\ t = 0
    BY <1>2, <1>3, <2>1 DEF Turn
  <2> QED BY <1>4, <2>2, <2>3
<1>6. CASE Incomplete
  <2>1. loop = "parse" /\ loop' = "poll" /\ up' = up /\ buffer' = buffer
    BY <1>6 DEF Incomplete, wire
  <2>2. r = 2 /\ t = 3
    BY <1>2, <1>3, <2>1 DEF Turn
  <2> QED BY <1>2, <1>3, <1>4, <2>1, <2>2
<1>7. CASE Refuse \/ DataLost \/ PeerGone
  <2>1. station' = "closed" /\ loop' = "read" /\ buffer' = << >> /\ up' = up
    BY <1>7 DEF Refuse, DataLost, PeerGone, Disconnect
  <2>2. v = u /\ c = 0 /\ r = 0
    BY <1>2, <1>3, <2>1 DEF Turn
  <2>3. PICK m \in Int, n \in Int : m = Remaining' /\ n = Remaining
    BY <1>2, <1>3
  <2>4. m <= n
    BY <1>2, <1>3, <2>2, <2>3, RemainingIs
  <2> QED BY <2>1, <2>3, <2>4
<1>8. CASE Dispatch
  <2>1. /\ loop = "parse" /\ Len(buffer) >= 2 /\ Len(buffer) >= Size[Arriving]
        /\ buffer' = SubSeq(buffer, Size[Arriving] + 1, Len(buffer)) /\ up' = up
        /\ \/ loop' = loop
           \/ loop' = "write" /\ out' = "Reply"
    BY <1>8 DEF Dispatch, Complete, HasHeader, wire
  <2>2. Size[Arriving] \in 2..4
    <3>1. buffer[2] \in Cells
      BY <1>1, <2>1
    <3> QED BY <3>1, CellFacts, Sizes DEF Arriving
  <2>3. c + 2 <= b
    <3>1. PICK z \in 2..4 : z = Size[Arriving]
      BY <2>2
    <3>2. Len(SubSeq(buffer, z + 1, Len(buffer))) = Len(buffer) - z
      BY <1>1, <2>1, <3>1
    <3>3. Len(buffer') = Len(buffer) - z
      BY <2>1, <3>1, <3>2
    <3>4. c = b - z
      BY <1>2, <1>3, <3>3
    <3> QED BY <3>1, <3>4
  <2>4. r <= t + 1 /\ v = u
    BY <1>2, <1>3, <2>1 DEF Turn
  <2> QED BY <1>2, <1>3, <1>4, <2>1, <2>3, <2>4
<1>9. CASE Poll
  <2>1. /\ loop = "poll" /\ up' = up /\ buffer' = buffer
        /\ loop' = "read" \/ (loop' = "write" /\ out' = "Data")
    BY <1>9 DEF Poll, wire
  <2>2. t = 2 /\ r < 2
    BY <1>2, <1>3, <2>1 DEF Turn
  <2> QED BY <1>2, <1>3, <1>4, <2>1, <2>2
<1>10. CASE ReplyLost
  <2>1. loop = "write" /\ out = "Reply" /\ loop' = "parse" /\ up' = up /\ buffer' = buffer
    BY <1>10 DEF ReplyLost, WriteGivesUp, AfterWrite, wire
  <2>2. t = 4 /\ r = 3
    BY <1>2, <1>3, <2>1 DEF Turn
  <2> QED BY <1>2, <1>3, <1>4, <2>1, <2>2
<1>11. CASE FrameDropped
  <2>1. loop = "write" /\ out = "Data" /\ loop' = "read" /\ up' = up /\ buffer' = buffer
    BY <1>11 DEF FrameDropped, WriteGivesUp, AfterWrite, wire
  <2>2. t = 1 /\ r = 0
    BY <1>2, <1>3, <2>1 DEF Turn
  <2> QED BY <1>2, <1>3, <1>4, <2>1, <2>2
<1>12. ~Write
  BY DEF Write
<1> QED BY <1>5, <1>6, <1>7, <1>8, <1>9, <1>10, <1>11, <1>12 DEF StationNext

LEMMA HostAddsNothing ==
  ASSUME Host, sock # "open"
  PROVE  UNCHANGED <<up, buffer, loop, out>>
<1>1. UNCHANGED <<buffer, loop, out>>
  BY DEF Host, stationVars
<1>2. \A t \in Threads : ~Put(t)
  BY DEF Put
<1>3. HostNext
  BY DEF Host
<1>4. up' = up
  BY <1>2, <1>3 DEF HostNext, Main, Heartbeat, Interrupt, NextCommand, Acquire, SendFails,
     Get, RecvTimeout, Eof, CloseStop, CloseShut, CloseDrop, Exit, Beat, BeatStops,
     BeatCrashes, Threads, wire
<1> QED BY <1>1, <1>4

(* A backend that has closed its socket leaves no more than what is on its *)
(* way: every step of the loop task (pollTcpReceive, dispatchPacket,       *)
(* wspWritePacket, connected()) works some of it off or closes the         *)
(* connection, for every size of the buffers, and no reply to the one that *)
(* is gone is tried twice.  With a loop task that runs this is StationFree.*)
THEOREM GoneBackendWindsDown == Spec => StationWindsDown
<1>1. Types /\ Types' /\ [Next]_vars
        => [sock # "open" /\ station = "open" =>
              /\ Remaining' <= Remaining
              /\ StationNext => station' = "closed" \/ Remaining' < Remaining]_vars
  <2> SUFFICES ASSUME Types, Types', Next, sock # "open"
               PROVE  /\ Remaining' <= Remaining
                      /\ StationNext => station' = "closed" \/ Remaining' < Remaining
    OBVIOUS
  <2>1. CASE StationNext
    BY <2>1, StationWinds
  <2>2. CASE ~StationNext
    <3>1. UNCHANGED <<up, buffer, loop, out>>
      BY <2>2, HostAddsNothing DEF Next
    <3>2. Remaining' = Remaining
      BY <3>1 DEF Remaining, Turn
    <3>3. Remaining \in Int
      <4>1. up \in Seq(Cells) /\ buffer \in Seq(Cells)
        BY DEF Types, WireTypes, StationTypes
      <4> QED BY <4>1, TurnType DEF Remaining
    <3> QED BY <2>2, <3>2, <3>3
  <2> QED BY <2>1, <2>2
<1> QED BY <1>1, TypesInitially, TypesInductive, PTL DEF Spec, StationWindsDown
=============================================================================
