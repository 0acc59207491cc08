---------------------------- MODULE MediaProofs ----------------------------
(***************************************************************************)
(* Safety of module Media for every value of its constants: the levels of  *)
(* the queues, what a key frame promises, and how late the network may be. *)
(***************************************************************************)
EXTENDS Media, TLAPS

USE DEF FrameTicks, Ticks, MicHold, MicBuffers, SpkBuffers, SpkBufferTicks, SpkFree

---------------------------------------------------------------------------
(* Time.                                                                   *)

MicType == /\ micOn \in BOOLEAN
           /\ fill \in 0..FrameTicks - 1
           /\ held \in 0..MicHold
           /\ old \in 0..held + 1
HostType == /\ streaming \in BOOLEAN
            /\ phase \in 0..FrameTicks - 1
            /\ late \in 0..Ahead
            /\ inbox \in Nat

LEMMA RecordedType ==
  ASSUME fill \in 0..FrameTicks - 1, NEW d \in Nat
  PROVE  /\ Recorded(d) \in Nat
         /\ (fill + d) % FrameTicks \in 0..FrameTicks - 1
BY DEF Recorded

(* Reading takes a buffer that is full. *)
LEMMA RecordType ==
  ASSUME MicType, behind \in BOOLEAN, behind' \in BOOLEAN, lost \in BOOLEAN,
         NEW d \in Nat, NEW read \in {0, 1},
         read = 1 => held + Recorded(d) > 0,
         Record(d, read)
  PROVE  /\ fill' \in 0..FrameTicks - 1
         /\ held' \in 0..MicHold
         /\ old' \in 0..held' + 1
         /\ lost' \in BOOLEAN
<1>1. Recorded(d) \in Nat /\ fill' \in 0..FrameTicks - 1
  BY RecordedType DEF MicType, Record
<1>2. Overrun(d) = IF held + Recorded(d) - 3 < 0 THEN 0 ELSE held + Recorded(d) - 3
  BY DEF Overrun, AtLeast0
<1>3. held' = (IF held + Recorded(d) < 3 THEN held + Recorded(d) ELSE 3) - read
  BY DEF Record, Smaller
<1>4. old' = IF old - Overrun(d) - read < 0 THEN 0 ELSE old - Overrun(d) - read
  BY DEF Record, AtLeast0
<1>5. held' \in 0..MicHold /\ old' \in 0..held' + 1
  BY <1>1, <1>2, <1>3, <1>4 DEF MicType
<1>6. lost' \in BOOLEAN
  BY DEF Record
<1> QED BY <1>1, <1>5, <1>6

LEMMA ArriveType ==
  ASSUME HostType, behind \in BOOLEAN, NEW d \in Nat, Arrive(d)
  PROVE  HostType'
<1>1. Due(d) \in Nat
  BY DEF Due, HostType
<1>2. phase' \in 0..FrameTicks - 1
  BY DEF Arrive, HostType
<1>3. Delayed \in 0..Ahead
  BY MediaAssumption DEF Delayed
<1>4. late' \in 0..Ahead /\ late' <= late + Due(d)
  BY <1>1, <1>3, MediaAssumption DEF Arrive, Smaller, HostType
<1>5. inbox' \in Nat
  BY <1>1, <1>4, MediaAssumption DEF Arrive, HostType
<1> QED BY <1>2, <1>4, <1>5 DEF Arrive, HostType

(* The speaker's buffers are sent one after the other: d ticks free what   *)
(* was sent in them, and no more than all but one.                         *)
SpeakerType == avail \in 0..23 /\ sent \in 0..3

LEMMA Quarters ==
  ASSUME NEW x \in Nat
  PROVE  x \div 4 \in Nat /\ x % 4 \in 0..3 /\ 4 * (x \div 4) + (x % 4) = x
OBVIOUS

LEMMA SpeakerTime ==
  ASSUME SpeakerType, NEW d \in Nat
  PROVE  /\ Avail(d) \in 0..23 /\ (sent + d) % 4 \in 0..3 /\ Avail(d) >= avail
         /\ avail < 20 /\ sent + d >= 4 => Avail(d) >= avail + 4
         /\ 20 - Avail(d) - ((sent + d) % 4)
              <= IF 20 - avail - sent > d THEN 20 - avail - sent - d ELSE 0
<1>1. PICK q \in Nat, m \in 0..3 : q = avail \div 4 /\ m = avail % 4 /\ 4 * q + m = avail
  BY Quarters DEF SpeakerType
<1>2. PICK f \in Nat, t \in 0..3 : f = Freed(d) /\ t = (sent + d) % 4 /\ 4 * f + t = sent + d
  <2>1. PICK x \in Nat : x = sent + d
    BY DEF SpeakerType
  <2> QED BY <2>1, Quarters DEF Freed
<1>3. Avail(d) = m + 4 * (IF q + f < 5 THEN q + f ELSE 5)
  BY <1>1, <1>2 DEF Avail, Smaller
<1>4. q <= 5
  BY <1>1 DEF SpeakerType
<1>5. PICK a \in Int : a = Avail(d) /\ a = m + 4 * (IF q + f < 5 THEN q + f ELSE 5)
  BY <1>3
<1>6. /\ a \in 0..23 /\ a >= avail
      /\ avail < 20 /\ sent + d >= 4 => a >= avail + 4
      /\ 20 - a - t <= IF 20 - avail - sent > d THEN 20 - avail - sent - d ELSE 0
  BY <1>1, <1>2, <1>4, <1>5 DEF SpeakerType
<1> QED BY <1>2, <1>5, <1>6

(* A write waits for the ends of the transmissions that make room for it.  *)
LEMMA WaitIs ==
  ASSUME SpeakerType
  PROVE  /\ Wait(5) \in 0..8 /\ Avail(Wait(5)) >= 5
         /\ avail >= 5 => Wait(5) = 0 /\ (sent + Wait(5)) % 4 = sent
         /\ avail < 5 => Wait(5) \in 1..8 - avail - sent /\ (sent + Wait(5)) % 4 = 0
         /\ avail \in 1..4 => Wait(5) = 4 - sent
<1>1. CASE avail >= 5
  <2>1. Wait(5) = 0
    BY <1>1 DEF Wait
  <2>2. Avail(0) \in 0..23 /\ Avail(0) >= avail
    BY SpeakerTime
  <2>3. (sent + 0) % 4 = sent /\ Avail(0) >= 5
    BY <1>1, <2>2 DEF SpeakerType
  <2> QED BY <1>1, <2>1, <2>3 DEF SpeakerType
<1>2. CASE avail \in 1..4
  <2>1. Wait(5) = 4 - sent
    BY <1>2 DEF Wait, Missing
  <2>2. PICK d \in 1..4 : d = 4 - sent
    BY DEF SpeakerType
  <2>3. Avail(d) \in 0..23 /\ (avail < 20 /\ sent + d >= 4 => Avail(d) >= avail + 4)
    BY SpeakerTime
  <2>4. Avail(d) >= 5 /\ (sent + d) % 4 = 0
    BY <1>2, <2>2, <2>3 DEF SpeakerType
  <2>5. d \in 0..8 /\ d \in 1..8 - avail - sent
    BY <1>2, <2>2 DEF SpeakerType
  <2> QED BY <1>2, <2>1, <2>2, <2>4, <2>5
<1>3. CASE avail = 0
  <2>1. Wait(5) = 8 - sent
    BY <1>3 DEF Wait, Missing
  <2>2. PICK d \in 5..8 : d = 8 - sent
    BY DEF SpeakerType
  <2>3. Avail(d) = 8 /\ (sent + d) % 4 = 0
    BY <1>3, <2>2 DEF Avail, Freed, Smaller, SpeakerType
  <2>4. d \in 0..8 /\ d \in 1..8 - avail - sent
    BY <1>3, <2>2 DEF SpeakerType
  <2> QED BY <1>3, <2>1, <2>2, <2>3, <2>4
<1> QED BY <1>1, <1>2, <1>3 DEF SpeakerType

LEMMA ElapseType ==
  ASSUME MicType, HostType, behind \in BOOLEAN, behind' \in BOOLEAN, lost \in BOOLEAN,
         SpeakerType,
         NEW d \in Nat, NEW read \in {0, 1}, NEW n \in 0..FrameTicks,
         read = 1 => held + Recorded(d) > 0,
         Avail(d) >= n,
         Elapse(d, read, n)
  PROVE  /\ HostType' /\ lost' \in BOOLEAN
         /\ fill' \in 0..FrameTicks - 1
         /\ held' \in 0..MicHold
         /\ old' \in 0..held' + 1
         /\ avail' \in 0..23 /\ sent' \in 0..3
<1>1. /\ Record(d, read) /\ Arrive(d)
      /\ avail' = Avail(d) - n /\ sent' = (sent + d) % SpkBufferTicks
  BY DEF Elapse
<1>2. avail' \in 0..23 /\ sent' \in 0..3
  BY <1>1, SpeakerTime
<1>3. HostType'
  BY <1>1, ArriveType
<1> QED BY <1>1, <1>2, <1>3, RecordType

---------------------------------------------------------------------------
Types == /\ pc \in {"rx", "poll"}
         /\ micOn \in BOOLEAN /\ streaming \in BOOLEAN /\ behind \in BOOLEAN
         /\ lost \in BOOLEAN /\ synced \in BOOLEAN
         /\ fill \in 0..FrameTicks - 1
         /\ held \in 0..MicHold
         /\ old \in 0..held + 1
         /\ avail \in 0..23 /\ sent \in 0..3
         /\ phase \in 0..FrameTicks - 1
         /\ late \in 0..Ahead
         /\ inbox \in Nat /\ batch \in Nat
         /\ decoder \in {"clean", "own", "foreign"}

LEMMA TypesAreTypeOK == TypeOK <=> Types
BY DEF TypeOK, Types

(* Types of Media: the DMA queues are never fuller than they are long,     *)
(* whatever arrives when, and the frames that are late are the network's.  *)
THEOREM TypeCorrect == Spec => []TypeOK
<1>1. Init => Types
  <2> SUFFICES ASSUME Init PROVE Types
    OBVIOUS
  <2>1. /\ micOn \in BOOLEAN /\ streaming \in BOOLEAN /\ behind \in BOOLEAN
        /\ lost \in BOOLEAN /\ synced \in BOOLEAN
    BY DEF Init
  <2> QED BY <2>1, MediaAssumption DEF Init, Types
<1>2. Types /\ [Next]_vars => Types'
  <2> SUFFICES ASSUME Types, [Next]_vars PROVE Types'
    OBVIOUS
  <2> USE DEF Types
  <2>0. MicType /\ HostType /\ behind \in BOOLEAN /\ lost \in BOOLEAN /\ SpeakerType
    BY DEF MicType, HostType, SpeakerType
  <2>1. CASE Receive
    BY <2>1 DEF Receive, mic, speaker, opus
  <2>2. ASSUME NextSession PROVE Types'
    <3>1. micOn' \in BOOLEAN /\ streaming' \in BOOLEAN /\ synced' \in BOOLEAN
      BY <2>2 DEF NextSession
    <3>2. phase' \in 0..FrameTicks - 1 /\ late' \in 0..Ahead /\ old' \in 0..held' + 1
      BY <2>2, MediaAssumption DEF NextSession
    <3> QED BY <2>2, <3>1, <3>2 DEF NextSession, speaker
  <2>3. CASE Overflow
    BY <2>3, <2>2 DEF Overflow
  <2>4. ASSUME NextFrame, NotPlayed, decoder' \in {"clean", "own", "foreign"}, synced' \in BOOLEAN
        PROVE  Types'
    BY <2>4 DEF NextFrame, NotPlayed, speaker, host
  <2>5. ASSUME NextFrame, Played(FrameTicks),
               decoder' \in {"clean", "own", "foreign"}, synced' \in BOOLEAN
        PROVE  Types'
    <3> DEFINE d == Wait(5)
    <3>1. d \in Nat /\ Avail(d) >= 5
      BY <2>0, WaitIs
    <3>2. Elapse(d, 0, 5)
      BY <2>5 DEF Played
    <3> HIDE DEF d
    <3>3. behind' \in BOOLEAN /\ micOn' = micOn
      BY <2>5 DEF NextFrame
    <3>4. /\ HostType' /\ lost' \in BOOLEAN
          /\ fill' \in 0..FrameTicks - 1
          /\ held' \in 0..MicHold
          /\ old' \in 0..held' + 1
          /\ avail' \in 0..23 /\ sent' \in 0..3
      BY <2>0, <3>1, <3>2, <3>3, ElapseType
    <3>5. streaming' \in BOOLEAN /\ lost' \in BOOLEAN /\ micOn' \in BOOLEAN
      BY <3>3, <3>4 DEF HostType
    <3>6. pc' \in {"rx", "poll"} /\ batch' \in Nat /\ behind' \in BOOLEAN
      BY <2>5 DEF NextFrame
    <3> QED BY <2>5, <3>4, <3>5, <3>6 DEF HostType
  <2>6. CASE HandleSpkPCM
    <3>1. NextFrame /\ UNCHANGED opus /\ (Played(FrameTicks) \/ NotPlayed)
      BY <2>6 DEF HandleSpkPCM
    <3> QED BY <3>1, <2>4, <2>5 DEF opus
  <2>7. CASE HandleSpkComp
    <3>1. /\ NextFrame /\ (Played(FrameTicks) \/ NotPlayed)
          /\ decoder' \in {"clean", "own", "foreign"} /\ synced' \in BOOLEAN
      BY <2>7 DEF HandleSpkComp, AfterFrame, AfterReset, opus
    <3> QED BY <3>1, <2>4, <2>5
  <2>8. ASSUME NEW d \in Nat, NEW read \in {0, 1}, read = 1 => held + Recorded(d) > 0,
               Elapse(d, read, 0),
               pc' \in {"rx", "poll"}, behind' \in BOOLEAN, UNCHANGED <<micOn, batch, opus>>
        PROVE  Types'
    <3>1. /\ HostType' /\ lost' \in BOOLEAN
          /\ fill' \in 0..FrameTicks - 1
          /\ held' \in 0..MicHold
          /\ old' \in 0..held' + 1
          /\ avail' \in 0..23 /\ sent' \in 0..3
      <4>1. Avail(d) >= 0
        BY <2>0, SpeakerTime
      <4> QED BY <2>0, <2>8, <4>1, ElapseType
    <3> QED BY <2>8, <3>1 DEF HostType, opus
  <2>9. CASE PollMic
    <3>1. PICK c \in PassCost :
            LET d == IF MicWaits(c) THEN FrameTicks - fill ELSE c IN Elapse(d, 1, 0)
      BY <2>9 DEF PollMic
    <3> DEFINE d == IF MicWaits(c) THEN FrameTicks - fill ELSE c
    <3>2. d \in Nat /\ held + Recorded(d) > 0
      BY MediaAssumption, RecordedType DEF MicWaits, PassCost, Recorded
    <3>3. Elapse(d, 1, 0)
      BY <3>1
    <3> HIDE DEF d
    <3>4. pc' \in {"rx", "poll"} /\ behind' \in BOOLEAN /\ UNCHANGED <<micOn, batch, opus>>
      BY <2>9 DEF PollMic
    <3> QED BY <3>2, <3>3, <3>4, <2>8
  <2>10. CASE PollMicOff
    <3>1. PICK c \in PassCost : Elapse(c + 1, 0, 0)
      BY <2>10 DEF PollMicOff
    <3>2. c + 1 \in Nat
      BY MediaAssumption DEF PassCost
    <3>3. pc' \in {"rx", "poll"} /\ behind' \in BOOLEAN /\ UNCHANGED <<micOn, batch, opus>>
      BY <2>10 DEF PollMicOff
    <3> QED BY <3>1, <3>2, <3>3, <2>8
  <2>11. ASSUME NEW d \in Nat, HeldUp(d) PROVE Types'
    BY <2>11, <2>8 DEF HeldUp, opus
  <2>12. CASE HandleIrTransmit
    <3>1. PICK signal \in IrSignals, repeat \in IrRepeats : HeldUp(IrTicks(signal, repeat))
      BY <2>12 DEF HandleIrTransmit
    <3>2. SendCount(repeat) \in Nat /\ signal + IrPause \in Nat
      BY MediaAssumption DEF SendCount, UInt16, IrPause
    <3>3. IrTicks(signal, repeat) \in Nat
      BY <3>2 DEF IrTicks
    <3> QED BY <3>1, <3>3, <2>11
  <2>13. CASE WriteStall
    BY <2>13, <2>11, MediaAssumption DEF WriteStall
  <2>14. CASE StreamStart
    BY <2>14, MediaAssumption DEF StreamStart, mic, speaker, opus
  <2>15. CASE StreamEnd
    <3>1. streaming' \in BOOLEAN
      BY <2>15 DEF StreamEnd
    <3>2. phase' \in 0..FrameTicks - 1
      BY <2>15 DEF StreamEnd
    <3> QED BY <2>15, <3>1, <3>2 DEF StreamEnd, mic, speaker, opus
  <2>16. CASE SubscribeMic
    BY <2>16 DEF SubscribeMic, speaker, host, opus
  <2>17. CASE PeerLost
    BY <2>17, <2>2 DEF PeerLost
  <2>18. CASE UNCHANGED vars
    BY <2>18 DEF vars, mic, speaker, host, opus
  <2> QED BY <2>1, <2>3, <2>6, <2>7, <2>9, <2>10, <2>12, <2>13, <2>14, <2>15, <2>16, <2>17, <2>18
          DEF Next, Loop, Environment
<1> QED BY <1>1, <1>2, TypesAreTypeOK, PTL DEF Spec

---------------------------------------------------------------------------
(* README.md:318: once a session has had a key frame, what its backend     *)
(* hears does not depend on frames of a session before (handleSpkComp,     *)
(* app.cpp:422-427), whatever the pacing, the delays and the frames that   *)
(* Opus refuses.                                                           *)
THEOREM KeyFrameSyncs == Spec => []KeySync
<1> DEFINE Inv == synced \in BOOLEAN /\ (synced => decoder # "foreign")
<1>1. Init => Inv
  BY DEF Init
<1>2. Inv /\ [Next]_vars => Inv'
  <2> SUFFICES ASSUME Inv, [Next]_vars PROVE Inv'
    OBVIOUS
  <2>1. CASE UNCHANGED opus
    BY <2>1 DEF opus
  <2>2. CASE NextSession
    BY <2>2 DEF NextSession
  <2>3. CASE HandleSpkComp
    <3>1. CASE UNCHANGED opus
      BY <2>1, <3>1
    <3>2. CASE \E flags \in Flags :
                 /\ synced' = (synced \/ "Key" \in flags)
                 /\ decoder' \in {AfterReset(flags), AfterFrame(AfterReset(flags))}
      BY <3>2 DEF AfterReset, AfterFrame, Resets
    <3> QED BY <2>3, <3>1, <3>2 DEF HandleSpkComp
  <2>4. CASE ~HandleSpkComp /\ ~NextSession
    <3>1. UNCHANGED opus
      BY <2>4 DEF Next, Loop, Environment, vars, Receive, Overflow, HandleSpkPCM, PollMic,
                  PollMicOff, StreamStart, StreamEnd, SubscribeMic, PeerLost,
                  HandleIrTransmit, WriteStall, HeldUp
    <3> QED BY <2>1, <3>1
  <2> QED BY <2>2, <2>3, <2>4
<1>3. Inv => KeySync
  BY DEF KeySync
<1> QED BY <1>1, <1>2, <1>3, PTL DEF Spec

---------------------------------------------------------------------------
(* The pace of the loop while nothing holds it up.                         *)

(* The ways in which pollMic lets time pass: it works on for less than a   *)
(* frame, or waits until one is full; then the loop may have caught up.    *)
ReadsMic(d) == /\ pc = "poll" /\ pc' = "rx" /\ micOn
               /\ UNCHANGED <<micOn, batch>>
               /\ Elapse(d, 1, 0)
               /\ \/ d < FrameTicks /\ behind' = behind
                  \/ /\ held = 0 /\ d = FrameTicks - fill
                     /\ behind' = behind \/ (behind' = FALSE /\ CaughtUp)
PassesBy(d) == /\ pc = "poll" /\ pc' = "rx" /\ ~micOn
               /\ UNCHANGED <<micOn, batch>>
               /\ Elapse(d, 0, 0)
               /\ d <= FrameTicks
               /\ behind' = behind \/ (behind' = FALSE /\ CaughtUp)

LEMMA StepForms ==
  ASSUME Types, [Next]_vars
  PROVE  \/ Receive \/ (pc = "rx" /\ NextSession)
         \/ (NextFrame /\ NotPlayed) \/ (NextFrame /\ Played(FrameTicks))
         \/ (\E d \in Nat : ReadsMic(d)) \/ (\E d \in Nat : PassesBy(d))
         \/ (\E d \in Nat : HeldUp(d))
         \/ StreamStart \/ StreamEnd \/ SubscribeMic \/ UNCHANGED vars
<1>1. CASE HandleSpkPCM \/ HandleSpkComp
  BY <1>1 DEF HandleSpkPCM, HandleSpkComp
<1>2. CASE Overflow \/ PeerLost
  BY <1>2 DEF Overflow, PeerLost
<1>3. CASE PollMic
  <2>1. PICK c \in PassCost :
          /\ behind' = (behind /\ ~(MicWaits(c) /\ CaughtUp))
          /\ Elapse(IF MicWaits(c) THEN FrameTicks - fill ELSE c, 1, 0)
    BY <1>3 DEF PollMic
  <2>2. c \in 0..FrameTicks - 1 /\ FrameTicks - fill \in Nat
    BY MediaAssumption DEF PassCost, Types
  <2>3. pc = "poll" /\ pc' = "rx" /\ micOn /\ UNCHANGED <<micOn, batch>>
    BY <1>3 DEF PollMic
  <2>4. CASE MicWaits(c)
    <3>1. held = 0
      BY <2>2, <2>4 DEF MicWaits, Recorded, Types
    <3>2. behind' = behind \/ (behind' = FALSE /\ CaughtUp)
      BY <2>1, <2>4 DEF Types
    <3>3. ReadsMic(FrameTicks - fill)
      BY <2>1, <2>3, <2>4, <3>1, <3>2 DEF ReadsMic
    <3> QED BY <2>2, <3>3
  <2>5. CASE ~MicWaits(c)
    <3>1. behind' = behind
      BY <2>1, <2>5 DEF Types
    <3>2. ReadsMic(c)
      BY <2>1, <2>2, <2>3, <2>5, <3>1 DEF ReadsMic
    <3> QED BY <2>2, <3>2
  <2> QED BY <2>4, <2>5
<1>4. CASE PollMicOff
  <2>1. PICK c \in PassCost : Elapse(c + 1, 0, 0)
    BY <1>4 DEF PollMicOff
  <2>2. c + 1 \in Nat /\ c + 1 <= FrameTicks
    BY MediaAssumption DEF PassCost
  <2>3. behind' = behind \/ (behind' = FALSE /\ CaughtUp)
    BY <1>4 DEF PollMicOff, Types
  <2>4. PassesBy(c + 1)
    BY <1>4, <2>1, <2>2, <2>3 DEF PollMicOff, PassesBy
  <2> QED BY <2>2, <2>4
<1>5. CASE HandleIrTransmit
  <2>1. PICK signal \in IrSignals, repeat \in IrRepeats : HeldUp(IrTicks(signal, repeat))
    BY <1>5 DEF HandleIrTransmit
  <2>2. SendCount(repeat) \in Nat /\ signal + IrPause \in Nat
    BY MediaAssumption DEF SendCount, UInt16, IrPause
  <2>3. IrTicks(signal, repeat) \in Nat
    BY <2>2 DEF IrTicks
  <2> QED BY <2>1, <2>3
<1>6. CASE WriteStall
  BY <1>6, MediaAssumption DEF WriteStall
<1> QED BY <1>1, <1>2, <1>3, <1>4, <1>5, <1>6 DEF Next, Loop, Environment

(* What the backend has produced and the speaker has not sent yet, and the *)
(* time since the last deadline, in ticks (a frame is 5 of them).          *)
Waiting == 5 * (inbox + late) + phase
Unsent == AtLeast0(20 - avail - sent)
Backlog == Unsent + 5 * batch + Waiting

(* The most that waits while the speaker runs dry, and then: late frames   *)
(* and one more, and a pass.                                               *)
Burst == IF Ahead = 0 THEN 5 ELSE 5 * Ahead + 4
Room == Burst + 5

(* Their sums, before (p) and after (p1) d ticks. *)
LEMMA WaitingSum ==
  ASSUME NEW i \in Int, NEW l \in Int, NEW p \in Int,
         NEW i1 \in Int, NEW l1 \in Int, NEW p1 \in Int,
         NEW d \in Int, NEW due \in Int,
         i1 + l1 = i + l + due, 5 * due + p1 <= p + d
  PROVE  5 * (i1 + l1) + p1 <= 5 * (i + l) + p + d
OBVIOUS

LEMMA BacklogSum ==
  ASSUME NEW p \in Int, NEW b \in Int, NEW w \in Int,
         NEW p1 \in Int, NEW b1 \in Int, NEW w1 \in Int,
         NEW d \in Int,
         p1 + 5 * b1 <= p - d + 5 * b, w1 <= w + d
  PROVE  p1 + 5 * b1 + w1 <= p + 5 * b + w
OBVIOUS

(* Time passes: what arrives is what the backend produced meanwhile.       *)
LEMMA WaitingGrows ==
  ASSUME Types, NEW d \in Nat, Arrive(d)
  PROVE  Waiting' <= Waiting + d /\ Waiting \in Nat /\ Waiting' \in Int
<1>1. Due(d) \in Nat /\ 5 * Due(d) + phase' <= phase + d
  BY DEF Arrive, Due, Types
<1>2. inbox' + late' = inbox + late + Due(d)
  <2>1. late' \in Int /\ inbox' = inbox + late + Due(d) - late'
    BY DEF Arrive
  <2> QED BY <1>1, <2>1, MediaAssumption DEF Types
<1>3. phase' \in Int /\ late' \in Int /\ inbox' \in Int
  BY <1>1, MediaAssumption DEF Arrive, Types
<1>4. phase \in Nat /\ late \in Nat /\ inbox \in Nat
  BY MediaAssumption DEF Types
<1>5. Waiting' <= Waiting + d
  <2>1. PICK due \in Int : inbox' + late' = inbox + late + due /\ 5 * due + phase' <= phase + d
    BY <1>1, <1>2
  <2>2. 5 * (inbox' + late') + phase' <= 5 * (inbox + late) + phase + d
    <3>1. phase \in Int /\ late \in Int /\ inbox \in Int /\ d \in Int
      BY <1>4
    <3> QED BY <1>3, <2>1, <3>1, WaitingSum
  <2> QED BY <2>2 DEF Waiting
<1>6. Waiting \in Nat
  BY <1>4 DEF Waiting
<1>7. Waiting' \in Int
  BY <1>3 DEF Waiting
<1> QED BY <1>5, <1>6, <1>7

(* What the speaker has not sent shrinks as time passes, and grows by what *)
(* it is given.                                                            *)
LEMMA UnsentThen ==
  ASSUME SpeakerType, NEW d \in Nat, NEW n \in 0..5, Avail(d) >= n,
         avail' = Avail(d) - n, sent' = (sent + d) % 4
  PROVE  /\ Unsent \in Nat /\ Unsent' \in Nat
         /\ Unsent' <= n + (IF Unsent > d THEN Unsent - d ELSE 0)
         /\ avail < 5 /\ d <= 8 - avail - sent => Unsent >= d + 12
<1>1. PICK a \in 0..23, t \in 0..3 :
        /\ a = Avail(d) /\ t = (sent + d) % 4
        /\ 20 - a - t <= IF 20 - avail - sent > d THEN 20 - avail - sent - d ELSE 0
  BY SpeakerTime
<1>2. Unsent = IF 20 - avail - sent < 0 THEN 0 ELSE 20 - avail - sent
  BY DEF Unsent, AtLeast0
<1>3. Unsent' = IF 20 - (a - n) - t < 0 THEN 0 ELSE 20 - (a - n) - t
  BY <1>1 DEF Unsent, AtLeast0
<1>4. PICK u \in Nat : u = Unsent' /\ (u = 0 \/ u = 20 - a - t + n)
  BY <1>1, <1>3
<1>5. u <= n + (IF Unsent > d THEN Unsent - d ELSE 0)
  BY <1>1, <1>2, <1>4 DEF SpeakerType
<1> QED BY <1>2, <1>4, <1>5 DEF SpeakerType

(* A write that waits has the speaker busy for long after it. *)
LEMMA PlayedSums ==
  ASSUME SpeakerType, Played(FrameTicks)
  PROVE  \E d \in 0..8 :
           /\ Record(d, 0) /\ Arrive(d) /\ d = Wait(5)
           /\ avail' \in 0..23 /\ sent' \in 0..3 /\ avail' >= avail - 5
           /\ Unsent \in Nat /\ Unsent' \in Nat /\ Unsent' <= Unsent - d + 5
           /\ d > 0 => Unsent >= 12
<1>1. PICK d \in 0..8 : d = Wait(5)
  BY WaitIs
<1>2. /\ Record(d, 0) /\ Arrive(d) /\ avail' = Avail(d) - 5 /\ sent' = (sent + d) % 4
  BY <1>1 DEF Played, Elapse
<1>3. /\ Avail(d) \in 5..23 /\ Avail(d) >= avail /\ (sent + d) % 4 \in 0..3
  BY <1>1, WaitIs, SpeakerTime
<1>4. /\ Unsent \in Nat /\ Unsent' \in Nat
      /\ Unsent' <= 5 + (IF Unsent > d THEN Unsent - d ELSE 0)
      /\ avail < 5 /\ d <= 8 - avail - sent => Unsent >= d + 12
  BY <1>2, <1>3, UnsentThen
<1>5. d > 0 => avail < 5 /\ d <= 8 - avail - sent
  BY <1>1, WaitIs DEF SpeakerType
<1>6. PICK u \in Nat, v \in Nat : u = Unsent /\ v = Unsent'
  BY <1>4
<1>7. v <= u - d + 5 /\ (d > 0 => u >= 12)
  BY <1>4, <1>5, <1>6
<1>8. avail' \in 0..23 /\ sent' \in 0..3 /\ avail' >= avail - 5
  BY <1>2, <1>3 DEF SpeakerType
<1> QED BY <1>1, <1>2, <1>4, <1>6, <1>7, <1>8

(* The speaker runs dry only in a pass that had nothing left to play for   *)
(* it: all that waits came with the last burst.                            *)
Fed == /\ pc = "poll" => batch = 0
       /\ (pc = "poll" \/ batch > 0) /\ Unsent < 5 => Waiting <= Burst

LEMMA FedStep ==
  ASSUME Types, Fed, [Next]_vars
  PROVE  Fed'
<1> USE DEF Types, Fed
<1>0. SpeakerType /\ Burst \in Nat /\ Burst >= 5 /\ Burst >= 5 * Ahead + 4 /\ Burst' = Burst
  BY MediaAssumption DEF SpeakerType, Burst
<1>1. CASE Receive
  <2>1. /\ batch' = inbox /\ inbox' = 0 /\ late' = late /\ phase' = phase
        /\ pc' = IF inbox = 0 THEN "poll" ELSE "rx"
    BY <1>1 DEF Receive
  <2>2. Waiting' <= Burst
    BY <1>0, <2>1, MediaAssumption DEF Waiting
  <2> QED BY <1>0, <2>1, <2>2
<1>2. CASE pc = "rx" /\ NextSession
  BY <1>2 DEF NextSession
<1>3. CASE NextFrame /\ NotPlayed
  <2>1. /\ UNCHANGED <<avail, sent, phase, late, inbox>> /\ batch' = batch - 1 /\ batch > 0
        /\ pc' = IF batch = 1 THEN "poll" ELSE "rx"
    BY <1>3 DEF NextFrame, NotPlayed, speaker, host
  <2>2. Unsent' = Unsent /\ Waiting' = Waiting
    BY <2>1 DEF Unsent, Waiting
  <2> QED BY <1>0, <2>1, <2>2
<1>4. CASE NextFrame /\ Played(FrameTicks)
  <2>1. batch > 0 /\ (pc' = "poll" => batch' = 0)
    BY <1>4 DEF NextFrame
  <2>2. PICK d \in 0..8 :
          /\ Arrive(d) /\ d = Wait(5)
          /\ avail' \in 0..23 /\ sent' \in 0..3 /\ avail' >= avail - 5
          /\ Unsent \in Nat /\ (d > 0 => Unsent >= 12)
    BY <1>0, <1>4, PlayedSums
  <2>3. CASE d = 0
    <3>1. Waiting' <= Waiting /\ Waiting \in Nat /\ Waiting' \in Int
      BY <2>2, <2>3, WaitingGrows
    <3>2. avail >= 5
      BY <1>0, <2>2, <2>3, WaitIs DEF SpeakerType
    <3>3. avail' = avail - 5 /\ sent' = sent
      <4>1. avail' = Avail(0) - 5 /\ sent' = (sent + 0) % 4
        BY <1>4, <2>2, <2>3 DEF Played, Elapse
      <4>2. Avail(0) = avail
        BY DEF Avail, Freed, Smaller
      <4> QED BY <4>1, <4>2
    <3>4. Unsent' < 5 => Unsent < 5
      BY <3>2, <3>3 DEF Unsent, AtLeast0
    <3> QED BY <1>0, <2>1, <3>1, <3>4
  <2>4. CASE d > 0
    <3>1. avail < 5 /\ sent' = 0 /\ avail' <= 3
      <4>1. avail < 5
        BY <1>0, <2>2, <2>4, WaitIs DEF SpeakerType
      <4>2. avail' = Avail(d) - 5 /\ sent' = (sent + d) % 4
        BY <1>4, <2>2 DEF Played, Elapse
      <4>3. (sent + d) % 4 = 0
        BY <1>0, <2>2, <4>1, WaitIs
      <4>4. Avail(d) <= 8
        BY <1>0, <2>2, <4>1 DEF Wait, Missing, Avail, Freed, Smaller, SpeakerType
      <4>5. Avail(d) \in Int
        BY <1>0, SpeakerTime
      <4> QED BY <4>1, <4>2, <4>3, <4>4, <4>5
    <3>2. PICK a \in 0..3 : a = avail'
      BY <2>2, <3>1
    <3>3. Unsent' = AtLeast0(20 - avail' - sent')
      BY DEF Unsent
    <3>4. Unsent' = AtLeast0(20 - a - 0)
      BY <3>1, <3>2, <3>3
    <3>5. Unsent' = 20 - a
      BY <3>4 DEF AtLeast0
    <3>6. ~(Unsent' < 5)
      BY <3>5
    <3> QED BY <2>1, <3>6 DEF Fed
  <2> QED BY <2>2, <2>3, <2>4
<1>5. CASE \E d \in Nat : ReadsMic(d) \/ PassesBy(d)
  BY <1>5 DEF ReadsMic, PassesBy
<1>6. CASE \E d \in Nat : HeldUp(d)
  BY <1>6 DEF HeldUp
<1>7. CASE StreamStart
  <2>1. batch' = 0 /\ late' = 0 /\ inbox' = 1 /\ phase' = 0
    BY <1>7 DEF StreamStart
  <2>2. Waiting' = 5
    BY <2>1 DEF Waiting
  <2> QED BY <1>0, <2>1, <2>2
<1>8. CASE StreamEnd
  <2>1. UNCHANGED <<pc, avail, sent, batch, late, inbox>> /\ phase' = 0
    BY <1>8 DEF StreamEnd, speaker
  <2>2. Unsent' = Unsent /\ Waiting' <= Waiting /\ Waiting' \in Int /\ Waiting \in Int
    BY <2>1, MediaAssumption DEF Unsent, Waiting
  <2> QED BY <1>0, <2>1, <2>2
<1>9. CASE SubscribeMic \/ UNCHANGED vars
  <2>1. UNCHANGED <<pc, avail, sent, batch, late, inbox, phase>>
    BY <1>9 DEF SubscribeMic, vars, speaker, host
  <2> QED BY <1>0, <2>1 DEF Unsent, Waiting
<1> QED BY <1>1, <1>2, <1>3, <1>4, <1>5, <1>6, <1>7, <1>8, <1>9, StepForms

KeepsPace == ~behind => Backlog <= Room

LEMMA PaceStep ==
  ASSUME Types, Fed, KeepsPace, [Next]_vars
  PROVE  KeepsPace'
<1> USE DEF Types, KeepsPace
<1>0. /\ SpeakerType /\ Room \in Nat /\ Room = Burst + 5 /\ Burst \in Nat /\ Burst >= 5
      /\ Room' = Room /\ late <= Ahead /\ Waiting \in Nat /\ Unsent \in Nat
  BY MediaAssumption DEF SpeakerType, Burst, Room, Waiting, Unsent, AtLeast0
<1>1. CASE Receive
  <2>1. UNCHANGED <<avail, sent, phase, late, behind>> /\ batch' = inbox /\ inbox' = 0 /\ batch = 0
    BY <1>1 DEF Receive, speaker
  <2>2. Unsent' = Unsent
    BY <2>1 DEF Unsent
  <2> QED BY <1>0, <2>1, <2>2 DEF Backlog, Waiting
<1>2. CASE pc = "rx" /\ NextSession
  <2>1. UNCHANGED <<avail, sent, behind>> /\ phase' = 0 /\ late' = 0 /\ inbox' = 0 /\ batch' = 0
    BY <1>2 DEF NextSession, speaker
  <2>2. Unsent' = Unsent
    BY <2>1 DEF Unsent
  <2> QED BY <1>0, <2>1, <2>2 DEF Backlog, Waiting
<1>3. CASE NextFrame /\ NotPlayed
  <2>1. UNCHANGED <<avail, sent, phase, late, inbox, behind>> /\ batch' = batch - 1
    BY <1>3 DEF NextFrame, NotPlayed, speaker, host
  <2>2. Unsent' = Unsent
    BY <2>1 DEF Unsent
  <2> QED BY <1>0, <2>1, <2>2 DEF Backlog, Waiting
<1>4. CASE NextFrame /\ Played(FrameTicks)
  <2>1. PICK d \in 0..8 :
          Arrive(d) /\ Unsent' \in Nat /\ Unsent' <= Unsent - d + 5
    BY <1>0, <1>4, PlayedSums
  <2>2. Waiting' <= Waiting + d /\ Waiting' \in Int
    BY <2>1, WaitingGrows
  <2>3. batch' = batch - 1 /\ behind' = behind /\ batch > 0
    BY <1>4 DEF NextFrame
  <2>4. Backlog' <= Backlog /\ Backlog \in Int /\ Backlog' \in Int
    <3>1. PICK u \in Nat, b \in Int : u = Unsent' /\ b = batch' /\ u + 5 * b <= Unsent - d + 5 * batch
      BY <1>0, <2>1, <2>3
    <3>2. PICK w \in Int : w = Waiting' /\ w <= Waiting + d
      BY <2>2
    <3>3. u + 5 * b + w <= Unsent + 5 * batch + Waiting
      <4>1. PICK u0 \in Nat, b0 \in Nat, w0 \in Nat : u0 = Unsent /\ b0 = batch /\ w0 = Waiting
        BY <1>0
      <4>2. u + 5 * b <= u0 - d + 5 * b0 /\ w <= w0 + d
        BY <3>1, <3>2, <4>1
      <4>3. u + 5 * b + w <= u0 + 5 * b0 + w0
        BY <4>2
      <4> QED BY <4>1, <4>3
    <3>4. Backlog \in Int
      BY <1>0 DEF Backlog
    <3> QED BY <3>1, <3>2, <3>3, <3>4 DEF Backlog
  <2> QED BY <1>0, <2>3, <2>4
<1>5. ASSUME NEW d \in Nat, ReadsMic(d) \/ PassesBy(d) PROVE KeepsPace'
  <2>1. /\ Arrive(d) /\ avail' = Avail(d) - 0 /\ sent' = (sent + d) % 4 /\ d <= FrameTicks
        /\ batch' = batch /\ batch = 0 /\ pc = "poll"
        /\ behind' = behind \/ CaughtUp
    BY <1>5 DEF ReadsMic, PassesBy, Elapse, Fed
  <2>2. Waiting' <= Waiting + d /\ Waiting' \in Int
    BY <2>1, WaitingGrows
  <2>3. Unsent' \in Nat /\ Unsent' <= 0 + (IF Unsent > d THEN Unsent - d ELSE 0)
    <3>1. SpeakerType /\ Avail(d) \in 0..23
      BY <1>0, SpeakerTime
    <3>2. Avail(d) >= 0
      BY <3>1
    <3> QED BY <2>1, <3>1, <3>2, UnsentThen
  <2>4. PICK w0 \in Nat, u0 \in Nat, w \in Int, u \in Nat :
          /\ w0 = Waiting /\ u0 = Unsent /\ w = Waiting' /\ u = Unsent'
    BY <1>0, <2>2, <2>3
  <2>5. Backlog = u0 + w0 /\ Backlog' = u + w
    <3>1. Backlog' = u + 5 * 0 + w
      BY <2>1, <2>4 DEF Backlog
    <3>2. Backlog = u0 + 5 * 0 + w0
      BY <2>1, <2>4 DEF Backlog
    <3> QED BY <3>1, <3>2
  <2>6. w <= w0 + d /\ u <= (IF u0 > d THEN u0 - d ELSE 0)
    BY <2>2, <2>3, <2>4
  <2>7. CASE u0 >= d
    <3>1. CaughtUp => u0 = 0 /\ w0 <= 4
      BY <1>0, <2>4 DEF CaughtUp, SpkIdle, Unsent, AtLeast0, Waiting, SpeakerType
    <3>2. u + w <= u0 + w0
      BY <2>6, <2>7
    <3>3. CaughtUp => u + w <= Room
      BY <1>0, <3>1, <3>2
    <3> QED BY <1>0, <2>1, <2>5, <3>2, <3>3
  <2>8. CASE u0 < d
    <3>1. w0 <= Burst
      BY <2>1, <2>4, <2>8 DEF Fed
    <3>2. u = 0
      BY <2>6, <2>8
    <3>3. u + w <= Room
      BY <1>0, <2>1, <2>6, <3>1, <3>2
    <3> QED BY <1>0, <2>5, <3>3
  <2> QED BY <2>7, <2>8
<1>6. CASE \E d \in Nat : HeldUp(d)
  BY <1>6 DEF HeldUp
<1>7. CASE StreamStart
  <2>1. /\ UNCHANGED <<avail, sent>> /\ avail >= 20
        /\ batch' = 0 /\ late' = 0 /\ inbox' = 1 /\ phase' = 0
    BY <1>7 DEF StreamStart, SpkIdle, mic, speaker, opus
  <2>2. Unsent' = 0
    BY <1>0, <2>1 DEF Unsent, AtLeast0, SpeakerType
  <2> QED BY <1>0, <2>1, <2>2 DEF Backlog, Waiting
<1>8. CASE StreamEnd
  <2>1. UNCHANGED <<avail, sent, batch, late, inbox, behind>> /\ phase' = 0
    BY <1>8 DEF StreamEnd, speaker
  <2>2. Unsent' = Unsent
    BY <2>1 DEF Unsent
  <2> QED BY <1>0, <2>1, <2>2 DEF Backlog, Waiting
<1>9. CASE SubscribeMic \/ UNCHANGED vars
  <2>1. UNCHANGED <<avail, sent, batch, late, inbox, behind, phase>>
    BY <1>9 DEF SubscribeMic, vars, speaker, host
  <2>2. Unsent' = Unsent
    BY <2>1 DEF Unsent
  <2> QED BY <1>0, <2>1, <2>2 DEF Backlog, Waiting
<1> QED BY <1>1, <1>2, <1>3, <1>4, <1>5, <1>6, <1>7, <1>8, <1>9, StepForms

LEMMA PaceCorrect == Spec => [](Types /\ Fed /\ KeepsPace)
<1>1. Init => Fed /\ KeepsPace
  <2> SUFFICES ASSUME Init PROVE Fed /\ KeepsPace
    OBVIOUS
  <2>1. /\ avail = 20 /\ sent \in 0..3 /\ batch = 0 /\ inbox = 0 /\ late = 0 /\ phase = 0
        /\ pc = "rx"
    BY DEF Init
  <2>2. Unsent = 0
    BY <2>1 DEF Unsent, AtLeast0
  <2> QED BY <2>1, <2>2, MediaAssumption DEF Fed, KeepsPace, Backlog, Waiting, Room, Burst
<1>2. Types /\ Fed /\ KeepsPace /\ [Next]_vars => Fed' /\ KeepsPace'
  BY FedStep, PaceStep
<1> QED BY <1>1, <1>2, TypeCorrect, TypesAreTypeOK, PTL DEF Spec

---------------------------------------------------------------------------
(* With at most 11 frames late, pollTcpReceive (app.cpp:532-537) ends no   *)
(* session of a punctual backend for an rx buffer overflow, unless an      *)
(* infrared transmission or a blocked write held the loop up.              *)
(* With 12 the burst alone would.                                          *)
THEOREM OverflowExcused == ASSUME Ahead <= 11 PROVE Spec => OverflowMeansHeldUp
<1>1. Types /\ KeepsPace /\ [Next]_vars => [Overflow => behind]_vars
  <2> SUFFICES ASSUME Types, KeepsPace, Overflow, ~behind PROVE FALSE
    OBVIOUS
  <2>1. Room <= 64
    BY MediaAssumption DEF Room, Burst
  <2>2. RxFrames = 12
    BY DEF RxFrames, RxBufferSize, SpkPacket, kHeaderSize, AudioPCMBody
  <2>3. inbox >= 13
    BY <2>2 DEF Overflow, Types
  <2>4. Unsent \in Nat
    BY DEF Unsent, AtLeast0, Types
  <2>5. Backlog >= 65 /\ Backlog \in Int /\ Room \in Int
    BY <2>3, <2>4, MediaAssumption DEF Backlog, Waiting, Room, Burst, Types
  <2> QED BY <2>1, <2>5 DEF KeepsPace
<1> QED BY <1>1, PaceCorrect, PTL DEF Spec, OverflowMeansHeldUp

(* With at most two frames late a write waits for one transmission at      *)
(* most, and only for the second half of it; the next wait can come no     *)
(* sooner than the next half. So what waits in the microphone's buffers is *)
(* no longer after a pass than before, the wait that may still come        *)
(* included, and it leaves a frame of room once the frames from before the *)
(* Subscribe are gone.                                                     *)
MayWait == IF sent < 2 THEN 0 ELSE 4 - sent
Unread == 5 * held + fill
ReadInTime == ~behind /\ micOn /\ old <= 3 => Unread + MayWait <= 15 + old

(* The sums: waiting until the end of a transmission, and a pass. *)
LEMMA RecordedIs ==
  ASSUME Types, NEW d \in 0..5, NEW read \in {0, 1}, Record(d, read)
  PROVE  \E n \in {0, 1}, h \in 0..3, f \in 0..4, o \in 0..4 :
           /\ n = Recorded(d) /\ 5 * n + ((fill + d) % 5) = fill + d
           /\ h = held /\ f = fill /\ o = old
           /\ held' = (IF h + n < 3 THEN h + n ELSE 3) - read
           /\ fill' = (fill + d) % 5
           /\ Overrun(d) = (IF h + n = 4 THEN 1 ELSE 0)
           /\ old' = IF o - Overrun(d) - read < 0 THEN 0 ELSE o - Overrun(d) - read
           /\ lost' = (lost \/ (micOn /\ ~behind /\ ~behind' /\ Overrun(d) > o))
<1>1. Recorded(d) \in {0, 1} /\ 5 * Recorded(d) + ((fill + d) % 5) = fill + d
  BY DEF Recorded, Types
<1>2. held \in 0..3 /\ fill \in 0..4 /\ old \in 0..4
  BY DEF Types
<1>3. Overrun(d) = IF held + Recorded(d) = 4 THEN 1 ELSE 0
  BY <1>1, <1>2 DEF Overrun, AtLeast0
<1>4. /\ held' = (IF held + Recorded(d) < 3 THEN held + Recorded(d) ELSE 3) - read
      /\ fill' = (fill + d) % 5
      /\ old' = IF old - Overrun(d) - read < 0 THEN 0 ELSE old - Overrun(d) - read
      /\ lost' = (lost \/ (micOn /\ ~behind /\ ~behind' /\ Overrun(d) > old))
  BY DEF Record, Smaller, AtLeast0
<1> QED BY <1>1, <1>2, <1>3, <1>4

LEMMA WaitSums ==
  ASSUME NEW h \in 0..3, NEW f \in 0..4, NEW o \in 0..4, NEW s \in 0..3,
         NEW d \in 0..5, NEW n \in {0, 1}, NEW f1 \in 0..4, NEW h1 \in Int, NEW o1 \in Int,
         NEW s1 \in 0..3, NEW m \in Int, NEW m1 \in Int,
         m = (IF s < 2 THEN 0 ELSE 4 - s), m1 = (IF s1 < 2 THEN 0 ELSE 4 - s1),
         (d = 0 /\ s1 = s) \/ (d = m /\ s1 = 0),
         5 * n + f1 = f + d, o <= h + 1,
         o <= 3 => 5 * h + f + m <= 15 + o,
         h1 = (IF h + n < 3 THEN h + n ELSE 3),
         o1 = (IF o - (IF h + n = 4 THEN 1 ELSE 0) < 0 THEN 0
               ELSE o - (IF h + n = 4 THEN 1 ELSE 0))
  PROVE  /\ o1 <= 3 => 5 * h1 + f1 + m1 <= 15 + o1
         /\ (IF h + n = 4 THEN 1 ELSE 0) <= o
<1>1. m + d <= 4 /\ (d = 0 \/ m1 = 0)
  OBVIOUS
<1>2. CASE h + n = 4
  <2>1. h = 3 /\ n = 1 /\ o >= 1
    BY <1>2
  <2> QED BY <1>1, <1>2, <2>1
<1>3. CASE h + n < 4
  BY <1>1, <1>3
<1> QED BY <1>2, <1>3

LEMMA PassSums ==
  ASSUME NEW h \in 0..3, NEW f \in 0..4, NEW o \in 0..4, NEW s \in 0..3,
         NEW d \in 0..5, NEW n \in {0, 1}, NEW f1 \in 0..4, NEW h1 \in Int, NEW o1 \in Int,
         NEW s1 \in 0..3, NEW m \in Int, NEW m1 \in Int,
         m = (IF s < 2 THEN 0 ELSE 4 - s), m1 = (IF s1 < 2 THEN 0 ELSE 4 - s1),
         s1 = (s + d) % 4,
         d <= 4 \/ (h = 0 /\ d = 5 - f),
         5 * n + f1 = f + d, o <= h + 1,
         o <= 3 => 5 * h + f + m <= 15 + o,
         h1 = (IF h + n < 3 THEN h + n ELSE 3) - 1,
         o1 = (IF o - (IF h + n = 4 THEN 1 ELSE 0) - 1 < 0 THEN 0
               ELSE o - (IF h + n = 4 THEN 1 ELSE 0) - 1)
  PROVE  /\ o1 <= 3 => 5 * h1 + f1 + m1 <= 15 + o1
         /\ (IF h + n = 4 THEN 1 ELSE 0) <= o
<1>1. m \in 0..2 /\ m1 \in 0..2
  OBVIOUS
<1>2. d <= 4 => d + m1 <= 4 + m
  OBVIOUS
<1>3. CASE h = 0
  BY <1>1, <1>3
<1>4. CASE h > 0 /\ h + n = 4
  <2>1. h = 3 /\ n = 1 /\ d <= 4
    BY <1>4
  <2> QED BY <1>1, <1>2, <2>1
<1>5. CASE h > 0 /\ h + n < 4
  <2>1. d <= 4 /\ h1 = h + n - 1
    BY <1>5
  <2>2. CASE o <= 3
    BY <1>1, <1>2, <1>5, <2>1, <2>2
  <2>3. CASE o = 4
    BY <1>1, <1>2, <1>5, <2>1, <2>3
  <2> QED BY <2>2, <2>3
<1> QED BY <1>3, <1>4, <1>5

LEMMA MicStep ==
  ASSUME Ahead <= 2, Types, KeepsPace, ReadInTime, ~lost, [Next]_vars
  PROVE  ReadInTime' /\ ~lost'
<1> USE DEF Types, ReadInTime, Unread, MayWait
<1>0. SpeakerType
  BY DEF SpeakerType
<1>1. CASE UNCHANGED <<micOn, fill, held, old, sent, behind, lost>>
  BY <1>1
<1>2. CASE pc = "rx" /\ NextSession
  BY <1>2 DEF NextSession
<1>3. CASE NextFrame /\ Played(FrameTicks)
  <2>1. behind' = behind /\ micOn' = micOn /\ batch > 0
    BY <1>3 DEF NextFrame
  <2>2. CASE behind \/ ~micOn
    BY <1>3, <2>1, <2>2 DEF Played, Elapse, Record
  <2>3. CASE ~behind /\ micOn
    <3>1. avail >= 5 \/ (avail >= 3 /\ sent >= 2)
      <4>1. Room <= 19 /\ Backlog <= Room
        BY <2>3, MediaAssumption DEF Room, Burst, KeepsPace
      <4>2. Waiting \in Nat /\ Unsent \in Nat /\ Room \in Int
        BY MediaAssumption DEF Waiting, Unsent, AtLeast0, Room, Burst
      <4>3. Unsent <= 14
        BY <2>1, <4>1, <4>2 DEF Backlog
      <4> QED BY <4>3 DEF Unsent, AtLeast0
    <3>2. PICK d \in 0..5 :
            /\ Record(d, 0) /\ sent' = (sent + d) % 4
            /\ \/ d = 0 /\ (sent + d) % 4 = sent
               \/ d = MayWait /\ (sent + d) % 4 = 0
      <4>1. Record(Wait(5), 0) /\ sent' = (sent + Wait(5)) % 4
        BY <1>3 DEF Played, Elapse
      <4>2. CASE avail >= 5
        BY <1>0, <4>1, <4>2, WaitIs
      <4>3. CASE avail < 5
        BY <1>0, <3>1, <4>1, <4>3, WaitIs
      <4> QED BY <4>2, <4>3
    <3>3. PICK n \in {0, 1}, h \in 0..3, f \in 0..4, o \in 0..4 :
            /\ n = Recorded(d) /\ 5 * n + ((fill + d) % 5) = fill + d
            /\ h = held /\ f = fill /\ o = old
            /\ held' = (IF h + n < 3 THEN h + n ELSE 3) - 0
            /\ fill' = (fill + d) % 5
            /\ Overrun(d) = (IF h + n = 4 THEN 1 ELSE 0)
            /\ old' = IF o - Overrun(d) - 0 < 0 THEN 0 ELSE o - Overrun(d) - 0
            /\ lost' = (lost \/ (micOn /\ ~behind /\ ~behind' /\ Overrun(d) > o))
      BY <3>2, RecordedIs
    <3>4. PICK s1 \in 0..3, f1 \in 0..4, h1 \in Int, o1 \in Int :
            /\ s1 = sent' /\ f1 = fill' /\ h1 = held' /\ o1 = old'
            /\ 5 * n + f1 = f + d
            /\ h1 = (IF h + n < 3 THEN h + n ELSE 3)
            /\ o1 = (IF o - (IF h + n = 4 THEN 1 ELSE 0) < 0 THEN 0
                     ELSE o - (IF h + n = 4 THEN 1 ELSE 0))
            /\ (d = 0 /\ s1 = sent) \/ (d = MayWait /\ s1 = 0)
      BY <3>2, <3>3
    <3>5. PICK m1 \in 0..2 : m1 = (IF s1 < 2 THEN 0 ELSE 4 - s1)
      OBVIOUS
    <3>6. /\ o1 <= 3 => 5 * h1 + f1 + m1 <= 15 + o1
          /\ (IF h + n = 4 THEN 1 ELSE 0) <= o
      BY <2>3, <3>3, <3>4, <3>5, WaitSums
    <3> QED BY <2>1, <2>3, <3>3, <3>4, <3>5, <3>6
  <2> QED BY <2>2, <2>3
<1>4. ASSUME NEW d \in Nat, ReadsMic(d) PROVE ReadInTime' /\ ~lost'
  <2>1. /\ Record(d, 1) /\ sent' = (sent + d) % 4 /\ micOn /\ micOn' = micOn
        /\ d \in 0..5 /\ (d <= 4 \/ (held = 0 /\ d = 5 - fill))
        /\ behind' = behind \/ (behind' = FALSE /\ held = 0 /\ d = 5 - fill)
    BY <1>4 DEF ReadsMic, Elapse
  <2>2. PICK n \in {0, 1}, h \in 0..3, f \in 0..4, o \in 0..4 :
          /\ n = Recorded(d) /\ 5 * n + ((fill + d) % 5) = fill + d
          /\ h = held /\ f = fill /\ o = old
          /\ held' = (IF h + n < 3 THEN h + n ELSE 3) - 1
          /\ fill' = (fill + d) % 5
          /\ Overrun(d) = (IF h + n = 4 THEN 1 ELSE 0)
          /\ old' = IF o - Overrun(d) - 1 < 0 THEN 0 ELSE o - Overrun(d) - 1
          /\ lost' = (lost \/ (micOn /\ ~behind /\ ~behind' /\ Overrun(d) > o))
    BY <2>1, RecordedIs
  <2>3. PICK s1 \in 0..3, f1 \in 0..4, h1 \in Int, o1 \in Int :
          /\ s1 = sent' /\ f1 = fill' /\ h1 = held' /\ o1 = old'
          /\ s1 = (sent + d) % 4
          /\ 5 * n + f1 = f + d
          /\ h1 = (IF h + n < 3 THEN h + n ELSE 3) - 1
          /\ o1 = (IF o - (IF h + n = 4 THEN 1 ELSE 0) - 1 < 0 THEN 0
                   ELSE o - (IF h + n = 4 THEN 1 ELSE 0) - 1)
    BY <2>1, <2>2
  <2>4. PICK m1 \in 0..2 : m1 = (IF s1 < 2 THEN 0 ELSE 4 - s1)
    OBVIOUS
  <2>5. CASE ~behind
    <3>1. /\ o1 <= 3 => 5 * h1 + f1 + m1 <= 15 + o1
          /\ (IF h + n = 4 THEN 1 ELSE 0) <= o
      BY <2>1, <2>2, <2>3, <2>4, <2>5, PassSums
    <3> QED BY <2>2, <2>3, <2>4, <3>1
  <2>6. CASE behind /\ behind'
    BY <2>2, <2>6
  <2>7. CASE behind /\ ~behind'
    <3>1. held = 0 /\ d = 5 - fill
      BY <2>1, <2>7
    <3>2. h = 0 /\ n = 1 /\ f1 = 0 /\ h1 = 0 /\ m1 <= 2
      BY <2>2, <2>3, <2>4, <3>1
    <3>3. o1 >= 0
      BY <2>3
    <3> QED BY <2>2, <2>3, <2>4, <2>7, <3>2, <3>3
  <2> QED BY <2>5, <2>6, <2>7
<1>5. CASE \E d \in Nat : PassesBy(d)
  BY <1>5 DEF PassesBy, Elapse, Record
<1>6. CASE \E d \in Nat : HeldUp(d)
  BY <1>6 DEF HeldUp, Elapse, Record
<1>7. CASE SubscribeMic
  BY <1>7 DEF SubscribeMic, speaker
<1>8. Receive \/ (NextFrame /\ NotPlayed) \/ StreamStart \/ StreamEnd \/ UNCHANGED vars
        => UNCHANGED <<micOn, fill, held, old, sent, behind, lost>>
  BY DEF Receive, NextFrame, NotPlayed, StreamStart, StreamEnd, vars, mic, speaker
<1> QED BY <1>1, <1>2, <1>3, <1>4, <1>5, <1>6, <1>7, <1>8, StepForms

(* Full duplex, with at most 2 frames late and less than a frame (20 ms)   *)
(* spent in a pass outside the drivers: pollMic (app.cpp:556-596) comes    *)
(* round in time even if speakerPlayPCM16Mono had to wait, and no frame of *)
(* a subscribed microphone is recorded over unless an infrared             *)
(* transmission or a blocked write held the loop up. With 3 one can be.    *)
THEOREM MicKept == ASSUME Ahead <= 2 PROVE Spec => []MicSurvives
<1>1. Init => ReadInTime /\ ~lost
  BY DEF Init, ReadInTime
<1>2. Types /\ KeepsPace /\ ReadInTime /\ ~lost /\ [Next]_vars => ReadInTime' /\ ~lost'
  BY MicStep
<1> QED BY <1>1, <1>2, PaceCorrect, PTL DEF Spec, MicSurvives

---------------------------------------------------------------------------
(* The way back to the normal pace.                                        *)

(* What the measure of a state does when its parts change: w frames, m     *)
(* ticks and turn t, before and after.                                     *)
LEMMA Shortens ==
  ASSUME NEW w \in Nat, NEW m \in Nat, NEW t \in 0..2,
         NEW w1 \in Nat, NEW m1 \in Nat, NEW t1 \in 0..2,
         \/ w1 = w /\ m1 <= m /\ t1 < t
         \/ w1 = w /\ m1 < m /\ t1 <= t + 1
         \/ w1 + 1 = w /\ m1 <= m + 13
  PROVE  150 * w1 + 3 * m1 + t1 < 150 * w + 3 * m + t
OBVIOUS

LEMMA TurnIs ==
  ASSUME inbox \in Nat, batch \in Nat
  PROVE  /\ Turn \in 0..2
         /\ batch > 0 => Turn = 0
         /\ batch = 0 /\ inbox > 0 => Turn = IF pc = "poll" THEN 2 ELSE 1
         /\ batch = 0 /\ inbox = 0 => Turn = IF pc = "poll" THEN 0 ELSE 1
BY DEF Turn

LEMMA TurnIsThen ==
  ASSUME inbox' \in Nat, batch' \in Nat
  PROVE  /\ Turn' \in 0..2
         /\ batch' > 0 => Turn' = 0
         /\ batch' = 0 /\ inbox' > 0 => Turn' = IF pc' = "poll" THEN 2 ELSE 1
         /\ batch' = 0 /\ inbox' = 0 => Turn' = IF pc' = "poll" THEN 0 ELSE 1
BY DEF Turn

LEMMA Frames ==
  ASSUME NEW x \in Nat
  PROVE  x \div 5 \in Nat /\ x % 5 \in 0..4 /\ 5 * (x \div 5) + (x % 5) = x
OBVIOUS

(* Recording adds a tick per tick, and loses some when it runs over.       *)
LEMMA RecordSum ==
  ASSUME Types, NEW d \in Nat, NEW read \in {0, 1}, Record(d, read)
  PROVE  /\ read = 0 => 5 * held' + fill' <= 5 * held + fill + d
         /\ read = 1 => 5 * held' + fill' + 5 <= 5 * held + fill + d
<1>1. PICK n \in Nat, f \in 0..4 : n = Recorded(d) /\ f = (fill + d) % 5 /\ 5 * n + f = fill + d
  <2>1. PICK x \in Nat : x = fill + d
    BY DEF Types
  <2> QED BY <2>1, Frames DEF Recorded
<1>2. PICK g \in Nat, k \in Nat : g = held /\ k = fill
  BY DEF Types
<1>3. fill' = f /\ held' = (IF g + n < 3 THEN g + n ELSE 3) - read
  BY <1>1, <1>2 DEF Record, Smaller
<1>4. PICK h \in Int : h = held' /\ h <= g + n - read
  BY <1>3
<1>5. /\ read = 0 => 5 * h + f <= 5 * g + k + d
      /\ read = 1 => 5 * h + f + 5 <= 5 * g + k + d
  <2>1. 5 * n + f = k + d
    BY <1>1, <1>2
  <2>2. read \in Int /\ h <= g + n - read
    BY <1>4
  <2> QED BY <2>1, <2>2
<1> QED BY <1>2, <1>3, <1>4, <1>5

(* The network has nothing left to deliver. *)
LEMMA NothingArrives ==
  ASSUME Types, NEW d \in Nat, Quiet, Quiet', Arrive(d)
  PROVE  inbox' = inbox
<1>1. late = 0 /\ late' = 0 /\ Due(d) = 0
  BY DEF Quiet, Due
<1> QED BY <1>1 DEF Arrive, Types

LEMMA RecoveryStep ==
  ASSUME Types, Types', Fed, [Next]_vars, ~UNCHANGED vars, behind, behind', Quiet, Quiet'
  PROVE  LeftToDo' < LeftToDo
<1>1. /\ inbox \in Nat /\ batch \in Nat /\ inbox' \in Nat /\ batch' \in Nat
      /\ avail \in 0..23 /\ held \in 0..3 /\ fill \in 0..4
      /\ avail' \in 0..23 /\ held' \in 0..3 /\ fill' \in 0..4
      /\ pc \in {"rx", "poll"} /\ micOn /\ micOn' /\ ~streaming /\ ~streaming'
  BY DEF Types, Quiet
<1>0. PICK p \in 0..24, h \in 0..3, f \in 0..4, p1 \in 0..24, h1 \in 0..3, f1 \in 0..4 :
        /\ p = 24 - avail /\ h = held /\ f = fill
        /\ p1 = 24 - avail' /\ h1 = held' /\ f1 = fill'
        /\ Queued = p + 5 * h + f /\ Queued' = p1 + 5 * h1 + f1
  <2>1. PICK p \in 0..24, h \in 0..3, f \in 0..4, p1 \in 0..24, h1 \in 0..3, f1 \in 0..4 :
          /\ p = 24 - avail /\ h = held /\ f = fill
          /\ p1 = 24 - avail' /\ h1 = held' /\ f1 = fill'
    <3>1. PICK a \in 0..23, h \in 0..3, f \in 0..4 : a = avail /\ h = held /\ f = fill
      BY <1>1
    <3>2. PICK a1 \in 0..23, h1 \in 0..3, f1 \in 0..4 :
            a1 = avail' /\ h1 = held' /\ f1 = fill'
      BY <1>1
    <3>3. 24 - a \in 0..24 /\ 24 - a1 \in 0..24
      OBVIOUS
    <3>4. 24 - a = 24 - avail /\ 24 - a1 = 24 - avail'
      BY <3>1, <3>2
    <3> QED BY <3>1, <3>2, <3>3, <3>4
  <2>2. Queued = 24 - avail + 5 * held + fill /\ Queued' = 24 - avail' + 5 * held' + fill'
    BY DEF Queued
  <2> QED BY <2>1, <2>2
<1>2. PICK w \in Nat, m \in Nat, t \in 0..2 :
        /\ w = inbox + batch /\ m = Queued /\ t = Turn
        /\ LeftToDo = 150 * w + 3 * m + t
  <2>1. Queued \in Nat /\ inbox + batch \in Nat /\ Turn \in 0..2
    BY <1>0, <1>1, TurnIs
  <2>2. LeftToDo = 150 * (inbox + batch) + 3 * Queued + Turn
    BY DEF LeftToDo, Queued
  <2> QED BY <2>1, <2>2
<1>3. PICK w1 \in Nat, m1 \in Nat, t1 \in 0..2 :
        /\ w1 = inbox' + batch' /\ m1 = Queued' /\ t1 = Turn'
        /\ LeftToDo' = 150 * w1 + 3 * m1 + t1
  <2>1. Queued' \in Nat /\ inbox' + batch' \in Nat /\ Turn' \in 0..2
    <3>1. PICK x \in Nat : x = p1 + 5 * h1 + f1
      OBVIOUS
    <3>2. PICK i \in Nat, b \in Nat : i = inbox' /\ b = batch'
      BY <1>1
    <3>3. Queued' = x /\ inbox' + batch' = i + b
      BY <1>0, <3>1, <3>2
    <3>4. i + b \in Nat
      OBVIOUS
    <3> QED BY <1>1, <3>3, <3>4, TurnIsThen
  <2>2. LeftToDo' = 150 * (inbox' + batch') + 3 * Queued' + Turn'
    BY DEF LeftToDo, Queued
  <2> QED BY <2>1, <2>2
<1>12. m = p + 5 * h + f /\ m1 = p1 + 5 * h1 + f1
  BY <1>0, <1>2, <1>3
<1>4. ASSUME \/ w1 = w /\ m1 <= m /\ t1 < t
             \/ w1 = w /\ m1 < m /\ t1 <= t + 1
             \/ w1 + 1 = w /\ m1 <= m + 13
      PROVE  LeftToDo' < LeftToDo
  <2>1. 150 * w1 + 3 * m1 + t1 < 150 * w + 3 * m + t
    BY <1>4, Shortens
  <2> QED BY <1>2, <1>3, <2>1
<1>5. CASE Receive
  <2>1. UNCHANGED <<avail, held, fill>> /\ batch = 0 /\ batch' = inbox /\ inbox' = 0 /\ pc = "rx"
        /\ pc' = IF inbox = 0 THEN "poll" ELSE "rx"
    BY <1>5 DEF Receive, mic, speaker
  <2>2. w1 = w /\ m1 = m
    BY <1>1, <1>2, <1>3, <2>1 DEF Queued
  <2>3. t = 1 /\ t1 = 0
    BY <1>1, <1>2, <1>3, <2>1, TurnIs, TurnIsThen
  <2> QED BY <1>4, <2>2, <2>3
<1>6. CASE NextFrame /\ NotPlayed
  <2>1. UNCHANGED <<avail, held, fill, inbox>> /\ batch' = batch - 1 /\ batch > 0
    BY <1>6 DEF NextFrame, NotPlayed, speaker, host
  <2>2. w1 + 1 = w /\ m1 = m
    BY <1>1, <1>2, <1>3, <2>1 DEF Queued
  <2> QED BY <1>4, <2>2
<1>7. CASE NextFrame /\ Played(FrameTicks)
  <2>1. PICK d \in 0..8 : Record(d, 0) /\ Arrive(d) /\ avail' >= avail - 5
    BY <1>7, PlayedSums DEF Types, SpeakerType
  <2>2. 5 * held' + fill' <= 5 * held + fill + d
    BY <2>1, RecordSum
  <2>3. m1 <= m + 13
    <3>1. p1 <= p + 5
      <4>1. PICK a \in 0..23, a1 \in 0..23 : a = avail /\ a1 = avail'
        BY <1>1
      <4>2. a1 >= a - 5 /\ p = 24 - a /\ p1 = 24 - a1
        BY <1>0, <2>1, <4>1
      <4> QED BY <4>2
    <3>2. 5 * h1 + f1 <= 5 * h + f + d
      BY <1>0, <2>2
    <3> QED BY <1>12, <3>1, <3>2
  <2>4. inbox' = inbox /\ batch' = batch - 1 /\ batch > 0
    BY <1>7, <2>1, NothingArrives DEF NextFrame
  <2>5. w1 + 1 = w
    BY <1>1, <1>2, <1>3, <2>4
  <2> QED BY <1>4, <2>3, <2>5
<1>8. CASE PollMic
  <2>1. PICK c \in PassCost :
          /\ behind' = (behind /\ ~(MicWaits(c) /\ CaughtUp))
          /\ Elapse(IF MicWaits(c) THEN FrameTicks - fill ELSE c, 1, 0)
    BY <1>8 DEF PollMic
  <2>2. PICK d \in Nat :
          /\ d = IF MicWaits(c) THEN 5 - fill ELSE c
          /\ d <= 5
          /\ Record(d, 1) /\ Arrive(d) /\ avail' = Avail(d) - 0
    <3>1. c \in 0..4
      BY MediaAssumption DEF PassCost
    <3> QED BY <1>1, <2>1, <3>1 DEF Elapse
  <2>3. /\ inbox' = inbox /\ batch' = batch /\ batch = 0 /\ pc = "poll" /\ pc' = "rx"
        /\ w1 = w
    <3>1. inbox' = inbox
      BY <2>2, NothingArrives
    <3>2. batch' = batch /\ pc = "poll" /\ pc' = "rx"
      BY <1>8 DEF PollMic
    <3> QED BY <1>2, <1>3, <3>1, <3>2 DEF Fed
  <2>4. t1 <= t + 1 /\ (inbox > 0 => t1 < t)
    BY <1>1, <1>2, <1>3, <2>3, TurnIs, TurnIsThen
  <2>5. 5 * held' + fill' + 5 <= 5 * held + fill + d
    BY <2>2, RecordSum
  <2>6. avail' >= avail /\ (avail < 20 /\ d >= 4 => avail' >= avail + 4)
    <3>1. SpeakerType /\ sent \in 0..3
      BY DEF Types, SpeakerType
    <3>2. PICK a \in 0..23 :
            /\ a = Avail(d) /\ a >= avail
            /\ avail < 20 /\ sent + d >= 4 => a >= avail + 4
      BY <3>1, SpeakerTime
    <3> QED BY <1>1, <2>2, <3>1, <3>2
  <2>9. /\ 5 * h1 + f1 + 5 <= 5 * h + f + d
        /\ p1 <= p /\ (p > 4 /\ d >= 4 => p1 < p)
    <3>1. 5 * h1 + f1 + 5 <= 5 * h + f + d
      BY <1>0, <2>5
    <3>2. PICK a \in 0..23, a1 \in 0..23 : a = avail /\ a1 = avail'
      BY <1>1
    <3>3. /\ p = 24 - a /\ p1 = 24 - a1
          /\ a1 >= a /\ (a < 20 /\ d >= 4 => a1 >= a + 4)
      BY <1>0, <2>6, <3>2
    <3>4. p1 <= p /\ (p > 4 /\ d >= 4 => p1 < p)
      BY <2>2, <3>3
    <3> QED BY <3>1, <3>4
  <2>7. CASE MicWaits(c)
    <3>1. d = 5 - fill /\ (inbox > 0 \/ avail < 20)
      <4>1. ~CaughtUp
        BY <2>1, <2>7
      <4> QED BY <1>1, <2>2, <2>7, <4>1 DEF CaughtUp, SpkIdle, Quiet
    <3>2. m1 <= m /\ (p > 4 => m1 < m)
      <4>1. d = 5 - f
        BY <1>0, <3>1
      <4> QED BY <1>12, <2>9, <4>1
    <3>3. inbox > 0 \/ p > 4
      BY <1>0, <1>1, <3>1
    <3> QED BY <1>4, <2>3, <2>4, <3>2, <3>3
  <2>8. CASE ~MicWaits(c)
    <3>1. d <= 4
      BY <2>2, <2>8, MediaAssumption DEF PassCost
    <3>2. m1 < m
      BY <1>12, <2>9, <3>1
    <3> QED BY <1>4, <2>3, <2>4, <3>2
  <2> QED BY <2>7, <2>8
<1>9. ~NextSession /\ ~PollMicOff /\ ~StreamStart /\ ~StreamEnd /\ ~SubscribeMic
  BY <1>1 DEF NextSession, PollMicOff, StreamStart, StreamEnd, SubscribeMic
<1>10. \A d : ~HeldUp(d)
  BY DEF HeldUp
<1>11. HandleSpkPCM \/ HandleSpkComp => NextFrame /\ (NotPlayed \/ Played(FrameTicks))
  BY DEF HandleSpkPCM, HandleSpkComp
<1> QED BY <1>5, <1>6, <1>7, <1>8, <1>9, <1>10, <1>11
        DEF Next, Loop, Environment, Overflow, PeerLost, HandleIrTransmit, WriteStall

(* After an infrared transmission or a blocked write every call of the     *)
(* loop (pollTcpReceive, the speaker's handlers, pollMic) brings it nearer *)
(* to its normal pace, however much has piled up in rxBuffer and in the    *)
(* DMA buffers and however late the network was: frames are read faster    *)
(* than they are recorded. With a loop that runs this is CatchesUp.        *)
THEOREM HeldUpLoopRecovers == Spec => RecoveryShortens
<1>1. Types /\ Types' /\ Fed /\ [Next]_vars
        => [behind /\ Quiet /\ behind' /\ Quiet' => LeftToDo' < LeftToDo]_vars
  BY RecoveryStep
<1> QED BY <1>1, PaceCorrect, PTL DEF Spec, RecoveryShortens
=============================================================================
