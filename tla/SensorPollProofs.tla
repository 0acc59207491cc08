-------------------------- MODULE SensorPollProofs --------------------------
(***************************************************************************)
(* Safety of module SensorPoll for every width of the counter, every       *)
(* interval that leaves a pass before it wraps, and every set of readings. *)
(***************************************************************************)
EXTENDS SensorPoll, TLAPS

---------------------------------------------------------------------------
(* Arithmetic of the counter, and of the change filter.                    *)

LEMMA Remainder ==
  ASSUME NEW w \in Int, w > 0, NEW x \in Int
  PROVE  /\ 0 <= x /\ x < w => x % w = x
         /\ w <= x /\ x < 2 * w => x % w = x - w
         /\ -w <= x /\ x < 0 => x % w = x + w
OBVIOUS

(* The distance from an instant grows with the counter, across its wrap.   *)
LEMMA Distance ==
  ASSUME NEW t \in 0..Wrap - 1, NEW from \in 0..Wrap - 1, NEW ms \in Nat,
         NEW s \in Nat, (t - from) % Wrap = s, s + ms < Wrap
  PROVE  (t + ms) % Wrap \in 0..Wrap - 1 /\ (((t + ms) % Wrap) - from) % Wrap = s + ms
<1>1. Wrap \in Int /\ Wrap > 0
  BY TimeAssumption
<1>2. /\ t >= from => t - from = s
      /\ t < from => t - from + Wrap = s
  BY <1>1, Remainder
<1>3. /\ t + ms < Wrap => (t + ms) % Wrap = t + ms
      /\ t + ms >= Wrap => (t + ms) % Wrap = t + ms - Wrap
  BY <1>1, <1>2, Remainder
<1>4. PICK u \in Int : u = (t + ms) % Wrap
  BY <1>1, <1>2, <1>3
<1>5. u \in 0..Wrap - 1 /\ (u - from = s + ms \/ u - from = s + ms - Wrap)
  BY <1>1, <1>2, <1>3, <1>4
<1>6. (u - from) % Wrap = s + ms
  BY <1>1, <1>5, Remainder
<1> QED BY <1>4, <1>5, <1>6

LEMMA NoDistance ==
  ASSUME NEW t \in 0..Wrap - 1
  PROVE  (t - t) % Wrap = 0
BY TimeAssumption, Remainder

(* Readings the filter takes for the same are two tenths apart at most,    *)
(* whatever the floats make of them: the float at t tenths is off by at     *)
(* most eight units.                                                       *)
Rounds(f, t) == 10 * f - t * 2097152 \in -80..80

LEMMA Rounding ==
  ASSUME NEW t \in 40..800
  PROVE  Float(t) \in Int /\ Rounds(Float(t), t)
<1>1. CASE t < 80
  BY <1>1, SMT DEF Float, Ulp, Rounds
<1>2. CASE t >= 80 /\ t < 160
  BY <1>2, SMT DEF Float, Ulp, Rounds
<1>3. CASE t >= 160 /\ t < 320
  BY <1>3, SMT DEF Float, Ulp, Rounds
<1>4. CASE t >= 320 /\ t < 640
  BY <1>4, SMT DEF Float, Ulp, Rounds
<1>5. CASE t >= 640
  BY <1>5, SMT DEF Float, Ulp, Rounds
<1> QED BY <1>1, <1>2, <1>3, <1>4, <1>5, SMT

LEMMA FilterIsFine ==
  ASSUME NEW a \in Readings, NEW b \in Readings, ~ChangedEnough(a, b)
  PROVE  AbsDiff(a, b) <= 2
<1>1. a \in 40..800 /\ b \in 40..800
  BY ReadingsAssumption
<1>2. PICK f \in Int : f = Float(a) /\ Rounds(f, a)
  BY <1>1, Rounding
<1>3. PICK g \in Int : g = Float(b) /\ Rounds(g, b)
  BY <1>1, Rounding
<1>4. g - f < 419431 /\ f - g < 419431
  BY <1>2, <1>3, SMT DEF ChangedEnough, AbsDiff
<1>5. b < a + 3 /\ a < b + 3
  BY <1>1, <1>2, <1>3, <1>4, SMT DEF Rounds
<1> QED BY <1>1, <1>5 DEF AbsDiff

LEMMA NoReadings == None \notin Readings /\ Invalid \notin Readings
<1>1. \A r \in Readings : r \in Int
  BY ReadingsAssumption
<1> QED BY <1>1, ReadingsAssumption

---------------------------------------------------------------------------
(* The inductive invariant.                                                *)

SwitchTypes == subscribed \in BOOLEAN /\ onChangeOnly \in BOOLEAN /\ haveLast \in BOOLEAN

ValueTypes == /\ lastValue \in Readings \union {0}
              /\ reading \in Measured
              /\ asked \in Measured \union {None}
              /\ heard \in [quality : {None, 0, 255}, value : Readings \union {None, 0},
                             good : Readings \union {None}]

TimeTypes == /\ now \in 0..Wrap - 1 /\ lastMs \in 0..Wrap - 1
             /\ interval \in Nat /\ interval >= MinMs /\ interval + MaxLag < Wrap
             /\ since \in Nat
             /\ pc \in {"tcp", "poll", "delay"}

(* Only a subscribed sensor is asked; from a question to the end of the    *)
(* pass its interval is not over.                                          *)
InTime == /\ asked # None => subscribed
          /\ Punctual
          /\ pc = "delay" /\ asked # None => since < interval

(* What the filter compares with is the last value the backend was sent,   *)
(* and what it holds unless a failed measurement was sent after it.        *)
InStep == /\ subscribed /\ haveLast =>
               /\ lastValue \in Readings /\ heard.good = lastValue
               /\ \/ heard.quality = 0
                  \/ heard.quality = 255 /\ heard.value = lastValue
          /\ BackendClose

SensorInv == SwitchTypes /\ ValueTypes /\ TimeTypes /\ InTime /\ InStep

LEMMA Initially == Init => SensorInv
<1> SUFFICES ASSUME Init PROVE SensorInv
  OBVIOUS
<1>1. SwitchTypes
  BY DEF Init, SwitchTypes
<1>2. subscribed = FALSE /\ asked = None /\ heard = Unheard /\ reading \in Measured
  BY DEF Init
<1>3. ValueTypes
  BY <1>2 DEF Init, ValueTypes, Unheard
<1>4. TimeTypes
  BY TimeAssumption DEF Init, TimeTypes
<1>5. InTime /\ InStep
  BY <1>2 DEF Init, InTime, InStep, Punctual, BackendClose
<1> QED BY <1>1, <1>3, <1>4, <1>5 DEF SensorInv

(* A step that forgets what was asked and heard. *)
LEMMA Forgetting ==
  ASSUME SensorInv, Forget, SwitchTypes', TimeTypes', UNCHANGED <<lastValue, reading>>,
         subscribed' => ~haveLast'
  PROVE  SensorInv'
<1>1. asked' = None /\ heard' = Unheard /\ None \notin Readings
  BY NoReadings DEF Forget
<1>2. ValueTypes'
  BY <1>1 DEF SensorInv, ValueTypes, Unheard
<1>3. InTime' /\ InStep'
  BY <1>1 DEF InTime, InStep, Punctual, BackendClose
<1> QED BY <1>2, <1>3 DEF SensorInv

LEMMA SubscribeSteps ==
  ASSUME SensorInv, NEW i \in Intervals, NEW change \in BOOLEAN, Subscribe(i, change)
  PROVE  SensorInv'
<1>1. Normalized(i) \in Nat /\ Normalized(i) >= MinMs /\ Normalized(i) + MaxLag < Wrap
  BY TimeAssumption DEF Normalized
<1>2. TimeTypes'
  <2>1. /\ now' = now /\ pc' = pc /\ interval' = Normalized(i) /\ lastMs' = 0 /\ since' = 0
    BY DEF Subscribe, Forget
  <2> QED BY <1>1, <2>1, TimeAssumption DEF SensorInv, TimeTypes
<1>3. SwitchTypes'
  BY DEF Subscribe, SwitchTypes
<1> QED BY <1>2, <1>3, Forgetting DEF Subscribe

LEMMA UnsubscribeSteps ==
  ASSUME SensorInv, Unsubscribe
  PROVE  SensorInv'
<1>1. TimeTypes' /\ SwitchTypes'
  BY DEF Unsubscribe, Forget, SensorInv, TimeTypes, SwitchTypes
<1> QED BY <1>1, Forgetting DEF Unsubscribe

LEMMA ResetSteps ==
  ASSUME SensorInv, Reset, pc' \in {"tcp", "delay"}
  PROVE  SensorInv'
<1>1. TimeTypes'
  <2>1. now' = now /\ interval' = DefaultMs /\ lastMs' = 0 /\ since' = 0
    BY DEF Reset, Forget
  <2> QED BY <2>1, TimeAssumption DEF SensorInv, TimeTypes
<1>2. SwitchTypes'
  BY DEF Reset, SwitchTypes
<1> QED BY <1>1, <1>2, Forgetting DEF Reset

LEMMA AskSteps ==
  ASSUME SensorInv, Skip \/ Report
  PROVE  SensorInv'
<1>1. /\ Ask /\ Due /\ pc' = "delay" /\ lastMs' = now /\ asked' = reading /\ since' = 0
      /\ UNCHANGED <<now, subscribed, interval, onChangeOnly, reading>>
  BY DEF Skip, Report, Ask
<1>2. /\ subscribed /\ reading \in Measured /\ reading # None
  BY <1>1, ReadingsAssumption DEF Due, SensorInv, ValueTypes, Measured
<1>3. TimeTypes' /\ InTime'
  <2>1. TimeTypes'
    BY <1>1 DEF SensorInv, TimeTypes
  <2>2. (now - now) % Wrap = 0
    BY NoDistance DEF SensorInv, TimeTypes
  <2>3. interval \in Nat /\ MinMs \in Nat \ {0} /\ MaxLag \in Nat \ {0} /\ interval >= MinMs
    BY TimeAssumption DEF SensorInv, TimeTypes
  <2>4. Punctual' /\ since' < interval'
    BY <1>1, <2>2, <2>3 DEF Punctual
  <2> QED BY <1>1, <1>2, <2>1, <2>4 DEF InTime
<1>4. CASE Skip
  <2>1. Swallowed /\ UNCHANGED <<haveLast, lastValue, heard>>
    BY <1>4 DEF Skip
  <2>2. SwitchTypes' /\ ValueTypes'
    BY <1>1, <1>2, <2>1 DEF SensorInv, SwitchTypes, ValueTypes
  <2>3. /\ reading \in Readings /\ reading # Invalid
        /\ onChangeOnly /\ haveLast /\ ~ChangedEnough(lastValue, reading)
    BY <1>2, <2>1 DEF Swallowed, Measured
  <2>4. /\ lastValue \in Readings /\ heard.good = lastValue
        /\ heard.quality = 0 \/ (heard.quality = 255 /\ heard.value = lastValue)
    BY <1>2, <2>3 DEF SensorInv, InStep
  <2>5. Near(lastValue, reading)
    BY <2>3, <2>4, FilterIsFine DEF Near
  <2>6. Current(reading) \/ (Failed /\ Near(heard.good, reading))
    BY <2>3, <2>4, <2>5 DEF Current, Failed
  <2>7. InStep'
    BY <1>1, <2>1, <2>3, <2>4, <2>6 DEF InStep, BackendClose, Current, Failed, Near
  <2> QED BY <1>3, <2>2, <2>7 DEF SensorInv
<1>5. CASE Report
  <2>1. CASE reading = Invalid
    <3>1. /\ heard' = [quality |-> 0, value |-> 0, good |-> heard.good]
          /\ UNCHANGED <<haveLast, lastValue>>
      BY <1>5, <2>1 DEF Report
    <3>2. heard.good \in Readings \union {None}
      BY DEF SensorInv, ValueTypes
    <3>3. SwitchTypes' /\ ValueTypes'
      BY <1>1, <1>2, <3>1, <3>2 DEF SensorInv, SwitchTypes, ValueTypes
    <3>4. Current(reading)'
      BY <1>1, <2>1, <3>1 DEF Current
    <3>5. BackendClose'
      BY <1>1, <3>4 DEF BackendClose, Current, Near
    <3>6. InStep'
      BY <1>1, <3>1, <3>5 DEF SensorInv, InStep
    <3> QED BY <1>3, <3>3, <3>6 DEF SensorInv
  <2>2. CASE reading # Invalid
    <3>1. /\ heard' = [quality |-> 255, value |-> reading, good |-> reading]
          /\ haveLast' = TRUE /\ lastValue' = reading
      BY <1>5, <2>2 DEF Report
    <3>2. reading \in Readings /\ reading \in Int
      BY <1>2, <2>2, ReadingsAssumption DEF Measured
    <3>3. SwitchTypes'
      BY <1>1, <3>1 DEF SensorInv, SwitchTypes
    <3>4. ValueTypes'
      BY <1>1, <1>2, <3>1, <3>2 DEF ValueTypes
    <3>5. AbsDiff(reading, reading) = 0
      BY <3>2 DEF AbsDiff
    <3>6. BackendClose'
      BY <1>1, <2>2, <3>1, <3>2, <3>5 DEF BackendClose, Current, Near
    <3>7. InStep'
      BY <1>1, <3>1, <3>2, <3>6 DEF InStep
    <3> QED BY <1>3, <3>3, <3>4, <3>7 DEF SensorInv
  <2> QED BY <2>1, <2>2
<1> QED BY <1>4, <1>5

(* Why the subtraction of the counter is the time since the last question. *)
LEMMA PassSteps ==
  ASSUME SensorInv, NEW ms \in 1..MaxLag, Pass(ms)
  PROVE  SensorInv'
<1>1. /\ pc = "delay" /\ pc' = "tcp" /\ now' = (now + ms) % Wrap
      /\ since' = IF asked = None THEN 0 ELSE since + ms
      /\ UNCHANGED <<subscribed, interval, onChangeOnly, lastMs, haveLast, lastValue,
                     reading, asked, heard>>
  BY DEF Pass, device
<1>2. /\ ms \in Nat /\ ms <= MaxLag /\ MaxLag \in Nat /\ Wrap \in Nat
      /\ now \in 0..Wrap - 1 /\ lastMs \in 0..Wrap - 1 /\ since \in Nat
      /\ interval \in Nat /\ interval + MaxLag < Wrap
  BY TimeAssumption DEF SensorInv, TimeTypes
<1>3. now' \in 0..Wrap - 1
  BY <1>1, <1>2, TimeAssumption, Remainder
<1>4. asked # None => since < interval /\ (now - lastMs) % Wrap = since
  BY <1>1 DEF SensorInv, InTime, Punctual
<1>5. asked # None => (((now + ms) % Wrap) - lastMs) % Wrap = since + ms
  BY <1>2, <1>4, Distance
<1>6. TimeTypes'
  BY <1>1, <1>2, <1>3 DEF SensorInv, TimeTypes
<1>7. InTime'
  <2>1. Punctual'
    BY <1>1, <1>2, <1>4, <1>5 DEF Punctual
  <2> QED BY <1>1, <2>1 DEF SensorInv, InTime
<1>8. SwitchTypes' /\ ValueTypes' /\ InStep'
  BY <1>1 DEF SensorInv, SwitchTypes, ValueTypes, InStep, BackendClose, Current, Failed, Near
<1> QED BY <1>6, <1>7, <1>8 DEF SensorInv

LEMMA QuietSteps ==
  ASSUME SensorInv,
         PacketsDone \/ NotDue \/ ReadingChanges \/ UNCHANGED vars
  PROVE  SensorInv'
<1>1. UNCHANGED <<now, device, ghost>>
  BY DEF PacketsDone, NotDue, ReadingChanges, vars
<1>2. reading' \in Measured /\ pc' \in {"tcp", "poll", "delay"}
  BY DEF PacketsDone, NotDue, ReadingChanges, vars, SensorInv, ValueTypes, TimeTypes
<1>3. SwitchTypes' /\ ValueTypes' /\ TimeTypes'
  BY <1>1, <1>2 DEF device, ghost, SensorInv, SwitchTypes, ValueTypes, TimeTypes
<1>4. InStep' /\ Punctual'
  BY <1>1 DEF device, ghost, SensorInv, InStep, BackendClose, Current, Failed, Near, InTime,
              Punctual
<1>5. pc' = "delay" /\ asked' # None => since' < interval'
  <2>1. CASE NotDue
    BY <1>1, <2>1 DEF NotDue, Due, device, ghost, SensorInv, InTime, Punctual, TimeTypes
  <2>2. CASE ~NotDue
    BY <1>1, <2>2 DEF PacketsDone, ReadingChanges, vars, device, ghost, SensorInv, InTime
  <2> QED BY <2>1, <2>2
<1> QED BY <1>1, <1>3, <1>4, <1>5 DEF device, ghost, SensorInv, InTime

LEMMA Inductive == SensorInv /\ [Next]_vars => SensorInv'
<1> SUFFICES ASSUME SensorInv, [Next]_vars PROVE SensorInv'
  OBVIOUS
<1>1. CASE NewSession \/ ReportFails
  <2>1. pc' \in {"tcp", "delay"} /\ Reset
    BY <1>1 DEF NewSession, ReportFails
  <2> QED BY <2>1, ResetSteps
<1> QED BY <1>1, SubscribeSteps, UnsubscribeSteps, AskSteps, PassSteps, QuietSteps
        DEF Next, Loop

---------------------------------------------------------------------------
(* The theorems.                                                           *)

(* Types, and an interval in use that is never below the minimum, whatever *)
(* intervalMs a Subscribe carried (normalizedSensorInterval).              *)
THEOREM TypeCorrect == Spec => []TypesAndMinimum
<1>1. SensorInv => TypesAndMinimum
  BY DEF SensorInv, SwitchTypes, ValueTypes, TimeTypes, TypesAndMinimum
<1> QED BY <1>1, Initially, Inductive, PTL DEF Spec

(* However often millis() wraps, the unsigned difference in pollSensors is *)
(* the time since the last question, and a subscribed sensor is asked      *)
(* within its interval and one pass of appLoop, for every width of the     *)
(* counter and every interval that leaves a pass before the wrap.          *)
THEOREM AskedInTime == Spec => []Punctual
<1>1. SensorInv => Punctual
  BY DEF SensorInv, InTime
<1> QED BY <1>1, Initially, Inductive, PTL DEF Spec

(* What the backend was told last is the last measurement                  *)
(* (maybeSendSensor): a failed one with quality 0 and value 0, a reading   *)
(* with quality 255, and its value within two tenths with OnChangeOnly and *)
(* the same without.  The filter compares with what was sent, so that no   *)
(* drift is lost in small steps, and forgets at a Subscribe, so that the   *)
(* first reading after it is sent.  The one exception is a reading after a *)
(* failed measurement under OnChangeOnly that is kept back; it is within   *)
(* two tenths of the last value sent.  For readings from 4 to 80 degrees.  *)
THEOREM BackendInStep == Spec => []BackendClose
<1>1. SensorInv => BackendClose
  BY DEF SensorInv, InStep
<1> QED BY <1>1, Initially, Inductive, PTL DEF Spec

(* No question comes before the interval is over, a wrap or not, except    *)
(* after one at millisecond 0 of the counter (pollSensors, needTemp).      *)
THEOREM AskedNotEarly == Spec => NeverEarly
<1>1. SensorInv /\ [Next]_vars
        => [Ask => asked = None \/ since >= interval \/ lastMs = 0]_vars
  BY DEF SensorInv, InTime, Punctual, Ask, Due
<1> QED BY <1>1, Initially, Inductive, PTL DEF Spec, NeverEarly

---------------------------------------------------------------------------
(* The first reading after a Subscribe, and what a backend knows of it.    *)

(* Between a Subscribe and the first question, timer and filter are new.   *)
AsNew == subscribed /\ asked = None => lastMs = 0 /\ ~haveLast

LEMMA AsNewStep ==
  ASSUME SensorInv, AsNew, [Next]_vars
  PROVE  AsNew'
<1>1. CASE \E i \in Intervals, change \in BOOLEAN : Subscribe(i, change)
  BY <1>1 DEF Subscribe, AsNew
<1>2. CASE Unsubscribe \/ NewSession \/ ReportFails
  BY <1>2 DEF Unsubscribe, NewSession, ReportFails, Reset, AsNew
<1>3. CASE Skip \/ Report
  <2>1. asked' = reading /\ reading # None
    BY <1>3, ReadingsAssumption DEF Skip, Report, Ask, SensorInv, ValueTypes, Measured
  <2> QED BY <2>1 DEF AsNew
<1>4. CASE \E ms \in 1..MaxLag : Pass(ms)
  BY <1>4 DEF Pass, device, AsNew
<1>5. CASE PacketsDone \/ NotDue \/ ReadingChanges \/ UNCHANGED vars
  BY <1>5 DEF PacketsDone, NotDue, ReadingChanges, vars, device, ghost, AsNew
<1> QED BY <1>1, <1>2, <1>3, <1>4, <1>5 DEF Next, Loop

(* handleSubscribe sets lastTempMs and haveLastTemp back, for a sensor     *)
(* that was subscribed before too: the next poll neither waits for the     *)
(* interval nor finds the reading too near to an old one.                  *)
THEOREM FirstReadingAtOnce == Spec => FirstAtOnce
<1>1. Init => AsNew
  BY DEF Init, AsNew
<1>2. SensorInv /\ AsNew /\ [Next]_vars => AsNew'
  BY AsNewStep
<1>3. AsNew /\ [Next]_vars => [NotDue \/ Skip => ~subscribed \/ asked # None]_vars
  BY DEF AsNew, NotDue, Skip, Ask, Due, Swallowed
<1> QED BY <1>1, <1>2, <1>3, Initially, Inductive, PTL DEF Spec, FirstAtOnce

(* QualityKnown of SensorPoll, which OnChangeOnly breaks, for the          *)
(* subscriptions without it: the quality a backend holds is that of the    *)
(* last measurement.                                                       *)
QualityUnfiltered == ~onChangeOnly /\ asked # None =>
                       heard.quality = IF asked = Invalid THEN 0 ELSE 255

LEMMA QualityStep ==
  ASSUME SensorInv, QualityUnfiltered, [Next]_vars
  PROVE  QualityUnfiltered'
<1>1. CASE \/ \E i \in Intervals, change \in BOOLEAN : Subscribe(i, change)
           \/ Unsubscribe \/ NewSession \/ ReportFails
  BY <1>1 DEF Subscribe, Unsubscribe, NewSession, ReportFails, Reset, Forget, QualityUnfiltered
<1>2. CASE Skip
  BY <1>2 DEF Skip, Ask, Swallowed, QualityUnfiltered
<1>3. CASE Report
  <2>1. asked' = reading
    BY <1>3 DEF Report, Ask
  <2>2. heard'.quality = IF reading = Invalid THEN 0 ELSE 255
    BY <1>3, <2>1 DEF Report
  <2> QED BY <2>1, <2>2 DEF QualityUnfiltered
<1>4. CASE \E ms \in 1..MaxLag : Pass(ms)
  BY <1>4 DEF Pass, device, QualityUnfiltered
<1>5. CASE PacketsDone \/ NotDue \/ ReadingChanges \/ UNCHANGED vars
  BY <1>5 DEF PacketsDone, NotDue, ReadingChanges, vars, device, ghost, QualityUnfiltered
<1> QED BY <1>1, <1>2, <1>3, <1>4, <1>5 DEF Next, Loop

(* So the finding about quality is one about OnChangeOnly alone            *)
(* (maybeSendSensor skips a recovered reading near the last valid one).    *)
THEOREM QualityWithoutFilter == Spec => []QualityUnfiltered
<1>1. Init => QualityUnfiltered
  BY DEF Init, QualityUnfiltered
<1>2. SensorInv /\ QualityUnfiltered /\ [Next]_vars => QualityUnfiltered'
  BY QualityStep
<1> QED BY <1>1, <1>2, Initially, Inductive, PTL DEF Spec
=============================================================================
