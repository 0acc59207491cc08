----------------------------- MODULE SensorPoll -----------------------------
(***************************************************************************)
(* One sensor of the firmware over time: pollSensors and maybeSendSensor   *)
(* (esp32/app.cpp) with the millis() counter, which wraps, the interval of *)
(* the subscription and the OnChangeOnly filter.  The three sensors run    *)
(* this code side by side, with their own variables, intervals and         *)
(* threshold; the readings and the threshold here are Temperature's.  How  *)
(* the sensors share a poll that loses its connection is in module Station.*)
(*                                                                         *)
(* Readings are DHT22 readings, whole tenths of a degree from 4.0 to 80.0  *)
(* degrees, and the filter compares them as the 32-bit floats the program  *)
(* holds.                                                                  *)
(***************************************************************************)
EXTENDS Integers

CONSTANTS
  Wrap,              \* millis() counts modulo this; 2^32 in the code
  MaxLag,            \* longest pass of appLoop, in ms
  MinMs,             \* shortest interval; 2000, AmbientLight 200
  DefaultMs,         \* interval of a Subscribe that asks for 0; 2000, 1000
  Intervals,         \* intervalMs of the Subscribe packets
  Readings,          \* temperatures in tenths of a degree
  Invalid,           \* the reading of a failed measurement, NaN
  None               \* nothing yet

ASSUME TimeAssumption ==
  /\ Wrap \in Nat /\ MinMs \in Nat \ {0} /\ MaxLag \in Nat \ {0}
  /\ DefaultMs \in Nat /\ DefaultMs >= MinMs
  /\ Intervals \subseteq Nat
  /\ DefaultMs + MaxLag < Wrap
  /\ \A i \in Intervals : i + MaxLag < Wrap

(* Float below is exact from 4 to 80 degrees. *)
ASSUME ReadingsAssumption == /\ Readings \subseteq 40..800
                             /\ Invalid \notin Int /\ None \notin Int
                             /\ Invalid # None

Measured == Readings \union {Invalid}

VARIABLES
  now,               \* millis()
  pc,                \* "tcp", "poll", "delay": where appLoop is
  subscribed,        \* sub.temperature
  interval,          \* sub.temperature_interval_ms
  onChangeOnly,      \* sub.temperature_on_change_only
  lastMs,            \* lastTempMs; 0 means never
  haveLast,          \* haveLastTemp
  lastValue,         \* lastTempValue
  reading,           \* what the sensor would answer now
  asked,             \* the reading when last asked, since the latest Subscribe
  since,             \* real time since then
  heard              \* what the backend was sent since the latest Subscribe:
                     \* quality and value of the last packet, and the value
                     \* of the last one with quality 255 (good)

device == <<subscribed, interval, onChangeOnly, lastMs, haveLast, lastValue>>
ghost == <<asked, since, heard>>
vars == <<now, pc, device, reading, ghost>>

---------------------------------------------------------------------------
(* Broken variant: the default for 0, no minimum. *)
NormalizedZero(i) == IF i = 0 THEN DefaultMs ELSE i

(* normalizedSensorInterval: the default for 0, then the minimum. *)
Normalized(i) == LET value == IF i = 0 THEN DefaultMs ELSE i
                 IN  IF value < MinMs THEN MinMs ELSE value

AbsDiff(a, b) == IF a < b THEN b - a ELSE a - b

(* The distance of two neighbouring floats at t tenths of a degree, in     *)
(* units of 2^-21 degrees: it doubles at 8, 16, 32 and 64 degrees.         *)
Ulp(t) == IF t < 80 THEN 1 ELSE IF t < 160 THEN 2 ELSE
          IF t < 320 THEN 4 ELSE IF t < 640 THEN 8 ELSE 16

(* The float nearest to t tenths, in the same units. *)
Float(t) == Ulp(t) * ((t * 2097152 + 5 * Ulp(t)) \div (10 * Ulp(t)))

(* changedEnough with threshold 0.2f, which is 13421773 * 2^-26, so a      *)
(* little above 419430 of these units: a change of exactly two tenths may  *)
(* fall on either side.                                                    *)
ChangedEnough(prev, cur) == AbsDiff(Float(cur), Float(prev)) >= 419431

(* Broken variant: a deadline is compared instead of a difference. *)
DueByDeadline == subscribed /\ (lastMs = 0 \/ now >= (lastMs + interval) % Wrap)

(* needTemp: the subtraction is modulo 2^32, as now and lastTempMs are. *)
Due == subscribed /\ (lastMs = 0 \/ (now - lastMs) % Wrap >= interval)

Swallowed == /\ reading # Invalid
             /\ onChangeOnly
             /\ haveLast
             /\ ~ChangedEnough(lastValue, reading)

Unheard == [quality |-> None, value |-> None, good |-> None]

Init == /\ now \in 0..Wrap - 1
        /\ pc = "tcp"
        /\ subscribed = FALSE
        /\ interval = DefaultMs
        /\ onChangeOnly = FALSE
        /\ lastMs = 0
        /\ haveLast = FALSE
        /\ lastValue = 0
        /\ reading \in Measured
        /\ asked = None
        /\ since = 0
        /\ heard = Unheard

Forget == asked' = None /\ since' = 0 /\ heard' = Unheard

(* Broken variant: haveLastTemp survives a second Subscribe. *)
SubscribeKeepsLast(i, change) ==
  /\ pc = "tcp"
  /\ subscribed' = TRUE
  /\ interval' = Normalized(i)
  /\ onChangeOnly' = change
  /\ lastMs' = 0
  /\ Forget
  /\ UNCHANGED <<now, pc, haveLast, lastValue, reading>>

(* handleSubscribe of a ready sensor. *)
Subscribe(i, change) ==
  /\ pc = "tcp"
  /\ subscribed' = TRUE
  /\ interval' = Normalized(i)
  /\ onChangeOnly' = change
  /\ lastMs' = 0
  /\ haveLast' = FALSE
  /\ Forget
  /\ UNCHANGED <<now, pc, lastValue, reading>>

Unsubscribe == /\ pc = "tcp"
               /\ subscribed' = FALSE
               /\ Forget
               /\ UNCHANGED <<now, pc, interval, onChangeOnly, lastMs, haveLast,
                              lastValue, reading>>

(* resetSessionState: the connection broke, or a new one was accepted. *)
Reset == /\ subscribed' = FALSE
         /\ interval' = DefaultMs
         /\ onChangeOnly' = FALSE
         /\ lastMs' = 0
         /\ haveLast' = FALSE
         /\ Forget
         /\ UNCHANGED <<now, lastValue, reading>>

NewSession == pc = "tcp" /\ Reset /\ UNCHANGED pc

PacketsDone == pc = "tcp" /\ pc' = "poll" /\ UNCHANGED <<now, device, reading, ghost>>

(* pollSensors has nothing to do for this sensor. *)
NotDue == /\ pc = "poll"
          /\ ~Due
          /\ pc' = "delay"
          /\ UNCHANGED <<now, device, reading, ghost>>

Ask == /\ pc = "poll"
       /\ Due
       /\ pc' = "delay"
       /\ lastMs' = now
       /\ asked' = reading
       /\ since' = 0
       /\ UNCHANGED <<now, subscribed, interval, onChangeOnly, reading>>

(* Broken variant: every reading becomes the one to compare with, so a     *)
(* slow drift is never reported.                                           *)
SkipFollows == /\ Ask
               /\ Swallowed
               /\ lastValue' = reading
               /\ UNCHANGED <<haveLast, heard>>

(* maybeSendSensor keeps a reading near the last one sent to itself. *)
Skip == /\ Ask
        /\ Swallowed
        /\ UNCHANGED <<haveLast, lastValue, heard>>

(* An invalid reading is sent as quality 0, value 0 and is not remembered. *)
Report == /\ Ask
          /\ ~Swallowed
          /\ IF reading = Invalid
             THEN /\ heard' = [quality |-> 0, value |-> 0, good |-> heard.good]
                  /\ UNCHANGED <<haveLast, lastValue>>
             ELSE /\ heard' = [quality |-> 255, value |-> reading, good |-> reading]
                  /\ haveLast' = TRUE
                  /\ lastValue' = reading

(* The write fails: disconnectClient. *)
ReportFails == /\ pc = "poll"
               /\ Due
               /\ ~Swallowed
               /\ pc' = "delay"
               /\ Reset

(* The rest of the pass, and the delay at its end. Real time that nobody   *)
(* asks about is not counted.                                              *)
Pass(ms) == /\ pc = "delay"
            /\ pc' = "tcp"
            /\ now' = (now + ms) % Wrap
            /\ since' = IF asked = None THEN 0 ELSE since + ms
            /\ UNCHANGED <<device, reading, asked, heard>>

ReadingChanges == /\ reading' \in Measured \ {reading}
                  /\ UNCHANGED <<now, pc, device, ghost>>

Loop == PacketsDone \/ NotDue \/ Skip \/ Report \/ \E ms \in 1..MaxLag : Pass(ms)

Next == \/ Loop
        \/ \E i \in Intervals, change \in BOOLEAN : Subscribe(i, change)
        \/ Unsubscribe \/ NewSession \/ ReportFails \/ ReadingChanges

(* The loop task keeps running. *)
Spec == Init /\ [][Next]_vars /\ WF_vars(Loop)

---------------------------------------------------------------------------
(* Every variable keeps its type, and the interval in use is never below   *)
(* the minimum, whatever intervalMs a Subscribe carried.                   *)
TypesAndMinimum ==
  /\ now \in 0..Wrap - 1
  /\ pc \in {"tcp", "poll", "delay"}
  /\ subscribed \in BOOLEAN
  /\ interval \in Nat /\ interval >= MinMs
  /\ onChangeOnly \in BOOLEAN
  /\ lastMs \in 0..Wrap - 1
  /\ haveLast \in BOOLEAN
  /\ lastValue \in Readings \union {0}
  /\ reading \in Measured
  /\ asked \in Measured \union {None}
  /\ since \in Nat
  /\ heard \in [quality : {None, 0, 255}, value : Readings \union {None, 0},
                 good : Readings \union {None}]

(* The counter may wrap between two questions: what is left of their       *)
(* distance is the distance modulo 2^32, and one pass does not fill it.    *)
(* So a subscribed sensor is asked within its interval and one pass, for   *)
(* as long as the station runs.                                            *)
Punctual == asked # None =>
              since < interval + MaxLag /\ (now - lastMs) % Wrap = since

(* It is not asked before its interval is over either, unless the last     *)
(* question fell on the very millisecond 0 of the counter, which the       *)
(* program takes for "never".                                              *)
NeverEarly == [][Ask => asked = None \/ since >= interval \/ lastMs = 0]_vars

(* A Subscribe, the first or a later one, is answered with a reading by    *)
(* the very next poll: neither the timer nor the last value of an earlier  *)
(* subscription holds it back.                                             *)
FirstAtOnce == [][NotDue \/ Skip => ~subscribed \/ asked # None]_vars

(* README.md:604: the reports of Temperature and Humidity are 2000 ms or   *)
(* more apart, whatever interval was asked for.                            *)
MinimumPeriod == [][(Skip \/ Report) => asked = None \/ since >= interval]_vars

(* The last packet sent tells of the measurement m: quality 0 and value 0  *)
(* of a failed one, quality 255 and the value of a reading, or with        *)
(* OnChangeOnly one within two tenths of it.                               *)
Near(v, m) == v \in Readings /\ AbsDiff(v, m) <= IF onChangeOnly THEN 2 ELSE 0

Current(m) == IF m = Invalid
              THEN heard.quality = 0 /\ heard.value = 0
              ELSE heard.quality = 255 /\ Near(heard.value, m)

(* With OnChangeOnly the last packet told of a failed measurement: a       *)
(* reading near the last one sent is now kept back, and the backend is     *)
(* left with quality 0 and value 0 (QualityKnown below is what breaks).    *)
Failed == onChangeOnly /\ heard.quality = 0

(* README.md:362-368: what a backend was told last is the sensor's last    *)
(* measurement, the failed ones included; a drift in small steps does not  *)
(* get lost, nor does the first reading after a Subscribe.  After a failed *)
(* measurement under OnChangeOnly the reading kept back is at least one    *)
(* within two tenths of the last value that was sent.                      *)
BackendClose ==
  asked # None => Current(asked) \/ (Failed /\ asked # Invalid /\ Near(heard.good, asked))

(* A measurement that stays, a failed one too, is told to the backend      *)
(* sooner or later, except for a reading that follows a failed measurement *)
(* under OnChangeOnly.                                                     *)
Told ==
  \A m \in Measured :
    (subscribed /\ reading = m /\ ~Failed) ~>
      Current(m) \/ reading # m \/ ~subscribed

(* README.md:368: a backend can tell from quality whether the sensor       *)
(* works; so it does not hold one that answers again for broken.           *)
QualityKnown == asked \in Readings => heard.quality = 255
=============================================================================
