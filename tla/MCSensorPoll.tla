---------------------------- MODULE MCSensorPoll ----------------------------
(* A millisecond counter that wraps after 12 ticks, the default interval  *)
(* of 5 ticks (asked for as 0) and the minimum of 3 (asked for as 1), loop *)
(* passes of 1 or 2; and temperatures one and two tenths apart, where the  *)
(* floats become coarser: 32.0 - 31.8 counts as a change, 32.1 - 31.9 as a *)
(* float does not.                                                         *)
EXTENDS SensorPoll

MCIntervals == {0, 1}
MCReadings == {318, 319, 320, 321}
=============================================================================
