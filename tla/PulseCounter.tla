---------------------------- MODULE PulseCounter ----------------------------
(***************************************************************************)
(* What the flow sensors promise the flow control: a total per sensor that *)
(* grows by one with every pulse of the sensor (the fall of its line), as  *)
(* a 32-bit counter does, and that the program may set or add to.  A total *)
(* that is set is charged with the pulses (at most Burst) that came since  *)
(* the last update.                                                        *)
(***************************************************************************)
EXTENDS Integers

CONSTANTS Sensors,    \* the flow sensors
          TotalSize,  \* the values of a total, 2^32
          Burst,      \* most pulses of a sensor between two updates
          SetValues,  \* values a total is set to
          AddValues   \* values added to a total by hand

VARIABLES low,        \* the sensors whose line is low
          count       \* the totals, pending pulses included

(* The 32-bit sum of two numbers that are not both at the limit.           *)
Sum32(a, b) == IF a + b < TotalSize THEN a + b ELSE a + b - TotalSize

PulseInit == low = {} /\ count = [s \in Sensors |-> 0]

Fall(s) ==
  /\ s \notin low
  /\ low' = low \cup {s}
  /\ count' = [count EXCEPT ![s] = Sum32(@, 1)]

Rise(s) == low' = low \ {s} /\ UNCHANGED count

Set(s) ==
  /\ \E v \in SetValues, carried \in 0..Burst :
       count' = [count EXCEPT ![s] = Sum32(v, carried)]
  /\ UNCHANGED low

Add(s) ==
  /\ \E v \in AddValues : count' = [count EXCEPT ![s] = Sum32(@, v)]
  /\ UNCHANGED low

PulseNext == \E s \in Sensors : Fall(s) \/ Rise(s) \/ Set(s) \/ Add(s)

PulseSpec == PulseInit /\ [][PulseNext]_<<low, count>>
=============================================================================
