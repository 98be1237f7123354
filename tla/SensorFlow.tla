----------------------------- MODULE SensorFlow -----------------------------
(***************************************************************************)
(* The flow sensors (sensor_flow.cpp): every falling edge of a sensor runs *)
(* an interrupt that counts it in sixteen bits; once a second              *)
(* sensor_flow_update moves the counts into the totals, sensor by sensor,  *)
(* each with its interrupt detached.  The interrupts may run between any   *)
(* two statements of the update.                                           *)
(*                                                                         *)
(* An edge that comes while the interrupt is detached is kept by the flag  *)
(* of the interrupt and counted when it is attached again; there is one    *)
(* flag, and an update is much shorter than the time between two edges.    *)
(***************************************************************************)
EXTENDS Integers

CONSTANTS SensorCount,     \* SENSOR_FLOW_ARRAY_SIZE
          CounterSize,     \* the values of pulses_interrupt, 2^16
          TotalSize,       \* the values of pulses_total, 2^32
          Burst,           \* most pulses of a sensor between two updates
          UpdateInterval,  \* SENSOR_FLOW_UPDATE_INTERVAL
          SetValues,       \* values the program sets a total to
          AddValues        \* values added to a total on the console

Sensors == 0..(SensorCount - 1)

(* A loop of the firmware is over, or the watchdog ends it, long before a  *)
(* sensor has seen 2^16 pulses.                                            *)
ASSUME SensorFlowAssumption ==
  /\ SensorCount \in Nat \ {0}
  /\ CounterSize \in Nat /\ TotalSize \in Nat
  /\ Burst \in Nat \ {0} /\ Burst < CounterSize /\ CounterSize < TotalSize
  /\ UpdateInterval \in Nat
  /\ SetValues \subseteq 0..(TotalSize - 1)
  /\ AddValues \subseteq 0..(TotalSize - 1)

VARIABLES low,               \* the sensors whose line is low
          pulses_interrupt,  \* counted by the interrupts
          pulses_total,
          attached,          \* the sensors whose interrupt is attached
          latched,           \* the sensors whose flag keeps an edge
          counter,           \* the sensor the update has reached
          phase,             \* the statement the update has reached
          update_age         \* age of time_update_last

flowSensorVars == <<low, pulses_interrupt, pulses_total, attached, latched,
                    counter, phase, update_age>>

SensorFlowTypeOK ==
  /\ low \subseteq Sensors
  /\ pulses_interrupt \in [Sensors -> 0..(CounterSize - 1)]
  /\ pulses_total \in [Sensors -> 0..(TotalSize - 1)]
  /\ attached \subseteq Sensors
  /\ latched \subseteq Sensors
  /\ counter \in Sensors
  /\ phase \in {"idle", "detach", "add", "clear", "attach"}
  /\ update_age \in 0..UpdateInterval

(* sensor_flow_init *)
SensorFlowInit ==
  /\ low = {}
  /\ pulses_interrupt = [s \in Sensors |-> 0]
  /\ pulses_total = [s \in Sensors |-> 0]
  /\ attached = Sensors
  /\ latched = {}
  /\ counter = 0
  /\ phase = "idle"
  /\ update_age = UpdateInterval
-----------------------------------------------------------------------------
(* sensor_flow_interrupt_0 to _4: one more, in sixteen bits.               *)
Counted(n) == IF n + 1 = CounterSize THEN 0 ELSE n + 1

Added(a, b) == IF a + b < TotalSize THEN a + b ELSE a + b - TotalSize

(* The line of sensor s falls, and rises again.                            *)
Edge(s) ==
  /\ s \notin low
  /\ low' = low \cup {s}
  /\ pulses_interrupt[s] < Burst
  /\ s \notin latched
  /\ IF s \in attached
     THEN pulses_interrupt' = [pulses_interrupt EXCEPT ![s] = Counted(@)]
          /\ UNCHANGED latched
     ELSE latched' = latched \cup {s} /\ UNCHANGED pulses_interrupt
  /\ UNCHANGED <<pulses_total, attached, counter, phase, update_age>>

Recover(s) ==
  /\ s \in low
  /\ low' = low \ {s}
  /\ UNCHANGED <<pulses_interrupt, pulses_total, attached, latched, counter,
                 phase, update_age>>

UpdateBegin ==
  /\ phase = "idle"
  /\ update_age >= UpdateInterval
  /\ phase' = "detach"
  /\ counter' = 0
  /\ UNCHANGED <<low, pulses_interrupt, pulses_total, attached, latched,
                 update_age>>

(* Mutant: the interrupt stays attached.                                   *)
Mutant_Detach ==
  /\ phase = "detach"
  /\ phase' = "add"
  /\ UNCHANGED <<low, pulses_interrupt, pulses_total, attached, latched, counter,
                 update_age>>

Detach ==
  /\ phase = "detach"
  /\ attached' = attached \ {counter}
  /\ phase' = "add"
  /\ UNCHANGED <<low, pulses_interrupt, pulses_total, latched, counter, update_age>>

AddCount ==
  /\ phase = "add"
  /\ pulses_total' =
       [pulses_total EXCEPT ![counter] = Added(@, pulses_interrupt[counter])]
  /\ phase' = "clear"
  /\ UNCHANGED <<low, pulses_interrupt, attached, latched, counter, update_age>>

ClearCount ==
  /\ phase = "clear"
  /\ pulses_interrupt' = [pulses_interrupt EXCEPT ![counter] = 0]
  /\ phase' = "attach"
  /\ UNCHANGED <<low, pulses_total, attached, latched, counter, update_age>>

(* The interrupt is attached, and runs at once for an edge kept; after the *)
(* last sensor the update is over.                                         *)
Attach ==
  /\ phase = "attach"
  /\ attached' = attached \cup {counter}
  /\ pulses_interrupt' =
       [pulses_interrupt EXCEPT ![counter] =
          IF counter \in latched THEN Counted(@) ELSE @]
  /\ latched' = latched \ {counter}
  /\ IF counter + 1 < SensorCount
     THEN counter' = counter + 1 /\ phase' = "detach" /\ UNCHANGED update_age
     ELSE phase' = "idle" /\ update_age' = 0 /\ UNCHANGED counter
  /\ UNCHANGED <<low, pulses_total>>

(* sensor_flow_pulses_total_set, control_flow_start and                    *)
(* control_irrigation_temp_start set a total, elsewhere in the loop; the   *)
(* count of the interrupt is left as it is.                                *)
TotalSet(s, v) ==
  /\ phase = "idle"
  /\ pulses_total' = [pulses_total EXCEPT ![s] = v]
  /\ UNCHANGED <<low, pulses_interrupt, attached, latched, counter, phase,
                 update_age>>

(* The console's command fa.                                               *)
TotalAdd(s, v) ==
  /\ phase = "idle"
  /\ pulses_total' = [pulses_total EXCEPT ![s] = Added(@, v)]
  /\ UNCHANGED <<low, pulses_interrupt, attached, latched, counter, phase,
                 update_age>>

SensorFlowTick ==
  /\ update_age < UpdateInterval
  /\ update_age' = update_age + 1
  /\ UNCHANGED <<low, pulses_interrupt, pulses_total, attached, latched,
                 counter, phase>>

SensorFlowNext ==
  \/ \E s \in Sensors :
       \/ Edge(s) \/ Recover(s)
       \/ \E v \in SetValues : TotalSet(s, v)
       \/ \E v \in AddValues : TotalAdd(s, v)
  \/ UpdateBegin \/ Detach \/ AddCount \/ ClearCount \/ Attach
  \/ SensorFlowTick

SensorFlowSpec == SensorFlowInit /\ [][SensorFlowNext]_flowSensorVars
-----------------------------------------------------------------------------
(* The pulses of a sensor not yet in its total.                            *)
Pending(s) ==
  (IF phase = "clear" /\ s = counter THEN 0 ELSE pulses_interrupt[s])
    + (IF s \in latched THEN 1 ELSE 0)

Promised == INSTANCE PulseCounter WITH
              count <- [s \in Sensors |-> Added(pulses_total[s], Pending(s))]

(* No pulse is lost and none counted twice, whatever statement of the      *)
(* update the interrupts come between and however the counters wrap: the   *)
(* sensors implement a counter of the real pulses.                         *)
CountsPulses == Promised!PulseSpec
=============================================================================
