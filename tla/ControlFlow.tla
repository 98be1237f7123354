---------------------------- MODULE ControlFlow ----------------------------
(***************************************************************************)
(* The flow control (control_flow.cpp): six flows, each metering liquid    *)
(* through one device by the pulses of one flow sensor, until a volume is  *)
(* delivered or a time has passed; and the detection of faulty flow.  The  *)
(* sensors (sensor_flow.cpp, sensor_pressure.cpp) bring any pulses and any *)
(* pressure: SensorUpdate is their two update functions.                   *)
(***************************************************************************)
EXTENDS Device

CONSTANTS Second,         \* ticks per second
          PulsesPerLiter, \* pulses_per_liter of each sensor
          PulsesStep,     \* most pulses one sensor update brings (a bound)
          PulsesMax,      \* where pulses_total stops growing (a bound)
          FaultInterval,  \* CONTROL_FLOW_FAULTY_DETECTION_TIME_INTERVAL
          FaultMinimum,   \* CONTROL_FLOW_FAULTY_DETECTION_MINIMUM_PULSES
          FaultMaximum,   \* CONTROL_FLOW_FAULTY_DETECTION_MAXIMUM_PULSES
          LiveSensors,    \* the flow sensors that may see pulses
          PressureFails,  \* TRUE when the water pressure may be zero
          ConsoleFlows,   \* flows started, stopped and paused by hand
          ConsoleVolumes, \* volumes (ml) asked of them
          ConsoleTimes    \* times (s) asked of them

(* The indices of control_flow_array and sensor_flow_array.                *)
WellFlow   == 0
MicroFlow  == 1
MacroFlow  == 2
WaterFlow  == 3
ClickFlow  == 4
GardenFlow == 5
Flows      == 0..5
Sensors    == 0..4

(* The flows that share the supplements pump.                              *)
SupplementFlows == {MicroFlow, MacroFlow, WaterFlow}

FlowDevice == [f \in Flows |->
  CASE f = WellFlow   -> PumpWell
    [] f = MicroFlow  -> ValveMicro
    [] f = MacroFlow  -> ValveMacro
    [] f = WaterFlow  -> ValveWater
    [] f = ClickFlow  -> Click
    [] f = GardenFlow -> ValveGarden]

FlowSensor == [f \in Flows |-> IF f = GardenFlow THEN 0 ELSE f]

Detections == {"FLOW_LESS", "FLOW_MORE", "PRESSURE_ZERO"}
FaultStatuses == {"NOT_DETECTED", "STOPPED_BY_USER"} \cup Detections

ASSUME ControlFlowAssumption ==
  /\ Second \in Nat \ {0}
  /\ PulsesPerLiter \in [Sensors -> Nat]
  /\ PulsesStep \in Nat /\ PulsesMax \in Nat
  /\ FaultInterval \in 0..(AgeMax - 1)
  /\ FaultMinimum \in Nat /\ FaultMaximum \in Nat
  /\ LiveSensors \subseteq Sensors
  /\ PressureFails \in BOOLEAN
  /\ ConsoleFlows \subseteq Flows
  /\ ConsoleVolumes \subseteq Nat
  /\ ConsoleTimes \subseteq Nat

VARIABLES flow_active,       \* the flows whose is_active is TRUE
          flow_pause,        \* the flows whose is_pause is TRUE
          time_start,        \* ages
          time_to_deliver,   \* seconds; 0 for no limit
          pulses_to_deliver, \* 0 for no limit
          pulses_last,
          pulses_total,      \* of the sensors
          pressure_zero,     \* sensor_pressure_array[2].pressure == 0
          fault_status,      \* control_flow_faulty_detection_status
          fault_time_last    \* age of control_flow_faulty_detection_time_last

flowVars == <<flow_active, flow_pause, time_start, time_to_deliver,
              pulses_to_deliver, pulses_last, fault_status, fault_time_last>>
sensorVars == <<pulses_total, pressure_zero>>

ControlFlowTypeOK ==
  /\ flow_active \subseteq Flows
  /\ flow_pause \subseteq Flows
  /\ time_start \in [Flows -> Age]
  /\ time_to_deliver \in [Flows -> Nat]
  /\ pulses_to_deliver \in [Flows -> Nat]
  /\ pulses_last \in [Flows -> Nat]
  /\ pulses_total \in [Sensors -> Nat]
  /\ pressure_zero \in BOOLEAN
  /\ fault_status \in FaultStatuses
  /\ fault_time_last \in Age

(* control_flow_init, sensor_flow_init and sensor_pressure_init; the       *)
(* pressures are zero until the first sensor_pressure_update.              *)
ControlFlowInit ==
  /\ flow_active = {}
  /\ flow_pause = {}
  /\ time_start = [f \in Flows |-> BootAge]
  /\ time_to_deliver = [f \in Flows |-> 0]
  /\ pulses_to_deliver = [f \in Flows |-> 0]
  /\ pulses_last = [f \in Flows |-> 0]
  /\ pulses_total = [s \in Sensors |-> 0]
  /\ pressure_zero = TRUE
  /\ fault_status = "NOT_DETECTED"
  /\ fault_time_last = BootAge
-----------------------------------------------------------------------------
(* Mutant: the supplements pump is forgotten.                              *)
Mutant_Stopped(F) == {FlowDevice[f] : f \in F}

(* What Toggle needs of control_flow_stop: each flow of F switches its     *)
(* device off, and the last of the supplement flows to stop takes the      *)
(* supplements pump and the water valve with it.                           *)
Stopped(F) ==
  {FlowDevice[f] : f \in F}
    \cup IF F \cap SupplementFlows /= {}
              /\ (flow_active \ F) \cap SupplementFlows = {}
         THEN {PumpSupplements, ValveWater} ELSE {}

(* control_flow_start of each flow of F; alsoCleared are further sensors   *)
(* whose total the caller resets.                                          *)
FlowsStart(F, volume, seconds, alsoCleared) ==
  /\ flow_active' = flow_active \cup F
  /\ flow_pause' = flow_pause \ F
  /\ time_start' = [f \in Flows |-> IF f \in F THEN 0 ELSE time_start[f]]
  /\ time_to_deliver' =
       [f \in Flows |-> IF f \in F THEN seconds ELSE time_to_deliver[f]]
  /\ pulses_to_deliver' =
       [f \in Flows |-> IF f \in F
                        THEN (PulsesPerLiter[FlowSensor[f]] * volume) \div 1000
                        ELSE pulses_to_deliver[f]]
  /\ pulses_last' = [f \in Flows |-> IF f \in F THEN 0 ELSE pulses_last[f]]
  /\ pulses_total' =
       [s \in Sensors |-> IF s \in alsoCleared \cup {FlowSensor[f] : f \in F}
                          THEN 0 ELSE pulses_total[s]]
  /\ fault_status' = "NOT_DETECTED"
  /\ fault_time_last' = 0
  /\ UNCHANGED pressure_zero

(* sensor_flow_update and sensor_pressure_update.                          *)
SensorUpdate ==
  /\ \E n \in [LiveSensors -> 0..PulsesStep] :
       pulses_total' = [s \in Sensors |->
         IF s \in LiveSensors /\ pulses_total[s] + n[s] <= PulsesMax
         THEN pulses_total[s] + n[s] ELSE pulses_total[s]]
  /\ pressure_zero' \in (IF PressureFails THEN BOOLEAN ELSE {FALSE})
  /\ UNCHANGED <<deviceVars, flowVars>>
-----------------------------------------------------------------------------
(* control_flow_update, its loop over the flows.                           *)
Running == flow_active \ flow_pause
Total(f) == pulses_total[FlowSensor[f]]

VolumeDelivered(f) == pulses_to_deliver[f] > 0 /\ Total(f) >= pulses_to_deliver[f]
TimePassed(f) ==
  time_to_deliver[f] > 0 /\ time_start[f] >= time_to_deliver[f] * Second
(* Mutant: the time limit is forgotten.                                    *)
Mutant_Finished == {f \in Running : VolumeDelivered(f)}
Finished == {f \in Running : VolumeDelivered(f) \/ TimePassed(f)}

(* A flow without both limits is always on; one with both is on while it   *)
(* is behind an even delivery of the volume over the time.                 *)
WantsOn(f) ==
  \/ pulses_to_deliver[f] = 0
  \/ time_to_deliver[f] = 0
  \/ pulses_to_deliver[f] * time_start[f] > Total(f) * time_to_deliver[f] * Second

Paced == {f \in Running \ Finished : MinimumPassed(FlowDevice[f])}
SwitchOn == {FlowDevice[f] : f \in {g \in Paced : WantsOn(g)}} \ device_active
SwitchOff == {FlowDevice[f] : f \in {g \in Paced : ~WantsOn(g)}} \cap device_active

(* The devices and flows as the loop leaves them, for the rules below it.  *)
OffInLoop == SwitchOff \cup Stopped(Finished)
ActiveAfterLoop == (device_active \ OffInLoop) \cup SwitchOn
FlowsAfterLoop == flow_active \ Finished
MayToggle(d) == d \notin SwitchOn \cup OffInLoop /\ MinimumPassed(d)

PumpOn ==
  {d \in {PumpSupplements} :
     /\ FlowsAfterLoop \cap SupplementFlows /= {}
     /\ d \notin ActiveAfterLoop /\ MayToggle(d)}

(* Water flushes the pump while neither the micro nor the macro valve is   *)
(* open.                                                                   *)
BothValvesShut == {ValveMicro, ValveMacro} \cap ActiveAfterLoop = {}
(* Mutant: && instead of ||.                                               *)
Mutant_DosingAfterLoop == {MicroFlow, MacroFlow} \subseteq FlowsAfterLoop
DosingAfterLoop == {MicroFlow, MacroFlow} \cap FlowsAfterLoop /= {}

WaterOn ==
  {d \in {ValveWater} : DosingAfterLoop /\ BothValvesShut
                        /\ d \notin ActiveAfterLoop /\ MayToggle(d)}
WaterOff ==
  {d \in {ValveWater} : DosingAfterLoop /\ ~BothValvesShut
                        /\ WaterFlow \notin FlowsAfterLoop
                        /\ d \in ActiveAfterLoop /\ MayToggle(d)}

(* Faulty flow detection, after the loop.  The unsigned difference of a    *)
(* total reset below pulses_last wraps far above the maximum.  Of several  *)
(* verdicts the last written wins: zero pressure, then the highest flow.   *)
CheckDue == fault_time_last > FaultInterval
Checked == Running \ Finished
(* Mutant: <= instead of <.                                                *)
Mutant_Less(f) ==
  Total(f) >= pulses_last[f] /\ Total(f) - pulses_last[f] <= FaultMinimum
Less(f) == Total(f) >= pulses_last[f] /\ Total(f) - pulses_last[f] < FaultMinimum
More(f) == \/ Total(f) < pulses_last[f]
           \/ Total(f) - pulses_last[f] > FaultMaximum
Abnormal == {f \in Checked \ {GardenFlow} : Less(f) \/ More(f)}
LastAbnormal == CHOOSE f \in Abnormal : \A g \in Abnormal : g <= f

Verdict ==
  IF Checked /= {} /\ pressure_zero THEN "PRESSURE_ZERO"
  ELSE IF Abnormal = {} THEN fault_status
  ELSE IF Less(LastAbnormal) THEN "FLOW_LESS" ELSE "FLOW_MORE"

FlowUpdate ==
  /\ Toggle(SwitchOn \cup PumpOn \cup WaterOn, OffInLoop \cup WaterOff)
  /\ flow_active' = FlowsAfterLoop
  /\ flow_pause' = flow_pause \ Finished
  /\ IF CheckDue
     THEN /\ fault_status' = Verdict
          /\ pulses_last' = [f \in Flows |-> IF f \in Checked \ {GardenFlow}
                                             THEN Total(f) ELSE pulses_last[f]]
          /\ fault_time_last' = 0
     ELSE UNCHANGED <<fault_status, pulses_last, fault_time_last>>
  /\ UNCHANGED <<time_start, time_to_deliver, pulses_to_deliver, sensorVars>>
-----------------------------------------------------------------------------
(* The serial console (interface_serial.cpp, commands cfa, cfs and cfp).   *)
ConsoleFlowStart(f, volume, seconds) ==
  /\ FlowsStart({f}, volume, seconds, {})
  /\ UNCHANGED deviceVars

ConsoleFlowStop(f) ==
  /\ Toggle({}, Stopped({f}))
  /\ flow_active' = flow_active \ {f}
  /\ flow_pause' = flow_pause \ {f}
  /\ UNCHANGED <<time_start, time_to_deliver, pulses_to_deliver, pulses_last,
                 fault_status, fault_time_last, sensorVars>>

(* The console assigns its second digit both to the flow and to is_pause:  *)
(* any flow but the well flow can only be paused, and the well flow only   *)
(* resumed, without a pause before.  Its time_pause is then still zero, so *)
(* time_start moves into the future and reads as an age beyond every limit.*)
ConsoleFlowPause(f) ==
  IF f = WellFlow
  THEN /\ time_start' = [time_start EXCEPT ![f] = AgeMax]
       /\ flow_pause' = flow_pause \ {f}
       /\ UNCHANGED <<deviceVars, flow_active, time_to_deliver, pulses_last,
                      pulses_to_deliver, fault_status, fault_time_last, sensorVars>>
  ELSE /\ Toggle({}, {FlowDevice[f]})
       /\ flow_pause' = flow_pause \cup {f}
       /\ UNCHANGED <<flow_active, time_start, time_to_deliver, pulses_to_deliver,
                      pulses_last, fault_status, fault_time_last, sensorVars>>

Console ==
  \E f \in ConsoleFlows :
    \/ \E v \in ConsoleVolumes, t \in ConsoleTimes : ConsoleFlowStart(f, v, t)
    \/ ConsoleFlowStop(f)
    \/ ConsoleFlowPause(f)

FlowTick ==
  /\ time_start' = [f \in Flows |-> Older(time_start[f])]
  /\ fault_time_last' = Older(fault_time_last)
  /\ UNCHANGED <<flow_active, flow_pause, time_to_deliver, pulses_to_deliver,
                 pulses_last, fault_status, sensorVars>>

(* control_flow_init and the sensors' init after a reset.                  *)
FlowReset ==
  /\ flow_active' = {}
  /\ flow_pause' = {}
  /\ time_start' = [f \in Flows |-> BootAge]
  /\ time_to_deliver' = [f \in Flows |-> 0]
  /\ pulses_to_deliver' = [f \in Flows |-> 0]
  /\ pulses_last' = [f \in Flows |-> 0]
  /\ pulses_total' = [s \in Sensors |-> 0]
  /\ pressure_zero' = TRUE
  /\ fault_status' = "NOT_DETECTED"
  /\ fault_time_last' = BootAge
=============================================================================
