----------------------- MODULE ControlIrrigationProofs -----------------------
(***************************************************************************)
(* What holds of the irrigation controller for every value of its          *)
(* constants: its type invariant, the order of generator and well pump,    *)
(* and the flag that makes RESUME act.                                     *)
(***************************************************************************)
EXTENDS ControlIrrigation, TLAPS

USE DeviceAssumption, ControlFlowAssumption, ControlIrrigationAssumption

(* The part of TypeOK that is the program's own.                           *)
ProgramTypeOK ==
  /\ program \in AllPrograms
  /\ program_current \in AllPrograms
  /\ is_cleaning \in BOOLEAN
  /\ is_stopped \in FaultStatuses
  /\ config \in ConfigRecords
  /\ is_faulty_detection_active \in BOOLEAN
  /\ time_cleaning_duration \in Age
  /\ time_program_start \in Age
  /\ time_program_stop \in Age
  /\ time_generator_start \in Age
-----------------------------------------------------------------------------
(* Ages are numbers, and grow into ages.                                   *)
LEMMA AgeFacts ==
  /\ 0 \in Age /\ AgeMax \in Age /\ BootAge \in Age
  /\ \A a \in Age : a \in Nat /\ Older(a) \in Age
BY DEF Age, Older, DeviceAssumption

(* The tables of control_flow_init.                                        *)
LEMMA FlowTables ==
  /\ FlowDevice \in [Flows -> Devices]
  /\ FlowSensor \in [Flows -> Sensors]
  /\ \A f \in Flows : FlowDevice[f] /= Generator
  /\ \A f \in Flows : FlowDevice[f] = PumpWell => f = WellFlow
BY DEF FlowDevice, FlowSensor, Flows, Devices, Sensors, Generator, PumpWell,
       ValveMicro, ValveMacro, ValveWater, Click, ValveGarden,
       WellFlow, MicroFlow, MacroFlow, WaterFlow, ClickFlow, GardenFlow

LEMMA DeviceTables ==
  /\ {Generator, PumpWell, PumpAcid, PumpSupplements, Click, ValveMicro,
      ValveMacro, ValveWater, ValveGroup1, ValveGroup2, ValveGroup3,
      ValveGarden} \subseteq Devices
  /\ Stamped \subseteq Devices
  /\ \A on \in BOOLEAN : Coil(on) \in Devices \cup {ClickOff}
BY DEF Devices, Stamped, Generator, PumpWell, PumpAcid, PumpSupplements, Click,
       ValveMicro, ValveMacro, ValveWater, ValveGroup1, ValveGroup2,
       ValveGroup3, ValveGarden, Coil, ClickOff

(* device_toggle on any devices keeps the types of the relay board.        *)
LEMMA ToggleType ==
  ASSUME DeviceTypeOK, NEW on \in SUBSET Devices, NEW off \in SUBSET Devices,
         Toggle(on, off)
  PROVE  DeviceTypeOK'
<1>1. device_active' \subseteq Devices
  BY DEF Toggle, DeviceTypeOK
<1>2. time_switch_last' \in [Stamped -> Age]
  BY AgeFacts DEF Toggle, DeviceTypeOK
<1>3. is_hold' \in BOOLEAN
  BY DEF Toggle, DeviceTypeOK
<1>4. time_switch_hold_last' \in Age
  BY AgeFacts DEF Toggle, DeviceTypeOK
<1>5. relay' \subseteq Devices \cup {ClickOff}
  <2>1. Coil(Click \in on) \in Devices \cup {ClickOff}
    BY DeviceTables DEF Coil
  <2>2. relay' \subseteq relay \cup on \cup {Coil(Click \in on)}
    BY Zenon DEF Toggle
  <2> QED BY <2>1, <2>2 DEF DeviceTypeOK
<1>6. latch' \in BOOLEAN
  <2>1. Pulsed \in BOOLEAN
    <3>1. (Click \in device_active) \in BOOLEAN /\ latch \in BOOLEAN
      BY DEF DeviceTypeOK
    <3>2. Pulsed = (Click \in device_active) \/ Pulsed = latch
      BY Zenon DEF Pulsed
    <3> QED BY <3>1, <3>2, Zenon
  <2>2. latch' = Pulsed \/ latch' = latch
    BY Zenon DEF Toggle
  <2> QED BY <2>1, <2>2, Zenon DEF DeviceTypeOK
<1> QED BY <1>1, <1>2, <1>3, <1>4, <1>5, <1>6 DEF DeviceTypeOK

(* The quantities a flow is started with are numbers.                      *)
LEMMA Products == \A a, b \in Nat : a * b \in Nat /\ (a * b) \div 1000 \in Nat
<1> SUFFICES ASSUME NEW a \in Nat, NEW b \in Nat
             PROVE  a * b \in Nat /\ (a * b) \div 1000 \in Nat
  OBVIOUS
<1>1. a * b \in Nat
  OBVIOUS
<1>2. \A p \in Nat : p \div 1000 \in Nat
  OBVIOUS
<1> QED BY <1>1, <1>2

LEMMA GardenSecondsNat == config \in ConfigRecords => GardenSeconds \in Nat
<1> SUFFICES ASSUME config \in ConfigRecords PROVE GardenSeconds \in Nat
  OBVIOUS
<1>1. config.program_duration \in Nat
  BY AgeFacts DEF ConfigRecords
<1>2. Second \in Nat \ {0}
  BY DEF ControlFlowAssumption
<1>3. \A a \in Nat : a \div Second \in Int
  BY <1>2
<1>4. \A a \in Int : a % 65536 \in Nat
  OBVIOUS
<1> QED BY <1>1, <1>3, <1>4 DEF GardenSeconds

LEMMA FlowsStartType ==
  ASSUME ControlFlowTypeOK, NEW F \in SUBSET Flows, NEW volume \in Nat,
         NEW seconds \in Nat, NEW cleared, FlowsStart(F, volume, seconds, cleared)
  PROVE  ControlFlowTypeOK'
<1>1. /\ flow_active' \subseteq Flows
      /\ flow_pause' \subseteq Flows
  BY DEF FlowsStart, ControlFlowTypeOK
<1>2. time_start' \in [Flows -> Age]
  BY AgeFacts DEF FlowsStart, ControlFlowTypeOK
<1>3. /\ time_to_deliver' \in [Flows -> Nat]
      /\ pulses_last' \in [Flows -> Nat]
      /\ pulses_total' \in [Sensors -> Nat]
  BY DEF FlowsStart, ControlFlowTypeOK
<1>4. pulses_to_deliver' \in [Flows -> Nat]
  <2>1. \A f \in Flows : PulsesPerLiter[FlowSensor[f]] \in Nat
    BY FlowTables DEF ControlFlowAssumption
  <2>2. \A f \in Flows : (PulsesPerLiter[FlowSensor[f]] * volume) \div 1000 \in Nat
    BY <2>1, Products
  <2> QED BY <2>2 DEF FlowsStart, ControlFlowTypeOK
<1>5. pressure_zero' \in BOOLEAN /\ fault_status' \in FaultStatuses /\ fault_time_last' \in Age
  BY AgeFacts DEF FlowsStart, ControlFlowTypeOK, FaultStatuses
<1> QED BY <1>1, <1>2, <1>3, <1>4, <1>5 DEF ControlFlowTypeOK
-----------------------------------------------------------------------------
(* The handlers of the relay board, the sensors and the flow control.      *)
LEMMA PulsedBool == DeviceTypeOK => Pulsed \in BOOLEAN
<1>1. DeviceTypeOK => (Click \in device_active) \in BOOLEAN /\ latch \in BOOLEAN
  BY DEF DeviceTypeOK
<1>2. Pulsed = (Click \in device_active) \/ Pulsed = latch
  BY Zenon DEF Pulsed
<1> QED BY <1>1, <1>2, Zenon

LEMMA DeviceUpdateType == DeviceTypeOK /\ DeviceUpdate => DeviceTypeOK'
<1> SUFFICES ASSUME DeviceTypeOK, DeviceUpdate PROVE DeviceTypeOK'
  OBVIOUS
<1>1. relay' \subseteq relay
  BY Zenon DEF DeviceUpdate
<1>2. latch' = Pulsed \/ latch' = latch
  BY Zenon DEF DeviceUpdate
<1>3. latch' \in BOOLEAN
  BY <1>2, PulsedBool, Zenon DEF DeviceTypeOK
<1>4. is_hold' \in BOOLEAN
  BY DEF DeviceUpdate
<1> QED BY <1>1, <1>3, <1>4 DEF DeviceUpdate, DeviceTypeOK

LEMMA DeviceTickType == DeviceTypeOK /\ DeviceTick => DeviceTypeOK'
BY AgeFacts DEF DeviceTypeOK, DeviceTick

LEMMA DeviceResetType == DeviceTypeOK /\ DeviceReset => DeviceTypeOK'
<1> SUFFICES ASSUME DeviceTypeOK, DeviceReset PROVE DeviceTypeOK'
  OBVIOUS
<1>1. latch' \in BOOLEAN
  BY PulsedBool, Zenon DEF DeviceReset
<1> QED BY <1>1, AgeFacts DEF DeviceReset, DeviceTypeOK

LEMMA SensorUpdateType ==
  DeviceTypeOK /\ ControlFlowTypeOK /\ SensorUpdate => DeviceTypeOK' /\ ControlFlowTypeOK'
<1> SUFFICES ASSUME DeviceTypeOK, ControlFlowTypeOK, SensorUpdate
             PROVE  DeviceTypeOK' /\ ControlFlowTypeOK'
  OBVIOUS
<1>1. DeviceTypeOK'
  BY DEF SensorUpdate, deviceVars, DeviceTypeOK
<1>2. pulses_total' \in [Sensors -> Nat]
  <2>1. PICK n \in [LiveSensors -> 0..PulsesStep] :
          pulses_total' = [s \in Sensors |->
            IF s \in LiveSensors /\ pulses_total[s] + n[s] <= PulsesMax
            THEN pulses_total[s] + n[s] ELSE pulses_total[s]]
    BY DEF SensorUpdate
  <2>2. \A s \in LiveSensors : n[s] \in Nat
    BY DEF ControlFlowAssumption
  <2> QED BY <2>1, <2>2 DEF ControlFlowTypeOK
<1>3. pressure_zero' \in BOOLEAN
  BY DEF SensorUpdate
<1> QED BY <1>1, <1>2, <1>3 DEF SensorUpdate, flowVars, ControlFlowTypeOK

LEMMA StoppedDevices == \A F \in SUBSET Flows : Stopped(F) \subseteq Devices
BY FlowTables, DeviceTables DEF Stopped

(* What control_flow_update switches.                                      *)
LEMMA FlowUpdateSwitches ==
  ASSUME ControlFlowTypeOK
  PROVE  /\ SwitchOn \cup PumpOn \cup WaterOn \subseteq Devices
         /\ OffInLoop \cup WaterOff \subseteq Devices
<1>1. Running \subseteq Flows /\ Finished \subseteq Flows /\ Paced \subseteq Flows
  BY DEF ControlFlowTypeOK, Running, Finished, Paced
<1>2. SwitchOn \subseteq Devices /\ SwitchOff \subseteq Devices
  BY <1>1, FlowTables DEF SwitchOn, SwitchOff
<1>3. OffInLoop \subseteq Devices
  BY <1>1, <1>2, StoppedDevices DEF OffInLoop
<1> QED BY <1>2, <1>3, DeviceTables DEF PumpOn, WaterOn, WaterOff

LEMMA FlowUpdateType ==
  DeviceTypeOK /\ ControlFlowTypeOK /\ FlowUpdate => DeviceTypeOK' /\ ControlFlowTypeOK'
<1> SUFFICES ASSUME DeviceTypeOK, ControlFlowTypeOK, FlowUpdate
             PROVE  DeviceTypeOK' /\ ControlFlowTypeOK'
  OBVIOUS
<1>1. DeviceTypeOK'
  BY FlowUpdateSwitches, ToggleType DEF FlowUpdate
<1>2. flow_active' \subseteq Flows /\ flow_pause' \subseteq Flows
  BY DEF FlowUpdate, FlowsAfterLoop, ControlFlowTypeOK
<1>3. fault_status' \in FaultStatuses
  BY DEF FlowUpdate, Verdict, ControlFlowTypeOK, FaultStatuses, Detections
<1>4. pulses_last' \in [Flows -> Nat]
  <2>1. \A f \in Flows : Total(f) \in Nat
    BY FlowTables DEF Total, ControlFlowTypeOK
  <2> QED BY <2>1 DEF FlowUpdate, ControlFlowTypeOK
<1>5. fault_time_last' \in Age
  BY AgeFacts DEF FlowUpdate, ControlFlowTypeOK
<1> QED BY <1>1, <1>2, <1>3, <1>4, <1>5 DEF FlowUpdate, sensorVars, ControlFlowTypeOK

LEMMA ConsoleType ==
  DeviceTypeOK /\ ControlFlowTypeOK /\ Console => DeviceTypeOK' /\ ControlFlowTypeOK'
<1> SUFFICES ASSUME DeviceTypeOK, ControlFlowTypeOK, NEW f \in ConsoleFlows,
                    \/ \E v \in ConsoleVolumes, t \in ConsoleTimes :
                         ConsoleFlowStart(f, v, t)
                    \/ ConsoleFlowStop(f)
                    \/ ConsoleFlowPause(f)
             PROVE  DeviceTypeOK' /\ ControlFlowTypeOK'
  BY DEF Console
<1>1. f \in Flows /\ {f} \in SUBSET Flows
  BY DEF ControlFlowAssumption
<1>2. CASE \E v \in ConsoleVolumes, t \in ConsoleTimes : ConsoleFlowStart(f, v, t)
  <2>1. PICK v \in ConsoleVolumes, t \in ConsoleTimes : ConsoleFlowStart(f, v, t)
    BY <1>2
  <2>2. v \in Nat /\ t \in Nat
    BY DEF ControlFlowAssumption
  <2>3. ControlFlowTypeOK'
    BY <1>1, <2>1, <2>2, FlowsStartType DEF ConsoleFlowStart
  <2>4. DeviceTypeOK'
    BY <2>1 DEF ConsoleFlowStart, deviceVars, DeviceTypeOK
  <2> QED BY <2>3, <2>4
<1>3. CASE ConsoleFlowStop(f)
  <2>1. DeviceTypeOK'
    BY <1>1, <1>3, StoppedDevices, ToggleType DEF ConsoleFlowStop
  <2>2. ControlFlowTypeOK'
    BY <1>3 DEF ConsoleFlowStop, sensorVars, ControlFlowTypeOK
  <2> QED BY <2>1, <2>2
<1>4. CASE ConsoleFlowPause(f)
  <2>1. CASE f = WellFlow
    BY <1>1, <1>4, <2>1, AgeFacts
    DEF ConsoleFlowPause, deviceVars, sensorVars, DeviceTypeOK, ControlFlowTypeOK
  <2>2. CASE f /= WellFlow
    <3>1. DeviceTypeOK'
      BY <1>1, <1>4, <2>2, FlowTables, ToggleType DEF ConsoleFlowPause
    <3>2. ControlFlowTypeOK'
      BY <1>1, <1>4, <2>2 DEF ConsoleFlowPause, sensorVars, ControlFlowTypeOK
    <3> QED BY <3>1, <3>2
  <2> QED BY <2>1, <2>2
<1> QED BY <1>2, <1>3, <1>4

LEMMA FlowTickType == ControlFlowTypeOK /\ FlowTick => ControlFlowTypeOK'
<1> SUFFICES ASSUME ControlFlowTypeOK, FlowTick PROVE ControlFlowTypeOK'
  OBVIOUS
<1>1. time_start' \in [Flows -> Age] /\ fault_time_last' \in Age
  BY AgeFacts DEF ControlFlowTypeOK, FlowTick
<1> QED BY <1>1 DEF ControlFlowTypeOK, FlowTick, sensorVars

LEMMA FlowResetType == FlowReset => ControlFlowTypeOK'
BY AgeFacts DEF ControlFlowTypeOK, FlowReset, FaultStatuses
-----------------------------------------------------------------------------
(* The handlers of the programs.                                           *)
(* What the handlers toggle are devices.                                   *)
LEMMA OpensDevices ==
  /\ \A p : Opens(p) \subseteq {PumpAcid, ValveGroup1, ValveGroup2, ValveGroup3}
  /\ \A p : Opens(p) \subseteq Devices
BY DeviceTables DEF Opens

LEMMA ConfigTypes ==
  config \in ConfigRecords =>
    /\ config.deliver_volume \in Nat /\ config.deliver_time \in Nat
    /\ config.group3_duration \in Age /\ config.group12_duration \in Age
BY DEF ConfigRecords

LEMMA BeginType ==
  ASSUME DeviceTypeOK, ControlFlowTypeOK, ProgramTypeOK,
         NEW prog \in AllPrograms, NEW current \in AllPrograms,
         NEW cleaning \in BOOLEAN, NEW on \in SUBSET Devices,
         NEW off \in SUBSET Devices, Begin(prog, current, cleaning, on, off)
  PROVE  DeviceTypeOK' /\ ControlFlowTypeOK' /\ ProgramTypeOK'
<1>1. DeviceTypeOK'
  BY OpensDevices, ToggleType DEF Begin
<1>2. ControlFlowTypeOK'
  <2>1. CASE Doses(current)
    <3>1. FlowsStart({MicroFlow, MacroFlow}, config.deliver_volume,
                     config.deliver_time, {FlowSensor[WaterFlow]})
      BY <2>1 DEF Begin, Doses, GroupPrograms
    <3>2. {MicroFlow, MacroFlow} \in SUBSET Flows
      BY DEF MicroFlow, MacroFlow, Flows
    <3> QED BY <3>1, <3>2, ConfigTypes, FlowsStartType DEF ProgramTypeOK
  <2>2. CASE ~Doses(current) /\ current = "GARDEN"
    <3>1. FlowsStart({GardenFlow}, 0, GardenSeconds, {})
      BY <2>2 DEF Begin
    <3>2. {GardenFlow} \in SUBSET Flows /\ 0 \in Nat
      BY DEF GardenFlow, Flows
    <3> QED BY <3>1, <3>2, GardenSecondsNat, FlowsStartType DEF ProgramTypeOK
  <2>3. CASE ~Doses(current) /\ current /= "GARDEN"
    <3>1. UNCHANGED <<flowVars, sensorVars>>
      BY <2>3 DEF Begin
    <3> QED BY <3>1 DEF flowVars, sensorVars, ControlFlowTypeOK
  <2> QED BY <2>1, <2>2, <2>3
<1>3. ProgramTypeOK'
  BY AgeFacts, ConfigTypes DEF Begin, ProgramTypeOK, FaultStatuses
<1> QED BY <1>1, <1>2, <1>3

LEMMA WarmUpType ==
  ASSUME DeviceTypeOK, ControlFlowTypeOK, WarmUp
  PROVE  /\ DeviceTypeOK' /\ ControlFlowTypeOK'
         /\ status' \in Statuses /\ time_generator_start' \in Age
<1>1. DeviceTypeOK'
  BY DeviceTables, ToggleType DEF WarmUp
<1>2. ControlFlowTypeOK'
  BY DEF WarmUp, flowVars, sensorVars, ControlFlowTypeOK
<1> QED BY <1>1, <1>2, AgeFacts DEF WarmUp, Statuses

LEMMA ForceStopType ==
  TypeOK /\ ForceStop /\ step' \in Steps => TypeOK'
<1> SUFFICES ASSUME TypeOK, ForceStop, step' \in Steps PROVE TypeOK'
  OBVIOUS
<1>1. DeviceTypeOK'
  BY ToggleType DEF ForceStop, TypeOK
<1>2. ControlFlowTypeOK'
  BY DEF ForceStop, sensorVars, TypeOK, ControlFlowTypeOK
<1>3. is_stopped' \in FaultStatuses
  BY DEF ForceStop, TypeOK, ControlFlowTypeOK, FaultStatuses
<1>4. ProgramTypeOK' /\ status' \in Statuses
  BY <1>3 DEF ForceStop, TypeOK, ProgramTypeOK, Statuses
<1> QED BY <1>1, <1>2, <1>4 DEF TypeOK, ProgramTypeOK

LEMMA ContinueType ==
  ASSUME DeviceTypeOK, ControlFlowTypeOK, ProgramTypeOK,
         NEW on \in SUBSET Devices, Continue(on)
  PROVE  DeviceTypeOK' /\ ControlFlowTypeOK' /\ ProgramTypeOK'
<1>1. DeviceTypeOK'
  BY OpensDevices, ToggleType DEF Continue
<1>2. ResumedAge \in Age
  BY AgeFacts DEF ResumedAge, ProgramTypeOK
<1>3. ResumedFlows \subseteq Flows
  BY DEF ResumedFlows, MicroFlow, MacroFlow, GardenFlow, Flows
<1>4. ControlFlowTypeOK'
  <2>1. fault_status' \in FaultStatuses /\ fault_time_last' \in Age
    BY AgeFacts DEF Continue, ControlFlowTypeOK, FaultStatuses
  <2>2. time_start' \in [Flows -> Age] /\ flow_active' \subseteq Flows
    BY <1>2, <1>3 DEF Continue, ControlFlowTypeOK
  <2> QED BY <2>1, <2>2 DEF Continue, sensorVars, ControlFlowTypeOK
<1>5. ProgramTypeOK'
  BY <1>2, ConfigTypes DEF Continue, ProgramTypeOK, FaultStatuses
<1> QED BY <1>1, <1>4, <1>5

LEMMA FinishType ==
  ASSUME TypeOK, NEW off \in SUBSET Devices, Finish(off),
         time_cleaning_duration' \in Age, step' \in Steps
  PROVE  TypeOK'
<1>1. DeviceTypeOK'
  BY DeviceTables, ToggleType DEF Finish, TypeOK
<1>2. ControlFlowTypeOK'
  BY DEF Finish, flowVars, sensorVars, TypeOK, ControlFlowTypeOK
<1>3. time_generator_start' \in Age /\ status' \in Statuses
  BY AgeFacts DEF Finish, Statuses
<1> QED BY <1>1, <1>2, <1>3 DEF Finish, TypeOK

LEMMA BeginKeepsType ==
  ASSUME TypeOK, NEW prog \in AllPrograms, NEW current \in AllPrograms,
         NEW cleaning \in BOOLEAN, NEW on \in SUBSET Devices,
         NEW off \in SUBSET Devices, Begin(prog, current, cleaning, on, off),
         status' \in Statuses, step' \in Steps
  PROVE  TypeOK'
<1>1. DeviceTypeOK /\ ControlFlowTypeOK /\ ProgramTypeOK
  BY DEF TypeOK, ProgramTypeOK
<1>2. DeviceTypeOK' /\ ControlFlowTypeOK' /\ ProgramTypeOK'
  BY <1>1, BeginType
<1> QED BY <1>2 DEF TypeOK, ProgramTypeOK

LEMMA ContinueKeepsType ==
  ASSUME TypeOK, NEW on \in SUBSET Devices, Continue(on),
         status' \in Statuses, step' \in Steps
  PROVE  TypeOK'
<1>1. DeviceTypeOK /\ ControlFlowTypeOK /\ ProgramTypeOK
  BY DEF TypeOK, ProgramTypeOK
<1>2. DeviceTypeOK' /\ ControlFlowTypeOK' /\ ProgramTypeOK'
  BY <1>1, ContinueType
<1> QED BY <1>2 DEF TypeOK, ProgramTypeOK

LEMMA FinishGroupsType ==
  ASSUME TypeOK, NEW off \in SUBSET Devices, FinishGroups(off), step' \in Steps
  PROVE  TypeOK'
<1>1. CASE is_cleaning
  <2>1. Begin("CLEANING", "CLEANING", TRUE, {}, off) /\ status' \in Statuses
    BY <1>1 DEF FinishGroups, TypeOK
  <2>2. "CLEANING" \in AllPrograms
    BY DEF AllPrograms
  <2> QED BY <2>1, <2>2, BeginKeepsType
<1>2. CASE ~is_cleaning
  BY <1>2, FinishType DEF FinishGroups, TypeOK
<1> QED BY <1>1, <1>2

LEMMA FirstStagePrograms == \A p \in AllPrograms : FirstStage(p) \in AllPrograms
BY DEF FirstStage, AllPrograms, GroupPrograms

LEMMA CleaningNextType ==
  ASSUME TypeOK, NEW on \in SUBSET Devices, NEW off \in SUBSET Devices,
         NEW duration \in Age, CleaningNext(on, off, duration), step' \in Steps
  PROVE  TypeOK'
<1>1. DeviceTypeOK'
  BY ToggleType DEF CleaningNext, TypeOK
<1>2. ControlFlowTypeOK'
  BY DEF CleaningNext, flowVars, sensorVars, TypeOK, ControlFlowTypeOK
<1> QED BY <1>1, <1>2, AgeFacts DEF CleaningNext, TypeOK

(* control_irrigation_temp_update keeps every type.                        *)
LEMMA ProgramUpdateType ==
  ASSUME TypeOK, ProgramUpdate, step' \in Steps
  PROVE  TypeOK'
<1>0. config.group3_duration \in Age /\ config.group12_duration \in Age
  BY ConfigTypes DEF TypeOK
<1>1. CASE PumpStart
  <2>1. status' \in Statuses
    BY <1>1 DEF PumpStart, Statuses
  <2>2. CASE is_stopped = "NOT_DETECTED"
    <3>1. Begin(program, FirstStage(program), is_cleaning, {PumpWell}, {})
      BY <1>1, <2>2 DEF PumpStart
    <3> QED BY <2>1, <3>1, FirstStagePrograms, DeviceTables, BeginKeepsType
            DEF TypeOK
  <2>3. CASE is_stopped /= "NOT_DETECTED"
    BY <1>1, <2>1, <2>3, DeviceTables, ContinueKeepsType DEF PumpStart
  <2> QED BY <2>2, <2>3
<1>2. CASE FaultStop
  BY <1>2, ForceStopType DEF FaultStop
<1>3. CASE GeneratorStop
  <2>1. DeviceTypeOK'
    BY <1>3, DeviceTables, ToggleType DEF GeneratorStop, TypeOK
  <2>2. ControlFlowTypeOK'
    BY <1>3 DEF GeneratorStop, flowVars, sensorVars, TypeOK, ControlFlowTypeOK
  <2> QED BY <1>3, <2>1, <2>2 DEF GeneratorStop, TypeOK, Statuses
<1>4. CASE Group1Over
  BY <1>4, DeviceTables, FinishGroupsType DEF Group1Over
<1>5. CASE Group2Over
  BY <1>5, DeviceTables, FinishGroupsType DEF Group2Over
<1>6. CASE BothFirstOver
  <2>1. Begin("BOTH", "GROUP_2", is_cleaning, {}, {ValveGroup1}) /\ status' \in Statuses
    BY <1>6 DEF BothFirstOver, TypeOK
  <2>2. "BOTH" \in AllPrograms /\ "GROUP_2" \in AllPrograms /\ is_cleaning \in BOOLEAN
    BY DEF AllPrograms, GroupPrograms, TypeOK
  <2> QED BY <2>1, <2>2, DeviceTables, BeginKeepsType
<1>7. CASE BothSecondOver
  BY <1>7, DeviceTables, FinishGroupsType DEF BothSecondOver
<1>8. CASE CleaningGroup1Over
  BY <1>8, DeviceTables, CleaningNextType DEF CleaningGroup1Over, TypeOK
<1>9. CASE CleaningGroup2Over
  BY <1>0, <1>9, DeviceTables, FinishType DEF CleaningGroup2Over
<1>10. CASE CleaningGroup3Over
  BY <1>0, <1>10, DeviceTables, CleaningNextType DEF CleaningGroup3Over
<1>11. CASE GardenOver
  BY <1>11, FinishType DEF GardenOver, TypeOK
<1>12. CASE NothingDue
  BY <1>12 DEF NothingDue, deviceVars, flowVars, sensorVars, programVars, TypeOK,
               DeviceTypeOK, ControlFlowTypeOK
<1> QED BY <1>1, <1>2, <1>3, <1>4, <1>5, <1>6, <1>7, <1>8, <1>9, <1>10, <1>11,
           <1>12 DEF ProgramUpdate

(* Every command keeps every type.                                         *)
LEMMA CommandType ==
  ASSUME TypeOK, NetworkCommand \/ SerialCommand, step' \in Steps
  PROVE  TypeOK'
<1>1. CASE StartCommand
  <2>1. PICK prog \in Programs, cleaning \in Cleanings : Start(prog, cleaning)
    BY <1>1 DEF StartCommand
  <2>2. prog \in AllPrograms /\ cleaning \in BOOLEAN
    BY DEF ControlIrrigationAssumption
  <2>3. CASE status = "READY"
    <3>1. Begin(prog, FirstStage(prog), cleaning, {}, {}) /\ status' = status
      BY <2>1, <2>3 DEF Start
    <3> QED BY <2>2, <3>1, FirstStagePrograms, BeginKeepsType DEF TypeOK
  <2>4. CASE status /= "READY"
    <3>1. WarmUp /\ DeviceTypeOK /\ ControlFlowTypeOK
      BY <2>1, <2>4 DEF Start, TypeOK
    <3>2. /\ DeviceTypeOK' /\ ControlFlowTypeOK'
          /\ status' \in Statuses /\ time_generator_start' \in Age
      BY <3>1, WarmUpType
    <3> QED BY <2>1, <2>2, <2>4, <3>1, <3>2, ConfigTypes
            DEF Start, WarmUp, TypeOK, FaultStatuses
  <2> QED BY <2>3, <2>4
<1>2. CASE StopCommand
  BY <1>2, ForceStopType DEF StopCommand
<1>3. CASE ResumeCommand
  <2>1. CASE status = "READY"
    BY <1>3, <2>1, ContinueKeepsType DEF ResumeCommand, Resume, TypeOK
  <2>2. CASE status /= "READY"
    <3>1. WarmUp /\ DeviceTypeOK /\ ControlFlowTypeOK
      BY <1>3, <2>2 DEF ResumeCommand, Resume, TypeOK
    <3>2. /\ DeviceTypeOK' /\ ControlFlowTypeOK'
          /\ status' \in Statuses /\ time_generator_start' \in Age
      BY <3>1, WarmUpType
    <3> QED BY <1>3, <2>2, <3>1, <3>2 DEF ResumeCommand, Resume, WarmUp, TypeOK
  <2> QED BY <2>1, <2>2
<1>4. CASE ToggleCommand
  <2>1. DeviceTypeOK'
    BY <1>4, ToggleType DEF ToggleCommand, DeviceToggle, TypeOK, DeviceAssumption
  <2> QED BY <1>4, <2>1 DEF ToggleCommand, flowVars, sensorVars, programVars,
                           TypeOK, ControlFlowTypeOK
<1>5. CASE ConfigureCommand
  <2>1. config' \in ConfigRecords
    BY <1>5 DEF ConfigureCommand, ControlIrrigationAssumption
  <2> QED BY <1>5, <2>1 DEF ConfigureCommand, deviceVars, flowVars, sensorVars,
                           TypeOK, DeviceTypeOK, ControlFlowTypeOK
<1>6. CASE DetectionCommand
  BY <1>6, AgeFacts DEF DetectionCommand, deviceVars, sensorVars, TypeOK,
     DeviceTypeOK, ControlFlowTypeOK, FaultStatuses, ControlIrrigationAssumption
<1>7. CASE NoCommand
  BY <1>7 DEF NoCommand, deviceVars, flowVars, sensorVars, programVars, TypeOK,
              DeviceTypeOK, ControlFlowTypeOK
<1>8. CASE Console /\ UNCHANGED programVars
  BY <1>8, ConsoleType DEF programVars, TypeOK
<1> QED BY <1>1, <1>2, <1>3, <1>4, <1>5, <1>6, <1>7, <1>8
        DEF NetworkCommand, SerialCommand

LEMMA TickType == TypeOK /\ Tick => TypeOK'
<1> SUFFICES ASSUME TypeOK, Tick PROVE TypeOK'
  OBVIOUS
<1>1. DeviceTypeOK' /\ ControlFlowTypeOK'
  BY DeviceTickType, FlowTickType DEF Tick, TypeOK
<1> QED BY <1>1, AgeFacts DEF Tick, TypeOK

LEMMA ResetType == TypeOK /\ Reset => TypeOK'
<1> SUFFICES ASSUME TypeOK, Reset PROVE TypeOK'
  OBVIOUS
<1>1. DeviceTypeOK' /\ ControlFlowTypeOK'
  BY DeviceResetType, FlowResetType DEF Reset, TypeOK
<1>2. DefaultConfig \in ConfigRecords
  BY DEF ControlIrrigationAssumption
<1> QED BY <1>1, <1>2, AgeFacts
        DEF Reset, TypeOK, AllPrograms, GroupPrograms, Statuses, FaultStatuses, Steps

LEMMA LoopType == TypeOK /\ Loop => TypeOK'
<1> SUFFICES ASSUME TypeOK, Loop PROVE TypeOK'
  OBVIOUS
<1>1. step' \in Steps
  BY DEF Loop, At, Steps
<1>2. CASE At("device", "sensor") /\ DeviceUpdate
             /\ UNCHANGED <<flowVars, sensorVars, programVars>>
  BY <1>1, <1>2, DeviceUpdateType
  DEF flowVars, sensorVars, programVars, TypeOK, ControlFlowTypeOK
<1>3. CASE At("sensor", "flow") /\ SensorUpdate /\ UNCHANGED programVars
  BY <1>1, <1>3, SensorUpdateType DEF programVars, TypeOK
<1>4. CASE At("flow", "irrigation") /\ FlowUpdate /\ UNCHANGED programVars
  BY <1>1, <1>4, FlowUpdateType DEF programVars, TypeOK
<1>5. CASE At("irrigation", "network") /\ ProgramUpdate
  BY <1>1, <1>5, ProgramUpdateType
<1>6. CASE \/ At("network", "serial") /\ NetworkCommand
           \/ At("serial", "device") /\ SerialCommand
  BY <1>1, <1>6, CommandType
<1> QED BY <1>2, <1>3, <1>4, <1>5, <1>6 DEF Loop

LEMMA InitType == Init => TypeOK
<1>1. DefaultConfig \in ConfigRecords
  BY DEF ControlIrrigationAssumption
<1>2. DeviceInit => DeviceTypeOK
  BY AgeFacts DEF DeviceInit, DeviceTypeOK
<1>3. ControlFlowInit => ControlFlowTypeOK
  BY AgeFacts DEF ControlFlowInit, ControlFlowTypeOK, FaultStatuses
<1> QED BY <1>1, <1>2, <1>3, AgeFacts
        DEF Init, ProgramInit, TypeOK, AllPrograms, GroupPrograms, Statuses,
            FaultStatuses, Steps

LEMMA NextType == TypeOK /\ [Next]_vars => TypeOK'
<1>1. TypeOK /\ UNCHANGED vars => TypeOK'
  BY DEF vars, deviceVars, flowVars, sensorVars, programVars, TypeOK,
         DeviceTypeOK, ControlFlowTypeOK
<1> QED BY <1>1, LoopType, TickType, ResetType DEF Next

(* Every variable keeps the range of the variable it models, whatever is   *)
(* commanded, sensed or reset, and whatever the thresholds and settings.   *)
THEOREM TypeCorrect == Spec => []TypeOK
BY InitType, NextType, PTL DEF Spec
-----------------------------------------------------------------------------
(* The flag is_stopped.                                                    *)
LEMMA StoppedCommand ==
  ASSUME TypeOK, StoppedAtRest, NetworkCommand \/ SerialCommand
  PROVE  StoppedAtRest'
<1>1. CASE StartCommand
  BY <1>1 DEF StartCommand, Start, Begin, StoppedAtRest
<1>2. CASE StopCommand
  BY <1>2 DEF StopCommand, ForceStop, StoppedAtRest
<1>3. CASE ResumeCommand
  BY <1>3 DEF ResumeCommand, Resume, Continue, WarmUp, StoppedAtRest
<1>4. CASE ToggleCommand \/ ConfigureCommand \/ DetectionCommand \/ NoCommand
  BY <1>4 DEF ToggleCommand, ConfigureCommand, DetectionCommand, NoCommand,
              programVars, StoppedAtRest
<1>5. CASE Console /\ UNCHANGED programVars
  BY <1>5 DEF programVars, StoppedAtRest
<1> QED BY <1>1, <1>2, <1>3, <1>4, <1>5 DEF NetworkCommand, SerialCommand

LEMMA StoppedUpdate ==
  ASSUME TypeOK, StoppedAtRest, ProgramUpdate
  PROVE  StoppedAtRest'
<1>1. CASE PumpStart
  BY <1>1 DEF PumpStart, Begin, Continue, StoppedAtRest
<1>2. CASE FaultStop
  BY <1>2 DEF FaultStop, ForceStop, StoppedAtRest
<1>3. CASE GeneratorStop
  BY <1>3 DEF GeneratorStop, StoppedAtRest
<1>4. CASE Group1Over \/ Group2Over \/ BothSecondOver
  BY <1>4 DEF Group1Over, Group2Over, BothSecondOver, OnCourse, FinishGroups,
              Begin, Finish, StoppedAtRest
<1>5. CASE BothFirstOver
  BY <1>5 DEF BothFirstOver, Begin, StoppedAtRest
<1>6. CASE CleaningGroup1Over \/ CleaningGroup2Over \/ CleaningGroup3Over
  BY <1>6 DEF CleaningGroup1Over, CleaningGroup2Over, CleaningGroup3Over,
              CleaningNext, OnCourse, Finish, StoppedAtRest
<1>7. CASE GardenOver
  BY <1>7 DEF GardenOver, OnCourse, Finish, StoppedAtRest
<1>8. CASE NothingDue
  BY <1>8 DEF NothingDue, programVars, StoppedAtRest
<1> QED BY <1>1, <1>2, <1>3, <1>4, <1>5, <1>6, <1>7, <1>8 DEF ProgramUpdate

LEMMA StoppedNext == TypeOK /\ StoppedAtRest /\ [Next]_vars => StoppedAtRest'
<1> SUFFICES ASSUME TypeOK, StoppedAtRest, [Next]_vars PROVE StoppedAtRest'
  OBVIOUS
<1>1. CASE Loop
  BY <1>1, StoppedCommand, StoppedUpdate DEF Loop, programVars, StoppedAtRest
<1>2. CASE Tick
  BY <1>2 DEF Tick, StoppedAtRest
<1>3. CASE Reset
  BY <1>3 DEF Reset, StoppedAtRest
<1>4. CASE UNCHANGED vars
  BY <1>4 DEF vars, programVars, StoppedAtRest
<1> QED BY <1>1, <1>2, <1>3, <1>4 DEF Next

(* RESUME acts on a program at rest: no order of START, STOP, RESUME,      *)
(* faults and ends of stages leaves is_stopped set while a program runs.   *)
THEOREM StoppedAtRestHolds == Spec => []StoppedAtRest
<1>1. Init => StoppedAtRest
  BY DEF Init, ProgramInit, StoppedAtRest
<1> QED BY <1>1, InitType, NextType, StoppedNext, PTL DEF Spec
-----------------------------------------------------------------------------
(* Generator and well pump.  Both are left to the programs: no hand        *)
(* toggles them, and the well flow is not started on the console.          *)
LeftToPrograms ==
  /\ {Generator, PumpWell} \cap ManualDevices = {}
  /\ WellFlow \notin ConsoleFlows

(* PumpPower made inductive: the well flow never runs, and the stamp the   *)
(* status machine waits on is as old as the relay's own, the generator's   *)
(* while it warms up and the pump's while the generator runs on.           *)
PowerInv ==
  /\ PumpPower
  /\ WellFlow \notin flow_active
  /\ status = "PREPARING" => time_switch_last[Generator] = time_generator_start
  /\ status = "FINISHING" => time_switch_last[PumpWell] = time_generator_start

(* The two action properties, of one step.                                 *)
WarmStep ==
  PumpWell \notin device_active /\ PumpWell \in device_active' =>
    /\ Generator \in device_active
    /\ time_switch_last[Generator] >= config.generator_wait

UnloadedStep ==
  (Generator \in device_active /\ Generator \notin device_active') =>
    \/ ForceStop \/ Reset
    \/ /\ PumpWell \notin device_active
       /\ time_switch_last[PumpWell] >= config.generator_wait

PowerStep == PowerInv' /\ WarmStep /\ UnloadedStep

(* What most steps do: nothing about generator and pump.                   *)
PowerKept ==
  /\ (Generator \in device_active') = (Generator \in device_active)
  /\ (PumpWell \in device_active') = (PumpWell \in device_active)
  /\ time_switch_last'[Generator] = time_switch_last[Generator]
  /\ time_switch_last'[PumpWell] = time_switch_last[PumpWell]
  /\ status' = status
  /\ time_generator_start' = time_generator_start
  /\ WellFlow \notin flow_active'

LEMMA KeptIsPowerStep == PowerInv /\ PowerKept => PowerStep
BY DEF PowerInv, PumpPower, PowerKept, PowerStep, WarmStep, UnloadedStep

LEMMA PowerDevices ==
  /\ Generator \in Stamped /\ PumpWell \in Stamped /\ Generator /= PumpWell
  /\ {Generator, PumpWell} \cap
       {PumpAcid, PumpSupplements, ValveMicro, ValveMacro, ValveWater,
        ValveGarden, Click, ValveGroup1, ValveGroup2, ValveGroup3} = {}
  /\ \A p : {Generator, PumpWell} \cap Opens(p) = {}
BY DEF Stamped, Generator, PumpWell, PumpAcid, PumpSupplements, ValveMicro,
       ValveMacro, ValveWater, ValveGarden, Click, ValveGroup1, ValveGroup2,
       ValveGroup3, Opens

(* device_toggle of other devices leaves a device alone.                   *)
LEMMA ToggleKeeps ==
  ASSUME NEW on, NEW off, Toggle(on, off), NEW d \in Stamped, d \notin on \cup off
  PROVE  /\ (d \in device_active') = (d \in device_active)
         /\ time_switch_last'[d] = time_switch_last[d]
BY DEF Toggle

LEMMA ToggleOn ==
  ASSUME NEW on, NEW off, Toggle(on, off), NEW d \in Stamped, d \in on
  PROVE  d \in device_active' /\ time_switch_last'[d] = 0
BY DEF Toggle

LEMMA ToggleOff ==
  ASSUME NEW on, NEW off, Toggle(on, off), NEW d \in Stamped, d \in off, d \notin on
  PROVE  d \notin device_active' /\ time_switch_last'[d] = 0
BY DEF Toggle

(* The start of a stage in a running program.                              *)
LEMMA BeginFlows ==
  ASSUME NEW prog, NEW current, NEW cleaning, NEW on, NEW off,
         Begin(prog, current, cleaning, on, off), WellFlow \notin flow_active
  PROVE  WellFlow \notin flow_active' /\ time_generator_start' = time_generator_start
<1>1. CASE Doses(current)
  <2>1. FlowsStart({MicroFlow, MacroFlow}, config.deliver_volume,
                   config.deliver_time, {FlowSensor[WaterFlow]})
    BY <1>1 DEF Begin, Doses, GroupPrograms
  <2> QED BY <2>1 DEF FlowsStart, Begin, WellFlow, MicroFlow, MacroFlow
<1>2. CASE ~Doses(current) /\ current = "GARDEN"
  <2>1. FlowsStart({GardenFlow}, 0, GardenSeconds, {})
    BY <1>2 DEF Begin
  <2> QED BY <2>1 DEF FlowsStart, Begin, WellFlow, GardenFlow
<1>3. CASE ~Doses(current) /\ current /= "GARDEN"
  BY <1>3 DEF Begin, flowVars
<1> QED BY <1>1, <1>2, <1>3

LEMMA BeginKept ==
  ASSUME PowerInv, NEW prog, NEW current, NEW cleaning, NEW off,
         {Generator, PumpWell} \cap off = {},
         Begin(prog, current, cleaning, {}, off), status' = status
  PROVE  PowerStep
<1>1. Toggle({} \cup Opens(current), off)
  BY DEF Begin
<1>2. Generator \notin ({} \cup Opens(current)) \cup off
      /\ PumpWell \notin ({} \cup Opens(current)) \cup off
  BY PowerDevices
<1>3. /\ (Generator \in device_active') = (Generator \in device_active)
      /\ time_switch_last'[Generator] = time_switch_last[Generator]
  BY <1>1, <1>2, PowerDevices, ToggleKeeps
<1>4. /\ (PumpWell \in device_active') = (PumpWell \in device_active)
      /\ time_switch_last'[PumpWell] = time_switch_last[PumpWell]
  BY <1>1, <1>2, PowerDevices, ToggleKeeps
<1>5. PowerKept
  BY <1>3, <1>4, BeginFlows DEF PowerKept, PowerInv
<1> QED BY <1>5, KeptIsPowerStep

LEMMA ContinueFlows ==
  ASSUME NEW on, Continue(on), WellFlow \notin flow_active
  PROVE  WellFlow \notin flow_active' /\ time_generator_start' = time_generator_start
BY DEF Continue, ResumedFlows, WellFlow, MicroFlow, MacroFlow, GardenFlow

LEMMA WarmUpPower ==
  ASSUME TypeOK, PowerInv, status /= "READY", WarmUp
  PROVE  PowerStep
<1>1. Generator \in device_active' /\ time_switch_last'[Generator] = 0
  BY PowerDevices, ToggleOn DEF WarmUp
<1>2. PumpWell \notin device_active'
  <2>1. (PumpWell \in device_active') = (PumpWell \in device_active)
    BY PowerDevices, ToggleKeeps DEF WarmUp
  <2> QED BY <2>1 DEF PowerInv, PumpPower
<1>3. /\ status' = "PREPARING" /\ time_generator_start' = 0
      /\ flow_active' = flow_active
  BY DEF WarmUp, flowVars
<1> QED BY <1>1, <1>2, <1>3 DEF PowerStep, PowerInv, PumpPower, WarmStep, UnloadedStep

LEMMA ForceStopPower ==
  ASSUME TypeOK, PowerInv, ForceStop
  PROVE  PowerStep
<1>1. device_active' = {}
  BY DEF ForceStop, Toggle, TypeOK, DeviceTypeOK
<1>2. status' = "FINISHED" /\ WellFlow \notin flow_active'
  BY DEF ForceStop, PowerInv
<1> QED BY <1>1, <1>2 DEF PowerStep, PowerInv, PumpPower, WarmStep, UnloadedStep

(* The end of a program.                                                   *)
LEMMA FinishPower ==
  ASSUME TypeOK, PowerInv, status = "READY", NEW off,
         {Generator, PumpWell} \cap off = {}, Finish(off)
  PROVE  PowerStep
<1>1. Toggle({}, off \cup {PumpWell})
  BY DEF Finish
<1>2. PumpWell \notin device_active' /\ time_switch_last'[PumpWell] = 0
  BY <1>1, PowerDevices, ToggleOff
<1>3. (Generator \in device_active') = (Generator \in device_active)
  BY <1>1, PowerDevices, ToggleKeeps
<1>4. /\ status' = "FINISHING" /\ time_generator_start' = 0
      /\ flow_active' = flow_active
  BY DEF Finish, flowVars
<1> QED BY <1>2, <1>3, <1>4 DEF PowerStep, PowerInv, PumpPower, WarmStep, UnloadedStep

LEMMA FinishGroupsPower ==
  ASSUME TypeOK, PowerInv, status = "READY", NEW off,
         {Generator, PumpWell} \cap off = {}, FinishGroups(off)
  PROVE  PowerStep
<1>1. CASE is_cleaning
  BY <1>1, BeginKept DEF FinishGroups
<1>2. CASE ~is_cleaning
  BY <1>2, FinishPower DEF FinishGroups
<1> QED BY <1>1, <1>2

LEMMA CleaningNextPower ==
  ASSUME PowerInv, NEW on, NEW off, {Generator, PumpWell} \cap (on \cup off) = {},
         NEW duration, CleaningNext(on, off, duration)
  PROVE  PowerStep
<1>1. Toggle(on, off)
  BY DEF CleaningNext
<1>2. /\ (Generator \in device_active') = (Generator \in device_active)
      /\ time_switch_last'[Generator] = time_switch_last[Generator]
  BY <1>1, PowerDevices, ToggleKeeps
<1>3. /\ (PumpWell \in device_active') = (PumpWell \in device_active)
      /\ time_switch_last'[PumpWell] = time_switch_last[PumpWell]
  BY <1>1, PowerDevices, ToggleKeeps
<1>4. PowerKept
  BY <1>2, <1>3 DEF CleaningNext, flowVars, PowerKept, PowerInv
<1> QED BY <1>4, KeptIsPowerStep

LEMMA PumpStartPower ==
  ASSUME TypeOK, PowerInv, PumpStart
  PROVE  PowerStep
<1>1. PICK on : on \cap {Generator} = {} /\ PumpWell \in on /\ Toggle(on, {})
  <2>1. CASE is_stopped = "NOT_DETECTED"
    <3>1. Toggle({PumpWell} \cup Opens(FirstStage(program)), {})
      BY <2>1 DEF PumpStart, Begin
    <3> QED BY <3>1, PowerDevices
  <2>2. CASE is_stopped /= "NOT_DETECTED"
    <3>1. Toggle({PumpWell} \cup Opens(program_current), {})
      BY <2>2 DEF PumpStart, Continue
    <3> QED BY <3>1, PowerDevices
  <2> QED BY <2>1, <2>2
<1>2. PumpWell \in device_active'
  BY <1>1, PowerDevices, ToggleOn
<1>3. (Generator \in device_active') = (Generator \in device_active)
  BY <1>1, PowerDevices, ToggleKeeps
<1>4. WellFlow \notin flow_active'
  BY BeginFlows, ContinueFlows DEF PumpStart, PowerInv
<1>5. status = "PREPARING" /\ GeneratorWaited /\ status' = "READY"
  BY DEF PumpStart
<1> QED BY <1>2, <1>3, <1>4, <1>5
        DEF PowerStep, PowerInv, PumpPower, WarmStep, UnloadedStep, GeneratorWaited

LEMMA GeneratorStopPower ==
  ASSUME TypeOK, PowerInv, GeneratorStop
  PROVE  PowerStep
<1>1. Toggle({}, {Generator})
  BY DEF GeneratorStop
<1>2. Generator \notin device_active'
  BY <1>1, PowerDevices, ToggleOff
<1>3. (PumpWell \in device_active') = (PumpWell \in device_active)
  BY <1>1, PowerDevices, ToggleKeeps
<1>4. /\ status = "FINISHING" /\ GeneratorWaited /\ status' = "FINISHED"
      /\ flow_active' = flow_active
  BY DEF GeneratorStop, flowVars
<1> QED BY <1>2, <1>3, <1>4
        DEF PowerStep, PowerInv, PumpPower, WarmStep, UnloadedStep, GeneratorWaited

LEMMA UpdatePower ==
  ASSUME TypeOK, PowerInv, ProgramUpdate
  PROVE  PowerStep
<1>1. CASE FaultStop
  BY <1>1, ForceStopPower DEF FaultStop
<1>2. CASE Group1Over
  BY <1>2, PowerDevices, FinishGroupsPower DEF Group1Over, OnCourse
<1>3. CASE Group2Over
  BY <1>3, PowerDevices, FinishGroupsPower DEF Group2Over, OnCourse
<1>4. CASE BothFirstOver
  <2>1. /\ Begin("BOTH", "GROUP_2", is_cleaning, {}, {ValveGroup1})
        /\ status' = status
    BY <1>4 DEF BothFirstOver
  <2>2. {Generator, PumpWell} \cap {ValveGroup1} = {}
    BY PowerDevices
  <2> QED BY <2>1, <2>2, BeginKept
<1>5. CASE BothSecondOver
  BY <1>5, PowerDevices, FinishGroupsPower DEF BothSecondOver, OnCourse
<1>6. CASE CleaningGroup1Over
  BY <1>6, PowerDevices, CleaningNextPower DEF CleaningGroup1Over
<1>7. CASE CleaningGroup2Over
  BY <1>7, PowerDevices, FinishPower DEF CleaningGroup2Over, OnCourse
<1>8. CASE CleaningGroup3Over
  <2>1. CleaningNext({ValveGroup1}, {ValveGroup3}, config.group12_duration)
    BY <1>8 DEF CleaningGroup3Over
  <2> QED BY <2>1, PowerDevices, CleaningNextPower
<1>9. CASE GardenOver
  BY <1>9, FinishPower DEF GardenOver, OnCourse
<1>10. CASE NothingDue
  <2>1. PowerKept
    BY <1>10 DEF NothingDue, deviceVars, flowVars, programVars, PowerKept, PowerInv
  <2> QED BY <2>1, KeptIsPowerStep
<1> QED BY <1>1, <1>2, <1>3, <1>4, <1>5, <1>6, <1>7, <1>8, <1>9, <1>10,
           PumpStartPower, GeneratorStopPower DEF ProgramUpdate

(* The flow control never switches the generator, and the well pump only   *)
(* for the well flow.                                                      *)
LEMMA StoppedSpares ==
  ASSUME NEW F \in SUBSET Flows, WellFlow \notin F
  PROVE  {Generator, PumpWell} \cap Stopped(F) = {}
<1>1. \A f \in F : FlowDevice[f] \notin {Generator, PumpWell}
  BY FlowTables
<1>2. Stopped(F) \subseteq {FlowDevice[f] : f \in F} \cup {PumpSupplements, ValveWater}
  BY DEF Stopped
<1> QED BY <1>1, <1>2, PowerDevices

LEMMA FlowUpdatePower ==
  ASSUME TypeOK, PowerInv, FlowUpdate, UNCHANGED programVars
  PROVE  PowerStep
<1>1. /\ Running \subseteq Flows /\ WellFlow \notin Running
      /\ Finished \subseteq Running /\ Paced \subseteq Running
  BY DEF TypeOK, ControlFlowTypeOK, PowerInv, Running, Finished, Paced
<1>2. {Generator, PumpWell} \cap (SwitchOn \cup SwitchOff) = {}
  BY <1>1, FlowTables DEF SwitchOn, SwitchOff
<1>3. {Generator, PumpWell} \cap OffInLoop = {}
  BY <1>1, <1>2, StoppedSpares DEF OffInLoop
<1>4. {Generator, PumpWell} \cap (PumpOn \cup WaterOn \cup WaterOff) = {}
  BY PowerDevices DEF PumpOn, WaterOn, WaterOff
<1>5. Toggle(SwitchOn \cup PumpOn \cup WaterOn, OffInLoop \cup WaterOff)
  BY DEF FlowUpdate
<1>6. /\ Generator \notin (SwitchOn \cup PumpOn \cup WaterOn) \cup (OffInLoop \cup WaterOff)
      /\ PumpWell \notin (SwitchOn \cup PumpOn \cup WaterOn) \cup (OffInLoop \cup WaterOff)
  BY <1>2, <1>3, <1>4
<1>7. /\ (Generator \in device_active') = (Generator \in device_active)
      /\ time_switch_last'[Generator] = time_switch_last[Generator]
  BY <1>5, <1>6, PowerDevices, ToggleKeeps
<1>8. /\ (PumpWell \in device_active') = (PumpWell \in device_active)
      /\ time_switch_last'[PumpWell] = time_switch_last[PumpWell]
  BY <1>5, <1>6, PowerDevices, ToggleKeeps
<1>9. WellFlow \notin flow_active'
  BY DEF FlowUpdate, FlowsAfterLoop, PowerInv
<1>10. PowerKept
  BY <1>7, <1>8, <1>9 DEF PowerKept, programVars
<1> QED BY <1>10, KeptIsPowerStep

LEMMA ConsolePower ==
  ASSUME LeftToPrograms, TypeOK, PowerInv, Console, UNCHANGED programVars
  PROVE  PowerStep
<1>1. PICK f \in ConsoleFlows :
        \/ \E v \in ConsoleVolumes, t \in ConsoleTimes : ConsoleFlowStart(f, v, t)
        \/ ConsoleFlowStop(f)
        \/ ConsoleFlowPause(f)
  BY DEF Console
<1>2. f \in Flows /\ f /= WellFlow
  BY DEF LeftToPrograms, ControlFlowAssumption
<1>3. CASE \E v \in ConsoleVolumes, t \in ConsoleTimes : ConsoleFlowStart(f, v, t)
  <2>1. PowerKept
    BY <1>2, <1>3 DEF ConsoleFlowStart, FlowsStart, deviceVars, programVars,
                      PowerKept, PowerInv
  <2> QED BY <2>1, KeptIsPowerStep
<1>4. CASE ConsoleFlowStop(f) \/ ConsoleFlowPause(f)
  <2>1. PICK off : {Generator, PumpWell} \cap off = {} /\ Toggle({}, off)
    <3>1. CASE ConsoleFlowStop(f)
      BY <1>2, <3>1, StoppedSpares DEF ConsoleFlowStop
    <3>2. CASE ConsoleFlowPause(f)
      BY <1>2, <3>2, FlowTables DEF ConsoleFlowPause
    <3> QED BY <1>4, <3>1, <3>2
  <2>2. /\ (Generator \in device_active') = (Generator \in device_active)
        /\ time_switch_last'[Generator] = time_switch_last[Generator]
    BY <2>1, PowerDevices, ToggleKeeps
  <2>3. /\ (PumpWell \in device_active') = (PumpWell \in device_active)
        /\ time_switch_last'[PumpWell] = time_switch_last[PumpWell]
    BY <2>1, PowerDevices, ToggleKeeps
  <2>4. flow_active' \subseteq flow_active
    BY <1>2, <1>4 DEF ConsoleFlowStop, ConsoleFlowPause
  <2>5. PowerKept
    BY <2>2, <2>3, <2>4 DEF programVars, PowerKept, PowerInv
  <2> QED BY <2>5, KeptIsPowerStep
<1> QED BY <1>1, <1>3, <1>4

LEMMA CommandPower ==
  ASSUME LeftToPrograms, TypeOK, PowerInv, NetworkCommand \/ SerialCommand
  PROVE  PowerStep
<1>1. CASE StartCommand
  <2>1. PICK prog \in Programs, cleaning \in Cleanings : Start(prog, cleaning)
    BY <1>1 DEF StartCommand
  <2>2. CASE status = "READY"
    <3>1. Begin(prog, FirstStage(prog), cleaning, {}, {}) /\ status' = status
      BY <2>1, <2>2 DEF Start
    <3> QED BY <3>1, BeginKept
  <2>3. CASE status /= "READY"
    BY <2>1, <2>3, WarmUpPower DEF Start
  <2> QED BY <2>2, <2>3
<1>2. CASE StopCommand
  BY <1>2, ForceStopPower DEF StopCommand
<1>3. CASE ResumeCommand
  <2>1. CASE status = "READY"
    <3>1. Continue({}) /\ status' = status
      BY <1>3, <2>1 DEF ResumeCommand, Resume
    <3>2. Toggle({} \cup Opens(program_current), {})
      BY <3>1 DEF Continue
    <3>3. /\ (Generator \in device_active') = (Generator \in device_active)
          /\ time_switch_last'[Generator] = time_switch_last[Generator]
      BY <3>2, PowerDevices, ToggleKeeps
    <3>4. /\ (PumpWell \in device_active') = (PumpWell \in device_active)
          /\ time_switch_last'[PumpWell] = time_switch_last[PumpWell]
      BY <3>2, PowerDevices, ToggleKeeps
    <3>5. PowerKept
      BY <3>1, <3>3, <3>4, ContinueFlows DEF PowerKept, PowerInv
    <3> QED BY <3>5, KeptIsPowerStep
  <2>2. CASE status /= "READY"
    BY <1>3, <2>2, WarmUpPower DEF ResumeCommand, Resume
  <2> QED BY <2>1, <2>2
<1>4. CASE ToggleCommand
  <2>1. PICK d \in ManualDevices, on \in BOOLEAN : DeviceToggle(d, on)
    BY <1>4 DEF ToggleCommand
  <2>2. PICK on2, off2 : {Generator, PumpWell} \cap (on2 \cup off2) = {} /\ Toggle(on2, off2)
    BY <2>1 DEF LeftToPrograms, DeviceToggle
  <2>3. /\ (Generator \in device_active') = (Generator \in device_active)
        /\ time_switch_last'[Generator] = time_switch_last[Generator]
    BY <2>2, PowerDevices, ToggleKeeps
  <2>4. /\ (PumpWell \in device_active') = (PumpWell \in device_active)
        /\ time_switch_last'[PumpWell] = time_switch_last[PumpWell]
    BY <2>2, PowerDevices, ToggleKeeps
  <2>5. PowerKept
    BY <1>4, <2>3, <2>4 DEF ToggleCommand, flowVars, programVars, PowerKept, PowerInv
  <2> QED BY <2>5, KeptIsPowerStep
<1>5. CASE ConfigureCommand \/ DetectionCommand \/ NoCommand
  <2>1. PowerKept
    BY <1>5 DEF ConfigureCommand, DetectionCommand, NoCommand, deviceVars,
                flowVars, programVars, PowerKept, PowerInv
  <2> QED BY <2>1, KeptIsPowerStep
<1>6. CASE Console /\ UNCHANGED programVars
  BY <1>6, ConsolePower
<1> QED BY <1>1, <1>2, <1>3, <1>4, <1>5, <1>6 DEF NetworkCommand, SerialCommand

LEMMA PowerInit == Init => PowerInv
BY DEF Init, DeviceInit, ControlFlowInit, ProgramInit, PowerInv, PumpPower

LEMMA PowerNext ==
  ASSUME LeftToPrograms, TypeOK, PowerInv, [Next]_vars
  PROVE  PowerStep
<1>1. CASE Loop
  <2>1. CASE At("device", "sensor") /\ DeviceUpdate
               /\ UNCHANGED <<flowVars, sensorVars, programVars>>
    <3>1. PowerKept
      BY <2>1 DEF DeviceUpdate, flowVars, programVars, PowerKept, PowerInv
    <3> QED BY <3>1, KeptIsPowerStep
  <2>2. CASE At("sensor", "flow") /\ SensorUpdate /\ UNCHANGED programVars
    <3>1. PowerKept
      BY <2>2 DEF SensorUpdate, deviceVars, flowVars, programVars, PowerKept, PowerInv
    <3> QED BY <3>1, KeptIsPowerStep
  <2>3. CASE At("flow", "irrigation") /\ FlowUpdate /\ UNCHANGED programVars
    BY <2>3, FlowUpdatePower
  <2>4. CASE At("irrigation", "network") /\ ProgramUpdate
    BY <2>4, UpdatePower
  <2>5. CASE \/ At("network", "serial") /\ NetworkCommand
             \/ At("serial", "device") /\ SerialCommand
    BY <2>5, CommandPower
  <2> QED BY <1>1, <2>1, <2>2, <2>3, <2>4, <2>5 DEF Loop
<1>2. CASE Tick
  <2>1. /\ device_active' = device_active /\ status' = status
        /\ flow_active' = flow_active
    BY <1>2 DEF Tick, DeviceTick, FlowTick
  <2>2. /\ time_switch_last'[Generator] = Older(time_switch_last[Generator])
        /\ time_switch_last'[PumpWell] = Older(time_switch_last[PumpWell])
        /\ time_generator_start' = Older(time_generator_start)
    BY <1>2, PowerDevices DEF Tick, DeviceTick
  <2> QED BY <2>1, <2>2 DEF PowerStep, PowerInv, PumpPower, WarmStep, UnloadedStep
<1>3. CASE Reset
  BY <1>3 DEF Reset, DeviceReset, FlowReset, PowerStep, PowerInv, PumpPower,
              WarmStep, UnloadedStep
<1>4. CASE UNCHANGED vars
  <2>1. PowerKept
    BY <1>4 DEF vars, deviceVars, flowVars, programVars, PowerKept, PowerInv
  <2> QED BY <2>1, KeptIsPowerStep
<1> QED BY <1>1, <1>2, <1>3, <1>4 DEF Next

(* The generator runs exactly while a program is under way and the well    *)
(* pump exactly while one is ready, whatever is commanded, sensed or       *)
(* reset, in whatever order.                                               *)
THEOREM PumpPowerHolds ==
  ASSUME LeftToPrograms
  PROVE  Spec => []PumpPower
<1>1. TypeOK /\ PowerInv /\ [Next]_vars => PowerInv'
  BY PowerNext DEF PowerStep
<1>2. PowerInv => PumpPower
  BY DEF PowerInv
<1> QED BY <1>1, <1>2, InitType, NextType, PowerInit, PTL DEF Spec

(* The well pump is switched on only with the generator warm.              *)
THEOREM WarmBeforePumpHolds ==
  ASSUME LeftToPrograms
  PROVE  Spec => WarmBeforePump
<1>1. TypeOK /\ PowerInv /\ [Next]_vars => PowerInv' /\ WarmStep
  BY PowerNext DEF PowerStep
<1>2. TypeOK /\ PowerInv /\ [Next]_vars => [WarmStep]_vars
  BY <1>1
<1> QED BY <1>1, <1>2, InitType, NextType, PowerInit, PTL
        DEF Spec, WarmBeforePump, WarmStep

(* The generator is switched off only unloaded, but for stops, faults and  *)
(* resets.                                                                 *)
THEOREM UnloadedBeforeOffHolds ==
  ASSUME LeftToPrograms
  PROVE  Spec => UnloadedBeforeOff
<1>1. TypeOK /\ PowerInv /\ [Next]_vars => PowerInv' /\ UnloadedStep
  BY PowerNext DEF PowerStep
<1>2. TypeOK /\ PowerInv /\ [Next]_vars => [UnloadedStep]_vars
  BY <1>1
<1> QED BY <1>1, <1>2, InitType, NextType, PowerInit, PTL
        DEF Spec, UnloadedBeforeOff, UnloadedStep
=============================================================================
