---------------------------- MODULE DeviceProofs ----------------------------
(***************************************************************************)
(* What the relays and the devices follow.  The relays follow the devices, *)
(* and the click pump its coils, for any switch times, any hold long       *)
(* enough for the pump, any devices toggled by hand and any resets.  The   *)
(* devices of the flow control follow its flows, whatever the programs and *)
(* the console do with them.                                               *)
(***************************************************************************)
EXTENDS ControlIrrigationProofs

(* RelaysFollow with the types it needs.                                   *)
RelayInv ==
  /\ device_active \subseteq Devices
  /\ is_hold \in BOOLEAN
  /\ time_switch_hold_last \in Age
  /\ RelaysFollow

LEMMA RelayInit == DeviceInit => RelayInv
BY DeviceAssumption DEF DeviceInit, RelayInv, RelaysFollow, Age, Click, Coil

(* The coils are no device's relay but their own.                          *)
LEMMA Coils ==
  /\ Click \in Devices /\ ClickOff \notin Devices /\ Click /= ClickOff
  /\ \A on \in BOOLEAN : Coil(on) \in {Click, ClickOff}
BY DEF Click, ClickOff, Devices, Coil

(* device_toggle, of any set of devices: the coil of an interrupted hold   *)
(* is let go before the other is energised.                                *)
LEMMA ToggleRelays ==
  ASSUME RelayInv, NEW on \in SUBSET Devices, NEW off \in SUBSET Devices,
         on \cap off = {}, Toggle(on, off)
  PROVE  RelayInv'
<1>1. device_active' \subseteq Devices
  BY DEF Toggle, RelayInv
<1>2. time_switch_hold_last' \in Age
  BY DeviceAssumption DEF Toggle, RelayInv, Age
<1>3. RelaysFollow'
  <2>1. CASE Click \notin on \cup off
    <3>1. relay' = (relay \ off) \cup on
      BY <2>1 DEF Toggle, Released
    <3>2. is_hold' = is_hold
      BY <2>1 DEF Toggle, RelayInv
    <3>3. /\ device_active' = (device_active \ off) \cup on
          /\ (Click \in device_active') = (Click \in device_active)
      BY <2>1 DEF Toggle
    <3> QED BY <2>1, <3>1, <3>2, <3>3, Coils DEF RelayInv, RelaysFollow, Coil
  <2>2. CASE Click \in on \cup off
    <3>1. /\ device_active' = (device_active \ off) \cup on
          /\ is_hold' = (is_hold \/ TRUE)
      BY <2>2 DEF Toggle
    <3>2. relay' = ((relay \ (off \ {Click})) \ Released(on, off))
                     \cup (on \ {Click}) \cup {Coil(Click \in on)}
      BY <2>2 DEF Toggle
    <3>3. relay \ Released(on, off) = device_active \ {Click}
      BY <2>2, Coils DEF RelayInv, RelaysFollow, Released, Coil
    <3>4. relay' = (((device_active \ {Click}) \ (off \ {Click}))
                     \cup (on \ {Click})) \cup {Coil(Click \in on)}
      BY <3>2, <3>3
    <3>5. (Click \in device_active') = (Click \in on)
      BY <2>2, <3>1
    <3> QED BY <3>1, <3>4, <3>5 DEF RelaysFollow, Coil
  <2> QED BY <2>1, <2>2
<1>4. is_hold' \in BOOLEAN
  BY DEF Toggle, RelayInv
<1> QED BY <1>1, <1>2, <1>3, <1>4 DEF RelayInv

LEMMA UpdateRelays ==
  ASSUME RelayInv, DeviceUpdate
  PROVE  RelayInv'
<1>1. device_active' = device_active /\ time_switch_hold_last' = time_switch_hold_last
  BY DEF DeviceUpdate
<1>2. CASE HoldOver
  <2>1. /\ relay' = relay \ {Coil(Click \in device_active)}
        /\ is_hold /\ ~is_hold' /\ is_hold' \in BOOLEAN
    BY <1>2 DEF DeviceUpdate, HoldOver
  <2> QED BY <1>1, <2>1, Coils DEF RelayInv, RelaysFollow, Coil
<1>3. CASE ~HoldOver
  BY <1>1, <1>3 DEF DeviceUpdate, RelayInv, RelaysFollow, Coil
<1> QED BY <1>2, <1>3

LEMMA RelayStill == RelayInv /\ (DeviceTick \/ UNCHANGED deviceVars) => RelayInv'
<1>1. RelayInv /\ DeviceTick => RelayInv'
  BY DeviceAssumption DEF DeviceTick, Older, RelayInv, RelaysFollow, Coil, Age
<1>2. RelayInv /\ UNCHANGED deviceVars => RelayInv'
  BY DEF deviceVars, RelayInv, RelaysFollow, Coil
<1> QED BY <1>1, <1>2

LEMMA RelayReset == DeviceReset => RelayInv'
BY DeviceAssumption DEF DeviceReset, RelayInv, RelaysFollow, Coil, Age, Click

LEMMA RelayNext == RelayInv /\ [DeviceNext]_deviceVars => RelayInv'
<1> SUFFICES ASSUME RelayInv, [DeviceNext]_deviceVars PROVE RelayInv'
  OBVIOUS
<1>1. CASE DeviceUpdate
  BY <1>1, UpdateRelays
<1>2. CASE DeviceTick \/ UNCHANGED deviceVars
  BY <1>2, RelayStill
<1>3. ASSUME NEW d \in ManualDevices, NEW on \in BOOLEAN, DeviceToggle(d, on)
      PROVE  RelayInv'
  <2>1. d \in Devices
    BY DeviceAssumption
  <2> QED BY <1>3, <2>1, ToggleRelays DEF DeviceToggle
<1>4. CASE DeviceReset
  BY <1>4, RelayReset
<1> QED BY <1>1, <1>2, <1>3, <1>4 DEF DeviceNext

(* However toggles, by hand or by the programs, interrupt the holds of the *)
(* click pump: its two coils are never both energised, none is outside a   *)
(* hold, and every other relay follows its device.                         *)
THEOREM RelaysFollowHolds == DeviceSpec => []RelaysFollow
<1>1. RelayInv => RelaysFollow
  BY DEF RelayInv
<1> QED BY <1>1, RelayInit, RelayNext, PTL DEF DeviceSpec

(* What a step may do to the agreement of pump and program.                *)
LatchStep ==
  \/ Agrees'
  \/ ~Agrees /\ latch' = latch /\ (Click \in device_active' <=> Click \in device_active)
  \/ DeviceReset

LEMMA ToggleAgrees ==
  ASSUME NEW on, NEW off, Toggle(on, off)
  PROVE  LatchStep
<1>1. CASE Click \in on \cup off
  BY <1>1 DEF Toggle, LatchStep, Agrees
<1>2. CASE Click \notin on \cup off
  BY <1>2 DEF Toggle, LatchStep, Agrees
<1> QED BY <1>1, <1>2

(* A hold that is over was long enough for the pump.                       *)
LEMMA HoldSwitches ==
  ASSUME RelayInv, HoldOver
  PROVE  Pulsed = (Click \in device_active)
BY DeviceAssumption DEF RelayInv, HoldOver, Pulsed, Age

LEMMA UpdateAgrees == RelayInv /\ DeviceUpdate => LatchStep
<1>1. RelayInv /\ DeviceUpdate /\ HoldOver => LatchStep
  BY HoldSwitches DEF DeviceUpdate, LatchStep, Agrees
<1>2. DeviceUpdate /\ ~HoldOver => LatchStep
  BY DEF DeviceUpdate, LatchStep, Agrees
<1> QED BY <1>1, <1>2

LEMMA LatchNext == RelayInv /\ [DeviceNext]_deviceVars => [LatchStep]_deviceVars
<1> SUFFICES ASSUME RelayInv, DeviceNext PROVE LatchStep
  OBVIOUS
<1>1. CASE DeviceUpdate
  BY <1>1, UpdateAgrees
<1>2. CASE DeviceTick
  BY <1>2 DEF DeviceTick, LatchStep, Agrees
<1>3. ASSUME NEW d \in ManualDevices, NEW on \in BOOLEAN, DeviceToggle(d, on)
      PROVE  LatchStep
  BY <1>3, ToggleAgrees DEF DeviceToggle
<1>4. CASE DeviceReset
  BY <1>4 DEF LatchStep
<1> QED BY <1>1, <1>2, <1>3, <1>4 DEF DeviceNext

(* The pump runs when the program believes it does; a restart alone, which *)
(* drives no coil, makes the two disagree.                                 *)
THEOREM LatchAgreesHolds == DeviceSpec => LatchAgrees
<1> QED BY LatchNext, RelayInit, RelayNext, PTL
        DEF DeviceSpec, LatchAgrees, LatchStep

(* Only a restart breaks the agreement, and it forgets what it left on.    *)
LEMMA LatchBelieved ==
  ASSUME BelievedRuns, is_hold \in BOOLEAN, LatchStep \/ UNCHANGED deviceVars
  PROVE  BelievedRuns'
<1>1. CASE Agrees'
  BY <1>1 DEF Agrees, BelievedRuns
<1>2. CASE /\ ~Agrees /\ latch' = latch
           /\ (Click \in device_active' <=> Click \in device_active)
  BY <1>2 DEF Agrees, BelievedRuns
<1>3. CASE DeviceReset
  BY <1>3 DEF DeviceReset, BelievedRuns
<1>4. CASE UNCHANGED deviceVars
  BY <1>4 DEF deviceVars, BelievedRuns
<1> QED BY <1>1, <1>2, <1>3, <1>4 DEF LatchStep

(* A click pump the program believes to run runs, whatever toggles         *)
(* interrupt each other and whenever the board restarts.                   *)
THEOREM BelievedRunsHolds == DeviceSpec => []BelievedRuns
<1>1. DeviceInit => BelievedRuns
  BY DEF DeviceInit, BelievedRuns
<1>2. RelayInv /\ BelievedRuns /\ [DeviceNext]_deviceVars => BelievedRuns'
  BY LatchNext, LatchBelieved DEF RelayInv
<1> QED BY <1>1, <1>2, RelayInit, RelayNext, PTL DEF DeviceSpec
-----------------------------------------------------------------------------
(* The devices of the flow control, none of them toggled by hand.           *)
ServedDevices ==
  {ValveMicro, ValveMacro, ValveWater, Click, ValveGarden, PumpSupplements}
LeftToFlows == ServedDevices \cap ManualDevices = {}

(* What most steps do: no device of the flow control comes on, and no flow *)
(* ends or is paused.                                                      *)
FlowsGo ==
  /\ device_active' \cap ServedDevices \subseteq device_active
  /\ Running \subseteq Running'
  /\ flow_active \subseteq flow_active'

LEMMA ServedByFlows ==
  /\ \A f \in {MicroFlow, MacroFlow, ClickFlow, GardenFlow} :
       /\ f \in Flows /\ FlowDevice[f] \in ServedDevices
       /\ FlowDevice[f] \notin {PumpSupplements, ValveWater}
       /\ \A g \in Flows : FlowDevice[g] = FlowDevice[f] => g = f
  /\ \A g \in Flows : FlowDevice[g] /= PumpSupplements
  /\ \A g \in Flows : FlowDevice[g] = ValveWater => g = WaterFlow
  /\ {PumpSupplements, ValveWater} \subseteq ServedDevices
  /\ WaterFlow \in SupplementFlows /\ {MicroFlow, MacroFlow} \subseteq SupplementFlows
BY DEF FlowDevice, Flows, ServedDevices, SupplementFlows, PumpWell,
       PumpSupplements, ValveMicro, ValveMacro, ValveWater, Click, ValveGarden,
       WellFlow, MicroFlow, MacroFlow, WaterFlow, ClickFlow, GardenFlow

LEMMA GoingFollows == FlowDevicesFollow /\ FlowsGo => FlowDevicesFollow'
<1> SUFFICES ASSUME FlowDevicesFollow, FlowsGo PROVE FlowDevicesFollow'
  OBVIOUS
<1>1. ASSUME NEW f \in {MicroFlow, MacroFlow, ClickFlow, GardenFlow},
             FlowDevice[f] \in device_active'
      PROVE  f \in Running'
  BY <1>1, ServedByFlows DEF FlowDevicesFollow, FlowsGo
<1>2. ASSUME {PumpSupplements, ValveWater} \cap device_active' /= {}
      PROVE  flow_active' \cap SupplementFlows /= {}
  BY <1>2, ServedByFlows DEF FlowDevicesFollow, FlowsGo
<1> QED BY <1>1, <1>2 DEF FlowDevicesFollow

LEMMA OtherDevices ==
  /\ {Generator, PumpWell, PumpAcid, ValveGroup1, ValveGroup2, ValveGroup3}
       \cap ServedDevices = {}
  /\ \A p : Opens(p) \cap ServedDevices = {}
BY DEF ServedDevices, Generator, PumpWell, PumpAcid, ValveGroup1, ValveGroup2,
       ValveGroup3, PumpSupplements, ValveMicro, ValveMacro, ValveWater, Click,
       ValveGarden, Opens

(* device_toggle of devices the flow control does not have.                *)
LEMMA ToggleOthers ==
  ASSUME NEW on, NEW off, Toggle(on, off), on \cap ServedDevices = {}
  PROVE  device_active' \cap ServedDevices \subseteq device_active
BY DEF Toggle

LEMMA StartGoes ==
  ASSUME NEW F, NEW volume, NEW seconds, NEW cleared,
         FlowsStart(F, volume, seconds, cleared)
  PROVE  Running \subseteq Running' /\ flow_active \subseteq flow_active'
BY DEF FlowsStart, Running

LEMMA BeginGoes ==
  ASSUME NEW prog, NEW current, NEW cleaning, NEW on, NEW off,
         on \cap ServedDevices = {}, Begin(prog, current, cleaning, on, off)
  PROVE  FlowsGo
<1>1. device_active' \cap ServedDevices \subseteq device_active
  BY OtherDevices, ToggleOthers DEF Begin
<1>2. Running \subseteq Running' /\ flow_active \subseteq flow_active'
  <2>1. CASE Doses(current)
    <3>1. FlowsStart({MicroFlow, MacroFlow}, config.deliver_volume,
                     config.deliver_time, {FlowSensor[WaterFlow]})
      BY <2>1 DEF Begin, Doses, GroupPrograms
    <3> QED BY <3>1, StartGoes
  <2>2. CASE ~Doses(current) /\ current = "GARDEN"
    <3>1. FlowsStart({GardenFlow}, 0, GardenSeconds, {})
      BY <2>2 DEF Begin
    <3> QED BY <3>1, StartGoes
  <2>3. CASE ~Doses(current) /\ current /= "GARDEN"
    BY <2>3 DEF Begin, flowVars, Running
  <2> QED BY <2>1, <2>2, <2>3
<1> QED BY <1>1, <1>2 DEF FlowsGo

LEMMA ContinueGoes ==
  ASSUME NEW on, on \cap ServedDevices = {}, Continue(on)
  PROVE  FlowsGo
<1>1. device_active' \cap ServedDevices \subseteq device_active
  BY OtherDevices, ToggleOthers DEF Continue
<1>2. Running \subseteq Running' /\ flow_active \subseteq flow_active'
  BY DEF Continue, Running
<1> QED BY <1>1, <1>2 DEF FlowsGo

LEMMA WarmUpGoes == WarmUp => FlowsGo
<1>1. WarmUp => device_active' \cap ServedDevices \subseteq device_active
  BY OtherDevices, ToggleOthers DEF WarmUp
<1> QED BY <1>1 DEF WarmUp, flowVars, FlowsGo, Running

LEMMA FinishGoes == ASSUME NEW off, Finish(off) PROVE FlowsGo
<1>1. device_active' \cap ServedDevices \subseteq device_active
  BY ToggleOthers DEF Finish
<1> QED BY <1>1 DEF Finish, flowVars, FlowsGo, Running

LEMMA FinishGroupsGoes == ASSUME NEW off, FinishGroups(off) PROVE FlowsGo
<1>1. CASE is_cleaning
  <2>1. Begin("CLEANING", "CLEANING", TRUE, {}, off)
    BY <1>1 DEF FinishGroups
  <2>2. {} \cap ServedDevices = {}
    OBVIOUS
  <2> QED BY <2>1, <2>2, BeginGoes
<1>2. CASE ~is_cleaning
  BY <1>2, FinishGoes DEF FinishGroups
<1> QED BY <1>1, <1>2

LEMMA CleaningNextGoes ==
  ASSUME NEW on, NEW off, NEW duration, on \cap ServedDevices = {},
         CleaningNext(on, off, duration)
  PROVE  FlowsGo
<1>1. device_active' \cap ServedDevices \subseteq device_active
  BY ToggleOthers DEF CleaningNext
<1> QED BY <1>1 DEF CleaningNext, flowVars, FlowsGo, Running

(* Everything off.                                                         *)
LEMMA NothingFollows == device_active' = {} => FlowDevicesFollow'
BY DEF FlowDevicesFollow

LEMMA ForceStopFollows == TypeOK /\ ForceStop => FlowDevicesFollow'
<1>1. TypeOK /\ ForceStop => device_active' = {}
  BY DEF ForceStop, Toggle, TypeOK, DeviceTypeOK
<1> QED BY <1>1, NothingFollows

(* control_flow_update: a device it leaves on is that of a flow that goes  *)
(* on, and the last supplement flow to end takes pump and water with it.   *)
LEMMA FlowUpdateFollows ==
  ASSUME TypeOK, FlowDevicesFollow, FlowUpdate
  PROVE  FlowDevicesFollow'
<1>1. /\ Running \subseteq Flows /\ Finished \subseteq Running
      /\ Paced \subseteq Running \ Finished
  BY DEF TypeOK, ControlFlowTypeOK, Running, Finished, Paced
<1>2. device_active' = (device_active \ (OffInLoop \cup WaterOff))
                          \cup (SwitchOn \cup PumpOn \cup WaterOn)
  BY DEF FlowUpdate, Toggle
<1>3. /\ flow_active' = flow_active \ Finished
      /\ flow_pause' = flow_pause \ Finished
  BY DEF FlowUpdate, FlowsAfterLoop
<1>4. Running' = Running \ Finished
  BY <1>1, <1>3 DEF Running
<1>5. ASSUME NEW d \in SwitchOn
      PROVE  \E g \in Running \ Finished : d = FlowDevice[g]
  BY <1>1 DEF SwitchOn
<1>6. ASSUME NEW f \in {MicroFlow, MacroFlow, ClickFlow, GardenFlow},
             FlowDevice[f] \in device_active'
      PROVE  f \in Running'
  <2>1. CASE FlowDevice[f] \in SwitchOn
    BY <1>1, <1>4, <1>5, <2>1, ServedByFlows
  <2>2. CASE FlowDevice[f] \notin SwitchOn
    <3>1. FlowDevice[f] \notin PumpOn \cup WaterOn
      BY ServedByFlows DEF PumpOn, WaterOn
    <3>2. FlowDevice[f] \in device_active /\ FlowDevice[f] \notin OffInLoop
      BY <1>2, <1>6, <2>2, <3>1
    <3>3. f \in Running
      BY <3>2 DEF FlowDevicesFollow
    <3>4. f \notin Finished
      BY <3>2 DEF OffInLoop, Stopped
    <3> QED BY <1>4, <3>3, <3>4
  <2> QED BY <2>1, <2>2
<1>7. ASSUME NEW d \in {PumpSupplements, ValveWater}, d \in device_active'
      PROVE  flow_active' \cap SupplementFlows /= {}
  <2>1. CASE d \in SwitchOn
    <3>1. PICK g \in Running \ Finished : d = FlowDevice[g]
      BY <1>5, <2>1
    <3>2. g = WaterFlow
      BY <1>1, <3>1, ServedByFlows
    <3> QED BY <1>3, <3>1, <3>2, ServedByFlows DEF Running
  <2>2. CASE d \in PumpOn \cup WaterOn
    BY <1>3, <2>2, ServedByFlows DEF PumpOn, WaterOn, DosingAfterLoop, FlowsAfterLoop
  <2>3. CASE d \notin SwitchOn \cup PumpOn \cup WaterOn
    <3>1. d \in device_active /\ d \notin Stopped(Finished)
      BY <1>2, <1>7, <2>3 DEF OffInLoop
    <3>2. flow_active \cap SupplementFlows /= {}
      BY <3>1 DEF FlowDevicesFollow
    <3>3. ~(/\ Finished \cap SupplementFlows /= {}
            /\ (flow_active \ Finished) \cap SupplementFlows = {})
      BY <3>1 DEF Stopped
    <3> QED BY <1>3, <3>2, <3>3
  <2> QED BY <2>1, <2>2, <2>3
<1> QED BY <1>6, <1>7 DEF FlowDevicesFollow

LEMMA ConsoleFollows ==
  ASSUME TypeOK, FlowDevicesFollow, Console
  PROVE  FlowDevicesFollow'
<1>1. PICK f \in ConsoleFlows :
        \/ \E v \in ConsoleVolumes, t \in ConsoleTimes : ConsoleFlowStart(f, v, t)
        \/ ConsoleFlowStop(f)
        \/ ConsoleFlowPause(f)
  BY DEF Console
<1>2. f \in Flows
  BY ControlFlowAssumption
<1>3. CASE \E v \in ConsoleVolumes, t \in ConsoleTimes : ConsoleFlowStart(f, v, t)
  <2>1. PICK v \in ConsoleVolumes, t \in ConsoleTimes : ConsoleFlowStart(f, v, t)
    BY <1>3
  <2>2. Running \subseteq Running' /\ flow_active \subseteq flow_active'
    BY <2>1, StartGoes DEF ConsoleFlowStart
  <2> QED BY <2>1, <2>2, GoingFollows DEF ConsoleFlowStart, deviceVars, FlowsGo
<1>4. CASE ConsoleFlowStop(f)
  <2>1. /\ device_active' = device_active \ Stopped({f})
        /\ flow_active' = flow_active \ {f} /\ flow_pause' = flow_pause \ {f}
    BY <1>4 DEF ConsoleFlowStop, Toggle
  <2>2. ASSUME NEW g \in {MicroFlow, MacroFlow, ClickFlow, GardenFlow},
               FlowDevice[g] \in device_active'
        PROVE  g \in Running'
    <3>1. g \in Running /\ FlowDevice[g] \notin Stopped({f})
      BY <2>1, <2>2 DEF FlowDevicesFollow
    <3>2. g /= f
      BY <3>1 DEF Stopped
    <3> QED BY <2>1, <3>1, <3>2 DEF Running
  <2>3. ASSUME NEW d \in {PumpSupplements, ValveWater}, d \in device_active'
        PROVE  flow_active' \cap SupplementFlows /= {}
    <3>1. d \in device_active /\ d \notin Stopped({f})
      BY <2>1, <2>3
    <3>2. flow_active \cap SupplementFlows /= {}
      BY <3>1 DEF FlowDevicesFollow
    <3>3. ~(/\ {f} \cap SupplementFlows /= {}
            /\ (flow_active \ {f}) \cap SupplementFlows = {})
      BY <3>1 DEF Stopped
    <3> QED BY <2>1, <3>2, <3>3
  <2> QED BY <2>2, <2>3 DEF FlowDevicesFollow
<1>5. CASE ConsoleFlowPause(f)
  <2>1. CASE f = WellFlow
    <3>1. FlowsGo
      BY <1>5, <2>1 DEF ConsoleFlowPause, deviceVars, FlowsGo, Running
    <3> QED BY <3>1, GoingFollows
  <2>2. CASE f /= WellFlow
    <3>1. /\ device_active' = device_active \ {FlowDevice[f]}
          /\ flow_active' = flow_active /\ flow_pause' = flow_pause \cup {f}
      BY <1>5, <2>2 DEF ConsoleFlowPause, Toggle
    <3>2. ASSUME NEW g \in {MicroFlow, MacroFlow, ClickFlow, GardenFlow},
                 FlowDevice[g] \in device_active'
          PROVE  g \in Running'
      BY <3>1, <3>2 DEF FlowDevicesFollow, Running
    <3>3. {PumpSupplements, ValveWater} \cap device_active' /= {} =>
            flow_active' \cap SupplementFlows /= {}
      BY <3>1 DEF FlowDevicesFollow
    <3> QED BY <3>2, <3>3 DEF FlowDevicesFollow
  <2> QED BY <2>1, <2>2
<1> QED BY <1>1, <1>3, <1>4, <1>5

LEMMA CommandFollows ==
  ASSUME LeftToFlows, TypeOK, FlowDevicesFollow, NetworkCommand \/ SerialCommand
  PROVE  FlowDevicesFollow'
<1>1. {} \cap ServedDevices = {}
  OBVIOUS
<1>2. CASE StartCommand
  <2>1. PICK prog \in Programs, cleaning \in Cleanings : Start(prog, cleaning)
    BY <1>2 DEF StartCommand
  <2>2. CASE status = "READY"
    <3>1. Begin(prog, FirstStage(prog), cleaning, {}, {})
      BY <2>1, <2>2 DEF Start
    <3> QED BY <1>1, <3>1, BeginGoes, GoingFollows
  <2>3. CASE status /= "READY"
    BY <2>1, <2>3, WarmUpGoes, GoingFollows DEF Start
  <2> QED BY <2>2, <2>3
<1>3. CASE StopCommand
  BY <1>3, ForceStopFollows DEF StopCommand
<1>4. CASE ResumeCommand
  <2>1. Continue({}) \/ WarmUp
    BY <1>4 DEF ResumeCommand, Resume
  <2> QED BY <1>1, <2>1, ContinueGoes, WarmUpGoes, GoingFollows
<1>5. CASE ToggleCommand
  <2>1. PICK d \in ManualDevices, on \in BOOLEAN : DeviceToggle(d, on)
    BY <1>5 DEF ToggleCommand
  <2>2. device_active' \cap ServedDevices \subseteq device_active
    BY <1>1, <2>1, ToggleOthers DEF LeftToFlows, DeviceToggle
  <2>3. FlowsGo
    BY <1>5, <2>2 DEF ToggleCommand, flowVars, FlowsGo, Running
  <2> QED BY <2>3, GoingFollows
<1>6. CASE ConfigureCommand \/ DetectionCommand \/ NoCommand
  <2>1. FlowsGo
    BY <1>6 DEF ConfigureCommand, DetectionCommand, NoCommand, deviceVars,
                flowVars, FlowsGo, Running
  <2> QED BY <2>1, GoingFollows
<1>7. CASE Console /\ UNCHANGED programVars
  BY <1>7, ConsoleFollows
<1> QED BY <1>2, <1>3, <1>4, <1>5, <1>6, <1>7 DEF NetworkCommand, SerialCommand

LEMMA ProgramFollows ==
  ASSUME TypeOK, FlowDevicesFollow, ProgramUpdate
  PROVE  FlowDevicesFollow'
<1>1. {} \cap ServedDevices = {}
  OBVIOUS
<1>2. CASE PumpStart
  <2>1. \/ Begin(program, FirstStage(program), is_cleaning, {PumpWell}, {})
        \/ Continue({PumpWell})
    BY <1>2 DEF PumpStart
  <2> QED BY <2>1, OtherDevices, BeginGoes, ContinueGoes, GoingFollows
<1>3. CASE FaultStop
  BY <1>3, ForceStopFollows DEF FaultStop
<1>4. CASE GeneratorStop
  <2>1. device_active' \cap ServedDevices \subseteq device_active
    BY <1>1, <1>4, ToggleOthers DEF GeneratorStop
  <2>2. FlowsGo
    BY <1>4, <2>1 DEF GeneratorStop, flowVars, FlowsGo, Running
  <2> QED BY <2>2, GoingFollows
<1>5. CASE Group1Over \/ Group2Over \/ BothSecondOver
  BY <1>5, FinishGroupsGoes, GoingFollows DEF Group1Over, Group2Over, BothSecondOver
<1>6. CASE BothFirstOver
  <2>1. Begin("BOTH", "GROUP_2", is_cleaning, {}, {ValveGroup1})
    BY <1>6 DEF BothFirstOver
  <2> QED BY <1>1, <2>1, BeginGoes, GoingFollows
<1>7. CASE CleaningGroup1Over
  BY <1>7, OtherDevices, CleaningNextGoes, GoingFollows DEF CleaningGroup1Over
<1>8. CASE CleaningGroup2Over
  BY <1>8, FinishGoes, GoingFollows DEF CleaningGroup2Over
<1>9. CASE CleaningGroup3Over
  BY <1>9, OtherDevices, CleaningNextGoes, GoingFollows DEF CleaningGroup3Over
<1>10. CASE GardenOver
  BY <1>10, FinishGoes, GoingFollows DEF GardenOver
<1>11. CASE NothingDue
  <2>1. FlowsGo
    BY <1>11 DEF NothingDue, deviceVars, flowVars, FlowsGo, Running
  <2> QED BY <2>1, GoingFollows
<1> QED BY <1>2, <1>3, <1>4, <1>5, <1>6, <1>7, <1>8, <1>9, <1>10, <1>11
        DEF ProgramUpdate

LEMMA FollowNext ==
  ASSUME LeftToFlows, TypeOK, FlowDevicesFollow, [Next]_vars
  PROVE  FlowDevicesFollow'
<1>1. CASE At("flow", "irrigation") /\ FlowUpdate /\ UNCHANGED programVars
  BY <1>1, FlowUpdateFollows
<1>2. CASE At("irrigation", "network") /\ ProgramUpdate
  BY <1>2, ProgramFollows
<1>3. CASE \/ At("network", "serial") /\ NetworkCommand
           \/ At("serial", "device") /\ SerialCommand
  BY <1>3, CommandFollows
<1>4. CASE \/ DeviceUpdate /\ UNCHANGED <<flowVars, sensorVars, programVars>>
           \/ SensorUpdate
           \/ Tick
           \/ UNCHANGED vars
  <2>1. FlowsGo
    BY <1>4 DEF DeviceUpdate, SensorUpdate, Tick, DeviceTick, FlowTick, vars,
                deviceVars, flowVars, FlowsGo, Running
  <2> QED BY <2>1, GoingFollows
<1>5. CASE Reset
  BY <1>5, NothingFollows DEF Reset, DeviceReset
<1> QED BY <1>1, <1>2, <1>3, <1>4, <1>5 DEF Next, Loop

(* Nothing doses but a flow that runs: whatever the programs and the       *)
(* console start, pause, stop, resume or reset, in whatever status, a      *)
(* device the flow control serves is on only while its flow is active and  *)
(* not paused, and the shared pump and water valve only while one of their *)
(* flows is active.                                                        *)
THEOREM FlowDevicesFollowHolds ==
  ASSUME LeftToFlows
  PROVE  Spec => []FlowDevicesFollow
<1>1. Init => FlowDevicesFollow
  BY DEF Init, DeviceInit, FlowDevicesFollow
<1>2. TypeOK /\ FlowDevicesFollow /\ [Next]_vars => FlowDevicesFollow'
  BY FollowNext
<1> QED BY <1>1, <1>2, InitType, NextType, PTL DEF Spec

(* control_flow_update leaves the supplements pump of a dosing program a   *)
(* way out: if micro and macro valve are shut and water is not let in now, *)
(* it is because its valve has only just been switched.                    *)
THEOREM WaterFlushesHolds == Spec => WaterFlushes
<1>1. ASSUME TypeOK, FlowUpdate
      PROVE  PumpFlows'
  <2> SUFFICES ASSUME {MicroFlow, MacroFlow} \cap flow_active' /= {},
                      {ValveMicro, ValveMacro, ValveWater} \cap device_active' = {}
               PROVE  ~MinimumPassed(ValveWater)'
    BY DEF PumpFlows
  <2>1. /\ ValveWater \in Stamped
        /\ ValveWater \notin PumpOn /\ {ValveMicro, ValveMacro} \cap (WaterOff \cup WaterOn \cup PumpOn) = {}
    BY DEF Stamped, PumpOn, WaterOff, WaterOn, ValveWater, ValveMicro, ValveMacro,
           PumpSupplements
  <2>2. /\ Toggle(SwitchOn \cup PumpOn \cup WaterOn, OffInLoop \cup WaterOff)
        /\ device_active' = (device_active \ (OffInLoop \cup WaterOff))
                               \cup (SwitchOn \cup PumpOn \cup WaterOn)
    BY <1>1 DEF FlowUpdate, Toggle
  <2>3. DosingAfterLoop /\ BothValvesShut
    <3>1. DosingAfterLoop
      BY <1>1 DEF FlowUpdate, DosingAfterLoop
    <3>2. ASSUME NEW d \in {ValveMicro, ValveMacro}
          PROVE  d \notin ActiveAfterLoop
      BY <2>1, <2>2 DEF ActiveAfterLoop
    <3> QED BY <3>1, <3>2 DEF BothValvesShut
  <2>4. ValveWater \notin SwitchOn \cup WaterOn /\ WaterOff = {}
    BY <2>2, <2>3 DEF WaterOff
  <2>5. SwitchMinimum[ValveWater] \in Nat \ {0}
    BY <2>1, DeviceAssumption DEF Age
  <2>6. CASE ValveWater \in OffInLoop
    <3>1. time_switch_last'[ValveWater] = 0
      BY <2>1, <2>2, <2>4, <2>6, ToggleOff
    <3> QED BY <2>5, <3>1 DEF MinimumPassed
  <2>7. CASE ValveWater \notin OffInLoop
    <3>1. ValveWater \notin ActiveAfterLoop
      BY <2>2, <2>4, <2>7 DEF ActiveAfterLoop
    <3>2. ~MinimumPassed(ValveWater)
      BY <2>3, <2>4, <2>7, <3>1 DEF WaterOn, MayToggle
    <3>3. time_switch_last'[ValveWater] = time_switch_last[ValveWater]
      BY <2>1, <2>2, <2>4, <2>7, ToggleKeeps
    <3> QED BY <3>2, <3>3 DEF MinimumPassed
  <2> QED BY <2>6, <2>7
<1>2. TypeOK /\ [Next]_vars => [At("flow", "irrigation") => PumpFlows']_vars
  <2> SUFFICES ASSUME TypeOK, Next, At("flow", "irrigation") PROVE PumpFlows'
    OBVIOUS
  <2>1. FlowUpdate
    BY DEF Next, Loop, At, Tick, Reset
  <2> QED BY <1>1, <2>1
<1> QED BY <1>2, InitType, NextType, PTL DEF Spec, WaterFlushes
-----------------------------------------------------------------------------
(* The same of the whole firmware: what each of its steps does to the      *)
(* relay board is one toggle of any devices, each one way.                 *)
TogglesOnce ==
  \E on, off \in SUBSET Devices : on \cap off = {} /\ Toggle(on, off)

LEMMA TogglingOnce ==
  ASSUME NEW on, NEW off, on \subseteq Devices, off \subseteq Devices,
         on \cap off = {}, Toggle(on, off)
  PROVE  TogglesOnce
BY DEF TogglesOnce

LEMMA StageDevices ==
  /\ Opens("GROUP_2") \cap {ValveGroup1} = {}
  /\ Opens("CLEANING") \cap {PumpAcid, ValveGroup1} = {}
  /\ Opens("CLEANING") \cap {PumpAcid, ValveGroup2} = {}
  /\ ValveGroup1 /= ValveGroup2 /\ ValveGroup1 /= ValveGroup3
BY DEF Opens, PumpAcid, ValveGroup1, ValveGroup2, ValveGroup3

LEMMA BeginToggles ==
  ASSUME NEW prog, NEW current, NEW cleaning, NEW on \in SUBSET Devices,
         NEW off \in SUBSET Devices, (on \cup Opens(current)) \cap off = {},
         Begin(prog, current, cleaning, on, off)
  PROVE  TogglesOnce
<1>1. Toggle(on \cup Opens(current), off)
  BY DEF Begin
<1> QED BY <1>1, OpensDevices, TogglingOnce

LEMMA ContinueToggles ==
  ASSUME NEW on \in SUBSET Devices, Continue(on)
  PROVE  TogglesOnce
<1>1. Toggle(on \cup Opens(program_current), {})
  BY DEF Continue
<1> QED BY <1>1, OpensDevices, TogglingOnce

LEMMA FinishGroupsToggles ==
  ASSUME NEW off \in SUBSET Devices, Opens("CLEANING") \cap off = {},
         FinishGroups(off)
  PROVE  TogglesOnce
<1>1. CASE is_cleaning
  <2>1. Begin("CLEANING", "CLEANING", TRUE, {}, off)
    BY <1>1 DEF FinishGroups
  <2>2. ({} \cup Opens("CLEANING")) \cap off = {} /\ {} \in SUBSET Devices
    OBVIOUS
  <2> QED BY <2>1, <2>2, BeginToggles
<1>2. CASE ~is_cleaning
  <2>1. Toggle({}, off \cup {PumpWell})
    BY <1>2 DEF FinishGroups, Finish
  <2> QED BY <2>1, DeviceTables, TogglingOnce
<1> QED BY <1>1, <1>2

LEMMA ProgramToggles ==
  ASSUME TypeOK, ProgramUpdate
  PROVE  TogglesOnce \/ UNCHANGED deviceVars
<1>1. CASE PumpStart
  <2>1. \/ Begin(program, FirstStage(program), is_cleaning, {PumpWell}, {})
        \/ Continue({PumpWell})
    BY <1>1 DEF PumpStart
  <2>2. {PumpWell} \in SUBSET Devices /\ {} \in SUBSET Devices
    BY DeviceTables
  <2>3. ({PumpWell} \cup Opens(FirstStage(program))) \cap {} = {}
    OBVIOUS
  <2> QED BY <2>1, <2>2, <2>3, BeginToggles, ContinueToggles
<1>2. CASE FaultStop
  BY <1>2, TogglingOnce DEF FaultStop, ForceStop
<1>3. CASE GeneratorStop
  BY <1>3, DeviceTables, TogglingOnce DEF GeneratorStop
<1>4. CASE Group1Over
  BY <1>4, DeviceTables, StageDevices, FinishGroupsToggles DEF Group1Over
<1>5. CASE Group2Over \/ BothSecondOver
  BY <1>5, DeviceTables, StageDevices, FinishGroupsToggles DEF Group2Over, BothSecondOver
<1>6. CASE BothFirstOver
  <2>1. Begin("BOTH", "GROUP_2", is_cleaning, {}, {ValveGroup1})
    BY <1>6 DEF BothFirstOver
  <2>2. /\ {} \in SUBSET Devices /\ {ValveGroup1} \in SUBSET Devices
        /\ ({} \cup Opens("GROUP_2")) \cap {ValveGroup1} = {}
    BY DeviceTables, StageDevices
  <2> QED BY <2>1, <2>2, BeginToggles
<1>7. CASE CleaningGroup1Over
  BY <1>7, DeviceTables, StageDevices, TogglingOnce DEF CleaningGroup1Over, CleaningNext
<1>8. CASE CleaningGroup2Over
  <2>1. Toggle({}, {ValveGroup2} \cup {PumpWell})
    BY <1>8 DEF CleaningGroup2Over, Finish
  <2> QED BY <2>1, DeviceTables, TogglingOnce
<1>9. CASE CleaningGroup3Over
  BY <1>9, DeviceTables, StageDevices, TogglingOnce DEF CleaningGroup3Over, CleaningNext
<1>10. CASE GardenOver
  <2>1. Toggle({}, {} \cup {PumpWell})
    BY <1>10 DEF GardenOver, Finish
  <2> QED BY <2>1, DeviceTables, TogglingOnce
<1>11. CASE NothingDue
  BY <1>11 DEF NothingDue
<1> QED BY <1>1, <1>2, <1>3, <1>4, <1>5, <1>6, <1>7, <1>8, <1>9, <1>10, <1>11
        DEF ProgramUpdate

LEMMA CommandToggles ==
  ASSUME TypeOK, NetworkCommand \/ SerialCommand
  PROVE  TogglesOnce \/ UNCHANGED deviceVars
<1>0. {} \in SUBSET Devices /\ {Generator} \subseteq Devices
  BY DeviceTables
<1>1. WarmUp => TogglesOnce
  BY <1>0, TogglingOnce DEF WarmUp
<1>2. CASE StartCommand
  <2>1. PICK prog \in Programs, cleaning \in Cleanings : Start(prog, cleaning)
    BY <1>2 DEF StartCommand
  <2>2. CASE status = "READY"
    <3>1. Begin(prog, FirstStage(prog), cleaning, {}, {})
      BY <2>1, <2>2 DEF Start
    <3>2. ({} \cup Opens(FirstStage(prog))) \cap {} = {}
      OBVIOUS
    <3> QED BY <1>0, <3>1, <3>2, BeginToggles
  <2>3. CASE status /= "READY"
    BY <1>1, <2>1, <2>3 DEF Start
  <2> QED BY <2>2, <2>3
<1>3. CASE StopCommand
  BY <1>3, TogglingOnce DEF StopCommand, ForceStop
<1>4. CASE ResumeCommand
  <2>1. Continue({}) \/ WarmUp
    BY <1>4 DEF ResumeCommand, Resume
  <2> QED BY <1>0, <1>1, <2>1, ContinueToggles
<1>5. CASE ToggleCommand
  <2>1. PICK d \in ManualDevices, on \in BOOLEAN : DeviceToggle(d, on)
    BY <1>5 DEF ToggleCommand
  <2>2. {d} \subseteq Devices
    BY DeviceAssumption
  <2> QED BY <1>0, <2>1, <2>2, TogglingOnce DEF DeviceToggle
<1>6. CASE ConfigureCommand \/ DetectionCommand \/ NoCommand
  BY <1>6 DEF ConfigureCommand, DetectionCommand, NoCommand
<1>7. CASE Console /\ UNCHANGED programVars
  <2>1. PICK f \in ConsoleFlows :
          \/ \E v \in ConsoleVolumes, t \in ConsoleTimes : ConsoleFlowStart(f, v, t)
          \/ ConsoleFlowStop(f)
          \/ ConsoleFlowPause(f)
    BY <1>7 DEF Console
  <2>2. f \in Flows /\ Stopped({f}) \subseteq Devices /\ {FlowDevice[f]} \subseteq Devices
    BY ControlFlowAssumption, FlowTables, StoppedDevices
  <2>3. CASE \E v \in ConsoleVolumes, t \in ConsoleTimes : ConsoleFlowStart(f, v, t)
    BY <2>3 DEF ConsoleFlowStart
  <2>4. CASE ConsoleFlowStop(f)
    BY <1>0, <2>2, <2>4, TogglingOnce DEF ConsoleFlowStop
  <2>5. CASE ConsoleFlowPause(f)
    BY <1>0, <2>2, <2>5, TogglingOnce DEF ConsoleFlowPause
  <2> QED BY <2>1, <2>3, <2>4, <2>5
<1> QED BY <1>2, <1>3, <1>4, <1>5, <1>6, <1>7 DEF NetworkCommand, SerialCommand

(* A device switched on in the loop of control_flow_update is not switched *)
(* off by the end of a flow in the same pass, nor by the rules after it.   *)
LEMMA FlowUpdateToggles ==
  ASSUME TypeOK, FlowUpdate
  PROVE  TogglesOnce
<1>1. /\ Running \subseteq Flows /\ Finished \subseteq Running
      /\ Paced \subseteq Running \ Finished
  BY DEF TypeOK, ControlFlowTypeOK, Running, Finished, Paced
<1>2. ASSUME NEW f \in Paced
      PROVE  FlowDevice[f] \notin Stopped(Finished)
  <2>1. \A g \in Flows : FlowDevice[g] = FlowDevice[f] => g = f
    BY <1>1 DEF FlowDevice, Flows, PumpWell, ValveMicro, ValveMacro, ValveWater,
       Click, ValveGarden, WellFlow, MicroFlow, MacroFlow, WaterFlow, ClickFlow,
       GardenFlow
  <2>2. FlowDevice[f] \notin {FlowDevice[g] : g \in Finished}
    BY <1>1, <1>2, <2>1
  <2>3. FlowDevice[f] /= PumpSupplements
        /\ (FlowDevice[f] = ValveWater => f \in SupplementFlows)
    BY <1>1, ServedByFlows
  <2>4. f \in flow_active \ Finished
    BY <1>1, <1>2 DEF Running
  <2> QED BY <2>2, <2>3, <2>4 DEF Stopped
<1>3. SwitchOn \cap Stopped(Finished) = {}
  BY <1>2 DEF SwitchOn
<1>4. SwitchOn \cap SwitchOff = {}
  BY DEF SwitchOn, SwitchOff
<1>5. (SwitchOn \cup PumpOn \cup WaterOn) \cap OffInLoop = {}
  BY <1>3, <1>4 DEF OffInLoop, PumpOn, WaterOn, MayToggle
<1>6. (SwitchOn \cup PumpOn \cup WaterOn) \cap WaterOff = {}
  <2>1. (SwitchOn \cup WaterOn) \cap WaterOff = {}
    BY DEF WaterOn, WaterOff, MayToggle
  <2>2. PumpOn \cap WaterOff = {}
    BY DEF PumpOn, WaterOff, PumpSupplements, ValveWater
  <2> QED BY <2>1, <2>2
<1>7. (SwitchOn \cup PumpOn \cup WaterOn) \cap (OffInLoop \cup WaterOff) = {}
  BY <1>5, <1>6
<1>8. /\ SwitchOn \cup PumpOn \cup WaterOn \subseteq Devices
      /\ OffInLoop \cup WaterOff \subseteq Devices
  BY FlowUpdateSwitches DEF TypeOK
<1>9. Toggle(SwitchOn \cup PumpOn \cup WaterOn, OffInLoop \cup WaterOff)
  BY DEF FlowUpdate
<1> QED BY <1>7, <1>8, <1>9, TogglingOnce

LEMMA BoardStep ==
  ASSUME TypeOK, [Next]_vars
  PROVE  \/ TogglesOnce
         \/ DeviceUpdate
         \/ DeviceTick
         \/ DeviceReset
         \/ UNCHANGED deviceVars
<1>1. CASE Loop
  BY <1>1, ProgramToggles, CommandToggles, FlowUpdateToggles DEF Loop, SensorUpdate
<1>2. CASE Tick \/ Reset \/ UNCHANGED vars
  BY <1>2 DEF Tick, Reset, vars
<1> QED BY <1>1, <1>2 DEF Next

LEMMA SystemRelays == TypeOK /\ RelayInv /\ [Next]_vars => RelayInv'
<1> SUFFICES ASSUME TypeOK, RelayInv, [Next]_vars PROVE RelayInv'
  OBVIOUS
<1>1. CASE TogglesOnce
  BY <1>1, ToggleRelays DEF TogglesOnce
<1>2. CASE DeviceUpdate
  BY <1>2, UpdateRelays
<1>3. CASE DeviceTick \/ UNCHANGED deviceVars
  BY <1>3, RelayStill
<1>4. CASE DeviceReset
  BY <1>4, RelayReset
<1> QED BY <1>1, <1>2, <1>3, <1>4, BoardStep

(* Of the whole firmware, with programs, flows, commands and the console   *)
(* switching the same devices: the relays follow the devices and the coils *)
(* of the click pump its hold.                                             *)
THEOREM SystemRelaysFollow == Spec => []RelaysFollow
<1>1. Init => RelayInv
  BY RelayInit DEF Init
<1>2. RelayInv => RelaysFollow
  BY DEF RelayInv
<1> QED BY <1>1, <1>2, InitType, NextType, SystemRelays, PTL DEF Spec

LEMMA SystemLatch ==
  TypeOK /\ RelayInv /\ [Next]_vars => [LatchStep]_deviceVars
<1> SUFFICES ASSUME TypeOK, RelayInv, [Next]_vars, deviceVars' /= deviceVars
             PROVE  LatchStep
  OBVIOUS
<1>1. CASE TogglesOnce
  BY <1>1, ToggleAgrees DEF TogglesOnce
<1>2. CASE DeviceUpdate
  BY <1>2, UpdateAgrees
<1>3. CASE DeviceTick \/ DeviceReset
  BY <1>3 DEF DeviceTick, LatchStep, Agrees
<1> QED BY <1>1, <1>2, <1>3, BoardStep

(* And only a reset makes the click pump and its is_active disagree.       *)
THEOREM SystemLatchAgrees == Spec => LatchAgrees
<1>1. Init => RelayInv
  BY RelayInit DEF Init
<1> QED BY <1>1, SystemLatch, InitType, NextType, SystemRelays, PTL
        DEF Spec, LatchAgrees, LatchStep

(* Nor does the whole firmware ever believe a click pump to run that does  *)
(* not: what programs, flows and console have it dose is dosed.            *)
THEOREM SystemBelievedRuns == Spec => []BelievedRuns
<1>1. Init => RelayInv /\ BelievedRuns
  BY RelayInit DEF Init, DeviceInit, BelievedRuns
<1>2. TypeOK /\ RelayInv /\ BelievedRuns /\ [Next]_vars => BelievedRuns'
  BY SystemLatch, LatchBelieved DEF RelayInv
<1> QED BY <1>1, <1>2, InitType, NextType, SystemRelays, PTL DEF Spec
=============================================================================
