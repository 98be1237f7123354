---------------------------- MODULE OrderlyProofs ----------------------------
(***************************************************************************)
(* What holds of the irrigation controller in orderly operation, for every *)
(* value of the other constants: which valves a stage has open, that       *)
(* everything rests when a program is over, that supplements only go into  *)
(* water, that a fault is answered at once, that every group gets its      *)
(* water, and that the programs implement their plan.  Each theorem names, *)
(* as its assumption, how much order it needs.                             *)
(***************************************************************************)
EXTENDS Observer, DeviceProofs, SequenceTheorems

(* No hand touches the acid pump and the valves of the groups, START does  *)
(* not replace a program that irrigates, and STOP is not sent when there   *)
(* is nothing to stop.                                                     *)
FieldDevices == {PumpAcid, ValveGroup1, ValveGroup2, ValveGroup3}
OrderlyStages ==
  /\ FieldDevices \cap ManualDevices = {}
  /\ "READY" \notin StartIn
  /\ "FINISHED" \notin StopIn
-----------------------------------------------------------------------------
(* A program that irrigates, runs down or was stopped on its way: its      *)
(* stage is the one its program has on.                                    *)
UnderWay == status \in {"READY", "FINISHING"} \/ is_stopped /= "NOT_DETECTED"
StageOf(prog, current) ==
  IF prog = "BOTH" THEN current \in GroupPrograms ELSE current = prog
StageKnown == UnderWay => StageOf(program, program_current)

Field == device_active \cap FieldDevices

(* ValvesMatchStage made inductive.                                        *)
StageInv == StoppedAtRest /\ StageKnown /\ ValvesMatchStage

LEMMA FieldTables ==
  /\ Opens("GROUP_1") = {PumpAcid, ValveGroup1}
  /\ Opens("GROUP_2") = {PumpAcid, ValveGroup2}
  /\ Opens("CLEANING") = {ValveGroup3}
  /\ \A p : p \notin {"GROUP_1", "GROUP_2", "CLEANING"} => Opens(p) = {}
  /\ \A p : Opens(p) \subseteq FieldDevices
  /\ PumpWell \notin FieldDevices /\ Generator \notin FieldDevices
  /\ ValveGroup1 /= ValveGroup2 /\ ValveGroup1 /= ValveGroup3
  /\ ValveGroup2 /= ValveGroup3
  /\ PumpAcid \notin {ValveGroup1, ValveGroup2, ValveGroup3}
BY DEF Opens, FieldDevices, PumpAcid, ValveGroup1, ValveGroup2, ValveGroup3,
       PumpWell, Generator

LEMMA ToggleField ==
  ASSUME NEW on, NEW off, Toggle(on, off)
  PROVE  Field' = (Field \ off) \cup (on \cap FieldDevices)
BY DEF Toggle, Field

(* The two ways to the valves of a stage: the stage begins, or none is on. *)
LEMMA StageBegins ==
  ASSUME StoppedAtRest', StageOf(program, program_current)',
         Field' = Opens(program_current'), status' = "READY"
  PROVE  StageInv'
<1>1. Field' \in StageValves'
  BY FieldTables DEF StageValves
<1> QED BY <1>1 DEF StageInv, StageKnown, ValvesMatchStage, Field, FieldDevices

LEMMA StageCloses ==
  ASSUME StoppedAtRest', UnderWay' => StageOf(program, program_current)',
         Field' = {}, status' /= "READY"
  PROVE  StageInv'
BY DEF StageInv, StageKnown, ValvesMatchStage, StageValves, Field, FieldDevices

(* What most steps do.                                                     *)
LEMMA StageKept ==
  ASSUME StageInv, StoppedAtRest', Field' = Field,
         UNCHANGED <<program, program_current, status, is_stopped>>
  PROVE  StageInv'
BY DEF StageInv, StageKnown, UnderWay, ValvesMatchStage, StageValves, Field,
       FieldDevices

(* The valves of a program that irrigates, as control_irrigation_temp_     *)
(* update may rely on them.                                                *)
LEMMA StageOn ==
  ASSUME StageInv, status = "READY"
  PROVE  /\ program = "GROUP_1" => Field = {PumpAcid, ValveGroup1}
         /\ program = "GROUP_2" => Field = {PumpAcid, ValveGroup2}
         /\ program = "BOTH" /\ ValveGroup1 \in device_active =>
              program_current = "GROUP_1" /\ Field = {PumpAcid, ValveGroup1}
         /\ program = "BOTH" /\ ValveGroup1 \notin device_active =>
              program_current = "GROUP_2" /\ Field = {PumpAcid, ValveGroup2}
         /\ program = "CLEANING" =>
              Field \in {{ValveGroup3}, {ValveGroup1}, {ValveGroup2}}
         /\ program \notin {"GROUP_1", "GROUP_2", "BOTH", "CLEANING"} => Field = {}
         /\ program /= "BOTH" => program_current = program
<1>1. /\ program = "BOTH" => program_current \in {"GROUP_1", "GROUP_2"}
      /\ program /= "BOTH" => program_current = program
  BY DEF StageInv, StageKnown, UnderWay, StageOf, GroupPrograms
<1>2. /\ program_current = "CLEANING" =>
           Field \in {{ValveGroup3}, {ValveGroup1}, {ValveGroup2}}
      /\ program_current /= "CLEANING" => Field = Opens(program_current)
  BY DEF StageInv, ValvesMatchStage, StageValves, Field, FieldDevices
<1>3. \A d \in FieldDevices : d \in device_active <=> d \in Field
  BY DEF Field
<1>4. ValveGroup1 \in FieldDevices
  BY DEF FieldDevices
<1> QED BY <1>1, <1>2, <1>3, <1>4, FieldTables

LEMMA StageOff ==
  ASSUME StageInv, status /= "READY"
  PROVE  Field = {}
BY DEF StageInv, ValvesMatchStage, StageValves, Field, FieldDevices

LEMMA BeginStage ==
  ASSUME NEW prog, NEW current, NEW cleaning, NEW on, NEW off,
         on \cap FieldDevices = {}, Field \subseteq off,
         Begin(prog, current, cleaning, on, off), StageOf(prog, current),
         StoppedAtRest', status' = "READY"
  PROVE  StageInv'
<1>1. program' = prog /\ program_current' = current
  BY DEF Begin
<1>2. Toggle(on \cup Opens(current), off)
  BY DEF Begin
<1>3. Field' = Opens(current)
  BY <1>2, ToggleField, FieldTables
<1> QED BY <1>1, <1>3, StageBegins DEF StageOf

LEMMA FinishStage ==
  ASSUME StageInv, StoppedAtRest', status = "READY", NEW off,
         Field \subseteq off, Finish(off)
  PROVE  StageInv'
<1>1. Field' = {}
  BY ToggleField DEF Finish
<1>2. StageOf(program, program_current)'
  BY DEF StageInv, StageKnown, UnderWay, StageOf, Finish
<1> QED BY <1>1, <1>2, StageCloses DEF Finish

LEMMA FinishGroupsStage ==
  ASSUME StageInv, StoppedAtRest', status = "READY", NEW off,
         Field \subseteq off, FinishGroups(off)
  PROVE  StageInv'
<1>1. CASE is_cleaning
  <2>1. Begin("CLEANING", "CLEANING", TRUE, {}, off) /\ status' = "READY"
    BY <1>1 DEF FinishGroups
  <2>2. StageOf("CLEANING", "CLEANING") /\ {} \cap FieldDevices = {}
    BY DEF StageOf
  <2> QED BY <2>1, <2>2, BeginStage
<1>2. CASE ~is_cleaning
  BY <1>2, FinishStage DEF FinishGroups
<1> QED BY <1>1, <1>2

LEMMA ForceStopStage ==
  ASSUME TypeOK, StageInv, StoppedAtRest', ForceStop, status /= "FINISHED"
  PROVE  StageInv'
<1>1. Field' = {}
  BY DEF ForceStop, Toggle, Field, TypeOK, DeviceTypeOK
<1>2. UnderWay' => UnderWay
  BY DEF ForceStop, UnderWay, TypeOK, Statuses
<1>3. UnderWay' => StageOf(program, program_current)'
  BY <1>2 DEF StageInv, StageKnown, StageOf, ForceStop
<1> QED BY <1>1, <1>3, StageCloses DEF ForceStop

(* Cleaning goes on with another valve.                                    *)
LEMMA CleaningNextStage ==
  ASSUME StageInv, StoppedAtRest', OnCourse("CLEANING"),
         NEW open \in {ValveGroup1, ValveGroup2}, NEW shut, Field = {shut},
         NEW duration, CleaningNext({open}, {shut}, duration)
  PROVE  StageInv'
<1>1. program_current = "CLEANING" /\ status = "READY"
  BY StageOn DEF OnCourse
<1>2. Field' = {open}
  BY ToggleField DEF CleaningNext, FieldDevices
<1>3. Field' \in StageValves'
  BY <1>1, <1>2 DEF CleaningNext, StageValves
<1> QED BY <1>3 DEF CleaningNext, StageInv, StageKnown, UnderWay,
                    ValvesMatchStage, Field, FieldDevices

LEMMA UpdateStage ==
  ASSUME TypeOK, StageInv, StoppedAtRest', ProgramUpdate
  PROVE  StageInv'
<1>1. CASE PumpStart
  <2>1. Field = {} /\ {PumpWell} \cap FieldDevices = {} /\ status' = "READY"
    BY <1>1, StageOff, FieldTables DEF PumpStart
  <2>2. CASE is_stopped = "NOT_DETECTED"
    <3>1. Begin(program, FirstStage(program), is_cleaning, {PumpWell}, {})
      BY <1>1, <2>2 DEF PumpStart
    <3>2. StageOf(program, FirstStage(program))
      BY DEF StageOf, FirstStage, GroupPrograms
    <3> QED BY <2>1, <3>1, <3>2, BeginStage
  <2>3. CASE is_stopped /= "NOT_DETECTED"
    <3>1. Continue({PumpWell})
      BY <1>1, <2>3 DEF PumpStart
    <3>2. Toggle({PumpWell} \cup Opens(program_current), {})
      BY <3>1 DEF Continue
    <3>3. Field' = Opens(program_current)
      BY <2>1, <3>2, ToggleField, FieldTables
    <3>4. StageOf(program, program_current)' /\ program_current' = program_current
      BY <2>3, <3>1 DEF Continue, StageInv, StageKnown, UnderWay, StageOf
    <3> QED BY <2>1, <3>3, <3>4, StageBegins
  <2> QED BY <2>2, <2>3
<1>2. CASE FaultStop
  BY <1>2, ForceStopStage DEF FaultStop
<1>3. CASE GeneratorStop
  <2>1. Field = {} /\ Toggle({}, {Generator})
    BY <1>3, StageOff DEF GeneratorStop
  <2>2. Field' = {}
    BY <2>1, ToggleField
  <2>3. StageOf(program, program_current)'
    BY <1>3 DEF GeneratorStop, StageInv, StageKnown, UnderWay, StageOf
  <2> QED BY <1>3, <2>2, <2>3, StageCloses DEF GeneratorStop
<1>4. CASE Group1Over
  BY <1>4, StageOn, FinishGroupsStage DEF Group1Over, OnCourse
<1>5. CASE Group2Over
  BY <1>5, StageOn, FinishGroupsStage DEF Group2Over, OnCourse
<1>6. CASE BothFirstOver
  <2>1. /\ Begin("BOTH", "GROUP_2", is_cleaning, {}, {ValveGroup1})
        /\ status' = "READY" /\ Field = {PumpAcid, ValveGroup1}
    BY <1>6, StageOn DEF BothFirstOver, OnCourse
  <2>2. Toggle({} \cup Opens("GROUP_2"), {ValveGroup1})
    BY <2>1 DEF Begin
  <2>3. Field' = Opens("GROUP_2")
    BY <2>1, <2>2, ToggleField, FieldTables
  <2>4. program' = "BOTH" /\ program_current' = "GROUP_2"
    BY <2>1 DEF Begin
  <2>5. StageOf(program, program_current)'
    BY <2>4 DEF StageOf, GroupPrograms
  <2> QED BY <2>1, <2>3, <2>4, <2>5, StageBegins
<1>7. CASE BothSecondOver
  BY <1>7, StageOn, FinishGroupsStage DEF BothSecondOver, OnCourse
<1>8. CASE CleaningGroup1Over
  <2>1. Field = {ValveGroup1}
    BY <1>8, StageOn, FieldTables DEF CleaningGroup1Over, OnCourse, Field, FieldDevices
  <2> QED BY <1>8, <2>1, CleaningNextStage DEF CleaningGroup1Over
<1>9. CASE CleaningGroup2Over
  <2>1. Field = {ValveGroup2}
    BY <1>9, StageOn, FieldTables DEF CleaningGroup2Over, OnCourse, Field, FieldDevices
  <2> QED BY <1>9, <2>1, FinishStage DEF CleaningGroup2Over, OnCourse
<1>10. CASE CleaningGroup3Over
  <2>1. Field = {ValveGroup3}
    BY <1>10, StageOn, FieldTables DEF CleaningGroup3Over, OnCourse, Field, FieldDevices
  <2> QED BY <1>10, <2>1, CleaningNextStage DEF CleaningGroup3Over
<1>11. CASE GardenOver
  <2>1. Field = {}
    BY <1>11, StageOn DEF GardenOver, OnCourse
  <2> QED BY <1>11, <2>1, FinishStage DEF GardenOver, OnCourse
<1>12. CASE NothingDue
  BY <1>12, StageKept DEF NothingDue, deviceVars, programVars, Field
<1> QED BY <1>1, <1>2, <1>3, <1>4, <1>5, <1>6, <1>7, <1>8, <1>9, <1>10, <1>11,
           <1>12 DEF ProgramUpdate

LEMMA ServedElsewhere ==
  /\ ServedDevices \cap FieldDevices = {}
  /\ \A f \in Flows : FlowDevice[f] \notin FieldDevices
  /\ \A F \in SUBSET Flows : Stopped(F) \cap FieldDevices = {}
<1>1. /\ ServedDevices \cap FieldDevices = {} /\ PumpWell \notin FieldDevices
      /\ {PumpSupplements, ValveWater} \subseteq ServedDevices
  BY DEF ServedDevices, FieldDevices, PumpSupplements, ValveMicro, ValveMacro,
         ValveWater, Click, ValveGarden, PumpAcid, ValveGroup1, ValveGroup2,
         ValveGroup3, PumpWell
<1>2. \A f \in Flows : FlowDevice[f] \in ServedDevices \cup {PumpWell}
  BY DEF FlowDevice, Flows, ServedDevices, WellFlow, MicroFlow, MacroFlow,
         WaterFlow, ClickFlow, GardenFlow
<1>3. \A f \in Flows : FlowDevice[f] \notin FieldDevices
  BY <1>1, <1>2
<1> QED BY <1>1, <1>3 DEF Stopped

LEMMA FlowUpdateField == TypeOK /\ FlowUpdate => Field' = Field
<1> SUFFICES ASSUME TypeOK, FlowUpdate PROVE Field' = Field
  OBVIOUS
<1>1. /\ Running \subseteq Flows /\ Finished \subseteq Flows /\ Paced \subseteq Flows
  BY DEF TypeOK, ControlFlowTypeOK, Running, Finished, Paced
<1>2. (SwitchOn \cup SwitchOff) \cap FieldDevices = {}
  BY <1>1, ServedElsewhere DEF SwitchOn, SwitchOff
<1>3. (PumpOn \cup WaterOn \cup WaterOff) \cap FieldDevices = {}
  BY ServedElsewhere, ServedByFlows DEF PumpOn, WaterOn, WaterOff
<1>4. Stopped(Finished) \cap FieldDevices = {}
  BY <1>1, ServedElsewhere
<1>5. Toggle(SwitchOn \cup PumpOn \cup WaterOn, OffInLoop \cup WaterOff)
  BY DEF FlowUpdate
<1>6. /\ (SwitchOn \cup PumpOn \cup WaterOn) \cap FieldDevices = {}
      /\ (OffInLoop \cup WaterOff) \cap FieldDevices = {}
  BY <1>2, <1>3, <1>4 DEF OffInLoop
<1> QED BY <1>5, <1>6, ToggleField DEF Field

LEMMA ConsoleField == Console => Field' = Field
<1> SUFFICES ASSUME NEW f \in ConsoleFlows,
                    \/ \E v \in ConsoleVolumes, t \in ConsoleTimes :
                         ConsoleFlowStart(f, v, t)
                    \/ ConsoleFlowStop(f)
                    \/ ConsoleFlowPause(f)
             PROVE  Field' = Field
  BY DEF Console
<1>1. f \in Flows /\ {f} \in SUBSET Flows
  BY ControlFlowAssumption
<1>2. CASE \E v \in ConsoleVolumes, t \in ConsoleTimes : ConsoleFlowStart(f, v, t)
  BY <1>2 DEF ConsoleFlowStart, deviceVars, Field
<1>3. CASE ConsoleFlowStop(f)
  BY <1>1, <1>3, ServedElsewhere, ToggleField DEF ConsoleFlowStop, Field
<1>4. CASE ConsoleFlowPause(f)
  BY <1>1, <1>4, ServedElsewhere, ToggleField DEF ConsoleFlowPause, deviceVars, Field
<1> QED BY <1>2, <1>3, <1>4

LEMMA WarmUpField == WarmUp => Field' = Field
BY ToggleField, FieldTables DEF WarmUp, Field

LEMMA CommandStage ==
  ASSUME OrderlyStages, TypeOK, StageInv, StoppedAtRest',
         NetworkCommand \/ SerialCommand
  PROVE  StageInv'
<1>1. CASE StartCommand
  <2>1. PICK prog \in Programs, cleaning \in Cleanings : Start(prog, cleaning)
    BY <1>1 DEF StartCommand
  <2>2. status /= "READY" /\ WarmUp
    BY <1>1, <2>1 DEF StartCommand, Start, OrderlyStages
  <2>3. Field' = {}
    BY <2>2, WarmUpField, StageOff
  <2>4. ~UnderWay' /\ status' /= "READY"
    BY <2>1, <2>2 DEF Start, WarmUp, UnderWay
  <2> QED BY <2>3, <2>4, StageCloses
<1>2. CASE StopCommand
  BY <1>2, ForceStopStage DEF StopCommand, OrderlyStages
<1>3. CASE ResumeCommand
  <2>1. status /= "READY" /\ WarmUp
        /\ UNCHANGED <<program, program_current, is_stopped>>
        /\ is_stopped /= "NOT_DETECTED"
    BY <1>3 DEF ResumeCommand, Resume, StageInv, StoppedAtRest
  <2>2. Field' = {} /\ status' /= "READY"
    BY <2>1, WarmUpField, StageOff DEF WarmUp
  <2>3. StageOf(program, program_current)'
    BY <2>1 DEF StageInv, StageKnown, UnderWay, StageOf
  <2> QED BY <2>2, <2>3, StageCloses
<1>4. CASE ToggleCommand
  <2>1. PICK d \in ManualDevices, on \in BOOLEAN : DeviceToggle(d, on)
    BY <1>4 DEF ToggleCommand
  <2>2. Field' = Field
    BY <2>1, ToggleField DEF DeviceToggle, OrderlyStages, Field
  <2> QED BY <1>4, <2>2, StageKept DEF ToggleCommand, programVars
<1>5. CASE ConfigureCommand \/ DetectionCommand \/ NoCommand
  BY <1>5, StageKept DEF ConfigureCommand, DetectionCommand, NoCommand,
     deviceVars, programVars, Field
<1>6. CASE Console /\ UNCHANGED programVars
  BY <1>6, ConsoleField, StageKept DEF programVars
<1> QED BY <1>1, <1>2, <1>3, <1>4, <1>5, <1>6 DEF NetworkCommand, SerialCommand

LEMMA StageInit == Init => StageInv
BY DEF Init, DeviceInit, ProgramInit, StageInv, StoppedAtRest, StageKnown,
       UnderWay, ValvesMatchStage, StageValves

LEMMA StageNext ==
  ASSUME OrderlyStages, TypeOK, StageInv, [Next]_vars
  PROVE  StageInv'
<1>1. StoppedAtRest'
  BY StoppedNext DEF StageInv
<1>2. CASE \/ DeviceUpdate /\ UNCHANGED <<flowVars, sensorVars, programVars>>
           \/ SensorUpdate /\ UNCHANGED programVars
           \/ FlowUpdate /\ UNCHANGED programVars
           \/ Tick
           \/ UNCHANGED vars
  <2>1. Field' = Field
    BY <1>2, FlowUpdateField DEF DeviceUpdate, SensorUpdate, Tick, DeviceTick,
       vars, deviceVars, Field
  <2> QED BY <1>1, <1>2, <2>1, StageKept DEF programVars, Tick, vars
<1>3. CASE ProgramUpdate
  BY <1>1, <1>3, UpdateStage
<1>4. CASE NetworkCommand \/ SerialCommand
  BY <1>1, <1>4, CommandStage
<1>5. CASE Reset
  <2>1. Field' = {} /\ ~UnderWay' /\ status' /= "READY"
    BY <1>5 DEF Reset, DeviceReset, Field, UnderWay
  <2> QED BY <1>1, <2>1, StageCloses
<1> QED BY <1>2, <1>3, <1>4, <1>5 DEF Next, Loop

(* The acid pump and the valves of the groups are those of the stage that  *)
(* is on, whatever is stopped, resumed, faulted, reset or started on the   *)
(* console, and whatever the settings are changed to.                      *)
THEOREM ValvesMatchStageHolds ==
  ASSUME OrderlyStages
  PROVE  Spec => []ValvesMatchStage
<1>1. TypeOK /\ StageInv /\ [Next]_vars => StageInv'
  BY StageNext
<1>2. StageInv => ValvesMatchStage
  BY DEF StageInv
<1> QED BY <1>1, <1>2, InitType, NextType, StageInit, PTL DEF Spec
-----------------------------------------------------------------------------
(* The way of the water of a group or of cleaning, however little order    *)
(* there is: START may replace a program that irrigates and leave its      *)
(* valves open, and a stage may be read back from such valves.             *)
GroupValves == {ValveGroup1, ValveGroup2, ValveGroup3}
Way == GroupValves \cap device_active

(* PumpHasWay made inductive: the status stands for the pump.              *)
WayInv ==
  status = "READY" /\ program_current \in GroupPrograms \cup {"CLEANING"} => Way /= {}

LEMMA OpensWay ==
  \A p \in GroupPrograms \cup {"CLEANING"} : Opens(p) \cap GroupValves /= {}
BY FieldTables DEF GroupPrograms, GroupValves

(* The three things a step may do: open what its stage calls for, not      *)
(* irrigate when it is done, or leave valves, status and stage alone.      *)
LEMMA WayOpened ==
  ASSUME NEW on, NEW off, Toggle(on, off), Opens(program_current') \subseteq on
  PROVE  WayInv'
<1>1. on \cap GroupValves \subseteq Way'
  BY DEF Toggle, Way
<1> QED BY <1>1, OpensWay DEF WayInv

LEMMA WayIdle == status' /= "READY" => WayInv'
BY DEF WayInv

LEMMA WayKept ==
  ASSUME WayInv, Field' = Field, UNCHANGED <<status, program_current>>
  PROVE  WayInv'
<1>1. Way = Field \cap GroupValves /\ Way' = Field' \cap GroupValves
  BY DEF Way, Field, GroupValves, FieldDevices
<1> QED BY <1>1 DEF WayInv

LEMMA BeginWay ==
  ASSUME NEW prog, NEW current, NEW cleaning, NEW on, NEW off,
         Begin(prog, current, cleaning, on, off)
  PROVE  WayInv'
<1>1. /\ program_current' = current
      /\ Toggle(on \cup Opens(current), off)
  BY DEF Begin
<1> QED BY <1>1, WayOpened

LEMMA ContinueWay ==
  ASSUME NEW on, Continue(on)
  PROVE  WayInv'
<1>1. /\ program_current' = program_current
      /\ Toggle(on \cup Opens(program_current), {})
  BY DEF Continue
<1> QED BY <1>1, WayOpened

LEMMA FinishGroupsWay ==
  ASSUME NEW off, FinishGroups(off)
  PROVE  WayInv'
<1>1. \/ Begin("CLEANING", "CLEANING", TRUE, {}, off)
      \/ Finish(off)
  BY DEF FinishGroups
<1>2. CASE Begin("CLEANING", "CLEANING", TRUE, {}, off)
  BY <1>2, BeginWay
<1>3. CASE Finish(off)
  BY <1>3, WayIdle DEF Finish
<1> QED BY <1>1, <1>2, <1>3

LEMMA CleaningNextWay ==
  ASSUME NEW open \in GroupValves, NEW off, NEW duration,
         CleaningNext({open}, off, duration)
  PROVE  WayInv'
<1>1. open \in Way'
  BY DEF CleaningNext, Toggle, Way
<1> QED BY <1>1 DEF WayInv

LEMMA UpdateWay ==
  ASSUME WayInv, ProgramUpdate
  PROVE  WayInv'
<1>1. CASE PumpStart
  BY <1>1, BeginWay, ContinueWay DEF PumpStart
<1>2. CASE FaultStop \/ GeneratorStop
  BY <1>2, WayIdle DEF FaultStop, ForceStop, GeneratorStop
<1>3. CASE Group1Over \/ Group2Over \/ BothSecondOver
  BY <1>3, FinishGroupsWay DEF Group1Over, Group2Over, BothSecondOver
<1>4. CASE BothFirstOver
  BY <1>4, BeginWay DEF BothFirstOver
<1>5. CASE CleaningGroup1Over \/ CleaningGroup3Over
  <2>1. ValveGroup1 \in GroupValves /\ ValveGroup2 \in GroupValves
    BY DEF GroupValves
  <2> QED BY <1>5, <2>1, CleaningNextWay DEF CleaningGroup1Over, CleaningGroup3Over
<1>6. CASE CleaningGroup2Over \/ GardenOver
  BY <1>6, WayIdle DEF CleaningGroup2Over, GardenOver, Finish
<1>7. CASE NothingDue
  BY <1>7, WayKept DEF NothingDue, deviceVars, programVars, Field
<1> QED BY <1>1, <1>2, <1>3, <1>4, <1>5, <1>6, <1>7 DEF ProgramUpdate

LEMMA CommandWay ==
  ASSUME GroupValves \cap ManualDevices = {}, WayInv,
         NetworkCommand \/ SerialCommand
  PROVE  WayInv'
<1>1. CASE StartCommand
  <2>1. PICK prog \in Programs, cleaning \in Cleanings : Start(prog, cleaning)
    BY <1>1 DEF StartCommand
  <2>2. \/ Begin(prog, FirstStage(prog), cleaning, {}, {})
        \/ WarmUp
    BY <2>1 DEF Start
  <2> QED BY <2>2, BeginWay, WayIdle DEF WarmUp
<1>2. CASE StopCommand
  BY <1>2, WayIdle DEF StopCommand, ForceStop
<1>3. CASE ResumeCommand
  BY <1>3, ContinueWay, WayIdle DEF ResumeCommand, Resume, WarmUp
<1>4. CASE ToggleCommand
  <2>1. PICK d \in ManualDevices, on \in BOOLEAN : DeviceToggle(d, on)
    BY <1>4 DEF ToggleCommand
  <2>2. Way' = Way
    BY <2>1 DEF DeviceToggle, Toggle, Way
  <2> QED BY <1>4, <2>2 DEF ToggleCommand, programVars, WayInv
<1>5. CASE ConfigureCommand \/ DetectionCommand \/ NoCommand
  BY <1>5, WayKept DEF ConfigureCommand, DetectionCommand, NoCommand,
     deviceVars, programVars, Field
<1>6. CASE Console /\ UNCHANGED programVars
  BY <1>6, ConsoleField, WayKept DEF programVars
<1> QED BY <1>1, <1>2, <1>3, <1>4, <1>5, <1>6 DEF NetworkCommand, SerialCommand

LEMMA WayNext ==
  ASSUME GroupValves \cap ManualDevices = {}, TypeOK, WayInv, [Next]_vars
  PROVE  WayInv'
<1>1. CASE \/ DeviceUpdate /\ UNCHANGED <<flowVars, sensorVars, programVars>>
           \/ SensorUpdate /\ UNCHANGED programVars
           \/ FlowUpdate /\ UNCHANGED programVars
           \/ Tick
           \/ UNCHANGED vars
  <2>1. Field' = Field
    BY <1>1, FlowUpdateField DEF DeviceUpdate, SensorUpdate, Tick, DeviceTick,
       vars, deviceVars, Field
  <2> QED BY <1>1, <2>1, WayKept DEF programVars, Tick, vars
<1>2. CASE ProgramUpdate
  BY <1>2, UpdateWay
<1>3. CASE NetworkCommand \/ SerialCommand
  BY <1>3, CommandWay
<1>4. CASE Reset
  BY <1>4, WayIdle DEF Reset
<1> QED BY <1>1, <1>2, <1>3, <1>4 DEF Next, Loop

(* The well pump of a group or of cleaning never works against shut        *)
(* valves, if only the valves of the groups are not toggled by hand, nor   *)
(* the pump (LeftToPrograms): in whatever status START, STOP and RESUME    *)
(* come, and from whatever valves a stage is read back.                    *)
THEOREM PumpHasWayHolds ==
  ASSUME LeftToPrograms, GroupValves \cap ManualDevices = {}
  PROVE  Spec => []PumpHasWay
<1>1. Init => WayInv
  BY DEF Init, ProgramInit, WayInv
<1>2. TypeOK /\ WayInv /\ [Next]_vars => WayInv'
  BY WayNext
<1>3. WayInv /\ PumpPower => PumpHasWay
  BY DEF WayInv, Way, GroupValves, PumpPower, PumpHasWay
<1> QED BY <1>1, <1>2, <1>3, InitType, NextType, PumpPowerHolds, PTL DEF Spec
-----------------------------------------------------------------------------
(* A time a flow may be given: some, and within the program whatever the   *)
(* server makes of its settings.                                           *)
Fits(seconds) ==
  seconds > 0 /\ \A c \in Configs : seconds * Second <= c.program_duration

(* Moreover no flow is started on the console, dosing and gardens fit in   *)
(* their programs, and the settings do not change from water alone to      *)
(* dosing or back.                                                         *)
OrderlyFlows ==
  /\ OrderlyStages
  /\ ConsoleFlows = {}
  /\ \A c, d \in Configs : c.deliver_volume = 1 <=> d.deliver_volume = 1
  /\ \A c \in Configs : c.deliver_volume /= 1 => Fits(c.deliver_time)
  /\ "GARDEN" \in Programs =>
       \A c \in Configs : Fits((c.program_duration \div Second) % 65536)

(* The flows of a stage; RESUME starts those of them that dose.            *)
FlowsOf(p) == CASE p \in GroupPrograms -> {MicroFlow, MacroFlow}
                [] p = "GARDEN"        -> {GardenFlow}
                [] OTHER               -> {}

Expired(f) == time_start[f] >= time_to_deliver[f] * Second

(* An active flow is as old as the stage it belongs to, or its time is     *)
(* over and the next control_flow_update ends it.                          *)
FlowFits(f) ==
  /\ Fits(time_to_deliver[f])
  /\ \/ Expired(f) /\ step /= "irrigation"
     \/ /\ status = "READY" /\ f \in FlowsOf(program_current)
        /\ time_start[f] = time_program_start

(* What RESUME would start has been given a time.                          *)
TimesFit == UnderWay => \A f \in ResumedFlows : Fits(time_to_deliver[f])

Asked == "GARDEN" \in {program, program_current} => "GARDEN" \in Programs

FlowInv ==
  /\ config \in Configs
  /\ Asked
  /\ flow_pause = {}
  /\ flow_active \subseteq {MicroFlow, MacroFlow, GardenFlow}
  /\ \A f \in flow_active : FlowFits(f)
  /\ status = "FINISHED" => flow_active = {}
  /\ TimesFit

LEMMA FlowNames ==
  /\ {MicroFlow, MacroFlow, GardenFlow} \subseteq Flows
  /\ \A p : FlowsOf(p) \subseteq {MicroFlow, MacroFlow, GardenFlow}
  /\ ResumedFlows \subseteq FlowsOf(program_current)
BY DEF MicroFlow, MacroFlow, GardenFlow, Flows, FlowsOf, ResumedFlows, Doses

LEMMA SettingsAlike ==
  ASSUME OrderlyFlows, config \in Configs, config' \in Configs,
         program_current' = program_current
  PROVE  ResumedFlows' = ResumedFlows
<1>1. Doses(program_current)' <=> Doses(program_current)
  BY DEF Doses, OrderlyFlows
<1> QED BY <1>1 DEF ResumedFlows

(* Times that fit are over with the program.                               *)
LEMMA FitsExpire ==
  ASSUME TypeOK, config \in Configs, DurationOver, NEW f \in Flows,
         Fits(time_to_deliver[f]), time_start[f] = time_program_start
  PROVE  Expired(f)
<1>1. time_to_deliver[f] \in Nat /\ Second \in Nat
  BY ControlFlowAssumption DEF TypeOK, ControlFlowTypeOK
<1>2. time_to_deliver[f] * Second \in Nat
  BY <1>1, Products
<1>3. time_program_start \in Nat /\ config.program_duration \in Nat
  BY AgeFacts DEF TypeOK, ConfigRecords
<1>4. time_to_deliver[f] * Second <= config.program_duration
  BY DEF Fits
<1>5. time_program_start >= config.program_duration
  BY DEF DurationOver
<1> QED BY <1>2, <1>3, <1>4, <1>5 DEF Expired

(* When the update of the program is due, the flows that are left belong   *)
(* to the stage that is on, and end with it.                               *)
LEMMA FlowsDue ==
  ASSUME TypeOK, FlowInv, step = "irrigation"
  PROVE  /\ flow_active /= {} => status = "READY"
         /\ flow_active \subseteq FlowsOf(program_current)
         /\ DurationOver => \A f \in flow_active : Expired(f)
<1>1. ASSUME NEW f \in flow_active
      PROVE  /\ status = "READY" /\ f \in FlowsOf(program_current)
             /\ DurationOver => Expired(f)
  <2>1. /\ FlowFits(f) /\ f \in Flows
    BY FlowNames DEF FlowInv
  <2>2. /\ Fits(time_to_deliver[f]) /\ status = "READY"
        /\ f \in FlowsOf(program_current) /\ time_start[f] = time_program_start
    BY <2>1 DEF FlowFits
  <2> QED BY <2>1, <2>2, FitsExpire DEF FlowInv
<1> QED BY <1>1

LEMMA FlowsRunOut ==
  ASSUME FlowInv, status /= "READY"
  PROVE  \A f \in flow_active : Expired(f)
BY DEF FlowInv, FlowFits

(* What most steps do.                                                     *)
LEMMA FlowKept ==
  ASSUME OrderlyFlows, FlowInv, config' \in Configs,
         step' /= "irrigation" \/ step' = step,
         UNCHANGED <<flow_active, flow_pause, time_start, time_to_deliver,
                     program, program_current, status, is_stopped,
                     time_program_start>>
  PROVE  FlowInv'
<1>1. ResumedFlows' = ResumedFlows
  BY SettingsAlike DEF FlowInv
<1>2. TimesFit'
  BY <1>1 DEF FlowInv, TimesFit, UnderWay, Fits
<1>3. ASSUME NEW f \in flow_active PROVE FlowFits(f)'
  BY <1>3 DEF FlowInv, FlowFits, Fits, Expired
<1> QED BY <1>2, <1>3 DEF FlowInv, Asked

(* Nothing is left of the flows.                                           *)
LEMMA FlowsGone ==
  ASSUME flow_active' = {}, flow_pause' = {}, config' \in Configs, Asked', TimesFit'
  PROVE  FlowInv'
BY DEF FlowInv

(* The flows that are left have run out.                                   *)
LEMMA FlowsRunningOut ==
  ASSUME FlowInv, UNCHANGED flowVars, \A f \in flow_active : Expired(f),
         step' /= "irrigation", status' = "FINISHED" => flow_active = {},
         config' \in Configs, Asked', TimesFit'
  PROVE  FlowInv'
<1>1. ASSUME NEW f \in flow_active PROVE FlowFits(f)'
  BY <1>1 DEF FlowInv, FlowFits, Expired, Fits, flowVars
<1> QED BY <1>1 DEF FlowInv, flowVars

(* control_flow_start of the flows of the stage that begins.               *)
LEMMA FlowsBegin ==
  ASSUME FlowInv, NEW F \in SUBSET Flows, NEW volume, NEW seconds, NEW cleared,
         FlowsStart(F, volume, seconds, cleared), Fits(seconds),
         flow_active \subseteq F, F = FlowsOf(program_current'),
         time_program_start' = 0, status' = "READY", config' \in Configs, Asked'
  PROVE  FlowInv'
<1>1. flow_active' = F /\ flow_pause' = {}
  BY DEF FlowsStart, FlowInv
<1>2. \A f \in F : time_start'[f] = 0 /\ time_to_deliver'[f] = seconds
  BY DEF FlowsStart
<1>3. ASSUME NEW f \in F PROVE FlowFits(f)'
  BY <1>2 DEF FlowFits, Fits
<1>4. ResumedFlows' \subseteq F
  BY DEF FlowsOf, ResumedFlows, Doses
<1>5. TimesFit'
  BY <1>2, <1>4 DEF TimesFit, Fits
<1> QED BY <1>1, <1>3, <1>5, FlowNames DEF FlowInv

LEMMA BeginFit ==
  ASSUME OrderlyFlows, TypeOK, FlowInv, step' /= "irrigation", status' = "READY",
         NEW prog, NEW current, NEW cleaning, NEW on, NEW off,
         Begin(prog, current, cleaning, on, off),
         "GARDEN" \in {prog, current} => "GARDEN" \in Programs,
         \A f \in flow_active : Expired(f),
         FlowsOf(current) /= {} => flow_active \subseteq FlowsOf(current)
  PROVE  FlowInv'
<1>1. /\ program_current' = current /\ program' = prog /\ config' = config
      /\ config \in Configs /\ Asked'
  BY DEF Begin, FlowInv, Asked
<1>2. CASE Doses(current)
  <2>1. /\ FlowsStart({MicroFlow, MacroFlow}, config.deliver_volume,
                      config.deliver_time, {FlowSensor[WaterFlow]})
        /\ FlowsOf(current) = {MicroFlow, MacroFlow}
        /\ time_program_start' = 0
    BY <1>2 DEF Begin, Doses, GroupPrograms, FlowsOf
  <2>2. Fits(config.deliver_time)
    BY <1>1, <1>2 DEF Doses, OrderlyFlows
  <2>3. {MicroFlow, MacroFlow} \in SUBSET Flows
    BY FlowNames
  <2> QED BY <1>1, <2>1, <2>2, <2>3, FlowsBegin
<1>3. CASE ~Doses(current) /\ current = "GARDEN"
  <2>1. /\ FlowsStart({GardenFlow}, 0, GardenSeconds, {})
        /\ FlowsOf(current) = {GardenFlow}
        /\ time_program_start' = 0
    BY <1>3 DEF Begin, FlowsOf, GroupPrograms
  <2>2. Fits(GardenSeconds)
    BY <1>1, <1>3 DEF GardenSeconds, OrderlyFlows
  <2>3. {GardenFlow} \in SUBSET Flows
    BY FlowNames
  <2> QED BY <1>1, <2>1, <2>2, <2>3, FlowsBegin
<1>4. CASE ~Doses(current) /\ current /= "GARDEN"
  <2>1. UNCHANGED flowVars
    BY <1>4 DEF Begin
  <2>2. TimesFit'
    BY <1>1, <1>4 DEF TimesFit, ResumedFlows, Doses
  <2> QED BY <1>1, <2>1, <2>2, FlowsRunningOut
<1> QED BY <1>2, <1>3, <1>4

LEMMA ContinueFit ==
  ASSUME FlowInv, flow_active = {}, is_stopped /= "NOT_DETECTED", NEW on,
         Continue(on), status' = "READY"
  PROVE  FlowInv'
<1>1. /\ flow_active' = ResumedFlows /\ flow_pause' = {}
      /\ time_to_deliver' = time_to_deliver
      /\ UNCHANGED <<program, program_current, config>>
  BY DEF Continue, FlowInv
<1>2. /\ \A f \in ResumedFlows : time_start'[f] = ResumedAge
      /\ time_program_start' = ResumedAge
  BY FlowNames DEF Continue
<1>3. \A f \in ResumedFlows : Fits(time_to_deliver[f])
  BY DEF FlowInv, TimesFit, UnderWay
<1>4. ResumedFlows' = ResumedFlows
  BY <1>1 DEF ResumedFlows, Doses
<1>5. ASSUME NEW f \in flow_active' PROVE FlowFits(f)'
  BY <1>1, <1>2, <1>3, <1>5, FlowNames DEF FlowFits, Fits
<1>6. TimesFit'
  BY <1>1, <1>3, <1>4 DEF TimesFit, Fits
<1> QED BY <1>1, <1>5, <1>6, FlowNames DEF FlowInv, Asked

LEMMA ForceStopFit ==
  ASSUME TypeOK, FlowInv, ForceStop, status /= "FINISHED"
  PROVE  FlowInv'
<1>1. flow_active' = {} /\ flow_pause' = {} /\ config' \in Configs /\ Asked'
  BY DEF ForceStop, FlowInv, Asked
<1>2. UnderWay' => UnderWay
  BY DEF ForceStop, UnderWay, TypeOK, Statuses
<1>3. ResumedFlows' = ResumedFlows /\ time_to_deliver' = time_to_deliver
  BY DEF ForceStop, ResumedFlows, Doses
<1>4. TimesFit'
  BY <1>2, <1>3 DEF FlowInv, TimesFit, Fits
<1> QED BY <1>1, <1>4, FlowsGone

LEMMA FinishFit ==
  ASSUME FlowInv, status = "READY", step' /= "irrigation",
         \A f \in flow_active : Expired(f), NEW off, Finish(off)
  PROVE  FlowInv'
<1>1. /\ UNCHANGED flowVars /\ config' \in Configs /\ Asked' /\ status' = "FINISHING"
  BY DEF Finish, FlowInv, Asked
<1>2. ResumedFlows' = ResumedFlows /\ time_to_deliver' = time_to_deliver
  BY DEF Finish, ResumedFlows, Doses, flowVars
<1>3. TimesFit'
  BY <1>2 DEF FlowInv, TimesFit, UnderWay, Fits
<1> QED BY <1>1, <1>3, FlowsRunningOut

LEMMA FinishGroupsFit ==
  ASSUME OrderlyFlows, TypeOK, FlowInv, status = "READY", step' /= "irrigation",
         \A f \in flow_active : Expired(f), NEW off, FinishGroups(off)
  PROVE  FlowInv'
<1>1. CASE is_cleaning
  <2>1. Begin("CLEANING", "CLEANING", TRUE, {}, off) /\ status' = "READY"
    BY <1>1 DEF FinishGroups
  <2>2. FlowsOf("CLEANING") = {}
    BY DEF FlowsOf, GroupPrograms
  <2> QED BY <2>1, <2>2, BeginFit
<1>2. CASE ~is_cleaning
  BY <1>2, FinishFit DEF FinishGroups
<1> QED BY <1>1, <1>2

LEMMA CleaningNextFit ==
  ASSUME FlowInv, flow_active = {}, status = "READY", NEW on, NEW off, NEW duration,
         CleaningNext(on, off, duration)
  PROVE  FlowInv'
<1>1. flow_active' = {} /\ flow_pause' = {} /\ config' \in Configs /\ Asked'
  BY DEF CleaningNext, flowVars, FlowInv, Asked
<1>2. ResumedFlows' = ResumedFlows /\ time_to_deliver' = time_to_deliver
  BY DEF CleaningNext, ResumedFlows, Doses, flowVars
<1>3. TimesFit'
  BY <1>2 DEF FlowInv, TimesFit, UnderWay, Fits
<1> QED BY <1>1, <1>3, FlowsGone

LEMMA UpdateFit ==
  ASSUME OrderlyFlows, TypeOK, StageInv, FlowInv, ProgramUpdate,
         step = "irrigation", step' = "network"
  PROVE  FlowInv'
<1>0. /\ flow_active /= {} => status = "READY"
      /\ flow_active \subseteq FlowsOf(program_current)
      /\ DurationOver => \A f \in flow_active : Expired(f)
  BY FlowsDue
<1>1. CASE PumpStart
  <2>1. flow_active = {} /\ status' = "READY"
    BY <1>0, <1>1 DEF PumpStart
  <2>2. CASE is_stopped = "NOT_DETECTED"
    <3>1. Begin(program, FirstStage(program), is_cleaning, {PumpWell}, {})
      BY <1>1, <2>2 DEF PumpStart
    <3>2. "GARDEN" \in {program, FirstStage(program)} => "GARDEN" \in Programs
      BY DEF FirstStage, FlowInv, Asked
    <3> QED BY <2>1, <3>1, <3>2, BeginFit
  <2>3. CASE is_stopped /= "NOT_DETECTED"
    BY <1>1, <2>1, <2>3, ContinueFit DEF PumpStart
  <2> QED BY <2>2, <2>3
<1>2. CASE FaultStop
  BY <1>2, ForceStopFit DEF FaultStop
<1>3. CASE GeneratorStop
  <2>1. flow_active = {} /\ status = "FINISHING"
    BY <1>0, <1>3 DEF GeneratorStop
  <2>2. flow_active' = {} /\ flow_pause' = {} /\ config' \in Configs /\ Asked'
    BY <1>3, <2>1 DEF GeneratorStop, flowVars, FlowInv, Asked
  <2>3. ResumedFlows' = ResumedFlows /\ time_to_deliver' = time_to_deliver
    BY <1>3 DEF GeneratorStop, ResumedFlows, Doses, flowVars
  <2>4. TimesFit'
    BY <2>1, <2>3 DEF FlowInv, TimesFit, UnderWay, Fits
  <2> QED BY <2>2, <2>4, FlowsGone
<1>4. CASE Group1Over
  BY <1>0, <1>4, FinishGroupsFit DEF Group1Over, OnCourse
<1>5. CASE Group2Over
  BY <1>0, <1>5, FinishGroupsFit DEF Group2Over, OnCourse
<1>6. CASE BothFirstOver
  <2>1. /\ Begin("BOTH", "GROUP_2", is_cleaning, {}, {ValveGroup1})
        /\ status' = "READY" /\ DurationOver /\ status = "READY" /\ program = "BOTH"
    BY <1>6 DEF BothFirstOver, OnCourse
  <2>2. program_current \in GroupPrograms
    BY <2>1 DEF StageInv, StageKnown, UnderWay, StageOf
  <2>3. FlowsOf("GROUP_2") = FlowsOf(program_current)
    BY <2>2 DEF FlowsOf, GroupPrograms
  <2> QED BY <1>0, <2>1, <2>3, BeginFit
<1>7. CASE BothSecondOver
  BY <1>0, <1>7, FinishGroupsFit DEF BothSecondOver, OnCourse
<1>8. ASSUME OnCourse("CLEANING") PROVE flow_active = {} /\ status = "READY"
  <2>1. program_current = "CLEANING" /\ status = "READY"
    BY <1>8, StageOn DEF OnCourse
  <2> QED BY <1>0, <2>1 DEF FlowsOf, GroupPrograms
<1>9. CASE CleaningGroup1Over
  BY <1>8, <1>9, CleaningNextFit DEF CleaningGroup1Over
<1>10. CASE CleaningGroup2Over
  BY <1>8, <1>10, FinishFit DEF CleaningGroup2Over
<1>11. CASE CleaningGroup3Over
  BY <1>8, <1>11, CleaningNextFit DEF CleaningGroup3Over
<1>12. CASE GardenOver
  BY <1>0, <1>12, FinishFit DEF GardenOver, OnCourse
<1>13. CASE NothingDue
  <2>1. /\ UNCHANGED <<flow_active, flow_pause, time_start, time_to_deliver,
                       program, program_current, status, is_stopped,
                       time_program_start>>
        /\ config' \in Configs
    BY <1>13 DEF NothingDue, flowVars, programVars, FlowInv
  <2> QED BY <2>1, FlowKept
<1> QED BY <1>1, <1>2, <1>3, <1>4, <1>5, <1>6, <1>7, <1>9, <1>10, <1>11, <1>12,
           <1>13 DEF ProgramUpdate

(* The warm-up, which START and RESUME begin.                              *)
LEMMA WarmUpFit ==
  ASSUME FlowInv, status /= "READY", step' /= "irrigation", WarmUp,
         Asked', TimesFit'
  PROVE  FlowInv'
<1>1. \A f \in flow_active : Expired(f)
  BY FlowsRunOut
<1> QED BY <1>1, FlowsRunningOut DEF WarmUp, FlowInv

LEMMA CommandFit ==
  ASSUME OrderlyFlows, TypeOK, StageInv, FlowInv, NetworkCommand \/ SerialCommand,
         step' /= "irrigation"
  PROVE  FlowInv'
<1>0. OrderlyStages /\ ConsoleFlows = {}
  BY DEF OrderlyFlows
<1>1. CASE StartCommand
  <2>1. PICK prog \in Programs, cleaning \in Cleanings : Start(prog, cleaning)
    BY <1>1 DEF StartCommand
  <2>2. status /= "READY" /\ WarmUp
    BY <1>0, <1>1, <2>1 DEF StartCommand, Start, OrderlyStages
  <2>3. Asked' /\ TimesFit'
    BY <2>1, <2>2 DEF Start, WarmUp, Asked, TimesFit, UnderWay
  <2> QED BY <2>2, <2>3, WarmUpFit
<1>2. CASE StopCommand
  BY <1>0, <1>2, ForceStopFit DEF StopCommand, OrderlyStages
<1>3. CASE ResumeCommand
  <2>1. status /= "READY" /\ WarmUp
        /\ UNCHANGED <<program, program_current, is_stopped, config, time_to_deliver>>
        /\ is_stopped /= "NOT_DETECTED"
    BY <1>3 DEF ResumeCommand, Resume, WarmUp, flowVars, StageInv, StoppedAtRest
  <2>2. Asked' /\ ResumedFlows' = ResumedFlows
    BY <2>1 DEF FlowInv, Asked, ResumedFlows, Doses
  <2>3. TimesFit'
    BY <2>1, <2>2 DEF FlowInv, TimesFit, UnderWay, Fits
  <2> QED BY <2>1, <2>2, <2>3, WarmUpFit
<1>4. CASE \/ ToggleCommand
           \/ ConfigureCommand
           \/ DetectionCommand
           \/ NoCommand
  <2>1. /\ UNCHANGED <<flow_active, flow_pause, time_start, time_to_deliver,
                       program, program_current, status, is_stopped,
                       time_program_start>>
        /\ config' \in Configs
    BY <1>4 DEF ToggleCommand, ConfigureCommand, DetectionCommand, NoCommand,
                flowVars, programVars, FlowInv
  <2> QED BY <2>1, FlowKept
<1>5. CASE Console /\ UNCHANGED programVars
  BY <1>0, <1>5 DEF Console
<1> QED BY <1>1, <1>2, <1>3, <1>4, <1>5 DEF NetworkCommand, SerialCommand

(* control_flow_update ends the flows whose time is over.                  *)
LEMMA FlowUpdateFit ==
  ASSUME OrderlyFlows, TypeOK, FlowInv, FlowUpdate, UNCHANGED programVars
  PROVE  FlowInv' /\ \A f \in flow_active' : ~Expired(f)
<1>1. /\ flow_active' = flow_active \ Finished /\ flow_pause' = {}
      /\ Running = flow_active
      /\ UNCHANGED <<time_start, time_to_deliver>>
  BY DEF FlowUpdate, FlowsAfterLoop, FlowInv, Running
<1>2. /\ UNCHANGED <<program, program_current, status, is_stopped, config,
                     time_program_start>>
      /\ config' \in Configs /\ config \in Configs
  BY DEF programVars, FlowInv
<1>3. ASSUME NEW f \in flow_active' PROVE ~Expired(f) /\ FlowFits(f)'
  <2>1. f \in flow_active /\ ~TimePassed(f) /\ f \in Flows
    BY <1>1, <1>3, FlowNames DEF FlowInv, Finished
  <2>2. FlowFits(f)
    BY <2>1 DEF FlowInv
  <2>3. ~Expired(f)
    BY <2>1, <2>2 DEF FlowFits, Fits, TimePassed, Expired
  <2> QED BY <1>1, <1>2, <2>2, <2>3 DEF FlowFits, Fits, Expired
<1>4. ResumedFlows' = ResumedFlows
  BY <1>2, SettingsAlike
<1>5. TimesFit'
  BY <1>1, <1>2, <1>4 DEF FlowInv, TimesFit, UnderWay, Fits
<1> QED BY <1>1, <1>2, <1>3, <1>5 DEF FlowInv, Asked

LEMMA OlderMore == \A a \in Age : Older(a) >= a
BY AgeFacts DEF Older

LEMMA TickFit ==
  ASSUME OrderlyFlows, TypeOK, FlowInv, Tick
  PROVE  FlowInv'
<1>1. /\ UNCHANGED <<flow_active, flow_pause, time_to_deliver, program,
                     program_current, status, is_stopped, config, step>>
      /\ time_start' = [f \in Flows |-> Older(time_start[f])]
      /\ time_program_start' = Older(time_program_start)
  BY DEF Tick, FlowTick
<1>2. ResumedFlows' = ResumedFlows
  BY <1>1, SettingsAlike DEF FlowInv
<1>3. TimesFit'
  BY <1>1, <1>2 DEF FlowInv, TimesFit, UnderWay, Fits
<1>4. ASSUME NEW f \in flow_active PROVE FlowFits(f)'
  <2>1. FlowFits(f) /\ f \in Flows
    BY FlowNames DEF FlowInv
  <2>2. time_start'[f] = Older(time_start[f])
    BY <1>1, <2>1
  <2>3. Expired(f) => Expired(f)'
    <3>1. time_start[f] \in Age /\ time_to_deliver[f] \in Nat /\ Second \in Nat
      BY <2>1, ControlFlowAssumption DEF TypeOK, ControlFlowTypeOK
    <3>2. time_to_deliver[f] * Second \in Nat
      BY <3>1, Products
    <3>3. time_start'[f] >= time_start[f] /\ time_start'[f] \in Nat /\ time_start[f] \in Nat
      BY <2>2, <3>1, OlderMore, AgeFacts
    <3> QED BY <1>1, <3>2, <3>3 DEF Expired
  <2> QED BY <1>1, <2>1, <2>2, <2>3 DEF FlowFits, Fits
<1> QED BY <1>1, <1>3, <1>4 DEF FlowInv, Asked

LEMMA FlowInit == Init => FlowInv
<1>1. Init => config \in Configs
  BY ControlIrrigationAssumption DEF Init, ProgramInit
<1> QED BY <1>1 DEF Init, ControlFlowInit, ProgramInit, FlowInv, Asked, TimesFit,
                    UnderWay

LEMMA FlowNext ==
  ASSUME OrderlyFlows, TypeOK, StageInv, FlowInv, [Next]_vars
  PROVE  FlowInv'
<1>1. CASE \/ At("device", "sensor") /\ DeviceUpdate
                /\ UNCHANGED <<flowVars, sensorVars, programVars>>
           \/ At("sensor", "flow") /\ SensorUpdate /\ UNCHANGED programVars
           \/ UNCHANGED vars
  <2>1. /\ UNCHANGED <<flow_active, flow_pause, time_start, time_to_deliver,
                       program, program_current, status, is_stopped,
                       time_program_start>>
        /\ config' \in Configs
        /\ step' /= "irrigation" \/ step' = step
    BY <1>1 DEF At, SensorUpdate, vars, flowVars, programVars, FlowInv
  <2> QED BY <2>1, FlowKept
<1>2. CASE At("flow", "irrigation") /\ FlowUpdate /\ UNCHANGED programVars
  BY <1>2, FlowUpdateFit
<1>3. CASE At("irrigation", "network") /\ ProgramUpdate
  BY <1>3, UpdateFit DEF At
<1>4. CASE \/ At("network", "serial") /\ NetworkCommand
           \/ At("serial", "device") /\ SerialCommand
  BY <1>4, CommandFit DEF At
<1>5. CASE Tick
  BY <1>5, TickFit
<1>6. CASE Reset
  <2>1. /\ flow_active' = {} /\ flow_pause' = {} /\ config' \in Configs
        /\ Asked' /\ TimesFit'
    BY <1>6, ControlIrrigationAssumption
    DEF Reset, FlowReset, Asked, TimesFit, UnderWay
  <2> QED BY <2>1, FlowsGone
<1> QED BY <1>1, <1>2, <1>3, <1>4, <1>5, <1>6 DEF Next, Loop
-----------------------------------------------------------------------------
(* The devices the firmware switches of itself; the others only by hand.   *)
Driven == {Generator, PumpWell} \cup FieldDevices \cup ServedDevices
DrivenOnly == device_active \subseteq Driven

LEMMA DrivenDevices ==
  /\ {{}, {Generator}, {PumpWell}, {ValveGroup1}, {ValveGroup2}} \subseteq SUBSET Driven
  /\ \A p : Opens(p) \subseteq Driven
  /\ \A f \in Flows : FlowDevice[f] \in Driven
  /\ PumpSupplements \in Driven /\ ValveWater \in Driven
<1>1. \A f \in Flows : FlowDevice[f] \in ServedDevices \cup {PumpWell}
  BY DEF FlowDevice, Flows, ServedDevices, WellFlow, MicroFlow, MacroFlow,
         WaterFlow, ClickFlow, GardenFlow
<1> QED BY <1>1, FieldTables DEF Driven, FieldDevices, ServedDevices

LEMMA ToggleDriven ==
  ASSUME DrivenOnly, NEW on, NEW off, Toggle(on, off), on \subseteq Driven
  PROVE  DrivenOnly'
BY DEF Toggle, DrivenOnly, Driven

LEMMA BeginDriven ==
  ASSUME DrivenOnly, NEW prog, NEW current, NEW cleaning, NEW on, NEW off,
         on \subseteq Driven, Begin(prog, current, cleaning, on, off)
  PROVE  DrivenOnly'
<1>1. Toggle(on \cup Opens(current), off)
  BY DEF Begin
<1>2. on \cup Opens(current) \subseteq Driven
  BY DrivenDevices
<1> QED BY <1>1, <1>2, ToggleDriven

LEMMA FinishDriven ==
  ASSUME DrivenOnly, NEW off, Finish(off) \/ FinishGroups(off)
  PROVE  DrivenOnly'
<1>1. {} \subseteq Driven
  OBVIOUS
<1>2. CASE Finish(off)
  BY <1>1, <1>2, ToggleDriven DEF Finish
<1>3. CASE Begin("CLEANING", "CLEANING", TRUE, {}, off)
  <2>1. Toggle({} \cup Opens("CLEANING"), off)
    BY <1>3 DEF Begin
  <2>2. {} \cup Opens("CLEANING") \subseteq Driven
    BY DrivenDevices
  <2> QED BY <2>1, <2>2, ToggleDriven
<1> QED BY <1>2, <1>3 DEF FinishGroups

LEMMA ProgramDriven ==
  ASSUME DrivenOnly, ProgramUpdate
  PROVE  DrivenOnly'
<1>0. {} \subseteq Driven /\ {PumpWell} \subseteq Driven
      /\ {ValveGroup1} \subseteq Driven /\ {ValveGroup2} \subseteq Driven
  BY DrivenDevices
<1>1. CASE PumpStart
  <2>1. CASE Begin(program, FirstStage(program), is_cleaning, {PumpWell}, {})
    BY <1>0, <2>1, BeginDriven
  <2>2. CASE Continue({PumpWell})
    <3>1. Toggle({PumpWell} \cup Opens(program_current), {})
      BY <2>2 DEF Continue
    <3>2. {PumpWell} \cup Opens(program_current) \subseteq Driven
      BY DrivenDevices
    <3> QED BY <3>1, <3>2, ToggleDriven
  <2> QED BY <1>1, <2>1, <2>2 DEF PumpStart
<1>2. CASE FaultStop \/ GeneratorStop
  BY <1>0, <1>2, ToggleDriven DEF FaultStop, ForceStop, GeneratorStop
<1>3. CASE Group1Over \/ Group2Over \/ BothSecondOver \/ GardenOver \/ CleaningGroup2Over
  BY <1>3, FinishDriven DEF Group1Over, Group2Over, BothSecondOver, GardenOver,
                            CleaningGroup2Over
<1>4. CASE BothFirstOver
  BY <1>0, <1>4, BeginDriven DEF BothFirstOver
<1>5. CASE CleaningGroup1Over \/ CleaningGroup3Over
  BY <1>0, <1>5, ToggleDriven DEF CleaningGroup1Over, CleaningGroup3Over, CleaningNext
<1>6. CASE NothingDue
  BY <1>6 DEF NothingDue, deviceVars, DrivenOnly, Driven
<1> QED BY <1>1, <1>2, <1>3, <1>4, <1>5, <1>6 DEF ProgramUpdate

LEMMA CommandDriven ==
  ASSUME ManualDevices = {}, ConsoleFlows = {}, DrivenOnly,
         NetworkCommand \/ SerialCommand
  PROVE  DrivenOnly'
<1>0. {} \subseteq Driven /\ {Generator} \subseteq Driven
  BY DrivenDevices
<1>1. CASE StartCommand
  BY <1>0, <1>1, BeginDriven, ToggleDriven DEF StartCommand, Start, WarmUp
<1>2. CASE StopCommand
  BY <1>0, <1>2, ToggleDriven DEF StopCommand, ForceStop
<1>3. CASE ResumeCommand
  <2>1. CASE Continue({})
    <3>1. Toggle({} \cup Opens(program_current), {})
      BY <2>1 DEF Continue
    <3>2. {} \cup Opens(program_current) \subseteq Driven
      BY DrivenDevices
    <3> QED BY <3>1, <3>2, ToggleDriven
  <2>2. CASE WarmUp
    BY <1>0, <2>2, ToggleDriven DEF WarmUp
  <2> QED BY <1>3, <2>1, <2>2 DEF ResumeCommand, Resume
<1>4. CASE ToggleCommand \/ Console
  BY <1>4 DEF ToggleCommand, Console
<1>5. CASE ConfigureCommand \/ DetectionCommand \/ NoCommand
  BY <1>5 DEF ConfigureCommand, DetectionCommand, NoCommand, deviceVars,
              DrivenOnly, Driven
<1> QED BY <1>1, <1>2, <1>3, <1>4, <1>5 DEF NetworkCommand, SerialCommand

LEMMA DrivenNext ==
  ASSUME ManualDevices = {}, ConsoleFlows = {}, TypeOK, DrivenOnly, [Next]_vars
  PROVE  DrivenOnly'
<1>1. CASE ProgramUpdate
  BY <1>1, ProgramDriven
<1>2. CASE NetworkCommand \/ SerialCommand
  BY <1>2, CommandDriven
<1>3. CASE FlowUpdate
  <2>1. Running \subseteq Flows /\ Paced \subseteq Flows
    BY DEF TypeOK, ControlFlowTypeOK, Running, Paced
  <2>2. SwitchOn \cup PumpOn \cup WaterOn \subseteq Driven
    BY <2>1, DrivenDevices DEF SwitchOn, PumpOn, WaterOn
  <2> QED BY <1>3, <2>2, ToggleDriven DEF FlowUpdate
<1>4. CASE DeviceUpdate \/ SensorUpdate \/ Tick \/ Reset \/ UNCHANGED vars
  BY <1>4 DEF DeviceUpdate, SensorUpdate, Tick, DeviceTick, Reset, DeviceReset,
              vars, deviceVars, DrivenOnly, Driven
<1> QED BY <1>1, <1>2, <1>3, <1>4 DEF Next, Loop

(* RestsOff and DosesIntoWater, from the invariants together.              *)
LEMMA RestIsOff ==
  ASSUME PumpPower, StageInv, FlowInv, FlowDevicesFollow, DrivenOnly
  PROVE  RestsOff
<1> SUFFICES ASSUME status = "FINISHED"
             PROVE  device_active = {} /\ flow_active = {}
  BY DEF RestsOff
<1>1. flow_active = {}
  BY DEF FlowInv
<1>2. Generator \notin device_active /\ PumpWell \notin device_active
  BY DEF PumpPower
<1>3. device_active \cap FieldDevices = {}
  BY StageOff DEF Field
<1>4. device_active \cap ServedDevices = {}
  <2>1. /\ FlowDevice[MicroFlow] = ValveMicro /\ FlowDevice[MacroFlow] = ValveMacro
        /\ FlowDevice[ClickFlow] = Click /\ FlowDevice[GardenFlow] = ValveGarden
    BY DEF FlowDevice, Flows, WellFlow, MicroFlow, MacroFlow, WaterFlow,
           ClickFlow, GardenFlow
  <2>2. {ValveMicro, ValveMacro, Click, ValveGarden} \cap device_active = {}
    BY <1>1, <2>1 DEF FlowDevicesFollow, Running
  <2>3. {PumpSupplements, ValveWater} \cap device_active = {}
    BY <1>1 DEF FlowDevicesFollow
  <2> QED BY <2>2, <2>3 DEF ServedDevices
<1> QED BY <1>1, <1>2, <1>3, <1>4 DEF DrivenOnly, Driven

LEMMA DosingIsWatered ==
  ASSUME TypeOK, PumpPower, FlowInv, FlowDevicesFollow
  PROVE  DosesIntoWater
<1> SUFFICES ASSUME step = "irrigation",
                    {PumpSupplements, ValveMicro, ValveMacro, ValveGarden}
                      \cap device_active /= {}
             PROVE  PumpWell \in device_active
  BY DEF DosesIntoWater
<1>1. /\ FlowDevice[MicroFlow] = ValveMicro /\ FlowDevice[MacroFlow] = ValveMacro
      /\ FlowDevice[GardenFlow] = ValveGarden
  BY DEF FlowDevice, Flows, WellFlow, MicroFlow, MacroFlow, WaterFlow,
         ClickFlow, GardenFlow
<1>2. flow_active /= {}
  BY <1>1 DEF FlowDevicesFollow, Running
<1> QED BY <1>2, FlowsDue DEF PumpPower

(* When a program has ended, been stopped or failed, everything is off and *)
(* no flow is left that could switch anything on again.                    *)
THEOREM RestsOffHolds ==
  ASSUME OrderlyFlows, ManualDevices = {}
  PROVE  Spec => []RestsOff
<1>1. OrderlyStages /\ LeftToPrograms /\ LeftToFlows /\ ConsoleFlows = {}
  BY DEF OrderlyFlows, LeftToPrograms, LeftToFlows
<1>2. TypeOK /\ StageInv /\ [Next]_vars => StageInv'
  BY <1>1, StageNext
<1>3. TypeOK /\ StageInv /\ FlowInv /\ [Next]_vars => FlowInv'
  BY FlowNext
<1>4. TypeOK /\ DrivenOnly /\ [Next]_vars => DrivenOnly'
  BY <1>1, DrivenNext
<1>5. Init => DrivenOnly
  BY DEF Init, DeviceInit, DrivenOnly
<1>6. (Spec => []PumpPower) /\ (Spec => []FlowDevicesFollow)
  BY <1>1, PumpPowerHolds, FlowDevicesFollowHolds
<1>7. PumpPower /\ StageInv /\ FlowInv /\ FlowDevicesFollow /\ DrivenOnly => RestsOff
  BY RestIsOff
<1> QED BY <1>2, <1>3, <1>4, <1>5, <1>6, <1>7, InitType, NextType, StageInit,
           FlowInit, PTL DEF Spec

(* As control_flow_update leaves them, no supplement valve is open and the *)
(* supplements pump is off unless the well pump carries them to the field. *)
THEOREM DosesIntoWaterHolds ==
  ASSUME OrderlyFlows, LeftToPrograms, LeftToFlows
  PROVE  Spec => []DosesIntoWater
<1>1. OrderlyStages
  BY DEF OrderlyFlows
<1>2. TypeOK /\ StageInv /\ [Next]_vars => StageInv'
  BY <1>1, StageNext
<1>3. TypeOK /\ StageInv /\ FlowInv /\ [Next]_vars => FlowInv'
  BY FlowNext
<1>4. (Spec => []PumpPower) /\ (Spec => []FlowDevicesFollow)
  BY PumpPowerHolds, FlowDevicesFollowHolds
<1>5. TypeOK /\ PumpPower /\ FlowInv /\ FlowDevicesFollow => DosesIntoWater
  BY DosingIsWatered
<1> QED BY <1>2, <1>3, <1>4, <1>5, InitType, NextType, StageInit, FlowInit, PTL
        DEF Spec
-----------------------------------------------------------------------------
(* Moreover START asks for nothing but dosing programs, which clear an old *)
(* fault where they begin and where they are resumed.                      *)
GroupsOrBoth == GroupPrograms \cup {"BOTH"}
OrderlyDoses ==
  /\ OrderlyFlows
  /\ Programs \subseteq GroupsOrBoth
  /\ \A c \in Configs : c.deliver_volume /= 1

(* FaultAnswered made inductive: a fault left behind by a stop waits for   *)
(* a stage that doses.                                                     *)
FaultInv ==
  /\ Faulty => /\ step /= "irrigation" => status \in {"FINISHED", "PREPARING"}
               /\ program_current \in GroupsOrBoth
  /\ (status = "PREPARING" /\ is_stopped = "NOT_DETECTED") => program \in GroupsOrBoth

LEMMA NoFault ==
  ASSUME ~Faulty', status' /= "PREPARING"
  PROVE  FaultInv'
BY DEF FaultInv

(* What most steps do.                                                     *)
LEMMA FaultKept ==
  ASSUME FaultInv, Faulty' => Faulty, step' = step \/ step /= "irrigation",
         UNCHANGED <<program, program_current, status, is_stopped>>
  PROVE  FaultInv'
BY DEF FaultInv

LEMMA BeginFault ==
  ASSUME NEW prog, NEW current, NEW cleaning, NEW on, NEW off,
         Begin(prog, current, cleaning, on, off), ~Faulty \/ Doses(current),
         status' = "READY"
  PROVE  FaultInv'
<1>1. is_faulty_detection_active' = is_faulty_detection_active
  BY DEF Begin
<1>2. CASE Doses(current)
  <2>1. FlowsStart({MicroFlow, MacroFlow}, config.deliver_volume,
                   config.deliver_time, {FlowSensor[WaterFlow]})
    BY <1>2 DEF Begin, Doses, GroupPrograms
  <2> QED BY <2>1, NoFault DEF FlowsStart, Faulty
<1>3. CASE ~Doses(current) /\ current = "GARDEN"
  <2>1. FlowsStart({GardenFlow}, 0, GardenSeconds, {})
    BY <1>3 DEF Begin
  <2> QED BY <2>1, NoFault DEF FlowsStart, Faulty
<1>4. CASE ~Doses(current) /\ current /= "GARDEN"
  <2>1. fault_status' = fault_status
    BY <1>4 DEF Begin, flowVars
  <2> QED BY <1>1, <1>4, <2>1, NoFault DEF Faulty
<1> QED BY <1>2, <1>3, <1>4

LEMMA FinishFault ==
  ASSUME ~Faulty, status = "READY", NEW off, Finish(off) \/ FinishGroups(off)
  PROVE  FaultInv'
<1>1. CASE Finish(off)
  BY <1>1, NoFault DEF Finish, flowVars, Faulty
<1>2. CASE Begin("CLEANING", "CLEANING", TRUE, {}, off) /\ status' = "READY"
  BY <1>2, BeginFault
<1> QED BY <1>1, <1>2 DEF FinishGroups

LEMMA ForceStopFault == FaultInv /\ ForceStop => FaultInv'
BY DEF FaultInv, ForceStop, Faulty

LEMMA UpdateFault ==
  ASSUME OrderlyDoses, TypeOK, StageInv, FlowInv, FaultInv, ProgramUpdate
  PROVE  FaultInv'
<1>0. \A p : Doses(p) <=> p \in GroupPrograms
  BY DEF Doses, OrderlyDoses, FlowInv
<1>1. CASE PumpStart
  <2>1. status = "PREPARING" /\ status' = "READY"
    BY <1>1 DEF PumpStart
  <2>2. CASE is_stopped = "NOT_DETECTED"
    <3>1. Begin(program, FirstStage(program), is_cleaning, {PumpWell}, {})
      BY <1>1, <2>2 DEF PumpStart
    <3>2. FirstStage(program) \in GroupPrograms
      BY <2>1, <2>2 DEF FaultInv, GroupsOrBoth, FirstStage, GroupPrograms
    <3> QED BY <1>0, <2>1, <3>1, <3>2, BeginFault
  <2>3. CASE is_stopped /= "NOT_DETECTED"
    <3>1. Continue({PumpWell})
      BY <1>1, <2>3 DEF PumpStart
    <3>2. StageOf(program, program_current)
      BY <2>3 DEF StageInv, StageKnown, UnderWay
    <3>3. Faulty => program_current \in GroupPrograms
      BY <3>2 DEF FaultInv, StageOf, GroupsOrBoth
    <3>4. ~Faulty'
      BY <1>0, <3>1, <3>3 DEF Continue, Faulty
    <3> QED BY <2>1, <3>4, NoFault
  <2> QED BY <2>2, <2>3
<1>2. CASE FaultStop
  BY <1>2, ForceStopFault DEF FaultStop
<1>3. CASE GeneratorStop
  BY <1>3, NoFault DEF GeneratorStop, flowVars, Faulty
<1>4. CASE \/ Group1Over
           \/ Group2Over
           \/ BothSecondOver
           \/ GardenOver
           \/ CleaningGroup2Over
  BY <1>4, FinishFault DEF Group1Over, Group2Over, BothSecondOver, GardenOver,
                           CleaningGroup2Over, OnCourse
<1>5. CASE BothFirstOver
  BY <1>5, BeginFault DEF BothFirstOver, OnCourse
<1>6. CASE CleaningGroup1Over \/ CleaningGroup3Over
  BY <1>6, NoFault DEF CleaningGroup1Over, CleaningGroup3Over, CleaningNext,
                       OnCourse, flowVars, Faulty
<1>7. CASE NothingDue
  <2>1. Faulty => status \in {"FINISHED", "PREPARING"}
    BY <1>7 DEF NothingDue, OnCourse
  <2>2. /\ Faulty' <=> Faulty
        /\ UNCHANGED <<program, program_current, status, is_stopped>>
    BY <1>7 DEF NothingDue, flowVars, programVars, Faulty
  <2> QED BY <2>1, <2>2 DEF FaultInv
<1> QED BY <1>1, <1>2, <1>3, <1>4, <1>5, <1>6, <1>7 DEF ProgramUpdate

LEMMA CommandFault ==
  ASSUME OrderlyDoses, StageInv, FaultInv, NetworkCommand \/ SerialCommand,
         step /= "irrigation"
  PROVE  FaultInv'
<1>0. OrderlyStages /\ ConsoleFlows = {}
  BY DEF OrderlyDoses, OrderlyFlows
<1>1. CASE StartCommand
  <2>1. PICK prog \in Programs, cleaning \in Cleanings : Start(prog, cleaning)
    BY <1>1 DEF StartCommand
  <2>2. WarmUp /\ program' = prog /\ program_current' = prog
    BY <1>0, <1>1, <2>1 DEF StartCommand, Start, OrderlyStages
  <2>3. prog \in GroupsOrBoth
    BY DEF OrderlyDoses
  <2> QED BY <2>2, <2>3 DEF WarmUp, FaultInv
<1>2. CASE StopCommand
  BY <1>2, ForceStopFault DEF StopCommand
<1>3. CASE ResumeCommand
  <2>1. /\ WarmUp /\ is_stopped /= "NOT_DETECTED"
        /\ UNCHANGED <<program_current, is_stopped>>
    BY <1>3 DEF ResumeCommand, Resume, StageInv, StoppedAtRest
  <2> QED BY <2>1 DEF WarmUp, flowVars, FaultInv, Faulty
<1>4. CASE ToggleCommand \/ ConfigureCommand \/ DetectionCommand \/ NoCommand
  BY <1>4, FaultKept DEF ToggleCommand, ConfigureCommand, DetectionCommand,
     NoCommand, flowVars, programVars, Faulty
<1>5. CASE Console
  BY <1>0, <1>5 DEF Console
<1> QED BY <1>1, <1>2, <1>3, <1>4, <1>5 DEF NetworkCommand, SerialCommand

(* A fault is raised only by a flow whose time is not over, and such a     *)
(* flow belongs to the stage that is on.                                   *)
LEMMA FlowUpdateFault ==
  ASSUME OrderlyDoses, TypeOK, FlowInv, FaultInv,
         At("flow", "irrigation"), FlowUpdate, UNCHANGED programVars
  PROVE  FaultInv'
<1>1. /\ UNCHANGED <<program, program_current, status, is_stopped>>
      /\ is_faulty_detection_active' = is_faulty_detection_active
  BY DEF programVars
<1>2. CASE fault_status' = fault_status
  BY <1>1, <1>2 DEF FaultInv, Faulty, At
<1>3. CASE fault_status' /= fault_status
  <2>1. Checked /= {}
    BY <1>3 DEF FlowUpdate, Verdict, Abnormal
  <2>2. PICK f \in flow_active : f \notin Finished
    BY <2>1 DEF Checked, Running
  <2>3. FlowFits(f) /\ f \in Running
    BY DEF FlowInv, Running
  <2>4. ~Expired(f)
    BY <2>2, <2>3 DEF Finished, FlowFits, Fits, TimePassed, Expired
  <2>5. status = "READY" /\ f \in FlowsOf(program_current)
    BY <2>3, <2>4 DEF FlowFits
  <2>6. program_current /= "GARDEN"
    BY DEF FlowInv, Asked, OrderlyDoses, GroupsOrBoth, GroupPrograms
  <2>7. program_current \in GroupPrograms
    BY <2>5, <2>6 DEF FlowsOf
  <2> QED BY <1>1, <2>5, <2>7 DEF FaultInv, GroupsOrBoth, At
<1> QED BY <1>2, <1>3

LEMMA FaultNext ==
  ASSUME OrderlyDoses, TypeOK, StageInv, FlowInv, FaultInv, [Next]_vars
  PROVE  FaultInv'
<1>1. CASE At("flow", "irrigation") /\ FlowUpdate /\ UNCHANGED programVars
  BY <1>1, FlowUpdateFault
<1>2. CASE At("irrigation", "network") /\ ProgramUpdate
  BY <1>2, UpdateFault
<1>3. CASE \/ At("network", "serial") /\ NetworkCommand
           \/ At("serial", "device") /\ SerialCommand
  BY <1>3, CommandFault DEF At
<1>4. CASE \/ At("device", "sensor") /\ DeviceUpdate
                /\ UNCHANGED <<flowVars, sensorVars, programVars>>
           \/ At("sensor", "flow") /\ SensorUpdate /\ UNCHANGED programVars
           \/ Tick
           \/ UNCHANGED vars
  <2>1. /\ UNCHANGED <<fault_status, is_faulty_detection_active, program,
                       program_current, status, is_stopped>>
        /\ step' = step \/ step /= "irrigation"
    BY <1>4 DEF At, SensorUpdate, Tick, FlowTick, vars, flowVars, programVars
  <2> QED BY <2>1, FaultKept DEF Faulty
<1>5. CASE Reset
  BY <1>5, NoFault DEF Reset, FlowReset, Faulty
<1> QED BY <1>1, <1>2, <1>3, <1>4, <1>5 DEF Next, Loop

(* When commands are taken, no program that irrigates or runs down has a   *)
(* fault pending: a new one has stopped it in the same turn of the loop,   *)
(* and an old one was cleared where the program began or was resumed,      *)
(* cleaning after the groups included.                                     *)
THEOREM FaultAnsweredHolds ==
  ASSUME OrderlyDoses
  PROVE  Spec => []FaultAnswered
<1>1. OrderlyFlows /\ OrderlyStages
  BY DEF OrderlyDoses, OrderlyFlows
<1>2. TypeOK /\ StageInv /\ [Next]_vars => StageInv'
  BY <1>1, StageNext
<1>3. TypeOK /\ StageInv /\ FlowInv /\ [Next]_vars => FlowInv'
  BY <1>1, FlowNext
<1>4. TypeOK /\ StageInv /\ FlowInv /\ FaultInv /\ [Next]_vars => FaultInv'
  BY FaultNext
<1>5. Init => FaultInv
  BY DEF Init, ControlFlowInit, ProgramInit, FaultInv, Faulty
<1>6. FaultInv => FaultAnswered
  BY DEF FaultInv, FaultAnswered
<1> QED BY <1>2, <1>3, <1>4, <1>5, <1>6, InitType, NextType, StageInit, FlowInit,
           PTL DEF Spec
-----------------------------------------------------------------------------
(* Full watering: STOP is not sent while the generator warms up, and the   *)
(* duration of the programs does not change.                               *)
OrderlyWatering ==
  /\ OrderlyStages
  /\ LeftToPrograms
  /\ "PREPARING" \notin StopIn
  /\ \A c, d \in Configs : c.program_duration = d.program_duration

(* The group has had water for that long, or for the whole program.        *)
WateredFor(age) == watered >= age \/ watered >= config.program_duration

(* A group that is on has had water since its stage began, but for the     *)
(* pieces cut out by stops; one that is stopped had it for what had passed *)
(* of the stage; one that is over had all of it.                           *)
WaterInv ==
  /\ config \in Configs
  /\ watered \in Age
  /\ program_current \in GroupPrograms =>
       /\ status = "READY" => WateredFor(time_program_start)
       /\ is_stopped /= "NOT_DETECTED" =>
            WateredFor(time_program_stop) /\ time_program_start >= time_program_stop
       /\ status = "FINISHING" =>
            watered >= config.program_duration /\ DurationOver

(* A group was watered enough when its stage is over.                      *)
GroupsOver == Group1Over \/ Group2Over \/ BothFirstOver \/ BothSecondOver
WaterStep == GroupsOver => watered >= config.program_duration

(* The numbers the proofs below are about.                                 *)
LEMMA WaterNumbers ==
  ASSUME TypeOK, TypeOK', WaterInv, Observe
  PROVE  /\ time_program_start \in Nat /\ time_program_start' \in Nat
         /\ time_program_stop \in Nat /\ config.program_duration \in Nat
         /\ watered \in Nat /\ watered' \in Age /\ watered' \in Nat
         /\ time_program_start' = 0 => watered' = 0
         /\ time_program_start' /= 0 => watered' >= watered
<1>1. /\ time_program_start \in Nat /\ time_program_start' \in Nat
      /\ time_program_stop \in Nat /\ config.program_duration \in Nat
      /\ watered \in Nat
  BY AgeFacts DEF TypeOK, ConfigRecords, WaterInv
<1>2. /\ time_program_start' = 0 => watered' = 0
      /\ time_program_start' /= 0 => watered' = Older(watered) \/ watered' = watered
  BY DEF Observe
<1>3. watered' \in Age
  BY <1>2, AgeFacts DEF WaterInv
<1>4. time_program_start' /= 0 => watered' >= watered
  BY <1>1, <1>2, OlderMore DEF WaterInv
<1> QED BY <1>1, <1>2, <1>3, <1>4, AgeFacts

LEMMA SameDuration ==
  ASSUME OrderlyWatering, config \in Configs, config' \in Configs
  PROVE  config'.program_duration = config.program_duration
BY DEF OrderlyWatering

(* What most steps do.                                                     *)
LEMMA WaterKept ==
  ASSUME OrderlyWatering, TypeOK, TypeOK', WaterInv, Observe, config' \in Configs,
         UNCHANGED <<program_current, is_stopped, time_program_start, time_program_stop>>,
         status' = status \/ status' \notin {"READY", "FINISHING"}
  PROVE  WaterInv'
<1>1. config'.program_duration = config.program_duration
  BY SameDuration DEF WaterInv
<1> QED BY <1>1, WaterNumbers DEF WaterInv, WateredFor, DurationOver

(* Nothing is watered that has to be watered enough.                       *)
LEMMA WaterFree ==
  ASSUME TypeOK, TypeOK', WaterInv, Observe, config' \in Configs,
         \/ program_current' \notin GroupPrograms
         \/ /\ status' \notin {"READY", "FINISHING"}
            /\ is_stopped' = "NOT_DETECTED"
         \/ /\ status' = "READY" /\ is_stopped' = "NOT_DETECTED"
            /\ time_program_start' = 0
  PROVE  WaterInv'
<1>1. watered' \in Age /\ (time_program_start' = 0 => watered' >= 0)
  BY WaterNumbers
<1> QED BY <1>1 DEF WaterInv, WateredFor

LEMMA ForceStopWater ==
  ASSUME OrderlyWatering, TypeOK, TypeOK', StageInv, WaterInv, Observe, ForceStop,
         status \in {"READY", "FINISHING"}
  PROVE  WaterInv'
<1>1. /\ UNCHANGED <<program_current, config, time_program_start>>
      /\ time_program_stop' = time_program_start
      /\ status' = "FINISHED"
  BY DEF ForceStop
<1>2. program_current \in GroupPrograms => WateredFor(time_program_start)
  BY DEF WaterInv, WateredFor
<1> QED BY <1>1, <1>2, WaterNumbers DEF WaterInv, WateredFor

LEMMA BeginWater ==
  ASSUME TypeOK, TypeOK', WaterInv, Observe, NEW prog, NEW current, NEW cleaning,
         NEW on, NEW off, Begin(prog, current, cleaning, on, off), status' = "READY"
  PROVE  WaterInv'
<1>1. /\ program_current' = current /\ is_stopped' = "NOT_DETECTED"
      /\ config' \in Configs
      /\ current /= "UNKNOWN" => time_program_start' = 0
  BY DEF Begin, WaterInv
<1> QED BY <1>1, WaterFree DEF GroupPrograms

LEMMA FinishWater ==
  ASSUME OrderlyWatering, TypeOK, TypeOK', StageInv, WaterInv, Observe,
         status = "READY", NEW off, Finish(off),
         program_current \in GroupPrograms => DurationOver
  PROVE  WaterInv'
<1>1. /\ UNCHANGED <<program_current, config, time_program_start, is_stopped>>
      /\ status' = "FINISHING"
  BY DEF Finish
<1>2. is_stopped = "NOT_DETECTED"
  BY DEF StageInv, StoppedAtRest
<1> QED BY <1>1, <1>2, WaterNumbers DEF WaterInv, WateredFor, DurationOver

LEMMA FinishGroupsWater ==
  ASSUME OrderlyWatering, TypeOK, TypeOK', StageInv, WaterInv, Observe,
         status = "READY", NEW off, FinishGroups(off), DurationOver
  PROVE  WaterInv'
<1>1. CASE is_cleaning
  BY <1>1, BeginWater DEF FinishGroups
<1>2. CASE ~is_cleaning
  BY <1>2, FinishWater DEF FinishGroups
<1> QED BY <1>1, <1>2

LEMMA ContinueWater ==
  ASSUME TypeOK, TypeOK', WaterInv, Observe, is_stopped /= "NOT_DETECTED",
         NEW on, Continue(on), status' = "READY"
  PROVE  WaterInv'
<1>1. /\ UNCHANGED <<program_current, config>>
      /\ is_stopped' = "NOT_DETECTED"
      /\ program_current \in GroupPrograms => time_program_start' = time_program_stop
  BY DEF Continue, ResumedAge, GroupPrograms
<1> QED BY <1>1, WaterNumbers DEF WaterInv, WateredFor

LEMMA UpdateWater ==
  ASSUME OrderlyWatering, TypeOK, TypeOK', StageInv, WaterInv, Observe, ProgramUpdate
  PROVE  WaterInv'
<1>1. CASE PumpStart
  BY <1>1, BeginWater, ContinueWater DEF PumpStart
<1>2. CASE FaultStop
  BY <1>2, ForceStopWater DEF FaultStop
<1>3. CASE GeneratorStop
  BY <1>3, WaterKept DEF GeneratorStop, WaterInv
<1>4. CASE Group1Over \/ Group2Over \/ BothSecondOver
  BY <1>4, FinishGroupsWater DEF Group1Over, Group2Over, BothSecondOver, OnCourse
<1>5. CASE BothFirstOver
  BY <1>5, BeginWater DEF BothFirstOver, OnCourse
<1>6. ASSUME OnCourse("CLEANING") \/ OnCourse("GARDEN")
      PROVE  program_current \notin GroupPrograms /\ status = "READY"
  BY <1>6, StageOn DEF OnCourse, GroupPrograms
<1>7. CASE CleaningGroup1Over \/ CleaningGroup3Over
  <2>1. /\ program_current' = program_current /\ config' \in Configs
        /\ OnCourse("CLEANING")
    BY <1>7 DEF CleaningGroup1Over, CleaningGroup3Over, CleaningNext, WaterInv
  <2> QED BY <1>6, <2>1, WaterFree
<1>8. CASE CleaningGroup2Over
  BY <1>6, <1>8, FinishWater DEF CleaningGroup2Over
<1>9. CASE GardenOver
  BY <1>6, <1>9, FinishWater DEF GardenOver
<1>10. CASE NothingDue
  BY <1>10, WaterKept DEF NothingDue, programVars, WaterInv
<1> QED BY <1>1, <1>2, <1>3, <1>4, <1>5, <1>7, <1>8, <1>9, <1>10 DEF ProgramUpdate

LEMMA CommandWater ==
  ASSUME OrderlyWatering, TypeOK, TypeOK', StageInv, WaterInv, Observe,
         NetworkCommand \/ SerialCommand
  PROVE  WaterInv'
<1>1. CASE StartCommand
  <2>1. PICK prog \in Programs, cleaning \in Cleanings : Start(prog, cleaning)
    BY <1>1 DEF StartCommand
  <2>2. /\ status' = "PREPARING" /\ is_stopped' = "NOT_DETECTED"
        /\ config' \in Configs
    BY <1>1, <2>1 DEF StartCommand, Start, WarmUp, OrderlyWatering, OrderlyStages,
                      WaterInv
  <2> QED BY <2>2, WaterFree
<1>2. CASE StopCommand
  <2>1. status \in {"READY", "FINISHING"}
    BY <1>2 DEF StopCommand, OrderlyWatering, OrderlyStages, TypeOK, Statuses
  <2> QED BY <1>2, <2>1, ForceStopWater DEF StopCommand
<1>3. CASE ResumeCommand
  <2>1. /\ status' = "PREPARING" /\ config' \in Configs
        /\ UNCHANGED <<program_current, is_stopped, time_program_start,
                       time_program_stop>>
    BY <1>3 DEF ResumeCommand, Resume, WarmUp, StageInv, StoppedAtRest, WaterInv
  <2> QED BY <2>1, WaterKept
<1>4. CASE ToggleCommand \/ ConfigureCommand \/ DetectionCommand \/ NoCommand
  BY <1>4, WaterKept DEF ToggleCommand, ConfigureCommand, DetectionCommand,
     NoCommand, programVars, WaterInv
<1>5. CASE Console /\ UNCHANGED programVars
  BY <1>5, WaterKept DEF programVars, WaterInv
<1> QED BY <1>1, <1>2, <1>3, <1>4, <1>5 DEF NetworkCommand, SerialCommand

(* While a group is on, time and water go together.                        *)
LEMMA TickWater ==
  ASSUME OrderlyWatering, TypeOK, TypeOK', PumpPower, StageInv, WaterInv,
         Observe, Tick
  PROVE  WaterInv'
<1>1. /\ UNCHANGED <<program_current, status, is_stopped, config, time_program_stop>>
      /\ time_program_start' = Older(time_program_start) /\ step' = step
  BY DEF Tick
<1>2. AgeMax \in Nat \ {0} /\ time_program_start \in Age /\ watered \in Age
  BY DeviceAssumption DEF TypeOK, WaterInv
<1>3. time_program_start' /= 0 /\ time_program_start' >= time_program_start
  BY <1>1, <1>2 DEF Older, Age
<1>4. CASE status = "READY" /\ program_current \in GroupPrograms
  <2>1. device_active \cap FieldDevices = Opens(program_current)
    BY <1>4 DEF StageInv, ValvesMatchStage, StageValves, FieldDevices, GroupPrograms
  <2>2. Watering
    BY <1>4, <2>1, FieldTables DEF Watering, PumpPower, GroupPrograms
  <2>3. watered' = Older(watered)
    BY <1>1, <1>3, <2>2 DEF Observe
  <2>4. watered >= time_program_start => watered' >= time_program_start'
    BY <1>1, <1>2, <2>3 DEF Older, Age
  <2>5. is_stopped = "NOT_DETECTED"
    BY <1>4 DEF StageInv, StoppedAtRest
  <2> QED BY <1>1, <1>3, <1>4, <2>4, <2>5, WaterNumbers DEF WaterInv, WateredFor
<1>5. CASE ~(status = "READY" /\ program_current \in GroupPrograms)
  BY <1>1, <1>3, <1>5, WaterNumbers DEF WaterInv, WateredFor, DurationOver
<1> QED BY <1>4, <1>5

LEMMA WaterNext ==
  ASSUME OrderlyWatering, TypeOK, TypeOK', PumpPower, StageInv, WaterInv,
         [Next /\ Observe]_observerVars
  PROVE  WaterInv'
<1>1. CASE UNCHANGED observerVars
  BY <1>1 DEF observerVars, vars, programVars, WaterInv, WateredFor, DurationOver
<1>2. CASE Observe /\ Loop
  <2>1. CASE ProgramUpdate
    BY <1>2, <2>1, UpdateWater
  <2>2. CASE NetworkCommand \/ SerialCommand
    BY <1>2, <2>2, CommandWater
  <2>3. CASE UNCHANGED programVars
    BY <1>2, <2>3, WaterKept DEF programVars, WaterInv
  <2> QED BY <1>2, <2>1, <2>2, <2>3 DEF Loop
<1>3. CASE Observe /\ Tick
  BY <1>3, TickWater
<1>4. CASE Observe /\ Reset
  <2>1. /\ status' = "FINISHED" /\ is_stopped' = "NOT_DETECTED"
        /\ config' \in Configs
    BY <1>4, ControlIrrigationAssumption DEF Reset
  <2> QED BY <1>4, <2>1, WaterFree
<1> QED BY <1>1, <1>2, <1>3, <1>4 DEF Next

LEMMA GroupsWatered ==
  ASSUME TypeOK, StageInv, WaterInv
  PROVE  WaterStep
<1> SUFFICES ASSUME GroupsOver PROVE watered >= config.program_duration
  BY DEF WaterStep
<1>1. /\ status = "READY" /\ DurationOver
      /\ program \in GroupPrograms \cup {"BOTH"}
  BY DEF GroupsOver, Group1Over, Group2Over, BothFirstOver, BothSecondOver,
         OnCourse, GroupPrograms
<1>2. program_current \in GroupPrograms
  BY <1>1 DEF StageInv, StageKnown, UnderWay, StageOf, GroupPrograms
<1>3. WateredFor(time_program_start)
  BY <1>1, <1>2 DEF WaterInv
<1>4. /\ watered \in Nat /\ time_program_start \in Nat
      /\ config.program_duration \in Nat
  BY AgeFacts DEF TypeOK, ConfigRecords, WaterInv
<1> QED BY <1>1, <1>3, <1>4 DEF WateredFor, DurationOver

(* The observer takes nothing from the controller and adds nothing to it.  *)
LEMMA ObserverOnly == ObservedSpec => Spec
<1>1. [Next /\ Observe]_observerVars => [Next]_vars
  BY DEF observerVars
<1> QED BY <1>1, PTL DEF ObservedSpec, Spec

(* A group is left only when it has had water for the whole duration of    *)
(* the program, in however many pieces stops, faults and resumes have cut  *)
(* it, and whatever resets came before.                                    *)
THEOREM FullWateringHolds ==
  ASSUME OrderlyWatering
  PROVE  ObservedSpec => FullWatering
<1>1. OrderlyStages /\ LeftToPrograms
  BY DEF OrderlyWatering
<1>2. TypeOK /\ StageInv /\ [Next]_vars => StageInv'
  BY <1>1, StageNext
<1>3. Spec => []PumpPower
  BY <1>1, PumpPowerHolds
<1>4. TypeOK /\ TypeOK' /\ PumpPower /\ StageInv /\ WaterInv
        /\ [Next /\ Observe]_observerVars => WaterInv'
  BY WaterNext
<1>5. Init /\ watered = 0 => WaterInv
  BY AgeFacts, ControlIrrigationAssumption
  DEF Init, ProgramInit, WaterInv
<1>6. TypeOK /\ StageInv /\ WaterInv => WaterStep
  BY GroupsWatered
<1>7. TypeOK /\ StageInv /\ WaterInv => [WaterStep]_observerVars
  BY <1>6
<1> QED BY <1>2, <1>3, <1>4, <1>5, <1>7, InitType, NextType, StageInit,
           ObserverOnly, PTL
        DEF ObservedSpec, Spec, FullWatering, WaterStep, GroupsOver
-----------------------------------------------------------------------------
(* LessIsLess made inductive: what the sensor of a dosing flow has seen in *)
(* the interval is in its total, on top of what it was checked at; and a   *)
(* flow that is restarted as its program goes on has run out, so that the  *)
(* interval of the detection is under way and starts over.                 *)
Dosers == {MicroFlow, MacroFlow}
SeenCounted == \A f \in Dosers : seen[f] \in Nat /\ seen[f] + pulses_last[f] <= Total(f)
FreshUnexpired ==
  (step = "irrigation" /\ fault_time_last = 0) => \A f \in flow_active : ~Expired(f)
SeenInv == SeenCounted /\ FreshUnexpired

LessStep ==
  (/\ At("flow", "irrigation") /\ CheckDue /\ Abnormal /= {}
   /\ fault_status' = "FLOW_LESS") =>
    \E f \in Checked : seen[FlowSensor[f]] < FaultMinimum

LEMMA DoserTables ==
  /\ Dosers \subseteq Flows /\ Dosers \subseteq Sensors
  /\ \A f \in Dosers : FlowSensor[f] = f
  /\ GardenFlow \in Flows /\ FlowSensor[GardenFlow] = 0 /\ 0 \notin Dosers
  /\ GardenFlow \notin Dosers
BY DEF Dosers, MicroFlow, MacroFlow, GardenFlow, Flows, Sensors, FlowSensor

LEMMA SeenNumbers ==
  ASSUME TypeOK, NEW f \in Dosers
  PROVE  Total(f) = pulses_total[f] /\ pulses_total[f] \in Nat /\ pulses_last[f] \in Nat
BY DoserTables DEF TypeOK, ControlFlowTypeOK, Total

LEMMA TotalNext == \A f \in Dosers : Total(f)' = pulses_total'[f]
BY DoserTables DEF Total

(* What the observer makes of its counts but for sensor_flow_update.       *)
LEMMA ObserveSeen ==
  ASSUME Observe, NEW f \in Dosers, step' = step \/ step /= "sensor"
  PROVE  /\ seen'[f] \in {0, seen[f]}
         /\ (step' /= step /\ IntervalStarts) => seen'[f] = 0
BY DoserTables DEF Observe

(* What most steps do.                                                     *)
LEMMA SeenKept ==
  ASSUME TypeOK, SeenCounted, Observe, step' = step \/ step /= "sensor",
         \A f \in Dosers : /\ pulses_last'[f] = pulses_last[f]
                           /\ pulses_total'[f] = pulses_total[f]
  PROVE  SeenCounted'
<1> SUFFICES ASSUME NEW f \in Dosers
             PROVE  seen'[f] \in Nat /\ seen'[f] + pulses_last'[f] <= Total(f)'
  BY DEF SeenCounted, Dosers
<1>1. seen'[f] \in {0, seen[f]} /\ Total(f)' = pulses_total'[f]
  BY ObserveSeen, TotalNext
<1>2. seen[f] \in Nat /\ seen[f] + pulses_last[f] <= pulses_total[f]
  BY SeenNumbers DEF SeenCounted
<1> QED BY <1>1, <1>2, SeenNumbers

LEMMA SensorSeen ==
  ASSUME TypeOK, SeenCounted, Observe, At("sensor", "flow"), SensorUpdate
  PROVE  SeenCounted'
<1> SUFFICES ASSUME NEW f \in Dosers
             PROVE  seen'[f] \in Nat /\ seen'[f] + pulses_last'[f] <= Total(f)'
  BY DEF SeenCounted, Dosers
<1>1. PICK n \in [LiveSensors -> 0..PulsesStep] :
        pulses_total' = [s \in Sensors |->
          IF s \in LiveSensors /\ pulses_total[s] + n[s] <= PulsesMax
          THEN pulses_total[s] + n[s] ELSE pulses_total[s]]
  BY DEF SensorUpdate
<1>2. f \in Sensors /\ pulses_total[f] \in Nat /\ pulses_last[f] \in Nat
  BY DoserTables, SeenNumbers
<1>3. f \in LiveSensors => n[f] \in Nat
  BY ControlFlowAssumption
<1>4. pulses_total'[f] \in Nat /\ pulses_total'[f] >= pulses_total[f]
  BY <1>1, <1>2, <1>3
<1>5. seen'[f] = seen[f] + pulses_total'[f] - pulses_total[f]
  BY <1>2 DEF Observe, At
<1>6. seen[f] \in Nat /\ seen[f] + pulses_last[f] <= pulses_total[f]
  BY SeenNumbers DEF SeenCounted
<1>7. pulses_last'[f] = pulses_last[f] /\ Total(f)' = pulses_total'[f]
  BY TotalNext DEF SensorUpdate, flowVars
<1> QED BY <1>2, <1>4, <1>5, <1>6, <1>7

LEMMA FlowUpdateSeen ==
  ASSUME TypeOK, SeenCounted, Observe, At("flow", "irrigation"), FlowUpdate
  PROVE  SeenCounted'
<1> SUFFICES ASSUME NEW f \in Dosers
             PROVE  seen'[f] \in Nat /\ seen'[f] + pulses_last'[f] <= Total(f)'
  BY DEF SeenCounted, Dosers
<1>1. /\ Total(f)' = pulses_total[f] /\ pulses_total[f] \in Nat
      /\ Total(f) = pulses_total[f] /\ pulses_last[f] \in Nat
  BY TotalNext, SeenNumbers DEF FlowUpdate, sensorVars
<1>2. seen[f] \in Nat /\ seen[f] + pulses_last[f] <= pulses_total[f]
  BY <1>1 DEF SeenCounted
<1>3. CASE CheckDue
  <2>1. seen'[f] = 0
    BY <1>3, ObserveSeen DEF At, IntervalStarts
  <2>2. pulses_last'[f] = Total(f) \/ pulses_last'[f] = pulses_last[f]
    BY <1>3, DoserTables DEF FlowUpdate
  <2> QED BY <1>1, <1>2, <2>1, <2>2
<1>4. CASE ~CheckDue
  <2>1. seen'[f] \in {0, seen[f]} /\ pulses_last'[f] = pulses_last[f]
    BY <1>4, ObserveSeen DEF FlowUpdate, At
  <2> QED BY <1>1, <1>2, <2>1
<1> QED BY <1>3, <1>4

(* The start of a stage, in which no flow is active but such as ran out.   *)
LEMMA BeginSeen ==
  ASSUME TypeOK, FlowInv, SeenInv, Observe, step = "irrigation", step' = "network",
         NEW prog, NEW current, NEW cleaning, NEW on, NEW off,
         Begin(prog, current, cleaning, on, off),
         \A f \in flow_active : Expired(f)
  PROVE  SeenCounted'
<1>1. CASE Doses(current)
  <2>1. FlowsStart({MicroFlow, MacroFlow}, config.deliver_volume,
                   config.deliver_time, {FlowSensor[WaterFlow]})
    BY <1>1 DEF Begin, Doses, GroupPrograms
  <2>2. IntervalStarts
    <3>1. fault_time_last' = 0 /\ flow_active' = flow_active \cup Dosers
      BY <2>1 DEF FlowsStart, Dosers
    <3>2. CASE fault_time_last = 0
      <4>1. flow_active = {}
        BY <3>2 DEF SeenInv, FreshUnexpired
      <4>2. MicroFlow \in flow_active' \ flow_active
        BY <3>1, <4>1 DEF Dosers
      <4> QED BY <3>1, <4>2 DEF IntervalStarts
    <3>3. CASE fault_time_last /= 0
      <4>1. fault_time_last \in Nat
        BY AgeFacts DEF TypeOK, ControlFlowTypeOK
      <4>2. fault_time_last > 0
        BY <3>3, <4>1
      <4> QED BY <3>1, <4>2, Zenon DEF IntervalStarts
    <3> QED BY <3>2, <3>3
  <2>3. ASSUME NEW f \in Dosers
        PROVE  seen'[f] \in Nat /\ seen'[f] + pulses_last'[f] <= Total(f)'
    <3>1. seen'[f] = 0
      BY <2>2, ObserveSeen
    <3>2. pulses_last'[f] = 0
      BY <2>1, DoserTables DEF FlowsStart, Dosers
    <3>3. f \in {FlowSensor[g] : g \in Dosers}
      BY DoserTables
    <3>4. Total(f)' = 0
      BY <2>1, <3>3, TotalNext, DoserTables DEF FlowsStart, Dosers
    <3> QED BY <3>1, <3>2, <3>4
  <2> QED BY <2>3 DEF SeenCounted, Dosers
<1>2. CASE ~Doses(current) /\ current = "GARDEN"
  <2>1. FlowsStart({GardenFlow}, 0, GardenSeconds, {})
    BY <1>2 DEF Begin
  <2>2. \A f \in Dosers : f \notin {} \cup {FlowSensor[g] : g \in {GardenFlow}}
    BY DoserTables
  <2>3. \A f \in Dosers : /\ pulses_last'[f] = pulses_last[f]
                          /\ pulses_total'[f] = pulses_total[f]
    BY <2>1, <2>2, DoserTables DEF FlowsStart
  <2> QED BY <2>3, SeenKept DEF SeenInv
<1>3. CASE ~Doses(current) /\ current /= "GARDEN"
  BY <1>3, SeenKept DEF Begin, flowVars, sensorVars, SeenInv
<1> QED BY <1>1, <1>2, <1>3

LEMMA UpdateSeen ==
  ASSUME TypeOK, StageInv, FlowInv, SeenInv, Observe, ProgramUpdate,
         step = "irrigation", step' = "network"
  PROVE  SeenCounted'
<1>0. /\ flow_active /= {} => status = "READY"
      /\ DurationOver => \A f \in flow_active : Expired(f)
  BY FlowsDue
<1>1. CASE UNCHANGED <<pulses_last, pulses_total>>
  BY <1>1, SeenKept DEF SeenInv
<1>2. ASSUME NEW off, FinishGroups(off), DurationOver
      PROVE  SeenCounted'
  <2>1. CASE is_cleaning
    BY <1>0, <1>2, <2>1, BeginSeen DEF FinishGroups
  <2>2. CASE ~is_cleaning
    BY <1>1, <1>2, <2>2 DEF FinishGroups, Finish, flowVars, sensorVars
  <2> QED BY <2>1, <2>2
<1>3. CASE PumpStart
  <2>1. \A f \in flow_active : Expired(f)
    BY <1>0, <1>3 DEF PumpStart
  <2>2. CASE Continue({PumpWell})
    BY <1>1, <2>2 DEF Continue, sensorVars
  <2> QED BY <1>3, <2>1, <2>2, BeginSeen DEF PumpStart
<1>4. CASE Group1Over \/ Group2Over \/ BothSecondOver
  BY <1>2, <1>4 DEF Group1Over, Group2Over, BothSecondOver
<1>5. CASE BothFirstOver
  BY <1>0, <1>5, BeginSeen DEF BothFirstOver
<1>6. CASE FaultStop \/ GeneratorStop \/ GardenOver \/ CleaningGroup2Over
  BY <1>1, <1>6 DEF FaultStop, ForceStop, GeneratorStop, GardenOver,
     CleaningGroup2Over, Finish, flowVars, sensorVars
<1>7. CASE CleaningGroup1Over \/ CleaningGroup3Over \/ NothingDue
  BY <1>1, <1>7 DEF CleaningGroup1Over, CleaningGroup3Over, CleaningNext,
     NothingDue, flowVars, sensorVars
<1> QED BY <1>3, <1>4, <1>5, <1>6, <1>7 DEF ProgramUpdate

LEMMA CommandSeen ==
  ASSUME OrderlyFlows, TypeOK, StageInv, SeenInv, Observe,
         NetworkCommand \/ SerialCommand, step /= "sensor"
  PROVE  SeenCounted'
<1>0. OrderlyStages /\ ConsoleFlows = {}
  BY DEF OrderlyFlows
<1>1. UNCHANGED <<pulses_last, pulses_total>>
  <2>1. CASE StartCommand
    BY <1>0, <2>1 DEF StartCommand, Start, WarmUp, flowVars, sensorVars, OrderlyStages
  <2>2. CASE StopCommand
    BY <2>2 DEF StopCommand, ForceStop, sensorVars
  <2>3. CASE ResumeCommand
    BY <2>3 DEF ResumeCommand, Resume, WarmUp, Continue, flowVars, sensorVars
  <2>4. CASE ToggleCommand \/ ConfigureCommand \/ DetectionCommand \/ NoCommand
    BY <2>4 DEF ToggleCommand, ConfigureCommand, DetectionCommand, NoCommand,
                flowVars, sensorVars
  <2>5. CASE Console
    BY <1>0, <2>5 DEF Console
  <2> QED BY <2>1, <2>2, <2>3, <2>4, <2>5 DEF NetworkCommand, SerialCommand
<1> QED BY <1>1, SeenKept DEF SeenInv

LEMMA SeenInit ==
  ASSUME Init, seen = [s \in Sensors |-> 0]
  PROVE  SeenInv
<1>1. \A f \in Dosers : seen[f] = 0 /\ pulses_last[f] = 0 /\ pulses_total[f] = 0
  BY DoserTables DEF Init, ControlFlowInit
<1>2. \A f \in Dosers : Total(f) = 0
  BY <1>1, DoserTables DEF Total
<1> QED BY <1>1, <1>2 DEF Init, ProgramInit, SeenInv, SeenCounted, FreshUnexpired

LEMMA SeenNext ==
  ASSUME OrderlyFlows, ~CanReset, TypeOK, StageInv, FlowInv, SeenInv,
         [Next /\ Observe]_observerVars
  PROVE  SeenInv'
<1>1. CASE UNCHANGED observerVars
  BY <1>1 DEF observerVars, vars, flowVars, sensorVars, SeenInv, SeenCounted,
     FreshUnexpired, Dosers, Total, Expired
<1>2. CASE Observe /\ Tick
  <2>1. UNCHANGED <<pulses_last, pulses_total, step>>
    BY <1>2 DEF Tick, FlowTick, sensorVars
  <2>2. fault_time_last' /= 0
    <3>1. AgeMax \in Nat \ {0} /\ fault_time_last \in Age
      BY DeviceAssumption DEF TypeOK, ControlFlowTypeOK
    <3>2. fault_time_last' = Older(fault_time_last)
      BY <1>2 DEF Tick, FlowTick
    <3> QED BY <3>1, <3>2 DEF Older, Age
  <2> QED BY <1>2, <2>1, <2>2, SeenKept DEF SeenInv, FreshUnexpired
<1>3. CASE Observe /\ At("flow", "irrigation") /\ FlowUpdate /\ UNCHANGED programVars
  <2>1. \A f \in flow_active' : ~Expired(f)
    BY <1>3, FlowUpdateFit
  <2>2. UNCHANGED <<time_start, time_to_deliver>>
    BY <1>3 DEF FlowUpdate
  <2>3. FreshUnexpired'
    BY <2>1, <2>2 DEF FreshUnexpired, Expired
  <2> QED BY <1>3, <2>3, FlowUpdateSeen DEF SeenInv
<1>4. CASE Observe /\ Loop /\ step' /= "irrigation"
  <2>1. SeenCounted'
    <3>1. CASE At("irrigation", "network") /\ ProgramUpdate
      BY <1>4, <3>1, UpdateSeen DEF At
    <3>2. CASE At("sensor", "flow") /\ SensorUpdate
      BY <1>4, <3>2, SensorSeen DEF SeenInv
    <3>3. CASE At("device", "sensor")
                 /\ UNCHANGED <<flowVars, sensorVars, programVars>>
      BY <1>4, <3>3, SeenKept DEF At, flowVars, sensorVars, SeenInv
    <3>4. CASE \/ At("network", "serial") /\ NetworkCommand
               \/ At("serial", "device") /\ SerialCommand
      BY <1>4, <3>4, CommandSeen DEF At
    <3> QED BY <1>4, <3>1, <3>2, <3>3, <3>4 DEF Loop, At
  <2> QED BY <1>4, <2>1 DEF SeenInv, FreshUnexpired
<1>5. Next /\ step' = "irrigation" =>
        (At("flow", "irrigation") /\ FlowUpdate /\ UNCHANGED programVars) \/ Tick
  BY DEF Next, Loop, At, Reset
<1>6. Next => Loop \/ Tick
  BY DEF Next, Reset
<1> QED BY <1>1, <1>2, <1>3, <1>4, <1>5, <1>6

(* The verdict of the detection is that of the highest abnormal flow.      *)
LEMMA LastIsAbnormal ==
  ASSUME Abnormal /= {}, Abnormal \subseteq Dosers
  PROVE  LastAbnormal \in Abnormal
<1>1. \E f \in Abnormal : \A g \in Abnormal : g <= f
  <2>1. CASE MacroFlow \in Abnormal
    BY <2>1 DEF Dosers, MicroFlow, MacroFlow
  <2>2. CASE MacroFlow \notin Abnormal
    <3>1. Abnormal = {MicroFlow}
      BY <2>2 DEF Dosers
    <3> QED BY <3>1 DEF MicroFlow
  <2> QED BY <2>1, <2>2
<1> QED BY <1>1 DEF LastAbnormal

LEMMA LessReported ==
  ASSUME TypeOK, FlowInv, SeenInv, Next
  PROVE  LessStep
<1> SUFFICES ASSUME At("flow", "irrigation"), CheckDue, Abnormal /= {},
                    fault_status' = "FLOW_LESS"
             PROVE  \E f \in Checked : seen[FlowSensor[f]] < FaultMinimum
  BY DEF LessStep
<1>1. FlowUpdate
  BY DEF Next, Loop, At, Tick, Reset
<1>2. Less(LastAbnormal)
  BY <1>1 DEF FlowUpdate, Verdict
<1>3. Abnormal \subseteq Checked /\ Abnormal \subseteq Dosers
  BY DEF Abnormal, Checked, Running, FlowInv, Dosers
<1>5. LastAbnormal \in Abnormal
  BY <1>3, LastIsAbnormal
<1> DEFINE f == LastAbnormal
<1>6. f \in Dosers /\ f \in Checked /\ FlowSensor[f] = f
  BY <1>3, <1>5, DoserTables
<1>7. /\ Total(f) \in Nat /\ pulses_last[f] \in Nat /\ seen[f] \in Nat
      /\ seen[f] + pulses_last[f] <= Total(f)
  BY <1>6, SeenNumbers DEF SeenInv, SeenCounted
<1>8. Total(f) - pulses_last[f] < FaultMinimum /\ FaultMinimum \in Nat
  BY <1>2, ControlFlowAssumption DEF Less
<1>9. seen[f] < FaultMinimum
  BY <1>7, <1>8
<1> QED BY <1>6, <1>9

(* A flow is reported as too small only if the sensor of a flow that was   *)
(* checked has really seen too few pulses since the detection started its  *)
(* interval: no restart, resume or end of a flow makes it count less.      *)
THEOREM LessIsLessHolds ==
  ASSUME OrderlyFlows, ~CanReset
  PROVE  ObservedSpec => LessIsLess
<1>1. OrderlyStages
  BY DEF OrderlyFlows
<1>2. TypeOK /\ StageInv /\ [Next]_vars => StageInv'
  BY <1>1, StageNext
<1>3. TypeOK /\ StageInv /\ FlowInv /\ [Next]_vars => FlowInv'
  BY FlowNext
<1>4. TypeOK /\ StageInv /\ FlowInv /\ SeenInv /\ [Next /\ Observe]_observerVars
        => SeenInv'
  BY SeenNext
<1>5. Init /\ seen = [s \in Sensors |-> 0] => SeenInv
  BY SeenInit
<1>6. TypeOK /\ FlowInv /\ SeenInv /\ [Next /\ Observe]_observerVars
        => [LessStep]_observerVars
  BY LessReported
<1> QED BY <1>2, <1>3, <1>4, <1>5, <1>6, InitType, NextType, StageInit, FlowInit,
           ObserverOnly, PTL
        DEF ObservedSpec, Spec, LessIsLess, LessStep
-----------------------------------------------------------------------------
(* The programs keep to their plan.  Concatenations of known length.       *)
LEMMA OneBeforeThree ==
  ASSUME NEW p, NEW a, NEW b, NEW c
  PROVE  <<p>> \o <<a, b, c>> = <<p, a, b, c>>
<1> DEFINE S == {p, a, b, c}
           s == <<p>> \o <<a, b, c>>
           t == <<p, a, b, c>>
<1>1. /\ <<p>> \in Seq(S) /\ <<a, b, c>> \in Seq(S) /\ t \in Seq(S)
      /\ Len(<<p>>) = 1 /\ Len(<<a, b, c>>) = 3 /\ Len(t) = 4
      /\ <<p>>[1] = p
      /\ <<a, b, c>>[1] = a /\ <<a, b, c>>[2] = b /\ <<a, b, c>>[3] = c
      /\ t[1] = p /\ t[2] = a /\ t[3] = b /\ t[4] = c
  OBVIOUS
<1>2. /\ s \in Seq(S) /\ Len(s) = 4
      /\ \A i \in 1..4 : s[i] = IF i <= 1 THEN <<p>>[i] ELSE <<a, b, c>>[i - 1]
  BY <1>1, ConcatProperties
<1>3. s[1] = p /\ s[2] = a /\ s[3] = b /\ s[4] = c
  BY <1>1, <1>2
<1>4. \A i \in 1..4 : i = 1 \/ i = 2 \/ i = 3 \/ i = 4
  OBVIOUS
<1> HIDE DEF s, t, S
<1>5. \A i \in 1..Len(s) : s[i] = t[i]
  BY <1>1, <1>2, <1>3, <1>4
<1>6. s = t
  BY <1>1, <1>2, <1>5, SeqEqual
<1> QED BY <1>6 DEF s, t

LEMMA TwoBeforeThree ==
  ASSUME NEW p, NEW q, NEW a, NEW b, NEW c
  PROVE  <<p, q>> \o <<a, b, c>> = <<p, q, a, b, c>>
<1> DEFINE S == {p, q, a, b, c}
           s == <<p, q>> \o <<a, b, c>>
           t == <<p, q, a, b, c>>
<1>1. /\ <<p, q>> \in Seq(S) /\ <<a, b, c>> \in Seq(S) /\ t \in Seq(S)
      /\ Len(<<p, q>>) = 2 /\ Len(<<a, b, c>>) = 3 /\ Len(t) = 5
      /\ <<p, q>>[1] = p /\ <<p, q>>[2] = q
      /\ <<a, b, c>>[1] = a /\ <<a, b, c>>[2] = b /\ <<a, b, c>>[3] = c
      /\ t[1] = p /\ t[2] = q /\ t[3] = a /\ t[4] = b /\ t[5] = c
  OBVIOUS
<1>2. /\ s \in Seq(S) /\ Len(s) = 5
      /\ \A i \in 1..5 : s[i] = IF i <= 2 THEN <<p, q>>[i] ELSE <<a, b, c>>[i - 2]
  BY <1>1, ConcatProperties
<1>3. s[1] = p /\ s[2] = q /\ s[3] = a /\ s[4] = b /\ s[5] = c
  BY <1>1, <1>2
<1>4. \A i \in 1..5 : i = 1 \/ i = 2 \/ i = 3 \/ i = 4 \/ i = 5
  OBVIOUS
<1> HIDE DEF s, t, S
<1>5. \A i \in 1..Len(s) : s[i] = t[i]
  BY <1>1, <1>2, <1>3, <1>4
<1>6. s = t
  BY <1>1, <1>2, <1>5, SeqEqual
<1> QED BY <1>6 DEF s, t

LEMMA OneBeforeNone == ASSUME NEW p PROVE <<p>> \o <<>> = <<p>>
OBVIOUS

LEMMA TwoBeforeNone == ASSUME NEW p, NEW q PROVE <<p, q>> \o <<>> = <<p, q>>
OBVIOUS

LEMMA OneStage ==
  ASSUME NEW p
  PROVE  Head(<<p>>) = p /\ Tail(<<p>>) = <<>>
<1>1. Head(<<p>>) = p
  OBVIOUS
<1>2. Tail(<<p>>) = <<>>
  OBVIOUS
<1> QED BY <1>1, <1>2

LEMMA FourStages ==
  ASSUME NEW p, NEW a, NEW b, NEW c
  PROVE  Head(<<p, a, b, c>>) = p /\ Tail(<<p, a, b, c>>) = <<a, b, c>>
<1>1. Head(<<p, a, b, c>>) = p
  OBVIOUS
<1>2. Tail(<<p, a, b, c>>) = <<a, b, c>>
  OBVIOUS
<1> QED BY <1>1, <1>2

LEMMA FiveStages ==
  ASSUME NEW p, NEW q, NEW a, NEW b, NEW c
  PROVE  Head(<<p, q, a, b, c>>) = p /\ Tail(<<p, q, a, b, c>>) = <<q, a, b, c>>
<1>1. Head(<<p, q, a, b, c>>) = p
  OBVIOUS
<1>2. Tail(<<p, q, a, b, c>>) = <<q, a, b, c>>
  OBVIOUS
<1> QED BY <1>1, <1>2

LEMMA TwoStages ==
  ASSUME NEW p, NEW q
  PROVE  Head(<<p, q>>) = p /\ Tail(<<p, q>>) = <<q>> /\ <<q>> /= <<>>
<1>1. Head(<<p, q>>) = p
  OBVIOUS
<1>2. Tail(<<p, q>>) = <<q>>
  OBVIOUS
<1>3. <<q>> /= <<>>
  OBVIOUS
<1> QED BY <1>1, <1>2, <1>3

(* Cleaning, stage by stage.                                               *)
LEMMA CleaningTables ==
  /\ \A c : Course("CLEANING", c) = CleaningStages
  /\ Head(CleaningStages) = "CLEANING_3" /\ CleaningStages /= <<>>
  /\ Tail(CleaningStages) = <<"CLEANING_1", "CLEANING_2">>
  /\ <<"CLEANING_1", "CLEANING_2">> /= <<>>
BY DEF Course, CleaningStages

(* A group is followed by what its program has after it.                   *)
LEMMA GroupTables ==
  ASSUME NEW g \in GroupPrograms, NEW c \in BOOLEAN
  PROVE  /\ Head(Course(g, c)) = g
         /\ c => Tail(Course(g, c)) = CleaningStages
         /\ ~c => Tail(Course(g, c)) = <<>>
<1>1. CASE c
  <2>1. Course(g, c) = <<g>> \o CleaningStages
    BY <1>1 DEF Course, GroupPrograms
  <2>2. Course(g, c) = <<g, "CLEANING_3", "CLEANING_1", "CLEANING_2">>
    BY <2>1, OneBeforeThree DEF CleaningStages
  <2>3. /\ Head(<<g, "CLEANING_3", "CLEANING_1", "CLEANING_2">>) = g
        /\ Tail(<<g, "CLEANING_3", "CLEANING_1", "CLEANING_2">>) = CleaningStages
    BY FourStages DEF CleaningStages
  <2> QED BY <1>1, <2>2, <2>3
<1>2. CASE ~c
  <2>1. Course(g, c) = <<g>> \o <<>>
    BY <1>2 DEF Course, GroupPrograms
  <2>2. Course(g, c) = <<g>>
    BY <2>1, OneBeforeNone
  <2> QED BY <1>2, <2>2, OneStage
<1> QED BY <1>1, <1>2

LEMMA BothTables ==
  ASSUME NEW c \in BOOLEAN
  PROVE  /\ Head(Course("BOTH", c)) = "GROUP_1"
         /\ Tail(Course("BOTH", c)) = Course("GROUP_2", c)
         /\ Course("GROUP_2", c) /= <<>>
<1>1. CASE c
  <2>1. /\ Course("BOTH", c) = <<"GROUP_1", "GROUP_2">> \o CleaningStages
        /\ Course("GROUP_2", c) = <<"GROUP_2">> \o CleaningStages
    BY <1>1 DEF Course
  <2>2. Course("BOTH", c)
          = <<"GROUP_1", "GROUP_2", "CLEANING_3", "CLEANING_1", "CLEANING_2">>
    BY <2>1, TwoBeforeThree DEF CleaningStages
  <2>3. Course("GROUP_2", c) = <<"GROUP_2", "CLEANING_3", "CLEANING_1", "CLEANING_2">>
    BY <2>1, OneBeforeThree DEF CleaningStages
  <2>4. Course("GROUP_2", c) /= <<>>
    BY <2>3
  <2> DEFINE all == <<"GROUP_1", "GROUP_2", "CLEANING_3", "CLEANING_1", "CLEANING_2">>
  <2>5. /\ Head(all) = "GROUP_1"
        /\ Tail(all) = <<"GROUP_2", "CLEANING_3", "CLEANING_1", "CLEANING_2">>
    BY FiveStages
  <2> QED BY <2>2, <2>3, <2>4, <2>5
<1>2. CASE ~c
  <2>1. /\ Course("BOTH", c) = <<"GROUP_1", "GROUP_2">> \o <<>>
        /\ Course("GROUP_2", c) = <<"GROUP_2">> \o <<>>
    BY <1>2 DEF Course
  <2>2. /\ Course("BOTH", c) = <<"GROUP_1", "GROUP_2">>
        /\ Course("GROUP_2", c) = <<"GROUP_2">>
    BY <2>1, OneBeforeNone, TwoBeforeNone
  <2> QED BY <2>2, TwoStages
<1> QED BY <1>1, <1>2

LEMMA OtherTables ==
  ASSUME NEW p, p \notin GroupPrograms \cup {"BOTH", "CLEANING"}, NEW c
  PROVE  Head(Course(p, c)) = p /\ Tail(Course(p, c)) = <<>>
<1>1. Course(p, c) = <<p>>
  BY DEF Course, GroupPrograms
<1> QED BY <1>1, OneStage

(* The devices of the plan.                                                *)
PlanDevices == {Generator, PumpWell, PumpAcid, ValveGroup1, ValveGroup2, ValveGroup3}
CourseInv == TypeOK /\ StageInv /\ PumpPower

(* A step of the plan, or none, in phase and stages alone.                 *)
CourseStep ==
  \/ Plan!Ask \/ Plan!Water \/ Plan!NextStage \/ Plan!RunOn \/ Plan!Rest
  \/ Plan!Cancel \/ Plan!Halt \/ Plan!GoOn \/ Plan!Restart
  \/ UNCHANGED <<Phase, StagesLeft>>

(* The stages that are left of a program that irrigates, the first of them *)
(* the one whose valves are open.                                          *)
LEMMA ReadyLeft ==
  ASSUME TypeOK, StageInv, status = "READY"
  PROVE  /\ Phase = "watering" /\ is_cleaning \in BOOLEAN
         /\ program = "BOTH" => program_current \in GroupPrograms
         /\ program /= "BOTH" => program_current = program
         /\ program_current = "CLEANING" =>
              \/ Field = {ValveGroup3} /\ StagesLeft = CleaningStages
              \/ Field = {ValveGroup1} /\ StagesLeft = <<"CLEANING_1", "CLEANING_2">>
              \/ Field = {ValveGroup2} /\ StagesLeft = <<"CLEANING_2">>
         /\ program_current /= "CLEANING" =>
              /\ Field = Opens(program_current)
              /\ StagesLeft = IF program = "BOTH" /\ program_current = "GROUP_1"
                              THEN Course("BOTH", is_cleaning)
                              ELSE Course(program_current, is_cleaning)
<1>1. Phase = "watering" /\ is_cleaning \in BOOLEAN
  BY DEF Phase, TypeOK
<1>2. /\ program = "BOTH" => program_current \in GroupPrograms
      /\ program /= "BOTH" => program_current = program
  BY DEF StageInv, StageKnown, UnderWay, StageOf
<1>3. /\ program_current = "CLEANING" =>
           Field \in {{ValveGroup3}, {ValveGroup1}, {ValveGroup2}}
      /\ program_current /= "CLEANING" => Field = Opens(program_current)
  BY DEF StageInv, ValvesMatchStage, StageValves, Field, FieldDevices
<1>4. /\ ValveGroup1 \in device_active <=> ValveGroup1 \in Field
      /\ ValveGroup2 \in device_active <=> ValveGroup2 \in Field
  BY DEF Field, FieldDevices
<1>5. program_current = "CLEANING" => StagesLeft = CleaningLeft
  BY <1>1 DEF StagesLeft
<1>6. program_current /= "CLEANING" =>
        StagesLeft = IF program = "BOTH" /\ program_current = "GROUP_1"
                     THEN Course("BOTH", is_cleaning)
                     ELSE Course(program_current, is_cleaning)
  BY <1>1 DEF StagesLeft
<1>7. CleaningLeft = IF ValveGroup1 \in Field THEN <<"CLEANING_1", "CLEANING_2">>
                     ELSE IF ValveGroup2 \in Field THEN <<"CLEANING_2">>
                     ELSE CleaningStages
  BY <1>4 DEF CleaningLeft
<1> QED BY <1>1, <1>2, <1>3, <1>4, <1>5, <1>6, <1>7, FieldTables

(* The stages that are left of a program that does not.                    *)
LEMMA RestingLeft ==
  ASSUME status /= "READY", Phase \notin {"off", "warming"}
  PROVE  StagesLeft =
           IF program_current = "CLEANING"
           THEN IF status = "FINISHING" THEN <<"CLEANING_2">> ELSE CleaningStages
           ELSE IF program = "BOTH" /\ program_current = "GROUP_1"
           THEN Course("BOTH", is_cleaning) ELSE Course(program_current, is_cleaning)
BY DEF StagesLeft, CleaningLeft

LEMMA OpenedTables ==
  /\ Plan!Opened("CLEANING_3") = {ValveGroup3}
  /\ Plan!Opened("CLEANING_1") = {ValveGroup1}
  /\ Plan!Opened("CLEANING_2") = {ValveGroup2}
  /\ \A p \in AllPrograms \ {"CLEANING"} : Plan!Opened(p) = Opens(p)
BY DEF Plan!Opened, Opens, AllPrograms, GroupPrograms

(* The first stage that is left has its valves open.                       *)
LEMMA FirstOpened ==
  ASSUME TypeOK, StageInv, status = "READY"
  PROVE  Plan!Opened(Head(StagesLeft)) = Field
<1>1. CASE program_current = "CLEANING"
  <2>1. Head(<<"CLEANING_1", "CLEANING_2">>) = "CLEANING_1"
    BY TwoStages
  <2>2. Head(<<"CLEANING_2">>) = "CLEANING_2"
    BY OneStage
  <2> QED BY <1>1, <2>1, <2>2, ReadyLeft, CleaningTables, OpenedTables
<1>2. CASE program_current /= "CLEANING"
  <2>1. Head(StagesLeft) = program_current
    BY <1>2, ReadyLeft, GroupTables, BothTables, OtherTables DEF GroupPrograms
  <2>2. program_current \in AllPrograms
    BY DEF TypeOK
  <2> QED BY <1>2, <2>1, <2>2, ReadyLeft, OpenedTables
<1> QED BY <1>1, <1>2

(* Generator, pumps and valves are what phase and stage call for.          *)
LEMMA ShownRight ==
  CourseInv => device_active \cap PlanDevices = Plan!On(Phase, StagesLeft)
<1> SUFFICES ASSUME CourseInv PROVE device_active \cap PlanDevices = Plan!On(Phase, StagesLeft)
  OBVIOUS
<1>1. device_active \cap PlanDevices = (device_active \cap {Generator, PumpWell}) \cup Field
  BY DEF PlanDevices, Field, FieldDevices
<1>2. CASE status = "READY"
  <2>1. device_active \cap {Generator, PumpWell} = {Generator, PumpWell}
    BY <1>2 DEF CourseInv, PumpPower
  <2>2. Phase = "watering" /\ Plan!Opened(Head(StagesLeft)) = Field
    BY <1>2, ReadyLeft, FirstOpened DEF CourseInv
  <2>3. Plan!On(Phase, StagesLeft) = {Generator, PumpWell} \cup Field
    BY <2>2 DEF Plan!On
  <2> QED BY <1>1, <2>1, <2>3
<1>3. CASE status \in {"PREPARING", "FINISHING"}
  <2>1. device_active \cap {Generator, PumpWell} = {Generator}
    BY <1>3 DEF CourseInv, PumpPower
  <2>2. Field = {}
    BY <1>3, StageOff DEF CourseInv
  <2>3. Phase \in {"warming", "rewarming", "running_on"}
    BY <1>3 DEF Phase
  <2>4. Plan!On(Phase, StagesLeft) = {Generator}
    BY <2>3 DEF Plan!On
  <2> QED BY <1>1, <2>1, <2>2, <2>4
<1>4. CASE status = "FINISHED"
  <2>1. device_active \cap {Generator, PumpWell} = {}
    BY <1>4 DEF CourseInv, PumpPower
  <2>2. Field = {}
    BY <1>4, StageOff DEF CourseInv
  <2>3. Phase \in {"off", "halted"}
    BY <1>4 DEF Phase
  <2>4. Plan!On(Phase, StagesLeft) = {}
    BY <2>3 DEF Plan!On
  <2> QED BY <1>1, <2>1, <2>2, <2>4
<1> QED BY <1>2, <1>3, <1>4 DEF CourseInv, TypeOK, Statuses

LEMMA ShownRightNext ==
  CourseInv' => (device_active \cap PlanDevices)' = Plan!On(Phase', StagesLeft')
<1>1. (CourseInv => device_active \cap PlanDevices = Plan!On(Phase, StagesLeft))'
  BY ShownRight, PTL
<1> QED BY <1>1 DEF Plan!On, Plan!Opened, PlanDevices

(* What most steps do.                                                     *)
LEMMA CourseKept ==
  ASSUME Field' = Field,
         UNCHANGED <<program, program_current, status, is_stopped, is_cleaning>>
  PROVE  CourseStep
<1>1. Phase' = Phase
  BY DEF Phase
<1>2. /\ ValveGroup1 \in device_active' <=> ValveGroup1 \in device_active
      /\ ValveGroup2 \in device_active' <=> ValveGroup2 \in device_active
  BY DEF Field, FieldDevices
<1>3. CleaningLeft' = CleaningLeft
  BY <1>2 DEF CleaningLeft
<1>4. StagesLeft' = StagesLeft
  BY <1>1, <1>3 DEF StagesLeft
<1> QED BY <1>1, <1>4 DEF CourseStep

(* The stages that are left after a step.                                  *)
LEMMA LeftNext ==
  /\ status' = "READY" => Phase' = "watering"
  /\ status' = "FINISHING" => Phase' = "running_on"
  /\ status' = "PREPARING" /\ is_stopped' = "NOT_DETECTED" => Phase' = "warming"
  /\ status' = "PREPARING" /\ is_stopped' /= "NOT_DETECTED" => Phase' = "rewarming"
  /\ status' = "FINISHED" /\ is_stopped' = "NOT_DETECTED" => Phase' = "off"
  /\ status' = "FINISHED" /\ is_stopped' /= "NOT_DETECTED" => Phase' = "halted"
  /\ Phase' = "off" => StagesLeft' = <<>>
  /\ Phase' = "warming" => StagesLeft' = Course(program', is_cleaning')
  /\ Phase' \notin {"off", "warming"} /\ program_current' = "CLEANING" =>
       StagesLeft' = CleaningLeft'
  /\ Phase' \notin {"off", "warming"} /\ program_current' /= "CLEANING" =>
       StagesLeft' = IF program' = "BOTH" /\ program_current' = "GROUP_1"
                     THEN Course("BOTH", is_cleaning')
                     ELSE Course(program_current', is_cleaning')
  /\ status' = "FINISHING" => CleaningLeft' = <<"CLEANING_2">>
  /\ status' \notin {"READY", "FINISHING"} => CleaningLeft' = CleaningStages
  /\ status' = "READY" /\ ValveGroup1 \in Field' =>
       CleaningLeft' = <<"CLEANING_1", "CLEANING_2">>
  /\ status' = "READY" /\ ValveGroup1 \notin Field' /\ ValveGroup2 \in Field' =>
       CleaningLeft' = <<"CLEANING_2">>
  /\ status' = "READY" /\ ValveGroup1 \notin Field' /\ ValveGroup2 \notin Field' =>
       CleaningLeft' = CleaningStages
<1>1. /\ ValveGroup1 \in device_active' <=> ValveGroup1 \in Field'
      /\ ValveGroup2 \in device_active' <=> ValveGroup2 \in Field'
  BY DEF Field, FieldDevices
<1> QED BY <1>1 DEF Phase, StagesLeft, CleaningLeft

(* The generator is warm: the program gets its water, from its first stage *)
(* or from the one it was halted in.                                       *)
LEMMA PumpStartCourse ==
  ASSUME TypeOK, StageInv, PumpStart
  PROVE  Plan!Water
<1>1. status = "PREPARING" /\ status' = "READY" /\ Field = {}
  BY StageOff DEF PumpStart
<1>2. Phase' = "watering"
  BY <1>1, LeftNext
<1>3. CASE is_stopped = "NOT_DETECTED"
  <2>1. Begin(program, FirstStage(program), is_cleaning, {PumpWell}, {})
    BY <1>3 DEF PumpStart
  <2>2. /\ program' = program /\ program_current' = FirstStage(program)
        /\ is_cleaning' = is_cleaning
        /\ Toggle({PumpWell} \cup Opens(FirstStage(program)), {})
    BY <2>1 DEF Begin
  <2>3. Field' = Opens(FirstStage(program))
    BY <1>1, <2>2, ToggleField, FieldTables
  <2>4. Phase = "warming"
    BY <1>1, <1>3 DEF Phase
  <2>5. StagesLeft = Course(program, is_cleaning)
    BY <2>4 DEF StagesLeft
  <2>6. CASE program = "CLEANING"
    <3>1. program_current' = "CLEANING" /\ Field' = {ValveGroup3}
      BY <2>2, <2>3, <2>6, FieldTables DEF FirstStage
    <3>2. StagesLeft' = CleaningStages
      BY <1>1, <1>2, <3>1, LeftNext, FieldTables
    <3> QED BY <1>2, <2>4, <2>5, <2>6, <3>2, CleaningTables DEF Plan!Water
  <2>7. CASE program /= "CLEANING"
    <3>1. program_current' = IF program = "BOTH" THEN "GROUP_1" ELSE program
      BY <2>2 DEF FirstStage
    <3>2. StagesLeft' = Course(program, is_cleaning)
      BY <1>2, <2>2, <2>7, <3>1, LeftNext
    <3> QED BY <1>2, <2>4, <2>5, <3>2 DEF Plan!Water
  <2> QED BY <2>6, <2>7
<1>4. CASE is_stopped /= "NOT_DETECTED"
  <2>1. Continue({PumpWell})
    BY <1>4 DEF PumpStart
  <2>2. /\ UNCHANGED <<program, program_current, is_cleaning>>
        /\ Toggle({PumpWell} \cup Opens(program_current), {})
    BY <2>1 DEF Continue
  <2>3. Field' = Opens(program_current)
    BY <1>1, <2>2, ToggleField, FieldTables
  <2>4. Phase = "rewarming"
    BY <1>1, <1>4 DEF Phase
  <2>5. program_current = "CLEANING" => CleaningLeft' = CleaningStages
    BY <1>1, <2>3, LeftNext, FieldTables
  <2>6. StagesLeft' = StagesLeft
    BY <1>1, <1>2, <2>2, <2>4, <2>5, LeftNext, RestingLeft
  <2> QED BY <1>2, <2>4, <2>6 DEF Plan!Water
<1> QED BY <1>3, <1>4

(* What a halted program goes on with.                                     *)
LEMMA HaltedLeft ==
  ASSUME TypeOK, StageInv, Phase \in {"watering", "running_on", "rewarming"}
  PROVE  (IF Head(StagesLeft) \in {"CLEANING_1", "CLEANING_2"}
          THEN CleaningStages ELSE StagesLeft)
           = IF program_current = "CLEANING" THEN CleaningStages
             ELSE IF program = "BOTH" /\ program_current = "GROUP_1"
             THEN Course("BOTH", is_cleaning) ELSE Course(program_current, is_cleaning)
<1>1. program_current = "CLEANING" =>
        StagesLeft \in {CleaningStages, <<"CLEANING_1", "CLEANING_2">>, <<"CLEANING_2">>}
  BY DEF StagesLeft, CleaningLeft
<1>2. program_current /= "CLEANING" =>
        StagesLeft = IF program = "BOTH" /\ program_current = "GROUP_1"
                     THEN Course("BOTH", is_cleaning)
                     ELSE Course(program_current, is_cleaning)
  BY DEF StagesLeft
<1>3. CASE program_current = "CLEANING"
  <2>1. Head(<<"CLEANING_1", "CLEANING_2">>) = "CLEANING_1"
    BY TwoStages
  <2>2. Head(<<"CLEANING_2">>) = "CLEANING_2"
    BY OneStage
  <2> QED BY <1>1, <1>3, <2>1, <2>2, CleaningTables
<1>4. CASE program_current /= "CLEANING"
  <2>1. status \in {"READY", "FINISHING"} \/ is_stopped /= "NOT_DETECTED"
    BY DEF Phase
  <2>2. program_current /= "BOTH"
    BY <2>1 DEF StageInv, StageKnown, UnderWay, StageOf, GroupPrograms
  <2>3. Head(StagesLeft) = program_current
    <3>1. is_cleaning \in BOOLEAN
      BY DEF TypeOK
    <3>2. CASE program = "BOTH" /\ program_current = "GROUP_1"
      BY <1>2, <3>1, <3>2, BothTables
    <3>3. CASE ~(program = "BOTH" /\ program_current = "GROUP_1")
      <4>1. StagesLeft = Course(program_current, is_cleaning)
        BY <1>2, <1>4, <3>3
      <4>2. CASE program_current \in GroupPrograms
        BY <3>1, <4>1, <4>2, GroupTables
      <4>3. CASE program_current \notin GroupPrograms
        BY <1>4, <2>2, <4>1, <4>3, OtherTables
      <4> QED BY <4>2, <4>3
    <3> QED BY <3>2, <3>3
  <2>4. program_current \notin {"CLEANING_1", "CLEANING_2"}
    BY DEF TypeOK, AllPrograms, GroupPrograms
  <2> QED BY <1>2, <1>4, <2>3, <2>4
<1> QED BY <1>3, <1>4

(* The operator or a fault stops a program.                                *)
LEMMA ForceStopCourse ==
  ASSUME TypeOK, StageInv, ForceStop, status /= "FINISHED"
  PROVE  Plan!Cancel \/ Plan!Halt
<1>1. status' = "FINISHED" /\ UNCHANGED <<program, program_current, is_cleaning>>
  BY DEF ForceStop
<1>2. CASE status = "PREPARING" /\ is_stopped = "NOT_DETECTED"
  <2>1. is_stopped' = "NOT_DETECTED"
    BY <1>2 DEF ForceStop
  <2>2. Phase = "warming" /\ Phase' = "off" /\ StagesLeft' = <<>>
    BY <1>1, <1>2, <2>1, LeftNext DEF Phase
  <2> QED BY <2>2 DEF Plan!Cancel, Plan!Drop
<1>3. CASE ~(status = "PREPARING" /\ is_stopped = "NOT_DETECTED")
  <2>1. is_stopped' /= "NOT_DETECTED"
    BY <1>3 DEF ForceStop, Faulty
  <2>2. Phase \in {"watering", "running_on", "rewarming"}
    BY <1>3 DEF Phase, TypeOK, Statuses
  <2>3. Phase' = "halted"
    BY <1>1, <2>1, LeftNext
  <2>4. StagesLeft' = IF program_current = "CLEANING" THEN CleaningStages
             ELSE IF program = "BOTH" /\ program_current = "GROUP_1"
             THEN Course("BOTH", is_cleaning) ELSE Course(program_current, is_cleaning)
    BY <1>1, <2>3, LeftNext
  <2>5. StagesLeft' = IF Head(StagesLeft) \in {"CLEANING_1", "CLEANING_2"}
                      THEN CleaningStages ELSE StagesLeft
    BY <2>2, <2>4, HaltedLeft
  <2>6. Plan!CleaningStages = CleaningStages
    BY DEF Plan!CleaningStages, CleaningStages
  <2> QED BY <2>2, <2>3, <2>5, <2>6 DEF Plan!Halt
<1> QED BY <1>2, <1>3

(* The end of the last group: cleaning, or the generator runs on.          *)
LEMMA FinishGroupsCourse ==
  ASSUME TypeOK, StageInv, status = "READY", NEW off, Field \subseteq off,
         program_current \in GroupPrograms,
         program = "BOTH" => program_current /= "GROUP_1", FinishGroups(off)
  PROVE  Plan!NextStage \/ Plan!RunOn
<1>1. /\ Phase = "watering" /\ StagesLeft = Course(program_current, is_cleaning)
      /\ is_cleaning \in BOOLEAN /\ program_current /= "CLEANING"
  BY ReadyLeft DEF GroupPrograms
<1>2. CASE is_cleaning
  <2>1. Begin("CLEANING", "CLEANING", TRUE, {}, off) /\ status' = "READY"
    BY <1>2 DEF FinishGroups
  <2>2. program_current' = "CLEANING" /\ Toggle({} \cup Opens("CLEANING"), off)
    BY <2>1 DEF Begin
  <2>3. Field' = {ValveGroup3}
    BY <2>2, ToggleField, FieldTables
  <2>4. Phase' = "watering" /\ StagesLeft' = CleaningStages
    BY <2>1, <2>2, <2>3, LeftNext, FieldTables
  <2>5. Tail(StagesLeft) = CleaningStages
    BY <1>1, <1>2, GroupTables
  <2> QED BY <1>1, <2>4, <2>5, CleaningTables DEF Plan!NextStage
<1>3. CASE ~is_cleaning
  <2>1. /\ status' = "FINISHING"
        /\ UNCHANGED <<program, program_current, is_cleaning>>
    BY <1>3 DEF FinishGroups, Finish
  <2>2. Phase' = "running_on" /\ StagesLeft' = StagesLeft
    BY <1>1, <2>1, LeftNext
  <2>3. Tail(StagesLeft) = <<>>
    BY <1>1, <1>3, GroupTables
  <2> QED BY <1>1, <2>2, <2>3 DEF Plan!RunOn
<1> QED BY <1>2, <1>3

LEMMA UpdateCourse ==
  ASSUME TypeOK, StageInv, ProgramUpdate
  PROVE  CourseStep
<1>1. CASE PumpStart
  BY <1>1, PumpStartCourse DEF CourseStep
<1>2. CASE FaultStop
  BY <1>2, ForceStopCourse DEF FaultStop, CourseStep
<1>3. CASE GeneratorStop
  <2>1. status = "FINISHING" /\ status' = "FINISHED" /\ is_stopped' = "NOT_DETECTED"
    BY <1>3 DEF GeneratorStop, StageInv, StoppedAtRest
  <2>2. Phase = "running_on" /\ Phase' = "off" /\ StagesLeft' = <<>>
    BY <2>1, LeftNext DEF Phase
  <2> QED BY <2>2 DEF Plan!Rest, Plan!Drop, CourseStep
<1>4. CASE Group1Over
  <2>1. /\ status = "READY" /\ program = "GROUP_1"
        /\ FinishGroups({PumpAcid, ValveGroup1})
    BY <1>4 DEF Group1Over, OnCourse
  <2>2. program_current \in GroupPrograms /\ Field = {PumpAcid, ValveGroup1}
    BY <2>1, StageOn DEF GroupPrograms
  <2> QED BY <2>1, <2>2, FinishGroupsCourse DEF CourseStep
<1>5. CASE Group2Over
  <2>1. /\ status = "READY" /\ program = "GROUP_2"
        /\ FinishGroups({PumpAcid, ValveGroup2})
    BY <1>5 DEF Group2Over, OnCourse
  <2>2. program_current \in GroupPrograms /\ Field = {PumpAcid, ValveGroup2}
    BY <2>1, StageOn DEF GroupPrograms
  <2> QED BY <2>1, <2>2, FinishGroupsCourse DEF CourseStep
<1>6. CASE BothFirstOver
  <2>1. /\ status = "READY" /\ status' = "READY" /\ program = "BOTH"
        /\ program_current = "GROUP_1"
        /\ Begin("BOTH", "GROUP_2", is_cleaning, {}, {ValveGroup1})
    BY <1>6, StageOn DEF BothFirstOver, OnCourse
  <2>2. /\ program_current' = "GROUP_2" /\ is_cleaning' = is_cleaning
    BY <2>1 DEF Begin
  <2>3. Phase' = "watering" /\ StagesLeft' = Course("GROUP_2", is_cleaning)
    BY <2>1, <2>2, LeftNext
  <2>4. /\ Phase = "watering" /\ StagesLeft = Course("BOTH", is_cleaning)
        /\ is_cleaning \in BOOLEAN
    BY <2>1, ReadyLeft
  <2> QED BY <2>3, <2>4, BothTables DEF Plan!NextStage, CourseStep
<1>7. CASE BothSecondOver
  <2>1. /\ status = "READY" /\ program = "BOTH"
        /\ program_current = "GROUP_2" /\ Field = {PumpAcid, ValveGroup2}
        /\ FinishGroups({PumpAcid, ValveGroup2})
    BY <1>7, StageOn DEF BothSecondOver, OnCourse
  <2> QED BY <2>1, FinishGroupsCourse DEF CourseStep, GroupPrograms
<1>8. CASE CleaningGroup1Over
  <2>1. /\ program_current = "CLEANING" /\ status = "READY"
        /\ ValveGroup1 \in Field
        /\ CleaningNext({ValveGroup2}, {ValveGroup1}, time_cleaning_duration)
    BY <1>8, StageOn DEF CleaningGroup1Over, OnCourse, Field, FieldDevices
  <2>2. Phase = "watering" /\ StagesLeft = <<"CLEANING_1", "CLEANING_2">>
    BY <2>1, ReadyLeft, FieldTables
  <2>3. /\ program_current' = "CLEANING" /\ status' = "READY"
        /\ Toggle({ValveGroup2}, {ValveGroup1})
    BY <2>1 DEF CleaningNext
  <2>4. ValveGroup1 \notin Field' /\ ValveGroup2 \in Field'
    BY <2>3, ToggleField, FieldTables DEF FieldDevices
  <2>5. Phase' = "watering" /\ StagesLeft' = <<"CLEANING_2">>
    BY <2>3, <2>4, LeftNext
  <2>6. Tail(StagesLeft) = <<"CLEANING_2">> /\ <<"CLEANING_2">> /= <<>>
    BY <2>2, TwoStages
  <2> QED BY <2>2, <2>5, <2>6 DEF Plan!NextStage, CourseStep
<1>9. CASE CleaningGroup2Over
  <2>1. /\ program_current = "CLEANING" /\ status = "READY"
        /\ ValveGroup2 \in Field /\ Finish({ValveGroup2})
    BY <1>9, StageOn DEF CleaningGroup2Over, OnCourse, Field, FieldDevices
  <2>2. Phase = "watering" /\ StagesLeft = <<"CLEANING_2">>
    BY <2>1, ReadyLeft, FieldTables
  <2>3. program_current' = "CLEANING" /\ status' = "FINISHING"
    BY <2>1 DEF Finish
  <2>4. Phase' = "running_on" /\ StagesLeft' = <<"CLEANING_2">>
    BY <2>3, LeftNext
  <2>5. Tail(StagesLeft) = <<>>
    BY <2>2, OneStage
  <2> QED BY <2>2, <2>4, <2>5 DEF Plan!RunOn, CourseStep
<1>10. CASE CleaningGroup3Over
  <2>1. /\ program_current = "CLEANING" /\ status = "READY"
        /\ ValveGroup1 \notin Field /\ ValveGroup2 \notin Field
        /\ CleaningNext({ValveGroup1}, {ValveGroup3}, config.group12_duration)
    BY <1>10, StageOn DEF CleaningGroup3Over, OnCourse, Field, FieldDevices
  <2>2. Phase = "watering" /\ StagesLeft = CleaningStages
    BY <2>1, ReadyLeft, FieldTables
  <2>3. /\ program_current' = "CLEANING" /\ status' = "READY"
        /\ Toggle({ValveGroup1}, {ValveGroup3})
    BY <2>1 DEF CleaningNext
  <2>4. ValveGroup1 \in Field'
    BY <2>3, ToggleField, FieldTables DEF FieldDevices
  <2>5. Phase' = "watering" /\ StagesLeft' = <<"CLEANING_1", "CLEANING_2">>
    BY <2>3, <2>4, LeftNext
  <2>6. Tail(StagesLeft) = StagesLeft' /\ StagesLeft' /= <<>>
    BY <2>2, <2>5, CleaningTables
  <2> QED BY <2>2, <2>5, <2>6 DEF Plan!NextStage, CourseStep
<1>11. CASE GardenOver
  <2>1. /\ program = "GARDEN" /\ status = "READY" /\ Finish({})
    BY <1>11 DEF GardenOver, OnCourse
  <2>2. /\ program_current = "GARDEN" /\ Phase = "watering"
        /\ StagesLeft = Course("GARDEN", is_cleaning)
    BY <2>1, ReadyLeft
  <2>3. /\ UNCHANGED <<program, program_current, is_cleaning>>
        /\ status' = "FINISHING"
    BY <2>1 DEF Finish
  <2>4. Phase' = "running_on" /\ StagesLeft' = StagesLeft
    BY <2>1, <2>2, <2>3, LeftNext
  <2>5. Tail(StagesLeft) = <<>>
    BY <2>2, OtherTables DEF GroupPrograms
  <2> QED BY <2>2, <2>4, <2>5 DEF Plan!RunOn, CourseStep
<1>12. CASE NothingDue
  BY <1>12, CourseKept DEF NothingDue, deviceVars, programVars, Field
<1> QED BY <1>1, <1>2, <1>3, <1>4, <1>5, <1>6, <1>7, <1>8, <1>9, <1>10, <1>11,
           <1>12 DEF ProgramUpdate

LEMMA CommandCourse ==
  ASSUME OrderlyStages, TypeOK, StageInv, NetworkCommand \/ SerialCommand
  PROVE  CourseStep
<1>1. CASE StartCommand
  <2>1. PICK prog \in Programs, cleaning \in Cleanings : Start(prog, cleaning)
    BY <1>1 DEF StartCommand
  <2>2. status /= "READY" /\ WarmUp
    BY <1>1, <2>1 DEF StartCommand, Start, OrderlyStages
  <2>3. /\ program' = prog /\ is_cleaning' = cleaning
        /\ status' = "PREPARING" /\ is_stopped' = "NOT_DETECTED"
    BY <2>1, <2>2 DEF Start, WarmUp
  <2>4. Phase' = "warming" /\ StagesLeft' = Course(prog, cleaning)
    BY <2>3, LeftNext
  <2>5. prog \in AllPrograms /\ cleaning \in BOOLEAN
    BY ControlIrrigationAssumption
  <2>6. Phase /= "watering"
    BY <2>2 DEF Phase
  <2>7. Plan!Course(prog, cleaning) = Course(prog, cleaning)
    BY DEF Plan!Course, Plan!CleaningStages, Course, CleaningStages
  <2> QED BY <2>4, <2>5, <2>6, <2>7 DEF Plan!Ask, CourseStep
<1>2. CASE StopCommand
  BY <1>2, ForceStopCourse DEF StopCommand, OrderlyStages, CourseStep
<1>3. CASE ResumeCommand
  <2>1. /\ status \in {"FINISHED", "PREPARING"} /\ is_stopped /= "NOT_DETECTED"
        /\ status' = "PREPARING"
        /\ UNCHANGED <<program, program_current, is_cleaning, is_stopped>>
    BY <1>3 DEF ResumeCommand, Resume, WarmUp, StageInv, StoppedAtRest
  <2>2. Phase' = "rewarming" /\ Phase \in {"halted", "rewarming"}
    BY <2>1, LeftNext DEF Phase
  <2>3. StagesLeft' = StagesLeft
    BY <2>1, <2>2, LeftNext, RestingLeft
  <2> QED BY <2>2, <2>3 DEF Plan!GoOn, CourseStep
<1>4. CASE ToggleCommand
  <2>1. PICK d \in ManualDevices, on \in BOOLEAN : DeviceToggle(d, on)
    BY <1>4 DEF ToggleCommand
  <2>2. Field' = Field
    BY <2>1, ToggleField DEF DeviceToggle, OrderlyStages, Field
  <2> QED BY <1>4, <2>2, CourseKept DEF ToggleCommand, programVars
<1>5. CASE ConfigureCommand \/ DetectionCommand \/ NoCommand
  BY <1>5, CourseKept DEF ConfigureCommand, DetectionCommand, NoCommand,
     deviceVars, programVars, Field
<1>6. CASE Console /\ UNCHANGED programVars
  BY <1>6, ConsoleField, CourseKept DEF programVars
<1> QED BY <1>1, <1>2, <1>3, <1>4, <1>5, <1>6 DEF NetworkCommand, SerialCommand

LEMMA CourseNext ==
  ASSUME OrderlyStages, TypeOK, StageInv, [Next]_vars
  PROVE  CourseStep
<1>1. CASE \/ DeviceUpdate /\ UNCHANGED <<flowVars, sensorVars, programVars>>
           \/ SensorUpdate /\ UNCHANGED programVars
           \/ FlowUpdate /\ UNCHANGED programVars
           \/ Tick
           \/ UNCHANGED vars
  <2>1. Field' = Field
    BY <1>1, FlowUpdateField DEF DeviceUpdate, SensorUpdate, Tick, DeviceTick,
       vars, deviceVars, Field
  <2> QED BY <1>1, <2>1, CourseKept DEF programVars, Tick, vars
<1>2. CASE ProgramUpdate
  BY <1>2, UpdateCourse
<1>3. CASE NetworkCommand \/ SerialCommand
  BY <1>3, CommandCourse
<1>4. CASE Reset
  <2>1. status' = "FINISHED" /\ is_stopped' = "NOT_DETECTED" /\ CanReset
    BY <1>4 DEF Reset
  <2>2. Phase' = "off" /\ StagesLeft' = <<>>
    BY <2>1, LeftNext
  <2> QED BY <2>1, <2>2 DEF Plan!Restart, Plan!Drop, CourseStep
<1> QED BY <1>1, <1>2, <1>3, <1>4 DEF Next, Loop

(* The programs keep to their plan, whenever they are stopped, faulted,    *)
(* resumed, replaced or reset: stages in their order, none left out and    *)
(* none twice, and generator, pumps and valves as the stage calls for.     *)
THEOREM FollowsPlanHolds ==
  ASSUME OrderlyStages, LeftToPrograms
  PROVE  Spec => FollowsPlan
<1>1. TypeOK /\ StageInv /\ [Next]_vars => StageInv'
  BY StageNext
<1>2. TypeOK /\ PowerInv /\ [Next]_vars => PowerInv'
  BY PowerNext DEF PowerStep
<1>3. TypeOK /\ StageInv /\ PowerInv => CourseInv
  BY DEF CourseInv, PowerInv
<1>4. CourseInv /\ CourseInv' /\ [Next]_vars => [Plan!PlanNext]_(Plan!planVars)
  <2> SUFFICES ASSUME CourseInv, CourseInv', [Next]_vars
               PROVE  [Plan!PlanNext]_(Plan!planVars)
    OBVIOUS
  <2>1. CourseStep
    BY CourseNext DEF CourseInv
  <2>2. (device_active \cap PlanDevices)' = Plan!On(Phase', StagesLeft')
    BY ShownRightNext
  <2>3. CASE UNCHANGED <<Phase, StagesLeft>>
    <3>1. (device_active \cap PlanDevices)' = device_active \cap PlanDevices
      BY <2>2, <2>3, ShownRight
    <3> QED BY <2>3, <3>1 DEF Plan!planVars, PlanDevices
  <2>4. CASE ~UNCHANGED <<Phase, StagesLeft>>
    BY <2>1, <2>2, <2>4 DEF CourseStep, Plan!PlanNext, PlanDevices
  <2> QED BY <2>3, <2>4
<1>5. Init => Plan!PlanInit
  BY DEF Init, DeviceInit, ProgramInit, Plan!PlanInit, Phase, StagesLeft
<1> QED BY <1>1, <1>2, <1>3, <1>4, <1>5, InitType, NextType, StageInit, PowerInit, PTL
        DEF Spec, FollowsPlan, Plan!PlanSpec
-----------------------------------------------------------------------------
(* Flows have an end.  What is started is given a time (or a volume), and  *)
(* what RESUME may start was started before: STOP comes only while there   *)
(* is a program to stop, and the settings do not change from water alone   *)
(* to dosing or back.  START may come at any time, and so may STOP while   *)
(* the generator warms up; dosing need not fit into the program.           *)
GivenLimits ==
  /\ "FINISHED" \notin StopIn
  /\ \A c, d \in Configs : c.deliver_volume = 1 <=> d.deliver_volume = 1
  /\ \A c \in Configs : c.deliver_volume /= 1 => c.deliver_time > 0
  /\ "GARDEN" \in Programs =>
       \A c \in Configs : (c.program_duration \div Second) % 65536 > 0
  /\ \A f \in ConsoleFlows, v \in ConsoleVolumes, t \in ConsoleTimes :
       t > 0 \/ (PulsesPerLiter[FlowSensor[f]] * v) \div 1000 > 0

Limited(f) == pulses_to_deliver[f] > 0 \/ time_to_deliver[f] > 0

(* Limits stay where they were set until they are set anew.                *)
LimitInv ==
  /\ config \in Configs
  /\ Asked
  /\ FlowsLimited
  /\ UnderWay => \A f \in ResumedFlows : Limited(f)

(* What most steps do: limits stay, flows end or are resumed.              *)
LEMMA LimitKept ==
  ASSUME GivenLimits, LimitInv, config' \in Configs, UnderWay' => UnderWay,
         UNCHANGED <<pulses_to_deliver, time_to_deliver, program, program_current>>,
         \A f \in flow_active' : f \in flow_active \/ (UnderWay /\ f \in ResumedFlows)
  PROVE  LimitInv'
<1>1. Doses(program_current)' <=> Doses(program_current)
  BY DEF Doses, GivenLimits, LimitInv
<1>2. ResumedFlows' = ResumedFlows
  BY <1>1 DEF ResumedFlows
<1> QED BY <1>2 DEF LimitInv, Limited, FlowsLimited, Asked

LEMMA BeginLimit ==
  ASSUME GivenLimits, TypeOK, LimitInv, NEW prog, NEW current, NEW cleaning, NEW on, NEW off,
         Begin(prog, current, cleaning, on, off),
         "GARDEN" \in {prog, current} => "GARDEN" \in Programs
  PROVE  LimitInv'
<1>1. /\ config' = config /\ program' = prog /\ program_current' = current
      /\ flow_active \subseteq Flows /\ config \in Configs
  BY DEF Begin, TypeOK, ControlFlowTypeOK, LimitInv
<1>2. Doses(program_current)' <=> Doses(current)
  BY <1>1 DEF Doses
<1>3. CASE Doses(current)
  <2>0. current /= "GARDEN"
    BY <1>3 DEF Doses, GroupPrograms
  <2>1. FlowsStart({MicroFlow, MacroFlow}, config.deliver_volume, config.deliver_time,
                   {FlowSensor[WaterFlow]})
    BY <1>3, <2>0 DEF Begin
  <2>2. config.deliver_time > 0 /\ {MicroFlow, MacroFlow} \subseteq Flows
    BY <1>1, <1>3, FlowNames DEF Doses, GivenLimits
  <2>3. \A f \in {MicroFlow, MacroFlow} : Limited(f)'
    BY <2>1, <2>2 DEF FlowsStart, Limited
  <2>4. \A f \in flow_active' : Limited(f)'
    BY <1>1, <2>1, <2>3 DEF FlowsStart, Limited, LimitInv, FlowsLimited
  <2>5. ResumedFlows' = {MicroFlow, MacroFlow}
    BY <1>1, <1>2, <1>3, <2>0 DEF ResumedFlows
  <2> QED BY <1>1, <2>3, <2>4, <2>5 DEF LimitInv, FlowsLimited, Limited, Asked
<1>4. CASE current = "GARDEN"
  <2>1. ~Doses(current)
    BY <1>4 DEF Doses, GroupPrograms
  <2>2. FlowsStart({GardenFlow}, 0, GardenSeconds, {})
    BY <1>4, <2>1 DEF Begin
  <2>3. GardenSeconds > 0 /\ GardenFlow \in Flows
    BY <1>1, <1>4, FlowNames DEF GardenSeconds, GivenLimits
  <2>4. Limited(GardenFlow)'
    BY <2>2, <2>3 DEF FlowsStart, Limited
  <2>5. \A f \in flow_active' : Limited(f)'
    BY <1>1, <2>2, <2>4 DEF FlowsStart, Limited, LimitInv, FlowsLimited
  <2>6. ResumedFlows' = {GardenFlow}
    BY <1>1, <1>2, <1>4, <2>1 DEF ResumedFlows
  <2> QED BY <1>1, <2>4, <2>5, <2>6 DEF LimitInv, FlowsLimited, Limited, Asked
<1>5. CASE ~Doses(current) /\ current /= "GARDEN"
  <2>1. UNCHANGED flowVars
    BY <1>5 DEF Begin
  <2>2. ResumedFlows' = {}
    BY <1>1, <1>2, <1>5 DEF ResumedFlows
  <2> QED BY <1>1, <2>1, <2>2 DEF LimitInv, FlowsLimited, Asked, flowVars
<1> QED BY <1>3, <1>4, <1>5

LEMMA ForceStopLimit ==
  ASSUME GivenLimits, LimitInv, ForceStop, status /= "FINISHED", status \in Statuses
  PROVE  LimitInv'
<1>1. UnderWay' => UnderWay
  BY DEF ForceStop, UnderWay, Statuses
<1> QED BY <1>1, LimitKept DEF ForceStop, LimitInv

LEMMA ContinueLimit ==
  ASSUME GivenLimits, LimitInv, NEW on, Continue(on), is_stopped /= "NOT_DETECTED"
  PROVE  LimitInv'
<1>1. UnderWay
  BY DEF UnderWay
<1> QED BY <1>1, LimitKept DEF Continue, LimitInv

LEMMA UpdateLimit ==
  ASSUME GivenLimits, TypeOK, LimitInv, ProgramUpdate
  PROVE  LimitInv'
<1>1. status \in Statuses /\ program \in AllPrograms
  BY DEF TypeOK
<1>2. CASE PumpStart
  <2>1. CASE is_stopped = "NOT_DETECTED"
    <3>1. Begin(program, FirstStage(program), is_cleaning, {PumpWell}, {})
      BY <1>2, <2>1 DEF PumpStart
    <3>2. "GARDEN" \in {program, FirstStage(program)} => "GARDEN" \in Programs
      BY DEF LimitInv, Asked, FirstStage
    <3> QED BY <3>1, <3>2, BeginLimit
  <2>2. CASE is_stopped /= "NOT_DETECTED"
    BY <1>2, <2>2, ContinueLimit DEF PumpStart
  <2> QED BY <2>1, <2>2
<1>3. CASE FaultStop
  BY <1>1, <1>3, ForceStopLimit DEF FaultStop
<1>4. ASSUME NEW off, FinishGroups(off), status = "READY" PROVE LimitInv'
  <2>1. CASE is_cleaning
    BY <1>4, <2>1, BeginLimit DEF FinishGroups
  <2>2. CASE ~is_cleaning
    BY <1>4, <2>2, LimitKept DEF FinishGroups, Finish, UnderWay, LimitInv, flowVars
  <2> QED BY <2>1, <2>2
<1>5. CASE Group1Over \/ Group2Over \/ BothSecondOver
  BY <1>4, <1>5 DEF Group1Over, Group2Over, BothSecondOver, OnCourse
<1>6. CASE BothFirstOver
  <2>1. Begin("BOTH", "GROUP_2", is_cleaning, {}, {ValveGroup1})
    BY <1>6 DEF BothFirstOver
  <2> QED BY <2>1, BeginLimit
<1>7. CASE CleaningGroup2Over \/ GardenOver
  BY <1>7, LimitKept
     DEF CleaningGroup2Over, GardenOver, OnCourse, Finish, UnderWay, LimitInv, flowVars
<1>8. CASE CleaningGroup1Over \/ CleaningGroup3Over
  BY <1>8, LimitKept
     DEF CleaningGroup1Over, CleaningGroup3Over, CleaningNext, UnderWay, LimitInv, flowVars
<1>9. CASE GeneratorStop \/ NothingDue
  BY <1>9, LimitKept DEF GeneratorStop, NothingDue, UnderWay, LimitInv, flowVars, programVars
<1> QED BY <1>2, <1>3, <1>5, <1>6, <1>7, <1>8, <1>9 DEF ProgramUpdate

LEMMA StartLimit ==
  ASSUME GivenLimits, TypeOK, LimitInv, StartCommand
  PROVE  LimitInv'
<1>1. PICK prog \in Programs, cleaning \in Cleanings : Start(prog, cleaning)
  BY DEF StartCommand
<1>2. CASE status = "READY"
  <2>1. Begin(prog, FirstStage(prog), cleaning, {}, {})
    BY <1>1, <1>2 DEF Start
  <2>2. "GARDEN" \in {prog, FirstStage(prog)} => "GARDEN" \in Programs
    BY DEF FirstStage
  <2> QED BY <2>1, <2>2, BeginLimit
<1>3. CASE status /= "READY"
  <2>1. /\ WarmUp /\ is_stopped' = "NOT_DETECTED" /\ program' = prog
        /\ program_current' = prog
    BY <1>1, <1>3 DEF Start
  <2>2. ~UnderWay' /\ UNCHANGED <<flowVars, config>>
    BY <2>1 DEF WarmUp, UnderWay
  <2> QED BY <2>1, <2>2 DEF LimitInv, FlowsLimited, Asked, flowVars
<1> QED BY <1>2, <1>3

LEMMA ConsoleLimit ==
  ASSUME GivenLimits, TypeOK, LimitInv, Console, UNCHANGED programVars
  PROVE  LimitInv'
<1>0. UnderWay' = UnderWay /\ config \in Configs /\ config' \in Configs
      /\ UNCHANGED <<program, program_current>> /\ flow_active \subseteq Flows
  BY DEF UnderWay, LimitInv, programVars, TypeOK, ControlFlowTypeOK
<1>1. PICK f \in ConsoleFlows :
         \/ \E v \in ConsoleVolumes, t \in ConsoleTimes : ConsoleFlowStart(f, v, t)
         \/ ConsoleFlowStop(f) \/ ConsoleFlowPause(f)
  BY DEF Console
<1>2. CASE ConsoleFlowStop(f) \/ ConsoleFlowPause(f)
  BY <1>0, <1>2, LimitKept DEF ConsoleFlowStop, ConsoleFlowPause
<1>3. ASSUME NEW v \in ConsoleVolumes, NEW t \in ConsoleTimes, ConsoleFlowStart(f, v, t)
      PROVE  LimitInv'
  <2>1. FlowsStart({f}, v, t, {}) /\ f \in Flows
    BY <1>3, ControlFlowAssumption DEF ConsoleFlowStart
  <2>2. t > 0 \/ (PulsesPerLiter[FlowSensor[f]] * v) \div 1000 > 0
    BY DEF GivenLimits
  <2>3. pulses_to_deliver'[f] = (PulsesPerLiter[FlowSensor[f]] * v) \div 1000
        /\ time_to_deliver'[f] = t
    BY <2>1 DEF FlowsStart
  <2>4. Limited(f)'
    BY <2>2, <2>3 DEF Limited
  <2>5. ASSUME NEW g \in Flows, Limited(g) PROVE Limited(g)'
    <3>1. CASE g = f
      BY <2>4, <3>1
    <3>2. CASE g /= f
      BY <2>1, <2>5, <3>2 DEF FlowsStart, Limited
    <3> QED BY <3>1, <3>2
  <2>6. \A g \in flow_active' : Limited(g)'
    BY <1>0, <2>1, <2>4, <2>5 DEF FlowsStart, LimitInv, FlowsLimited, Limited
  <2>7. ResumedFlows' = ResumedFlows /\ ResumedFlows \subseteq Flows
    BY <1>0, FlowNames DEF ResumedFlows, Doses, programVars, MicroFlow, MacroFlow, GardenFlow,
                Flows
  <2>8. UnderWay' => \A g \in ResumedFlows' : Limited(g)'
    BY <1>0, <2>5, <2>7 DEF LimitInv
  <2> QED BY <1>0, <2>6, <2>8 DEF LimitInv, FlowsLimited, Limited, Asked
<1> QED BY <1>1, <1>2, <1>3

LEMMA CommandLimit ==
  ASSUME GivenLimits, TypeOK, LimitInv,
         NetworkCommand \/ SerialCommand
  PROVE  LimitInv'
<1>1. CASE StartCommand
  BY <1>1, StartLimit
<1>2. CASE StopCommand
  BY <1>2, ForceStopLimit DEF StopCommand, GivenLimits, TypeOK
<1>3. CASE ResumeCommand
  <2>1. Resume
    BY <1>3 DEF ResumeCommand
  <2>2. CASE status = "READY"
    BY <2>1, <2>2, ContinueLimit DEF Resume
  <2>3. CASE status /= "READY"
    BY <2>1, <2>3, LimitKept DEF Resume, WarmUp, UnderWay, LimitInv, flowVars
  <2> QED BY <2>2, <2>3
<1>4. CASE ToggleCommand \/ NoCommand
  BY <1>4, LimitKept DEF ToggleCommand, NoCommand, UnderWay, LimitInv, flowVars, programVars
<1>5. CASE ConfigureCommand
  BY <1>5, LimitKept DEF ConfigureCommand, UnderWay, flowVars
<1>6. CASE DetectionCommand
  BY <1>6, LimitKept DEF DetectionCommand, UnderWay, LimitInv
<1>7. CASE Console /\ UNCHANGED programVars
  BY <1>7, ConsoleLimit
<1> QED BY <1>1, <1>2, <1>3, <1>4, <1>5, <1>6, <1>7 DEF NetworkCommand, SerialCommand

LEMMA LimitNext ==
  ASSUME GivenLimits
  PROVE  TypeOK /\ LimitInv /\ [Next]_vars => LimitInv'
<1> SUFFICES ASSUME TypeOK, LimitInv, [Next]_vars PROVE LimitInv'
  OBVIOUS
<1>1. CASE FlowUpdate /\ UNCHANGED programVars
  BY <1>1, LimitKept DEF FlowUpdate, FlowsAfterLoop, UnderWay, LimitInv, programVars
<1>2. CASE (DeviceUpdate /\ UNCHANGED <<flowVars, programVars>>)
           \/ (SensorUpdate /\ UNCHANGED programVars)
           \/ Tick \/ UNCHANGED vars
  BY <1>2, LimitKept
     DEF SensorUpdate, Tick, FlowTick, vars, UnderWay, LimitInv, flowVars, programVars
<1>3. CASE Reset
  <2>1. flow_active' = {} /\ ~UnderWay' /\ config' = DefaultConfig /\ program' = "GROUP_1"
        /\ program_current' = "GROUP_1"
    BY <1>3 DEF Reset, FlowReset, UnderWay
  <2> QED BY <2>1, ControlIrrigationAssumption DEF LimitInv, FlowsLimited, Asked
<1> QED BY <1>1, <1>2, <1>3, UpdateLimit, CommandLimit DEF Next, Loop

(* No flow is left without an end, resumed ones included, whatever else is *)
(* asked, when and by whom.                                                *)
THEOREM FlowsLimitedHolds ==
  ASSUME GivenLimits
  PROVE  Spec => []FlowsLimited
<1>1. Init => LimitInv
  BY ControlIrrigationAssumption
     DEF Init, ControlFlowInit, ProgramInit, LimitInv, FlowsLimited, UnderWay, Asked
<1>2. TypeOK /\ LimitInv /\ [Next]_vars => LimitInv'
  BY LimitNext
<1>3. LimitInv => FlowsLimited
  BY DEF LimitInv
<1> QED BY <1>1, <1>2, <1>3, InitType, NextType, PTL DEF Spec
-----------------------------------------------------------------------------
(* Why "detect faulty flow and stop all" does not hold (FaultStopsAll): a  *)
(* stop ends micro, macro and garden flow, and those are all the programs  *)
(* ever start.  Only the console starts others.                            *)
StoppedFlows == {MicroFlow, MacroFlow, GardenFlow}

(* Flows are started by their programs, by RESUME and on the console.      *)
LEMMA BeginServed ==
  ASSUME flow_active \subseteq StoppedFlows, NEW prog, NEW current, NEW cleaning,
         NEW on, NEW off, Begin(prog, current, cleaning, on, off)
  PROVE  flow_active' \subseteq StoppedFlows
<1>1. CASE Doses(current)
  <2>1. FlowsStart({MicroFlow, MacroFlow}, config.deliver_volume,
                   config.deliver_time, {FlowSensor[WaterFlow]})
    BY <1>1 DEF Begin, Doses, GroupPrograms
  <2> QED BY <2>1 DEF FlowsStart, StoppedFlows
<1>2. CASE ~Doses(current) /\ current = "GARDEN"
  BY <1>2 DEF Begin, FlowsStart, StoppedFlows
<1>3. CASE ~Doses(current) /\ current /= "GARDEN"
  BY <1>3 DEF Begin, flowVars
<1> QED BY <1>1, <1>2, <1>3

LEMMA ContinueServed ==
  ASSUME flow_active \subseteq StoppedFlows, NEW on, Continue(on)
  PROVE  flow_active' \subseteq StoppedFlows
BY FlowNames DEF Continue, StoppedFlows

LEMMA UpdateServed ==
  ASSUME flow_active \subseteq StoppedFlows, ProgramUpdate
  PROVE  flow_active' \subseteq StoppedFlows
<1>1. CASE PumpStart
  BY <1>1, BeginServed, ContinueServed DEF PumpStart
<1>2. ASSUME NEW off, FinishGroups(off) PROVE flow_active' \subseteq StoppedFlows
  BY <1>2, BeginServed DEF FinishGroups, Finish, flowVars
<1>3. CASE Group1Over \/ Group2Over \/ BothSecondOver
  BY <1>2, <1>3 DEF Group1Over, Group2Over, BothSecondOver
<1>4. CASE BothFirstOver
  BY <1>4, BeginServed DEF BothFirstOver
<1>5. CASE FaultStop \/ GeneratorStop \/ GardenOver \/ CleaningGroup2Over
  BY <1>5 DEF FaultStop, ForceStop, GeneratorStop, GardenOver, CleaningGroup2Over,
              Finish, flowVars
<1>6. CASE CleaningGroup1Over \/ CleaningGroup3Over \/ NothingDue
  BY <1>6 DEF CleaningGroup1Over, CleaningGroup3Over, CleaningNext, NothingDue, flowVars
<1> QED BY <1>1, <1>3, <1>4, <1>5, <1>6 DEF ProgramUpdate

LEMMA CommandServed ==
  ASSUME ConsoleFlows \subseteq StoppedFlows, flow_active \subseteq StoppedFlows,
         NetworkCommand \/ SerialCommand
  PROVE  flow_active' \subseteq StoppedFlows
<1>1. CASE StartCommand
  BY <1>1, BeginServed DEF StartCommand, Start, WarmUp, flowVars
<1>2. CASE StopCommand
  BY <1>2 DEF StopCommand, ForceStop
<1>3. CASE ResumeCommand
  BY <1>3, ContinueServed DEF ResumeCommand, Resume, WarmUp, flowVars
<1>4. CASE ToggleCommand \/ ConfigureCommand \/ DetectionCommand \/ NoCommand
  BY <1>4 DEF ToggleCommand, ConfigureCommand, DetectionCommand, NoCommand, flowVars
<1>5. CASE Console
  BY <1>5 DEF Console, ConsoleFlowStart, FlowsStart, ConsoleFlowStop, ConsoleFlowPause
<1> QED BY <1>1, <1>2, <1>3, <1>4, <1>5 DEF NetworkCommand, SerialCommand

LEMMA ServedNext ==
  ASSUME ConsoleFlows \subseteq StoppedFlows, flow_active \subseteq StoppedFlows, [Next]_vars
  PROVE  flow_active' \subseteq StoppedFlows
<1>1. CASE Loop
  BY <1>1, UpdateServed, CommandServed
     DEF Loop, SensorUpdate, FlowUpdate, FlowsAfterLoop, flowVars
<1>2. CASE Tick \/ Reset \/ UNCHANGED vars
  BY <1>2 DEF Tick, FlowTick, Reset, FlowReset, vars, flowVars
<1> QED BY <1>1, <1>2 DEF Next

(* A fault leaves no flow active, unless one was started on the console    *)
(* that control_irrigation_temp_force_stop does not stop: well, water or   *)
(* click flow.  Nothing else is left out of the stop.                      *)
THEOREM FaultStopsAllHolds ==
  ASSUME ConsoleFlows \subseteq StoppedFlows
  PROVE  Spec => FaultStopsAll
<1>1. Init => flow_active \subseteq StoppedFlows
  BY DEF Init, ControlFlowInit
<1>2. flow_active \subseteq StoppedFlows /\ [Next]_vars => (flow_active \subseteq StoppedFlows)'
  BY ServedNext
<1>3. flow_active \subseteq StoppedFlows => (FaultStop => flow_active' = {})
  BY DEF FaultStop, ForceStop, StoppedFlows
<1>4. flow_active \subseteq StoppedFlows /\ [Next]_vars
        => [FaultStop => flow_active' = {}]_vars
  BY <1>3
<1> QED BY <1>1, <1>2, <1>4, PTL DEF Spec, FaultStopsAll
-----------------------------------------------------------------------------
(* Why a flow may be reported as too great when it is not (MoreIsMore):    *)
(* RESUME, and the command that switches the detection, start an interval  *)
(* without counting anew.  Without the two the counts are exact.           *)
CountsAnew == ResumeIn = {} /\ DetectionChoices = {}

(* Stopped programs stay stopped; what the sensor of an active dosing flow *)
(* has seen in the interval is what its total gained.                      *)
NotResumed == status = "PREPARING" => is_stopped = "NOT_DETECTED"
SeenExact == \A f \in Dosers \cap flow_active : seen[f] + pulses_last[f] = Total(f)

MoreStep ==
  (/\ At("flow", "irrigation") /\ CheckDue /\ Abnormal /= {}
   /\ fault_status' = "FLOW_MORE") =>
    \E f \in Checked : seen[FlowSensor[f]] > FaultMaximum

(* What most steps do: no interval starts, no dosing flow does.            *)
LEMMA ExactKept ==
  ASSUME TypeOK, SeenExact, Observe, step' = step \/ step \notin {"sensor", "flow"},
         fault_time_last' = 0 => (step' = step \/ fault_time_last = 0),
         flow_active' \subseteq flow_active,
         \A f \in Dosers : /\ pulses_last'[f] = pulses_last[f]
                           /\ pulses_total'[f] = pulses_total[f]
  PROVE  SeenExact'
<1> SUFFICES ASSUME NEW f \in Dosers, f \in flow_active'
             PROVE  seen'[f] + pulses_last'[f] = Total(f)'
  BY DEF SeenExact, Dosers
<1>1. f \in flow_active /\ f \in Sensors
  BY DoserTables
<1>2. step' = step \/ ~IntervalStarts
  BY DEF IntervalStarts
<1>3. seen'[f] = seen[f]
  BY <1>1, <1>2 DEF Observe
<1>4. Total(f)' = pulses_total'[f] /\ Total(f) = pulses_total[f]
  BY TotalNext, SeenNumbers
<1>5. seen[f] + pulses_last[f] = Total(f)
  BY <1>1 DEF SeenExact
<1> QED BY <1>3, <1>4, <1>5

(* Nothing is left to be counted.                                          *)
LEMMA NothingCounted ==
  ASSUME flow_active' \cap Dosers = {}
  PROVE  SeenExact'
BY DEF SeenExact, Dosers

LEMMA SensorExact ==
  ASSUME TypeOK, SeenExact, SeenCounted, Observe, At("sensor", "flow"), SensorUpdate
  PROVE  SeenExact'
<1> SUFFICES ASSUME NEW f \in Dosers, f \in flow_active'
             PROVE  seen'[f] + pulses_last'[f] = Total(f)'
  BY DEF SeenExact, Dosers
<1>1. PICK n \in [LiveSensors -> 0..PulsesStep] :
        pulses_total' = [s \in Sensors |->
          IF s \in LiveSensors /\ pulses_total[s] + n[s] <= PulsesMax
          THEN pulses_total[s] + n[s] ELSE pulses_total[s]]
  BY DEF SensorUpdate
<1>2. f \in Sensors /\ pulses_total[f] \in Nat /\ pulses_last[f] \in Nat
      /\ Total(f) = pulses_total[f] /\ seen[f] \in Nat
  BY DoserTables, SeenNumbers DEF SeenCounted
<1>3. f \in LiveSensors => n[f] \in Nat
  BY ControlFlowAssumption
<1>4. pulses_total'[f] \in Nat
  BY <1>1, <1>2, <1>3
<1>5. seen'[f] = seen[f] + pulses_total'[f] - pulses_total[f]
  BY <1>2 DEF Observe, At
<1>6. f \in flow_active /\ pulses_last'[f] = pulses_last[f] /\ Total(f)' = pulses_total'[f]
  BY TotalNext DEF SensorUpdate, flowVars
<1>7. seen[f] + pulses_last[f] = pulses_total[f]
  BY <1>2, <1>6 DEF SeenExact
<1> QED BY <1>2, <1>4, <1>5, <1>6, <1>7

(* A check counts every flow that it leaves active.                        *)
LEMMA FlowUpdateExact ==
  ASSUME TypeOK, FlowInv, SeenExact, Observe, At("flow", "irrigation"), FlowUpdate
  PROVE  SeenExact'
<1> SUFFICES ASSUME NEW f \in Dosers, f \in flow_active'
             PROVE  seen'[f] + pulses_last'[f] = Total(f)'
  BY DEF SeenExact, Dosers
<1>1. /\ Total(f)' = pulses_total[f] /\ pulses_total[f] \in Nat
      /\ Total(f) = pulses_total[f] /\ pulses_last[f] \in Nat
  BY TotalNext, SeenNumbers DEF FlowUpdate, sensorVars
<1>2. f \in flow_active /\ f \in Checked \ {GardenFlow} /\ f \in Sensors /\ f \in Flows
  BY DoserTables DEF FlowUpdate, FlowsAfterLoop, FlowInv, Checked, Running
<1>3. CASE CheckDue
  <2>1. seen'[f] = 0
    BY <1>3, ObserveSeen DEF At, IntervalStarts
  <2>2. pulses_last'[f] = Total(f)
    BY <1>2, <1>3 DEF FlowUpdate
  <2> QED BY <1>1, <2>1, <2>2
<1>4. CASE ~CheckDue
  <2>1. seen'[f] = seen[f] /\ pulses_last'[f] = pulses_last[f]
    BY <1>2, <1>4 DEF FlowUpdate, Observe, At, IntervalStarts
  <2>2. seen[f] + pulses_last[f] = Total(f)
    BY <1>2 DEF SeenExact
  <2> QED BY <1>1, <2>1, <2>2
<1> QED BY <1>3, <1>4

(* A stage that begins counts its flows from zero.                         *)
LEMMA BeginExact ==
  ASSUME TypeOK, FlowInv, SeenExact, Observe, step = "irrigation", step' = "network",
         flow_active = {} \/ (FreshUnexpired /\ \A f \in flow_active : Expired(f)),
         NEW prog, NEW current, NEW cleaning, NEW on, NEW off,
         Begin(prog, current, cleaning, on, off),
         current = "GARDEN" => flow_active = {}
  PROVE  SeenExact'
<1>0. fault_time_last \in Nat
  BY AgeFacts DEF TypeOK, ControlFlowTypeOK
<1>1. CASE Doses(current)
  <2>1. FlowsStart({MicroFlow, MacroFlow}, config.deliver_volume,
                   config.deliver_time, {FlowSensor[WaterFlow]})
    BY <1>1 DEF Begin, Doses, GroupPrograms
  <2>2. fault_time_last' = 0 /\ flow_active' = flow_active \cup Dosers
    BY <2>1 DEF FlowsStart, Dosers
  <2>3. fault_time_last = 0 => flow_active = {}
    BY DEF FreshUnexpired
  <2>4. fault_time_last = 0 => flow_active' \ flow_active /= {}
    BY <2>2, <2>3 DEF Dosers
  <2>5. fault_time_last > 0 \/ flow_active' \ flow_active /= {}
    BY <1>0, <2>4
  <2>6. IntervalStarts
    BY <2>2, <2>5, Zenon DEF IntervalStarts
  <2>7. ASSUME NEW f \in Dosers
        PROVE  seen'[f] + pulses_last'[f] = Total(f)'
    <3>1. seen'[f] = 0
      BY <2>6, ObserveSeen
    <3>2. pulses_last'[f] = 0
      BY <2>1, DoserTables DEF FlowsStart, Dosers
    <3>3. f \in {FlowSensor[g] : g \in Dosers}
      BY DoserTables
    <3>4. Total(f)' = 0
      BY <2>1, <3>3, TotalNext, DoserTables DEF FlowsStart, Dosers
    <3> QED BY <3>1, <3>2, <3>4
  <2> QED BY <2>7 DEF SeenExact, Dosers
<1>2. CASE ~Doses(current) /\ current = "GARDEN"
  <2>1. FlowsStart({GardenFlow}, 0, GardenSeconds, {}) /\ flow_active = {}
    BY <1>2 DEF Begin
  <2>2. flow_active' \cap Dosers = {}
    BY <2>1, DoserTables DEF FlowsStart
  <2> QED BY <2>2, NothingCounted
<1>3. CASE ~Doses(current) /\ current /= "GARDEN"
  BY <1>3, ExactKept DEF Begin, flowVars, sensorVars
<1> QED BY <1>1, <1>2, <1>3

LEMMA UpdateExact ==
  ASSUME TypeOK, StageInv, FlowInv, FreshUnexpired, NotResumed, SeenExact, Observe,
         ProgramUpdate, step = "irrigation", step' = "network"
  PROVE  SeenExact'
<1>0. /\ flow_active /= {} => status = "READY"
      /\ DurationOver => \A f \in flow_active : Expired(f)
  BY FlowsDue
<1>1. CASE /\ UNCHANGED <<pulses_last, pulses_total, fault_time_last>>
           /\ flow_active' \subseteq flow_active
  BY <1>1, ExactKept
<1>2. ASSUME NEW off, FinishGroups(off), DurationOver
      PROVE  SeenExact'
  <2>1. CASE is_cleaning
    BY <1>0, <1>2, <2>1, BeginExact DEF FinishGroups
  <2>2. CASE ~is_cleaning
    BY <1>1, <1>2, <2>2 DEF FinishGroups, Finish, flowVars, sensorVars
  <2> QED BY <2>1, <2>2
<1>3. CASE PumpStart
  <2>1. flow_active = {}
    BY <1>0, <1>3 DEF PumpStart
  <2>2. Begin(program, FirstStage(program), is_cleaning, {PumpWell}, {})
    BY <1>3 DEF PumpStart, NotResumed
  <2> QED BY <2>1, <2>2, BeginExact
<1>4. CASE Group1Over \/ Group2Over \/ BothSecondOver
  BY <1>2, <1>4 DEF Group1Over, Group2Over, BothSecondOver
<1>5. CASE BothFirstOver
  BY <1>0, <1>5, BeginExact DEF BothFirstOver
<1>6. CASE FaultStop \/ GeneratorStop \/ GardenOver \/ CleaningGroup2Over
  BY <1>1, <1>6 DEF FaultStop, ForceStop, GeneratorStop, GardenOver,
     CleaningGroup2Over, Finish, flowVars, sensorVars
<1>7. CASE CleaningGroup1Over \/ CleaningGroup3Over \/ NothingDue
  BY <1>1, <1>7 DEF CleaningGroup1Over, CleaningGroup3Over, CleaningNext,
     NothingDue, flowVars, sensorVars
<1> QED BY <1>3, <1>4, <1>5, <1>6, <1>7 DEF ProgramUpdate

LEMMA CommandExact ==
  ASSUME OrderlyFlows, CountsAnew, TypeOK, SeenExact, Observe,
         NetworkCommand \/ SerialCommand, step \notin {"sensor", "flow"}
  PROVE  SeenExact'
<1>0. OrderlyStages /\ ConsoleFlows = {}
  BY DEF OrderlyFlows
<1>1. /\ UNCHANGED <<pulses_last, pulses_total, fault_time_last>>
      /\ flow_active' \subseteq flow_active
  <2>1. CASE StartCommand
    BY <1>0, <2>1 DEF StartCommand, Start, WarmUp, flowVars, sensorVars, OrderlyStages
  <2>2. CASE StopCommand
    BY <2>2 DEF StopCommand, ForceStop, sensorVars
  <2>3. CASE ResumeCommand \/ DetectionCommand
    BY <2>3 DEF ResumeCommand, DetectionCommand, CountsAnew
  <2>4. CASE ToggleCommand \/ ConfigureCommand \/ NoCommand
    BY <2>4 DEF ToggleCommand, ConfigureCommand, NoCommand, flowVars, sensorVars
  <2>5. CASE Console
    BY <1>0, <2>5 DEF Console
  <2> QED BY <2>1, <2>2, <2>3, <2>4, <2>5 DEF NetworkCommand, SerialCommand
<1> QED BY <1>1, ExactKept

(* A program that was stopped is prepared again only by RESUME.            *)
LEMMA NotResumedNext ==
  ASSUME CountsAnew, NotResumed, [Next]_vars
  PROVE  NotResumed'
<1>1. CASE ProgramUpdate
  <2>1. CASE PumpStart \/ FaultStop \/ GeneratorStop \/ NothingDue
    BY <2>1 DEF PumpStart, FaultStop, ForceStop, GeneratorStop, NothingDue, programVars,
                NotResumed
  <2>2. CASE Group1Over \/ Group2Over \/ BothSecondOver \/ BothFirstOver \/ GardenOver
    BY <2>2 DEF Group1Over, Group2Over, BothSecondOver, BothFirstOver, GardenOver,
                FinishGroups, Finish, OnCourse, NotResumed
  <2>3. CASE CleaningGroup1Over \/ CleaningGroup2Over \/ CleaningGroup3Over
    BY <2>3 DEF CleaningGroup1Over, CleaningGroup2Over, CleaningGroup3Over, CleaningNext,
                Finish, OnCourse, NotResumed
  <2> QED BY <1>1, <2>1, <2>2, <2>3 DEF ProgramUpdate
<1>2. CASE NetworkCommand \/ SerialCommand
  <2>1. CASE StartCommand
    BY <2>1 DEF StartCommand, Start, WarmUp, NotResumed
  <2>2. CASE StopCommand \/ ResumeCommand
    BY <2>2 DEF StopCommand, ForceStop, ResumeCommand, CountsAnew, NotResumed
  <2>3. CASE UNCHANGED <<status, is_stopped>>
    BY <2>3 DEF NotResumed
  <2> QED BY <1>2, <2>1, <2>2, <2>3
          DEF NetworkCommand, SerialCommand, ToggleCommand, ConfigureCommand,
              DetectionCommand, NoCommand, programVars
<1>3. CASE UNCHANGED <<status, is_stopped>>
  BY <1>3 DEF NotResumed
<1>4. CASE Reset
  BY <1>4 DEF Reset, NotResumed
<1> QED BY <1>1, <1>2, <1>3, <1>4 DEF Next, Loop, Tick, vars, programVars

LEMMA ExactNext ==
  ASSUME OrderlyFlows, CountsAnew, ~CanReset, TypeOK, StageInv, FlowInv, SeenInv,
         NotResumed, SeenExact, [Next /\ Observe]_observerVars
  PROVE  SeenExact'
<1>1. CASE UNCHANGED observerVars
  BY <1>1 DEF observerVars, vars, flowVars, sensorVars, SeenExact, Dosers, Total
<1>2. CASE Observe /\ Tick
  BY <1>2, ExactKept DEF Tick, FlowTick, sensorVars
<1>3. CASE Observe /\ At("flow", "irrigation") /\ FlowUpdate
  BY <1>3, FlowUpdateExact
<1>4. CASE Observe /\ At("irrigation", "network") /\ ProgramUpdate
  BY <1>4, UpdateExact DEF At, SeenInv
<1>5. CASE Observe /\ At("sensor", "flow") /\ SensorUpdate
  BY <1>5, SensorExact DEF SeenInv
<1>6. CASE Observe /\ At("device", "sensor") /\ UNCHANGED <<flowVars, sensorVars, programVars>>
  BY <1>6, ExactKept DEF At, flowVars, sensorVars
<1>7. CASE \/ Observe /\ At("network", "serial") /\ NetworkCommand
           \/ Observe /\ At("serial", "device") /\ SerialCommand
  BY <1>7, CommandExact DEF At
<1> QED BY <1>1, <1>2, <1>3, <1>4, <1>5, <1>6, <1>7 DEF Next, Loop, Reset

(* The total of a flow that is checked has not been set back.              *)
LEMMA MoreReported ==
  ASSUME TypeOK, FlowInv, SeenInv, SeenExact, Next
  PROVE  MoreStep
<1> SUFFICES ASSUME At("flow", "irrigation"), CheckDue, Abnormal /= {},
                    fault_status' = "FLOW_MORE"
             PROVE  \E f \in Checked : seen[FlowSensor[f]] > FaultMaximum
  BY DEF MoreStep
<1>1. FlowUpdate
  BY DEF Next, Loop, At, Tick, Reset
<1>2. ~Less(LastAbnormal)
  BY <1>1 DEF FlowUpdate, Verdict
<1>3. /\ Abnormal \subseteq Checked /\ Abnormal \subseteq Dosers
      /\ Abnormal \subseteq flow_active
  BY DEF Abnormal, Checked, Running, FlowInv, Dosers
<1>4. LastAbnormal \in Abnormal
  BY <1>3, LastIsAbnormal
<1> DEFINE f == LastAbnormal
<1>5. f \in Dosers /\ f \in Checked /\ FlowSensor[f] = f /\ f \in flow_active
  BY <1>3, <1>4, DoserTables
<1>6. More(f)
  BY <1>2, <1>4 DEF Abnormal
<1>7. /\ Total(f) \in Nat /\ pulses_last[f] \in Nat /\ seen[f] \in Nat
      /\ seen[f] + pulses_last[f] = Total(f)
  BY <1>5, SeenNumbers DEF SeenInv, SeenCounted, SeenExact
<1>8. FaultMaximum \in Nat
  BY ControlFlowAssumption
<1>9. seen[f] > FaultMaximum
  BY <1>6, <1>7, <1>8 DEF More
<1> QED BY <1>5, <1>9

(* A flow is reported as too great only if the sensor of a flow that was   *)
(* checked has really seen too many pulses in the interval, as long as     *)
(* programs are not resumed and the detection is not switched.             *)
THEOREM MoreIsMoreHolds ==
  ASSUME OrderlyFlows, CountsAnew, ~CanReset
  PROVE  ObservedSpec => MoreIsMore
<1>1. TypeOK /\ StageInv /\ [Next]_vars => StageInv'
  BY StageNext DEF OrderlyFlows
<1>2. TypeOK /\ StageInv /\ FlowInv /\ [Next]_vars => FlowInv'
  BY FlowNext
<1>3. TypeOK /\ StageInv /\ FlowInv /\ SeenInv /\ [Next /\ Observe]_observerVars
        => SeenInv'
  BY SeenNext
<1>4. NotResumed /\ [Next]_vars => NotResumed'
  BY NotResumedNext
<1>5. /\ TypeOK /\ StageInv /\ FlowInv /\ SeenInv /\ NotResumed /\ SeenExact
      /\ [Next /\ Observe]_observerVars
      => SeenExact'
  BY ExactNext
<1>6. Init => NotResumed /\ SeenExact
  BY DEF Init, ControlFlowInit, ProgramInit, NotResumed, SeenExact
<1>7. /\ TypeOK /\ FlowInv /\ SeenInv /\ SeenExact /\ [Next /\ Observe]_observerVars
      => [MoreStep]_observerVars
  BY MoreReported
<1> QED BY <1>1, <1>2, <1>3, <1>4, <1>5, <1>6, <1>7, InitType, NextType, StageInit,
           FlowInit, SeenInit, ObserverOnly, PTL
        DEF ObservedSpec, Spec, MoreIsMore, MoreStep
=============================================================================
