------------------------- MODULE ControlIrrigation -------------------------
(***************************************************************************)
(* The irrigation programs (control_irrigation_temp.cpp) on top of the     *)
(* flow control and the relay board, driven by the superloop of main.cpp:  *)
(* device_update, the sensors, control_flow_update, the update of the      *)
(* program, then at most one command of the server and one of the serial   *)
(* console.  Time may pass between any two of them, and a reset (the       *)
(* command, the watchdog, a power failure) may come at any point.          *)
(*                                                                         *)
(* The prefix control_irrigation_temp_ of the source's names is left out.  *)
(***************************************************************************)
EXTENDS ControlFlow, Courses

CONSTANTS Programs,         \* the programs START is asked to run
          Cleanings,        \* the values of is_cleaning START is given
          StartIn,          \* the statuses in which START is sent,
          StopIn,           \* those in which STOP is sent,
          ResumeIn,         \* and those in which RESUME is sent
          DefaultConfig,    \* the settings after a reset
          Configs,          \* the settings the server may choose
          DetectionChoices  \* what the faulty detection command may ask

(* UNKNOWN stands for every program byte above GARDEN: START casts the     *)
(* byte to the enumeration without a check.                                *)
GroupPrograms == {"GROUP_1", "GROUP_2"}
AllPrograms == GroupPrograms \cup {"BOTH", "CLEANING", "GARDEN", "UNKNOWN"}
Statuses == {"FINISHED", "PREPARING", "READY", "FINISHING"}
Settings == {"deliver_volume", "deliver_time", "generator_wait",
             "program_duration", "group3_duration", "group12_duration"}
ConfigRecords == [deliver_volume : Nat, deliver_time : Nat,
                  generator_wait : Age, program_duration : Age,
                  group3_duration : Age, group12_duration : Age]
Steps == {"device", "sensor", "flow", "irrigation", "network", "serial"}

ASSUME ControlIrrigationAssumption ==
  /\ Programs \subseteq AllPrograms
  /\ Cleanings \subseteq BOOLEAN
  /\ StartIn \cup StopIn \cup ResumeIn \subseteq Statuses
  /\ Configs \subseteq ConfigRecords
  /\ DefaultConfig \in Configs
  /\ DetectionChoices \subseteq BOOLEAN

VARIABLES program,
          program_current,      \* the stage of BOTH that is on
          status,
          is_cleaning,
          is_stopped,           \* "NOT_DETECTED" stands for FALSE
          config,               \* the settings the server may change
          is_faulty_detection_active,
          time_cleaning_duration,
          time_program_start,   \* age
          time_program_stop,    \* time_program_stop - time_program_start, the
                                \* only form in which the code reads the stamp
          time_generator_start, \* age
          step                  \* the next step of the superloop

programVars == <<program, program_current, status, is_cleaning, is_stopped,
                 config, is_faulty_detection_active, time_cleaning_duration,
                 time_program_start, time_program_stop, time_generator_start>>
vars == <<deviceVars, flowVars, sensorVars, programVars, step>>

TypeOK ==
  /\ DeviceTypeOK
  /\ ControlFlowTypeOK
  /\ program \in AllPrograms
  /\ program_current \in AllPrograms
  /\ status \in Statuses
  /\ is_cleaning \in BOOLEAN
  /\ is_stopped \in FaultStatuses
  /\ config \in ConfigRecords
  /\ is_faulty_detection_active \in BOOLEAN
  /\ time_cleaning_duration \in Age
  /\ time_program_start \in Age
  /\ time_program_stop \in Age
  /\ time_generator_start \in Age
  /\ step \in Steps

(* The initial values of control_irrigation_temp.cpp and its init.         *)
ProgramInit ==
  /\ program = "GROUP_1"
  /\ program_current = "GROUP_1"
  /\ status = "FINISHED"
  /\ is_cleaning = FALSE
  /\ is_stopped = "NOT_DETECTED"
  /\ config = DefaultConfig
  /\ is_faulty_detection_active = TRUE
  /\ time_cleaning_duration = 0
  /\ time_program_start = BootAge
  /\ time_program_stop = 0
  /\ time_generator_start = BootAge
  /\ step = "device"

Init == DeviceInit /\ ControlFlowInit /\ ProgramInit
-----------------------------------------------------------------------------
(* What starting, or resuming, each program opens.                         *)
Opens(p) == CASE p = "GROUP_1"  -> {PumpAcid, ValveGroup1}
              [] p = "GROUP_2"  -> {PumpAcid, ValveGroup2}
              [] p = "CLEANING" -> {ValveGroup3}
              [] OTHER          -> {}

(* A volume of 1 is the server's way to ask for water alone.               *)
Doses(p) == p \in GroupPrograms /\ config.deliver_volume /= 1

(* time_to_deliver is a uint16_t of seconds.                               *)
GardenSeconds == (config.program_duration \div Second) % 65536

(* control_irrigation_temp_start, what it does when the status is READY:   *)
(* program runs with stage current, after the caller has toggled off.      *)
Begin(prog, current, cleaning, on, off) ==
  /\ program' = prog
  /\ program_current' = current
  /\ is_cleaning' = cleaning
  /\ time_cleaning_duration' = config.group3_duration
  /\ is_stopped' = "NOT_DETECTED"
  /\ Toggle(on \cup Opens(current), off)
  /\ CASE Doses(current) ->
            FlowsStart({MicroFlow, MacroFlow}, config.deliver_volume,
                       config.deliver_time, {FlowSensor[WaterFlow]})
       [] current = "GARDEN" -> FlowsStart({GardenFlow}, 0, GardenSeconds, {})
       [] OTHER -> UNCHANGED <<flowVars, sensorVars>>
  /\ time_program_start' = IF current = "UNKNOWN" THEN time_program_start ELSE 0
  /\ UNCHANGED <<config, is_faulty_detection_active, time_program_stop,
                 time_generator_start>>

(* Mutant: BOTH begins with its last stage.                                *)
Mutant_FirstStage(prog) == IF prog = "BOTH" THEN "GROUP_2" ELSE prog

FirstStage(prog) == IF prog = "BOTH" THEN "GROUP_1" ELSE prog

(* Mutant: no warm-up when the generator runs already.                     *)
Mutant_WarmUp ==
  /\ Toggle({Generator}, {})
  /\ time_generator_start' = 0
  /\ status' = IF Generator \in device_active THEN "READY" ELSE "PREPARING"
  /\ UNCHANGED <<flowVars, sensorVars, config, is_faulty_detection_active,
                 time_program_start, time_program_stop>>

(* The generator is started, the pump waits until it is warm.              *)
WarmUp ==
  /\ Toggle({Generator}, {})
  /\ time_generator_start' = 0
  /\ status' = "PREPARING"
  /\ UNCHANGED <<flowVars, sensorVars, config, is_faulty_detection_active,
                 time_program_start, time_program_stop>>

(* Mutant: a START over a program that irrigates only changes the names.   *)
Mutant_Start(prog, cleaning) ==
  /\ program' = prog
  /\ program_current' = IF status = "READY" THEN FirstStage(prog) ELSE prog
  /\ is_cleaning' = cleaning
  /\ time_cleaning_duration' = config.group3_duration
  /\ is_stopped' = "NOT_DETECTED"
  /\ IF status = "READY"
     THEN UNCHANGED <<deviceVars, flowVars, sensorVars, status, config,
                      is_faulty_detection_active, time_program_start,
                      time_program_stop, time_generator_start>>
     ELSE WarmUp

Start(prog, cleaning) ==
  IF status = "READY"
  THEN /\ Begin(prog, FirstStage(prog), cleaning, {}, {})
       /\ UNCHANGED status
  ELSE /\ program' = prog
       /\ program_current' = prog
       /\ is_cleaning' = cleaning
       /\ time_cleaning_duration' = config.group3_duration
       /\ is_stopped' = "NOT_DETECTED"
       /\ WarmUp

(* control_irrigation_temp_force_stop                                      *)
Faulty == is_faulty_detection_active /\ fault_status /= "NOT_DETECTED"

ForceStop ==
  LET stopped == {MicroFlow, MacroFlow, GardenFlow} IN
  /\ Toggle({}, Devices)
  /\ flow_active' = flow_active \ stopped
  /\ flow_pause' = flow_pause \ stopped
  /\ time_program_stop' = time_program_start
  /\ is_stopped' = IF status = "PREPARING" \/ is_stopped /= "NOT_DETECTED"
                   THEN is_stopped
                   ELSE IF Faulty THEN fault_status ELSE "STOPPED_BY_USER"
  /\ status' = "FINISHED"
  /\ UNCHANGED <<time_start, time_to_deliver, pulses_to_deliver, pulses_last,
                 fault_status, fault_time_last, sensorVars, program,
                 program_current, is_cleaning, config, is_faulty_detection_active,
                 time_cleaning_duration, time_program_start, time_generator_start>>

(* Mutant: the water flow, whose sensor the start resets, is resumed too.  *)
Mutant_ResumedFlows ==
  CASE Doses(program_current)     -> {MicroFlow, MacroFlow, WaterFlow}
    [] program_current = "GARDEN" -> {GardenFlow}
    [] OTHER                      -> {}

(* control_irrigation_temp_resume, what it does when the status is READY,  *)
(* after the caller has toggled on.                                        *)
ResumedFlows == CASE Doses(program_current)       -> {MicroFlow, MacroFlow}
                  [] program_current = "GARDEN"   -> {GardenFlow}
                  [] OTHER                        -> {}

(* Mutant: millis() is left out of the new time_program_start.             *)
Mutant_ResumedAge == time_program_start + time_program_stop

(* How long ago the resumed stage is taken to have started: what had       *)
(* passed of it at the stop.  Cleaning starts over.                        *)
ResumedAge == CASE program_current \in GroupPrograms \cup {"GARDEN"} -> time_program_stop
                [] program_current = "CLEANING" -> 0
                [] OTHER -> time_program_start

Continue(on) ==
  /\ is_stopped' = "NOT_DETECTED"
  /\ time_program_start' = ResumedAge
  /\ Toggle(on \cup Opens(program_current), {})
  /\ flow_active' = flow_active \cup ResumedFlows
  /\ time_start' = [f \in Flows |-> IF f \in ResumedFlows THEN ResumedAge
                                    ELSE time_start[f]]
  /\ IF Doses(program_current)
     THEN fault_status' = "NOT_DETECTED" /\ fault_time_last' = 0
     ELSE UNCHANGED <<fault_status, fault_time_last>>
  /\ time_cleaning_duration' = IF program_current = "CLEANING"
                               THEN config.group3_duration
                               ELSE time_cleaning_duration
  /\ UNCHANGED <<flow_pause, time_to_deliver, pulses_to_deliver, pulses_last,
                 sensorVars, program, program_current, is_cleaning, config,
                 is_faulty_detection_active, time_program_stop,
                 time_generator_start>>

(* control_irrigation_temp_resume as a command.                            *)
Resume ==
  /\ is_stopped /= "NOT_DETECTED"
  /\ IF status = "READY"
     THEN Continue({}) /\ UNCHANGED status
     ELSE WarmUp /\ UNCHANGED <<program, program_current, is_cleaning,
                               is_stopped, time_cleaning_duration>>
-----------------------------------------------------------------------------
(* control_irrigation_temp_update: one action for each way through it.     *)

(* Mutant: the wait is one tick too short.                                 *)
Mutant_GeneratorWaited == time_generator_start + 1 >= config.generator_wait

GeneratorWaited == time_generator_start >= config.generator_wait
DurationOver == time_program_start >= config.program_duration
CleaningOver == time_program_start >= time_cleaning_duration

PumpStart ==
  /\ status = "PREPARING" /\ GeneratorWaited
  /\ status' = "READY"
  /\ IF is_stopped = "NOT_DETECTED"
     THEN Begin(program, FirstStage(program), is_cleaning, {PumpWell}, {})
     ELSE Continue({PumpWell})

FaultStop ==
  /\ status \in {"READY", "FINISHING"} /\ Faulty
  /\ ForceStop

GeneratorStop ==
  /\ status = "FINISHING" /\ ~Faulty /\ GeneratorWaited
  /\ Toggle({}, {Generator})
  /\ status' = "FINISHED"
  /\ UNCHANGED <<flowVars, sensorVars, program, program_current, is_cleaning,
                 is_stopped, config, is_faulty_detection_active,
                 time_cleaning_duration, time_program_start, time_program_stop,
                 time_generator_start>>

(* Mutant: the well pump is forgotten.                                     *)
Mutant_Finish(off) ==
  /\ Toggle({}, off)
  /\ time_generator_start' = 0
  /\ status' = "FINISHING"
  /\ UNCHANGED <<flowVars, sensorVars, program, program_current, is_cleaning,
                 is_stopped, config, is_faulty_detection_active,
                 time_program_start, time_program_stop>>

(* The end of a program: off and the well pump are switched off, and the   *)
(* generator runs on for a while.                                          *)
Finish(off) ==
  /\ Toggle({}, off \cup {PumpWell})
  /\ time_generator_start' = 0
  /\ status' = "FINISHING"
  /\ UNCHANGED <<flowVars, sensorVars, program, program_current, is_cleaning,
                 is_stopped, config, is_faulty_detection_active,
                 time_program_start, time_program_stop>>

(* Mutant: the valves of the group stay open while cleaning.               *)
Mutant_FinishGroups(off) ==
  IF is_cleaning
  THEN Begin("CLEANING", "CLEANING", TRUE, {}, {}) /\ UNCHANGED status
  ELSE Finish(off) /\ UNCHANGED time_cleaning_duration

(* The end of the last group: cleaning follows if it was asked for.        *)
FinishGroups(off) ==
  IF is_cleaning
  THEN Begin("CLEANING", "CLEANING", TRUE, {}, off) /\ UNCHANGED status
  ELSE Finish(off) /\ UNCHANGED time_cleaning_duration

(* Mutant: the program is looked at before the fault.                      *)
Mutant_OnCourse(prog) == status = "READY" /\ program = prog

OnCourse(prog) == status = "READY" /\ ~Faulty /\ program = prog

Group1Over ==
  /\ OnCourse("GROUP_1") /\ DurationOver
  /\ FinishGroups({PumpAcid, ValveGroup1})

Group2Over ==
  /\ OnCourse("GROUP_2") /\ DurationOver
  /\ FinishGroups({PumpAcid, ValveGroup2})

BothFirstOver ==
  /\ OnCourse("BOTH") /\ DurationOver /\ ValveGroup1 \in device_active
  /\ Begin("BOTH", "GROUP_2", is_cleaning, {}, {ValveGroup1})
  /\ UNCHANGED status

BothSecondOver ==
  /\ OnCourse("BOTH") /\ DurationOver /\ ValveGroup1 \notin device_active
  /\ FinishGroups({PumpAcid, ValveGroup2})

(* Cleaning opens group 3, then group 1, then group 2.                     *)
CleaningNext(on, off, duration) ==
  /\ Toggle(on, off)
  /\ time_program_start' = 0
  /\ time_cleaning_duration' = duration
  /\ UNCHANGED <<flowVars, sensorVars, program, program_current, status,
                 is_cleaning, is_stopped, config, is_faulty_detection_active,
                 time_program_stop, time_generator_start>>

(* Mutant: the valve of the first group stays open.                        *)
Mutant_CleaningGroup1Over ==
  /\ OnCourse("CLEANING") /\ CleaningOver /\ ValveGroup1 \in device_active
  /\ CleaningNext({ValveGroup2}, {}, time_cleaning_duration)

CleaningGroup1Over ==
  /\ OnCourse("CLEANING") /\ CleaningOver /\ ValveGroup1 \in device_active
  /\ CleaningNext({ValveGroup2}, {ValveGroup1}, time_cleaning_duration)

(* Mutant: the valve of the second group stays open.                       *)
Mutant_CleaningGroup2Over ==
  /\ OnCourse("CLEANING") /\ CleaningOver
  /\ ValveGroup1 \notin device_active /\ ValveGroup2 \in device_active
  /\ Finish({})
  /\ time_cleaning_duration' = config.group3_duration

CleaningGroup2Over ==
  /\ OnCourse("CLEANING") /\ CleaningOver
  /\ ValveGroup1 \notin device_active /\ ValveGroup2 \in device_active
  /\ Finish({ValveGroup2})
  /\ time_cleaning_duration' = config.group3_duration

CleaningGroup3Over ==
  /\ OnCourse("CLEANING") /\ CleaningOver
  /\ {ValveGroup1, ValveGroup2} \cap device_active = {}
  /\ CleaningNext({ValveGroup1}, {ValveGroup3}, config.group12_duration)

GardenOver ==
  /\ OnCourse("GARDEN") /\ DurationOver
  /\ Finish({}) /\ UNCHANGED time_cleaning_duration

(* The early returns that change nothing.                                  *)
NothingDue ==
  /\ \/ status = "FINISHED"
     \/ status = "PREPARING" /\ ~GeneratorWaited
     \/ status = "FINISHING" /\ ~Faulty /\ ~GeneratorWaited
     \/ /\ program \in GroupPrograms \cup {"BOTH", "GARDEN"}
        /\ OnCourse(program) /\ ~DurationOver
     \/ OnCourse("CLEANING") /\ ~CleaningOver
     \/ OnCourse("UNKNOWN")
  /\ UNCHANGED <<deviceVars, flowVars, sensorVars, programVars>>

ProgramUpdate ==
  \/ PumpStart
  \/ FaultStop
  \/ GeneratorStop
  \/ Group1Over
  \/ Group2Over
  \/ BothFirstOver
  \/ BothSecondOver
  \/ CleaningGroup1Over
  \/ CleaningGroup2Over
  \/ CleaningGroup3Over
  \/ GardenOver
  \/ NothingDue
-----------------------------------------------------------------------------
(* The commands (interface.cpp, interface_serial.cpp).                     *)
StartCommand ==
  \E prog \in Programs, cleaning \in Cleanings :
    status \in StartIn /\ Start(prog, cleaning)

StopCommand == status \in StopIn /\ ForceStop

ResumeCommand == status \in ResumeIn /\ Resume

ToggleCommand ==
  /\ \E d \in ManualDevices, on \in BOOLEAN : DeviceToggle(d, on)
  /\ UNCHANGED <<flowVars, sensorVars, programVars>>

(* The commands that change one setting each.                              *)
ConfigureCommand ==
  /\ \E setting \in Settings, new \in Configs :
       /\ \A other \in Settings \ {setting} : new[other] = config[other]
       /\ config' = new
  /\ UNCHANGED <<deviceVars, flowVars, sensorVars, program, program_current,
                 status, is_cleaning, is_stopped, is_faulty_detection_active,
                 time_cleaning_duration, time_program_start, time_program_stop,
                 time_generator_start>>

(* control_irrigation_temp_faulty_detection_toggle                         *)
DetectionCommand ==
  /\ is_faulty_detection_active' \in DetectionChoices
  /\ fault_time_last' = 0
  /\ fault_status' = "NOT_DETECTED"
  /\ UNCHANGED <<deviceVars, sensorVars, flow_active, flow_pause, time_start,
                 time_to_deliver, pulses_to_deliver, pulses_last, program,
                 program_current, status, is_cleaning, is_stopped, config,
                 time_cleaning_duration, time_program_start, time_program_stop,
                 time_generator_start>>

NoCommand == UNCHANGED <<deviceVars, flowVars, sensorVars, programVars>>

(* interface_process_data: at most one command of the server.              *)
NetworkCommand ==
  \/ StartCommand
  \/ StopCommand
  \/ ResumeCommand
  \/ ToggleCommand
  \/ ConfigureCommand
  \/ DetectionCommand
  \/ NoCommand

(* interface_serial_update: at most one line of the console.               *)
SerialCommand ==
  \/ StartCommand
  \/ StopCommand
  \/ ResumeCommand
  \/ ToggleCommand
  \/ Console /\ UNCHANGED programVars
  \/ NoCommand
-----------------------------------------------------------------------------
(* loop(), step by step.                                                   *)
At(now, next) == step = now /\ step' = next

Loop ==
  \/ At("device", "sensor") /\ DeviceUpdate
       /\ UNCHANGED <<flowVars, sensorVars, programVars>>
  \/ At("sensor", "flow") /\ SensorUpdate /\ UNCHANGED programVars
  \/ At("flow", "irrigation") /\ FlowUpdate /\ UNCHANGED programVars
  \/ At("irrigation", "network") /\ ProgramUpdate
  \/ At("network", "serial") /\ NetworkCommand
  \/ At("serial", "device") /\ SerialCommand

Tick ==
  /\ DeviceTick
  /\ FlowTick
  /\ time_program_start' = Older(time_program_start)
  /\ time_generator_start' = Older(time_generator_start)
  /\ UNCHANGED <<program, program_current, status, is_cleaning, is_stopped,
                 config, is_faulty_detection_active, time_cleaning_duration,
                 time_program_stop, step>>

(* setup() after a reset: all of the state is in RAM and starts over; only *)
(* the click pump keeps its own.                                           *)
Reset ==
  /\ CanReset
  /\ DeviceReset
  /\ FlowReset
  /\ program' = "GROUP_1"
  /\ program_current' = "GROUP_1"
  /\ status' = "FINISHED"
  /\ is_cleaning' = FALSE
  /\ is_stopped' = "NOT_DETECTED"
  /\ config' = DefaultConfig
  /\ is_faulty_detection_active' = TRUE
  /\ time_cleaning_duration' = 0
  /\ time_program_start' = BootAge
  /\ time_program_stop' = 0
  /\ time_generator_start' = BootAge
  /\ step' = "device"

Next == Loop \/ Tick \/ Reset

Spec == Init /\ [][Next]_vars

(* The superloop never waits for anything but time.                        *)
FairSpec == Spec /\ WF_vars(Loop) /\ WF_vars(Tick)
-----------------------------------------------------------------------------
(* The generator runs exactly while a program is under way, and the well   *)
(* pump exactly while one is ready to irrigate: whatever commands come, in *)
(* whatever order, and whenever the program is stopped, resumed, replaced  *)
(* or reset.  Not with the two toggled by hand, nor with the well flow     *)
(* started on the console.                                                 *)
PumpPower ==
  /\ Generator \in device_active <=> status /= "FINISHED"
  /\ PumpWell \in device_active <=> status = "READY"

(* The well pump is never switched on before the generator has been on,    *)
(* without a break, for the whole warm-up: the relay's own stamp has the   *)
(* age the status machine measures on another.                             *)
WarmBeforePump ==
  [][PumpWell \notin device_active /\ PumpWell \in device_active' =>
       /\ Generator \in device_active
       /\ time_switch_last[Generator] >= config.generator_wait]_vars

(* A program ends with the generator unloaded: but for stops, faults and   *)
(* resets, which switch everything off, it is only switched off when the   *)
(* well pump has been off for the wait.                                    *)
UnloadedBeforeOff ==
  [][(Generator \in device_active /\ Generator \notin device_active') =>
       \/ ForceStop \/ Reset
       \/ /\ PumpWell \notin device_active
          /\ time_switch_last[PumpWell] >= config.generator_wait]_vars

(* A stopped program waits, or is being prepared to go on: the flag that   *)
(* makes RESUME act is never left over in a running program.               *)
StoppedAtRest ==
  is_stopped /= "NOT_DETECTED" => status \in {"FINISHED", "PREPARING"}

(* The well pump of a group or of cleaning never works against shut        *)
(* valves, not even for a moment: not when a START comes over a program    *)
(* that irrigates and leaves its valves open, nor when a stage is read     *)
(* back from such valves, or when a program that had ended is resumed.     *)
(* (BOTH without a stage is not excluded: a START that was stopped in its  *)
(* warm-up, stopped once more and resumed opens nothing.)                  *)
PumpHasWay ==
  (PumpWell \in device_active /\ program_current \in GroupPrograms \cup {"CLEANING"})
    => {ValveGroup1, ValveGroup2, ValveGroup3} \cap device_active /= {}

(* A fault is answered in the turn of the loop that raises it, and left    *)
(* behind by it: when commands are taken, a program that irrigates or runs *)
(* down has no fault pending, neither a new one nor an old one.            *)
FaultAnswered ==
  step \in {"network", "serial"} /\ status \in {"READY", "FINISHING"} => ~Faulty

(* Nothing doses or pumps supplements but a flow that runs: a device of a  *)
(* flow is on only while its flow is active and not paused, the water      *)
(* valve and the supplements pump only while one of the three flows that   *)
(* share them is active; whatever the console and the programs start,      *)
(* pause and stop.  (Not with devices toggled by hand; the well pump also  *)
(* serves the programs.)                                                   *)
FlowDevicesFollow ==
  /\ \A f \in {MicroFlow, MacroFlow, ClickFlow, GardenFlow} :
       FlowDevice[f] \in device_active => f \in Running
  /\ {PumpSupplements, ValveWater} \cap device_active /= {} =>
       flow_active \cap SupplementFlows /= {}

(* control_flow_update never leaves the supplements pump of a dosing       *)
(* program running against three closed valves, except while the water     *)
(* valve may not be switched again.                                        *)
PumpFlows ==
  (PumpSupplements \in device_active /\ {MicroFlow, MacroFlow} \cap flow_active /= {})
    => \/ {ValveMicro, ValveMacro, ValveWater} \cap device_active /= {}
       \/ ~MinimumPassed(ValveWater)

WaterFlushes == [][At("flow", "irrigation") => PumpFlows']_vars
-----------------------------------------------------------------------------
(* The properties below are those of orderly operation: START only when no *)
(* program is under way, STOP only of one that irrigates or runs down,     *)
(* no flow started on the console, dosing shorter than the program.        *)

(* The acid pump and the group valves are those of the stage that is on:   *)
(* none is left open by a stop, a fault, a resume or the end of a stage.   *)
StageValves ==
  IF status /= "READY" THEN {{}}
  ELSE CASE program_current = "CLEANING" ->
              {{ValveGroup3}, {ValveGroup1}, {ValveGroup2}}
         [] OTHER -> {Opens(program_current)}

ValvesMatchStage ==
  device_active \cap {PumpAcid, ValveGroup1, ValveGroup2, ValveGroup3}
    \in StageValves

(* When a program has ended, stopped or failed, everything is off and no   *)
(* flow is left that could switch anything on again.                       *)
RestsOff == status = "FINISHED" => device_active = {} /\ flow_active = {}

(* No flow is left without an end: what is active has a volume or a time   *)
(* to deliver, also when it was resumed rather than started.               *)
FlowsLimited ==
  \A f \in flow_active : pulses_to_deliver[f] > 0 \/ time_to_deliver[f] > 0

(* As control_flow_update leaves it, no supplement valve is open and the   *)
(* supplements pump is off unless the well pump carries them to the field. *)
DosesIntoWater ==
  (/\ step = "irrigation"
   /\ {PumpSupplements, ValveMicro, ValveMacro, ValveGarden}
        \cap device_active /= {}) => PumpWell \in device_active

(* The course of a program, as the state tells it.                         *)
Phase ==
  CASE status = "PREPARING" -> IF is_stopped = "NOT_DETECTED" THEN "warming" ELSE "rewarming"
    [] status = "READY"     -> "watering"
    [] status = "FINISHING" -> "running_on"
    [] OTHER                -> IF is_stopped = "NOT_DETECTED" THEN "off" ELSE "halted"

CleaningLeft ==
  IF status = "FINISHING" THEN <<"CLEANING_2">>
  ELSE IF status /= "READY" THEN CleaningStages
  ELSE IF ValveGroup1 \in device_active THEN <<"CLEANING_1", "CLEANING_2">>
  ELSE IF ValveGroup2 \in device_active THEN <<"CLEANING_2">>
  ELSE CleaningStages

StagesLeft ==
  IF Phase = "off" THEN <<>>
  ELSE IF Phase = "warming" THEN Course(program, is_cleaning)
  ELSE IF program_current = "CLEANING" THEN CleaningLeft
  ELSE IF program = "BOTH" /\ program_current = "GROUP_1" THEN Course("BOTH", is_cleaning)
  ELSE Course(program_current, is_cleaning)

Plan == INSTANCE IrrigationPlan
  WITH phase <- Phase, todo <- StagesLeft,
       on <- device_active \cap {Generator, PumpWell, PumpAcid, ValveGroup1, ValveGroup2,
                                 ValveGroup3}

(* The programs keep to their courses: stages in order, none left out and  *)
(* none twice, whenever they are stopped, faulted, resumed or replaced,    *)
(* and generator, pumps and valves exactly as the stage calls for.         *)
FollowsPlan == Plan!PlanSpec

(* Every program comes to an end, resumed or not.                          *)
ProgramsEnd == []<>(status = "FINISHED")
-----------------------------------------------------------------------------
(* "detect faulty flow and stop all" (changes.txt): after the stop no flow *)
(* is left active to switch its device on again.                           *)
FaultStopsAll == [][FaultStop => flow_active' = {}]_vars
=============================================================================
