--------------------------- MODULE IrrigationPlan ---------------------------
(***************************************************************************)
(* What the irrigation programs promise in orderly operation.  A program   *)
(* is a course of stages.  The generator is warmed up, the stages get      *)
(* their water one after the other, none left out and none twice, then the *)
(* generator runs on and all is off.  A program that is halted goes on,    *)
(* when it is resumed, with the stage it was in; only cleaning starts      *)
(* over.  At any time on is what phase and stage call for, nothing else.   *)
(***************************************************************************)
EXTENDS Courses

CONSTANTS AllPrograms,
          Generator, PumpWell, PumpAcid, ValveGroup1, ValveGroup2, ValveGroup3,
          CanReset   \* the board may restart

VARIABLES phase,
          todo,   \* the stages that are left, the present one first
          on      \* what is on of generator, pumps and valves

planVars == <<phase, todo, on>>

Opened(stage) ==
  CASE stage = "GROUP_1"    -> {PumpAcid, ValveGroup1}
    [] stage = "GROUP_2"    -> {PumpAcid, ValveGroup2}
    [] stage = "CLEANING_3" -> {ValveGroup3}
    [] stage = "CLEANING_1" -> {ValveGroup1}
    [] stage = "CLEANING_2" -> {ValveGroup2}
    [] OTHER                -> {}

On(now, stages) ==
  CASE now = "watering" -> {Generator, PumpWell} \cup Opened(Head(stages))
    [] now \in {"warming", "rewarming", "running_on"} -> {Generator}
    [] OTHER -> {}

PlanInit == phase = "off" /\ todo = <<>> /\ on = {}

(* Another program may be asked for while none gets water.                 *)
Ask ==
  /\ phase /= "watering"
  /\ phase' = "warming"
  /\ \E prog \in AllPrograms, cleaning \in BOOLEAN : todo' = Course(prog, cleaning)

Water ==
  /\ phase \in {"warming", "rewarming"}
  /\ phase' = "watering"
  /\ UNCHANGED todo

NextStage ==
  /\ phase = "watering"
  /\ Tail(todo) /= <<>>
  /\ todo' = Tail(todo)
  /\ UNCHANGED phase

RunOn ==
  /\ phase = "watering"
  /\ Tail(todo) = <<>>
  /\ phase' = "running_on"
  /\ UNCHANGED todo

Drop == phase' = "off" /\ todo' = <<>>

Rest == phase = "running_on" /\ Drop

(* Before the first water there is nothing to resume.                      *)
Cancel == phase = "warming" /\ Drop

(* By the operator or by a fault.                                          *)
Halt ==
  /\ phase \in {"watering", "running_on", "rewarming"}
  /\ phase' = "halted"
  /\ todo' = IF Head(todo) \in {"CLEANING_1", "CLEANING_2"}
             THEN CleaningStages ELSE todo

GoOn ==
  /\ phase = "halted"
  /\ phase' = "rewarming"
  /\ UNCHANGED todo

Restart == CanReset /\ Drop

PlanNext ==
  /\ \/ Ask \/ Water \/ NextStage \/ RunOn \/ Rest
     \/ Cancel \/ Halt \/ GoOn \/ Restart
  /\ on' = On(phase', todo')

PlanSpec == PlanInit /\ [][PlanNext]_planVars
=============================================================================
