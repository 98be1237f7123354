------------------------------ MODULE Observer ------------------------------
(***************************************************************************)
(* What an observer at the field sees of the controller, kept beside its   *)
(* state: how long the group that is on has really been watered, and how   *)
(* many pulses each sensor has really seen since the detection of faulty   *)
(* flow last started its interval.  The observer changes nothing.          *)
(***************************************************************************)
EXTENDS ControlIrrigation

VARIABLES watered,  \* ticks of water in the present stage
          seen      \* pulses of each sensor in the present interval

observerVars == <<vars, watered, seen>>

(* Water reaches a group when the well pump runs and its valve is open.    *)
Watering ==
  /\ PumpWell \in device_active
  /\ {ValveGroup1, ValveGroup2} \cap device_active /= {}

(* The interval of the detection starts over after a check, and whenever   *)
(* a start, a resume or a command sets fault_time_last.                    *)
IntervalStarts ==
  IF step = "flow" THEN CheckDue
  ELSE fault_time_last' = 0 /\ (fault_time_last > 0 \/ flow_active' \ flow_active /= {})

(* A Tick is the only step that leaves the loop where it is (no resets).   *)
Observe ==
  /\ watered' = IF time_program_start' = 0 THEN 0
                ELSE IF step' = step /\ Watering THEN Older(watered) ELSE watered
  /\ seen' = [s \in Sensors |->
                IF step = "sensor" /\ step' /= step
                THEN seen[s] + pulses_total'[s] - pulses_total[s]
                ELSE IF step' /= step /\ IntervalStarts THEN 0 ELSE seen[s]]

ObservedSpec ==
  /\ Init /\ watered = 0 /\ seen = [s \in Sensors |-> 0]
  /\ [][Next /\ Observe]_observerVars

FairObservedSpec ==
  ObservedSpec /\ WF_observerVars(Loop /\ Observe) /\ WF_observerVars(Tick /\ Observe)
-----------------------------------------------------------------------------
(* A group is left only when it has had water for the whole duration of    *)
(* the program, in however many pieces stops and resumes have cut it       *)
(* ("function to resume stooped program", changes.txt).  Not with the      *)
(* duration changed on the way.                                            *)
FullWatering ==
  [][Group1Over \/ Group2Over \/ BothFirstOver \/ BothSecondOver =>
       watered >= config.program_duration]_observerVars

(* A flow is reported as too small only if its sensor has really seen too  *)
(* few pulses in the interval.                                             *)
LessIsLess ==
  [][(/\ At("flow", "irrigation") /\ CheckDue /\ Abnormal /= {}
      /\ fault_status' = "FLOW_LESS") =>
       \E f \in Checked : seen[FlowSensor[f]] < FaultMinimum]_observerVars

(* A flow is reported as too great only if its sensor has really seen too  *)
(* many pulses in the interval ("fix faulty flow detection bug",           *)
(* changes.txt).                                                           *)
MoreIsMore ==
  [][(/\ At("flow", "irrigation") /\ CheckDue /\ Abnormal /= {}
      /\ fault_status' = "FLOW_MORE") =>
       \E f \in Checked : seen[FlowSensor[f]] > FaultMaximum]_observerVars
=============================================================================
