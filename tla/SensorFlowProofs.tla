-------------------------- MODULE SensorFlowProofs --------------------------
(***************************************************************************)
(* The flow sensors implement a counter of the real pulses, for any number *)
(* of sensors, any sizes of the counters and any bursts.                   *)
(***************************************************************************)
EXTENDS SensorFlow, TLAPS

count == [s \in Sensors |-> Added(pulses_total[s], Pending(s))]

(* Where the update is, the interrupts say: only the sensor it has reached *)
(* is detached, between Detach and Attach; only that sensor has an edge    *)
(* kept; and no sensor has more than Burst pulses pending.                 *)
FlowInv ==
  /\ SensorFlowTypeOK
  /\ attached = IF phase \in {"add", "clear", "attach"}
                THEN Sensors \ {counter} ELSE Sensors
  /\ latched \cap attached = {}
  /\ phase = "attach" => pulses_interrupt[counter] = 0
  /\ \A s \in Sensors :
       pulses_interrupt[s] + (IF s \in latched THEN 1 ELSE 0) <= Burst

LEMMA FlowInvInit == SensorFlowInit => FlowInv
BY SensorFlowAssumption, SMT
   DEF SensorFlowInit, FlowInv, SensorFlowTypeOK, Sensors

(* Each step keeps the invariant.                                          *)
LEMMA FlowInvStep == FlowInv /\ [SensorFlowNext]_flowSensorVars => FlowInv'
<1> SUFFICES ASSUME FlowInv, [SensorFlowNext]_flowSensorVars PROVE FlowInv'
  OBVIOUS
<1> USE SensorFlowAssumption DEF FlowInv, SensorFlowTypeOK
<1>1. ASSUME NEW s \in Sensors, Edge(s) PROVE FlowInv'
  <2>1. pulses_interrupt[s] + 1 # CounterSize
    BY <1>1, SMT DEF Edge
  <2>2. CASE s \in attached
    BY <1>1, <2>1, <2>2, SMT DEF Edge, Counted
  <2>3. CASE s \notin attached
    BY <1>1, <2>3, SMT DEF Edge
  <2> QED
    BY <2>2, <2>3
<1>2. ASSUME NEW s \in Sensors, Recover(s) PROVE FlowInv'
  BY <1>2, SMT DEF Recover
<1>3. ASSUME NEW s \in Sensors, NEW v \in SetValues, TotalSet(s, v) PROVE FlowInv'
  BY <1>3, SMT DEF TotalSet
<1>4. ASSUME NEW s \in Sensors, NEW v \in AddValues, TotalAdd(s, v) PROVE FlowInv'
  <2>1. pulses_total' \in [Sensors -> 0..(TotalSize - 1)]
    BY <1>4, SMT DEF TotalAdd, Added
  <2> QED
    BY <1>4, <2>1, SMT DEF TotalAdd
<1>5. CASE UpdateBegin
  BY <1>5, SMT DEF UpdateBegin, Sensors
<1>6. CASE Detach
  BY <1>6, SMT DEF Detach
<1>7. CASE AddCount
  <2>1. pulses_total' \in [Sensors -> 0..(TotalSize - 1)]
    BY <1>7, SMT DEF AddCount, Added
  <2> QED
    BY <1>7, <2>1, SMT DEF AddCount
<1>8. CASE ClearCount
  BY <1>8, SMT DEF ClearCount
<1>9. CASE Attach
  <2>1. pulses_interrupt' =
          [pulses_interrupt EXCEPT ![counter] = IF counter \in latched THEN 1 ELSE 0]
    <3>1. pulses_interrupt[counter] = 0 /\ Counted(0) = 1
      BY <1>9, SMT DEF Attach, Counted
    <3> QED
      BY <1>9, <3>1 DEF Attach
  <2>2. counter' \in Sensors
    BY <1>9, SMT DEF Attach, Sensors
  <2> QED
    BY <1>9, <2>1, <2>2, SMT DEF Attach
<1>10. CASE SensorFlowTick
  BY <1>10, SMT DEF SensorFlowTick
<1>11. CASE UNCHANGED flowSensorVars
  BY <1>11 DEF flowSensorVars
<1> QED
  BY <1>1, <1>2, <1>3, <1>4, <1>5, <1>6, <1>7, <1>8, <1>9, <1>10, <1>11
     DEF SensorFlowNext

(* Types: the counters keep their width, and only sensors are attached.    *)
THEOREM SensorFlowTypeCorrect == SensorFlowSpec => []SensorFlowTypeOK
<1>1. FlowInv => SensorFlowTypeOK
  BY DEF FlowInv
<1> QED
  BY <1>1, FlowInvInit, FlowInvStep, PTL DEF SensorFlowSpec
-----------------------------------------------------------------------------
LEMMA PendingBound ==
  ASSUME FlowInv, NEW s \in Sensors PROVE Pending(s) \in 0..Burst
BY SensorFlowAssumption, SMT DEF FlowInv, SensorFlowTypeOK, Pending

(* A step that moves no pulse.                                             *)
PulsesKept ==
  /\ low' = low
  /\ \A r \in Sensors : pulses_total'[r] = pulses_total[r] /\ Pending(r)' = Pending(r)

(* A step that leaves every sum of total and pending pulses alone.         *)
LEMMA CountKept ==
  ASSUME \A r \in Sensors :
           Added(pulses_total'[r], Pending(r)') = Added(pulses_total[r], Pending(r))
  PROVE  count' = count
BY Zenon DEF count

LEMMA CountChanged ==
  ASSUME NEW s \in Sensors,
         \A r \in Sensors \ {s} :
           Added(pulses_total'[r], Pending(r)') = Added(pulses_total[r], Pending(r))
  PROVE  count' = [count EXCEPT ![s] = Added(pulses_total'[s], Pending(s)')]
<1> DEFINE before(r) == Added(pulses_total[r], Pending(r))
           after(r) == Added(pulses_total'[r], Pending(r)')
<1>1. count = [r \in Sensors |-> before(r)] /\ count' = [r \in Sensors |-> after(r)]
  BY DEF count
<1>2. \A r \in Sensors \ {s} : after(r) = before(r)
  OBVIOUS
<1> HIDE DEF before, after
<1>3. count' = [count EXCEPT ![s] = after(s)]
  BY <1>1, <1>2
<1> QED
  BY <1>3 DEF after

LEMMA RefinementInit == SensorFlowInit => Promised!PulseInit
BY SensorFlowAssumption, SMT
   DEF SensorFlowInit, Promised!PulseInit, Pending, Added, Sensors

(* Every step of the sensors is a step of the counter of pulses, or leaves *)
(* it alone: the statements of the update move pulses from one variable to *)
(* another, and an edge adds one wherever the update is.                   *)
LEMMA RefinementStep ==
  FlowInv /\ FlowInv' /\ [SensorFlowNext]_flowSensorVars
    => [Promised!PulseNext]_<<low, count>>
<1> SUFFICES ASSUME FlowInv, FlowInv', [SensorFlowNext]_flowSensorVars
             PROVE  [Promised!PulseNext]_<<low, count>>
  OBVIOUS
<1> USE SensorFlowAssumption
<1>p. \A r \in Sensors :
        Pending(r) \in 0..Burst /\ pulses_total[r] \in 0..(TotalSize - 1)
  BY PendingBound DEF FlowInv, SensorFlowTypeOK
<1>1. ASSUME NEW s \in Sensors, Edge(s) PROVE Promised!Fall(s)
  <2>1. Added(pulses_total'[s], Pending(s)')
          = Promised!Sum32(count[s], 1)
    <3>1. pulses_total' = pulses_total
      BY <1>1 DEF Edge
    <3>2. Pending(s)' = Pending(s) + 1
      BY <1>1, SMT DEF Edge, Pending, Counted, FlowInv, SensorFlowTypeOK
    <3>3. count[s] = Added(pulses_total[s], Pending(s))
      BY DEF count
    <3> QED
      BY <1>p, <3>1, <3>2, <3>3, SMT DEF Added, Promised!Sum32
  <2>2. ASSUME NEW r \in Sensors \ {s}
        PROVE  Pending(r)' = Pending(r) /\ pulses_total'[r] = pulses_total[r]
    BY <1>1, SMT DEF Edge, Pending, FlowInv, SensorFlowTypeOK
  <2>3. count' = [count EXCEPT ![s] = Promised!Sum32(count[s], 1)]
    BY <2>1, <2>2, CountChanged
  <2> QED
    BY <1>1, <2>3 DEF Edge, Promised!Fall, count
<1>2. ASSUME NEW s \in Sensors, Recover(s) PROVE Promised!Rise(s)
  BY <1>2 DEF Recover, Promised!Rise, Pending
<1>3. ASSUME NEW s \in Sensors, NEW v \in SetValues, TotalSet(s, v) PROVE Promised!Set(s)
  <2>1. \A r \in Sensors : Pending(r)' = Pending(r)
    BY <1>3 DEF TotalSet, Pending
  <2>2. Added(pulses_total'[s], Pending(s)') = Promised!Sum32(v, Pending(s))
    BY <1>3, <2>1, SMT DEF TotalSet, Added, Promised!Sum32, FlowInv, SensorFlowTypeOK
  <2>3. \A r \in Sensors \ {s} : pulses_total'[r] = pulses_total[r]
    BY <1>3, SMT DEF TotalSet, FlowInv, SensorFlowTypeOK
  <2>4. count' = [count EXCEPT ![s] = Promised!Sum32(v, Pending(s))]
    BY <2>1, <2>2, <2>3, CountChanged
  <2> QED
    BY <1>p, <1>3, <2>4 DEF TotalSet, Promised!Set, count
<1>4. ASSUME NEW s \in Sensors, NEW v \in AddValues, TotalAdd(s, v) PROVE Promised!Add(s)
  <2>1. \A r \in Sensors : Pending(r)' = Pending(r)
    BY <1>4 DEF TotalAdd, Pending
  <2>2. Added(pulses_total'[s], Pending(s)') = Promised!Sum32(count[s], v)
    <3>1. pulses_total'[s] = Added(pulses_total[s], v)
      BY <1>4, SMT DEF TotalAdd, FlowInv, SensorFlowTypeOK
    <3>2. count[s] = Added(pulses_total[s], Pending(s))
      BY DEF count
    <3> QED
      BY <1>p, <2>1, <3>1, <3>2, SMT DEF Added, Promised!Sum32
  <2>3. \A r \in Sensors \ {s} : pulses_total'[r] = pulses_total[r]
    BY <1>4, SMT DEF TotalAdd, FlowInv, SensorFlowTypeOK
  <2>4. count' = [count EXCEPT ![s] = Promised!Sum32(count[s], v)]
    BY <2>1, <2>2, <2>3, CountChanged
  <2> QED
    BY <1>4, <2>4 DEF TotalAdd, Promised!Add, count
<1>5. CASE UpdateBegin
  <2>1. PulsesKept
    BY <1>5 DEF PulsesKept, UpdateBegin, Pending
  <2> QED
    BY <2>1, CountKept DEF PulsesKept
<1>6. CASE Detach
  <2>1. PulsesKept
    BY <1>6 DEF PulsesKept, Detach, Pending
  <2> QED
    BY <2>1, CountKept DEF PulsesKept
<1>7. CASE AddCount
  <2>1. ASSUME NEW r \in Sensors
        PROVE  Added(pulses_total'[r], Pending(r)') = Added(pulses_total[r], Pending(r))
    <3>1. CASE r = counter
      BY <1>p, <1>7, <3>1, SMT DEF AddCount, Pending, Added, FlowInv, SensorFlowTypeOK
    <3>2. CASE r # counter
      BY <1>7, <3>2, SMT DEF AddCount, Pending, FlowInv, SensorFlowTypeOK
    <3> QED
      BY <3>1, <3>2
  <2> QED
    BY <1>7, <2>1, CountKept DEF AddCount
<1>8. CASE ClearCount
  <2>1. PulsesKept
    BY <1>8, SMT DEF PulsesKept, ClearCount, Pending, FlowInv, SensorFlowTypeOK
  <2> QED
    BY <2>1, CountKept DEF PulsesKept
<1>9. CASE Attach
  <2>1. PulsesKept
    BY <1>9, SMT DEF PulsesKept, Attach, Pending, Counted, FlowInv, SensorFlowTypeOK
  <2> QED
    BY <2>1, CountKept DEF PulsesKept
<1>10. CASE SensorFlowTick
  <2>1. PulsesKept
    BY <1>10 DEF PulsesKept, SensorFlowTick, Pending
  <2> QED
    BY <2>1, CountKept DEF PulsesKept
<1>11. CASE UNCHANGED flowSensorVars
  <2>1. PulsesKept
    BY <1>11 DEF PulsesKept, flowSensorVars, Pending
  <2> QED
    BY <2>1, CountKept DEF PulsesKept
<1> QED
  BY <1>1, <1>2, <1>3, <1>4, <1>5, <1>6, <1>7, <1>8, <1>9, <1>10, <1>11
     DEF SensorFlowNext, Promised!PulseNext

(* No pulse is lost or counted twice (CountsPulses), for every value of    *)
(* the constants: the sensors implement the counter of real pulses.        *)
THEOREM CountsPulsesHolds == SensorFlowSpec => CountsPulses
<1>1. SensorFlowSpec => []FlowInv
  BY FlowInvInit, FlowInvStep, PTL DEF SensorFlowSpec
<1>2. SensorFlowInit => Promised!PulseInit
  BY RefinementInit
<1>3. FlowInv /\ FlowInv' /\ [SensorFlowNext]_flowSensorVars
        => [Promised!PulseNext]_<<low, count>>
  BY RefinementStep
<1> QED
  BY <1>1, <1>2, <1>3, PTL DEF SensorFlowSpec, CountsPulses, Promised!PulseSpec, count
=============================================================================
