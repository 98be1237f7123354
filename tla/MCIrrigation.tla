---------------------------- MODULE MCIrrigation ----------------------------
(***************************************************************************)
(* Small instances of the irrigation controller: a generator wait of one   *)
(* tick, programs of two, cleaning stages of one.                        *)
(***************************************************************************)
EXTENDS ControlIrrigation

(* The pumps must rest longer than the valves.                             *)
MCSwitchMinimum == [d \in Stamped |-> IF d = PumpSupplements THEN 2 ELSE 1]
MCPulsesPerLiter == [s \in Sensors |-> 1000]

(* Water alone: a volume of 1 starts no dosing.                            *)
WaterOnly == [deliver_volume |-> 1, deliver_time |-> 2, generator_wait |-> 1,
              program_duration |-> 2, group3_duration |-> 1,
              group12_duration |-> 1]
JustWater == {WaterOnly}

(* The generator wait may be changed while the generator warms up.         *)
LongerWait == [WaterOnly EXCEPT !.generator_wait = 2]
WaterConfigs == {WaterOnly, LongerWait}

(* Two ml of micro and of macro, over two ticks of a program of three.     *)
Dosing == [WaterOnly EXCEPT !.deliver_volume = 2, !.program_duration = 3]
JustDosing == {Dosing}

(* Three ml over three ticks of a program of four.                         *)
LongDosing == [WaterOnly EXCEPT !.deliver_volume = 3, !.deliver_time = 3,
                                !.program_duration = 4]
JustLongDosing == {LongDosing}
=============================================================================
