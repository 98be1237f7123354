------------------------------- MODULE Device -------------------------------
(***************************************************************************)
(* The relay board of the irrigation controller (device.cpp): fifteen      *)
(* devices, each switched by one relay pin, except the click pump, a       *)
(* bistable pump with one coil for on and one for off, each energised for  *)
(* a short hold.                                                           *)
(*                                                                         *)
(* The firmware stamps events with millis() and only ever reads a stamp t  *)
(* as the unsigned difference millis() - t.  Every stamp is therefore its  *)
(* age in ticks; setting a stamp to millis() makes the age zero, and Tick  *)
(* makes every age one tick older.  Ages saturate at AgeMax, a bound not   *)
(* below any threshold an age is compared with.                            *)
(***************************************************************************)
EXTENDS Integers

CONSTANTS AgeMax,         \* where ages saturate
          BootAge,        \* age of a zeroed stamp when setup() is over
          SwitchMinimum,  \* time_switch_minimum of the stamped devices
          HoldMinimum,    \* time_switch_hold_minimum of the click coils
          PulseNeeded,    \* how long a coil takes to switch the click pump
          ManualDevices,  \* devices toggled by hand (console, DEVICE_TOGGLE)
          CanReset        \* TRUE when the board may be reset while running

(* The indices of device_array. *)
Generator       == 0
PumpWell        == 1
PumpAcid        == 2
PumpSupplements == 3
Click           == 6
ValveMicro      == 7
ValveMacro      == 8
ValveWater      == 9
ValveGroup1     == 10
ValveGroup2     == 11
ValveGroup3     == 12
ValveGarden     == 13
Devices         == 0..14

(* The pin of the coil that turns the click pump off; the other pins are   *)
(* named by their device.                                                  *)
ClickOff == 15

(* The devices whose stamp time_switch_last matters: those the flow        *)
(* control paces, and the generator.                                       *)
Stamped == {Generator, PumpWell, PumpSupplements, Click,
            ValveMicro, ValveMacro, ValveWater, ValveGarden}

Age == 0..AgeMax

ASSUME DeviceAssumption ==
  /\ AgeMax \in Nat \ {0}
  /\ BootAge \in Age
  /\ HoldMinimum \in Age \ {0}
  /\ PulseNeeded \in 1..HoldMinimum
  /\ SwitchMinimum \in [Stamped -> Age \ {0}]
  /\ ManualDevices \subseteq Devices
  /\ CanReset \in BOOLEAN

VARIABLES device_active,          \* the devices whose is_active is TRUE
          time_switch_last,       \* ages of the last toggles
          is_hold,                \* a coil of the click pump is energised
          time_switch_hold_last,  \* age of the hold
          relay,                  \* the pins driven to DEVICE_RELAY_ON
          latch                   \* the click pump itself: is it running

deviceVars == <<device_active, time_switch_last, is_hold,
                time_switch_hold_last, relay, latch>>

DeviceTypeOK ==
  /\ device_active \subseteq Devices
  /\ time_switch_last \in [Stamped -> Age]
  /\ is_hold \in BOOLEAN
  /\ time_switch_hold_last \in Age
  /\ relay \subseteq Devices \cup {ClickOff}
  /\ latch \in BOOLEAN

DeviceInit ==
  /\ device_active = {}
  /\ time_switch_last = [d \in Stamped |-> BootAge]
  /\ is_hold = FALSE
  /\ time_switch_hold_last = BootAge
  /\ relay = {}
  /\ latch = FALSE
-----------------------------------------------------------------------------
Older(age) == IF age < AgeMax THEN age + 1 ELSE age

(* The coil that holds, or would hold, the click pump in state on.         *)
Coil(on) == IF on THEN Click ELSE ClickOff

(* The state of the bistable pump once the coil now energised, if any, is  *)
(* let go: it has switched only if the pulse was long enough.              *)
Pulsed == IF is_hold /\ time_switch_hold_last >= PulseNeeded
          THEN Click \in device_active ELSE latch

(* Mutant: an interrupted hold keeps its coil energised.                    *)
Mutant_Released(on, off) == {}

(* The coil an interrupted hold lets go before the next pulse.             *)
Released(on, off) ==
  IF is_hold /\ Click \in on \cup off THEN {Coil(Click \in device_active)} ELSE {}

(* Everything one handler asks of device_toggle: each device of on toggled *)
(* on and each of off toggled off, whether or not it was already.  (No     *)
(* handler toggles a device both ways.)  Toggling the click pump releases  *)
(* the coil still held, energises the other one and restarts the hold.     *)
Toggle(on, off) ==
  LET pulsed == Click \in on \cup off
      driven == IF pulsed THEN {Coil(Click \in on)} ELSE {}
  IN  /\ device_active' = (device_active \ off) \cup on
      /\ time_switch_last' = [d \in Stamped |-> IF d \in on \cup off
                                THEN 0 ELSE time_switch_last[d]]
      /\ is_hold' = (is_hold \/ pulsed)
      /\ time_switch_hold_last' = IF pulsed THEN 0 ELSE time_switch_hold_last
      /\ relay' = ((relay \ (off \ {Click})) \ Released(on, off))
                    \cup (on \ {Click}) \cup driven
      /\ latch' = IF pulsed THEN Pulsed ELSE latch

(* device_is_time_switch_minimum_passed *)
MinimumPassed(d) == time_switch_last[d] >= SwitchMinimum[d]

(* Mutant: the hold is over at once.                                       *)
Mutant_HoldOver == is_hold

HoldOver == is_hold /\ time_switch_hold_last >= HoldMinimum

(* device_update: the coil is released once it has been held long enough.  *)
DeviceUpdate ==
  /\ relay' = IF HoldOver THEN relay \ {Coil(Click \in device_active)}
                          ELSE relay
  /\ is_hold' = (is_hold /\ ~HoldOver)
  /\ latch' = IF HoldOver THEN Pulsed ELSE latch
  /\ UNCHANGED <<device_active, time_switch_last, time_switch_hold_last>>

DeviceTick ==
  /\ time_switch_last' = [d \in Stamped |-> Older(time_switch_last[d])]
  /\ time_switch_hold_last' = Older(time_switch_hold_last)
  /\ UNCHANGED <<device_active, is_hold, relay, latch>>

(* A toggle asked by hand, on the serial console or by DEVICE_TOGGLE.      *)
DeviceToggle(d, on) == IF on THEN Toggle({d}, {}) ELSE Toggle({}, {d})

(* A restart of the board, device_init included: every pin is released,    *)
(* and the click pump stays as its coils left it.                          *)
DeviceReset ==
  /\ device_active' = {}
  /\ time_switch_last' = [d \in Stamped |-> BootAge]
  /\ is_hold' = FALSE
  /\ time_switch_hold_last' = BootAge
  /\ relay' = {}
  /\ latch' = Pulsed

DeviceNext ==
  \/ DeviceUpdate
  \/ DeviceTick
  \/ \E d \in ManualDevices, on \in BOOLEAN : DeviceToggle(d, on)
  \/ CanReset /\ DeviceReset

DeviceSpec == DeviceInit /\ [][DeviceNext]_deviceVars
-----------------------------------------------------------------------------
(* The coils of the click pump: never both energised, none outside a hold, *)
(* and during a hold the coil of the state the program believes in; every  *)
(* other relay follows its device.  Depends on device_toggle releasing the *)
(* previous coil before the new one, whenever a hold is interrupted.       *)
RelaysFollow ==
  relay = (device_active \ {Click})
            \cup (IF is_hold THEN {Coil(Click \in device_active)} ELSE {})

Agrees == is_hold \/ (latch <=> Click \in device_active)

(* Between pulses the bistable pump runs exactly when the program believes *)
(* it does, however toggles interrupt each other: only a restart makes the *)
(* two disagree (device_init drives no coil), and then every other step    *)
(* makes them agree again or leaves both as they are.                      *)
LatchAgrees ==
  [][\/ Agrees'
     \/ ~Agrees /\ latch' = latch /\ (Click \in device_active' <=> Click \in device_active)
     \/ DeviceReset]_deviceVars

(* What the program doses it really doses: outside a pulse, a click pump   *)
(* that is believed to run does run.  A restart, which drives no coil, may *)
(* leave it running unseen, never the other way round.                     *)
BelievedRuns == Click \in device_active /\ ~is_hold => latch
=============================================================================
