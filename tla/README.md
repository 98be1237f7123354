# Blueberry irrigation system: TLA+ models, checks and proofs

The program is the firmware of an irrigation controller (`src/arduino_client`)
and the UDP server it reports to (`src/linux_server`). The controller drives a
generator, a well pump, supplement pumps and valves through relays; it meters
supplements with flow sensors, runs irrigation programs that are started,
stopped and resumed by an operator, and stops them when the flow or the
pressure is wrong. A web page with a mailbox (`src/web_client_server`) is left
from an earlier version. This directory models all three in TLA+, the controller
with the part of the Ethernet library it runs on, checks small instances with
TLC and proves the most important facts with TLAPS for every value of the
constants.

## Inventory of the system

| Part | State | Operations | What makes it correct | Modelled |
|---|---|---|---|---|
| `device.cpp`, relay board | `is_active`, switch stamps, the hold of the bistable click pump | `device_toggle`, `device_update`, minimum-time test | coils never both on, a pulse is never cut short, relays follow the devices | `Device` |
| `sensor_flow.cpp` | pulses counted by interrupts, totals | interrupts, update once a second, setting of totals | no pulse lost or counted twice | `SensorFlow`, `PulseCounter`; as input in `ControlFlow` |
| `sensor_pressure.cpp` | three pressures | update | - | as input of `ControlFlow` |
| `control_flow.cpp` | six flows with volume, time, start stamp, pause; the fault verdict | start, stop, pause, update | no device outlives its flow, the supplements pump never works against closed valves, verdicts are true | `ControlFlow` |
| `control_irrigation_temp.cpp` | program, stage, status, settings, three stamps, `is_stopped` | start, force_stop, resume, update, detection on/off | generator and pump in order, right valves, full watering time through stops, faults answered, an end | `ControlIrrigation` |
| `control_safety.cpp` | - | stop all devices, reset | - | `ControlIrrigation` |
| `main.cpp` | - | setup, superloop, watchdog | the watchdog bites only when stuck | `ControlIrrigation`, `Internet` |
| `interface.cpp`, `interface_serial.cpp` | one packet, send-info flag | commands, telemetry, console | commands take effect once, the receive flag is always released, numbers are read as typed | `ControlIrrigation` (what commands do), `Internet` (how they come), `ConsoleNumber` |
| `internet.cpp` | status of the link, stamps, receive flag, server address | restart hard/soft, DNS, ping, send, receive | the link comes back whatever fails, and is not restarted while it works | `Internet`, `Network`, `Link`, `CommandChannel` |
| `linux_server` | mirror of the controller, last address | console commands, receive, answer | mirror follows the controller | `LinuxServer`, `Link`, `ConsoleNumber` |
| `web_client_server` | mailbox files, a lock | HTTP relay, no longer used by the firmware | messages handed over once and in order | `Mailbox`, `MessageBox` (not the page) |
| `lib/Ethernet`: sockets, UDP, DHCP, DNS | read and write pointers, socket indices, timers, ids | begin, parsePacket, read, write, lease, lookup | datagrams read and sent whole, calls return in time, answers belong to their question | `UdpSocket`, `DatagramQueue`, `UdpSend`, `Dhcp`, `Dns` |
| `control_irrigation.cpp` | - | empty | - | no |
| `lib/Ethernet`: TCP, chip detection, SPI; `lib/my_library`; `src/ltspice` | unused or third-party code, logging, circuits | | | no |

**Interaction.** One superloop calls every component's update in a fixed
order; nothing preempts it but the sensors' interrupts. The programs call the
flow control and the relay board directly, and read back the valves'
`is_active` to know their own stage. The flow control tells the programs of a
fault through the global `control_flow_faulty_detection_status`. Commands reach
the programs from two places in the same turn of the loop, the server's packet
and the console. One packet, `internet_packet`, is used to receive, to answer
and to report; `internet_is_receive_wait` says whose it is. The link's three
users of UDP (the link, DHCP, DNS) share the chip's sockets. Server and
controller only exchange datagrams; the server answers to whatever address it
heard last. The web page's requests are processes that share two files and a
lock. All state is in RAM; a reset loses it, except the position of
the click pump.

**What is hard.** Commands in any status and any order; pauses of any length
between a stop and a resume, measured by differences of stamps; verdicts and
totals that outlive the flow they belong to; three flows sharing a pump and a
valve; minimum switch times that delay a switch the logic has already decided;
resets at any step. Calls of the network library that hold up the loop, and
with it everything above; datagrams that are lost, late, or not from the
server; answers to an earlier question; pointers kept on both sides of a chip
that can be reset behind the driver's back. `PROJECT.json` lists each hazard at
its line with the properties that watch it.

## Modules

- **`Device`**: `device.cpp`. `Toggle(on, off)` is everything one handler asks
  of `device_toggle`: no handler toggles a device both ways, so its calls
  commute and one set-valued step stands for them. `latch` is the click pump
  itself, which switches only if a coil was held for `PulseNeeded`.
- **`ControlFlow`** extends it: the flows. `FlowUpdate` is one pass of
  `control_flow_update`: the loop (`Finished`, `SwitchOn`, `SwitchOff`), then
  the rules of the pump and the water valve on what the loop leaves
  (`ActiveAfterLoop`, `FlowsAfterLoop`), then the detection (`Verdict`).
  `SensorUpdate` brings any pulses and any pressure.
- **`ControlIrrigation`** extends it: the programs, the commands and the loop.
  `step` is the program counter of `loop()`. Each way through
  `control_irrigation_temp_update` is an action (`PumpStart`, `FaultStop`,
  `Group1Over`, ...) and `NothingDue` gathers the early returns. `Begin` is
  `control_irrigation_temp_start` in status READY, `WarmUp` in any other;
  `Continue` and `Resume` are the two halves of `control_irrigation_temp_resume`.
- **`IrrigationPlan`** is what the programs promise: a course of stages (its table is
  `Courses`) that get water one after the other behind a warm-up, and that a halt
  interrupts and a resume takes up; what is on is a function of phase and stage.
  `FollowsPlan` is the refinement. The firmware keeps no such list: its mapping reads
  the phase off `status` and `is_stopped` (`Phase`), and the stages that are left off
  `program`, `program_current`, `is_cleaning` and, for cleaning, off the open valve
  (`StagesLeft`), as the code itself does.
- **`Observer`** adds what a person in the field could measure (`watered`,
  `seen`) without changing anything, to state properties on what really
  happened rather than on what the program believes.
- **`ControlIrrigationProofs`**, **`OrderlyProofs`**: theorems and proofs about
  the controller with any commands, and in orderly operation.
- **`SensorFlow`**: `sensor_flow.cpp`, statement by statement: `Detach`,
  `AddCount`, `ClearCount`, `Attach` for each sensor, with an `Edge` of any line
  between any two. **`PulseCounter`** is what it promises, a counter of real
  pulses; `CountsPulses` is the refinement, whose mapping adds to a total what
  is still pending (`Pending`).
- **`Network`**: the datagrams between controller and server, and a network
  that is whole or down. **`Internet`**: `internet.cpp`, the receiving half of
  `interface.cpp`, the watchdog; `pc` is the place in the loop, `blocked` how
  long a call still holds it up. Each way through `internet_update` is an action
  (`Restarting`, `Initializing`, `Troubleshoot`, `NotServing`, `SendPing`,
  `Receive`), each kind of `interface_process_data` another. **`LinuxServer`**:
  `server_udp.c` with the commands of `main.c`. **`Link`** composes the three
  and adds an observer (`sound`, `executed`). **`CommandChannel`** is what the
  three together promise the operator: a command is carried out once or never, and
  what is shown of the controller was in force at some time (`KeepsChannel`).
- **`UdpSocket`**: `socket.cpp` and the reading half of `EthernetUdp.cpp`, byte
  by byte where pointers matter; **`DatagramQueue`** is what it promises, a queue
  of datagrams for each object of class EthernetUDP (`ReadsDatagrams`).
  **`UdpSend`**: the writing half, for the packets this program sends.
- **`Dhcp`**, **`Dns`**: `request_DHCP_lease` and `getHostByName` with servers
  that answer late, twice, or not at all.
- **`Mailbox`**: `prog.php`, requests as processes; **`MessageBox`** is what it
  promises (`HandsOver`).
- **`ConsoleNumber`**: `serial_number_read` and `math_power` as recursive
  functions, against a left-to-right reading of the digits.
- **`DeviceProofs`** (the relay board alone and under the whole firmware, and what
  the flow control does with it), **`SensorFlowProofs`, `UdpProofs`,
  `DhcpDnsProofs`, `LinkProofs`, `UnitsProofs`** (the mailbox, the number, and the
  small parts beside each other): theorems and proofs.
- **`MCIrrigation`, `MCObserver`, `MCLink`, `MCUnits`**: instances for
  TLC. `MCUnits` runs the eight small parts beside each other, `unit` choosing
  one for a whole behaviour: their state spaces add up instead of multiplying.

The definitions named `Mutant_...` are deliberately wrong versions of the
definition that follows them. Nothing uses them; put in place of the right
definition, each makes a property named in `PROJECT.json` fail, which shows
that the property watches that part of the code.

**Time.** The firmware keeps stamps of `millis()` and reads a stamp `t` only as
`millis() - t`. A stamp is modelled by this difference, its age: stamping is
setting it to 0, `Tick` makes all ages one older. Ages stop at `AgeMax`, which
is at least every threshold they are compared with, so nothing is lost but
durations nobody measures; the wrap of `millis()` after 49 days is therefore not
seen. `time_program_stop` is only read in `time_program_stop -
time_program_start`, and is kept as this difference. Ticks may fall between any
two steps of the loop.

**Turns of the link.** In `Internet` a turn of the loop takes no time unless a
call blocks, a turn in which nothing can happen is left out (`TurnWanted`), and
the others act while the loop is between turns or blocked (`Idle`): a turn reads
the chip once and first, so what others do in the middle of it could as well
come after it. A network that is up delivers before the next tick; one that is
down loses everything; a send to a silent gateway, `Ethernet.begin` and
`getHostByName` then block up to their longest time.

**Abstractions.** A reset (`Reset`) may come at any step, whatever its cause
(command, watchdog, power). In `ControlIrrigation` a command is already parsed
and of the right size; `Internet` has those that are not. A setting stands for
any command that is carried out, and telemetry carries the value of the last
one. In `Dhcp` a server offers one address and is named like it. In `Mailbox`
files are read and written as a whole.
`UNKNOWN` stands for every program byte above GARDEN. A float comparison
is done exactly, over integers. A handler takes no time. `pulses_total`
grows to a bound `PulsesMax` that is above every volume asked for.

## Runs

| Run | What varies | Checks |
|---|---|---|
| `MCWater` | every program and UNKNOWN, with and without cleaning; START, STOP, RESUME from both interfaces in every status; the generator wait changed at run time; resets | `TypeOK`, `PumpPower`, `PumpHasWay`, `StoppedAtRest`, `WarmBeforePump`, `UnloadedBeforeOff` |
| `MCOrderly` | every program, orderly commands, fairness | `ValvesMatchStage`, `RestsOff`, `FollowsPlan`, `FullWatering`, `ProgramsEnd` |
| `MCConsole` | the micro and the water flow started with and without a volume, stopped and paused on the console; lamp toggles; detection switched off | `FlowDevicesFollow`, `WaterFlushes` |
| `MCDosing` | BOTH groups dosed, any pulses of two sensors, faults, stops and resumes | `FaultAnswered`, `RestsOff`, `DosesIntoWater`, `FlowsLimited`, `FaultStopsAll`, `LessIsLess` |
| `MCLink` | networks and servers that fail at any time, ten kinds of datagrams, restarts and lookups from the console, watchdog resets; fairness | `LinkTypeOK`, `NoNeedlessRestart`, `CarriedOutOnce`, `KeepsChannel`, `LinkRecovers`, `MirrorFollows` |
| `MCTurn` | calls that wait, each with a longest wait of its own; commands, telemetry and requests of the console in the same turn of the loop | `TurnBounded` |
| `MCUnits` | one of: the click pump and two devices toggled by hand at any moment, with holds of two ticks and resets; two sensors with interrupts anywhere; two sockets shared by three users, with chip and board resets; packets sent through a wrapping pointer; two DHCP servers; two lookups of a host that moves; two concurrent requests of the mailbox, one killed; numbers of up to seven digits | `UnitsTypeOK`, `RelaysFollow`, `BelievedRuns`, `LatchAgrees`, `CountsPulses`, `ReadsDatagrams`, `ParseReturns`, `SendsWhatWasWritten`, `LeaseIsGranted`, `DhcpBounded`, `DnsBounded`, `AnswerIsFresh`, `HandsOver`, `NumberIsDecimal` |
| `MCShortened` | a STOP also while PREPARING | finds `FullWatering` violated |
| `MCFalseMore` | detection interval longer than a tick | finds `MoreIsMore` violated |
| `MCStaleFault` | GARDEN with failing pressure | finds `FaultAnswered` violated |
| `MCFaultStop` | a flow started on the console under a program | finds `FaultStopsAll` violated |
| `MCWatchdog` | calls that wait for DHCP, DNS or the gateway | finds `NeverTakenForStuck` violated |

*Orderly operation* means: START only when FINISHED, STOP only when READY or
FINISHING, RESUME only when FINISHED, no device toggled by hand, dosing shorter
than the program. `ValvesMatchStage`, `RestsOff`, `DosesIntoWater`, `FlowsLimited`,
`FollowsPlan`, `FullWatering` and `ProgramsEnd` are about orderly operation only: outside of it
the code really breaks them (START over a READY program leaves the old valves
open; STOP while FINISHED followed by RESUME runs a program that had ended, with
flows that have no end, and so does a resume after dosing was switched on).
`PumpHasWay` is what still holds with START over a READY program: the pump of a group
or of cleaning has an open valve, if not the right one. It leaves out BOTH without a
stage: with it the run fails, because START BOTH, STOP in the warm-up, STOP once more and
RESUME run the well pump with no valve open.
These are known limits listed under the hazards; where a document of the
repository promises more, the run that shows it is one of the violations.

**Bounds.** Times are small but keep their order: generator wait 1 (or 2),
program 2 to 4, cleaning stages 1, dosing one less than the program, minimum
switch times 1, and 2 for the supplements pump, so that a switch can be late. Ages
saturate just above the largest. Two sensors with up to one pulse per update
distinguish too few, right and too many pulses (`FaultMinimum` =
`FaultMaximum` = 1). Every command is possible in every turn of the loop, so
the number of stops, resumes and restarts is not bounded.

In `MCLink` a tick is about five seconds, so that the watchdog (8 s) bites after
two and the longest lookup (12 s) outlasts it; `ReceiveLastMax` keeps its order
to the ping interval. `CommandMax` = 2 bounds what operators, strangers and the
console do together: two actions are the fewest in which one command can
disturb another; failures of the network are not bounded. `HoldMax` = 0: a
network that is down holds nothing back for later. In `MCTurn` the waits of DHCP (2),
DNS (1) and the gateway (1) can be told apart in their sum, a third action makes
room for the longest turn (a reset, then a lookup, a ping, the telemetry and a
restart asked on the console, one after the other), and the watchdog waits longer than
`WorstTurn`, so that it does not hide a longer turn; with one tick less than
`WorstTurn` the run fails. In `MCUnits` sizes are scaled
with their order kept: a 16-bit counter has 4 values and takes bursts of 3, a
read commits after 4 bytes and the ring has 7, so that every threshold is
crossed and pointers wrap; the send ring keeps its real size; `LongSize` is 2^24
because TLC's integers have 32 bits; `FlightMax`, `LeaseRuns`, `LoadMax`,
`MessageMax` and `KillMax` bound datagrams, leases, bytes, messages and kills, two
or more of each wherever two can meet. The ids of DNS queries are those of
`millis()`, so two lookups less than 65 s apart never share one.

**Fairness.** `FairSpec` and `FairObservedSpec` have weak fairness of the loop
and of time. The superloop never waits for anything but time, so it always
takes its next step, unless the board is held up, which the watchdog ends.
Nothing is assumed about commands, sensors or interrupts. `ProgramsEnd`
holds under it although programs may be stopped and resumed for ever.
`FairLinkSpec` has weak fairness of the controller's loop, of arriving datagrams,
of the server's receive loop and of time: all four run by themselves. Nothing is
assumed about the network, the operator, the console or strangers;
`LinkRecovers` and `MirrorFollows` only speak of behaviours in which network and
server stay up from some time on, and the packet is not stuck (below).

## Findings

1. *A pause counted as watering* (`MCShortened`). `force_stop` stamps
   `time_program_stop` also while a resumed program is PREPARING; the difference
   with the old `time_program_start` then contains the pause.
2. *FLOW_MORE without more flow* (`MCFalseMore`). A resume restarts the
   detection interval but not `pulses_last`. Without resumes, and
   without switching of the detection, it does not happen (`MoreIsMoreHolds`).
3. *A garden program that cannot be resumed* (`MCStaleFault`). The GARDEN branch
   of resume keeps the verdict of the last run.
4. *A fault stop that does not stop all* (`MCFaultStop`). Flows of the console
   stay active and switch their device on again. Those of the well, the water and the
   click flow are the only ones that do (`FaultStopsAllHolds`).
5. *A watchdog that bites boards that are not stuck* (`MCWatchdog`). A lookup
   waits up to 12 s for a silent name server, longer than the 8 s of the
   watchdog, which restarts the board and with it the program that irrigates.

Hazards without a property of their own are in `PROJECT.json` with the reason.
The most serious is INFO_ALL of a wrong size: `interface_process_data` returns
without clearing `internet_is_receive_wait`, and the controller never receives
again until it is reset. `MCLink` takes such commands, and the liveness
properties exclude the state they leave (`Stuck`).

## Proofs

`ControlIrrigationProofs` proves, for all thresholds, settings, sensors,
programs and command disciplines allowed by the assumptions
`DeviceAssumption`, `ControlFlowAssumption` and `ControlIrrigationAssumption`
(ranges of the constants; TLC evaluates them on every run):

- `TypeCorrect`: `Spec => []TypeOK`. One lemma per handler; `ToggleType` and
  `FlowsStartType` are used by most.
- `StoppedAtRestHolds`: inductive as it stands.
- `PumpPowerHolds`, `WarmBeforePumpHolds`, `UnloadedBeforeOffHolds`, under
  `LeftToPrograms` (generator and pump are not toggled by hand, the well flow
  not started on the console; without it the code does let an operator switch
  the pump alone). `PumpPower` is not inductive: the flow control would
  switch the pump if the well flow ran, and the two action properties compare
  the relay's stamp while the code waits on `time_generator_start`. `PowerInv`
  adds that the well flow never runs and that the two stamps have the same age
  in PREPARING (of the generator) and in FINISHING (of the pump). `PowerStep`
  bundles what one step must show; `PowerKept` is the common case of a step
  that leaves generator and pump alone. `PowerInv` was model-checked on the
  instance of `MCWater` before it was proved.

`DeviceProofs`:

- `RelaysFollowHolds`, from `RelaysFollow` and the types it needs, `LatchAgreesHolds`,
  for any toggles by hand and any resets, and from both `BelievedRunsHolds`: a click
  pump the program believes to run does run, so what is taken for dosed is. A restart
  can only make the opposite error. `SystemRelaysFollow`, `SystemLatchAgrees` and
  `SystemBelievedRuns` say the same of the whole firmware: each of its steps is one
  `Toggle` of two sets of devices that do not meet, or a `DeviceUpdate`, or a reset,
  and the lemmas about these do the rest. The only delicate case is `FlowUpdate`,
  which switches some devices on and others off in one pass.
- `FlowDevicesFollowHolds`, under `LeftToFlows` (no device of the flow control is
  toggled by hand), with any use of the console's flows: inductive with `TypeOK`.
- `WaterFlushesHolds`, for every command discipline.

`OrderlyProofs` proves the properties of orderly operation, and `PumpHasWay`, which needs
less order. Each theorem has as
its hypothesis the order it needs, stated on the constants, and is otherwise
about every duration, threshold, setting and number of commands:

| Hypothesis | What it says | Theorems |
|---|---|---|
| `OrderlyStages` | the acid pump and the groups' valves are not toggled by hand; no START while READY; no STOP while FINISHED | `ValvesMatchStageHolds`; with `LeftToPrograms` `FollowsPlanHolds` |
| `GroupValves \cap ManualDevices = {}`, `LeftToPrograms` | the groups' valves, generator and well pump are not toggled by hand, nor is the well flow started on the console; START, STOP and RESUME in any status | `PumpHasWayHolds` |
| `OrderlyFlows` | moreover no flow of the console, dosing and gardens fit into their programs, water alone or dosing is not changed | `DosesIntoWaterHolds`; with no device toggled by hand `RestsOffHolds`; `LessIsLessHolds` |
| `OrderlyDoses` | moreover only dosing programs | `FaultAnsweredHolds` |
| `OrderlyWatering` | `OrderlyStages`, no STOP while PREPARING, the duration is not changed | `FullWateringHolds` |
| `GivenLimits` | no STOP while FINISHED; dosing or water alone is not changed; dosing, garden programs and flows of the console are asked for with a time or a volume | `FlowsLimitedHolds` |
| `OrderlyFlows`, `CountsAnew` | nothing is resumed, the detection is not switched | `MoreIsMoreHolds` |
| `ConsoleFlows \subseteq StoppedFlows` | the console starts none of the flows that `force_stop` leaves alone | `FaultStopsAllHolds` |

Some theorems also name `LeftToPrograms` or `LeftToFlows`, or that no reset comes
(`~CanReset`). None of the hypotheses is empty: the constants of `MCOrderly` satisfy
`OrderlyStages`, `OrderlyFlows` and `OrderlyWatering`, those of `MCDosing`
`OrderlyDoses` and `GivenLimits` as well. Those of `MCWater` satisfy
the hypotheses of `PumpHasWayHolds`. The violating runs show that they cannot be
dropped: with a STOP while PREPARING `FullWatering` fails, with GARDEN among
the programs `FaultAnswered` does, with a resume `MoreIsMore`, and with the water flow
on the console `FaultStopsAll`. The last theorem asks for no order of the commands at
all and allows resets, so with its run it says that the console's flows are the one
cause of finding 4. The invariants, each model-checked first:

- `StageInv`: a program that is under way or stopped on its way is in a stage its
  program has; without it a resume could open any valve.
- `FlowInv`: every active flow belongs to the stage that is on and is as old as
  it, or its time is over and the next update ends it. So when the time of a
  stage is over so are its flows, and nothing doses into closed valves.
- `FaultInv`: a fault that is pending outside of the irrigation step was left by a
  stop, and the programs that could run into it clear it where they begin.
- `WaterInv`: the water a group has had is at least the time that has passed of
  its stage, which a stop keeps in `time_program_stop - time_program_start`.
- `SeenInv`: the pulses a sensor has seen in the interval of the detection are in
  its total, on top of what it was checked at. `SeenExact` says that they are all
  its total has gained, which a resume breaks.
- `WayInv`: `PumpHasWay` said of the status instead of the pump. Every step opens what
  its stage calls for, does not irrigate when it is done, or leaves valves, status and
  stage alone; `PumpPower` brings the pump back in.
- `LimitInv`: while a program is under way, the flows a resume would take up have a
  limit, whether they are active or not.

`FollowsPlanHolds` needs no invariant of its own. `StageInv` and `PumpPower` give that
what is on is what phase and stage call for (`ShownRight`), in either state of a step;
what is left is that every action takes phase and stages through one step of the plan
or leaves them alone (`CourseNext`): `PumpStart` is `Water` from a warm-up of either
kind, the two stops are `Cancel` or `Halt`, the end of a group or of a stage of cleaning
is `NextStage` or `RunOn`. It holds with faults, resets, unknown programs, a START that
replaces a program that is warming up or running down, and RESUME at any time.

The small parts, under the assumptions of their modules:

- `SensorFlowProofs`: `CountsPulsesHolds`, the refinement of `PulseCounter`, for
  any number of sensors and any size of counters larger than a burst. The
  invariant says how much each counter may hold by the phase the update has
  reached, so that none wraps, and that a flag is only set while its interrupt
  is detached.
- `UdpProofs`: `SendsWhatWasWrittenHolds`, for any size of the send buffer and any
  packets; the invariant relates the chip's two pointers to what has been written.
  `SendTypeCorrect` adds that nothing outgrows the buffer, if all the program can have
  under way fits into it (`RoomForPackets`; the 2048 bytes of the chip are more).
  Of the receiving side `SocketTypeCorrect`, `ParseReturnsHolds` and the refinement
  `ReadsDatagramsHolds`, for any sizes of ring, address space, header, datagram and
  read, any number of sockets, and any commit threshold below the 8-bit counter.
  `SocketInv` says that the ring is whole from every byte on (`Whole`: a byte of a
  datagram is followed by the rest of it and then by a header), that the driver's
  copies agree with the chip up to what it has not committed (`InStep`), that an
  object's count of unread bytes is that of the datagram its next byte belongs to
  (`ReadsItsOwn`), and that two objects in use never share a socket. It is needed
  as a whole: a header is read as such only because the reads before it stopped
  exactly there, across commits and wraps. The mapping reads off the ring the
  headers not yet read (`Waits`) and the datagram being read (`Current`); then
  each action is a step of `DatagramQueue` or none. An object whose socket stays open
  misses no datagram; those of a socket that is closed, by its user or by a reset, are gone.
- `DhcpDnsProofs`: `LeaseIsGrantedHolds`, from the invariant that every acceptance in
  flight stands for a granted address; `DhcpBoundedHolds`, from the invariant that
  `elapsed` is at most the timeout plus what the present wait has lasted;
  `AnswerIsFreshHolds`, from the invariant that an answer to the present question
  bears an address the name has had since it was asked; `DnsBoundedHolds`, from the
  time the tries so far can have taken.
- `LinkProofs`: `LinkTypeCorrect`; `CarriedOutOnceHolds`, from `CarriedInv`: what is
  under way or waits to be taken has not been carried out, and is at one place
  only, on its way, in the chip or in the packet. `NoNeedlessRestartHolds`, if
  pings are sent more often than an answer may be missed (`PingInterval <
  ReceiveLastMax`; `internet.h` has 5 s and 17 s), from `SoundInv`: while the link is
  sound the last sign of life is not older than the last ping, or the link is
  younger than it, or a ping is due, or a ping or its answer is under way; and
  only a command that waits can have kept an answer out. Both hold for any
  waits, any number of commands, and a network that holds back any number of
  datagrams while it is down.
- `LinkProofs` further: `KeepsChannelHolds`, the refinement of `CommandChannel`, from
  `CarriedInv` and `ShownInv`: a value in telemetry, on its way or in the mirror, is that
  of a command that was carried out, or none. `TurnBoundedHolds`, from
  `TurnInv`: at every place of the loop the time since the watchdog was reset is at
  most what the calls before it can have waited (`Spent`); each call waits once a turn, a
  send once for each datagram. With the waits of the code (8 s for
  the lease, three times 4 s for the name, 8 s for each send to a gateway that is
  silent, four parts of telemetry) the worst turn is about 80 s, ten times the
  watchdog's 8 s. `DnsMax` stands for the longest `getHostByName` whatever it is made of:
  the query's own send may wait for the gateway too, some 8 s a try that the 80 s do not
  count.
- `UnitsProofs`: `HandsOverHolds`, the refinement of `MessageBox`, for any number of
  requests and kills: a message is lost only to a DELETE, which empties a box once,
  and handed over twice only after a kill. It follows from mutual exclusion
  (`Exclusive`) and from what a request in the critical section has read being still
  in the file (`UpToDate`). `DeviceTypeCorrect` (of the board alone).
  `UnitsImplement`: what `MCUnits` runs implements the specification of every part, so
  every theorem about a part holds of what TLC checks; `UnitsTypeCorrect` follows from
  it.

Model-checked only, because the prover cannot do it: the liveness properties
`ProgramsEnd`, `LinkRecovers` and `MirrorFollows`, and `NumberIsDecimal`, whose
definition is recursive over data. Every other property of the passing runs is a
theorem. Of the violating runs each property but
`NeverTakenForStuck` is a theorem too, under the order that its hypothesis names.

## Not modelled, and the plan

Not modelled: the TCP half of the Ethernet library, `checkLease` and `maintain`
(nothing calls them, so a lease is never renewed), the detection of the chip and
SPI; run-time changes of `time_switch_minimum` and `pulses_per_liter`, which the
models have as constants; the layout of packets; the analog scaling of the
pressure sensors, of which only zero matters; what the server prints; answers of
`prog.php` that are lost on their way; the web page (`script.js`), which keeps
one global for the next message and one for the last answer and has no rule for
two clicks or two answers; `device_save_to_array` and
`control_irrigation_start`, which nothing calls; logging; the circuits.

Some inputs are left out where the code relies on what is sent to it:

- a datagram of three bytes with a size byte of 0 makes the size at `internet.cpp:205`
  255, and the loop behind it goes past `data`; a garbled datagram of `Internet`
  changes nothing. The server computes its size in the same way (`server_udp.c:106`,
  `120`). `parsePacket`'s result is cut to 8 bits at `internet.cpp:303`;
- `serial_number_read` (`interface_serial.cpp:116`) reads digits without a bound into an
  array of ten; `ConsoleNumber` assumes at most nine (`DigitMax`);
- indices of devices, flows and sensors are in range; the console's `fr` takes its digit
  as it is, without subtracting 48 (`interface_serial.cpp:58`), and `TotalSet` stands for
  a setting of a sensor there is;
- the console's `io` and `it` (`interface_serial.cpp:91`) send one or two bytes of any
  value out of the shared packet;
- answers of a name server are whole: a truncated one keeps the loop at `Dns.cpp:295`
  going, or returns SUCCESS with an address that was not read (`Dns.cpp:340`);
- the chip is there (`socket.cpp:69` gives up otherwise), and a packet fits into the
  chip's free space, so that `socketBufferData` (`socket.cpp:488`) never shortens a piece;
  the model cuts at the size of the buffer;
- `stop` leaves `_remaining` and `_remoteIP` of an object as they are; `UdpSocket` forgets
  them, because `begin` and `parsePacket` set them before anyone reads them again;
- a request to the mailbox without a message creates an empty `./pc` (`prog.php:46`), and
  an `echo` may be cut short.

What could be added, in this order:

1. The watering time as part of `IrrigationPlan`, so that `FullWatering` becomes part of
   the refinement.
2. A property for the hazards that have none, where the model can be made to see
   them without growing out of TLC's reach (a truncated answer of a name server
   first).
