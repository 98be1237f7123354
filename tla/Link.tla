-------------------------------- MODULE Link --------------------------------
(***************************************************************************)
(* The controller, its server and the internet between them, and an        *)
(* observer who notes how long the link has been sound and which commands  *)
(* have been carried out.                                                  *)
(***************************************************************************)
EXTENDS Internet, LinuxServer

VARIABLES sound,    \* ticks of a running loop since net and server are up and
                    \* the controller knows its server
          executed  \* the commands carried out

linkVars == <<networkVars, internetVars, serverVars, sound, executed>>

(* Where sound stops growing.                                              *)
SoundMax == PingInterval + 1

LinkTypeOK ==
  /\ NetworkTypeOK /\ InternetTypeOK /\ LinuxServerTypeOK
  /\ sound \in 0..SoundMax
  /\ executed \subseteq 1..CommandMax

LinkInit ==
  /\ NetworkInit /\ InternetInit /\ LinuxServerInit
  /\ sound = 0
  /\ executed = {}

Controller ==
  \/ LoopStep /\ UNCHANGED serverVars
  \/ ConsoleStep /\ UNCHANGED serverVars

Arrival == (\E d \in to_controller : Arrive(d)) /\ UNCHANGED serverVars

Serve == Idle /\ (\E d \in to_server : ServerReceive(d)) /\ UNCHANGED internetVars

Operator == Idle /\ (ServerCommand \/ ServerStart) /\ UNCHANGED internetVars

Surroundings ==
  /\ Idle
  /\ \/ (NetworkChange \/ Lose \/ Intrude) /\ UNCHANGED <<internetVars, serverVars>>
     \/ ServerStranger /\ UNCHANGED internetVars

LinkTick == InternetTick /\ UNCHANGED serverVars

Observe ==
  /\ sound' = IF ~(net_up' /\ server_up' /\ resolved') THEN 0
              ELSE IF InternetTick /\ Running THEN Grown(sound, SoundMax)
              ELSE sound
  /\ executed' = IF TakeCommand /\ packet.kind = "set"
                 THEN executed \cup {packet.id} ELSE executed

LinkNext ==
  /\ Controller \/ Arrival \/ Serve \/ Operator \/ Surroundings \/ LinkTick
  /\ Observe

LinkSpec == LinkInit /\ [][LinkNext]_linkVars

(* The loop takes its next step, datagrams that are delivered arrive, the  *)
(* server is always listening, and time passes.                            *)
FairLinkSpec ==
  /\ LinkSpec
  /\ WF_linkVars(LoopStep /\ UNCHANGED serverVars /\ Observe)
  /\ WF_linkVars(Arrival /\ Observe)
  /\ WF_linkVars(Serve /\ Observe)
  /\ WF_linkVars(LinkTick /\ Observe)
-----------------------------------------------------------------------------
(* A controller that is connected and knows its server does not restart    *)
(* the link while the link is sound: with net and server up, a ping is     *)
(* answered before time_receive_last is too old, however much telemetry    *)
(* and how many commands are under way and whatever strangers send.        *)
NoNeedlessRestart ==
  [][Troubleshoot /\ status = "READY" /\ ~receive_wait
       => sound <= PingInterval]_linkVars

(* A command is carried out at most once, although the packet it is in is  *)
(* shared with what the controller sends, and turns of the loop are cut    *)
(* short by restarts.  (The network duplicates nothing.)                   *)
CarriedOutOnce ==
  [][TakeCommand /\ packet.kind = "set" => packet.id \notin executed]_linkVars

(* The link keeps its promise to the operator: what the telemetry reports  *)
(* and the mirror shows are settings that were in force, and only a        *)
(* command that was sent, each once, or a restart of the controller        *)
(* changes the setting in force, although one packet serves for commands,  *)
(* pings and telemetry.                                                    *)
Channel == INSTANCE CommandChannel WITH
             given <- acts, done <- executed, inForce <- setting, shown <- mirror

KeepsChannel == Channel!ChannelSpec

(* No turn of the loop lasts longer than this between two resets of the    *)
(* watchdog: a start of the link, a send for a ping and for each part of   *)
(* the telemetry, and a second start or a send asked on the console.       *)
Lookup == DhcpMax + DnsMax
Asking == IF Lookup < ArpMax THEN ArpMax ELSE Lookup
WorstTurn == Lookup + (PartCount + 1) * ArpMax + Asking

TurnBounded == wdt_age + blocked <= WorstTurn

(* INFO_ALL of a wrong size leaves the packet taken for ever.              *)
Stuck == receive_wait /\ packet.kind = "bad_info"

(* Once net and server stay up, the controller ends connected to its       *)
(* server and stays so, whatever failed before: DHCP, DNS, the chip, the   *)
(* board.  Not with the packet stuck.                                      *)
LinkRecovers ==
  <>[](net_up /\ server_up /\ ~Stuck) => <>[](status = "READY" /\ resolved)

(* Once net and server stay up and telemetry is wanted, every part of the  *)
(* server's mirror ends equal to the state of the controller.              *)
MirrorFollows ==
  <>[](net_up /\ server_up /\ ~Stuck /\ is_send_info)
    => <>[](\A p \in Parts : mirror[p] = setting)

(* The watchdog restarts the board only if it is stuck ("watchdog timer    *)
(* code to restart arduino if stuck for 8s", changes.txt): no call that    *)
(* returns lasts until it bites.  Every call of this model returns.        *)
NeverTakenForStuck == ~Running => wdt_age < Watchdog
=============================================================================
