----------------------------- MODULE LinkProofs -----------------------------
(***************************************************************************)
(* What the link between controller and server promises, whatever network, *)
(* server, operators, strangers and console do, for any lengths of the     *)
(* waits and any number of commands.                                       *)
(***************************************************************************)
EXTENDS Link, TLAPS

(* The steps, each with what it leaves alone.                              *)
BoardStep ==
  (\/ BeginDone \/ DnsDone \/ Restarting \/ Initializing \/ Troubleshoot
   \/ NotServing \/ SendPing \/ Receive \/ TakeCommand \/ TakePing \/ BeginInfo
   \/ SendInfo \/ NothingToTake \/ EndTurn
   \/ ConsolePing \/ ConsoleRestartHard \/ ConsoleRestartSoft \/ ConsoleLookup)
  /\ UNCHANGED serverVars

Restart == (TakeReset \/ WatchdogReset) /\ UNCHANGED serverVars

LEMMA LinkSteps ==
  ASSUME LinkNext
  PROVE  /\ Observe
         /\ BoardStep \/ Restart \/ Arrival \/ Serve \/ Operator \/ Surroundings
            \/ LinkTick
BY DEF LinkNext, Controller, LoopStep, ConsoleStep, BoardStep, Restart

LEMMA LinkConstants ==
  /\ CommandMax \in Nat /\ PartCount \in 1..4
  /\ RestartWait \in Nat \ {0} /\ ReceiveLastMax \in Nat \ {0}
  /\ PingInterval \in Nat \ {0} /\ InfoInterval \in Nat \ {0}
  /\ DhcpMax \in Nat /\ DnsMax \in Nat /\ ArpMax \in Nat
  /\ Watchdog \in Nat \ {0} /\ SoundMax \in Nat /\ SoundMax = PingInterval + 1
  /\ CommandKinds \subseteq AllKinds
BY NetworkAssumption, InternetAssumption DEF SoundMax
-----------------------------------------------------------------------------
(* Types. *)
BlockedMax == DhcpMax + DnsMax + ArpMax

LEMMA BlockType ==
  ASSUME NEW longest \in {DhcpMax, DnsMax, ArpMax}, Block(longest)
  PROVE  blocked' \in 0..BlockedMax
BY LinkConstants DEF Block, BlockedMax

LEMMA DatagramTypes ==
  /\ Ping \in ToServer /\ Pong \in ToServer /\ Pong \in ToController
  /\ \A i \in 1..PartCount, n \in 0..CommandMax : Info(PartOrder[i], n) \in ToServer
  /\ \A n \in 1..CommandMax, k \in AllKinds : [id |-> n, kind |-> k] \in ToController
<1>1. ASSUME NEW i \in 1..PartCount, NEW n \in 0..CommandMax
      PROVE  Info(PartOrder[i], n) \in ToServer
  <2>1. PartOrder[i] \in Parts
    BY DEF Parts
  <2> QED BY <2>1 DEF Info, ToServer
<1> QED BY <1>1 DEF ToServer, ToController, Commands

LEMMA SendType ==
  ASSUME NEW d \in ToServer, InternetSend(d), NetworkTypeOK, InternetTypeOK
  PROVE  to_server' \subseteq ToServer /\ blocked' \in 0..BlockedMax
<1>1. blocked \in 0..BlockedMax /\ to_server \subseteq ToServer
  BY DEF InternetTypeOK, NetworkTypeOK, BlockedMax
<1> QED BY <1>1, BlockType DEF InternetSend

LEMMA BoardType ==
  ASSUME LinkTypeOK, BoardStep
  PROVE  NetworkTypeOK' /\ InternetTypeOK' /\ LinuxServerTypeOK'
<1>1. NetworkTypeOK /\ InternetTypeOK /\ LinuxServerTypeOK
  BY DEF LinkTypeOK
<1>2. LinuxServerTypeOK'
  BY <1>1 DEF BoardStep, serverVars, LinuxServerTypeOK
<1>3. ASSUME BeginDone
      PROVE  NetworkTypeOK' /\ InternetTypeOK'
  BY <1>1, <1>3, BlockType
     DEF BeginDone, InternetTypeOK, NetworkTypeOK, networkVars, stampVars, commandVars,
         Statuses, Places, BlockedMax
<1>4. ASSUME DnsDone
      PROVE  NetworkTypeOK' /\ InternetTypeOK'
  <2>1. NetworkTypeOK'
    BY <1>1, <1>4 DEF DnsDone, networkVars, NetworkTypeOK
  <2>2. resolved' \in BOOLEAN /\ refresh' \in BOOLEAN
    BY <1>1, <1>4 DEF DnsDone, InternetTypeOK
  <2>3. receive_age' \in 0..ReceiveLastMax /\ pc' \in Places
    BY <1>1, <1>4, LinkConstants DEF DnsDone, InternetTypeOK, Places
  <2>4. UNCHANGED <<status, restart_age, ping_age, info_age, commandVars, chip, back,
                    part, blocked, wdt_age, turn_due>>
    BY <1>4 DEF DnsDone
  <2> QED BY <1>1, <2>1, <2>2, <2>3, <2>4 DEF InternetTypeOK, commandVars
<1>5. ASSUME Restarting \/ NotServing
      PROVE  NetworkTypeOK' /\ InternetTypeOK'
  BY <1>1, <1>5, LinkConstants
     DEF Restarting, NotServing, InternetTypeOK, NetworkTypeOK, networkVars, stampVars, commandVars,
         Statuses, Places
<1>6. ASSUME Initializing
      PROVE  NetworkTypeOK' /\ InternetTypeOK'
  <2>1. NetworkTypeOK'
    BY <1>1, <1>6 DEF Initializing, networkVars, NetworkTypeOK
  <2>2. refresh' \in BOOLEAN
    BY <1>1, <1>6 DEF Initializing, RestartSoft, InternetTypeOK
  <2>3. /\ receive_age' \in 0..ReceiveLastMax /\ blocked' \in 0..BlockedMax
        /\ status' \in Statuses /\ pc' \in Places /\ back' \in {"internet", "interface", "end"}
        /\ chip' \subseteq ToController
    BY <1>1, <1>6, BlockType, LinkConstants
       DEF Initializing, RestartSoft, InternetTypeOK, Places, Statuses, BlockedMax
  <2>4. UNCHANGED <<resolved, restart_age, ping_age, info_age, commandVars, part, wdt_age,
                    turn_due>>
    BY <1>6 DEF Initializing, RestartSoft
  <2> QED BY <1>1, <2>1, <2>2, <2>3, <2>4 DEF InternetTypeOK, commandVars, BlockedMax
<1>7. ASSUME Troubleshoot
      PROVE  NetworkTypeOK' /\ InternetTypeOK'
  BY <1>1, <1>7, LinkConstants
     DEF Troubleshoot, RestartHard, InternetTypeOK, NetworkTypeOK, networkVars, commandVars,
         Statuses, Places
<1>8. ASSUME SendPing
      PROVE  NetworkTypeOK' /\ InternetTypeOK'
  BY <1>1, <1>8, SendType, DatagramTypes
     DEF SendPing, InternetTypeOK, NetworkTypeOK, stampVars, commandVars,
         Statuses, Places, BlockedMax
<1>9. ASSUME Receive
      PROVE  NetworkTypeOK' /\ InternetTypeOK'
  <2>1. NetworkTypeOK'
    BY <1>1, <1>9 DEF Receive, networkVars, NetworkTypeOK
  <2>2. receive_wait' \in BOOLEAN
    BY <1>1, <1>9 DEF Receive, InternetTypeOK
  <2>3. /\ receive_age' \in 0..ReceiveLastMax /\ ping_age' \in 0..PingInterval
        /\ pc' \in Places
    BY <1>1, <1>9, LinkConstants DEF Receive, InternetTypeOK, Places
  <2>4. packet' \in ToController \cup {Blank, Ping} /\ chip' \subseteq ToController
    BY <1>1, <1>9 DEF Receive, InternetTypeOK
  <2>5. UNCHANGED <<status, resolved, restart_age, info_age, is_send_info, setting, back,
                    refresh, part, blocked, wdt_age, turn_due>>
    BY <1>9 DEF Receive
  <2> QED BY <1>1, <2>1, <2>2, <2>3, <2>4, <2>5 DEF InternetTypeOK
<1>10. ASSUME TakeCommand
      PROVE  NetworkTypeOK' /\ InternetTypeOK'
  <2>1. NetworkTypeOK'
    BY <1>1, <1>10 DEF TakeCommand, networkVars, NetworkTypeOK
  <2>2. is_send_info' \in BOOLEAN /\ receive_wait' \in BOOLEAN
    BY <1>1, <1>10 DEF TakeCommand, InternetTypeOK
  <2>3. packet' \in ToController \cup {Blank, Ping} /\ pc' \in Places
    BY <1>1, <1>10 DEF TakeCommand, InternetTypeOK, Places
  <2>4. setting' \in 0..CommandMax
    BY <1>1, <1>10, LinkConstants
       DEF TakeCommand, InternetTypeOK, ToController, Commands, Blank, Ping, Pong
  <2>5. UNCHANGED <<status, resolved, stampVars, chip, back, refresh, part, blocked,
                    wdt_age, turn_due>>
    BY <1>10 DEF TakeCommand
  <2> QED BY <1>1, <2>1, <2>2, <2>3, <2>4, <2>5 DEF InternetTypeOK, stampVars
<1>11. ASSUME TakePing
      PROVE  NetworkTypeOK' /\ InternetTypeOK'
  BY <1>1, <1>11, SendType, DatagramTypes
     DEF TakePing, InternetTypeOK, NetworkTypeOK, stampVars,
         Statuses, Places, BlockedMax
<1>12. ASSUME BeginInfo
      PROVE  NetworkTypeOK' /\ InternetTypeOK'
  BY <1>1, <1>12, LinkConstants
     DEF BeginInfo, InternetTypeOK, NetworkTypeOK, networkVars, commandVars,
         Statuses, Places
<1>13. ASSUME SendInfo
      PROVE  NetworkTypeOK' /\ InternetTypeOK'
  <2>1. part \in 1..PartCount /\ setting \in 0..CommandMax
    BY <1>1 DEF InternetTypeOK
  <2>2. Info(PartOrder[part], setting) \in ToServer
    BY <2>1, DatagramTypes
  <2>3. InternetSend(Info(PartOrder[part], setting))
    BY <1>13 DEF SendInfo
  <2>4. to_server' \subseteq ToServer /\ blocked' \in 0..BlockedMax
    BY <1>1, <2>2, <2>3, SendType
  <2>5. NetworkTypeOK'
    BY <1>1, <1>13, <2>4 DEF SendInfo, NetworkTypeOK
  <2>6. receive_wait' \in BOOLEAN
    BY <1>1, <1>13 DEF SendInfo, InternetTypeOK
  <2>7. /\ packet' \in ToController \cup {Blank, Ping} /\ pc' \in Places
        /\ part' \in 1..PartCount
    BY <1>1, <1>13, LinkConstants DEF SendInfo, InternetTypeOK, Places
  <2>8. UNCHANGED <<status, resolved, stampVars, is_send_info, setting, chip, back,
                    refresh, wdt_age, turn_due>>
    BY <1>13 DEF SendInfo
  <2> QED BY <1>1, <2>4, <2>5, <2>6, <2>7, <2>8 DEF InternetTypeOK, stampVars, BlockedMax
<1>14. ASSUME NothingToTake \/ EndTurn
      PROVE  NetworkTypeOK' /\ InternetTypeOK'
  <2>1. NetworkTypeOK'
    BY <1>1, <1>14 DEF NothingToTake, EndTurn, networkVars, NetworkTypeOK
  <2>2. turn_due' \in BOOLEAN
    BY <1>1, <1>14 DEF NothingToTake, EndTurn, InternetTypeOK
  <2>3. pc' \in Places /\ wdt_age' \in 0..Watchdog
    BY <1>1, <1>14, LinkConstants DEF NothingToTake, EndTurn, InternetTypeOK, Places
  <2>4. UNCHANGED <<status, resolved, stampVars, commandVars, chip, back, refresh, part,
                    blocked>>
    BY <1>14 DEF NothingToTake, EndTurn
  <2> QED BY <1>1, <2>1, <2>2, <2>3, <2>4 DEF InternetTypeOK, stampVars, commandVars
<1>15. ASSUME ConsolePing
      PROVE  NetworkTypeOK' /\ InternetTypeOK'
  BY <1>1, <1>15, SendType, DatagramTypes, LinkConstants
     DEF ConsolePing, Asked, InternetTypeOK, NetworkTypeOK, stampVars,
         Statuses, Places, BlockedMax
<1>16. ASSUME ConsoleRestartHard
      PROVE  NetworkTypeOK' /\ InternetTypeOK'
  BY <1>1, <1>16, LinkConstants
     DEF ConsoleRestartHard, Asked, RestartHard, InternetTypeOK, NetworkTypeOK, commandVars,
         Statuses, Places
<1>17. ASSUME ConsoleRestartSoft
      PROVE  NetworkTypeOK' /\ InternetTypeOK'
  BY <1>1, <1>17, BlockType, LinkConstants
     DEF ConsoleRestartSoft, Asked, RestartSoft, InternetTypeOK, NetworkTypeOK, commandVars,
         Statuses, Places, BlockedMax
<1>18. ASSUME ConsoleLookup
      PROVE  NetworkTypeOK' /\ InternetTypeOK'
  <2>1. NetworkTypeOK'
    BY <1>1, <1>18, LinkConstants DEF ConsoleLookup, Asked, NetworkTypeOK
  <2>2. InternetTypeOK'
    BY <1>1, <1>18, BlockType
       DEF ConsoleLookup, Asked, stampVars, commandVars, BlockedMax, InternetTypeOK, Places
  <2> QED BY <2>1, <2>2
<1> QED
  BY <1>2, <1>3, <1>4, <1>5, <1>6, <1>7, <1>8, <1>9, <1>10, <1>11, <1>12, <1>13,
     <1>14, <1>15, <1>16, <1>17, <1>18 DEF BoardStep

LEMMA RestartType ==
  ASSUME LinkTypeOK, Restart
  PROVE  NetworkTypeOK' /\ InternetTypeOK' /\ LinuxServerTypeOK'
<1>1. NetworkTypeOK /\ LinuxServerTypeOK
  BY DEF LinkTypeOK
<1>2. Boot /\ UNCHANGED serverVars
  BY DEF Restart, TakeReset, WatchdogReset
<1>3. NetworkTypeOK' /\ LinuxServerTypeOK'
  BY <1>1, <1>2 DEF Boot, networkVars, serverVars, NetworkTypeOK, LinuxServerTypeOK
<1>4. blocked' \in 0..BlockedMax
  BY <1>2, BlockType DEF Boot
<1>5. /\ resolved' \in BOOLEAN /\ receive_wait' \in BOOLEAN /\ is_send_info' \in BOOLEAN
      /\ refresh' \in BOOLEAN /\ turn_due' \in BOOLEAN
  BY <1>2 DEF Boot
<1>6. /\ restart_age' \in 0..RestartWait /\ receive_age' \in 0..ReceiveLastMax
      /\ ping_age' \in 0..PingInterval /\ info_age' \in 0..InfoInterval
      /\ setting' \in 0..CommandMax /\ part' \in 1..PartCount /\ wdt_age' \in 0..Watchdog
  BY <1>2, LinkConstants DEF Boot
<1>7. /\ status' \in Statuses /\ pc' \in Places /\ back' \in {"internet", "interface", "end"}
      /\ packet' \in ToController \cup {Blank, Ping} /\ chip' \subseteq ToController
  BY <1>2 DEF Boot, Statuses, Places
<1> QED BY <1>3, <1>4, <1>5, <1>6, <1>7 DEF InternetTypeOK, BlockedMax

LEMMA ArrivalType ==
  ASSUME LinkTypeOK, Arrival
  PROVE  NetworkTypeOK' /\ InternetTypeOK' /\ LinuxServerTypeOK'
<1>1. NetworkTypeOK /\ InternetTypeOK /\ LinuxServerTypeOK
  BY DEF LinkTypeOK
<1>2. PICK d \in to_controller : Arrive(d)
  BY DEF Arrival
<1>3. NetworkTypeOK' /\ LinuxServerTypeOK'
  BY <1>1, <1>2 DEF Arrival, Arrive, serverVars, NetworkTypeOK, LinuxServerTypeOK
<1>4. chip' \subseteq ToController
  BY <1>1, <1>2 DEF Arrive, InternetTypeOK, NetworkTypeOK
<1>5. UNCHANGED <<status, resolved, stampVars, commandVars, loopVars>>
  BY <1>2 DEF Arrive
<1> QED BY <1>1, <1>3, <1>4, <1>5 DEF InternetTypeOK, stampVars, commandVars, loopVars

LEMMA SameInternet ==
  ASSUME InternetTypeOK, UNCHANGED internetVars
  PROVE  InternetTypeOK'
BY DEF InternetTypeOK, internetVars, stampVars, commandVars, loopVars

LEMMA ServeType ==
  ASSUME LinkTypeOK, Serve
  PROVE  NetworkTypeOK' /\ InternetTypeOK' /\ LinuxServerTypeOK'
<1>1. NetworkTypeOK /\ InternetTypeOK /\ LinuxServerTypeOK
  BY DEF LinkTypeOK
<1>2. PICK d \in to_server : ServerReceive(d)
  BY DEF Serve
<1>3. NetworkTypeOK'
  BY <1>1, <1>2, DatagramTypes DEF ServerReceive, NetworkTypeOK
<1>4. InternetTypeOK'
  BY <1>1, SameInternet DEF Serve
<1>5. server_up' \in BOOLEAN /\ heard' \in {"nobody", "controller", "stranger"}
  BY <1>1, <1>2 DEF ServerReceive, LinuxServerTypeOK
<1>6. mirror' = mirror \/ mirror' = Mirrored(d)
  <2>1. CASE d = Ping
    BY <1>2, <2>1 DEF ServerReceive
  <2>2. CASE d /= Ping
    BY <1>2, <2>2 DEF ServerReceive
  <2> QED BY <2>1, <2>2
<1>7. d.kind \in Parts => d.id \in 0..CommandMax
  BY <1>1, LinkConstants DEF NetworkTypeOK, ToServer, Ping, Pong
<1>8. mirror' \in [Parts -> 0..CommandMax \cup {Unknown}]
  BY <1>1, <1>6, <1>7 DEF Mirrored, LinuxServerTypeOK
<1> QED BY <1>3, <1>4, <1>5, <1>8 DEF LinuxServerTypeOK

LEMMA OperatorType ==
  ASSUME LinkTypeOK, Operator
  PROVE  NetworkTypeOK' /\ InternetTypeOK' /\ LinuxServerTypeOK'
<1>1. NetworkTypeOK /\ InternetTypeOK /\ LinuxServerTypeOK
  BY DEF LinkTypeOK
<1>2. InternetTypeOK'
  BY <1>1, SameInternet DEF Operator
<1>3. CASE ServerCommand
  <2>1. PICK k \in CommandKinds \ Strange : ServerSend([id |-> acts + 1, kind |-> k])
    BY <1>3 DEF ServerCommand
  <2>2. acts + 1 \in 1..CommandMax
    BY <1>1, <1>3, LinkConstants DEF ServerCommand, NetworkTypeOK
  <2>3. [id |-> acts + 1, kind |-> k] \in ToController
    BY <2>2, LinkConstants, DatagramTypes
  <2>4. to_controller' \subseteq ToController /\ server_up' \in BOOLEAN
    BY <1>1, <2>1, <2>3 DEF ServerSend, NetworkTypeOK, LinuxServerTypeOK
  <2>5. acts' \in 0..CommandMax
    BY <1>3, <2>2 DEF ServerCommand
  <2> QED BY <1>1, <1>2, <1>3, <2>4, <2>5
          DEF ServerCommand, NetworkTypeOK, LinuxServerTypeOK
<1>4. CASE ServerStart
  BY <1>1, <1>2, <1>4 DEF ServerStart, networkVars, NetworkTypeOK, LinuxServerTypeOK
<1> QED BY <1>3, <1>4 DEF Operator

LEMMA SurroundingsType ==
  ASSUME LinkTypeOK, Surroundings
  PROVE  NetworkTypeOK' /\ InternetTypeOK' /\ LinuxServerTypeOK'
<1>1. NetworkTypeOK /\ InternetTypeOK /\ LinuxServerTypeOK
  BY DEF LinkTypeOK
<1>2. InternetTypeOK'
  BY <1>1, SameInternet DEF Surroundings
<1>3. ASSUME NetworkChange \/ Lose \/ Intrude, UNCHANGED serverVars
      PROVE  NetworkTypeOK' /\ LinuxServerTypeOK'
  <2>1. LinuxServerTypeOK'
    BY <1>1, <1>3 DEF serverVars, LinuxServerTypeOK
  <2>2. CASE NetworkChange
    BY <1>1, <2>1, <2>2 DEF NetworkChange, NetworkTypeOK
  <2>3. CASE Lose
    BY <1>1, <2>1, <2>3 DEF Lose, NetworkTypeOK
  <2>4. CASE Intrude
    <3>1. PICK k \in CommandKinds \cap Strange :
             to_controller' = to_controller \cup {[id |-> acts + 1, kind |-> k]}
      BY <2>4 DEF Intrude
    <3>2. acts + 1 \in 1..CommandMax /\ acts + 1 \in 0..CommandMax
      BY <1>1, <2>4, LinkConstants DEF Intrude, NetworkTypeOK
    <3>3. [id |-> acts + 1, kind |-> k] \in ToController
      BY <3>2, LinkConstants, DatagramTypes
    <3> QED BY <1>1, <2>1, <2>4, <3>1, <3>2, <3>3 DEF Intrude, NetworkTypeOK
  <2> QED BY <1>3, <2>2, <2>3, <2>4
<1>4. CASE ServerStranger
  BY <1>1, <1>2, <1>4 DEF ServerStranger, networkVars, NetworkTypeOK, LinuxServerTypeOK
<1> QED BY <1>2, <1>3, <1>4 DEF Surroundings

LEMMA GrownType ==
  ASSUME NEW limit \in Nat, NEW age \in 0..limit
  PROVE  /\ Grown(age, limit) \in 0..limit
         /\ age <= Grown(age, limit)
         /\ Grown(age, limit) = limit \/ Grown(age, limit) = age + 1
BY DEF Grown

LEMMA LinkTickType ==
  ASSUME LinkTypeOK, LinkTick
  PROVE  NetworkTypeOK' /\ InternetTypeOK' /\ LinuxServerTypeOK'
<1>1. NetworkTypeOK /\ InternetTypeOK /\ LinuxServerTypeOK /\ InternetTick
  BY DEF LinkTypeOK, LinkTick
<1>2. NetworkTypeOK' /\ LinuxServerTypeOK'
  BY <1>1 DEF LinkTick, InternetTick, networkVars, serverVars, NetworkTypeOK,
              LinuxServerTypeOK
<1>3. /\ restart_age' \in 0..RestartWait /\ receive_age' \in 0..ReceiveLastMax
      /\ ping_age' \in 0..PingInterval /\ info_age' \in 0..InfoInterval
  BY <1>1, GrownType, LinkConstants DEF InternetTick, InternetTypeOK
<1>4. wdt_age' \in 0..Watchdog /\ blocked' \in 0..BlockedMax
  BY <1>1, LinkConstants DEF InternetTick, InternetTypeOK, Running, BlockedMax
<1>5. turn_due' \in BOOLEAN
  BY <1>1 DEF InternetTick
<1>6. UNCHANGED <<status, resolved, commandVars, chip, pc, back, refresh, part>>
  BY <1>1 DEF InternetTick
<1> QED BY <1>1, <1>2, <1>3, <1>4, <1>5, <1>6 DEF InternetTypeOK, commandVars, BlockedMax

LEMMA ObserveType ==
  ASSUME LinkTypeOK, Observe
  PROVE  sound' \in 0..SoundMax /\ executed' \subseteq 1..CommandMax
<1>1. sound' \in 0..SoundMax
  BY GrownType, LinkConstants DEF LinkTypeOK, Observe
<1>2. TakeCommand /\ packet.kind = "set" => packet.id \in 1..CommandMax
  BY DEF LinkTypeOK, InternetTypeOK, ToController, Commands, Blank, Ping, Pong
<1> QED BY <1>1, <1>2 DEF LinkTypeOK, Observe

(* Types are correct: the ages stay within their limits, what is under way *)
(* are datagrams of the protocol, and the mirror holds values that were    *)
(* sent.                                                                   *)
THEOREM LinkTypeCorrect == LinkSpec => []LinkTypeOK
<1>1. LinkInit => LinkTypeOK
  <2> SUFFICES ASSUME LinkInit PROVE LinkTypeOK
    OBVIOUS
  <2>1. NetworkTypeOK /\ LinuxServerTypeOK
    BY LinkConstants DEF LinkInit, NetworkInit, LinuxServerInit, NetworkTypeOK,
                         LinuxServerTypeOK
  <2>2. InternetTypeOK
    <3>1. /\ resolved \in BOOLEAN /\ receive_wait \in BOOLEAN /\ is_send_info \in BOOLEAN
          /\ refresh \in BOOLEAN /\ turn_due \in BOOLEAN
      BY DEF LinkInit, InternetInit
    <3>2. /\ restart_age \in 0..RestartWait /\ receive_age \in 0..ReceiveLastMax
          /\ ping_age \in 0..PingInterval /\ info_age \in 0..InfoInterval
          /\ setting \in 0..CommandMax /\ part \in 1..PartCount /\ wdt_age \in 0..Watchdog
          /\ blocked \in 0..(DhcpMax + DnsMax + ArpMax)
      BY LinkConstants DEF LinkInit, InternetInit
    <3>3. /\ status \in Statuses /\ pc \in Places /\ back \in {"internet", "interface", "end"}
          /\ packet \in ToController \cup {Blank, Ping} /\ chip \subseteq ToController
      BY DEF LinkInit, InternetInit, Statuses, Places
    <3> QED BY <3>1, <3>2, <3>3 DEF InternetTypeOK
  <2> QED BY <2>1, <2>2, LinkConstants DEF LinkInit, LinkTypeOK
<1>2. LinkTypeOK /\ [LinkNext]_linkVars => LinkTypeOK'
  <2>1. ASSUME LinkTypeOK, LinkNext PROVE LinkTypeOK'
    <3>1. sound' \in 0..SoundMax /\ executed' \subseteq 1..CommandMax
      BY <2>1, LinkSteps, ObserveType
    <3>2. NetworkTypeOK' /\ InternetTypeOK' /\ LinuxServerTypeOK'
      BY <2>1, LinkSteps, BoardType, RestartType, ArrivalType, ServeType, OperatorType,
         SurroundingsType, LinkTickType
    <3> QED BY <3>1, <3>2 DEF LinkTypeOK
  <2>2. ASSUME LinkTypeOK, UNCHANGED linkVars PROVE LinkTypeOK'
    <3>1. UNCHANGED networkVars /\ UNCHANGED internetVars /\ UNCHANGED serverVars
      BY <2>2 DEF linkVars
    <3>2. InternetTypeOK'
      BY <2>2, <3>1, SameInternet DEF LinkTypeOK
    <3> QED BY <2>2, <3>1, <3>2
            DEF LinkTypeOK, linkVars, networkVars, serverVars, NetworkTypeOK,
                LinuxServerTypeOK
  <2> QED BY <2>1, <2>2
<1> QED BY <1>1, <1>2, PTL DEF LinkSpec
-----------------------------------------------------------------------------
(* Commands are carried out once.  What is under way or waits to be taken  *)
(* has not been carried out, and is at one place only: on its way, in the  *)
(* chip, or in the packet.                                                 *)
Fresh(d) == d.id \in 1..acts /\ d.id \notin executed

CarriedInv ==
  /\ executed \subseteq 1..acts
  /\ \A d \in to_controller \cup chip : d.kind = "set" => Fresh(d)
  /\ \A d \in to_controller \cap chip : d.kind /= "set"
  /\ receive_wait /\ packet.kind = "set" =>
       Fresh(packet) /\ packet \notin to_controller \cup chip

(* A step that carries nothing out and puts no setting anywhere.           *)
Kept ==
  /\ executed' = executed
  /\ acts' = acts \/ acts' = acts + 1
  /\ \A d \in to_controller' : d.kind = "set" => d \in to_controller
  /\ chip' \subseteq chip
  /\ receive_wait' /\ packet'.kind = "set" => receive_wait /\ packet' = packet

LEMMA GrownRange ==
  ASSUME NEW n \in Nat, NEW m, m = n \/ m = n + 1
  PROVE  1..n \subseteq 1..m /\ n + 1 \notin 1..n
OBVIOUS

LEMMA CarriedKept ==
  ASSUME LinkTypeOK, CarriedInv, Kept
  PROVE  CarriedInv'
<1>1. 1..acts \subseteq 1..acts'
  BY GrownRange, LinkConstants DEF LinkTypeOK, NetworkTypeOK, Kept
<1>2. executed' \subseteq 1..acts'
  BY <1>1 DEF CarriedInv, Kept
<1>3. ASSUME NEW d, Fresh(d) PROVE Fresh(d)'
  BY <1>1, <1>3 DEF Fresh, Kept
<1>4. \A d \in to_controller' \cup chip' : d.kind = "set" => Fresh(d)'
  BY <1>3 DEF CarriedInv, Kept
<1>5. \A d \in to_controller' \cap chip' : d.kind /= "set"
  BY DEF CarriedInv, Kept
<1>6. ASSUME receive_wait', packet'.kind = "set"
      PROVE  Fresh(packet)' /\ packet' \notin to_controller' \cup chip'
  <2>1. packet' = packet /\ Fresh(packet) /\ packet \notin to_controller \cup chip
    BY <1>6 DEF CarriedInv, Kept
  <2>2. Fresh(packet)'
    BY <1>1, <2>1 DEF Fresh, Kept
  <2> QED BY <1>6, <2>1, <2>2 DEF Kept
<1> QED BY <1>2, <1>4, <1>5, <1>6 DEF CarriedInv

(* What another step does is not the taking of a command.                  *)
LEMMA OnlyTakeCommand ==
  ASSUME LinkNext, ~(TakeCommand /\ UNCHANGED serverVars)
  PROVE  executed' = executed
<1>1. Observe
  BY LinkSteps
<1> SUFFICES ASSUME TakeCommand PROVE FALSE
  BY <1>1 DEF Observe
<1>2. pc = "interface" /\ pc' = "console" /\ receive_wait
      /\ packet.kind \in {"set", "send_on", "send_off", "unknown", "bad_info", "pong"}
  BY DEF TakeCommand, Received, InInterface
<1>3. CASE BoardStep
  <2>1. UNCHANGED serverVars
    BY <1>3 DEF BoardStep
  <2> QED
    BY <1>2, <1>3, <2>1
       DEF BoardStep, BeginDone, DnsDone, Restarting, Initializing, Troubleshoot, NotServing,
           SendPing, Receive, TakePing, BeginInfo, SendInfo, NothingToTake, EndTurn,
           ConsolePing, ConsoleRestartHard, ConsoleRestartSoft, ConsoleLookup, Asked, InTurn,
           InfoDue, Received
<1>4. CASE Restart
  BY <1>2, <1>4 DEF Restart, TakeReset, WatchdogReset, Boot
<1>5. CASE Arrival \/ LinkTick
  BY <1>2, <1>5 DEF Arrival, Arrive, loopVars, LinkTick, InternetTick
<1>6. CASE Serve \/ Operator \/ Surroundings
  BY <1>2, <1>6 DEF Serve, Operator, Surroundings, internetVars, loopVars
<1> QED BY <1>3, <1>4, <1>5, <1>6, LinkSteps

LEMMA BoardCarried ==
  ASSUME LinkTypeOK, CarriedInv, LinkNext, BoardStep, ~TakeCommand, ~Receive
  PROVE  CarriedInv'
<1>1. executed' = executed
  BY OnlyTakeCommand
<1>2. acts' = acts \/ acts' = acts + 1
  BY DEF BoardStep, BeginDone, DnsDone, Restarting, Initializing, Troubleshoot, NotServing,
         SendPing, TakePing, BeginInfo, SendInfo, NothingToTake, EndTurn, ConsolePing,
         ConsoleRestartHard, ConsoleRestartSoft, ConsoleLookup, Asked, networkVars
<1>3. to_controller' = to_controller
  BY DEF BoardStep, BeginDone, DnsDone, Restarting, Initializing, Troubleshoot, NotServing,
         SendPing, TakePing, BeginInfo, SendInfo, NothingToTake, EndTurn, ConsolePing,
         ConsoleRestartHard, ConsoleRestartSoft, ConsoleLookup, Asked, networkVars
<1>4. chip' = chip \/ chip' = {}
  BY DEF BoardStep, BeginDone, DnsDone, Restarting, Initializing, Troubleshoot, NotServing,
         SendPing, TakePing, BeginInfo, SendInfo, NothingToTake, EndTurn, ConsolePing,
         ConsoleRestartHard, ConsoleRestartSoft, ConsoleLookup, RestartHard, RestartSoft
<1>5. \/ receive_wait' = receive_wait /\ packet' = packet
      \/ packet' \in {Blank, Ping}
  BY DEF BoardStep, BeginDone, DnsDone, Restarting, Initializing, Troubleshoot, NotServing,
         SendPing, TakePing, BeginInfo, SendInfo, NothingToTake, EndTurn, ConsolePing,
         ConsoleRestartHard, ConsoleRestartSoft, ConsoleLookup, commandVars
<1>6. receive_wait' /\ packet'.kind = "set" => receive_wait /\ packet' = packet
  <2>1. CASE receive_wait' = receive_wait /\ packet' = packet
    BY <2>1
  <2>2. CASE packet' \in {Blank, Ping}
    <3>1. packet'.kind /= "set"
      BY <2>2 DEF Blank, Ping
    <3> QED BY <3>1
  <2> QED BY <1>5, <2>1, <2>2
<1> QED BY <1>1, <1>2, <1>3, <1>4, <1>6, CarriedKept DEF Kept


(* A setting is known by its number: there is one datagram of it.          *)
LEMMA SettingIsOne ==
  ASSUME LinkTypeOK, NEW d \in ToController \cup {Blank, Ping}, NEW e \in ToController,
         d.kind = "set", e.kind = "set", d.id = e.id
  PROVE  d = e
BY DEF ToController, Commands, Blank, Ping, Pong

LEMMA TakeCarried ==
  ASSUME LinkTypeOK, CarriedInv, LinkNext, TakeCommand
  PROVE  CarriedInv'
<1>1. /\ receive_wait /\ receive_wait' = (packet.kind = "bad_info")
      /\ packet' = (IF receive_wait' THEN packet ELSE Blank)
      /\ UNCHANGED <<chip, to_controller, acts>>
  BY DEF TakeCommand, Received, networkVars
<1>2. executed' = IF packet.kind = "set" THEN executed \cup {packet.id} ELSE executed
  BY LinkSteps DEF Observe
<1>3. ~(receive_wait' /\ packet'.kind = "set")
  BY <1>1
<1>4. packet \in ToController \cup {Blank, Ping}
      /\ to_controller \cup chip \subseteq ToController
  BY DEF LinkTypeOK, InternetTypeOK, NetworkTypeOK
<1>5. ASSUME NEW d \in to_controller \cup chip, d.kind = "set" PROVE Fresh(d)'
  <2>1. Fresh(d)
    BY <1>5 DEF CarriedInv
  <2>2. packet.kind = "set" => d.id /= packet.id
    BY <1>1, <1>4, <1>5, SettingIsOne DEF CarriedInv
  <2> QED BY <1>1, <1>2, <2>1, <2>2 DEF Fresh
<1>6. executed' \subseteq 1..acts'
  BY <1>1, <1>2 DEF CarriedInv, Fresh
<1> QED BY <1>1, <1>3, <1>5, <1>6 DEF CarriedInv

LEMMA ReceiveCarried ==
  ASSUME LinkTypeOK, CarriedInv, LinkNext, Receive
  PROVE  CarriedInv'
<1>1. ~TakeCommand
  BY DEF Receive, TakeCommand, Received, InInterface, InTurn
<1>2. executed' = executed /\ UNCHANGED <<to_controller, acts>>
  BY <1>1, OnlyTakeCommand DEF Receive, networkVars
<1>3. CASE receive_wait' = receive_wait /\ packet' = packet /\ chip' \subseteq chip
  BY <1>2, <1>3, CarriedKept DEF Kept
<1>4. CASE \E d \in chip : chip' = chip \ {d} /\ packet' = d
  BY <1>2, <1>4 DEF CarriedInv, Fresh
<1> QED BY <1>3, <1>4 DEF Receive

LEMMA ArrivalCarried ==
  ASSUME LinkTypeOK, CarriedInv, LinkNext, Arrival
  PROVE  CarriedInv'
<1>1. PICK d \in to_controller : Arrive(d)
  BY DEF Arrival
<1>2. ~TakeCommand
  BY <1>1 DEF Arrive, loopVars, TakeCommand, Received, InInterface
<1>3. executed' = executed /\ UNCHANGED <<receive_wait, packet, acts>>
  BY <1>1, <1>2, OnlyTakeCommand DEF Arrive, commandVars
<1>4. /\ to_controller' = to_controller \ {d}
      /\ chip' = chip \/ chip' = chip \cup {d}
  BY <1>1 DEF Arrive
<1> QED BY <1>1, <1>3, <1>4 DEF CarriedInv, Fresh

(* Server, strangers and network: nothing of the controller changes, and   *)
(* what is added to its way is a setting only if the operator sends it.    *)
LEMMA OutsideCarried ==
  ASSUME LinkTypeOK, CarriedInv, LinkNext,
         Serve \/ Surroundings \/ LinkTick \/ (Operator /\ ~ServerCommand)
  PROVE  CarriedInv'
<1>1. ~(TakeCommand /\ UNCHANGED serverVars) /\ UNCHANGED <<chip, receive_wait, packet>>
  BY DEF Serve, Surroundings, LinkTick, Operator, InternetTick, TakeCommand, Received,
         InInterface, internetVars, loopVars, commandVars
<1>2. executed' = executed
  BY <1>1, OnlyTakeCommand
<1>3. acts' = acts \/ acts' = acts + 1
  BY DEF Serve, ServerReceive, Surroundings, NetworkChange, Lose, Intrude, ServerStranger,
         LinkTick, InternetTick, Operator, ServerStart, networkVars
<1>4. \A d \in to_controller' : d.kind = "set" => d \in to_controller
  <2>1. CASE Serve
    <3>1. PICK d \in to_server : ServerReceive(d)
      BY <2>1 DEF Serve
    <3>2. to_controller' = to_controller \/ to_controller' = to_controller \cup {Pong}
      BY <3>1 DEF ServerReceive
    <3>3. Pong.kind /= "set"
      BY DEF Pong
    <3> QED BY <3>2, <3>3
  <2>2. CASE Surroundings
    BY <2>2 DEF Surroundings, NetworkChange, Lose, Intrude, ServerStranger, Strange,
                networkVars
  <2>3. CASE LinkTick \/ (Operator /\ ~ServerCommand)
    BY <2>3 DEF LinkTick, InternetTick, Operator, ServerStart, networkVars
  <2> QED BY <2>1, <2>2, <2>3
<1> QED BY <1>1, <1>2, <1>3, <1>4, CarriedKept DEF Kept

LEMMA CommandCarried ==
  ASSUME LinkTypeOK, CarriedInv, LinkNext, Operator, ServerCommand
  PROVE  CarriedInv'
<1>1. ~TakeCommand /\ UNCHANGED <<chip, receive_wait, packet>>
  BY DEF Operator, TakeCommand, Received, InInterface, internetVars, loopVars, commandVars
<1>2. executed' = executed /\ acts' = acts + 1
  BY <1>1, OnlyTakeCommand DEF ServerCommand
<1>3. PICK d : d.id = acts + 1
               /\ (to_controller' = to_controller \/ to_controller' = to_controller \cup {d})
  <2>1. PICK k \in CommandKinds \ Strange : ServerSend([id |-> acts + 1, kind |-> k])
    BY DEF ServerCommand
  <2>2. \/ to_controller' = to_controller
        \/ to_controller' = to_controller \cup {[id |-> acts + 1, kind |-> k]}
    BY <2>1 DEF ServerSend
  <2>3. [id |-> acts + 1, kind |-> k].id = acts + 1
    OBVIOUS
  <2> QED BY <2>2, <2>3
<1>4. /\ 1..acts \subseteq 1..acts' /\ acts + 1 \notin 1..acts /\ acts + 1 \in 1..acts'
  BY <1>2, GrownRange DEF LinkTypeOK, NetworkTypeOK
<1>5. d.id \notin executed
  BY <1>3, <1>4 DEF CarriedInv
<1>6. ASSUME NEW e, Fresh(e) PROVE Fresh(e)' /\ e /= d
  BY <1>2, <1>3, <1>4, <1>6 DEF Fresh
<1>7. Fresh(d)'
  BY <1>2, <1>3, <1>4, <1>5 DEF Fresh
<1>8. executed' \subseteq 1..acts'
  BY <1>2, <1>4 DEF CarriedInv
<1>9. \A e \in to_controller' \cup chip' : e.kind = "set" => Fresh(e)'
  BY <1>1, <1>3, <1>6, <1>7 DEF CarriedInv
<1>10. \A e \in to_controller' \cap chip' : e.kind /= "set"
  BY <1>1, <1>3, <1>6 DEF CarriedInv
<1>11. receive_wait' /\ packet'.kind = "set" =>
         Fresh(packet)' /\ packet' \notin to_controller' \cup chip'
  BY <1>1, <1>3, <1>6 DEF CarriedInv
<1> QED BY <1>8, <1>9, <1>10, <1>11 DEF CarriedInv

LEMMA RestartCarried ==
  ASSUME LinkTypeOK, CarriedInv, LinkNext, Restart
  PROVE  CarriedInv'
<1>1. Boot
  BY DEF Restart, TakeReset, WatchdogReset
<1>2. ~TakeCommand
  BY <1>1 DEF Boot, TakeCommand
<1>3. executed' = executed
  BY <1>2, OnlyTakeCommand
<1> QED BY <1>1, <1>3, CarriedKept DEF Kept, Boot, networkVars

(* What is carried out, and what is not, at every moment.                  *)
LEMMA CarriedAlways == LinkSpec => []CarriedInv
<1>1. LinkInit => CarriedInv
  BY DEF LinkInit, NetworkInit, InternetInit, CarriedInv
<1>2. LinkTypeOK /\ CarriedInv /\ [LinkNext]_linkVars => CarriedInv'
  <2>1. ASSUME LinkTypeOK, CarriedInv, LinkNext PROVE CarriedInv'
    BY <2>1, LinkSteps, BoardCarried, TakeCarried, ReceiveCarried, ArrivalCarried,
       OutsideCarried, CommandCarried, RestartCarried
  <2>2. ASSUME CarriedInv, UNCHANGED linkVars PROVE CarriedInv'
    BY <2>2 DEF CarriedInv, Fresh, linkVars, networkVars, internetVars, commandVars
  <2> QED BY <2>1, <2>2
<1> QED BY <1>1, <1>2, LinkTypeCorrect, PTL DEF LinkSpec

(* No command is carried out twice: what is on its way, in the chip or in  *)
(* the packet that is shared with what the controller sends, has not been  *)
(* carried out, whatever restarts cut the turns of the loop short.         *)
THEOREM CarriedOutOnceHolds == LinkSpec => CarriedOutOnce
<1>1. CarriedInv /\ [LinkNext]_linkVars
        => [TakeCommand /\ packet.kind = "set" => packet.id \notin executed]_linkVars
  BY DEF CarriedInv, Fresh, TakeCommand, Received
<1> QED BY <1>1, CarriedAlways, PTL DEF LinkSpec, CarriedOutOnce
-----------------------------------------------------------------------------
(* No needless restart.  While the link is sound, something of the server  *)
(* is never long away: the last sign of life is not older than the last    *)
(* ping, or the link is younger than that ping, or a ping is due, or a     *)
(* ping or its answer is under way.  Only a command that waits to be taken *)
(* at the start of a turn can keep the answer out.                         *)
Pending == Ping \in to_server \/ Pong \in to_controller \cup chip

SoundInv ==
  /\ sound > 0 => net_up /\ server_up /\ resolved /\ Running
  /\ sound > 0 /\ pc = "begin" => receive_age = 0
  /\ sound > 0 /\ pc = "pinged" => Ping \in to_server
  /\ sound > 0 /\ status = "READY" =>
       \/ receive_age <= ping_age \/ sound <= ping_age
       \/ ping_age = PingInterval \/ Pending
  /\ sound > PingInterval /\ status = "READY" /\ Overdue
       => receive_wait /\ pc = "internet"

(* A step other than a tick, taken while the link is sound.                *)
Calm ==
  /\ blocked' = 0
  /\ pc' = "begin" => receive_age' = 0
  /\ pc' = "pinged" => Ping \in to_server'
  /\ receive_age' \in {0, receive_age}
  /\ status' = "READY" /\ receive_age' /= 0 =>
       /\ status = "READY"
       /\ Pending' \/ (ping_age' = ping_age /\ (Pending => Pending'))
       /\ Overdue /\ receive_wait /\ pc = "internet" => receive_wait' /\ pc' = "internet"

LEMMA SoundKept ==
  ASSUME LinkTypeOK, SoundInv, LinkTypeOK', Observe, sound' \in {0, sound},
         sound > 0 /\ sound' > 0 => Calm
  PROVE  SoundInv'
<1>1. /\ sound \in Nat /\ sound' \in Nat /\ receive_age \in Nat /\ receive_age' \in Nat
      /\ ping_age \in Nat /\ ping_age' \in Nat
      /\ ReceiveLastMax \in Nat \ {0} /\ PingInterval \in Nat
  BY LinkConstants DEF LinkTypeOK, InternetTypeOK
<1>2. SUFFICES ASSUME sound' > 0 PROVE SoundInv'
  BY <1>1 DEF SoundInv
<1>3. sound' = sound /\ sound > 0 /\ Calm
  BY <1>1, <1>2
<1>4. net_up' /\ server_up' /\ resolved' /\ Running'
  BY <1>1, <1>2, <1>3 DEF Observe, Calm, Running
<1>5. status' = "READY" =>
       \/ receive_age' <= ping_age' \/ sound' <= ping_age'
       \/ ping_age' = PingInterval \/ Pending'
  <2>1. CASE receive_age' = 0
    BY <1>1, <2>1
  <2>2. CASE receive_age' /= 0
    BY <1>1, <1>3, <2>2 DEF Calm, SoundInv
  <2> QED BY <2>1, <2>2
<1>6. sound' > PingInterval /\ status' = "READY" /\ Overdue'
       => receive_wait' /\ pc' = "internet"
  BY <1>1, <1>3 DEF Calm, SoundInv, Overdue
<1> QED BY <1>3, <1>4, <1>5, <1>6 DEF SoundInv, Calm

LEMMA OnlyTickGrows ==
  ASSUME LinkTypeOK, LinkNext, ~LinkTick
  PROVE  sound' \in {0, sound}
<1>1. Observe
  BY LinkSteps
<1> SUFFICES ASSUME InternetTick, Running PROVE sound' = 0
  BY <1>1 DEF Observe
<1>2. pc = "internet" /\ pc' = "internet" /\ turn_due = FALSE /\ turn_due' = TRUE
  BY DEF InternetTick, TurnWanted, LinkTypeOK, InternetTypeOK
<1>3. CASE BoardStep
  BY <1>2, <1>3
     DEF BoardStep, BeginDone, DnsDone, Restarting, Initializing, RestartSoft, Troubleshoot,
         NotServing, SendPing, Receive, TakeCommand, TakePing, BeginInfo, SendInfo,
         NothingToTake, EndTurn, ConsolePing, ConsoleRestartHard, ConsoleRestartSoft,
         ConsoleLookup
<1>4. CASE Restart
  BY <1>1, <1>4 DEF Restart, TakeReset, WatchdogReset, Boot, Observe
<1>5. CASE Arrival
  BY <1>2, <1>5 DEF Arrival, Arrive, loopVars
<1>6. CASE Serve \/ Operator \/ Surroundings
  BY <1>2, <1>6 DEF Serve, Operator, Surroundings, internetVars, loopVars
<1> QED BY <1>3, <1>4, <1>5, <1>6, LinkSteps

(* What a sound link gives the actions of the loop.                        *)
LEMMA Sound ==
  ASSUME LinkTypeOK, SoundInv, sound > 0
  PROVE  net_up /\ server_up /\ resolved /\ blocked = 0
BY DEF SoundInv, Running

LEMMA SoundSend ==
  ASSUME LinkTypeOK, SoundInv, sound > 0, NEW d, InternetSend(d)
  PROVE  /\ to_server \subseteq to_server' /\ blocked' = 0
         /\ status = "READY" => d \in to_server'
BY Sound DEF InternetSend

LEMMA RestartSoftCalm ==
  ASSUME LinkTypeOK, SoundInv, sound > 0, NEW whereTo, RestartSoft(whereTo)
  PROVE  Calm
BY Sound DEF RestartSoft, Block, Calm

LEMMA BoardCalm ==
  ASSUME LinkTypeOK, SoundInv, sound > 0, BoardStep
  PROVE  Calm
<1>0. net_up /\ resolved /\ blocked = 0
  BY Sound
<1>1. CASE BeginDone
  BY <1>0, <1>1 DEF BeginDone, Block, SoundInv, stampVars, Calm, LinkTypeOK, InternetTypeOK
<1>2. CASE DnsDone
  BY <1>0, <1>2 DEF DnsDone, networkVars, Calm, Pending, LinkTypeOK, InternetTypeOK
<1>3. CASE Restarting \/ NotServing
  BY <1>0, <1>3 DEF Restarting, NotServing, InTurn, Serving, Overdue, stampVars, networkVars,
                    Calm, Pending
<1>4. CASE Initializing
  BY <1>0, <1>4, RestartSoftCalm DEF Initializing, Calm
<1>5. CASE Troubleshoot
  BY <1>0, <1>5 DEF Troubleshoot, RestartHard, Calm
<1>6. CASE SendPing
  <2>1. Ping \in to_server' /\ blocked' = 0
    BY <1>0, <1>6, SoundSend DEF SendPing, Open
  <2> QED BY <1>6, <2>1 DEF SendPing, stampVars, Calm, Pending, Overdue, InTurn, Open
<1>7. CASE Receive
  <2>1. /\ blocked' = 0 /\ pc' = "interface" /\ status' = status /\ UNCHANGED networkVars
        /\ receive_age' \in {0, receive_age}
    BY <1>0, <1>7 DEF Receive
  <2>2. pc = "internet" => ~Overdue /\ ping_age' = ping_age
    BY <1>7 DEF Receive
  <2>3. pc = "internet" \/ Ping \in to_server
    BY <1>7 DEF Receive, InTurn, SoundInv
  <2>4. receive_age' /= 0 /\ Pending => Pending'
    <3>1. CASE chip' = chip
      BY <2>1, <3>1 DEF Pending, networkVars
    <3>2. ASSUME NEW d \in chip, chip' = chip \ {d},
                 receive_age' = IF d.kind = "stray" \/ ~resolved THEN receive_age ELSE 0
          PROVE  receive_age' /= 0 /\ Pending => Pending'
      <4>1. d = Pong => receive_age' = 0
        BY <1>0, <3>2 DEF Pong
      <4> QED BY <2>1, <3>2, <4>1 DEF Pending, networkVars
    <3> QED BY <1>7, <3>1, <3>2 DEF Receive
  <2>5. Ping \in to_server => Pending'
    BY <2>1 DEF Pending, networkVars
  <2>6. receive_age' /= 0 => Pending' \/ (ping_age' = ping_age /\ (Pending => Pending'))
    BY <2>2, <2>3, <2>4, <2>5
  <2> QED BY <2>1, <2>2, <2>6 DEF Calm
<1>8. CASE TakeCommand \/ BeginInfo \/ NothingToTake \/ EndTurn
  BY <1>0, <1>8 DEF TakeCommand, BeginInfo, NothingToTake, EndTurn, InInterface, Received,
                    stampVars, networkVars, Calm, Pending
<1>9. CASE TakePing \/ SendInfo \/ ConsolePing
  <2>1. to_server \subseteq to_server' /\ blocked' = 0
    BY <1>9, SoundSend DEF TakePing, SendInfo, ConsolePing
  <2> QED BY <1>9, <2>1 DEF TakePing, SendInfo, ConsolePing, Asked, InInterface, Received,
                            stampVars, Calm, Pending
<1>10. CASE ConsoleRestartHard \/ ConsoleRestartSoft
  BY <1>0, <1>10, RestartSoftCalm
     DEF ConsoleRestartHard, ConsoleRestartSoft, RestartHard, Calm
<1>11. CASE ConsoleLookup
  BY <1>0, <1>11 DEF ConsoleLookup, Asked, Block, stampVars, Calm, Pending
<1> QED BY <1>1, <1>2, <1>3, <1>4, <1>5, <1>6, <1>7, <1>8, <1>9, <1>10, <1>11
        DEF BoardStep

(* While the link is sound the others act between turns only.              *)
LEMMA OutsideCalm ==
  ASSUME LinkTypeOK, SoundInv, sound > 0, sound' > 0, Observe,
         Arrival \/ Serve \/ Operator \/ Surroundings
  PROVE  Calm
<1>1. net_up /\ server_up /\ blocked = 0 /\ net_up' /\ server_up'
  BY Sound, LinkConstants DEF Observe, LinkTypeOK
<1>2. pc = "internet"
  BY <1>1 DEF Arrival, Arrive, Serve, Operator, Surroundings, Idle, Running
<1>3. UNCHANGED <<status, receive_age, ping_age, receive_wait, pc, blocked>>
  BY DEF Arrival, Arrive, Serve, Operator, Surroundings, internetVars, stampVars,
         commandVars, loopVars
<1>4. status = "READY" /\ Pending => Pending'
  <2>1. CASE Arrival
    <3>1. PICK d \in to_controller : Arrive(d)
      BY <2>1 DEF Arrival
    <3> QED BY <3>1 DEF Arrive, Pending
  <2>2. CASE Serve
    <3>1. PICK d \in to_server : ServerReceive(d)
      BY <2>2 DEF Serve
    <3>2. chip' = chip
      BY <2>2 DEF Serve, internetVars
    <3>3. CASE d = Ping
      <4>1. Pong \in to_controller'
        BY <1>1, <3>1, <3>3 DEF ServerReceive, Takes
      <4> QED BY <4>1 DEF Pending
    <3>4. CASE d /= Ping
      BY <3>1, <3>2, <3>4 DEF ServerReceive, Pending
    <3> QED BY <3>3, <3>4
  <2>3. CASE Operator
    <3>1. chip' = chip /\ to_server' = to_server /\ to_controller \subseteq to_controller'
      BY <1>1, <2>3 DEF Operator, internetVars, ServerCommand, ServerSend, ServerStart
    <3> QED BY <3>1 DEF Pending
  <2>4. CASE Surroundings
    <3>1. chip' = chip /\ to_server' = to_server /\ to_controller \subseteq to_controller'
      BY <1>1, <2>4 DEF Surroundings, internetVars, NetworkChange, Lose, Intrude,
                        ServerStranger, networkVars
    <3> QED BY <3>1 DEF Pending
  <2> QED BY <2>1, <2>2, <2>3, <2>4
<1> QED BY <1>1, <1>2, <1>3, <1>4 DEF Calm

(* A tick: between two turns with nothing to do, or while a call blocks    *)
(* the loop, when the link is not sound.                                   *)
LEMMA TickSound ==
  ASSUME LinkTypeOK, LinkTypeOK', SoundInv, LinkTick, Observe,
         PingInterval < ReceiveLastMax
  PROVE  SoundInv'
<1>1. /\ sound \in Nat /\ sound' \in Nat /\ receive_age \in 0..ReceiveLastMax
      /\ ping_age \in 0..PingInterval /\ receive_age' \in Nat /\ ping_age' \in Nat
      /\ ReceiveLastMax \in Nat \ {0} /\ PingInterval \in Nat \ {0}
      /\ restart_age \in Nat /\ info_age \in Nat
  BY LinkConstants DEF LinkTypeOK, InternetTypeOK
<1>2. SUFFICES ASSUME sound' > 0 PROVE SoundInv'
  BY <1>1 DEF SoundInv
<1>3. net_up' /\ server_up' /\ resolved'
  BY <1>1, <1>2 DEF Observe
<1>4. InternetTick /\ UNCHANGED <<networkVars, serverVars, chip, pc, status, receive_wait>>
  BY DEF LinkTick, InternetTick, commandVars
<1>5. Running
  <2>1. CASE sound > 0
    BY <2>1 DEF SoundInv
  <2>2. CASE ~(sound > 0)
    BY <1>1, <1>2, <2>2 DEF Observe
  <2> QED BY <2>1, <2>2
<1>6. pc = "internet" /\ ~TurnWanted /\ blocked' = 0 /\ Quiet
  BY <1>4, <1>5 DEF InternetTick
<1>7. sound' = Grown(sound, SoundMax) /\ sound' <= sound + 1
  BY <1>1, <1>3, <1>4, <1>5, LinkConstants DEF Observe, Grown
<1>8. /\ receive_age' <= receive_age + 1
      /\ ping_age' = PingInterval \/ ping_age' = ping_age + 1
      /\ ping_age = PingInterval => ping_age' = PingInterval
  BY <1>1, <1>4, GrownType DEF InternetTick, Grown
<1>9. Pending' = Pending
  BY <1>4 DEF Pending, networkVars
<1>10. status' = "READY" =>
         \/ receive_age' <= ping_age' \/ sound' <= ping_age'
         \/ ping_age' = PingInterval \/ Pending'
  BY <1>1, <1>4, <1>7, <1>8, <1>9 DEF SoundInv
<1>11. ASSUME sound' > PingInterval, status' = "READY", Overdue'
       PROVE  receive_wait'
  <2>1. SUFFICES ASSUME ~receive_wait PROVE FALSE
    BY <1>4
  <2>2. Open /\ ~PingDue /\ chip = {}
    BY <1>4, <1>6, <1>11, <2>1 DEF Open, TurnWanted
  <2>3. ping_age < PingInterval
    BY <1>1, <2>2 DEF PingDue
  <2>4. ~Pending
    <3>1. net_up
      BY <1>3, <1>4 DEF networkVars
    <3> QED BY <1>6, <2>2, <3>1 DEF Quiet, Pending
  <2>5. sound > 0
    BY <1>1, <1>7, <1>11
  <2>6. receive_age <= ping_age \/ sound <= ping_age
    BY <1>1, <1>4, <1>11, <2>3, <2>4, <2>5 DEF SoundInv
  <2>7. receive_age' >= ReceiveLastMax
    BY <1>11 DEF Overdue
  <2> QED BY <1>1, <1>7, <1>8, <1>11, <2>3, <2>6, <2>7
<1> QED BY <1>2, <1>3, <1>4, <1>6, <1>10, <1>11 DEF SoundInv, Running

(* A controller that knows its server does not restart the chip while the  *)
(* link is sound: a ping is answered before the last sign of life is too   *)
(* old, whatever commands and telemetry are under way.  Pings are sent     *)
(* more often than answers are missed: INTERNET_TIME_PING_SEND_INTERVAL is *)
(* 5 s and INTERNET_TIME_RECEIVE_LAST_MAX 17 s.                            *)
THEOREM NoNeedlessRestartHolds ==
  ASSUME PingInterval < ReceiveLastMax
  PROVE  LinkSpec => NoNeedlessRestart
<1>1. LinkInit => SoundInv
  BY LinkConstants DEF LinkInit, InternetInit, SoundInv
<1>2. LinkTypeOK /\ SoundInv /\ [LinkNext]_linkVars /\ LinkTypeOK' => SoundInv'
  <2>1. ASSUME LinkTypeOK, SoundInv, LinkNext, LinkTypeOK' PROVE SoundInv'
    <3>1. Observe
      BY <2>1, LinkSteps
    <3>2. CASE LinkTick
      BY <2>1, <3>1, <3>2, TickSound
    <3>3. CASE ~LinkTick
      <4>1. sound' \in {0, sound}
        BY <2>1, <3>3, OnlyTickGrows
      <4>2. ASSUME sound > 0, sound' > 0 PROVE Calm
        <5>1. ~Restart
          <6>1. SUFFICES ASSUME Restart PROVE FALSE
            OBVIOUS
          <6>2. resolved' = FALSE
            BY <6>1 DEF Restart, TakeReset, WatchdogReset, Boot
          <6> QED BY <3>1, <4>2, <6>2 DEF Observe
        <5> QED BY <2>1, <3>1, <3>3, <4>2, <5>1, LinkSteps, BoardCalm, OutsideCalm
      <4> QED BY <2>1, <3>1, <4>1, <4>2, SoundKept
    <3> QED BY <3>2, <3>3
  <2>2. ASSUME SoundInv, UNCHANGED linkVars PROVE SoundInv'
    BY <2>2 DEF SoundInv, Running, Pending, Overdue, linkVars, networkVars, internetVars,
                serverVars, stampVars, commandVars, loopVars
  <2> QED BY <2>1, <2>2
<1>3. SoundInv /\ LinkTypeOK /\ [LinkNext]_linkVars
        => [Troubleshoot /\ status = "READY" /\ ~receive_wait
              => sound <= PingInterval]_linkVars
  <2>1. ASSUME SoundInv, LinkTypeOK, Troubleshoot, status = "READY", ~receive_wait
        PROVE  sound <= PingInterval
    <3>1. Overdue
      BY <2>1 DEF Troubleshoot
    <3>2. ~(sound > PingInterval)
      BY <2>1, <3>1 DEF SoundInv
    <3>3. sound \in Nat /\ PingInterval \in Nat
      BY <2>1, LinkConstants DEF LinkTypeOK
    <3> QED BY <3>2, <3>3
  <2> QED BY <2>1
<1> QED BY <1>1, <1>2, <1>3, LinkTypeCorrect, PTL DEF LinkSpec, NoNeedlessRestart
-----------------------------------------------------------------------------
(* The promise to the operator.  What is in force, on its way to the       *)
(* server or shown there was carried out once (or is the initial state).   *)
WasInForce(n) == n \in executed \cup {0}

ShownInv ==
  /\ WasInForce(setting)
  /\ \A d \in to_server : d.kind \in Parts => WasInForce(d.id)
  /\ \A p \in Parts : mirror[p] = Unknown \/ WasInForce(mirror[p])

(* A step of which the operator sees nothing but that a command was given. *)
Unseen ==
  /\ UNCHANGED <<executed, mirror>>
  /\ setting' = setting
  /\ acts' = acts \/ acts' = acts + 1
  /\ \A d \in to_server' : d \in to_server \/ d.kind \notin Parts \/ WasInForce(d.id)

LEMMA UnseenStep ==
  ASSUME ShownInv, Unseen
  PROVE  ShownInv' /\ [Channel!ChannelNext]_(Channel!channelVars)
<1>1. ShownInv'
  BY DEF ShownInv, Unseen, WasInForce
<1>2. [Channel!ChannelNext]_(Channel!channelVars)
  BY DEF Unseen, Channel!ChannelNext, Channel!Give, Channel!channelVars
<1> QED BY <1>1, <1>2

(* What is sent is a ping, its answer, or the setting in force.            *)
LEMMA SendSeen ==
  ASSUME NEW d, InternetSend(d) \/ UNCHANGED to_server,
         d.kind \notin Parts \/ WasInForce(d.id)
  PROVE  \A e \in to_server' : e \in to_server \/ e.kind \notin Parts \/ WasInForce(e.id)
BY DEF InternetSend

LEMMA NotTelemetry == Ping.kind \notin Parts /\ Pong.kind \notin Parts
BY LinkConstants DEF Ping, Pong, Parts, PartOrder

LEMMA BoardUnseen ==
  ASSUME LinkTypeOK, ShownInv, LinkNext, BoardStep, ~TakeCommand
  PROVE  Unseen
<1>1. executed' = executed /\ mirror' = mirror
  BY OnlyTakeCommand DEF BoardStep, serverVars
<1>2. setting' = setting /\ (acts' = acts \/ acts' = acts + 1)
  BY DEF BoardStep, BeginDone, DnsDone, Restarting, Initializing, Troubleshoot, NotServing,
         SendPing, Receive, TakePing, BeginInfo, SendInfo, NothingToTake, EndTurn, ConsolePing,
         ConsoleRestartHard, ConsoleRestartSoft, ConsoleLookup, Asked, networkVars,
         commandVars
<1>3. \E d : /\ InternetSend(d) \/ UNCHANGED to_server
             /\ d.kind \notin Parts \/ WasInForce(d.id)
  <2>1. CASE SendInfo
    <3>1. InternetSend(Info(PartOrder[part], setting))
      BY <2>1 DEF SendInfo
    <3>2. WasInForce(Info(PartOrder[part], setting).id)
      BY DEF ShownInv, Info
    <3> QED BY <3>1, <3>2
  <2>2. CASE SendPing \/ TakePing \/ ConsolePing
    BY <2>2, NotTelemetry DEF SendPing, TakePing, ConsolePing
  <2>3. CASE ~(SendInfo \/ SendPing \/ TakePing \/ ConsolePing)
    <3>1. UNCHANGED to_server
      BY <2>3 DEF BoardStep, BeginDone, DnsDone, Restarting, Initializing, Troubleshoot,
                  NotServing, Receive, BeginInfo, NothingToTake, EndTurn,
                  ConsoleRestartHard, ConsoleRestartSoft, ConsoleLookup, networkVars
    <3> QED BY <3>1, NotTelemetry
  <2> QED BY <2>1, <2>2, <2>3
<1>4. \A e \in to_server' : e \in to_server \/ e.kind \notin Parts \/ WasInForce(e.id)
  BY <1>3, SendSeen
<1> QED BY <1>1, <1>2, <1>4 DEF Unseen

LEMMA TakeChannel ==
  ASSUME LinkTypeOK, CarriedInv, ShownInv, LinkNext, TakeCommand
  PROVE  ShownInv' /\ [Channel!ChannelNext]_(Channel!channelVars)
<1>1. UNCHANGED serverVars
  <2>1. pc = "interface" /\ pc' = "console" /\ receive_wait /\ Running
        /\ packet.kind \in {"set", "send_on", "send_off", "unknown", "bad_info", "pong"}
    BY DEF TakeCommand, Received, InInterface
  <2>2. ~LinkTick /\ ~Arrival /\ ~(Serve \/ Operator \/ Surroundings)
    BY <2>1 DEF LinkTick, InternetTick, Running, Serve, Operator, Surroundings, Idle,
                Arrival, Arrive
  <2> QED BY <2>2, LinkSteps DEF BoardStep, Restart
<1>2. mirror' = mirror /\ to_server' = to_server /\ acts' = acts
  BY <1>1 DEF serverVars, TakeCommand, networkVars
<1>3. executed' = IF packet.kind = "set" THEN executed \cup {packet.id} ELSE executed
  BY LinkSteps DEF Observe
<1>4. setting' = IF packet.kind = "set" THEN packet.id ELSE setting
  BY DEF TakeCommand
<1>5. CASE packet.kind = "set"
  <2>1. packet.id \in 1..acts /\ packet.id \notin executed
    BY <1>5 DEF CarriedInv, Fresh, TakeCommand, Received
  <2>2. Channel!CarryOut(packet.id)
    BY <1>2, <1>3, <1>4, <1>5, <2>1 DEF Channel!CarryOut
  <2>3. Channel!ChannelNext
    BY <2>1, <2>2 DEF Channel!ChannelNext
  <2>4. ShownInv'
    BY <1>2, <1>3, <1>4, <1>5 DEF ShownInv, WasInForce
  <2> QED BY <2>3, <2>4
<1>6. CASE packet.kind /= "set"
  BY <1>2, <1>3, <1>4, <1>6, UnseenStep DEF Unseen
<1> QED BY <1>5, <1>6

LEMMA RestartChannel ==
  ASSUME LinkTypeOK, ShownInv, LinkNext, Restart
  PROVE  ShownInv' /\ [Channel!ChannelNext]_(Channel!channelVars)
<1>1. Boot /\ UNCHANGED serverVars
  BY DEF Restart, TakeReset, WatchdogReset
<1>2. ~TakeCommand
  BY <1>1 DEF Boot, TakeCommand
<1>3. executed' = executed /\ mirror' = mirror /\ to_server' = to_server /\ acts' = acts
      /\ setting' = 0
  BY <1>1, <1>2, OnlyTakeCommand DEF serverVars, Boot, networkVars
<1>4. Channel!RestartController
  BY <1>3 DEF Channel!RestartController
<1>5. ShownInv'
  BY <1>3 DEF ShownInv, WasInForce
<1> QED BY <1>4, <1>5 DEF Channel!ChannelNext

LEMMA QuietUnseen ==
  ASSUME LinkTypeOK, ShownInv, LinkNext,
         Arrival \/ LinkTick \/ Surroundings \/ (Operator /\ ServerCommand)
  PROVE  Unseen
<1>1. ~TakeCommand
  BY DEF Arrival, Arrive, LinkTick, InternetTick, Surroundings, Operator, loopVars,
         TakeCommand, Received, InInterface, internetVars, commandVars
<1>2. executed' = executed
  BY <1>1, OnlyTakeCommand
<1>3. mirror' = mirror /\ setting' = setting /\ (acts' = acts \/ acts' = acts + 1)
      /\ to_server' \subseteq to_server
  <2>1. CASE Arrival \/ LinkTick
    BY <2>1 DEF Arrival, Arrive, LinkTick, InternetTick, serverVars, commandVars, networkVars
  <2>2. CASE Surroundings
    BY <2>2 DEF Surroundings, NetworkChange, Lose, Intrude, ServerStranger, serverVars,
                internetVars, commandVars, networkVars
  <2>3. CASE Operator /\ ServerCommand
    BY <2>3 DEF Operator, ServerCommand, internetVars, commandVars
  <2> QED BY <2>1, <2>2, <2>3
<1> QED BY <1>2, <1>3 DEF Unseen

LEMMA StartChannel ==
  ASSUME LinkTypeOK, ShownInv, LinkNext, Operator /\ ServerStart
  PROVE  ShownInv' /\ [Channel!ChannelNext]_(Channel!channelVars)
<1>1. ~TakeCommand
  BY DEF Operator, internetVars, loopVars, TakeCommand, Received, InInterface
<1>2. executed' = executed /\ setting' = setting /\ UNCHANGED networkVars
      /\ mirror' = [p \in Parts |-> Unknown]
  BY <1>1, OnlyTakeCommand DEF Operator, ServerStart, internetVars, commandVars
<1>3. Channel!RestartDisplay
  BY <1>2 DEF Channel!RestartDisplay, networkVars
<1>4. ShownInv'
  BY <1>2 DEF ShownInv, WasInForce, networkVars
<1> QED BY <1>3, <1>4 DEF Channel!ChannelNext

LEMMA ServeChannel ==
  ASSUME LinkTypeOK, ShownInv, LinkNext, Serve
  PROVE  ShownInv' /\ [Channel!ChannelNext]_(Channel!channelVars)
<1>1. PICK d \in to_server : ServerReceive(d)
  BY DEF Serve
<1>2. ~TakeCommand
  BY DEF Serve, internetVars, loopVars, TakeCommand, Received, InInterface
<1>3. executed' = executed /\ setting' = setting /\ acts' = acts
      /\ to_server' \subseteq to_server
  BY <1>1, <1>2, OnlyTakeCommand DEF Serve, ServerReceive, internetVars, commandVars
<1>4. CASE mirror' = mirror
  BY <1>3, <1>4, UnseenStep DEF Unseen
<1>5. CASE d.kind \in Parts /\ mirror' = [mirror EXCEPT ![d.kind] = d.id]
  <2>1. WasInForce(d.id)
    BY <1>5 DEF ShownInv
  <2>2. Channel!Show(d.kind)
    BY <1>3, <1>5, <2>1 DEF Channel!Show, WasInForce
  <2>3. Channel!ChannelNext
    BY <1>5, <2>2 DEF Channel!ChannelNext
  <2>4. mirror \in [Parts -> 0..CommandMax \cup {Unknown}]
    BY DEF LinkTypeOK, LinuxServerTypeOK
  <2>5. ShownInv'
    BY <1>3, <1>5, <2>1, <2>4 DEF ShownInv, WasInForce
  <2> QED BY <2>3, <2>5
<1>6. mirror' = mirror \/ mirror' = Mirrored(d)
  BY <1>1 DEF ServerReceive
<1> QED BY <1>4, <1>5, <1>6 DEF Mirrored

LEMMA ChannelStep ==
  LinkTypeOK /\ CarriedInv /\ ShownInv /\ [LinkNext]_linkVars
    => ShownInv' /\ [Channel!ChannelNext]_(Channel!channelVars)
<1>1. ASSUME LinkTypeOK, CarriedInv, ShownInv, LinkNext
      PROVE  ShownInv' /\ [Channel!ChannelNext]_(Channel!channelVars)
  <2>1. CASE BoardStep /\ ~TakeCommand
    BY <1>1, <2>1, BoardUnseen, UnseenStep
  <2>2. CASE TakeCommand
    BY <1>1, <2>2, TakeChannel
  <2>3. CASE Restart
    BY <1>1, <2>3, RestartChannel
  <2>4. CASE Serve
    BY <1>1, <2>4, ServeChannel
  <2>5. CASE Operator /\ ServerStart
    BY <1>1, <2>5, StartChannel
  <2>6. CASE Arrival \/ LinkTick \/ Surroundings \/ (Operator /\ ServerCommand)
    BY <1>1, <2>6, QuietUnseen, UnseenStep
  <2> QED BY <1>1, <2>1, <2>2, <2>3, <2>4, <2>5, <2>6, LinkSteps DEF Operator
<1>2. ASSUME ShownInv, UNCHANGED linkVars
      PROVE  ShownInv' /\ [Channel!ChannelNext]_(Channel!channelVars)
  BY <1>2 DEF ShownInv, WasInForce, linkVars, networkVars, internetVars, commandVars,
              serverVars, Channel!channelVars
<1> QED BY <1>1, <1>2

(* The link is a channel: commands are carried out once or not at all,     *)
(* what is in force changes only by one of them or by a restart, and the   *)
(* operator is shown nothing that was never in force.                      *)
THEOREM KeepsChannelHolds == LinkSpec => KeepsChannel
<1>1. LinkInit => ShownInv /\ Channel!ChannelInit
  BY DEF LinkInit, NetworkInit, InternetInit, LinuxServerInit, ShownInv, WasInForce,
         Channel!ChannelInit
<1> QED BY <1>1, ChannelStep, CarriedAlways, LinkTypeCorrect, PTL
        DEF LinkSpec, KeepsChannel, Channel!ChannelSpec
-----------------------------------------------------------------------------
(* The length of a turn.  What the loop has spent when it comes to a       *)
(* place, and what its present call may still take, is within what the     *)
(* calls before that place can take.  A turn that follows a start of the   *)
(* board counts that start; the chip is restarted only in a later turn.    *)
Spent == wdt_age + blocked
Sends(n) == n * ArpMax
BeforeConsole == Lookup + Sends(PartCount + 1)
Before == IF back = "end" THEN BeforeConsole ELSE 0

TurnInv ==
  /\ pc = "begin" => status = "UNINITIALIZED" /\ Spent <= Before + DhcpMax
  /\ pc = "dns" => status = "READY" /\ Spent <= Before + Lookup
  /\ pc = "internet" => Spent <= Lookup
  /\ pc = "internet" /\ status \in {"RESTARTING", "INITIALIZING"} => Spent = 0
  /\ pc \in {"pinged", "interface"} => Spent <= Lookup + Sends(1)
  /\ pc = "info" => Spent <= Lookup + Sends(part)
  /\ pc = "console" => Spent <= BeforeConsole
  /\ pc = "end" => Spent <= BeforeConsole + Asking

LEMMA Sum ==
  ASSUME NEW n \in Nat
  PROVE  Sends(n) \in Nat /\ Sends(n + 1) = Sends(n) + ArpMax
BY LinkConstants DEF Sends

LEMMA Budgets ==
  /\ DhcpMax \in Nat /\ DnsMax \in Nat /\ ArpMax \in Nat
  /\ Lookup \in Nat /\ Lookup = DhcpMax + DnsMax
  /\ Asking \in Nat /\ Lookup <= Asking /\ ArpMax <= Asking
  /\ Sends(1) = ArpMax
  /\ BeforeConsole \in Nat
  /\ BeforeConsole = Lookup + Sends(PartCount) + ArpMax
  /\ Lookup + Sends(1) + ArpMax <= BeforeConsole
  /\ WorstTurn = BeforeConsole + Asking
<1>1. DhcpMax \in Nat /\ DnsMax \in Nat /\ ArpMax \in Nat /\ PartCount \in 1..4
  BY LinkConstants
<1>2. /\ Lookup \in Nat /\ Lookup = DhcpMax + DnsMax
      /\ Asking \in Nat /\ Lookup <= Asking /\ ArpMax <= Asking
  BY <1>1 DEF Lookup, Asking
<1>3. Sends(1) = ArpMax
  BY <1>1 DEF Sends
<1>4. Sends(PartCount) \in Nat /\ Sends(PartCount + 1) = Sends(PartCount) + ArpMax
  BY <1>1, Sum
<1>5. Sends(1) <= Sends(PartCount)
  <2>1. CASE PartCount = 1
    BY <1>1, <1>3, <2>1
  <2>2. CASE PartCount > 1
    <3>1. PICK n \in 1..3 : PartCount = n + 1
      BY <1>1, <2>2, PartCount = (PartCount - 1) + 1
    <3>2. n = 1 \/ n = 2 \/ n = 3
      BY <3>1
    <3>3. Sends(n) \in Nat /\ Sends(PartCount) = Sends(n) + ArpMax
      BY <3>1, Sum
    <3> QED BY <1>1, <1>3, <3>3
  <2> QED BY <1>1, <2>1, <2>2
<1>6. WorstTurn = BeforeConsole + Asking
  BY DEF WorstTurn, BeforeConsole, Sends
<1> QED BY <1>1, <1>2, <1>3, <1>4, <1>5, <1>6 DEF BeforeConsole

LEMMA SpentType == LinkTypeOK => Spent \in Nat /\ wdt_age \in Nat /\ blocked \in Nat
BY LinkConstants DEF LinkTypeOK, InternetTypeOK, Spent

(* A call adds at most its own longest time.                               *)
LEMMA CallSpends ==
  ASSUME LinkTypeOK, Running, wdt_age' = wdt_age, NEW longest \in Nat,
         Block(longest) \/ blocked' = blocked
  PROVE  Spent' \in Nat /\ Spent' <= Spent + longest
BY SpentType DEF Block, Running, Spent

LEMMA SendSpends ==
  ASSUME LinkTypeOK, Running, wdt_age' = wdt_age, NEW d, InternetSend(d)
  PROVE  Spent' \in Nat /\ Spent' <= Spent + ArpMax
BY CallSpends, Budgets DEF InternetSend

LEMMA StartTurn ==
  ASSUME LinkTypeOK, TurnInv, BeginDone \/ DnsDone \/ Initializing
  PROVE  TurnInv'
<1>1. Running /\ wdt_age' = wdt_age /\ back \in {"internet", "interface", "end"}
  BY DEF BeginDone, DnsDone, Initializing, InTurn, LinkTypeOK, InternetTypeOK
<1>2. Spent \in Nat
  BY SpentType
<1>3. CASE BeginDone
  <2>1. pc = "begin" /\ status = "UNINITIALIZED" /\ Spent <= Before + DhcpMax
        /\ Before' = Before /\ Before \in {0, BeforeConsole} /\ back' = back
    BY <1>1, <1>3 DEF BeginDone, TurnInv, Before, BeforeConsole
  <2>2. CASE pc' = back /\ UNCHANGED <<status, blocked>>
    <3>1. Spent' = Spent
      BY <1>1, <2>2 DEF Spent
    <3> QED BY <1>1, <1>2, <2>1, <2>2, <3>1, Budgets DEF TurnInv, Before
  <2>3. CASE status' = "READY" /\ pc' = "dns" /\ Block(DnsMax)
    <3>1. Spent' \in Nat /\ Spent' <= Spent + DnsMax
      BY <1>1, <2>3, CallSpends, Budgets
    <3> QED BY <1>2, <2>1, <2>3, <3>1, Budgets DEF TurnInv
  <2> QED BY <1>3, <2>2, <2>3 DEF BeginDone
<1>4. CASE DnsDone
  <2>1. pc = "dns" /\ status = "READY" /\ Spent <= Before + Lookup /\ pc' = back
        /\ status' = status /\ Spent' = Spent
    BY <1>1, <1>4 DEF DnsDone, TurnInv, Spent
  <2> QED BY <1>1, <1>2, <2>1, Budgets DEF TurnInv, Before
<1>5. CASE Initializing
  <2>1. pc = "internet" /\ Spent = 0
    BY <1>5 DEF Initializing, InTurn, TurnInv
  <2>2. CASE RestartSoft("interface")
    <3>1. Spent' \in Nat /\ Spent' <= DhcpMax
      BY <1>1, <2>1, <2>2, CallSpends, Budgets DEF RestartSoft
    <3> QED BY <2>2, <3>1, Budgets DEF RestartSoft, TurnInv, Before
  <2>3. CASE pc' = "interface" /\ UNCHANGED blocked
    <3>1. Spent' = 0
      BY <1>1, <2>1, <2>3 DEF Spent
    <3> QED BY <2>3, <3>1, Budgets DEF TurnInv
  <2> QED BY <1>5, <2>2, <2>3 DEF Initializing
<1> QED BY <1>3, <1>4, <1>5

LEMMA RestOfTurn ==
  ASSUME LinkTypeOK, TurnInv, BoardStep, ~(BeginDone \/ DnsDone \/ Initializing)
  PROVE  TurnInv'
<1>1. Running /\ Spent \in Nat /\ part \in 1..PartCount /\ PartCount \in 1..4
      /\ Sends(part) \in Nat /\ Sends(part + 1) = Sends(part) + ArpMax
  <2>1. Running
    BY DEF BoardStep, Restarting, Troubleshoot, NotServing, SendPing, Receive, TakeCommand,
           TakePing, BeginInfo, SendInfo, NothingToTake, EndTurn, ConsolePing,
           ConsoleRestartHard, ConsoleRestartSoft, ConsoleLookup, Asked, InTurn, Received,
           InInterface
  <2>2. part \in 1..PartCount /\ PartCount \in 1..4
    BY LinkConstants DEF LinkTypeOK, InternetTypeOK
  <2>3. Sends(part) \in Nat /\ Sends(part + 1) = Sends(part) + ArpMax
    BY <2>2, Sum
  <2> QED BY <2>1, <2>2, <2>3, SpentType
<1>2. CASE Restarting \/ Troubleshoot \/ NotServing
  <2>1. pc = "internet" /\ pc' = "interface" /\ Spent' = Spent
    BY <1>2 DEF Restarting, Troubleshoot, NotServing, InTurn, RestartHard, Spent
  <2> QED BY <1>1, <2>1, Budgets DEF TurnInv
<1>3. CASE SendPing
  <2>1. pc = "internet" /\ pc' = "pinged" /\ Spent' \in Nat /\ Spent' <= Spent + ArpMax
    BY <1>1, <1>3, SendSpends DEF SendPing, InTurn
  <2> QED BY <1>1, <2>1, Budgets DEF TurnInv
<1>4. CASE Receive
  <2>1. pc \in {"internet", "pinged"} /\ pc' = "interface" /\ Spent' = Spent
    BY <1>4 DEF Receive, InTurn, Spent
  <2> QED BY <1>1, <2>1, Budgets DEF TurnInv
<1>5. CASE TakeCommand \/ NothingToTake
  <2>1. pc = "interface" /\ pc' = "console" /\ Spent' = Spent
    BY <1>5 DEF TakeCommand, NothingToTake, Received, InInterface, Spent
  <2> QED BY <1>1, <2>1, Budgets DEF TurnInv
<1>6. CASE TakePing
  <2>1. pc = "interface" /\ pc' = "console" /\ Spent' \in Nat /\ Spent' <= Spent + ArpMax
    BY <1>1, <1>6, SendSpends DEF TakePing, Received, InInterface
  <2> QED BY <1>1, <2>1, Budgets DEF TurnInv
<1>7. CASE BeginInfo
  <2>1. pc = "interface" /\ pc' = "info" /\ part' = 1 /\ Spent' = Spent
    BY <1>7 DEF BeginInfo, Received, InInterface, Spent
  <2> QED BY <1>1, <2>1, Budgets DEF TurnInv
<1>8. CASE SendInfo
  <2>1. pc = "info" /\ Spent' \in Nat /\ Spent' <= Spent + ArpMax
    BY <1>1, <1>8, SendSpends DEF SendInfo
  <2>2. CASE part < PartCount /\ pc' = "info" /\ part' = part + 1
    BY <1>1, <2>1, <2>2, Budgets DEF TurnInv
  <2>3. CASE part = PartCount /\ pc' = "console"
    BY <1>1, <2>1, <2>3, Budgets DEF TurnInv
  <2>4. \/ part < PartCount /\ pc' = "info" /\ part' = part + 1
        \/ part = PartCount /\ pc' = "console"
    BY <1>1, <1>8, <2>1 DEF SendInfo
  <2> QED BY <2>2, <2>3, <2>4
<1>9. CASE ConsolePing
  <2>1. pc = "console" /\ pc' = "end" /\ Spent' \in Nat /\ Spent' <= Spent + ArpMax
    BY <1>1, <1>9, SendSpends DEF ConsolePing, Asked
  <2> QED BY <1>1, <2>1, Budgets DEF TurnInv
<1>10. CASE ConsoleRestartHard
  <2>1. pc = "console" /\ pc' = "end" /\ Spent' = Spent
    BY <1>10 DEF ConsoleRestartHard, RestartHard, Asked, Spent
  <2> QED BY <1>1, <2>1, Budgets DEF TurnInv
<1>11. CASE ConsoleRestartSoft
  <2>1. /\ pc = "console" /\ pc' = "begin" /\ back' = "end" /\ status' = "UNINITIALIZED"
        /\ Spent' \in Nat /\ Spent' <= Spent + DhcpMax
    BY <1>1, <1>11, CallSpends, Budgets DEF ConsoleRestartSoft, RestartSoft, Asked
  <2>2. Before' = BeforeConsole
    BY <2>1 DEF Before, BeforeConsole
  <2> QED BY <1>1, <2>1, <2>2, Budgets DEF TurnInv
<1>12. CASE ConsoleLookup
  <2>1. pc = "console" /\ UNCHANGED <<status, wdt_age>>
    BY <1>12 DEF ConsoleLookup, Asked
  <2>2. CASE pc' = "dns" /\ back' = "end" /\ Block(DnsMax) /\ status = "READY"
    <3>1. Spent' \in Nat /\ Spent' <= Spent + DnsMax
      BY <1>1, <2>1, <2>2, CallSpends, Budgets
    <3>2. Before' = BeforeConsole
      BY <2>2 DEF Before, BeforeConsole
    <3> QED BY <1>1, <2>1, <2>2, <3>1, <3>2, Budgets DEF TurnInv
  <2>3. CASE pc' = "end" /\ UNCHANGED blocked
    <3>1. Spent' = Spent
      BY <2>1, <2>3 DEF Spent
    <3> QED BY <1>1, <2>1, <2>3, <3>1, Budgets DEF TurnInv
  <2> QED BY <1>12, <2>2, <2>3 DEF ConsoleLookup
<1>13. CASE EndTurn
  <2>1. pc' = "internet" /\ Spent' = 0
    BY <1>1, <1>13 DEF EndTurn, Spent, Running
  <2> QED BY <2>1, Budgets DEF TurnInv
<1> QED
  BY <1>2, <1>3, <1>4, <1>5, <1>6, <1>7, <1>8, <1>9, <1>10, <1>11, <1>12, <1>13
     DEF BoardStep

LEMMA RestartTurn ==
  ASSUME LinkTypeOK, Restart
  PROVE  TurnInv'
<1>1. Boot
  BY DEF Restart, TakeReset, WatchdogReset
<1>2. blocked' \in 0..DhcpMax /\ wdt_age' = 0
  BY <1>1, Budgets DEF Boot, Block
<1>3. Spent' = wdt_age' + blocked'
  BY DEF Spent
<1>4. DhcpMax \in Nat
  BY Budgets
<1>5. Spent' <= DhcpMax
  <2>1. blocked' \in Int /\ blocked' <= DhcpMax
    BY <1>2, <1>4
  <2>2. Spent' = 0 + blocked'
    BY <1>2, <1>3
  <2> QED BY <2>1, <2>2
<1>6. pc' = "begin" /\ status' = "UNINITIALIZED" /\ Before' = 0
  BY <1>1 DEF Boot, Before
<1> QED BY <1>4, <1>5, <1>6 DEF TurnInv

(* Time only turns what a call may still take into what it took.           *)
LEMMA TickTurn ==
  ASSUME LinkTypeOK, TurnInv, LinkTick
  PROVE  TurnInv'
<1>1. UNCHANGED <<pc, status, back, part>>
  BY DEF LinkTick, InternetTick
<1>2. Spent' <= Spent /\ Spent' \in Nat /\ Spent \in Nat
  <2>1. wdt_age \in Nat /\ blocked \in Nat
    BY SpentType
  <2>2. CASE Running
    BY <2>1, <2>2 DEF LinkTick, InternetTick, Running, Spent
  <2>3. CASE ~Running
    BY <2>1, <2>3 DEF LinkTick, InternetTick, Running, Spent
  <2> QED BY <2>2, <2>3
<1>3. Before' = Before /\ Before \in Nat
  BY <1>1, Budgets DEF Before, BeforeConsole
<1>4. part \in Nat => Sends(part) \in Nat
  BY Sum
<1> QED BY <1>1, <1>2, <1>3, <1>4, Budgets, LinkConstants
        DEF TurnInv, LinkTypeOK, InternetTypeOK

LEMMA SameTurn ==
  ASSUME TurnInv, UNCHANGED <<pc, status, back, part, wdt_age, blocked>>
  PROVE  TurnInv'
BY DEF TurnInv, Spent, Before, BeforeConsole

LEMMA TurnBudget ==
  ASSUME LinkTypeOK, TurnInv
  PROVE  TurnBounded
<1>1. /\ part \in 1..PartCount /\ PartCount \in 1..4 /\ pc \in Places
      /\ back \in {"internet", "interface", "end"} /\ Spent \in Nat
  BY LinkConstants, SpentType DEF LinkTypeOK, InternetTypeOK
<1>2. Spent <= BeforeConsole + Asking
  <2>1. CASE pc = "info"
    <3>1. Sends(part) <= Sends(PartCount)
      <4>1. /\ Sends(1) \in Nat /\ Sends(1 + 1) = Sends(1) + ArpMax
            /\ Sends(2) \in Nat /\ Sends(2 + 1) = Sends(2) + ArpMax
            /\ Sends(3) \in Nat /\ Sends(3 + 1) = Sends(3) + ArpMax
            /\ Sends(4) \in Nat
        BY Sum
      <4>2. /\ Sends(2) = Sends(1) + ArpMax /\ Sends(3) = Sends(2) + ArpMax
            /\ Sends(4) = Sends(3) + ArpMax
        BY <4>1
      <4>3. PartCount = 1 \/ PartCount = 2 \/ PartCount = 3 \/ PartCount = 4
        BY <1>1
      <4>4. part = 1 \/ part = 2 \/ part = 3 \/ part = 4
        BY <1>1
      <4> QED BY <1>1, <4>1, <4>2, <4>3, <4>4, Budgets
    <3>2. Sends(part) \in Nat /\ Sends(PartCount) \in Nat
      BY <1>1, Sum
    <3> QED BY <1>1, <2>1, <3>1, <3>2, Budgets DEF TurnInv
  <2>2. CASE pc \in {"begin", "dns"}
    <3>1. Before \in {0, BeforeConsole}
      BY DEF Before, BeforeConsole
    <3> QED BY <1>1, <2>2, <3>1, Budgets DEF TurnInv
  <2>3. CASE pc \in {"internet", "pinged", "interface"}
    <3>1. Spent <= Lookup + Sends(1)
      BY <1>1, <2>3, Budgets DEF TurnInv
    <3> QED BY <1>1, <3>1, Budgets
  <2>4. CASE pc \in {"console", "end"}
    BY <1>1, <2>4, Budgets DEF TurnInv
  <2> QED BY <1>1, <2>1, <2>2, <2>3, <2>4 DEF Places
<1> QED BY <1>2, Budgets DEF TurnBounded, Spent

(* No turn of the loop, from one reset of the watchdog to the next, lasts  *)
(* longer than WorstTurn, whatever network, server, operators and console  *)
(* do: the calls that wait each wait once in a turn, a send once for each  *)
(* datagram.                                                               *)
THEOREM TurnBoundedHolds == LinkSpec => []TurnBounded
<1>1. LinkInit => TurnInv
  BY Budgets DEF LinkInit, InternetInit, TurnInv, Spent, Before
<1>2. LinkTypeOK /\ TurnInv /\ [LinkNext]_linkVars => TurnInv'
  <2>1. ASSUME LinkTypeOK, TurnInv, LinkNext PROVE TurnInv'
    <3>1. CASE BoardStep
      BY <2>1, <3>1, StartTurn, RestOfTurn
    <3>2. CASE Restart
      BY <2>1, <3>2, RestartTurn
    <3>3. CASE LinkTick
      BY <2>1, <3>3, TickTurn
    <3>4. CASE Arrival \/ Serve \/ Operator \/ Surroundings
      <4>1. UNCHANGED <<pc, status, back, part, wdt_age, blocked>>
        BY <3>4 DEF Arrival, Arrive, Serve, Operator, Surroundings, internetVars, loopVars
      <4> QED BY <2>1, <4>1, SameTurn
    <3> QED BY <2>1, <3>1, <3>2, <3>3, <3>4, LinkSteps
  <2>2. ASSUME TurnInv, UNCHANGED linkVars PROVE TurnInv'
    BY <2>2, SameTurn DEF linkVars, internetVars, loopVars
  <2> QED BY <2>1, <2>2
<1> QED BY <1>1, <1>2, LinkTypeCorrect, TurnBudget, PTL DEF LinkSpec
=============================================================================
