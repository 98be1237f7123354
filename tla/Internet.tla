------------------------------ MODULE Internet ------------------------------
(***************************************************************************)
(* The controller's side of the link: internet.cpp, the receiving half of  *)
(* interface.cpp, the link commands of the console, and the watchdog of    *)
(* main.cpp.  One packet, internet_packet, serves to send and to receive;  *)
(* internet_is_receive_wait says that it holds a command not yet taken.    *)
(*                                                                         *)
(* pc is where the loop is.  A call of the Ethernet library that waits     *)
(* blocks the loop for some ticks; otherwise a turn of the loop takes no   *)
(* time, and a turn in which nothing can happen is left out.  A turn reads *)
(* the chip once and first; so what others do meanwhile can as well be     *)
(* done after the turn, or while a call blocks (Idle).  Ages are those of  *)
(* the stamps, as in Device.                                               *)
(***************************************************************************)
EXTENDS Network

CONSTANTS ReceiveLastMax,   \* INTERNET_TIME_RECEIVE_LAST_MAX
          PingInterval,     \* INTERNET_TIME_PING_SEND_INTERVAL
          RestartWait,      \* INTERNET_TIME_RESTART_WAIT
          InfoInterval,     \* ..._TIME_INTERVAL_SEND_INFO
          DhcpMax,          \* longest Ethernet.begin
          DnsMax,           \* longest getHostByName
          ArpMax,           \* longest send to a gateway that is silent
          Watchdog,         \* WDTO_8S
          ConsoleKinds      \* commands of the serial console

ASSUME InternetAssumption ==
  /\ ReceiveLastMax \in Nat \ {0} /\ PingInterval \in Nat \ {0}
  /\ RestartWait \in Nat \ {0} /\ InfoInterval \in Nat \ {0}
  /\ DhcpMax \in Nat /\ DnsMax \in Nat /\ ArpMax \in Nat
  /\ Watchdog \in Nat \ {0}
  /\ ConsoleKinds \subseteq {"p", "ir", "ib", "ip"}

Statuses == {"UNINITIALIZED", "RESTARTING", "INITIALIZING", "READY"}
Places == {"begin", "dns",                             \* restart_soft
           "internet", "pinged",                       \* internet_update
           "interface", "info", "console", "end"}      \* interface_update

VARIABLES status,
          restart_age,    \* of time_restart_last
          receive_age,    \* of time_receive_last
          ping_age,       \* of time_ping_send_last
          info_age,       \* of time_start_info
          resolved,       \* internet_ip_remote is the server's address
          receive_wait,   \* internet_is_receive_wait
          packet,         \* the command internet_packet holds while it waits
          is_send_info,
          setting,        \* the state the telemetry reports
          chip,           \* datagrams in the buffer of the Ethernet chip, whose
                          \* socket is open exactly while status is READY
          pc,
          back,           \* where restart_soft and ip_remote_update return to
          refresh,        \* restart_soft is to stamp time_receive_last
          part,           \* the next part of the telemetry
          blocked,        \* ticks the present call still blocks the loop
          wdt_age,        \* since the last wdt_reset
          turn_due        \* no turn of the loop since the last tick

stampVars == <<restart_age, receive_age, ping_age, info_age>>
commandVars == <<receive_wait, packet, is_send_info, setting>>
loopVars == <<pc, back, refresh, part, blocked, wdt_age, turn_due>>
internetVars == <<status, resolved, stampVars, commandVars, chip, loopVars>>

InternetTypeOK ==
  /\ status \in Statuses
  /\ restart_age \in 0..RestartWait /\ receive_age \in 0..ReceiveLastMax
  /\ ping_age \in 0..PingInterval /\ info_age \in 0..InfoInterval
  /\ resolved \in BOOLEAN /\ receive_wait \in BOOLEAN
  /\ packet \in ToController \cup {Blank, Ping}
  /\ is_send_info \in BOOLEAN
  /\ setting \in 0..CommandMax
  /\ chip \subseteq ToController
  /\ pc \in Places
  /\ back \in {"internet", "interface", "end"}
  /\ refresh \in BOOLEAN
  /\ part \in 1..PartCount
  /\ blocked \in 0..(DhcpMax + DnsMax + ArpMax)
  /\ wdt_age \in 0..Watchdog
  /\ turn_due \in BOOLEAN

-----------------------------------------------------------------------------
Running == blocked = 0
Idle == ~Running \/ pc = "internet"

(* A call that can block: at once on a whole network, else any time up to  *)
(* its longest.                                                            *)
Block(longest) == blocked' \in IF net_up THEN {0} ELSE 0..longest

(* internet_send: at once, or after the chip has given up resolving the    *)
(* address of the gateway.  Without an address of the server beginPacket   *)
(* refuses to send.                                                        *)
InternetSend(d) ==
  IF status /= "READY" \/ ~resolved THEN UNCHANGED <<to_server, blocked>>
  ELSE \/ /\ Takes(to_server)
          /\ to_server' = to_server \cup {d}
          /\ UNCHANGED blocked
       \/ /\ ~net_up
          /\ Block(ArpMax)
          /\ UNCHANGED to_server

(* internet_restart_hard *)
RestartHard ==
  /\ restart_age' = 0
  /\ status' = "RESTARTING"
  /\ chip' = {}
  /\ UNCHANGED <<receive_age, blocked, refresh, back, resolved>>

(* internet_restart_soft, up to the wait in Ethernet.begin, which leaves   *)
(* the chip without an address.                                            *)
RestartSoft(whereTo) ==
  /\ receive_age' = 0
  /\ status' = "UNINITIALIZED"
  /\ chip' = {}
  /\ pc' = "begin"
  /\ back' = whereTo
  /\ refresh' = TRUE
  /\ Block(DhcpMax)
  /\ UNCHANGED <<restart_age, resolved>>

(* The end of Ethernet.begin.  It fails without hardware, cable or DHCP;   *)
(* otherwise the socket is opened and the server's name looked up.         *)
BeginDone ==
  /\ Running /\ pc = "begin"
  /\ \/ /\ ~net_up
        /\ pc' = back
        /\ UNCHANGED <<status, blocked>>
     \/ /\ status' = "READY"
        /\ pc' = "dns"
        /\ Block(DnsMax)
  /\ UNCHANGED <<resolved, chip, stampVars, commandVars, back, refresh, part,
                 wdt_age, turn_due, networkVars>>

(* The end of internet_ip_remote_update; restart_soft stamps               *)
(* time_receive_last only when it has succeeded.                           *)
DnsDone ==
  /\ Running /\ pc = "dns"
  /\ \/ /\ ~net_up
        /\ UNCHANGED <<resolved, receive_age>>
     \/ /\ resolved' = TRUE
        /\ receive_age' = IF refresh THEN 0 ELSE receive_age
  /\ pc' = back
  /\ refresh' = TRUE
  /\ UNCHANGED <<status, restart_age, ping_age, info_age, commandVars, chip,
                 back, part, blocked, wdt_age, turn_due, networkVars>>
-----------------------------------------------------------------------------
Serving == status \in {"UNINITIALIZED", "READY"}
(* Mutant: only a link that was ready is watched.                          *)
Mutant_Overdue == status = "READY" /\ receive_age >= ReceiveLastMax
Overdue == receive_age >= ReceiveLastMax
Open == status = "READY" /\ ~receive_wait
(* Mutant: telemetry stands for a ping.                                    *)
Mutant_PingDue == ping_age >= PingInterval /\ ~is_send_info
PingDue == ping_age >= PingInterval
InfoDue == is_send_info /\ ~receive_wait /\ info_age >= InfoInterval

(* A turn of the loop in which something can happen: the first after a     *)
(* tick, and any other that finds work.                                    *)
TurnWanted ==
  turn_due \/ (Serving /\ Overdue) \/ InfoDue \/ (Open /\ (PingDue \/ chip /= {}))

InTurn == Running /\ pc = "internet" /\ TurnWanted

Waited == restart_age >= RestartWait

(* The reset of the chip and its start each take RestartWait.              *)
Restarting ==
  /\ InTurn /\ status = "RESTARTING"
  /\ IF Waited THEN status' = "INITIALIZING" /\ restart_age' = 0
               ELSE UNCHANGED <<status, restart_age>>
  /\ pc' = "interface"
  /\ UNCHANGED <<resolved, receive_age, ping_age, info_age, commandVars, chip,
                 back, refresh, part, blocked, wdt_age, turn_due, networkVars>>

Initializing ==
  /\ InTurn /\ status = "INITIALIZING"
  /\ IF Waited THEN RestartSoft("interface")
     ELSE /\ pc' = "interface"
          /\ UNCHANGED <<status, resolved, restart_age, receive_age, chip,
                         back, refresh, blocked>>
  /\ UNCHANGED <<ping_age, info_age, commandVars, part, wdt_age, turn_due,
                 networkVars>>

(* internet_troubleshoot: nothing received for too long.                   *)
Troubleshoot ==
  /\ InTurn /\ Serving /\ Overdue
  /\ RestartHard
  /\ pc' = "interface"
  /\ UNCHANGED <<ping_age, info_age, commandVars, part, wdt_age, turn_due,
                 networkVars>>

(* Nothing is sent or received while a command waits to be taken.          *)
NotServing ==
  /\ InTurn /\ Serving /\ ~Overdue
  /\ ~Open
  /\ pc' = "interface"
  /\ UNCHANGED <<status, resolved, stampVars, commandVars, chip, back,
                 refresh, part, blocked, wdt_age, turn_due, networkVars>>

SendPing ==
  /\ InTurn /\ Serving /\ ~Overdue /\ Open /\ PingDue
  /\ InternetSend(Ping)
  /\ pc' = "pinged"
  /\ UNCHANGED <<status, resolved, stampVars, commandVars, chip, back, refresh,
                 part, wdt_age, turn_due, net_up, to_controller, acts>>

(* internet_receive: one datagram of the chip, after the ping if one was   *)
(* due.  One of another address is dropped; one of the server counts as a  *)
(* sign of life, packet or not.                                            *)
Receive ==
  /\ \/ InTurn /\ Serving /\ ~Overdue /\ Open /\ ~PingDue /\ UNCHANGED ping_age
     \/ Running /\ pc = "pinged" /\ ping_age' = 0
  /\ pc' = "interface"
  /\ \/ /\ chip = {}
        /\ UNCHANGED <<receive_age, receive_wait, packet, chip>>
     \/ \E d \in chip :
          /\ chip' = chip \ {d}
          /\ receive_age' = IF d.kind = "stray" \/ ~resolved THEN receive_age ELSE 0
          /\ IF d.kind \in Strange \/ ~resolved
             THEN UNCHANGED <<receive_wait, packet>>
             ELSE receive_wait' = TRUE /\ packet' = d
  /\ UNCHANGED <<status, resolved, restart_age, info_age, is_send_info,
                 setting, back, refresh, part, blocked, wdt_age,
                 turn_due, networkVars>>
-----------------------------------------------------------------------------
(* interface_process_data.  Every command releases the packet when it has  *)
(* been taken, except INFO_ALL of a wrong size, which returns at once.     *)
InInterface == Running /\ pc = "interface"
Received(kinds) == InInterface /\ receive_wait /\ packet.kind \in kinds

(* Mutant: the setting's case returns too, like that of INFO_ALL.          *)
Mutant_TakeCommand ==
  /\ Received({"set", "send_on", "send_off", "unknown", "bad_info", "pong"})
  /\ setting' = IF packet.kind = "set" THEN packet.id ELSE setting
  /\ is_send_info' = CASE packet.kind = "send_on"  -> TRUE
                       [] packet.kind = "send_off" -> FALSE
                       [] OTHER -> is_send_info
  /\ receive_wait' = (packet.kind \in {"bad_info", "set"})
  /\ packet' = IF receive_wait' THEN packet ELSE Blank
  /\ pc' = "console"
  /\ UNCHANGED <<status, resolved, stampVars, chip, back, refresh,
                 part, blocked, wdt_age, turn_due, networkVars>>

(* Mutant: a break is missing, the cases below fall into the setting's.    *)
Mutant_TakeOther ==
  /\ Received({"set", "send_on", "send_off", "unknown", "bad_info", "pong"})
  /\ setting' = IF packet.kind \in {"set", "send_off"} THEN packet.id ELSE setting
  /\ is_send_info' = CASE packet.kind = "send_on"  -> TRUE
                       [] packet.kind = "send_off" -> FALSE
                       [] OTHER -> is_send_info
  /\ receive_wait' = (packet.kind = "bad_info")
  /\ packet' = IF receive_wait' THEN packet ELSE Blank
  /\ pc' = "console"
  /\ UNCHANGED <<status, resolved, stampVars, chip, back, refresh,
                 part, blocked, wdt_age, turn_due, networkVars>>

TakeCommand ==
  /\ Received({"set", "send_on", "send_off", "unknown", "bad_info", "pong"})
  /\ setting' = IF packet.kind = "set" THEN packet.id ELSE setting
  /\ is_send_info' = CASE packet.kind = "send_on"  -> TRUE
                       [] packet.kind = "send_off" -> FALSE
                       [] OTHER -> is_send_info
  /\ receive_wait' = (packet.kind = "bad_info")
  /\ packet' = IF receive_wait' THEN packet ELSE Blank
  /\ pc' = "console"
  /\ UNCHANGED <<status, resolved, stampVars, chip, back, refresh,
                 part, blocked, wdt_age, turn_due, networkVars>>

TakePing ==
  /\ Received({"ping"})
  /\ InternetSend(Pong)
  /\ receive_wait' = FALSE /\ packet' = Blank
  /\ pc' = "console"
  /\ UNCHANGED <<status, resolved, stampVars, is_send_info, setting, chip,
                 back, refresh, part, wdt_age, turn_due,
                 net_up, to_controller, acts>>

(* INFO_ALL, received or, once the interval is over, of its own accord.    *)
BeginInfo ==
  /\ \/ Received({"info_all"}) /\ UNCHANGED info_age
     \/ InInterface /\ InfoDue /\ info_age' = 0
  /\ pc' = "info"
  /\ part' = 1
  /\ UNCHANGED <<status, resolved, restart_age, receive_age, ping_age, commandVars,
                 chip, back, refresh, blocked, wdt_age, turn_due, networkVars>>

(* Mutant: one part too many.                                              *)
Mutant_SendInfo ==
  /\ Running /\ pc = "info"
  /\ InternetSend(Info(PartOrder[part], setting))
  /\ IF part <= PartCount
     THEN part' = part + 1 /\ UNCHANGED <<receive_wait, packet, pc>>
     ELSE /\ receive_wait' = FALSE /\ packet' = Blank
          /\ pc' = "console" /\ part' = 1
  /\ UNCHANGED <<status, resolved, stampVars, is_send_info, setting, chip, back,
                 refresh, wdt_age, turn_due, net_up, to_controller, acts>>

SendInfo ==
  /\ Running /\ pc = "info"
  /\ InternetSend(Info(PartOrder[part], setting))
  /\ IF part < PartCount
     THEN part' = part + 1 /\ UNCHANGED <<receive_wait, packet, pc>>
     ELSE /\ receive_wait' = FALSE /\ packet' = Blank
          /\ pc' = "console" /\ part' = 1
  /\ UNCHANGED <<status, resolved, stampVars, is_send_info, setting, chip, back,
                 refresh, wdt_age, turn_due, net_up, to_controller, acts>>

NothingToTake ==
  /\ InInterface /\ ~receive_wait /\ ~InfoDue
  /\ pc' = "console"
  /\ UNCHANGED <<status, resolved, stampVars, commandVars, chip, back,
                 refresh, part, blocked, wdt_age, turn_due, networkVars>>

(* interface_serial_update: a ping, a restart of either kind, or a lookup  *)
(* of the server's name, asked on the console.                             *)
Asked(kind) ==
  /\ Running /\ pc = "console"
  /\ kind \in ConsoleKinds
  /\ acts < CommandMax
  /\ acts' = acts + 1
  /\ UNCHANGED <<net_up, to_controller>>

ConsolePing ==
  /\ Asked("p")
  /\ packet' = IF receive_wait THEN Ping ELSE Blank
  /\ InternetSend(Ping)
  /\ pc' = "end"
  /\ UNCHANGED <<status, resolved, stampVars, receive_wait, is_send_info,
                 setting, chip, back, refresh, part, wdt_age, turn_due>>

ConsoleRestartHard ==
  /\ Asked("ir")
  /\ RestartHard
  /\ pc' = "end"
  /\ UNCHANGED <<ping_age, info_age, commandVars, part, wdt_age, turn_due,
                 to_server>>

ConsoleRestartSoft ==
  /\ Asked("ib")
  /\ RestartSoft("end")
  /\ UNCHANGED <<ping_age, info_age, commandVars, part, wdt_age, turn_due,
                 to_server>>

ConsoleLookup ==
  /\ Asked("ip")
  /\ IF status = "READY"
     THEN pc' = "dns" /\ back' = "end" /\ refresh' = FALSE /\ Block(DnsMax)
     ELSE pc' = "end" /\ UNCHANGED <<back, refresh, blocked>>
  /\ UNCHANGED <<status, resolved, stampVars, commandVars, chip, part,
                 wdt_age, turn_due, to_server>>

(* Mutant: the watchdog is reset before the console's commands are done.   *)
Mutant_EndTurn ==
  /\ Running /\ pc \in {"console", "end"}
  /\ wdt_age' = IF pc = "console" THEN 0 ELSE wdt_age
  /\ turn_due' = FALSE
  /\ pc' = "internet"
  /\ UNCHANGED <<status, resolved, stampVars, commandVars, chip, back,
                 refresh, part, blocked, networkVars>>

(* The end of loop(): wdt_reset.                                           *)
EndTurn ==
  /\ Running /\ pc \in {"console", "end"}
  /\ wdt_age' = 0
  /\ turn_due' = FALSE
  /\ pc' = "internet"
  /\ UNCHANGED <<status, resolved, stampVars, commandVars, chip, back,
                 refresh, part, blocked, networkVars>>
-----------------------------------------------------------------------------
(* A restart of the board: setup() arms the watchdog and then calls        *)
(* internet_init.  All state is as in Init; chip and socket are reset by   *)
(* the library.                                                            *)
InternetInit ==
  /\ status = "UNINITIALIZED" /\ resolved = FALSE
  /\ restart_age = 0 /\ receive_age = 0 /\ ping_age = 0 /\ info_age = InfoInterval
  /\ receive_wait = FALSE /\ packet = Blank
  /\ is_send_info = FALSE /\ setting = 0
  /\ chip = {}
  /\ pc = "begin" /\ back = "internet" /\ refresh = TRUE /\ part = 1
  /\ blocked = 0 /\ wdt_age = 0 /\ turn_due = TRUE

Boot ==
  /\ status' = "UNINITIALIZED" /\ resolved' = FALSE
  /\ restart_age' = 0 /\ receive_age' = 0 /\ ping_age' = 0
  /\ info_age' = InfoInterval
  /\ receive_wait' = FALSE /\ packet' = Blank
  /\ is_send_info' = FALSE /\ setting' = 0
  /\ chip' = {}
  /\ pc' = "begin" /\ back' = "internet" /\ refresh' = TRUE /\ part' = 1
  /\ Block(DhcpMax) /\ wdt_age' = 0 /\ turn_due' = TRUE
  /\ UNCHANGED networkVars

WatchdogReset == wdt_age >= Watchdog /\ Boot

TakeReset == Received({"reset"}) /\ Boot

(* A datagram reaches the controller; the chip drops it when nothing       *)
(* listens.                                                                *)
Arrive(d) ==
  /\ Idle
  /\ d \in to_controller
  /\ to_controller' = to_controller \ {d}
  /\ chip' = IF status = "READY" THEN chip \cup {d} ELSE chip
  /\ UNCHANGED <<status, resolved, stampVars, commandVars, loopVars,
                 net_up, to_server, acts>>

Grown(age, limit) == IF age < limit THEN age + 1 ELSE age

(* Time passes while a call blocks the loop, and between turns when there  *)
(* is no work, while turns without effect keep resetting the watchdog.     *)
InternetTick ==
  /\ wdt_age < Watchdog
  /\ Quiet
  /\ ~Running \/ (pc = "internet" /\ ~TurnWanted)
  /\ blocked' = IF Running THEN 0 ELSE blocked - 1
  /\ restart_age' = Grown(restart_age, RestartWait)
  /\ receive_age' = Grown(receive_age, ReceiveLastMax)
  /\ ping_age' = Grown(ping_age, PingInterval)
  /\ info_age' = Grown(info_age, InfoInterval)
  /\ wdt_age' = IF Running THEN 0 ELSE wdt_age + 1
  /\ turn_due' = TRUE
  /\ UNCHANGED <<status, resolved, commandVars, chip, pc, back, refresh, part,
                 networkVars>>

(* What the loop does of its own accord.                                   *)
LoopStep ==
  \/ BeginDone \/ DnsDone
  \/ Restarting \/ Initializing \/ Troubleshoot \/ NotServing
  \/ SendPing \/ Receive
  \/ TakeCommand \/ TakePing \/ BeginInfo \/ SendInfo \/ TakeReset
  \/ NothingToTake \/ EndTurn
  \/ WatchdogReset

ConsoleStep ==
  ConsolePing \/ ConsoleRestartHard \/ ConsoleRestartSoft \/ ConsoleLookup
=============================================================================
