---------------------------- MODULE LinuxServer ----------------------------
(***************************************************************************)
(* The server (linux_server: server_udp.c, main.c): it keeps a mirror of   *)
(* the controller made of the telemetry, answers pings, and sends the      *)
(* operator's commands to whatever address it heard last: one structure,   *)
(* internet_packet, serves both receiving and sending.                     *)
(***************************************************************************)
EXTENDS Network

VARIABLES server_up,
          heard,   \* the address and port in the header of internet_packet
          mirror   \* the state shown, by part of the telemetry

serverVars == <<server_up, heard, mirror>>

(* A part that has never been received: the arrays are zero.               *)
Unknown == -1

LinuxServerTypeOK ==
  /\ server_up \in BOOLEAN
  /\ heard \in {"nobody", "controller", "stranger"}
  /\ mirror \in [Parts -> 0..CommandMax \cup {Unknown}]

LinuxServerInit ==
  /\ server_up = TRUE
  /\ heard = "nobody"
  /\ mirror = [p \in Parts |-> Unknown]

(* server_udp_send.  A datagram that cannot be sent (no address yet, no    *)
(* network) makes the server die.                                          *)
ServerSend(d) ==
  \/ /\ heard /= "nobody"
     /\ to_controller' = IF heard = "controller" /\ Takes(to_controller)
                         THEN to_controller \cup {d} ELSE to_controller
     /\ UNCHANGED server_up
  \/ /\ heard = "nobody" \/ ~net_up
     /\ server_up' = FALSE
     /\ UNCHANGED to_controller

(* Mutant: a part of the telemetry never has the size expected.            *)
Mutant_Mirrored(d) ==
  IF d.kind \in Parts \ {"flow"} THEN [mirror EXCEPT ![d.kind] = d.id] ELSE mirror

(* The mirror after a datagram: a part of the telemetry replaces what the  *)
(* mirror had of it.                                                       *)
Mirrored(d) ==
  IF d.kind \in Parts THEN [mirror EXCEPT ![d.kind] = d.id] ELSE mirror

(* server_udp_update: server_udp_receive and server_process_received_data. *)
ServerReceive(d) ==
  /\ server_up
  /\ d \in to_server
  /\ to_server' = to_server \ {d}
  /\ heard' = "controller"
  /\ IF d = Ping
     THEN /\ \/ /\ to_controller' = IF Takes(to_controller)
                                    THEN to_controller \cup {Pong} ELSE to_controller
                /\ UNCHANGED server_up
             \/ /\ ~net_up
                /\ server_up' = FALSE
                /\ UNCHANGED to_controller
          /\ UNCHANGED mirror
     ELSE /\ mirror' = Mirrored(d)
          /\ UNCHANGED <<to_controller, server_up>>
  /\ UNCHANGED <<net_up, acts>>

(* A datagram of somebody else: the header of internet_packet is written   *)
(* before anything of the datagram is looked at.  It matters if a command  *)
(* follows.                                                                *)
ServerStranger ==
  /\ server_up /\ acts < CommandMax
  /\ heard' = "stranger"
  /\ UNCHANGED <<server_up, mirror, networkVars>>

(* user_input_process_data: a command of the operator.                     *)
ServerCommand ==
  /\ server_up
  /\ acts < CommandMax
  /\ \E k \in CommandKinds \ Strange : ServerSend([id |-> acts + 1, kind |-> k])
  /\ acts' = acts + 1
  /\ UNCHANGED <<heard, mirror, net_up, to_server>>

(* The operator starts a server that died.                                 *)
ServerStart ==
  /\ ~server_up
  /\ server_up' = TRUE
  /\ heard' = "nobody"
  /\ mirror' = [p \in Parts |-> Unknown]
  /\ UNCHANGED networkVars
=============================================================================
