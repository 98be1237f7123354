------------------------------- MODULE Network -------------------------------
(***************************************************************************)
(* The internet between the controller and its server: two sets of         *)
(* datagrams under way, delivered in any order.  While net_up the path is  *)
(* whole: DHCP, DNS and the gateway answer, nothing is lost, and what is   *)
(* sent arrives within a tick.  While it is down anything may be lost or   *)
(* held back.                                                              *)
(***************************************************************************)
EXTENDS Integers, FiniteSets

CONSTANTS CommandMax,    \* how often operators and strangers act (a bound)
          CommandKinds,  \* what they may send to the controller
          HoldMax,       \* datagrams a network that is down may hold back (a bound)
          PartCount      \* how many parts of the telemetry are told apart

AllKinds == {"set",        \* a setting, or any command that is carried out
             "send_on",    \* IS_SEND_INFO, 1 and 0
             "send_off",
             "info_all",   \* INFO_ALL, and INFO_ALL of a wrong size
             "bad_info",
             "ping",       \* PING, a request
             "reset",      \* CONTROL_SAFETY_RESET
             "unknown",    \* a command the controller does not know
             "garbled",    \* from the server's address, but not a packet
             "stray"}      \* from another address

Strange == {"garbled", "stray"}

(* The telemetry goes out in parts, in this order.                         *)
PartOrder == <<"device", "flow", "pressure", "irrigation">>
Parts == {PartOrder[i] : i \in 1..PartCount}

ASSUME NetworkAssumption ==
  /\ CommandMax \in Nat /\ HoldMax \in Nat
  /\ CommandKinds \subseteq AllKinds
  /\ PartCount \in 1..4

Commands == [id : 1..CommandMax, kind : AllKinds]
Pong     == [id |-> 0, kind |-> "pong"]
Ping     == [id |-> 0, kind |-> "ping"]
Blank    == [id |-> 0, kind |-> "unknown"]

(* Telemetry: the value one part of the state had when it was sent.        *)
Info(part, value) == [id |-> value, kind |-> part]

VARIABLES net_up,
          to_server,      \* datagrams on their way to the server
          to_controller,
          acts            \* of operators and strangers so far

networkVars == <<net_up, to_server, to_controller, acts>>

ToController == Commands \cup {Pong}
ToServer == [id : 0..CommandMax, kind : Parts] \cup {Ping, Pong}

NetworkTypeOK ==
  /\ net_up \in BOOLEAN
  /\ to_server \subseteq ToServer
  /\ to_controller \subseteq ToController
  /\ acts \in 0..CommandMax

NetworkInit ==
  /\ net_up = TRUE
  /\ to_server = {}
  /\ to_controller = {}
  /\ acts = 0

(* All that is under way arrives before time passes.                       *)
Quiet == net_up => to_server = {} /\ to_controller = {}

(* What a network that is down loses, it loses at once or later; it goes   *)
(* down when nothing is under way (what would then be lost is lost by one  *)
(* that went down before).                                                 *)
Takes(way) == net_up \/ Cardinality(way) < HoldMax

NetworkChange ==
  /\ Quiet
  /\ net_up' = ~net_up
  /\ UNCHANGED <<to_server, to_controller, acts>>

Lose ==
  /\ ~net_up
  /\ \/ \E d \in to_server :
          to_server' = to_server \ {d} /\ UNCHANGED to_controller
     \/ \E d \in to_controller :
          to_controller' = to_controller \ {d} /\ UNCHANGED to_server
  /\ UNCHANGED <<net_up, acts>>

(* A datagram of somebody else reaches the controller's port.              *)
Intrude ==
  /\ acts < CommandMax
  /\ Takes(to_controller)
  /\ \E k \in CommandKinds \cap Strange :
       to_controller' = to_controller \cup {[id |-> acts + 1, kind |-> k]}
  /\ acts' = acts + 1
  /\ UNCHANGED <<net_up, to_server>>
=============================================================================
