-------------------------------- MODULE Dhcp --------------------------------
(***************************************************************************)
(* The DHCP client (Dhcp.cpp) as Ethernet.begin runs it, the servers of    *)
(* the local network, and the datagrams between them, which may be lost,   *)
(* delayed beyond one run of the client, delivered twice and out of order. *)
(*                                                                         *)
(* The client takes any reply whose transaction id lies between the first  *)
(* and the last it used in this run; the first is random, so the ids of    *)
(* two runs may overlap.                                                   *)
(***************************************************************************)
EXTENDS Integers, FiniteSets

CONSTANTS DhcpServers,   \* servers; each offers one address, named like it
          FirstXids,     \* what random(1, 2000) may yield
          Response,      \* _responseTimeout
          Timeout,       \* _timeout
          LeaseRuns,     \* how often the client runs (a bound)
          XidMax,        \* largest transaction id sent (a bound)
          FlightMax      \* most datagrams in the network (a bound)

ASSUME DhcpAssumption ==
  /\ FirstXids \subseteq Nat /\ XidMax \in Nat
  /\ \A x \in FirstXids : x < XidMax
  /\ Response \in Nat /\ Timeout \in Nat
  /\ LeaseRuns \in Nat /\ FlightMax \in Nat
  /\ "none" \notin DhcpServers

Address == DhcpServers \cup {"none"}

VARIABLES dhcp_state,   \* _dhcp_state, or "STOPPED" with request_DHCP_lease over
          xid,          \* _dhcpTransactionId (its last step is not used)
          initial_xid,  \* _dhcpInitialTransactionId
          local_ip,     \* _dhcpLocalIp; gateway, mask and DNS server come with it
          server_ip,    \* _dhcpDhcpServerIp
          waited,       \* since parseDHCPResponse began
          elapsed,      \* since request_DHCP_lease began
          lease_runs,   \* runs so far
          flight,       \* datagrams in the network
          granted       \* servers that have given their address to the client

dhcpVars == <<dhcp_state, xid, initial_xid, local_ip, server_ip, waited,
              elapsed, lease_runs, flight, granted>>

Asking == [type : {"DISCOVER"}, xid : 1..XidMax]
            \cup [type : {"REQUEST"}, xid : 1..XidMax, ip : Address, server : Address]
Replies == [type : {"OFFER", "ACK", "NAK"}, xid : 1..XidMax, from : DhcpServers]

DhcpTypeOK ==
  /\ dhcp_state \in {"STOPPED", "START", "DISCOVER", "REQUEST", "LEASED"}
  /\ xid \in 0..XidMax /\ initial_xid \in 0..XidMax
  /\ local_ip \in Address /\ server_ip \in Address
  /\ waited \in 0..(Response + 1)
  /\ elapsed \in Nat
  /\ lease_runs \in 0..LeaseRuns
  /\ flight \subseteq (Asking \cup Replies)
  /\ granted \subseteq DhcpServers

DhcpInit ==
  /\ dhcp_state = "STOPPED" /\ xid = 0 /\ initial_xid = 0
  /\ local_ip = "none" /\ server_ip = "none"
  /\ waited = 0 /\ elapsed = 0 /\ lease_runs = 0
  /\ flight = {} /\ granted = {}
-----------------------------------------------------------------------------
Over == dhcp_state \in {"STOPPED", "LEASED"}

(* What is sent gets lost, or into the network.                            *)
Sent(message) ==
  \/ UNCHANGED flight
  \/ /\ flight' = flight \cup {message}
     /\ Cardinality(flight') <= FlightMax

(* Mutant: the time is only looked at after a timeout.                     *)
Mutant_LoopTo(next) ==
  dhcp_state' = IF waited > Response THEN "STOPPED" ELSE next

(* The end of a turn of the loop in request_DHCP_lease: it gives up when   *)
(* the time is over, whatever the state.                                   *)
LoopTo(next) == dhcp_state' = IF elapsed > Timeout THEN "STOPPED" ELSE next

(* beginWithDHCP: lease and server are forgotten.                          *)
LeaseBegin ==
  /\ Over /\ lease_runs < LeaseRuns
  /\ lease_runs' = lease_runs + 1
  /\ initial_xid' \in FirstXids
  /\ xid' = initial_xid'
  /\ local_ip' = "none" /\ server_ip' = "none"
  /\ dhcp_state' = "START"
  /\ waited' = 0 /\ elapsed' = 0
  /\ UNCHANGED <<flight, granted>>

SendDiscover ==
  /\ dhcp_state = "START" /\ xid < XidMax
  /\ xid' = xid + 1
  /\ Sent([type |-> "DISCOVER", xid |-> xid'])
  /\ LoopTo("DISCOVER")
  /\ waited' = 0
  /\ UNCHANGED <<initial_xid, local_ip, server_ip, elapsed, lease_runs, granted>>

(* parseDHCPResponse: the next datagram, which may come with the timeout.  *)
Listening == dhcp_state \in {"DISCOVER", "REQUEST"}

(* The address is taken from every reply of this client's transactions;    *)
(* a refusal has none.  The server is only taken from the first reply, or  *)
(* from the same server again.                                             *)
Parsed(reply) ==
  /\ reply \in flight \cap Replies
  /\ reply.xid >= initial_xid /\ reply.xid <= xid
  /\ local_ip' = IF reply.type = "NAK" THEN "none" ELSE reply.from
  /\ server_ip' = IF server_ip = "none" THEN reply.from ELSE server_ip
  /\ waited' = 0

TakeOffer(reply) ==
  /\ Listening /\ dhcp_state = "DISCOVER" /\ reply.type = "OFFER"
  /\ Parsed(reply)
  /\ xid' = reply.xid
  /\ Sent([type |-> "REQUEST", xid |-> xid', ip |-> local_ip', server |-> server_ip'])
  /\ LoopTo("REQUEST")
  /\ UNCHANGED <<initial_xid, elapsed, lease_runs, granted>>

(* Mutant: an offer will do.                                               *)
Mutant_TakeAck(reply) ==
  /\ Listening /\ dhcp_state = "REQUEST" /\ reply.type \in {"ACK", "OFFER"}
  /\ Parsed(reply)
  /\ dhcp_state' = "LEASED"
  /\ UNCHANGED <<xid, initial_xid, elapsed, lease_runs, flight, granted>>

TakeAck(reply) ==
  /\ Listening /\ dhcp_state = "REQUEST" /\ reply.type = "ACK"
  /\ Parsed(reply)
  /\ dhcp_state' = "LEASED"
  /\ UNCHANGED <<xid, initial_xid, elapsed, lease_runs, flight, granted>>

TakeNak(reply) ==
  /\ Listening /\ dhcp_state = "REQUEST" /\ reply.type = "NAK"
  /\ Parsed(reply)
  /\ LoopTo("START")
  /\ UNCHANGED <<xid, initial_xid, elapsed, lease_runs, flight, granted>>

(* Any other reply of these transactions is parsed all the same.           *)
TakeOther(reply) ==
  /\ Listening
  /\ \/ dhcp_state = "DISCOVER" /\ reply.type /= "OFFER"
     \/ dhcp_state = "REQUEST" /\ reply.type = "OFFER"
  /\ Parsed(reply)
  /\ LoopTo(dhcp_state)
  /\ UNCHANGED <<xid, initial_xid, elapsed, lease_runs, flight, granted>>

(* A datagram for others, or of other transactions.                        *)
TakeForeign ==
  /\ Listening
  /\ LoopTo(dhcp_state)
  /\ waited' = 0
  /\ UNCHANGED <<xid, initial_xid, local_ip, server_ip, elapsed, lease_runs,
                 flight, granted>>

(* Nothing came for longer than the response timeout.                      *)
ResponseTimeout ==
  /\ Listening /\ waited > Response
  /\ LoopTo("START")
  /\ UNCHANGED <<xid, initial_xid, local_ip, server_ip, waited, elapsed,
                 lease_runs, flight, granted>>

DhcpTick ==
  /\ Listening /\ waited <= Response
  /\ waited' = waited + 1
  /\ elapsed' = elapsed + 1
  /\ UNCHANGED <<dhcp_state, xid, initial_xid, local_ip, server_ip, lease_runs,
                 flight, granted>>
-----------------------------------------------------------------------------
(* A server offers its address to whoever asks; it gives it to the client  *)
(* that requests it from this server, and refuses any other address, or a  *)
(* request it knows nothing of.                                            *)
Answers(server, message) ==
  IF message.type = "DISCOVER" THEN {"OFFER"}
  ELSE IF message.type /= "REQUEST" \/ message.server /= server THEN {}
  ELSE IF message.ip = server THEN {"ACK", "NAK"} ELSE {"NAK"}

ServerAnswers(server) ==
  \E message \in flight \cap Asking :
    \E type \in Answers(server, message) :
      /\ flight' = flight \cup {[type |-> type, xid |-> message.xid, from |-> server]}
      /\ Cardinality(flight') <= FlightMax
      /\ granted' = IF type = "ACK" THEN granted \cup {server} ELSE granted
      /\ UNCHANGED <<dhcp_state, xid, initial_xid, local_ip, server_ip, waited,
                     elapsed, lease_runs>>

DatagramLost ==
  /\ \E message \in flight : flight' = flight \ {message}
  /\ UNCHANGED <<dhcp_state, xid, initial_xid, local_ip, server_ip, waited,
                 elapsed, lease_runs, granted>>

DhcpNext ==
  \/ LeaseBegin \/ SendDiscover \/ TakeForeign \/ ResponseTimeout \/ DhcpTick
  \/ \E reply \in flight \cap Replies :
       TakeOffer(reply) \/ TakeAck(reply) \/ TakeNak(reply) \/ TakeOther(reply)
  \/ \E server \in DhcpServers : ServerAnswers(server)
  \/ DatagramLost

DhcpSpec == DhcpInit /\ [][DhcpNext]_dhcpVars
-----------------------------------------------------------------------------
(* The address the client ends with is one that a server has given it, and *)
(* not just offered: whichever of several servers answered first, and      *)
(* whatever replies of an earlier run come late.                           *)
LeaseIsGranted == dhcp_state = "LEASED" => local_ip \in granted

(* However many replies of others come, and whatever refusals, the client  *)
(* gives up after the two timeouts: Ethernet.begin does not block the loop *)
(* for longer (one more for the unit of time).                             *)
DhcpBounded == elapsed <= Timeout + Response + 1
=============================================================================
