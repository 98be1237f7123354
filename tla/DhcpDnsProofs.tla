--------------------------- MODULE DhcpDnsProofs ---------------------------
(***************************************************************************)
(* What the two questions promise that the link asks before it works: the  *)
(* DHCP client, for any servers, timeouts and ids and any number of        *)
(* datagrams under way, and the lookup of a name, for any timeout, number  *)
(* of tries, addresses and ids, and any delay of the answers.              *)
(***************************************************************************)
EXTENDS Dhcp, Dns, TLAPS


(* Every acceptance under way, and the address of the lease, stands for an *)
(* address that was given; the time of the client is ahead of its timeout  *)
(* by no more than it has waited for the reply at hand.                    *)
AcceptanceStands == \A m \in flight : m.type = "ACK" => m.from \in granted

TimeAhead ==
  /\ dhcp_state = "START" => elapsed <= Timeout
  /\ Listening => elapsed <= Timeout + waited

DhcpInv ==
  /\ DhcpTypeOK
  /\ AcceptanceStands /\ LeaseIsGranted
  /\ TimeAhead /\ DhcpBounded

LEMMA DhcpInvInit == DhcpInit => DhcpInv
BY DhcpAssumption, SMT
   DEF DhcpInit, DhcpInv, DhcpTypeOK, Address, AcceptanceStands, LeaseIsGranted,
       TimeAhead, DhcpBounded, Listening

(* Whatever is sent is of the two kinds and no acceptance.                 *)
LEMMA SentKeeps ==
  ASSUME NEW message \in Asking, Sent(message),
         flight \subseteq (Asking \cup Replies), AcceptanceStands,
         granted' = granted
  PROVE  flight' \subseteq (Asking \cup Replies) /\ AcceptanceStands'
<1>1. message.type # "ACK"
  BY SMT DEF Asking
<1>2. flight' \subseteq flight \cup {message}
  BY DEF Sent
<1> QED
  BY <1>1, <1>2 DEF AcceptanceStands

(* What a reply leaves: an address or none, and a server.                  *)
LEMMA ParsedKeeps ==
  ASSUME DhcpTypeOK, NEW reply, Parsed(reply)
  PROVE  /\ reply \in flight /\ reply \in Replies
         /\ reply.xid \in 1..XidMax /\ reply.from \in DhcpServers
         /\ local_ip' \in Address /\ server_ip' \in Address
         /\ waited' = 0
         /\ reply.type # "NAK" => local_ip' = reply.from
<1>1. reply \in flight /\ reply \in Replies
  BY DEF Parsed
<1>2. reply.xid \in 1..XidMax /\ reply.from \in DhcpServers
  BY <1>1, SMT DEF Replies
<1> QED
  BY <1>1, <1>2, SMT DEF Parsed, DhcpTypeOK, Address

LEMMA StillInTime ==
  ASSUME NEW a \in Nat, NEW t \in Nat, NEW w \in Nat, a <= t
  PROVE  a <= t + w
OBVIOUS

(* A turn of the loop that goes on does so in time.                        *)
LEMMA LoopKeeps ==
  ASSUME DhcpInv, NEW next \in {"START", "DISCOVER", "REQUEST"}, LoopTo(next),
         elapsed' = elapsed, waited' \in 0..(Response + 1)
  PROVE  /\ dhcp_state' \in {"STOPPED", "START", "DISCOVER", "REQUEST", "LEASED"}
         /\ TimeAhead' /\ DhcpBounded' /\ LeaseIsGranted'
<1>1. dhcp_state' \in {"STOPPED", next}
  BY DEF LoopTo
<1>2. dhcp_state' = next => elapsed <= Timeout
  BY DhcpAssumption, SMT DEF LoopTo, DhcpInv, DhcpTypeOK
<1>3. dhcp_state' # "LEASED"
  BY <1>1
<1>4. elapsed' \in Nat /\ Timeout \in Nat /\ waited' \in Nat
  BY DhcpAssumption, SMT DEF DhcpInv, DhcpTypeOK
<1>5. dhcp_state' # "STOPPED" => elapsed' <= Timeout
  BY <1>1, <1>2
<1>6. TimeAhead'
  <2>1. elapsed' <= Timeout => elapsed' <= Timeout + waited'
    BY <1>4, StillInTime
  <2> QED
    BY <1>5, <2>1 DEF TimeAhead, Listening
<1>7. DhcpBounded'
  BY DEF DhcpInv, DhcpBounded
<1> QED
  BY <1>1, <1>3, <1>6, <1>7 DEF LeaseIsGranted
-----------------------------------------------------------------------------
LEMMA LeaseBeginKeeps == DhcpInv /\ LeaseBegin => DhcpInv'
<1> SUFFICES ASSUME DhcpInv, LeaseBegin PROVE DhcpInv'
  OBVIOUS
<1>1. DhcpTypeOK'
  BY DhcpAssumption, SMT DEF DhcpInv, DhcpTypeOK, LeaseBegin, Address
<1>2. AcceptanceStands'
  BY DEF DhcpInv, AcceptanceStands, LeaseBegin
<1>3. LeaseIsGranted' /\ TimeAhead' /\ DhcpBounded'
  BY DhcpAssumption, SMT
     DEF LeaseBegin, LeaseIsGranted, TimeAhead, DhcpBounded, Listening
<1> QED
  BY <1>1, <1>2, <1>3 DEF DhcpInv

LEMMA SendDiscoverKeeps == DhcpInv /\ SendDiscover => DhcpInv'
<1> SUFFICES ASSUME DhcpInv, SendDiscover PROVE DhcpInv'
  OBVIOUS
<1>1. xid' \in 1..XidMax
  BY DhcpAssumption, SMT DEF DhcpInv, DhcpTypeOK, SendDiscover
<1>2. [type |-> "DISCOVER", xid |-> xid'] \in Asking
  BY <1>1 DEF Asking
<1>3. flight' \subseteq (Asking \cup Replies) /\ AcceptanceStands'
  BY <1>2, SentKeeps DEF SendDiscover, DhcpInv, DhcpTypeOK
<1>4. waited' \in 0..(Response + 1)
  BY DhcpAssumption, SMT DEF SendDiscover
<1>5. /\ dhcp_state' \in {"STOPPED", "START", "DISCOVER", "REQUEST", "LEASED"}
      /\ TimeAhead' /\ DhcpBounded' /\ LeaseIsGranted'
  BY <1>4, LoopKeeps DEF SendDiscover
<1>6. DhcpTypeOK'
  BY <1>1, <1>3, <1>4, <1>5, SMT DEF DhcpInv, DhcpTypeOK, SendDiscover
<1> QED
  BY <1>3, <1>5, <1>6 DEF DhcpInv

LEMMA TakeOfferKeeps ==
  ASSUME DhcpInv, NEW reply, TakeOffer(reply) PROVE DhcpInv'
<1>1. /\ reply.xid \in 1..XidMax
      /\ local_ip' \in Address /\ server_ip' \in Address /\ waited' = 0
  BY ParsedKeeps DEF TakeOffer, DhcpInv
<1>2. xid' \in 1..XidMax
  BY <1>1 DEF TakeOffer
<1>3. [type |-> "REQUEST", xid |-> xid', ip |-> local_ip', server |-> server_ip']
        \in Asking
  BY <1>1, <1>2 DEF Asking
<1>4. flight' \subseteq (Asking \cup Replies) /\ AcceptanceStands'
  BY <1>3, SentKeeps DEF TakeOffer, DhcpInv, DhcpTypeOK
<1>5. waited' \in 0..(Response + 1)
  BY <1>1, DhcpAssumption, SMT
<1>6. /\ dhcp_state' \in {"STOPPED", "START", "DISCOVER", "REQUEST", "LEASED"}
      /\ TimeAhead' /\ DhcpBounded' /\ LeaseIsGranted'
  BY <1>5, LoopKeeps DEF TakeOffer
<1>7. DhcpTypeOK'
  BY <1>1, <1>2, <1>4, <1>5, <1>6, SMT DEF DhcpInv, DhcpTypeOK, TakeOffer
<1> QED
  BY <1>4, <1>6, <1>7 DEF DhcpInv

LEMMA TakeAckKeeps ==
  ASSUME DhcpInv, NEW reply, TakeAck(reply) PROVE DhcpInv'
<1>1. /\ reply \in flight /\ local_ip' = reply.from
      /\ local_ip' \in Address /\ server_ip' \in Address /\ waited' = 0
  BY ParsedKeeps DEF TakeAck, DhcpInv
<1>2. DhcpTypeOK'
  BY <1>1, DhcpAssumption, SMT DEF DhcpInv, DhcpTypeOK, TakeAck
<1>3. AcceptanceStands'
  BY DEF DhcpInv, AcceptanceStands, TakeAck
<1>4. LeaseIsGranted'
  BY <1>1 DEF TakeAck, DhcpInv, AcceptanceStands, LeaseIsGranted
<1>5. TimeAhead' /\ DhcpBounded'
  BY SMT DEF TakeAck, DhcpInv, TimeAhead, DhcpBounded, Listening
<1> QED
  BY <1>2, <1>3, <1>4, <1>5 DEF DhcpInv

(* A reply that changes no datagram and no lease.                          *)
LEMMA ReplyKeeps ==
  ASSUME DhcpInv, NEW reply, Parsed(reply),
         NEW next \in {"START", "DISCOVER", "REQUEST"}, LoopTo(next),
         UNCHANGED <<xid, initial_xid, elapsed, lease_runs, flight, granted>>
  PROVE  DhcpInv'
<1>1. local_ip' \in Address /\ server_ip' \in Address /\ waited' = 0
  BY ParsedKeeps DEF DhcpInv
<1>2. waited' \in 0..(Response + 1)
  BY <1>1, DhcpAssumption, SMT
<1>3. /\ dhcp_state' \in {"STOPPED", "START", "DISCOVER", "REQUEST", "LEASED"}
      /\ TimeAhead' /\ DhcpBounded' /\ LeaseIsGranted'
  BY <1>2, LoopKeeps
<1>4. DhcpTypeOK'
  BY <1>1, <1>2, <1>3, SMT DEF DhcpInv, DhcpTypeOK
<1>5. AcceptanceStands'
  BY DEF DhcpInv, AcceptanceStands
<1> QED
  BY <1>3, <1>4, <1>5 DEF DhcpInv

LEMMA TakeForeignKeeps == DhcpInv /\ TakeForeign => DhcpInv'
<1> SUFFICES ASSUME DhcpInv, TakeForeign PROVE DhcpInv'
  OBVIOUS
<1>1. dhcp_state \in {"START", "DISCOVER", "REQUEST"}
  BY DEF TakeForeign, Listening
<1>2. waited' \in 0..(Response + 1)
  BY DhcpAssumption, SMT DEF TakeForeign
<1>3. /\ dhcp_state' \in {"STOPPED", "START", "DISCOVER", "REQUEST", "LEASED"}
      /\ TimeAhead' /\ DhcpBounded' /\ LeaseIsGranted'
  BY <1>1, <1>2, LoopKeeps DEF TakeForeign
<1>4. DhcpTypeOK'
  BY <1>2, <1>3, SMT DEF DhcpInv, DhcpTypeOK, TakeForeign
<1>5. AcceptanceStands'
  BY DEF DhcpInv, AcceptanceStands, TakeForeign
<1> QED
  BY <1>3, <1>4, <1>5 DEF DhcpInv

LEMMA ResponseTimeoutKeeps == DhcpInv /\ ResponseTimeout => DhcpInv'
<1> SUFFICES ASSUME DhcpInv, ResponseTimeout PROVE DhcpInv'
  OBVIOUS
<1>1. waited' \in 0..(Response + 1)
  BY DEF ResponseTimeout, DhcpInv, DhcpTypeOK
<1>2. /\ dhcp_state' \in {"STOPPED", "START", "DISCOVER", "REQUEST", "LEASED"}
      /\ TimeAhead' /\ DhcpBounded' /\ LeaseIsGranted'
  BY <1>1, LoopKeeps DEF ResponseTimeout
<1>3. DhcpTypeOK'
  BY <1>1, <1>2, SMT DEF DhcpInv, DhcpTypeOK, ResponseTimeout
<1>4. AcceptanceStands'
  BY DEF DhcpInv, AcceptanceStands, ResponseTimeout
<1> QED
  BY <1>2, <1>3, <1>4 DEF DhcpInv

LEMMA DhcpTickKeeps == DhcpInv /\ DhcpTick => DhcpInv'
<1> SUFFICES ASSUME DhcpInv, DhcpTick PROVE DhcpInv'
  OBVIOUS
<1>1. DhcpTypeOK'
  BY DhcpAssumption, SMT DEF DhcpInv, DhcpTypeOK, DhcpTick
<1>2. AcceptanceStands' /\ LeaseIsGranted'
  BY DEF DhcpInv, AcceptanceStands, LeaseIsGranted, DhcpTick
<1>3. TimeAhead' /\ DhcpBounded'
  BY DhcpAssumption, SMT
     DEF DhcpInv, DhcpTypeOK, DhcpTick, TimeAhead, DhcpBounded, Listening
<1> QED
  BY <1>1, <1>2, <1>3 DEF DhcpInv

LEMMA ServerAnswersKeeps ==
  ASSUME DhcpInv, NEW server \in DhcpServers, ServerAnswers(server) PROVE DhcpInv'
<1>1. PICK message \in flight \cap Asking :
        \E type \in Answers(server, message) :
          /\ flight' = flight \cup {[type |-> type, xid |-> message.xid, from |-> server]}
          /\ granted' = IF type = "ACK" THEN granted \cup {server} ELSE granted
          /\ UNCHANGED <<dhcp_state, xid, initial_xid, local_ip, server_ip, waited,
                         elapsed, lease_runs>>
  BY DEF ServerAnswers
<1>2. PICK type \in Answers(server, message) :
        /\ flight' = flight \cup {[type |-> type, xid |-> message.xid, from |-> server]}
        /\ granted' = IF type = "ACK" THEN granted \cup {server} ELSE granted
        /\ UNCHANGED <<dhcp_state, xid, initial_xid, local_ip, server_ip, waited,
                       elapsed, lease_runs>>
  BY <1>1
<1> DEFINE answer == [type |-> type, xid |-> message.xid, from |-> server]
<1>3. type \in {"OFFER", "ACK", "NAK"}
  BY DEF Answers
<1>4. message.xid \in 1..XidMax
  BY SMT DEF Asking
<1>5. answer \in Replies
  BY <1>3, <1>4 DEF Replies
<1>6. /\ granted \subseteq granted' /\ granted' \subseteq DhcpServers
      /\ type = "ACK" => server \in granted'
  BY <1>2 DEF DhcpInv, DhcpTypeOK
<1>7. DhcpTypeOK'
  BY <1>2, <1>5, <1>6 DEF DhcpInv, DhcpTypeOK
<1>8. AcceptanceStands'
  BY <1>2, <1>6 DEF DhcpInv, AcceptanceStands
<1>9. LeaseIsGranted' /\ TimeAhead' /\ DhcpBounded'
  BY <1>2, <1>6 DEF DhcpInv, LeaseIsGranted, TimeAhead, DhcpBounded, Listening
<1> QED
  BY <1>7, <1>8, <1>9 DEF DhcpInv

LEMMA DatagramLostKeeps == DhcpInv /\ DatagramLost => DhcpInv'
BY DEF DhcpInv, DhcpTypeOK, DatagramLost, AcceptanceStands, LeaseIsGranted,
       TimeAhead, DhcpBounded, Listening

LEMMA DhcpInvStep == DhcpInv /\ [DhcpNext]_dhcpVars => DhcpInv'
<1> SUFFICES ASSUME DhcpInv, [DhcpNext]_dhcpVars PROVE DhcpInv'
  OBVIOUS
<1>1. CASE LeaseBegin BY <1>1, LeaseBeginKeeps
<1>2. CASE SendDiscover BY <1>2, SendDiscoverKeeps
<1>3. CASE TakeForeign BY <1>3, TakeForeignKeeps
<1>4. CASE ResponseTimeout BY <1>4, ResponseTimeoutKeeps
<1>5. CASE DhcpTick BY <1>5, DhcpTickKeeps
<1>6. ASSUME NEW reply, TakeOffer(reply) PROVE DhcpInv'
  BY <1>6, TakeOfferKeeps
<1>7. ASSUME NEW reply, TakeAck(reply) PROVE DhcpInv'
  BY <1>7, TakeAckKeeps
<1>8. ASSUME NEW reply, TakeNak(reply) PROVE DhcpInv'
  BY <1>8, ReplyKeeps DEF TakeNak
<1>9. ASSUME NEW reply, TakeOther(reply) PROVE DhcpInv'
  <2>1. dhcp_state \in {"START", "DISCOVER", "REQUEST"}
    BY <1>9 DEF TakeOther
  <2> QED
    BY <1>9, <2>1, ReplyKeeps DEF TakeOther
<1>10. ASSUME NEW server \in DhcpServers, ServerAnswers(server) PROVE DhcpInv'
  BY <1>10, ServerAnswersKeeps
<1>11. CASE DatagramLost BY <1>11, DatagramLostKeeps
<1>12. CASE UNCHANGED dhcpVars
  BY <1>12
     DEF dhcpVars, DhcpInv, DhcpTypeOK, AcceptanceStands, LeaseIsGranted,
         TimeAhead, DhcpBounded, Listening
<1> QED
  BY <1>1, <1>2, <1>3, <1>4, <1>5, <1>6, <1>7, <1>8, <1>9, <1>10, <1>11, <1>12
     DEF DhcpNext

LEMMA DhcpInvHolds == DhcpSpec => []DhcpInv
BY DhcpInvInit, DhcpInvStep, PTL DEF DhcpSpec
-----------------------------------------------------------------------------
(* The client of Dhcp.cpp keeps its states, ids, addresses and timers in   *)
(* range.                                                                  *)
THEOREM DhcpTypeCorrect == DhcpSpec => []DhcpTypeOK
<1>1. DhcpInv => DhcpTypeOK
  BY DEF DhcpInv
<1> QED
  BY <1>1, DhcpInvHolds, PTL

(* request_DHCP_lease only ever ends with an address that a server has     *)
(* given, whatever replies parseDHCPResponse takes from any run.           *)
THEOREM LeaseIsGrantedHolds == DhcpSpec => []LeaseIsGranted
<1>1. DhcpInv => LeaseIsGranted
  BY DEF DhcpInv
<1> QED
  BY <1>1, DhcpInvHolds, PTL

(* request_DHCP_lease ends within its two timeouts, whatever arrives.      *)
THEOREM DhcpBoundedHolds == DhcpSpec => []DhcpBounded
<1>1. DhcpInv => DhcpBounded
  BY DEF DhcpInv
<1> QED
  BY <1>1, DhcpInvHolds, PTL
-----------------------------------------------------------------------------
(* The lookup of a name.                                                   *)
(* The id of a query is known; an answer to the lookup at hand holds an    *)
(* address the name had during it.                                         *)
AnswersKnown ==
  /\ \A d \in under_way : d.id \in used_ids
  /\ looking => host \in hosts_since
  /\ looking => dns_id \in used_ids
  /\ \A d \in under_way :
       looking /\ d.kind = "address" /\ d.id = dns_id => d.ip \in hosts_since

(* Every wait before the one at hand has taken its whole time.             *)
TimeSpent == dns_elapsed = wait_retries * (DnsTimeout + 1) + dns_waited

DnsInv == DnsTypeOK /\ AnswersKnown /\ TimeSpent

LEMMA OneWaitMore ==
  ASSUME NEW n \in Nat, NEW t \in Nat PROVE (n + 1) * t = n * t + t
OBVIOUS

LEMMA WaitsGrow ==
  ASSUME NEW n \in Nat, NEW m \in Nat, NEW t \in Nat, n <= m
  PROVE  n * t <= m * t
OBVIOUS

LEMMA DnsInvInit == DnsInit => DnsInv
<1> SUFFICES ASSUME DnsInit PROVE DnsInv
  OBVIOUS
<1>1. DnsTypeOK
  <2>1. 0 \in 0..(DnsTries - 1) /\ 0 \in 0..(DnsTimeout + 1) /\ 0 \in Nat
    BY DnsAssumption, SMT
  <2> QED
    BY <2>1 DEF DnsInit, DnsTypeOK
<1>2. AnswersKnown
  BY DEF DnsInit, AnswersKnown
<1>3. TimeSpent
  BY DnsAssumption, SMT DEF DnsInit, TimeSpent
<1> QED
  BY <1>1, <1>2, <1>3 DEF DnsInv

LEMMA LookUpKeeps == DnsInv /\ LookUp => DnsInv'
<1> SUFFICES ASSUME DnsInv, LookUp PROVE DnsInv'
  OBVIOUS
<1>1. PICK id \in DnsIds \ used_ids, port \in DnsPorts :
        /\ dns_id' = id /\ dns_port' = port
        /\ used_ids' = used_ids \cup {id}
        /\ under_way' = under_way \cup {[kind |-> "query", id |-> id, port |-> port]}
  BY DEF LookUp
<1>2. [kind |-> "query", id |-> id, port |-> port] \in Queries
  BY DEF Queries
<1>3. DnsTypeOK'
  BY <1>1, <1>2, DnsAssumption, SMT DEF DnsInv, DnsTypeOK, LookUp
<1>4. AnswersKnown'
  BY <1>1 DEF DnsInv, AnswersKnown, LookUp
<1>5. TimeSpent'
  BY DnsAssumption, SMT DEF TimeSpent, LookUp
<1> QED
  BY <1>3, <1>4, <1>5 DEF DnsInv

(* What ends a lookup takes datagrams away and changes nothing else but    *)
(* the address.                                                            *)
LEMMA EndKeeps ==
  ASSUME DnsInv, looking' = FALSE, under_way' \subseteq under_way,
         resolved_ip' \in Hosts \cup {0},
         UNCHANGED <<dns_id, dns_port, used_ids, wait_retries, dns_waited,
                     dns_elapsed, host, hosts_since>>
  PROVE  DnsInv'
<1>1. DnsTypeOK'
  BY DEF DnsInv, DnsTypeOK
<1>2. AnswersKnown'
  BY DEF DnsInv, AnswersKnown
<1>3. TimeSpent'
  BY DEF DnsInv, TimeSpent
<1> QED
  BY <1>1, <1>2, <1>3 DEF DnsInv

LEMMA AddressKnown ==
  ASSUME DnsInv, NEW d, TakeAddress(d)
  PROVE  d.ip \in hosts_since
BY DEF DnsInv, AnswersKnown, TakeAddress, Heard

LEMMA TakeAddressKeeps == ASSUME DnsInv, NEW d, TakeAddress(d) PROVE DnsInv'
<1>1. d.ip \in Hosts
  BY AddressKnown DEF DnsInv, DnsTypeOK
<1> QED
  BY <1>1, EndKeeps DEF TakeAddress, Heard

LEMMA TakeInvalidKeeps == ASSUME DnsInv, NEW d, TakeInvalid(d) PROVE DnsInv'
<1>1. looking' = FALSE /\ under_way' \subseteq under_way
  BY DEF TakeInvalid, Heard
<1>2. resolved_ip' \in Hosts \cup {0}
  BY DEF TakeInvalid, DnsInv, DnsTypeOK
<1> QED
  BY <1>1, <1>2, EndKeeps DEF TakeInvalid

LEMMA GiveUpKeeps == DnsInv /\ GiveUp => DnsInv'
<1> SUFFICES ASSUME DnsInv, GiveUp PROVE DnsInv'
  OBVIOUS
<1>1. resolved_ip' \in Hosts \cup {0}
  BY DEF GiveUp, DnsInv, DnsTypeOK
<1> QED
  BY <1>1, EndKeeps DEF GiveUp

LEMMA TimedOutKeeps == DnsInv /\ TimedOut => DnsInv'
<1> SUFFICES ASSUME DnsInv, TimedOut PROVE DnsInv'
  OBVIOUS
<1>1. CASE LastTry
  <2>1. resolved_ip' \in Hosts \cup {0}
    BY DEF TimedOut, DnsInv, DnsTypeOK
  <2> QED
    BY <1>1, <2>1, EndKeeps DEF TimedOut
<1>2. CASE ~LastTry
  <2>1. wait_retries' = wait_retries + 1 /\ dns_waited' = 0 /\ looking' = looking
    BY <1>2 DEF TimedOut
  <2>2. wait_retries \in Nat /\ wait_retries' \in 0..(DnsTries - 1)
    BY <1>2, <2>1, DnsAssumption, SMT DEF LastTry, DnsInv, DnsTypeOK
  <2>3. dns_waited = DnsTimeout + 1
    BY DnsAssumption, SMT DEF TimedOut, DnsInv, DnsTypeOK
  <2>4. DnsTypeOK'
    BY <2>1, <2>2, DnsAssumption, SMT DEF DnsInv, DnsTypeOK, TimedOut
  <2>5. AnswersKnown'
    BY <2>1 DEF DnsInv, AnswersKnown, TimedOut
  <2>6. (wait_retries + 1) * (DnsTimeout + 1)
          = wait_retries * (DnsTimeout + 1) + (DnsTimeout + 1)
    <3>1. DnsTimeout + 1 \in Nat
      BY DnsAssumption
    <3> QED
      BY <2>2, <3>1, OneWaitMore
  <2>7. dns_elapsed' = wait_retries * (DnsTimeout + 1) + (DnsTimeout + 1)
    BY <2>3 DEF TimedOut, DnsInv, TimeSpent
  <2>8. (wait_retries + 1) * (DnsTimeout + 1) \in Nat
    BY <2>2, DnsAssumption
  <2>9. TimeSpent'
    BY <2>1, <2>6, <2>7, <2>8, SMT DEF TimeSpent
  <2> QED
    BY <2>4, <2>5, <2>9 DEF DnsInv
<1> QED
  BY <1>1, <1>2

LEMMA DnsTickKeeps == DnsInv /\ DnsTick => DnsInv'
<1> SUFFICES ASSUME DnsInv, DnsTick PROVE DnsInv'
  OBVIOUS
<1>1. DnsTypeOK'
  BY DnsAssumption, SMT DEF DnsInv, DnsTypeOK, DnsTick
<1>2. AnswersKnown'
  BY DEF DnsInv, AnswersKnown, DnsTick
<1>3. wait_retries * (DnsTimeout + 1) \in Nat /\ dns_waited \in Nat
  BY DnsAssumption, SMT DEF DnsInv, DnsTypeOK
<1>4. TimeSpent'
  BY <1>3, SMT DEF DnsInv, TimeSpent, DnsTick
<1> QED
  BY <1>1, <1>2, <1>4 DEF DnsInv

LEMMA NameServerKeeps == DnsInv /\ NameServerAnswers => DnsInv'
<1> SUFFICES ASSUME DnsInv, NameServerAnswers PROVE DnsInv'
  OBVIOUS
<1>1. PICK q \in under_way \cap Queries :
        \E a \in {[kind |-> "address", id |-> q.id, port |-> q.port, ip |-> host],
                  [kind |-> "failure", id |-> q.id, port |-> q.port]} :
          under_way' = (under_way \ {q}) \cup {a}
  BY DEF NameServerAnswers
<1>2. PICK a \in {[kind |-> "address", id |-> q.id, port |-> q.port, ip |-> host],
                  [kind |-> "failure", id |-> q.id, port |-> q.port]} :
        under_way' = (under_way \ {q}) \cup {a}
  BY <1>1
<1>3. q.id \in DnsIds /\ q.port \in DnsPorts
  BY DEF Queries
<1>4. a \in Addresses \cup Failures /\ a.id = q.id
  BY <1>3 DEF Addresses, Failures, DnsInv, DnsTypeOK
<1>5. a.kind = "address" => a.ip = host
  OBVIOUS
<1>6. DnsTypeOK'
  BY <1>2, <1>4 DEF DnsInv, DnsTypeOK, NameServerAnswers
<1>7. AnswersKnown'
  BY <1>2, <1>4, <1>5 DEF DnsInv, AnswersKnown, NameServerAnswers
<1>8. TimeSpent'
  BY DEF DnsInv, TimeSpent, NameServerAnswers
<1> QED
  BY <1>6, <1>7, <1>8 DEF DnsInv

LEMMA HostMovesKeeps == DnsInv /\ HostMoves => DnsInv'
BY DEF DnsInv, DnsTypeOK, AnswersKnown, TimeSpent, HostMoves

LEMMA DnsInvStep == DnsInv /\ [DnsNext]_dnsVars => DnsInv'
<1> SUFFICES ASSUME DnsInv, [DnsNext]_dnsVars PROVE DnsInv'
  OBVIOUS
<1>1. CASE LookUp BY <1>1, LookUpKeeps
<1>2. CASE GiveUp BY <1>2, GiveUpKeeps
<1>3. CASE TimedOut BY <1>3, TimedOutKeeps
<1>4. CASE DnsTick BY <1>4, DnsTickKeeps
<1>5. ASSUME NEW d, TakeAddress(d) PROVE DnsInv'
  BY <1>5, TakeAddressKeeps
<1>6. ASSUME NEW d, TakeInvalid(d) PROVE DnsInv'
  BY <1>6, TakeInvalidKeeps
<1>7. CASE NameServerAnswers BY <1>7, NameServerKeeps
<1>8. CASE HostMoves BY <1>8, HostMovesKeeps
<1>9. CASE UNCHANGED dnsVars
  BY <1>9 DEF dnsVars, DnsInv, DnsTypeOK, AnswersKnown, TimeSpent
<1> QED
  BY <1>1, <1>2, <1>3, <1>4, <1>5, <1>6, <1>7, <1>8, <1>9 DEF DnsNext

LEMMA DnsInvHolds == DnsSpec => []DnsInv
BY DnsInvInit, DnsInvStep, PTL DEF DnsSpec
-----------------------------------------------------------------------------
(* getHostByName keeps its ids, waits and addresses in range.              *)
THEOREM DnsTypeCorrect == DnsSpec => []DnsTypeOK
<1>1. DnsInv => DnsTypeOK
  BY DEF DnsInv
<1> QED
  BY <1>1, DnsInvHolds, PTL

(* getHostByName is over after its waits.                                  *)
THEOREM DnsBoundedHolds == DnsSpec => []DnsBounded
<1>1. DnsInv => DnsBounded
  <2> SUFFICES ASSUME DnsInv PROVE DnsBounded
    OBVIOUS
  <2>1. /\ wait_retries \in Nat /\ wait_retries + 1 \in Nat
        /\ wait_retries + 1 <= DnsTries /\ dns_waited \in Nat
        /\ dns_waited <= DnsTimeout + 1 /\ DnsTimeout + 1 \in Nat
        /\ DnsTries \in Nat
    BY DnsAssumption, SMT DEF DnsInv, DnsTypeOK
  <2>2. (wait_retries + 1) * (DnsTimeout + 1)
          = wait_retries * (DnsTimeout + 1) + (DnsTimeout + 1)
    BY <2>1, OneWaitMore
  <2>3. (wait_retries + 1) * (DnsTimeout + 1) <= DnsTries * (DnsTimeout + 1)
    BY <2>1, WaitsGrow
  <2>4. wait_retries * (DnsTimeout + 1) \in Nat /\ DnsTries * (DnsTimeout + 1) \in Nat
    BY <2>1
  <2> QED
    BY <2>1, <2>2, <2>3, <2>4, SMT DEF DnsInv, TimeSpent, DnsBounded
<1> QED
  BY <1>1, DnsInvHolds, PTL

(* internet_ip_remote only becomes an address the name had during the      *)
(* lookup that found it.                                                   *)
THEOREM AnswerIsFreshHolds == DnsSpec => AnswerIsFresh
<1>1. DnsInv /\ [DnsNext]_dnsVars
        => [resolved_ip' # resolved_ip => resolved_ip' \in hosts_since]_dnsVars
  <2> SUFFICES ASSUME DnsInv, DnsNext, resolved_ip' # resolved_ip
               PROVE  resolved_ip' \in hosts_since
    BY DEF dnsVars
  <2>1. PICK d \in under_way : TakeAddress(d)
    BY DEF DnsNext, LookUp, GiveUp, TimedOut, DnsTick, TakeInvalid,
           NameServerAnswers, HostMoves
  <2>2. d.ip \in hosts_since
    BY <2>1, AddressKnown
  <2> QED
    BY <2>1, <2>2 DEF TakeAddress
<1> QED
  BY <1>1, DnsInvHolds, PTL DEF DnsSpec, AnswerIsFresh
=============================================================================
