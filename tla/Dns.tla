--------------------------------- MODULE Dns ---------------------------------
(***************************************************************************)
(* The lookup of the server's name (Dns.cpp): one query, and up to three   *)
(* waits for the answer; any other datagram ends the lookup.  Answers may  *)
(* come late, when another lookup listens on the same port; only the id of *)
(* the query tells them apart.  The address of the name may change.        *)
(***************************************************************************)
EXTENDS Integers

CONSTANTS DnsIds,      \* what millis() yields as the id of a query
          DnsPorts,    \* and as the local port, 1024 + (millis() & 0xF)
          DnsTimeout,  \* INTERNET_TIME_CONNECTION_MAX
          DnsTries,    \* waits of getHostByName, 3
          Hosts        \* addresses the name may have

ASSUME DnsAssumption ==
  /\ DnsTimeout \in Nat /\ DnsTries \in Nat \ {0}
  /\ 0 \notin Hosts

VARIABLES looking,       \* getHostByName waits
          dns_id,        \* iRequestId
          dns_port,
          used_ids,      \* ids of all lookups so far: those of lookups less
                         \* than 65 seconds apart are different
          wait_retries,
          dns_waited,    \* since ProcessResponse began
          dns_elapsed,   \* since getHostByName began
          resolved_ip,   \* aResult, internet_ip_remote; 0 before the first
          under_way,     \* queries and answers in the network
          host,          \* the address of the name
          hosts_since    \* those it had since this lookup began

dnsVars == <<looking, dns_id, dns_port, used_ids, wait_retries, dns_waited,
             dns_elapsed, resolved_ip, under_way, host, hosts_since>>

Queries == [kind : {"query"}, id : DnsIds, port : DnsPorts]
Failures == [kind : {"failure"}, id : DnsIds, port : DnsPorts]
Addresses == [kind : {"address"}, id : DnsIds, port : DnsPorts, ip : Hosts]

DnsTypeOK ==
  /\ looking \in BOOLEAN
  /\ dns_id \in DnsIds \cup {0} /\ dns_port \in DnsPorts \cup {0}
  /\ used_ids \subseteq DnsIds
  /\ wait_retries \in 0..(DnsTries - 1)
  /\ dns_waited \in 0..(DnsTimeout + 1)
  /\ dns_elapsed \in Nat
  /\ resolved_ip \in Hosts \cup {0}
  /\ under_way \subseteq (Queries \cup Failures \cup Addresses)
  /\ host \in Hosts /\ hosts_since \subseteq Hosts

DnsInit ==
  /\ looking = FALSE
  /\ dns_id = 0 /\ dns_port = 0 /\ used_ids = {}
  /\ wait_retries = 0 /\ dns_waited = 0 /\ dns_elapsed = 0
  /\ resolved_ip = 0
  /\ under_way = {}
  /\ host \in Hosts /\ hosts_since = {}
-----------------------------------------------------------------------------
(* getHostByName and BuildRequest; a query that cannot be sent ends the    *)
(* lookup, like any other failure.                                         *)
LookUp ==
  /\ ~looking
  /\ \E id \in DnsIds \ used_ids, port \in DnsPorts :
       /\ dns_id' = id /\ dns_port' = port
       /\ used_ids' = used_ids \cup {id}
       /\ under_way' = under_way \cup {[kind |-> "query", id |-> id, port |-> port]}
  /\ looking' = TRUE
  /\ wait_retries' = 0 /\ dns_waited' = 0 /\ dns_elapsed' = 0
  /\ hosts_since' = {host}
  /\ UNCHANGED <<resolved_ip, host>>

(* ProcessResponse takes a datagram for its port.                          *)
Heard(kind, d) ==
  /\ looking
  /\ d \in under_way /\ d.kind = kind /\ d.port = dns_port
  /\ under_way' = under_way \ {d}
  /\ looking' = FALSE

(* Mutant: the id is not compared.                                         *)
Mutant_TakeAddress(d) ==
  /\ Heard("address", d)
  /\ resolved_ip' = d.ip
  /\ UNCHANGED <<dns_id, dns_port, used_ids, wait_retries, dns_waited,
                 dns_elapsed, host, hosts_since>>

(* The first address of the answer; SUCCESS.                               *)
TakeAddress(d) ==
  /\ Heard("address", d) /\ d.id = dns_id
  /\ resolved_ip' = d.ip
  /\ UNCHANGED <<dns_id, dns_port, used_ids, wait_retries, dns_waited,
                 dns_elapsed, host, hosts_since>>

(* An answer to another query, or one without an address.                  *)
TakeInvalid(d) ==
  /\ \/ Heard("address", d) /\ d.id /= dns_id
     \/ Heard("failure", d)
  /\ UNCHANGED <<dns_id, dns_port, used_ids, wait_retries, dns_waited,
                 dns_elapsed, resolved_ip, host, hosts_since>>

(* A datagram of another host or port, or one too short: INVALID_SERVER,   *)
(* TRUNCATED; or the query could not be sent.                              *)
GiveUp ==
  /\ looking
  /\ looking' = FALSE
  /\ UNCHANGED <<dns_id, dns_port, used_ids, wait_retries, dns_waited,
                 dns_elapsed, resolved_ip, under_way, host, hosts_since>>

(* Mutant: one wait too many.                                              *)
Mutant_LastTry == wait_retries = DnsTries
LastTry == wait_retries + 1 = DnsTries

(* TIMED_OUT.  (It is returned as an unsigned 16-bit number; int has 16    *)
(* bits on this board, so that it is -1 again.)                            *)
TimedOut ==
  /\ looking /\ dns_waited > DnsTimeout
  /\ IF LastTry
     THEN looking' = FALSE /\ UNCHANGED <<wait_retries, dns_waited>>
     ELSE wait_retries' = wait_retries + 1 /\ dns_waited' = 0 /\ UNCHANGED looking
  /\ UNCHANGED <<dns_id, dns_port, used_ids, dns_elapsed, resolved_ip,
                 under_way, host, hosts_since>>

DnsTick ==
  /\ looking /\ dns_waited <= DnsTimeout
  /\ dns_waited' = dns_waited + 1
  /\ dns_elapsed' = dns_elapsed + 1
  /\ UNCHANGED <<looking, dns_id, dns_port, used_ids, wait_retries,
                 resolved_ip, under_way, host, hosts_since>>
-----------------------------------------------------------------------------
(* The DNS server answers with the address the name has, or without one.   *)
NameServerAnswers ==
  /\ \E q \in under_way \cap Queries :
       \E a \in {[kind |-> "address", id |-> q.id, port |-> q.port, ip |-> host],
                 [kind |-> "failure", id |-> q.id, port |-> q.port]} :
         under_way' = (under_way \ {q}) \cup {a}
  /\ UNCHANGED <<looking, dns_id, dns_port, used_ids, wait_retries, dns_waited,
                 dns_elapsed, resolved_ip, host, hosts_since>>

HostMoves ==
  /\ host' \in Hosts \ {host}
  /\ hosts_since' = hosts_since \cup {host'}
  /\ UNCHANGED <<looking, dns_id, dns_port, used_ids, wait_retries, dns_waited,
                 dns_elapsed, resolved_ip, under_way>>

DnsNext ==
  \/ LookUp \/ GiveUp \/ TimedOut \/ DnsTick
  \/ \E d \in under_way : TakeAddress(d) \/ TakeInvalid(d)
  \/ NameServerAnswers \/ HostMoves

DnsSpec == DnsInit /\ [][DnsNext]_dnsVars
-----------------------------------------------------------------------------
(* The address the controller sends to only ever becomes one that the name *)
(* had while it was looked up, however late the answers of earlier lookups *)
(* come and however lookups fail.                                          *)
AnswerIsFresh == [][resolved_ip' /= resolved_ip => resolved_ip' \in hosts_since]_dnsVars

(* A lookup is over after its waits, however many answers come that are    *)
(* not its own (one more per wait for the unit of time).                   *)
DnsBounded == dns_elapsed <= DnsTries * (DnsTimeout + 1)
=============================================================================
