--------------------------- MODULE DatagramQueue ---------------------------
(***************************************************************************)
(* What EthernetUDP promises its users: each has a queue of datagrams that *)
(* came while its socket was open; parsePacket goes on to the next one,    *)
(* and reading returns the bytes of that datagram, in order, and of no     *)
(* other.  A byte is named by its datagram and its distance from the end.  *)
(***************************************************************************)
EXTENDS Integers, Sequences

CONSTANTS Users,    \* the objects of class EthernetUDP
          Sizes,    \* of payloads; a datagram is told by its size
          ReadMax   \* the longest buffer read into

VARIABLES listening, \* the users whose socket is open
          waiting,   \* the queue of each user
          current,   \* the datagram being read, and the bytes left of it
          bytes      \* what the last call of read returned

queueVars == <<listening, waiting, current, bytes>>

QueueInit ==
  /\ listening = {}
  /\ waiting = [u \in Users |-> <<>>]
  /\ current = [u \in Users |-> [of |-> 0, left |-> 0]]
  /\ bytes = <<>>

Deliver(u) ==
  /\ u \in listening
  /\ bytes' = <<>>
  /\ UNCHANGED <<listening, current>>
  /\ \E d \in Sizes : waiting' = [waiting EXCEPT ![u] = Append(@, d)]

(* parsePacket *)
NextDatagram(u) ==
  /\ u \in listening
  /\ UNCHANGED listening
  /\ IF waiting[u] = <<>>
     THEN /\ current' = [current EXCEPT ![u].left = 0]
          /\ UNCHANGED waiting
     ELSE LET d == Head(waiting[u])
          IN /\ current' = [current EXCEPT ![u] = [of |-> d, left |-> d]]
             /\ waiting' = [waiting EXCEPT ![u] = Tail(@)]
  /\ bytes' = <<>>

ReadBytes(u) ==
  LET c == current[u]
  IN \E n \in 1..ReadMax :
       LET got == IF n < c.left THEN n ELSE c.left
       IN /\ u \in listening
          /\ bytes' = [i \in 1..got |-> [of |-> c.of, left |-> c.left + 1 - i]]
          /\ current' = [current EXCEPT ![u].left = c.left - got]
          /\ UNCHANGED <<listening, waiting>>

(* begin and stop, and a reset of the chip or the board: who listens from  *)
(* now on begins with nothing, who no longer does loses what was waiting,  *)
(* and everyone else keeps it.                                             *)
Turnover ==
  /\ bytes' = <<>>
  /\ listening' \subseteq Users
  /\ DOMAIN waiting' = Users /\ DOMAIN current' = Users
  /\ \A u \in Users :
       IF u \in listening \cap listening'
       THEN waiting'[u] = waiting[u] /\ current'[u] = current[u]
       ELSE waiting'[u] = <<>> /\ current'[u].left = 0

QueueNext ==
  (\E u \in Users : ReadBytes(u) \/ NextDatagram(u) \/ Deliver(u)) \/ Turnover

QueueSpec == QueueInit /\ [][QueueNext]_queueVars
=============================================================================
