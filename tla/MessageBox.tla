----------------------------- MODULE MessageBox -----------------------------
(***************************************************************************)
(* What the mailbox promises the controller and the web page: one box of   *)
(* messages in each direction, named after the sender.  The other side is  *)
(* handed all messages of the box at once, in the order they came, and the *)
(* box is emptied; only a request that is killed may leave it full, so     *)
(* that its messages are handed over once more.  A request to withdraw     *)
(* messages empties the box it is for, at most once.                       *)
(***************************************************************************)
EXTENDS Naturals, Sequences

CONSTANTS Boxes,       \* the senders
          Messages,
          Requests

VARIABLES box,         \* messages waiting, by sender
          handed,      \* messages handed over so far
          withdrawing, \* the box a request is to empty, if it is to withdraw
          killed       \* how many requests were killed

boxVars == <<box, handed, withdrawing, killed>>

BoxInit ==
  /\ box = [b \in Boxes |-> <<>>]
  /\ handed = [b \in Boxes |-> <<>>]
  /\ withdrawing = [r \in Requests |-> {}]
  /\ killed = 0

Post(b) ==
  /\ \E m \in Messages : box' = [box EXCEPT ![b] = Append(@, m)]
  /\ UNCHANGED <<handed, withdrawing, killed>>

HandOver(b) == handed' = [handed EXCEPT ![b] = @ \o box[b]]

Collect(b) ==
  /\ HandOver(b)
  /\ box' = [box EXCEPT ![b] = <<>>]
  /\ UNCHANGED <<withdrawing, killed>>

Ask(r, b) ==
  /\ withdrawing' = [withdrawing EXCEPT ![r] = {b}]
  /\ UNCHANGED <<box, handed, killed>>

Withdraw(r, b) ==
  /\ b \in withdrawing[r]
  /\ box' = [box EXCEPT ![b] = <<>>]
  /\ withdrawing' = [withdrawing EXCEPT ![r] = {}]
  /\ UNCHANGED <<handed, killed>>

Die(r) ==
  /\ killed' = killed + 1
  /\ withdrawing' = [withdrawing EXCEPT ![r] = {}]
  /\ UNCHANGED handed \/ \E b \in Boxes : HandOver(b)
  /\ UNCHANGED box

BoxNext ==
  \/ \E b \in Boxes : Post(b) \/ Collect(b) \/ \E r \in Requests : Ask(r, b) \/ Withdraw(r, b)
  \/ \E r \in Requests : Die(r)

BoxSpec == BoxInit /\ [][BoxNext]_boxVars
=============================================================================
