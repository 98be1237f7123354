------------------------------ MODULE Mailbox ------------------------------
(***************************************************************************)
(* The mailbox of the web page (web_client_server/prog.php): every request *)
(* of the page or of the controller is a process of its own, which waits   *)
(* for one lock, leaves its message in the file of its sender, and takes   *)
(* what the file of the other side holds with it.  Files are read, written *)
(* and unlinked as a whole; one that is empty does not exist.              *)
(*                                                                         *)
(* A request that takes too long is killed between two statements; what it *)
(* has echoed is still sent, and its lock is released.                     *)
(***************************************************************************)
EXTENDS Integers, Sequences

CONSTANTS Requests,    \* processes of the server
          MessageMax,  \* how many messages are sent (a bound)
          KillMax      \* how many requests are killed (a bound)

ASSUME MailboxAssumption ==
  /\ MessageMax \in Nat /\ KillMax \in Nat
  /\ "nobody" \notin Requests

Boxes == {"arduino", "pc"}
Other(b) == IF b = "pc" THEN "arduino" ELSE "pc"
Messages == 1..MessageMax

(* What a request is for: a message, then the other side's; only the other *)
(* side's (from the controller, a packet of two bytes; from the page,      *)
(* GET_BYTES); CHECK_IS_SENT_BYTES_READED; DELETE_SENT_BYTES.              *)
Tasks == {"send", "get", "check", "delete"}

VARIABLES file,     \* of each sender
          lock,     \* who holds it
          at,       \* the statement each request has reached
          job,      \* what each is for, and its sender
          bytes,    \* its $fileBytes
          messages, \* sent so far
          kills,
          handed    \* messages that have left in answers (not of the program)

mailboxVars == <<file, lock, at, job, bytes, messages, kills, handed>>

Waiting == {"done", "locking"}
Inside == {"begin", "write", "look", "read", "echo", "unlink", "unlock"}

MailboxTypeOK ==
  /\ file \in [Boxes -> Seq(Messages)]
  /\ lock \in Requests \cup {"nobody"}
  /\ at \in [Requests -> Waiting \cup Inside]
  /\ job \in [Requests -> [task : Tasks, sender : Boxes, message : 0..MessageMax]]
  /\ \A r \in Requests : job[r].task = "send" => job[r].message \in Messages
  /\ bytes \in [Requests -> Seq(Messages)]
  /\ messages \in 0..MessageMax
  /\ kills \in 0..KillMax
  /\ handed \in [Boxes -> Seq(Messages)]

MailboxInit ==
  /\ file = [b \in Boxes |-> <<>>]
  /\ lock = "nobody"
  /\ at = [r \in Requests |-> "done"]
  /\ job = [r \in Requests |-> [task |-> "get", sender |-> "pc", message |-> 0]]
  /\ bytes = [r \in Requests |-> <<>>]
  /\ messages = 0
  /\ kills = 0
  /\ handed = [b \in Boxes |-> <<>>]
-----------------------------------------------------------------------------
GoTo(r, place) == at' = [at EXCEPT ![r] = place]

Request(r) ==
  /\ at[r] = "done"
  /\ \E task \in Tasks, b \in Boxes :
       /\ task = "send" => messages < MessageMax
       /\ messages' = IF task = "send" THEN messages + 1 ELSE messages
       /\ job' = [job EXCEPT ![r] =
                    [task |-> task, sender |-> b,
                     message |-> IF task = "send" THEN messages + 1 ELSE 0]]
  /\ GoTo(r, "locking")
  /\ bytes' = [bytes EXCEPT ![r] = <<>>]
  /\ UNCHANGED <<file, lock, kills, handed>>

(* Mutant: the lock is shared.                                             *)
Mutant_Lock(r) ==
  /\ at[r] = "locking"
  /\ lock' = r
  /\ GoTo(r, "begin")
  /\ UNCHANGED <<file, job, bytes, messages, kills, handed>>

(* flock(LOCK_EX | LOCK_NB), tried until it succeeds.                      *)
Lock(r) ==
  /\ at[r] = "locking" /\ lock = "nobody"
  /\ lock' = r
  /\ GoTo(r, "begin")
  /\ UNCHANGED <<file, job, bytes, messages, kills, handed>>

(* The message goes behind those its sender has left before.               *)
ReadOwn(r) ==
  /\ at[r] = "begin" /\ job[r].task = "send"
  /\ bytes' = [bytes EXCEPT ![r] = file[job[r].sender]]
  /\ GoTo(r, "write")
  /\ UNCHANGED <<file, lock, job, messages, kills, handed>>

WriteOwn(r) ==
  /\ at[r] = "write"
  /\ file' = [file EXCEPT ![job[r].sender] = Append(bytes[r], job[r].message)]
  /\ GoTo(r, "look")
  /\ UNCHANGED <<lock, job, bytes, messages, kills, handed>>

GetOnly(r) ==
  /\ at[r] = "begin" /\ job[r].task = "get"
  /\ GoTo(r, "look")
  /\ UNCHANGED <<file, lock, job, bytes, messages, kills, handed>>

(* Only answers whether the sender's file exists.                          *)
CheckRead(r) ==
  /\ at[r] = "begin" /\ job[r].task = "check"
  /\ GoTo(r, "unlock")
  /\ UNCHANGED <<file, lock, job, bytes, messages, kills, handed>>

DeleteSent(r) ==
  /\ at[r] = "begin" /\ job[r].task = "delete"
  /\ file' = [file EXCEPT ![job[r].sender] = <<>>]
  /\ GoTo(r, "unlock")
  /\ UNCHANGED <<lock, job, bytes, messages, kills, handed>>

(* sendPcBytesToArduino, sendArduinoBytesToPc                              *)
LookForOthers(r) ==
  /\ at[r] = "look"
  /\ GoTo(r, IF file[Other(job[r].sender)] = <<>> THEN "unlock" ELSE "read")
  /\ UNCHANGED <<file, lock, job, bytes, messages, kills, handed>>

ReadOthers(r) ==
  /\ at[r] = "read"
  /\ bytes' = [bytes EXCEPT ![r] = file[Other(job[r].sender)]]
  /\ GoTo(r, "echo")
  /\ UNCHANGED <<file, lock, job, messages, kills, handed>>

Echo(r) ==
  /\ at[r] = "echo"
  /\ GoTo(r, "unlink")
  /\ UNCHANGED <<file, lock, job, bytes, messages, kills, handed>>

Answered(r) == [handed EXCEPT ![Other(job[r].sender)] = @ \o bytes[r]]

(* From here on the answer, which is sent in the end, is the only place    *)
(* of these messages.                                                      *)
UnlinkOthers(r) ==
  /\ at[r] = "unlink"
  /\ file' = [file EXCEPT ![Other(job[r].sender)] = <<>>]
  /\ handed' = Answered(r)
  /\ GoTo(r, "unlock")
  /\ UNCHANGED <<lock, job, bytes, messages, kills>>

Unlock(r) ==
  /\ at[r] = "unlock"
  /\ lock' = "nobody"
  /\ GoTo(r, "done")
  /\ UNCHANGED <<file, job, bytes, messages, kills, handed>>

(* set_time_limit, max_execution_time                                      *)
Kill(r) ==
  /\ at[r] /= "done" /\ kills < KillMax
  /\ kills' = kills + 1
  /\ lock' = IF lock = r THEN "nobody" ELSE lock
  /\ handed' = IF at[r] = "unlink" THEN Answered(r) ELSE handed
  /\ GoTo(r, "done")
  /\ UNCHANGED <<file, job, bytes, messages>>

MailboxNext ==
  \E r \in Requests :
    \/ Request(r) \/ Lock(r)
    \/ ReadOwn(r) \/ WriteOwn(r) \/ GetOnly(r) \/ CheckRead(r) \/ DeleteSent(r)
    \/ LookForOthers(r) \/ ReadOthers(r) \/ Echo(r) \/ UnlinkOthers(r)
    \/ Unlock(r) \/ Kill(r)

MailboxSpec == MailboxInit /\ [][MailboxNext]_mailboxVars
-----------------------------------------------------------------------------
(* The file a request is still to delete.                                  *)
Withdrawing(r) ==
  IF at[r] \in {"locking", "begin"} /\ job[r].task = "delete" THEN {job[r].sender} ELSE {}

Box == INSTANCE MessageBox WITH
  box <- file, withdrawing <- [r \in Requests |-> Withdrawing(r)], killed <- kills

(* However many requests come at once and whichever of them are killed,    *)
(* every message stays in its file until it is handed over or a DELETE is  *)
(* carried out, none is overtaken by another, and none is handed over      *)
(* twice unless a request was killed in between: prog.php implements one   *)
(* box of messages in each direction.                                      *)
HandsOver == Box!BoxSpec
=============================================================================
