----------------------------- MODULE UnitsProofs -----------------------------
(***************************************************************************)
(* Proofs about the mailbox, and about the parts that run beside each      *)
(* other: each of them keeps to its own specification.                     *)
(***************************************************************************)
EXTENDS MCUnits, SensorFlowProofs, UdpProofs, DhcpDnsProofs

(* The mailbox.  With the lock held by one request at a time, what a       *)
(* request has read of a file is what the file holds when it writes the    *)
(* file or unlinks it.                                                     *)
(* A request past the lock holds it, so there is at most one.              *)
Exclusive == \A r \in Requests : at[r] \in Inside => lock = r

(* What a request is about to write back, or hands over, is what the file  *)
(* holds.                                                                  *)
UpToDate ==
  \A r \in Requests :
    /\ at[r] = "write" => /\ job[r].task = "send"
                          /\ bytes[r] = file[job[r].sender]
    /\ at[r] \in {"echo", "unlink"} => bytes[r] = file[Other(job[r].sender)]

MailboxInv == MailboxTypeOK /\ Exclusive /\ UpToDate
-----------------------------------------------------------------------------
LEMMA MailboxInitially == MailboxInit => MailboxInv
  BY MailboxAssumption DEF MailboxInit, MailboxInv, MailboxTypeOK, Exclusive,
     UpToDate, Boxes, Tasks, Waiting, Inside, Messages

(* Every step keeps the types.                                             *)
LEMMA MailboxTypeKept ==
  ASSUME MailboxInv, NEW r \in Requests,
         \/ Request(r) \/ Lock(r) \/ ReadOwn(r) \/ WriteOwn(r) \/ GetOnly(r)
         \/ CheckRead(r) \/ DeleteSent(r) \/ LookForOthers(r) \/ ReadOthers(r)
         \/ Echo(r) \/ UnlinkOthers(r) \/ Unlock(r) \/ Kill(r)
  PROVE  MailboxTypeOK'
PROOF
  <1> USE MailboxAssumption DEF MailboxInv, MailboxTypeOK, GoTo, Messages
  <1>1. \A b \in Boxes : Other(b) \in Boxes
    BY DEF Boxes, Other
  <1>2. CASE Request(r)
    BY <1>2, SMTT(30) DEF Request, Waiting, Inside, Tasks
  <1>3. CASE Lock(r)
    BY <1>3 DEF Lock, Waiting, Inside
  <1>4. CASE ReadOwn(r)
    BY <1>4 DEF ReadOwn, Waiting, Inside
  <1>5. CASE WriteOwn(r)
    BY <1>5, SMTT(30) DEF WriteOwn, Waiting, Inside, UpToDate
  <1>6. CASE GetOnly(r) \/ CheckRead(r) \/ LookForOthers(r) \/ Echo(r)
    BY <1>6 DEF GetOnly, CheckRead, LookForOthers, Echo, Waiting, Inside
  <1>7. CASE DeleteSent(r)
    BY <1>7 DEF DeleteSent, Waiting, Inside
  <1>8. CASE ReadOthers(r)
    BY <1>1, <1>8 DEF ReadOthers, Waiting, Inside
  <1>9. CASE UnlinkOthers(r)
    BY <1>1, <1>9, SMTT(30) DEF UnlinkOthers, Answered, Waiting, Inside
  <1>10. CASE Unlock(r)
    BY <1>10 DEF Unlock, Waiting, Inside
  <1>11. CASE Kill(r)
    BY <1>1, <1>11, SMTT(30) DEF Kill, Answered, Waiting, Inside
  <1> QED
    BY <1>2, <1>3, <1>4, <1>5, <1>6, <1>7, <1>8, <1>9, <1>10, <1>11

(* Only the holder of the lock is past it, before and after every step.    *)
LEMMA ExclusiveKept ==
  ASSUME MailboxInv, NEW r \in Requests,
         \/ Request(r) \/ Lock(r) \/ ReadOwn(r) \/ WriteOwn(r) \/ GetOnly(r)
         \/ CheckRead(r) \/ DeleteSent(r) \/ LookForOthers(r) \/ ReadOthers(r)
         \/ Echo(r) \/ UnlinkOthers(r) \/ Unlock(r) \/ Kill(r)
  PROVE  Exclusive'
PROOF
  <1> USE MailboxAssumption DEF MailboxInv, MailboxTypeOK, GoTo, Exclusive, Inside
  <1>1. CASE Request(r) \/ Lock(r)
    BY <1>1 DEF Request, Lock
  <1>2. CASE ReadOwn(r) \/ WriteOwn(r) \/ GetOnly(r) \/ CheckRead(r) \/ DeleteSent(r)
    BY <1>2 DEF ReadOwn, WriteOwn, GetOnly, CheckRead, DeleteSent
  <1>3. CASE LookForOthers(r) \/ ReadOthers(r) \/ Echo(r) \/ UnlinkOthers(r)
    BY <1>3 DEF LookForOthers, ReadOthers, Echo, UnlinkOthers
  <1>4. CASE Unlock(r) \/ Kill(r)
    BY <1>4, Zenon DEF Unlock, Kill
  <1> QED
    BY <1>1, <1>2, <1>3, <1>4

(* A step that changes a file is one of the holder of the lock, and no     *)
(* other request is where it counts on what it has read.                   *)
LEMMA UpToDateKept ==
  ASSUME MailboxInv, NEW r \in Requests,
         \/ Request(r) \/ Lock(r) \/ ReadOwn(r) \/ WriteOwn(r) \/ GetOnly(r)
         \/ CheckRead(r) \/ DeleteSent(r) \/ LookForOthers(r) \/ ReadOthers(r)
         \/ Echo(r) \/ UnlinkOthers(r) \/ Unlock(r) \/ Kill(r)
  PROVE  UpToDate'
PROOF
  <1> USE DEF MailboxInv, MailboxTypeOK, GoTo, UpToDate
  <1>1. CASE Request(r) \/ Lock(r) \/ GetOnly(r) \/ CheckRead(r) \/ LookForOthers(r)
    BY <1>1, SMTT(30) DEF Request, Lock, GetOnly, CheckRead, LookForOthers
  <1>2. CASE ReadOwn(r) \/ ReadOthers(r) \/ Echo(r)
    <2>1. CASE ReadOwn(r)
      BY <2>1 DEF ReadOwn
    <2>2. CASE ReadOthers(r)
      BY <2>2 DEF ReadOthers
    <2>3. CASE Echo(r)
      BY <2>3 DEF Echo
    <2> QED
      BY <1>2, <2>1, <2>2, <2>3
  <1>3. CASE Unlock(r) \/ Kill(r)
    BY <1>3, Zenon DEF Unlock, Kill
  <1>4. CASE WriteOwn(r) \/ DeleteSent(r) \/ UnlinkOthers(r)
    <2>1. at[r] \in Inside /\ at'[r] \notin {"write", "echo", "unlink"}
      BY <1>4 DEF WriteOwn, DeleteSent, UnlinkOthers, Inside
    <2>2. \A q \in Requests \ {r} : at[q] \notin Inside
      BY <2>1 DEF Exclusive
    <2>3. \A q \in Requests \ {r} : at'[q] = at[q]
      BY <1>4, SMTT(30) DEF WriteOwn, DeleteSent, UnlinkOthers
    <2> QED
      BY <2>1, <2>2, <2>3 DEF Inside
  <1> QED
    BY <1>1, <1>2, <1>3, <1>4

LEMMA MailboxStep == MailboxInv /\ [MailboxNext]_mailboxVars => MailboxInv'
PROOF
  <1> SUFFICES ASSUME MailboxInv, [MailboxNext]_mailboxVars
               PROVE  MailboxInv'
    OBVIOUS
  <1>1. CASE UNCHANGED mailboxVars
    BY <1>1 DEF MailboxInv, MailboxTypeOK, Exclusive, UpToDate, mailboxVars
  <1>2. CASE MailboxNext
    <2>1. PICK r \in Requests :
            \/ Request(r) \/ Lock(r) \/ ReadOwn(r) \/ WriteOwn(r) \/ GetOnly(r)
            \/ CheckRead(r) \/ DeleteSent(r) \/ LookForOthers(r) \/ ReadOthers(r)
            \/ Echo(r) \/ UnlinkOthers(r) \/ Unlock(r) \/ Kill(r)
      BY <1>2 DEF MailboxNext
    <2> QED
      BY <2>1, MailboxTypeKept, ExclusiveKept, UpToDateKept DEF MailboxInv
  <1> QED
    BY <1>1, <1>2

(* Type correctness of files, lock and requests.                           *)
THEOREM MailboxTypeCorrect == MailboxSpec => []MailboxTypeOK
PROOF
  <1>1. MailboxInv => MailboxTypeOK
    BY DEF MailboxInv
  <1> QED
    BY MailboxInitially, MailboxStep, <1>1, PTL DEF MailboxSpec
-----------------------------------------------------------------------------
(* The withdrawals under way, by request.                                  *)
Withdrawals == [r \in Requests |-> Withdrawing(r)]

LEMMA WithdrawalsAre ==
  ASSUME MailboxInv, MailboxInv', NEW r \in Requests,
         \A q \in Requests : q /= r => at'[q] = at[q] /\ job'[q] = job[q]
  PROVE  /\ Withdrawals' = [Withdrawals EXCEPT ![r] = Withdrawing(r)']
         /\ Withdrawals[r] = Withdrawing(r)
         /\ Withdrawing(r)' = Withdrawing(r) => Withdrawals' = Withdrawals
<1>1. \A q \in Requests : q /= r => Withdrawing(q)' = Withdrawing(q)
  BY DEF Withdrawing
<1>2. /\ Withdrawals = [q \in Requests |-> Withdrawing(q)]
      /\ Withdrawals' = [q \in Requests |-> Withdrawing(q)']
  BY DEF Withdrawals
<1> QED BY <1>1, <1>2

(* What a request does to itself leaves the others where they are.         *)
LEMMA OthersStay ==
  ASSUME MailboxInv, NEW r \in Requests,
         \/ Request(r) \/ Lock(r) \/ ReadOwn(r) \/ WriteOwn(r) \/ GetOnly(r)
         \/ CheckRead(r) \/ DeleteSent(r) \/ LookForOthers(r) \/ ReadOthers(r)
         \/ Echo(r) \/ UnlinkOthers(r) \/ Unlock(r) \/ Kill(r)
  PROVE  \A q \in Requests : q /= r => at'[q] = at[q] /\ job'[q] = job[q]
PROOF
  <1> USE DEF MailboxInv, MailboxTypeOK, GoTo
  <1>1. CASE Request(r)
    BY <1>1, Zenon DEF Request
  <1>2. CASE Lock(r) \/ ReadOwn(r) \/ WriteOwn(r) \/ GetOnly(r) \/ CheckRead(r)
    BY <1>2 DEF Lock, ReadOwn, WriteOwn, GetOnly, CheckRead
  <1>3. CASE DeleteSent(r) \/ LookForOthers(r) \/ ReadOthers(r) \/ Echo(r)
    BY <1>3 DEF DeleteSent, LookForOthers, ReadOthers, Echo
  <1>4. CASE UnlinkOthers(r) \/ Unlock(r) \/ Kill(r)
    BY <1>4, Zenon DEF UnlinkOthers, Unlock, Kill
  <1> QED
    BY <1>1, <1>2, <1>3, <1>4

(* Every step of a request is one of the box, or none.                     *)
LEMMA StepOfRequest ==
  ASSUME MailboxInv, MailboxInv', NEW r \in Requests,
         \/ Request(r) \/ Lock(r) \/ ReadOwn(r) \/ WriteOwn(r) \/ GetOnly(r)
         \/ CheckRead(r) \/ DeleteSent(r) \/ LookForOthers(r) \/ ReadOthers(r)
         \/ Echo(r) \/ UnlinkOthers(r) \/ Unlock(r) \/ Kill(r)
  PROVE  Box!BoxNext \/ UNCHANGED <<file, handed, Withdrawals, kills>>
PROOF
  <1> DEFINE b == job[r].sender
             other == Other(b)
  <1>1. /\ Withdrawals' = [Withdrawals EXCEPT ![r] = Withdrawing(r)']
        /\ Withdrawals[r] = Withdrawing(r)
        /\ Withdrawing(r)' = Withdrawing(r) => Withdrawals' = Withdrawals
    BY OthersStay, WithdrawalsAre
  <1>2. b \in Boxes /\ other \in Boxes
    BY DEF MailboxInv, MailboxTypeOK, Other, Boxes
  <1>3. at \in [Requests -> Waiting \cup Inside]
    BY DEF MailboxInv, MailboxTypeOK
  <1>4. CASE Request(r)
    <2>1. /\ UNCHANGED <<file, handed, kills>> /\ at[r] = "done"
          /\ job'[r].sender \in Boxes
      BY <1>4 DEF Request, MailboxInv, MailboxTypeOK
    <2>2. Withdrawing(r) = {}
      BY <2>1 DEF Withdrawing
    <2>3. Withdrawing(r)' = {} \/ Withdrawing(r)' = {job'[r].sender}
      BY DEF Withdrawing
    <2>4. CASE Withdrawing(r)' = {}
      BY <1>1, <2>1, <2>2, <2>4
    <2>5. CASE Withdrawing(r)' = {job'[r].sender}
      <3>1. Box!Ask(r, job'[r].sender)
        BY <1>1, <2>1, <2>5 DEF Box!Ask, Withdrawals
      <3> QED
        BY <2>1, <3>1 DEF Box!BoxNext
    <2> QED
      BY <2>3, <2>4, <2>5
  <1>5. CASE \/ Lock(r) \/ ReadOwn(r) \/ GetOnly(r) \/ CheckRead(r)
             \/ LookForOthers(r) \/ ReadOthers(r) \/ Echo(r) \/ Unlock(r)
    <2>1. UNCHANGED <<file, handed, kills>>
      BY <1>5 DEF Lock, ReadOwn, GetOnly, CheckRead, LookForOthers, ReadOthers,
         Echo, Unlock
    <2>2. Withdrawing(r)' = Withdrawing(r)
      BY <1>3, <1>5 DEF Lock, ReadOwn, GetOnly, CheckRead, LookForOthers, ReadOthers,
         Echo, Unlock, GoTo, Withdrawing
    <2> QED
      BY <1>1, <2>1, <2>2
  <1>6. CASE WriteOwn(r)
    <2>1. Withdrawing(r)' = Withdrawing(r)
      BY <1>3, <1>6 DEF WriteOwn, GoTo, Withdrawing
    <2>2. job[r].message \in Messages /\ bytes[r] = file[b]
      BY <1>6 DEF WriteOwn, MailboxInv, MailboxTypeOK, UpToDate
    <2>3. /\ file' = [file EXCEPT ![b] = Append(file[b], job[r].message)]
          /\ UNCHANGED <<handed, kills>>
      BY <1>6, <2>2 DEF WriteOwn
    <2>4. Withdrawals' = Withdrawals
      BY <1>1, <2>1
    <2>5. Box!Post(b)
      BY <2>2, <2>3, <2>4 DEF Box!Post, Withdrawals
    <2> QED
      BY <1>2, <2>5 DEF Box!BoxNext
  <1>7. CASE DeleteSent(r)
    <2>1. b \in Withdrawing(r) /\ Withdrawing(r)' = {}
      BY <1>3, <1>7 DEF DeleteSent, GoTo, Withdrawing
    <2>2. /\ file' = [file EXCEPT ![b] = <<>>]
          /\ UNCHANGED <<handed, kills>>
      BY <1>7 DEF DeleteSent
    <2>3. Box!Withdraw(r, b)
      BY <1>1, <2>1, <2>2 DEF Box!Withdraw, Withdrawals
    <2> QED
      BY <1>2, <2>3 DEF Box!BoxNext
  <1>8. CASE UnlinkOthers(r)
    <2>1. Withdrawing(r)' = Withdrawing(r)
      BY <1>3, <1>8 DEF UnlinkOthers, GoTo, Withdrawing
    <2>2. bytes[r] = file[other]
      BY <1>8 DEF UnlinkOthers, MailboxInv, UpToDate
    <2>3. /\ file' = [file EXCEPT ![other] = <<>>] /\ UNCHANGED kills
          /\ handed' = [handed EXCEPT ![other] = @ \o file[other]]
      BY <1>8, <2>2, Zenon DEF UnlinkOthers, Answered
    <2>4. Withdrawals' = Withdrawals
      BY <1>1, <2>1
    <2>5. Box!Collect(other)
      BY <2>3, <2>4 DEF Box!Collect, Box!HandOver, Withdrawals
    <2> QED
      BY <1>2, <2>5 DEF Box!BoxNext
  <1>9. CASE Kill(r)
    <2>1. Withdrawing(r)' = {}
      BY <1>3, <1>9 DEF Kill, GoTo, Withdrawing
    <2>2. kills' = kills + 1 /\ UNCHANGED file
      BY <1>9 DEF Kill
    <2>3. handed' = handed \/ handed' = [handed EXCEPT ![other] = @ \o file[other]]
      <3>1. at[r] = "unlink" => bytes[r] = file[other]
        BY DEF MailboxInv, UpToDate
      <3> QED
        BY <1>9, <3>1, Zenon DEF Kill, Answered
    <2>4. Box!Die(r)
      BY <1>1, <1>2, <2>1, <2>2, <2>3 DEF Box!Die, Box!HandOver, Withdrawals
    <2> QED
      BY <2>4 DEF Box!BoxNext
  <1> QED
    BY <1>4, <1>5, <1>6, <1>7, <1>8, <1>9

LEMMA StepOfBox ==
  MailboxInv /\ MailboxInv' /\ [MailboxNext]_mailboxVars => [Box!BoxNext]_(Box!boxVars)
PROOF
  <1> SUFFICES ASSUME MailboxInv, MailboxInv', [MailboxNext]_mailboxVars
               PROVE  Box!BoxNext \/ UNCHANGED <<file, handed, Withdrawals, kills>>
    BY DEF Box!boxVars, Withdrawals
  <1>1. CASE UNCHANGED mailboxVars
    BY <1>1 DEF mailboxVars, Withdrawals, Withdrawing
  <1>2. CASE MailboxNext
    BY <1>2, StepOfRequest DEF MailboxNext
  <1> QED
    BY <1>1, <1>2

(* For any number of requests at once, messages and killed requests, the   *)
(* mailbox keeps and hands over the messages of each side as a box does:   *)
(* whole, in order, again only after a request was killed, and none is     *)
(* lost but to a DELETE, which takes what is there once.                   *)
THEOREM HandsOverHolds == MailboxSpec => HandsOver
PROOF
  <1>1. MailboxInit => Box!BoxInit
    BY DEF MailboxInit, Box!BoxInit, Withdrawing
  <1> QED
    BY MailboxInitially, MailboxStep, StepOfBox, <1>1, PTL
    DEF MailboxSpec, HandsOver, Box!BoxSpec
-----------------------------------------------------------------------------
(* The digits typed: an input, with the bound of the model.                *)
LEMMA NumberTypeCorrect == NumberSpec => []NumberTypeOK
<1>1. NumberInit => NumberTypeOK
  BY ConsoleNumberAssumption DEF NumberInit, NumberTypeOK
<1>2. NumberTypeOK /\ [TypeDigit]_typed => NumberTypeOK'
  <2>1. ASSUME NumberTypeOK, TypeDigit PROVE NumberTypeOK'
    <3>1. PICK d \in Digits : typed' = Append(typed, d)
      BY <2>1 DEF TypeDigit
    <3>2. typed' \in Seq(Digits) /\ Len(typed') = Len(typed) + 1
      BY <2>1, <3>1 DEF NumberTypeOK
    <3>3. Len(typed) \in Nat /\ DigitMax \in Nat /\ Len(typed) < DigitMax
      BY <2>1, ConsoleNumberAssumption DEF NumberTypeOK, TypeDigit
    <3> QED BY <3>2, <3>3 DEF NumberTypeOK
  <2> QED BY <2>1 DEF NumberTypeOK
<1> QED BY <1>1, <1>2, PTL DEF NumberSpec

(* Type correctness of the relay board.                                    *)
THEOREM DeviceTypeCorrect == DeviceSpec => []DeviceTypeOK
<1> USE DeviceAssumption
<1>1. DeviceInit => DeviceTypeOK
  BY DEF DeviceInit, DeviceTypeOK
<1>2. 0 \in Age /\ \A age \in Age : Older(age) \in Age
  BY DEF Older, Age
<1>3. ASSUME DeviceTypeOK, latch' = Pulsed \/ latch' = latch PROVE latch' \in BOOLEAN
  <2>1. (Click \in device_active) \in BOOLEAN /\ latch \in BOOLEAN
    BY <1>3 DEF DeviceTypeOK
  <2>2. latch' = (Click \in device_active) \/ latch' = latch
    BY <1>3, Zenon DEF Pulsed
  <2> QED BY <2>1, <2>2, Zenon
<1>4. ASSUME DeviceTypeOK, DeviceUpdate PROVE DeviceTypeOK'
  <2>1. latch' \in BOOLEAN
    BY <1>3, <1>4, Zenon DEF DeviceUpdate
  <2>2. is_hold' \in BOOLEAN /\ relay' \subseteq relay
    BY <1>4 DEF DeviceUpdate
  <2> QED BY <1>4, <2>1, <2>2 DEF DeviceUpdate, DeviceTypeOK
<1>5. ASSUME DeviceTypeOK, DeviceTick PROVE DeviceTypeOK'
  BY <1>2, <1>5 DEF DeviceTick, DeviceTypeOK
<1>6. ASSUME DeviceTypeOK, NEW d \in ManualDevices, NEW on \in BOOLEAN,
             DeviceToggle(d, on)
      PROVE  DeviceTypeOK'
  <2>1. PICK s \in SUBSET Devices, t \in SUBSET Devices : Toggle(s, t)
    BY <1>6 DEF DeviceToggle
  <2>2. latch' \in BOOLEAN
    <3>1. latch' = Pulsed \/ latch' = latch
      BY <2>1, Zenon DEF Toggle
    <3> QED BY <1>3, <1>6, <3>1
  <2>3. relay' \subseteq relay \cup s \cup {Coil(Click \in s)}
    BY <2>1, Zenon DEF Toggle
  <2>4. relay' \subseteq Devices \cup {ClickOff}
    <3>1. Coil(Click \in s) \in Devices \cup {ClickOff}
      BY DEF Coil, Click, Devices
    <3> QED BY <1>6, <2>3, <3>1 DEF DeviceTypeOK
  <2>5. is_hold' \in BOOLEAN /\ device_active' \subseteq Devices
    BY <1>6, <2>1 DEF Toggle, DeviceTypeOK
  <2>6. time_switch_last' \in [Stamped -> Age] /\ time_switch_hold_last' \in Age
    BY <1>2, <1>6, <2>1 DEF Toggle, DeviceTypeOK
  <2> QED BY <2>2, <2>4, <2>5, <2>6 DEF DeviceTypeOK
<1>7. ASSUME DeviceTypeOK, DeviceReset PROVE DeviceTypeOK'
  <2>1. latch' \in BOOLEAN
    BY <1>3, <1>7, Zenon DEF DeviceReset
  <2> QED BY <1>7, <2>1 DEF DeviceReset, DeviceTypeOK
<1>8. DeviceTypeOK /\ [DeviceNext]_deviceVars => DeviceTypeOK'
  BY <1>4, <1>5, <1>6, <1>7 DEF DeviceNext, deviceVars, DeviceTypeOK
<1> QED BY <1>1, <1>8, PTL DEF DeviceSpec

unitsVars ==
  <<unit, deviceVars, flowSensorVars, socketVars, sendVars, dhcpVars, dnsVars,
    mailboxVars, typed>>

(* A step of one part is none of the others.                               *)
LEMMA UnitsSteps ==
  ASSUME [UnitsNext]_unitsVars
  PROVE  /\ [DeviceNext]_deviceVars
         /\ [SensorFlowNext]_flowSensorVars /\ [SocketNext]_socketVars
         /\ [SendNext]_sendVars /\ [DhcpNext]_dhcpVars /\ [DnsNext]_dnsVars
         /\ [MailboxNext]_mailboxVars /\ [TypeDigit]_typed
<1>1. CASE UNCHANGED unitsVars
  BY <1>1 DEF unitsVars
<1>2. CASE UnitsNext
  BY <1>2 DEF UnitsNext
<1> QED BY <1>1, <1>2

(* Side by side, every part is what it is alone: what is proved of it      *)
(* holds of the composition the runs check.                                *)
THEOREM UnitsImplement ==
  UnitsSpec => /\ DeviceSpec /\ SensorFlowSpec /\ SocketSpec /\ SendSpec /\ DhcpSpec /\ DnsSpec
               /\ MailboxSpec /\ NumberSpec
<1>1. UnitsInit => /\ DeviceInit /\ SensorFlowInit /\ SocketInit /\ SendInit /\ DhcpInit /\ DnsInit
                   /\ MailboxInit /\ NumberInit
  BY DEF UnitsInit
<1> QED BY <1>1, UnitsSteps, PTL
        DEF UnitsSpec, unitsVars, DeviceSpec, SensorFlowSpec, SocketSpec, SendSpec, DhcpSpec, DnsSpec,
            MailboxSpec, NumberSpec

(* Every part keeps to its types.                                          *)
THEOREM UnitsTypeCorrect ==
  ASSUME RoomForPackets
  PROVE  UnitsSpec => []UnitsTypeOK
<1>1. /\ DeviceTypeOK /\ SensorFlowTypeOK /\ SocketTypeOK /\ SendTypeOK /\ DhcpTypeOK /\ DnsTypeOK
      /\ MailboxTypeOK /\ NumberTypeOK
      => UnitsTypeOK
  BY DEF UnitsTypeOK
<1> QED BY <1>1, UnitsImplement, DeviceTypeCorrect, SensorFlowTypeCorrect, SocketTypeCorrect,
           SendTypeCorrect, DhcpTypeCorrect, DnsTypeCorrect, MailboxTypeCorrect, NumberTypeCorrect, PTL
=============================================================================
