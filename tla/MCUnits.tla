------------------------------ MODULE MCUnits ------------------------------
(***************************************************************************)
(* The parts that run beside each other, one to each behaviour: unit says  *)
(* which.  Their state spaces are added, not multiplied.                   *)
(***************************************************************************)
EXTENDS Device, SensorFlow, UdpSocket, UdpSend, Dhcp, Dns, Mailbox, ConsoleNumber

(* The click pump is toggled by hand with two plain devices.               *)
MCSwitchMinimum == [d \in Stamped |-> IF d = Click THEN 3 ELSE 1]
MCManualDevices == {Click, ValveWater, PumpAcid}

VARIABLE unit

UnitsInit ==
  /\ unit \in {"relays", "sensors", "sockets", "sending", "dhcp", "dns", "mailbox",
               "number"}
  /\ DeviceInit /\ SensorFlowInit /\ SocketInit /\ SendInit /\ DhcpInit /\ DnsInit
  /\ MailboxInit /\ NumberInit
  /\ unit /= "dns" => host = CHOOSE h \in Hosts : TRUE

UnitsNext ==
  /\ UNCHANGED unit
  /\ \/ /\ unit = "relays" /\ DeviceNext
        /\ UNCHANGED <<flowSensorVars, socketVars, sendVars, dhcpVars,
                       dnsVars, mailboxVars, typed>>
     \/ /\ unit = "sensors" /\ SensorFlowNext
        /\ UNCHANGED <<deviceVars, socketVars, sendVars, dhcpVars,
                       dnsVars, mailboxVars, typed>>
     \/ /\ unit = "sockets" /\ SocketNext
        /\ UNCHANGED <<deviceVars, flowSensorVars, sendVars, dhcpVars,
                       dnsVars, mailboxVars, typed>>
     \/ /\ unit = "sending" /\ SendNext
        /\ UNCHANGED <<deviceVars, flowSensorVars, socketVars, dhcpVars,
                       dnsVars, mailboxVars, typed>>
     \/ /\ unit = "dhcp" /\ DhcpNext
        /\ UNCHANGED <<deviceVars, flowSensorVars, socketVars, sendVars,
                       dnsVars, mailboxVars, typed>>
     \/ /\ unit = "dns" /\ DnsNext
        /\ UNCHANGED <<deviceVars, flowSensorVars, socketVars, sendVars,
                       dhcpVars, mailboxVars, typed>>
     \/ /\ unit = "mailbox" /\ MailboxNext
        /\ UNCHANGED <<deviceVars, flowSensorVars, socketVars, sendVars,
                       dhcpVars, dnsVars, typed>>
     \/ /\ unit = "number" /\ TypeDigit
        /\ UNCHANGED <<deviceVars, flowSensorVars, socketVars, sendVars,
                       dhcpVars, dnsVars, mailboxVars>>

UnitsSpec ==
  UnitsInit /\ [][UnitsNext]_<<unit, deviceVars, flowSensorVars, socketVars, sendVars,
                               dhcpVars, dnsVars, mailboxVars, typed>>

(* Every part keeps to its types: the ages and relays of the devices, the  *)
(* counters of the sensors, the pointers and sizes of the sockets, the     *)
(* timers and ids of DHCP and DNS, the files and requests of the mailbox.  *)
UnitsTypeOK ==
  /\ DeviceTypeOK /\ SensorFlowTypeOK /\ SocketTypeOK /\ SendTypeOK
  /\ DhcpTypeOK /\ DnsTypeOK
  /\ MailboxTypeOK /\ NumberTypeOK
=============================================================================
