------------------------------ MODULE UdpSend ------------------------------
(***************************************************************************)
(* How a datagram is sent (socket.cpp, EthernetUdp.cpp): beginPacket, any  *)
(* number of writes into the transmit ring of the socket, endPacket.  The  *)
(* chip reads its write pointer (Sn_TX_WR) back as it was at the last      *)
(* Sock_SEND, so each write adds the offset of what was written before it; *)
(* what is sent is what lies between that pointer and the one written      *)
(* last.                                                                   *)
(***************************************************************************)
EXTENDS Integers, SequencesExt

CONSTANTS SendBuffer,     \* SSIZE, 2048 bytes
          PointerSize,    \* the values of a pointer, 2^16
          FirstPointers,  \* where the ring of a socket may have got to
          SendMax         \* how many packets are sent (a bound)

ASSUME UdpSendAssumption ==
  /\ SendBuffer \in Nat /\ PointerSize \in Nat /\ SendBuffer < PointerSize
  /\ FirstPointers \subseteq 0..(PointerSize - 1)
  /\ SendMax \in Nat

Repeated(n, times) == [i \in 1..times |-> n]

(* The writes of each packet of this program, by their lengths.            *)
Packets ==
  [internet     |-> <<1, 1, 1, 64, 1>>,
   dhcpDiscover |-> <<28, 16>> \o Repeated(32, 6) \o <<30, 9>>,
   dhcpRequest  |-> <<28, 16>> \o Repeated(32, 6) \o <<30, 12, 9>>,
   dnsQuery     |-> Repeated(2, 6) \o <<1, 11, 1, 3, 1, 2, 2>>]

VARIABLES tx_wr,     \* Sn_TX_WR as it is read back
          tx_end,    \* Sn_TX_WR as it was written last
          offset,    \* _offset
          pieces,    \* what has been written: where, and how much
          packet_of, \* the packet being written, or none
          sends

sendVars == <<tx_wr, tx_end, offset, pieces, packet_of, sends>>

SendTypeOK ==
  /\ tx_wr \in 0..(PointerSize - 1) /\ tx_end \in 0..(PointerSize - 1)
  /\ offset \in 0..SendBuffer
  /\ pieces \in Seq([at : 0..(PointerSize - 1), len : 1..SendBuffer])
  /\ packet_of \in DOMAIN Packets \cup {"none"}
  /\ sends \in 0..SendMax

SendInit ==
  /\ tx_wr \in FirstPointers /\ tx_end = tx_wr
  /\ offset = 0 /\ pieces = <<>> /\ packet_of = "none" /\ sends = 0
-----------------------------------------------------------------------------
(* beginPacket and socketStartUDP, when there is an address to send to.    *)
BeginPacket ==
  /\ packet_of = "none" /\ sends < SendMax
  /\ packet_of' \in DOMAIN Packets
  /\ offset' = 0
  /\ pieces' = <<>>
  /\ UNCHANGED <<tx_wr, tx_end, sends>>

(* Mutant: the offset counts the calls, not the bytes.                     *)
Mutant_Advanced(len) == offset + 1
Advanced(len) == offset + len

(* write: socketBufferData and write_data.  The free size of the buffer    *)
(* does not shrink before a Sock_SEND; no packet here comes near it.       *)
WritePiece ==
  /\ packet_of /= "none"
  /\ Len(pieces) < Len(Packets[packet_of])
  /\ LET len == Packets[packet_of][Len(pieces) + 1]
         written == IF len > SendBuffer THEN SendBuffer ELSE len
         ptr == (tx_wr + offset) % PointerSize
     IN /\ pieces' = Append(pieces, [at |-> ptr, len |-> written])
        /\ tx_end' = (ptr + written) % PointerSize
        /\ offset' = Advanced(written)
  /\ UNCHANGED <<tx_wr, packet_of, sends>>

(* endPacket: Sock_SEND, then a wait for SEND_OK or, when nobody answers   *)
(* for the address, TIMEOUT, which may leave the chip's pointer as it was. *)
EndPacket ==
  /\ packet_of /= "none"
  /\ Len(pieces) = Len(Packets[packet_of])
  /\ tx_wr' \in {tx_end, tx_wr}
  /\ packet_of' = "none"
  /\ sends' = sends + 1
  /\ UNCHANGED <<tx_end, offset, pieces>>

SendNext == BeginPacket \/ WritePiece \/ EndPacket

SendSpec == SendInit /\ [][SendNext]_sendVars
-----------------------------------------------------------------------------
(* What the chip sends is what was written, each piece behind the one      *)
(* before, without a gap and without one overwriting another, also across  *)
(* the end of the ring and after a packet that could not be sent.          *)
SendsWhatWasWritten ==
  packet_of /= "none" /\ pieces /= <<>> =>
    /\ pieces[1].at = tx_wr
    /\ \A i \in 1..(Len(pieces) - 1) :
         pieces[i + 1].at = (pieces[i].at + pieces[i].len) % PointerSize
    /\ tx_end = (Last(pieces).at + Last(pieces).len) % PointerSize
=============================================================================
