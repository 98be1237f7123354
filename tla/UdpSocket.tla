----------------------------- MODULE UdpSocket -----------------------------
(***************************************************************************)
(* The sockets of the Ethernet chip and their driver (socket.cpp), the     *)
(* class EthernetUDP above them, and its three objects in this program:    *)
(* that of internet.cpp, that of the DHCP client and that of the DNS       *)
(* client.                                                                 *)
(*                                                                         *)
(* The chip keeps the datagrams of a socket in one ring of bytes, each     *)
(* behind a header with its sender and its size.  The driver reads ahead   *)
(* of the chip: it tells the chip (Sock_RECV) only after CommitAt bytes,   *)
(* or when it knows of no more, and asks the chip how much there is only   *)
(* when it knows of too little.  The three objects share the sockets; a    *)
(* reset of the chip closes them behind the driver's back.                 *)
(***************************************************************************)
EXTENDS Integers, Sequences, FiniteSetsExt

CONSTANTS SocketCount,   \* MAX_SOCK_NUM
          HeaderSize,    \* 8 bytes
          CommitAt,      \* 250 bytes
          BufferSize,    \* SSIZE
          AddressSize,   \* the values of a pointer, 2^16
          Sizes,         \* of payloads; a datagram is told by its size
          LoadMax,       \* most bytes in all sockets together (a bound)
          ReadMax        \* the longest buffer read into

Sockets == 0..(SocketCount - 1)
NoSocket == SocketCount
Users == {"udp", "dhcp", "dns"}

(* RX_inc has eight bits; the free part of the ring tells full from empty. *)
ASSUME UdpSocketAssumption ==
  /\ SocketCount \in Nat \ {0} /\ HeaderSize \in Nat \ {0}
  /\ CommitAt \in 1..256 /\ BufferSize \in Nat /\ BufferSize < AddressSize
  /\ AddressSize \in Nat
  /\ Sizes \subseteq 0..(BufferSize - HeaderSize)
  /\ ReadMax \in Nat \ {0} /\ LoadMax \in Nat

(* A byte of the ring: its datagram, and how many bytes, itself included,  *)
(* come to the end of the datagram.                                        *)
Bytes == [of : Sizes, left : 1..BufferSize]
Garbage == [of |-> 0, left |-> BufferSize + 1]

VARIABLES socket,     \* the chip's half: open, fifo from rd (Sn_RX_RD) on; the
                      \* driver's: RX_RSR, RX_RD, RX_inc
          sockindex,  \* the socket of each object
          remaining,  \* _remaining
          sender,     \* _remoteIP
          in_use,     \* who runs: nobody, DHCP, the link, DNS; or parsePacket
                      \* that never returns
          read_bytes  \* what the last read returned

socketVars == <<socket, sockindex, remaining, sender, in_use, read_bytes>>

SocketStates ==
  [open : BOOLEAN, rd : 0..(AddressSize - 1), fifo : Seq(Bytes),
   RX_RSR : 0..BufferSize, RX_RD : 0..(AddressSize - 1), RX_inc : 0..(CommitAt - 1)]

SocketTypeOK ==
  /\ socket \in [Sockets -> SocketStates]
  /\ \A s \in Sockets : Len(socket[s].fifo) <= BufferSize
  /\ sockindex \in [Users -> 0..SocketCount]
  /\ remaining \in [Users -> 0..BufferSize]
  /\ sender \in [Users -> Sizes \cup {0}]
  /\ in_use \in {"nobody", "dhcp", "udp", "dns", "hung"}
  /\ read_bytes \in Seq(Bytes) /\ Len(read_bytes) <= ReadMax

ClosedSocket ==
  [open |-> FALSE, rd |-> 0, fifo |-> <<>>, RX_RSR |-> 0, RX_RD |-> 0, RX_inc |-> 0]

SocketInit ==
  /\ socket = [s \in Sockets |-> ClosedSocket]
  /\ sockindex = [u \in Users |-> NoSocket]
  /\ remaining = [u \in Users |-> 0]
  /\ sender = [u \in Users |-> 0]
  /\ in_use = "nobody"
  /\ read_bytes = <<>>
-----------------------------------------------------------------------------
(* socketRecv: how many of len bytes it returns, which, and the socket     *)
(* after it.                                                               *)
Wrapped(n) == n % AddressSize
Refreshed(k) == Wrapped(Len(k.fifo) - k.RX_inc)
Known(k, len) == IF k.RX_RSR < len THEN Refreshed(k) ELSE k.RX_RSR
Count(k, len) == LET n == Known(k, len) IN IF n > len THEN len ELSE n

ByteAt(k, address) ==
  LET i == Wrapped(address - k.rd) + 1
  IN IF i <= Len(k.fifo) THEN k.fifo[i] ELSE Garbage

Received(k, len) == [i \in 1..Count(k, len) |-> ByteAt(k, k.RX_RD + i - 1)]

(* Mutant: RX_inc goes on growing after a Sock_RECV.                       *)
Mutant_AfterRecv(k, len) ==
  LET ret == Count(k, len)
      ptr == Wrapped(k.RX_RD + ret)
      rest == Known(k, len) - ret
      inc == k.RX_inc + ret
  IN IF ret = 0 THEN [k EXCEPT !.RX_RSR = rest]
     ELSE IF inc >= CommitAt \/ rest = 0
     THEN [k EXCEPT !.RX_RSR = rest, !.RX_RD = ptr, !.rd = ptr,
                    !.fifo = SubSeq(@, Wrapped(ptr - k.rd) + 1, Len(@))]
     ELSE [k EXCEPT !.RX_RSR = rest, !.RX_RD = ptr, !.RX_inc = inc]

AfterRecv(k, len) ==
  LET ret == Count(k, len)
      ptr == Wrapped(k.RX_RD + ret)
      rest == Known(k, len) - ret
      inc == k.RX_inc + ret
  IN IF ret = 0 THEN [k EXCEPT !.RX_RSR = rest]
     ELSE IF inc >= CommitAt \/ rest = 0
     THEN [k EXCEPT !.RX_RSR = rest, !.RX_RD = ptr, !.RX_inc = 0, !.rd = ptr,
                    !.fifo = SubSeq(@, Wrapped(ptr - k.rd) + 1, Len(@))]
     ELSE [k EXCEPT !.RX_RSR = rest, !.RX_RD = ptr, !.RX_inc = inc]

(* socketRecvAvailable, and the socket after it.                           *)
AfterAvailable(k) == IF k.RX_RSR = 0 THEN [k EXCEPT !.RX_RSR = Refreshed(k)] ELSE k

(* socketClose.  The driver's half is left to socketBegin to overwrite: no *)
(* object has this socket any more.                                        *)
Shut(sockets, s) ==
  IF s = NoSocket THEN sockets ELSE [sockets EXCEPT ![s] = ClosedSocket]

(* socketBegin: the first socket that is closed, if there is one.          *)
FreeSockets(sockets) == {s \in Sockets : ~sockets[s].open}
Begun(sockets) ==
  IF FreeSockets(sockets) = {} THEN NoSocket ELSE Min(FreeSockets(sockets))
(* Mutant: RX_RSR is left from the last use of the socket.                 *)
Mutant_Opened(sockets) ==
  LET s == Begun(sockets)
  IN IF s = NoSocket THEN sockets
     ELSE [sockets EXCEPT ![s].open = TRUE, ![s].RX_RD = sockets[s].rd,
                          ![s].RX_inc = 0]

Opened(sockets) ==
  LET s == Begun(sockets)
  IN IF s = NoSocket THEN sockets
     ELSE [sockets EXCEPT ![s].open = TRUE, ![s].RX_RSR = 0,
                          ![s].RX_RD = sockets[s].rd, ![s].RX_inc = 0]
-----------------------------------------------------------------------------
(* stop leaves _remaining and _remoteIP as they are.  Nobody reads them    *)
(* before begin and parsePacket have set them anew, so the objects of DHCP *)
(* and DNS, which are stopped after each use, forget them here.            *)
(*                                                                         *)
(* Ethernet.begin starts with a stop and a begin of the DHCP client; the   *)
(* link's own object stays open, if it was, until DHCP has succeeded.      *)
DhcpOpen ==
  /\ in_use \in {"nobody", "udp"}
  /\ LET after == Shut(socket, sockindex["dhcp"])
     IN /\ socket' = Opened(after)
        /\ sockindex' = [sockindex EXCEPT !["dhcp"] = Begun(after)]
        /\ IF Begun(after) = NoSocket
           THEN in_use' = "nobody" /\ UNCHANGED remaining
           ELSE in_use' = "dhcp" /\ remaining' = [remaining EXCEPT !["dhcp"] = 0]
  /\ read_bytes' = <<>>
  /\ UNCHANGED sender

DhcpFailed ==
  /\ in_use = "dhcp"
  /\ in_use' = "nobody"
  /\ socket' = Shut(socket, sockindex["dhcp"])
  /\ sockindex' = [sockindex EXCEPT !["dhcp"] = NoSocket]
  /\ remaining' = [remaining EXCEPT !["dhcp"] = 0]
  /\ sender' = [sender EXCEPT !["dhcp"] = 0]
  /\ read_bytes' = <<>>

(* internet_restart_soft goes on with udp.stop and udp.begin.              *)
UdpOpen ==
  /\ in_use = "dhcp"
  /\ LET after == Shut(Shut(socket, sockindex["dhcp"]), sockindex["udp"])
     IN /\ socket' = Opened(after)
        /\ sockindex' = [sockindex EXCEPT !["dhcp"] = NoSocket,
                                          !["udp"] = Begun(after)]
        /\ IF Begun(after) = NoSocket
           THEN in_use' = "nobody" /\ remaining' = [remaining EXCEPT !["dhcp"] = 0]
           ELSE in_use' = "udp" /\ remaining' = [remaining EXCEPT !["dhcp"] = 0,
                                                                !["udp"] = 0]
  /\ read_bytes' = <<>>
  /\ sender' = [sender EXCEPT !["dhcp"] = 0]

(* getHostByName                                                           *)
DnsOpen ==
  /\ in_use = "udp"
  /\ LET after == Shut(socket, sockindex["dns"])
     IN /\ socket' = Opened(after)
        /\ sockindex' = [sockindex EXCEPT !["dns"] = Begun(after)]
        /\ IF Begun(after) = NoSocket
           THEN UNCHANGED <<in_use, remaining>>
           ELSE in_use' = "dns" /\ remaining' = [remaining EXCEPT !["dns"] = 0]
  /\ read_bytes' = <<>>
  /\ UNCHANGED sender

DnsStop ==
  /\ in_use = "dns"
  /\ in_use' = "udp"
  /\ socket' = Shut(socket, sockindex["dns"])
  /\ sockindex' = [sockindex EXCEPT !["dns"] = NoSocket]
  /\ read_bytes' = <<>>
  /\ remaining' = [remaining EXCEPT !["dns"] = 0]
  /\ sender' = [sender EXCEPT !["dns"] = 0]

(* internet_restart_hard: the chip loses everything, the driver and the    *)
(* objects nothing.                                                        *)
ChipReset ==
  /\ in_use \in {"nobody", "udp"}
  /\ in_use' = "nobody"
  /\ socket' = [s \in Sockets |->
                  [socket[s] EXCEPT !.open = FALSE, !.rd = 0, !.fifo = <<>>]]
  /\ read_bytes' = <<>>
  /\ UNCHANGED <<sockindex, remaining, sender>>

(* A restart of the board; W5100.init resets the chip.                     *)
BoardRestart ==
  /\ socket' = [s \in Sockets |-> ClosedSocket]
  /\ sockindex' = [u \in Users |-> NoSocket]
  /\ remaining' = [u \in Users |-> 0]
  /\ sender' = [u \in Users |-> 0]
  /\ in_use' = "nobody"
  /\ read_bytes' = <<>>

Load == MapThenSumSet(LAMBDA s : Len(socket[s].fifo), Sockets)

(* A datagram comes to an open socket with room for it.                    *)
DatagramArrives(s) ==
  /\ socket[s].open
  /\ \E d \in Sizes :
       LET n == HeaderSize + d
           ring == [i \in 1..n |-> [of |-> d, left |-> n + 1 - i]]
       IN /\ Len(socket[s].fifo) + n <= BufferSize
          /\ Load + n <= LoadMax
          /\ socket' = [socket EXCEPT ![s].fifo = @ \o ring]
  /\ read_bytes' = <<>>
  /\ UNCHANGED <<sockindex, remaining, sender, in_use>>

(* The size in the last byte of a header, if it is one.                    *)
SizeIn(header) ==
  IF /\ Len(header) = HeaderSize
     /\ header[HeaderSize].left = header[HeaderSize].of + 1
  THEN header[HeaderSize].of ELSE BufferSize

(* How many bytes of the last datagram the discarding loop cannot get.     *)
Stranded(u) == remaining[u] - Count(socket[sockindex[u]], remaining[u])

(* parsePacket: the rest of the last datagram is read until it is gone,    *)
(* then the header of the next.                                            *)
ParsePacket(u) ==
  /\ in_use = u
  /\ LET s == sockindex[u]
         skipped == AfterAvailable(AfterRecv(socket[s], remaining[u]))
         header == Received(skipped, HeaderSize)
     IN IF Stranded(u) > 0
        THEN in_use' = "hung" /\ UNCHANGED <<socket, remaining, sender>>
        ELSE /\ IF skipped.RX_RSR = 0
                THEN /\ socket' = [socket EXCEPT ![s] = skipped]
                     /\ remaining' = [remaining EXCEPT ![u] = 0]
                     /\ UNCHANGED sender
                ELSE /\ socket' = [socket EXCEPT ![s] = AfterRecv(skipped, HeaderSize)]
                     /\ IF header = <<>>
                        THEN /\ remaining' = [remaining EXCEPT ![u] = 0]
                             /\ UNCHANGED sender
                        ELSE /\ remaining' = [remaining EXCEPT ![u] = SizeIn(header)]
                             /\ sender' = [sender EXCEPT ![u] = header[1].of]
             /\ UNCHANGED in_use
  /\ read_bytes' = <<>>
  /\ UNCHANGED sockindex

(* read: one byte, or a buffer of n.                                       *)
ReadInto(u, n) ==
  /\ in_use = u
  /\ LET s == sockindex[u]
         len == IF remaining[u] <= n THEN remaining[u] ELSE n
     IN IF remaining[u] = 0
        THEN read_bytes' = <<>> /\ UNCHANGED <<socket, remaining>>
        ELSE /\ read_bytes' = Received(socket[s], len)
             /\ socket' = [socket EXCEPT ![s] = AfterRecv(@, len)]
             /\ remaining' = [remaining EXCEPT ![u] = @ - Count(socket[s], len)]
  /\ UNCHANGED <<sockindex, sender, in_use>>

SocketNext ==
  \/ DhcpOpen \/ DhcpFailed \/ UdpOpen \/ DnsOpen \/ DnsStop
  \/ ChipReset \/ BoardRestart
  \/ \E s \in Sockets : DatagramArrives(s)
  \/ \E u \in Users : ParsePacket(u) \/ \E n \in 1..ReadMax : ReadInto(u, n)

SocketSpec == SocketInit /\ [][SocketNext]_socketVars
-----------------------------------------------------------------------------
(* An object whose socket is its own.                                      *)
Live(u) == in_use = u \/ (u = "udp" /\ in_use = "dns")

(* The n-th of a set of numbers.                                           *)
Nth(S, n) == CHOOSE i \in S : Cardinality({j \in S : j <= i}) = n

(* Where, behind the datagram being read, headers begin; and the datagrams *)
(* they are of, in the order they came.                                    *)
Headers(k, skipped) ==
  {i \in (Wrapped(k.RX_RD - k.rd) + skipped + 1)..Len(k.fifo) :
     k.fifo[i].left = k.fifo[i].of + HeaderSize}

Behind(u) ==
  LET k == socket[sockindex[u]]
      headers == Headers(k, remaining[u])
  IN [n \in 1..Cardinality(headers) |-> k.fifo[Nth(headers, n)].of]

Queue == INSTANCE DatagramQueue WITH
  listening <- {u \in Users : Live(u)},
  waiting <- [u \in Users |-> IF Live(u) THEN Behind(u) ELSE <<>>],
  current <- [u \in Users |-> [of |-> sender[u],
                               left |-> IF Live(u) THEN remaining[u] ELSE 0]],
  bytes <- read_bytes

(* Every object reads the datagrams sent to it whole and in order, header  *)
(* and payload apart, and misses none while its socket is open, however    *)
(* reads end in the middle, the driver falls behind the chip, pointers     *)
(* wrap, and sockets change hands or are closed by a reset.                *)
ReadsDatagrams == Queue!QueueSpec

(* parsePacket always returns: what is left of a datagram can always be    *)
(* read ("could this fail (loop endlessly)", EthernetUdp.cpp).             *)
ParseReturns == in_use /= "hung"
=============================================================================
